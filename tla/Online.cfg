\* The cache, the update of the local database, and their ends at any step.
SPECIFICATION Spec
CONSTANTS
  Names <- MCNames
  Served <- MCServed
INVARIANTS
  TypeOK
  UpdateFinished
  OneDrawer
  NullReadCause
PROPERTIES
  LoadingEnds
