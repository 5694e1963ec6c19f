\* A day-old list and no network.
SPECIFICATION Spec
CONSTANTS
  Names <- MCNames
  Served <- MCServed
INVARIANT ListOrNull
