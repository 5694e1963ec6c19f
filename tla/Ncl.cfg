SPECIFICATION Spec
CONSTANTS
  Files <- MCFiles
  Behind <- MCBehind
CHECK_DEADLOCK FALSE
INVARIANTS
  TypeOK
  ReadAsWritten
  SplitAsNamed
  ExportedAsMeant
