SPECIFICATION Spec
CONSTANTS
  Screens <- MCScreens
  Room = 2
  Slots = 2
  Calls <- MCCalls
\* Nothing follows a read behind a buffer.
CHECK_DEADLOCK FALSE
INVARIANTS
  TypeOK
  KeptInFrame
  InBuffer
  CutAsFits
PROPERTY
  EveryTextDrawn
