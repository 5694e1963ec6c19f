SPECIFICATION Spec
CONSTANTS
  Tables <- MCTables
  Plugins = 2
  Installs <- MCInstalls
  MaxMargin = 2
  Base = 2
  Waits <- MCWaits
  Held <- MCHeld
INVARIANTS
  TypeOK
  ShownIsInForce
  OptionsKept
PROPERTY
  RepeatsInTime
