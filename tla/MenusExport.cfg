\* What a filter hides is not exported.
SPECIFICATION Spec
CONSTANTS
  Lists <- MCLists
  Title <- MCTitle
  Worlds <- MCFilterWorlds
  Letter <- MCLetter
  StackInts <- MCStackInts
  RetCap <- MCRetCap
  LeastCount <- MCLeastCount
INVARIANT ExportsSelected
CHECK_DEADLOCK FALSE
