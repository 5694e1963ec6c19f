\* Two lists with options and failing downloads; three games and the filter.
SPECIFICATION Spec
CONSTANTS
  Lists <- MCLists
  Title <- MCTitle
  Worlds <- MCWorlds
  Letter <- MCLetter
  StackInts <- MCStackInts
  RetCap <- MCRetCap
  LeastCount <- MCLeastCount
INVARIANTS
  TypeOK
  BackGoesToOwner
  SelectedLive
  OptionOnSelected
  UndefinedOnlyOnEmpty
  ExportsAllShown
PROPERTIES
  OneCodeAtATime
\* The program ends when the player leaves it, and nothing follows what is undefined.
CHECK_DEADLOCK FALSE
