SPECIFICATION Spec
CONSTANTS
  Files <- MCFiles
  Behind <- MCBehind
CHECK_DEADLOCK FALSE
INVARIANT
  TagsAsMeant
