\* Every manifest of three actions.  A manifest ends, and so does a failed one.
CONSTANTS
  Blocks <- MCBlocks
  BreachBlock <- MCBreachBlock
  MaxActions = 3
  MaxDatasets = 2
SPECIFICATION Spec
INVARIANTS
  NothingElseIsLost
  RepeatedOnlyAfterBreach
PROPERTIES
  ImplementsOutbox
CHECK_DEADLOCK FALSE
