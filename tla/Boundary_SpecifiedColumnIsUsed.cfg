\* Expected to be violated: SpecifiedColumnIsUsed is what the repository says, not what it does.
CONSTANTS
  Scenes <- MCScenes
  MaxActions = 1
SPECIFICATION Spec
INVARIANT SpecifiedColumnIsUsed
CHECK_DEADLOCK FALSE
