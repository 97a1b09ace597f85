\* Expected to be violated: EqualTimesAreFound is what the repository says, not what it does.
CONSTANTS
  Scenes <- MCScenes
  MaxActions = 1
SPECIFICATION Spec
INVARIANT EqualTimesAreFound
CHECK_DEADLOCK FALSE
