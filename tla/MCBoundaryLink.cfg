\* Up to two actions of a manifest on every grid of times; a manifest ends.
CONSTANTS
  Scenes <- MCScenes
  MaxActions = 2
SPECIFICATION Spec
INVARIANTS
  TypeOK
  DatasetsAreWhole
  LookupAgreesWithRows
  FirstDaysAreFound
CHECK_DEADLOCK FALSE
