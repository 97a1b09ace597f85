\* Every course of the velocity over five steps, every place of the breach time.
CONSTANTS
  NaN = NaN
  Absent = Absent
  Null = Null
  Threshold = 15
  Files <- MCFiles
SPECIFICATION Spec
INVARIANTS
  EveryBreachIsRecorded
  DocumentTellsConnectionsApart
  StagesAreBeforeTheBreach
  MaximaAreOfTheirVariable
  DurationIsOfFirstExcess
CHECK_DEADLOCK FALSE
