\* Any selection, any data and any attributes.  An extraction ends.
CONSTANTS
  NoPattern = NoPattern
  BadPattern = BadPattern
  NaN = NaN
  Null = Null
  Unreadable = Unreadable
  Inputs <- MCInputs
SPECIFICATION Spec
INVARIANTS
  DocumentedAreTried
  OnlySelectedAreRecorded
  KeyIsShiftedByLeftOut
  SummariesAreExtremes
CHECK_DEADLOCK FALSE
