\* Every layout and a few larger files, edited up to three times; a manifest ends.
CONSTANTS
  Labels <- AllNames
  Contents <- Files
  Cells <- Digits
  Reformat <- Settling
  MaxEdits <- Edits
  Structures <- Table
  Curves <- SomeCurves
  Patterns <- AllPatterns
  NamesWith <- Within
  Flows <- Hydrographs
  Dam = Dam
  Levee = Levee
  Ghost = Ghost
  Unknown = Unknown
  Outlet = Outlet
  OutletEast = OutletEast
SPECIFICATION EditsSpec
INVARIANTS
  EditsTypeOK
  FileSaysWhatWasAsked
  PanicHasACause
  EditsCommute
CHECK_DEADLOCK FALSE
