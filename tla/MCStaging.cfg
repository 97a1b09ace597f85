\* Every failure of a staging action, in two runs in the same or a fresh directory.
\* A manifest that returned, or failed for the last time, stops.
CONSTANTS
  Files <- MCFiles
  Manifests <- MCManifests
  Src = "plan"
  Dest = "tmp"
  Outputs <- MCOutputs
  Reserved <- MCReserved
  MaxRuns = 2
SPECIFICATION Spec
INVARIANTS
  TypeOK
  InputsAreStaged
  CreatedFromNothing
  StoreGetsOlder
  OutputsArePosted
CHECK_DEADLOCK FALSE
