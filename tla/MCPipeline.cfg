\* A job of staging, simulation and two extractions, submitted up to twice.
\* A job that succeeded, or failed for the last time, stops.
CONSTANTS
  MaxAttempts = 2
  Blocks <- MCBlocks
  BreachBlock = "breach_records"
  MaxActions = 2
  MaxDatasets = 1
  Manifests <- MCManifests
SPECIFICATION FairSpec
INVARIANTS
  TypeOK
  DocumentsAreOfTheRun
  DocumentsAreNew
  LinkedIsOfTheRun
PROPERTIES
  Terminates
  ImplementsComputeJob
CHECK_DEADLOCK FALSE
