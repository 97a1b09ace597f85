\* Every manifest, every outcome of the scripts and uploads, kills and retries.
\* A job that succeeded, or failed for the last time, stops.
CONSTANT MaxAttempts <- Attempts
SPECIFICATION FairSpec
INVARIANTS
  TypeOK
  VerdictIsTrue
  VerdictIsFresh
  ResultsAreSavedFirst
  LogAccountsForResults
  LogHoldsCollectedOutput
PROPERTIES
  LogSealsResults
  Terminates
  ImplementsComputeJob
CHECK_DEADLOCK FALSE
