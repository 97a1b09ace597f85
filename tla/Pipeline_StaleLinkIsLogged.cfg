\* Expected to be violated: StaleLinkIsLogged is what the repository says, not what it does.
CONSTANTS
  MaxAttempts = 2
  Blocks <- MCBlocks
  BreachBlock = "breach_records"
  MaxActions = 2
  MaxDatasets = 1
  Manifests <- MCManifests
SPECIFICATION Spec
INVARIANT StaleLinkIsLogged
CHECK_DEADLOCK FALSE
