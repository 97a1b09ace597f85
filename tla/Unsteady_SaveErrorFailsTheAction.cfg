\* Expected to be violated: SaveErrorFailsTheAction is what the repository says, not what it does.
CONSTANT MaxAttempts <- Attempts
SPECIFICATION Spec
INVARIANT SaveErrorFailsTheAction
CHECK_DEADLOCK FALSE
