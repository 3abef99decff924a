\* An acquireSuccess validated after its submission timed out: the retry
\* skips updateAcquiredRecord and the prune job takes the row for an orphan.
CONSTANTS
  t1 = t1
  Tokens <- MCTokens
  Events <- MCEvents
  MaxHalts = 0
  GatesMayTrip = FALSE
  CreateMayFail = FALSE
  DestroyMayFail = FALSE
  MaxRestarts = 0
  LateValidation = TRUE
SPECIFICATION Spec
INVARIANT SuccessNotRefunded
