\* One restart, gates that never trip: an acquire whose answer was queued
\* when the reconciler died is never answered.
CONSTANTS
  t1 = t1
  Tokens <- MCTokens
  Events <- MCEvents
  MaxHalts = 0
  GatesMayTrip = FALSE
  CreateMayFail = TRUE
  DestroyMayFail = FALSE
  MaxRestarts = 1
  LateValidation = FALSE
SPECIFICATION Spec
PROPERTY AcquireEventuallyAnswered
