\* Safety of the lease protocol with every daemon call allowed to fail.
CONSTANTS
  t1 = t1
  Tokens <- MCTokens
  Events <- MCEvents
  MaxHalts = 1
  GatesMayTrip = TRUE
  CreateMayFail = TRUE
  DestroyMayFail = TRUE
  MaxRestarts = 0
  LateValidation = TRUE
SPECIFICATION Spec
INVARIANTS TypeOK 
