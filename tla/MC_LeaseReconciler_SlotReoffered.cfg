\* The prune job deletes a Burned row before recreateLeaseOffer offers the slot.
CONSTANTS
  t1 = t1
  Tokens <- MCTokens
  Events <- MCEvents
  MaxHalts = 1
  GatesMayTrip = TRUE
  CreateMayFail = TRUE
  DestroyMayFail = FALSE
  MaxRestarts = 0
  LateValidation = TRUE
SPECIFICATION Spec
PROPERTY SlotReoffered
