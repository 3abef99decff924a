\* The daemon destroys what exists: leases are tracked, reclaimed and counted.
CONSTANTS
  t1 = t1
  Tokens <- MCTokens
  Events <- MCEvents
  MaxHalts = 0
  GatesMayTrip = TRUE
  CreateMayFail = TRUE
  DestroyMayFail = FALSE
  MaxRestarts = 1
  LateValidation = TRUE
SPECIFICATION Spec
INVARIANT ExpiryTracksLease
PROPERTIES InstancesReclaimed CountSettles
