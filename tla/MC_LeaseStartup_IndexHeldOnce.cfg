\* The inconsistency fix re-offers the index of a sold lease.
CONSTANTS
  a1 = a1
  a2 = a2
  Amounts <- MCAmounts
  InitTokens <- MCTokens
  InitRows <- MCRows
  InitLeaseAmount = a1
  MaxInstanceCount = 4
  MaxMints = 3
  Missed <- MCMissed
  InitLastWatched = 10
  DestroyMayFail = TRUE
SPECIFICATION Spec
INVARIANT IndexHeldOnce
