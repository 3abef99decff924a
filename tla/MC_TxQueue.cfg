CONSTANTS
  a1 = a1
  a2 = a2
  a3 = a3
  Delayed = {a1}
  AffordableExtraFee = 3
  Actions <- MCActions
  Kind <- MCKind
  MaxAttempts <- MCMaxAttempts
SPECIFICATION Spec
INVARIANTS TypeOK AtMostOnce FeeBounded
PROPERTY Settles
\* Once every callback has settled the queue stays empty: the clock
\* scheduler keeps ticking but has nothing to drain.
CHECK_DEADLOCK FALSE
