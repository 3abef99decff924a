------------------------------ MODULE MC_TxQueue ------------------------------
EXTENDS TxQueue

CONSTANTS a1, a2, a3

\* a1: a delayed single-transaction callback (the heartbeat);
\* a2: the acquire success callback; a3: recreateLeaseOffer.
MCActions == {a1, a2, a3}
MCKind == (a1 :> "single") @@ (a2 :> "acquireSuccess") @@ (a3 :> "reoffer")

MCMaxAttempts == [a \in MCActions |-> 2]
=============================================================================
