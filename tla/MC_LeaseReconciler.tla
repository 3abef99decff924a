------------------------- MODULE MC_LeaseReconciler -------------------------
(* One lease token bought by a tenant, who then extends and terminates it:  *)
(* the three handlers overlap with the clock scheduler and the prune job.  *)
EXTENDS LeaseReconciler

CONSTANTS t1

MCTokens == {t1}

\* acquire, extend, terminate of t1 in ledgers 10, 11, 12.
MCEvents == <<[kind |-> "acquire", token |-> t1, ledger |-> 10],
              [kind |-> "extend", token |-> t1, ledger |-> 11],
              [kind |-> "terminate", token |-> t1, ledger |-> 12]>>

=============================================================================
