---------------------------- MODULE MC_LeaseStartup ----------------------------
(***************************************************************************)
(* A host restarted with four instance slots configured and three lease   *)
(* tokens: index 0 sold (its row Acquired), index 1 offered, index 2      *)
(* minted without an offer at an older lease amount, index 3 offered.     *)
(* While the reconciler was down a tenant bought index 3 (token 4, no row *)
(* yet) and the tenant of index 0 extended (answered in the checkpoint    *)
(* ledger) and then terminated.                                            *)
(***************************************************************************)
EXTENDS LeaseStartup

CONSTANTS a1, a2

MCAmounts == {a1, a2}

MCTokens ==
  (1 :> [idx |-> 0, owner |-> "tenant", offered |-> FALSE, amount |-> a1])
  @@ (2 :> [idx |-> 1, owner |-> "host", offered |-> TRUE, amount |-> a1])
  @@ (3 :> [idx |-> 2, owner |-> "host", offered |-> FALSE, amount |-> a2])
  @@ (4 :> [idx |-> 3, owner |-> "tenant", offered |-> FALSE, amount |-> a1])

MCRows == 1 :> "Acquired"

\* The lease transactions since the checkpoint (ledger 10).
MCMissed ==
  <<[kind |-> "extend", tok |-> 1, ledger |-> 10, atCheckpoint |-> TRUE, answered |-> TRUE],
    [kind |-> "acquire", tok |-> 4, ledger |-> 11, atCheckpoint |-> FALSE, answered |-> FALSE],
    [kind |-> "terminate", tok |-> 1, ledger |-> 12, atCheckpoint |-> FALSE, answered |-> FALSE]>>
=============================================================================
