---------------------------- MODULE LeaseStartup ----------------------------
(***************************************************************************)
(* The reconciler's startup (MessageBoard.init in src/unnamed/part_000):  *)
(* #catchupMissedLeases replays the lease transactions since the         *)
(* checkpoint, the lease amount is taken from an existing offer,          *)
(* #offerUnofferedLeases offers minted tokens that have no sell offer,    *)
(* and                                                                     *)
(* #fixLeaseInconsistencies brings the number of lease tokens to           *)
(* max_instance_count by burning unsold tokens or offering new indexes.   *)
(*                                                                         *)
(* The acquire handler is attached after the catch-up and the amount     *)
(* check (line 203); from then on a tenant may buy an offered token at    *)
(* any time, and the handler writes an Acquiring row and queues the      *)
(* acquireSuccess that marks it Acquired.                                 *)
(* Queued callbacks run only once the clock scheduler starts, after the  *)
(* fix (line 264), and each runs once, in order (QueueContract).          *)
(*                                                                         *)
(* Ledger state: token maps each live lease URIToken id to its lease      *)
(* index, owner, whether the host has a sell offer on it, and the amount  *)
(* encoded in its URI.  Burned tokens leave the domain.                   *)
(***************************************************************************)
EXTENDS Integers, Sequences, FiniteSets, TLC

CONSTANTS
  InitTokens,        \* the host's lease tokens on the ledger at startup
  InitRows,          \* the lease table at startup (token id -> status)
  InitLeaseAmount,   \* cfg.xrpl.leaseAmount in the reconciler config
  Amounts,           \* lease amounts a token URI may carry
  MaxInstanceCount,  \* sashiConfig.system.max_instance_count
  MaxMints,          \* bound on tokens minted during the run
  Missed,            \* lease transactions since last_watched_ledger, in order
  InitLastWatched,   \* last_watched_ledger at startup
  DestroyMayFail     \* sashi destroy may fail

Owners == {"host", "tenant"}
TokenRec == [idx : Nat, owner : Owners, offered : BOOLEAN, amount : Amounts]
LeaseStatuses == {"Acquiring", "Acquired", "Extended", "Destroyed", "Burned"}
Live == {"Acquired", "Extended"}

ASSUME \A t \in DOMAIN InitTokens : InitTokens[t] \in TokenRec
ASSUME DOMAIN InitRows \subseteq DOMAIN InitTokens
ASSUME MaxInstanceCount \in Nat /\ MaxMints \in Nat
\* A missed transaction: its kind, token and ledger; whether it is in the
\* checkpoint ledger, and whether a later transaction answers it.
ASSUME \A i \in DOMAIN Missed :
         Missed[i] \in [kind : {"acquire", "extend", "terminate"}, tok : Nat,
                        ledger : Nat, atCheckpoint : BOOLEAN, answered : BOOLEAN]
ASSUME DestroyMayFail \in BOOLEAN

VARIABLES
  token,       \* ledger: live lease tokens
  rows,        \* lease table: status of the row of a token
  leaseAmount, \* this.cfg.xrpl.leaseAmount
  pc,          \* startup step: "catchup", "amount", "unoffered", "fixRows",
               \* "fixTokens", "done"
  cx,          \* catch-up: the next missed transaction
  lastWatched, \* util table: last_watched_ledger
  expiry,      \* this.expiryList (its tokens)
  soldSnap,    \* #fixLeaseInconsistencies: the Acquired/Extended rows it read
  bought,      \* tokens bought whose AcquireLease event is not yet handled
  txq,         \* queued callbacks
  nextId       \* id the ledger gives the next minted token

vars == <<token, rows, leaseAmount, pc, cx, lastWatched, expiry, soldSnap,
          bought, txq, nextId>>
catchVars == <<cx, lastWatched, expiry>>

\* A queued callback: what it submits, the token or the index it is about,
\* and for recreateLeaseOffer whether it was called with noLeaseRecord.
CB(k, t, i, a) == [kind |-> k, tok |-> t, idx |-> i, amount |-> a, noRow |-> FALSE]
Reoffer(t, noRow) ==
  [kind |-> "reoffer", tok |-> t, idx |-> token[t].idx, amount |-> token[t].amount,
   noRow |-> noRow]
Queue(cbs) == txq' = txq \o cbs

HostOwned == {t \in DOMAIN token : token[t].owner = "host"}

\* First free ids: one more than any id the ledger has handed out.
FirstId == 1 + Cardinality(DOMAIN InitTokens)

Init ==
  /\ token = InitTokens
  /\ rows = InitRows
  /\ leaseAmount = InitLeaseAmount
  /\ pc = "catchup"
  /\ cx = 1
  /\ lastWatched = InitLastWatched
  \* init: every Acquired/Extended row goes on the expiry list (line 117).
  /\ expiry = {t \in DOMAIN InitRows : InitRows[t] \in Live}
  /\ soldSnap = {}
  /\ bought = {}
  /\ txq = <<>>
  /\ nextId = FirstId

-----------------------------------------------------------------------------
(* #catchupMissedLeases (lines 1013-1217): the lease rows are read once,   *)
(* when it starts (the table is still InitRows then); each transaction    *)
(* since the checkpoint advances last_watched_ledger and, unless it sits  *)
(* in the checkpoint ledger and a later transaction answers it, is acted  *)
(* on again.                                                              *)

\* The lease token is still on the ledger and held by a tenant.
TenantHolds(t) == t \in DOMAIN token /\ token[t].owner = "tenant"

\* #expireInstance(item) for a terminate: destroyInstance (sashi destroy,
\* status Destroyed, recreateLeaseOffer); a failed destroy is caught and
\* logged.  The token exists (the caller checked its owner).
ExpireInstance(t) ==
  \/ /\ rows' = [rows EXCEPT ![t] = "Destroyed"]
     /\ Queue(<<Reoffer(t, FALSE)>>)
  \/ /\ DestroyMayFail
     /\ UNCHANGED <<rows, txq>>

CatchupTx ==
  /\ pc = "catchup" /\ cx <= Len(Missed)
  /\ LET tx == Missed[cx]
         t  == tx.tok
     IN
     /\ lastWatched' = tx.ledger
     /\ cx' = cx + 1
     /\ IF tx.atCheckpoint /\ tx.answered
        THEN UNCHANGED <<rows, expiry, txq>>
        ELSE CASE tx.kind = "acquire" ->
                    \* No row: the slot is re-offered and the tenant refunded.
                    /\ IF t \notin DOMAIN InitRows /\ TenantHolds(t)
                       THEN Queue(<<Reoffer(t, TRUE), CB("refund", t, 0, token[t].amount)>>)
                       ELSE UNCHANGED txq
                    /\ UNCHANGED <<rows, expiry>>
               [] tx.kind = "extend" ->
                    /\ IF t \in DOMAIN InitRows /\ InitRows[t] \in Live /\ TenantHolds(t)
                       THEN Queue(<<CB("refund", t, 0, token[t].amount)>>)
                       ELSE UNCHANGED txq
                    /\ UNCHANGED <<rows, expiry>>
               [] tx.kind = "terminate" ->
                    IF ~TenantHolds(t) THEN UNCHANGED <<rows, expiry, txq>>
                    ELSE IF t \in DOMAIN InitRows /\ InitRows[t] \in Live
                    THEN IF t \in expiry
                         THEN /\ expiry' = expiry \ {t}
                              /\ ExpireInstance(t)
                         ELSE UNCHANGED <<rows, expiry, txq>>
                    \* No live row: expireLease, then offerLease of its index.
                    ELSE /\ Queue(<<CB("expire", t, 0, token[t].amount),
                                    CB("offer", 0, token[t].idx, token[t].amount)>>)
                         /\ UNCHANGED <<rows, expiry>>
  /\ UNCHANGED <<token, leaseAmount, pc, soldSnap, bought, nextId>>

CatchupEnd ==
  /\ pc = "catchup" /\ cx > Len(Missed)
  /\ pc' = "amount"
  /\ UNCHANGED <<token, rows, leaseAmount, catchVars, soldSnap, bought, txq, nextId>>

-----------------------------------------------------------------------------
(* Startup steps, each ending at the await that hands control to another   *)
(* task.                                                                   *)

\* hostClient.getLeaseOffers, then the amount of the first offer wins over
\* the config when they differ (persistConfig).  The ledger lists offers in
\* an order the code does not choose: any offer may come first.
AdoptLeaseAmount ==
  /\ pc = "amount"
  /\ LET offers == {t \in HostOwned : token[t].offered} IN
     IF offers = {} THEN UNCHANGED leaseAmount
     ELSE \E t \in offers : leaseAmount' = token[t].amount
  /\ pc' = "unoffered"
  /\ UNCHANGED <<token, rows, soldSnap, bought, txq, nextId, catchVars>>

\* #offerUnofferedLeases: every host token without a sell offer whose URI
\* amount matches the config gets an offerMintedLease; the others are
\* only reported.
offerUnofferedLeases ==
  /\ pc = "unoffered"
  /\ LET unoffered == {t \in HostOwned : ~token[t].offered}
         matching  == {t \in unoffered : token[t].amount = leaseAmount}
     IN  \E order \in [1 .. Cardinality(matching) -> matching] :
           /\ \A i, j \in DOMAIN order : i # j => order[i] # order[j]
           /\ Queue([i \in DOMAIN order |-> CB("offerMinted", order[i], 0, leaseAmount)])
  /\ pc' = "fixRows"
  /\ UNCHANGED <<token, rows, leaseAmount, soldSnap, bought, nextId, catchVars>>

\* #fixLeaseInconsistencies, up to the await on getURITokens: the sold
\* count is the number of Acquired/Extended rows.
FixReadRows ==
  /\ pc = "fixRows"
  /\ soldSnap' = {t \in DOMAIN rows : rows[t] \in Live}
  /\ pc' = "fixTokens"
  /\ UNCHANGED <<token, rows, leaseAmount, bought, txq, nextId, catchVars>>

(***************************************************************************)
(* getVacantLeaseIndexes(false): acquired starts as the unsold tokens'    *)
(* indexes, then each sold lease's index is looked up; i counts up from   *)
(* 0 and every i not acquired is vacant until vacant and acquired         *)
(* together number max_instance_count.                                     *)
(***************************************************************************)
\* The lookups of the sold leases' indexes that succeed.  The helper is a
\* plain `async function` inside a class method, so `this` is undefined in
\* it (class code is strict): this.hostClient throws a TypeError that the
\* empty catch swallows, for every lease.
SoldIndexLookups(sold) == {}

RECURSIVE FreeIndexes(_, _, _)
\* The first k naturals from i on that are not in held, in increasing order.
FreeIndexes(held, k, i) ==
  IF k <= 0 THEN <<>>
  ELSE IF i \in held THEN FreeIndexes(held, k, i + 1)
  ELSE <<i>> \o FreeIndexes(held, k - 1, i + 1)

getVacantLeaseIndexes(unsold, sold) ==
  LET acquired == {token[t].idx : t \in unsold} \cup SoldIndexLookups(sold)
      \* acquired.length: one entry per unsold token and per successful lookup
      count    == Cardinality(unsold) + Cardinality(SoldIndexLookups(sold))
  IN  FreeIndexes(acquired, MaxInstanceCount - count, 0)

\* The unsold tokens sorted by lease index with the first
\* (total - sold) kept: the rest are burned.
TokensToBurn(unsold, soldCount) ==
  {t \in unsold :
     Cardinality({u \in unsold : token[u].idx < token[t].idx
                                 \/ (token[u].idx = token[t].idx /\ u < t)})
       >= MaxInstanceCount - soldCount}

\* The rest of #fixLeaseInconsistencies: the unsold tokens are the host's
\* own lease tokens (offered or not); expireLease is queued for each token
\* to burn and offerLease for each vacant index.
FixApply ==
  /\ pc = "fixTokens"
  /\ LET sold   == soldSnap
         unsold == HostOwned
         total  == Cardinality(sold) + Cardinality(unsold)
     IN  IF MaxInstanceCount > 0 /\ Cardinality(sold) <= MaxInstanceCount
            /\ total # MaxInstanceCount
         THEN IF MaxInstanceCount < total
              THEN LET burn == TokensToBurn(unsold, Cardinality(sold)) IN
                   \E order \in [1 .. Cardinality(burn) -> burn] :
                     /\ \A i, j \in DOMAIN order : i # j => order[i] # order[j]
                     /\ Queue([i \in DOMAIN order |-> CB("expire", order[i], 0, leaseAmount)])
              ELSE LET vacant == getVacantLeaseIndexes(unsold, sold) IN
                   Queue([i \in DOMAIN vacant |-> CB("offer", 0, vacant[i], leaseAmount)])
         ELSE UNCHANGED txq
  /\ pc' = "done"
  /\ UNCHANGED <<token, rows, leaseAmount, soldSnap, bought, nextId, catchVars>>

-----------------------------------------------------------------------------
(* Tenants and the acquire handler.                                        *)

\* A tenant buys an offered lease token (URITokenBuy on the ledger), once
\* the acquire handler is attached.
Buy(t) ==
  /\ pc \notin {"catchup", "amount"}
  /\ t \in HostOwned /\ token[t].offered
  /\ token' = [token EXCEPT ![t].owner = "tenant", ![t].offered = FALSE]
  /\ bought' = bought \cup {t}
  /\ UNCHANGED <<rows, leaseAmount, pc, soldSnap, txq, nextId, catchVars>>

\* handleAcquireLease, success path: the Acquiring row (createLeaseRecord)
\* and the queued acquireSuccess whose callback marks it Acquired.
HandleAcquire(t) ==
  /\ t \in bought
  /\ rows' = rows @@ (t :> "Acquiring")
  /\ Queue(<<CB("acquireSuccess", t, 0, leaseAmount)>>)
  /\ bought' = bought \ {t}
  /\ UNCHANGED <<token, leaseAmount, pc, soldSnap, nextId, catchVars>>

-----------------------------------------------------------------------------
(* The clock scheduler's drain: the callback at the head runs.             *)

\* The ledger mints a new lease token for index i, offered by the host.
Mint(base, i, a) ==
  /\ nextId < FirstId + MaxMints
  /\ token' = base @@ (nextId :> [idx |-> i, owner |-> "host", offered |-> TRUE,
                                  amount |-> a])
  /\ nextId' = nextId + 1

Burned(t) == [u \in DOMAIN token \ {t} |-> token[u]]

\* The recreateLeaseOffer callback (lines 1229-1276): burn the token when
\* the lease was destroyed (or there is no row) and mark the row Burned;
\* then, if the row is Burned (or there is none), offer the index again at
\* the configured amount and delete the row.
RecreateLeaseOffer(cb) ==
  LET t      == cb.tok
      status == IF t \in DOMAIN rows THEN rows[t] ELSE "none"
      burn   == cb.noRow \/ status = "Destroyed"
      base   == IF burn THEN Burned(t) ELSE token
      offer  == cb.noRow \/ burn \/ status = "Burned"
  IN  IF offer
      THEN /\ Mint(base, cb.idx, leaseAmount)
           /\ rows' = IF cb.noRow THEN rows ELSE [u \in DOMAIN rows \ {t} |-> rows[u]]
      ELSE /\ token' = base
           /\ UNCHANGED <<rows, nextId>>

\* What a callback does on the ledger and in the lease table.
RunCallback(cb) ==
  CASE cb.kind = "offerMinted" ->
         /\ token' = IF cb.tok \in HostOwned
                     THEN [token EXCEPT ![cb.tok].offered = TRUE] ELSE token
         /\ UNCHANGED <<rows, nextId>>
    [] cb.kind = "expire" ->
         /\ token' = Burned(cb.tok)
         /\ UNCHANGED <<rows, nextId>>
    [] cb.kind = "offer" ->
         /\ Mint(token, cb.idx, cb.amount)
         /\ UNCHANGED rows
    [] cb.kind = "reoffer" -> RecreateLeaseOffer(cb)
    [] cb.kind = "refund" -> UNCHANGED <<token, rows, nextId>>
    [] cb.kind = "acquireSuccess" ->
         /\ rows' = [rows EXCEPT ![cb.tok] = "Acquired"]
         /\ UNCHANGED <<token, nextId>>

ProcessQueue ==
  /\ pc = "done"
  /\ txq # <<>>
  /\ RunCallback(Head(txq))
  /\ txq' = Tail(txq)
  /\ UNCHANGED <<leaseAmount, pc, soldSnap, bought, catchVars>>

Next ==
  \/ CatchupTx
  \/ CatchupEnd
  \/ AdoptLeaseAmount
  \/ offerUnofferedLeases
  \/ FixReadRows
  \/ FixApply
  \/ \E t \in DOMAIN token : Buy(t)
  \/ \E t \in bought : HandleAcquire(t)
  \/ ProcessQueue

Spec == Init /\ [][Next]_vars

-----------------------------------------------------------------------------
TypeOK ==
  /\ \A t \in DOMAIN token : token[t] \in TokenRec
  /\ \A t \in DOMAIN rows : rows[t] \in LeaseStatuses
  /\ leaseAmount \in Amounts
  /\ pc \in {"catchup", "amount", "unoffered", "fixRows", "fixTokens", "done"}
  /\ cx \in 1 .. Len(Missed) + 1
  /\ expiry \subseteq DOMAIN InitRows
  /\ bought \subseteq DOMAIN token
  /\ nextId \in Nat

(* Spec 4.11: the inconsistency fix offers only indexes in               *)
(* 0..total-1 that no lease token holds, so no two live lease tokens     *)
(* share a lease index (and with it the instance slot and the outbound   *)
(* IPv6 address generateIPV6Address derives from it).                   *)
IndexHeldOnce ==
  \A a, b \in DOMAIN token : a # b => token[a].idx # token[b].idx
=============================================================================
