---------------------------- MODULE SwapExecutor ----------------------------
(***************************************************************************)
(* Native BTC -> BAIT swaps: swap_executor.py, the settlement adapter of   *)
(* native_adapters.py, the status mirror of swap_service.py/swap_sync.py   *)
(* and the part of chain.py they use (the bridge wallet's coins, mempool,  *)
(* mining, the blocks on disk).  Settlement is enabled.  Every SQL         *)
(* statement of the executor commits on its own, so a worker, that is a    *)
(* thread in process_order or process_pending, may be overtaken or killed  *)
(* between any two of them, and it goes on with the row it loaded first.   *)
(***************************************************************************)
EXTENDS Integers

CONSTANTS Orders, Workers,
          Outpoints,   \* Bitcoin outputs, numbered in the order of (txid, vout)
          PaysTo,      \* the orders whose address and amount an output has
          Coins,       \* outputs of the bridge wallet, numbered by amount
          Funds,       \* those it owns at the start
          ShortCoins,  \* more than an amount to pay, less than that plus the fee
          Faults,      \* whether the process may die and an INSERT may fail
          NoDeposit, NoTx

ASSUME SwapAssumption ==
  /\ Outpoints \subseteq Nat /\ NoDeposit \notin Outpoints
  /\ Coins \subseteq Nat \ {0} /\ Funds \subseteq Coins /\ ShortCoins \subseteq Coins
  /\ PaysTo \in [Outpoints -> SUBSET Orders]
  /\ Faults \in BOOLEAN
  /\ NoTx \notin [order : Orders, coin : Coins, change : Coins \cup {0}]

VARIABLES order,       \* the executor's table orders, a row per order
          mirror,      \* swap_intents.status of the sync store
          settlement,  \* the adapter's table swap_settlements
          inflight,    \* in the mempool, not yet in the table; the adapter's lock is held
          deposits,    \* what Bitcoin Core reports of an output
          mempool, chain, stored,  \* BAIT transactions: waiting, in blocks, in blocks on disk
          pc, local    \* where a worker is, and what it remembers

vars == <<order, mirror, settlement, inflight, deposits, mempool, chain, stored, pc, local>>
db == <<order, mirror, settlement>>
bait == <<mempool, chain, stored>>

Txs == [order : Orders, coin : Coins, change : Coins \cup {0}]

Rank == [pending |-> 0, intent_validated |-> 1, btc_observed |-> 2,
         btc_confirmed |-> 3, bait_submitted |-> 4, settled |-> 5]
Path == DOMAIN Rank
Final == {"settled", "reconciling"}
States == (Path \ {"pending"}) \cup {"reconciling"}
Statuses == Path \cup {"absent", "reconciling"}

Rows == [state : States \cup {"absent"}, deposit : Outpoints \cup {NoDeposit},
         external : Txs \cup {NoTx}]

PCs == {"idle", "find", "diverge", "observe", "confirm", "submit", "insert", "submitted",
        "poll", "pool", "again", "settle", "lost", "sync", "mirror"}

\* The locals of process and _sync_status; state is also what process returns.
NoFrame == [order |-> NoTx, state |-> "absent", prior |-> NoDeposit, found |-> NoDeposit,
            deep |-> FALSE, tx |-> NoTx, mark |-> "absent"]
Frames == [order : Orders, state : States, prior : Outpoints \cup {NoDeposit},
           found : Outpoints \cup {NoDeposit}, deep : BOOLEAN, tx : Txs \cup {NoTx},
           mark : Statuses] \cup {NoFrame}

TypeOK ==
  /\ order \in [Orders -> Rows]
  /\ mirror \in [Orders -> Statuses]
  /\ settlement \in [Orders -> Txs \cup {NoTx}]
  /\ inflight \in Txs \cup {NoTx}
  /\ deposits \in [Outpoints -> {"absent", "shallow", "deep"}]
  /\ mempool \subseteq Txs /\ stored \subseteq chain /\ chain \subseteq Txs
  /\ pc \in [Workers -> PCs]
  /\ local \in [Workers -> Frames]

Init ==
  /\ order = [o \in Orders |-> [state |-> "absent", deposit |-> NoDeposit, external |-> NoTx]]
  /\ mirror = [o \in Orders |-> "absent"]
  /\ settlement = [o \in Orders |-> NoTx]
  /\ inflight = NoTx
  /\ deposits = [d \in Outpoints |-> "absent"]
  /\ mempool = {} /\ chain = {} /\ stored = {}
  /\ pc = [w \in Workers |-> "idle"]
  /\ local = [w \in Workers |-> NoFrame]

-----------------------------------------------------------------------------
(* Worker plumbing. *)

Goto(w, label) == pc' = [pc EXCEPT ![w] = label]

Frame(o, state, prior, found, deep, tx, mark) ==
  [order |-> o, state |-> state, prior |-> prior, found |-> found,
   deep |-> deep, tx |-> tx, mark |-> mark]

Keep(w, frame) == local' = [local EXCEPT ![w] = frame]

\* process returns: its state is then mirrored by _sync_status.
Return(w, state) ==
  /\ Goto(w, "sync")
  /\ Keep(w, Frame(local[w].order, state, NoDeposit, NoDeposit, FALSE, NoTx, "absent"))

\* An exception, or the end of the work: the caller goes to its next order.
Leave(w) == Goto(w, "idle") /\ Keep(w, NoFrame)

\* The unique index on the outpoint rejects d in the row of o.
HeldByAnother(o, d) == \E p \in Orders \ {o} : order[p].deposit = d

SetRow(o, state, deposit, external) ==
  order' = [order EXCEPT ![o] = [state |-> state, deposit |-> deposit, external |-> external]]

\* A state and a deposit, or only RECONCILING when the index rejects the deposit.
SetState(o, state, d) ==
  IF HeldByAnother(o, d)
  THEN SetRow(o, "reconciling", order[o].deposit, order[o].external)
  ELSE SetRow(o, state, d, order[o].external)

-----------------------------------------------------------------------------
(* Admission. *)

\* A signed intent, local or from a peer, enters the sync store.
Publish(o) ==
  /\ mirror[o] = "absent"
  /\ mirror' = [mirror EXCEPT ![o] = "pending"]
  /\ UNCHANGED <<order, settlement, inflight, deposits, bait, pc, local>>

\* Mutant: an admission always writes a new row.
AdmitAnew(w, o) ==
  /\ pc[w] = "idle"
  /\ mirror[o] # "absent"
  /\ SetRow(o, "intent_validated", order[o].deposit, order[o].external)
  /\ Goto(w, "sync")
  /\ Keep(w, Frame(o, "intent_validated", NoDeposit, NoDeposit, FALSE, NoTx, "absent"))
  /\ UNCHANGED <<mirror, settlement, inflight, deposits, bait>>

\* The executor admits it (again); process_pending goes on without mirroring.
\* An intent that expired or whose parity attestation is stale raises instead.
Admit(w, o) ==
  /\ pc[w] = "idle"
  /\ mirror[o] # "absent"
  /\ LET state == IF order[o].state = "absent" THEN "intent_validated" ELSE order[o].state IN
     /\ SetRow(o, state, order[o].deposit, order[o].external)
     /\ \/ /\ Goto(w, "sync")
           /\ Keep(w, Frame(o, state, NoDeposit, NoDeposit, FALSE, NoTx, "absent"))
        \/ mirror[o] \notin Final /\ UNCHANGED <<pc, local>>
  /\ UNCHANGED <<mirror, settlement, inflight, deposits, bait>>

-----------------------------------------------------------------------------
(* process. *)

Load(w, o) ==
  /\ pc[w] = "idle"
  /\ order[o].state # "absent"
  /\ IF order[o].state \in Final
     THEN /\ Goto(w, "sync")
          /\ Keep(w, Frame(o, order[o].state, NoDeposit, NoDeposit, FALSE, NoTx, "absent"))
     ELSE /\ Goto(w, "find")
          /\ Keep(w, Frame(o, order[o].state, order[o].deposit, NoDeposit, FALSE,
                           order[o].external, "absent"))
  /\ UNCHANGED <<db, inflight, deposits, bait>>

\* The unspent outputs scantxoutset finds for the order.
Candidates(o) == {d \in Outpoints : deposits[d] # "absent" /\ o \in PaysTo[d]}

FindNothing(w) ==
  /\ pc[w] = "find"
  /\ Candidates(local[w].order) = {}
  /\ Return(w, local[w].state)
  /\ UNCHANGED <<db, inflight, deposits, bait>>

\* Where process goes once the deposit agrees with the row it loaded.
Onward(state, deep) ==
  CASE state = "intent_validated" -> "observe"
    [] state # "intent_validated" /\ ~deep -> "sync"
    [] state = "btc_observed" /\ deep -> "confirm"
    [] state = "btc_confirmed" /\ deep -> "submit"
    [] state = "bait_submitted" /\ deep -> "poll"

FindDeposit(w) ==
  /\ pc[w] = "find"
  /\ \E d \in Candidates(local[w].order) :
       LET f == local[w]
           deep == deposits[d] = "deep"
           next == IF f.prior \notin {NoDeposit, d} THEN "diverge" ELSE Onward(f.state, deep)
       IN /\ \A e \in Candidates(f.order) : d <= e
          /\ IF next = "sync"
             THEN Return(w, f.state)
             ELSE /\ Goto(w, next)
                  /\ Keep(w, Frame(f.order, f.state, NoDeposit, d, deep, f.tx, "absent"))
  /\ UNCHANGED <<db, inflight, deposits, bait>>

\* Another output than the one on record.
Diverge(w) ==
  /\ pc[w] = "diverge"
  /\ SetState(local[w].order, "reconciling", local[w].found)
  /\ Return(w, "reconciling")
  /\ UNCHANGED <<mirror, settlement, inflight, deposits, bait>>

Observe(w) ==
  /\ pc[w] = "observe"
  /\ LET f == local[w] IN
     /\ SetState(f.order, "btc_observed", f.found)
     /\ CASE HeldByAnother(f.order, f.found) -> Return(w, "reconciling")
          [] ~HeldByAnother(f.order, f.found) /\ ~f.deep -> Return(w, "btc_observed")
          [] ~HeldByAnother(f.order, f.found) /\ f.deep ->
               /\ Goto(w, "confirm")
               /\ Keep(w, Frame(f.order, "btc_observed", NoDeposit, f.found, TRUE, f.tx, "absent"))
  /\ UNCHANGED <<mirror, settlement, inflight, deposits, bait>>

\* Mutant: the confirmation is written together with the submission only.
ConfirmInMemory(w) ==
  /\ pc[w] = "confirm"
  /\ Goto(w, "submit")
  /\ Keep(w, [local[w] EXCEPT !.state = "btc_confirmed"])
  /\ UNCHANGED <<db, inflight, deposits, bait>>

\* The result of _set_state is ignored here.
Confirm(w) ==
  /\ pc[w] = "confirm"
  /\ LET f == local[w] IN
     /\ SetState(f.order, "btc_confirmed", f.found)
     /\ Goto(w, "submit")
     /\ Keep(w, Frame(f.order, "btc_confirmed", NoDeposit, f.found, TRUE, f.tx, "absent"))
  /\ UNCHANGED <<mirror, settlement, inflight, deposits, bait>>

-----------------------------------------------------------------------------
(* submit, under the adapter's lock: taken when inflight = NoTx. *)

WithTx(f, tx) == Frame(f.order, f.state, NoDeposit, f.found, FALSE, tx, "absent")

SubmitAgain(w) ==
  /\ pc[w] = "submit"
  /\ inflight = NoTx
  /\ settlement[local[w].order] # NoTx
  /\ Goto(w, "submitted")
  /\ Keep(w, WithTx(local[w], settlement[local[w].order]))
  /\ UNCHANGED <<db, inflight, deposits, bait>>

Unspent == (Funds \cup {t.change : t \in chain}) \ ({0} \cup {t.coin : t \in chain})

Smallest(c) == c \in Unspent /\ \A e \in Unspent : c <= e

\* Mutant: a coin a waiting transaction spends is taken again.
SpendableTwice(c) == Smallest(c) /\ c \notin ShortCoins

Spendable(c) ==
  /\ Smallest(c)
  /\ c \notin ShortCoins
  /\ \A t \in mempool : t.coin # c

\* The change is smaller than the coin, and no coin anyone has seen.
FreshChange(c) ==
  {0} \cup {e \in Coins \ Funds : e < c /\ \A t \in mempool \cup chain : t.change # e}

\* Mutant: the table of settlements is not looked at first.
SubmitTxBlindly(w) ==
  /\ pc[w] = "submit"
  /\ inflight = NoTx
  /\ stored = chain
  /\ \E c \in Coins : \E change \in FreshChange(c) :
       LET tx == [order |-> local[w].order, coin |-> c, change |-> change] IN
       /\ Spendable(c)
       /\ mempool' = mempool \cup {tx}
       /\ inflight' = tx
  /\ Goto(w, "insert")
  /\ UNCHANGED <<db, deposits, chain, stored, local>>

SubmitTx(w) ==
  /\ pc[w] = "submit"
  /\ inflight = NoTx
  /\ settlement[local[w].order] = NoTx
  /\ stored = chain
  /\ \E c \in Coins : \E change \in FreshChange(c) :
       LET tx == [order |-> local[w].order, coin |-> c, change |-> change] IN
       /\ Spendable(c)
       /\ mempool' = mempool \cup {tx}
       /\ inflight' = tx
  /\ Goto(w, "insert")
  /\ UNCHANGED <<db, deposits, chain, stored, local>>

\* No coin, a coin too short for the fee, or one a waiting transaction spends.
SubmitRefused(w) ==
  /\ pc[w] = "submit"
  /\ inflight = NoTx
  /\ settlement[local[w].order] = NoTx
  /\ \A c \in Coins : ~Spendable(c)
  /\ Leave(w)
  /\ UNCHANGED <<db, inflight, deposits, bait>>

RecordSubmission(w) ==
  /\ pc[w] = "insert"
  /\ settlement' = [settlement EXCEPT ![local[w].order] = inflight]
  /\ inflight' = NoTx
  /\ Goto(w, "submitted")
  /\ Keep(w, WithTx(local[w], inflight))
  /\ UNCHANGED <<order, mirror, deposits, bait>>

\* The INSERT raises (disk full, database locked): the transaction stays in the mempool.
RecordFails(w) ==
  /\ Faults
  /\ pc[w] = "insert"
  /\ inflight' = NoTx
  /\ Leave(w)
  /\ UNCHANGED <<db, deposits, bait>>

\* A deposit another order holds raises an IntegrityError nobody catches.
MarkSubmitted(w) ==
  /\ pc[w] = "submitted"
  /\ LET f == local[w] IN
     IF HeldByAnother(f.order, f.found)
     THEN Leave(w) /\ UNCHANGED order
     ELSE /\ SetRow(f.order, "bait_submitted", f.found, f.tx)
          /\ Goto(w, "poll")
          /\ Keep(w, WithTx(f, f.tx))
  /\ UNCHANGED <<mirror, settlement, inflight, deposits, bait>>

-----------------------------------------------------------------------------
(* status, which takes no lock: blocks, then the mempool, then blocks again. *)

Mined(w) == local[w].tx \in chain

PollChain(w) ==
  /\ pc[w] = "poll"
  /\ Goto(w, IF Mined(w) THEN "settle" ELSE "pool")
  /\ UNCHANGED <<db, inflight, deposits, bait, local>>

\* Mutant: a transaction in the mempool counts as confirmed.
PollMempoolOptimist(w) ==
  /\ pc[w] = "pool"
  /\ Goto(w, IF local[w].tx \in mempool THEN "settle" ELSE "lost")
  /\ UNCHANGED <<db, inflight, deposits, bait, local>>

PollMempool(w) ==
  /\ pc[w] = "pool"
  /\ Goto(w, IF local[w].tx \in mempool THEN "again" ELSE "lost")
  /\ UNCHANGED <<db, inflight, deposits, bait, local>>

PollAgain(w) ==
  /\ pc[w] = "again"
  /\ IF Mined(w) THEN Goto(w, "settle") /\ UNCHANGED local
                 ELSE Return(w, "bait_submitted")
  /\ UNCHANGED <<db, inflight, deposits, bait>>

Close(w, state) ==
  /\ SetRow(local[w].order, state, order[local[w].order].deposit, order[local[w].order].external)
  /\ Return(w, state)
  /\ UNCHANGED <<mirror, settlement, inflight, deposits, bait>>

Settle(w) == pc[w] = "settle" /\ Close(w, "settled")
Lose(w)   == pc[w] = "lost" /\ Close(w, "reconciling")

-----------------------------------------------------------------------------
(* _sync_status: read the mirror, then one set_status after the other. *)

After(s) == CHOOSE t \in Path : Rank[t] = Rank[s] + 1

\* Nothing to do, or a state the mirror cannot reach (a RuntimeError).
SyncNothing(w) ==
  /\ pc[w] = "sync"
  /\ LET f == local[w] IN
     \/ mirror[f.order] = f.state
     \/ f.state # "reconciling" /\ mirror[f.order] = "reconciling"
     \/ /\ {f.state, mirror[f.order]} \subseteq Path
        /\ Rank[f.state] < Rank[mirror[f.order]]
  /\ Leave(w)
  /\ UNCHANGED <<db, inflight, deposits, bait>>

SyncStart(w) ==
  /\ pc[w] = "sync"
  /\ LET f == local[w]
         mark == IF f.state = "reconciling" THEN "reconciling" ELSE After(mirror[f.order])
     IN /\ mirror[f.order] # f.state
        /\ f.state # "reconciling" => /\ mirror[f.order] \in Path
                                       /\ Rank[mirror[f.order]] < Rank[f.state]
        /\ Goto(w, "mirror")
        /\ Keep(w, Frame(f.order, f.state, NoDeposit, NoDeposit, FALSE, NoTx, mark))
  /\ UNCHANGED <<db, inflight, deposits, bait>>

\* The transitions set_status allows; any other raises.
Allowed(s, t) ==
  \/ t = s
  \/ t = "reconciling" /\ s # "settled"
  \/ /\ {s, t} \subseteq Path
     /\ Rank[t] = Rank[s] + 1

SetStatus(w) ==
  /\ pc[w] = "mirror"
  /\ LET f == local[w] IN
     /\ Allowed(mirror[f.order], f.mark)
     /\ mirror' = [mirror EXCEPT ![f.order] = f.mark]
     /\ IF f.mark = f.state
        THEN Leave(w)
        ELSE /\ Keep(w, Frame(f.order, f.state, NoDeposit, NoDeposit, FALSE, NoTx, After(f.mark)))
             /\ UNCHANGED pc
  /\ UNCHANGED <<order, settlement, inflight, deposits, bait>>

SetStatusRefused(w) ==
  /\ pc[w] = "mirror"
  /\ ~Allowed(mirror[local[w].order], local[w].mark)
  /\ Leave(w)
  /\ UNCHANGED <<db, inflight, deposits, bait>>

-----------------------------------------------------------------------------
(* The two chains, and the death of the process. *)

\* A deposit is in a block, is confirmed often enough, is spent or reorganised away.
Bitcoin(d) ==
  /\ \E s \in {"absent", "shallow", "deep"} :
       /\ s # deposits[d]
       /\ deposits[d] = "absent" => s = "shallow"
       /\ deposits' = [deposits EXCEPT ![d] = s]
  /\ UNCHANGED <<db, inflight, bait, pc, local>>

\* Mutant: the block is persisted before its proof of work is known to succeed.
MineBlockPersistingFirst ==
  /\ stored = chain
  /\ \E block \in (SUBSET mempool) \ {{}} : \E mined \in BOOLEAN :
       /\ \A t \in block : t.coin \in Unspent
       /\ stored' = stored \cup block
       /\ chain' = IF mined THEN chain \cup block ELSE chain
       /\ mempool' = IF mined THEN mempool \ block ELSE mempool
  /\ UNCHANGED <<db, inflight, deposits, pc, local>>

\* Weight and the per-agent nonce rule decide which transactions a block takes.
MineBlock ==
  /\ stored = chain
  /\ \E block \in (SUBSET mempool) \ {{}} :
       /\ \A t \in block : t.coin \in Unspent
       /\ chain' = chain \cup block
       /\ mempool' = mempool \ block
  /\ UNCHANGED <<db, inflight, deposits, stored, pc, local>>

PersistBlock ==
  /\ stored # chain
  /\ stored' = chain
  /\ UNCHANGED <<db, inflight, deposits, mempool, chain, pc, local>>

\* A restart rebuilds the chain from disk; the mempool is gone.
Crash ==
  /\ Faults
  /\ chain' = stored
  /\ mempool' = {}
  /\ inflight' = NoTx
  /\ pc' = [w \in Workers |-> "idle"]
  /\ local' = [w \in Workers |-> NoFrame]
  /\ UNCHANGED <<db, deposits, stored>>

Step(w) ==
  \/ \E o \in Orders : Admit(w, o) \/ Load(w, o)
  \/ FindNothing(w) \/ FindDeposit(w) \/ Diverge(w) \/ Observe(w) \/ Confirm(w)
  \/ SubmitAgain(w) \/ SubmitTx(w) \/ SubmitRefused(w) \/ RecordSubmission(w)
  \/ RecordFails(w) \/ MarkSubmitted(w)
  \/ PollChain(w) \/ PollMempool(w) \/ PollAgain(w) \/ Settle(w) \/ Lose(w)
  \/ SyncNothing(w) \/ SyncStart(w) \/ SetStatus(w) \/ SetStatusRefused(w)

Next ==
  \/ \E w \in Workers : Step(w)
  \/ \E o \in Orders : Publish(o)
  \/ \E d \in Outpoints : Bitcoin(d)
  \/ MineBlock \/ PersistBlock \/ Crash

Spec == Init /\ [][Next]_vars

-----------------------------------------------------------------------------
(* Properties. *)

\* A swap is paid once: no two transactions that pay the same order are in
\* blocks or waiting for one (submit: idempotent by order_id).
OnePaymentPerOrder ==
  \A t, u \in mempool \cup chain : t.order = u.order => t = u

\* An order the executor or the mirror calls settled was paid: the transaction
\* in its row is the adapter's, and it is in a block.
SettledIsPaid ==
  \A o \in Orders :
    "settled" \in {order[o].state, mirror[o]} =>
      order[o].external \in chain /\ order[o].external = settlement[o]

\* An order that is settled or handed to reconciliation stays so, also when the
\* process dies between any two steps (process: early return).
FinalIsFinal ==
  [][\A o \in Orders : order[o].state \in Final => order'[o].state = order[o].state]_vars

\* The mirror never says more than the executor's own row: on the way it is not
\* ahead of it, it shows no deposit the row does not have, and it is settled or
\* reconciling only when the row is.
MirrorBehind ==
  \A o \in Orders :
    /\ mirror[o] \in Final => order[o].state = mirror[o]
    /\ mirror[o] \in Path \ {"pending"} /\ order[o].state \in Path =>
         Rank[mirror[o]] <= Rank[order[o].state]
    /\ mirror[o] \in Path /\ order[o].deposit = NoDeposit =>
         Rank[mirror[o]] < Rank["btc_observed"]

\* No payment leaves before the row says btc_confirmed: after a crash every
\* order with a payment waiting, mined or recorded is found in such a state.
ConfirmedBeforePaid ==
  \A o \in Orders :
    settlement[o] # NoTx \/ (\E t \in mempool \cup chain : t.order = o) =>
      order[o].state \in {"btc_confirmed", "bait_submitted"} \cup Final

\* What is told to the peers never runs ahead of the row, nor a payment ahead
\* of what the row says (swap_executor.py:291-306; swap_service.py:109-147).
NothingRunsAhead == MirrorBehind /\ ConfirmedBeforePaid

\* No coin of the bridge is spent twice, by two orders or two attempts.
NoCoinSpentTwice ==
  \A t, u \in mempool \cup chain : t.coin = u.coin => t = u
=============================================================================
