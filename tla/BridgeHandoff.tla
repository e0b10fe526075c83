--------------------------- MODULE BridgeHandoff ---------------------------
(***************************************************************************)
(* SwapBridgeHandoff (bridge_handoff.py): it locks at most once for an     *)
(* order, then submits relayers' signatures and mints.  Its rows are       *)
(* durable, the manager it drives is not: a restart empties the manager    *)
(* and keeps the rows.  Its lock admits one call at a time, but relayers   *)
(* and operators call the manager between the calls it makes, and a write  *)
(* of its row may fail after the manager has moved.                        *)
(***************************************************************************)
EXTENDS BridgeManager

CONSTANTS Orders,   \* the requests that are swap orders
          MaxBatch  \* a bound: signatures in one call

ASSUME HandoffAssumption == Orders \subseteq Requests /\ MaxBatch \in Nat

VARIABLES rows,  \* swap_bridge_handoffs
          call   \* the submit_proof_and_mint in progress, if any

hvars == <<vars, rows, call>>

NoRow == [transfer |-> 0, state |-> "none"]
Idle == [order |-> "none", left |-> <<>>]
Batches == {s \in UNION {[1..n -> Relayers] : n \in 1..MaxBatch} :
              \A i, j \in DOMAIN s : s[i] = s[j] => i = j}
TransferOf(o) == rows[o].transfer

HandoffTypeOK ==
  /\ TypeOK
  /\ rows \in [Orders -> [transfer : Ids \cup {0},
                          state : {"none", "locked", "pending_proof", "minted"}]]
  /\ call.left \in Seq(Relayers)
  /\ call = Idle \/ call.order \in Orders

HandoffInit == Init /\ rows = [o \in Orders |-> NoRow] /\ call = Idle

-----------------------------------------------------------------------------
\* start_lock on an order without a row; with one it answers from the row.
StartLock(o) ==
  /\ call = Idle /\ rows[o] = NoRow
  /\ LockBait(o)
  /\ \/ rows' = [rows EXCEPT ![o] = [transfer |-> NewId, state |-> "locked"]]
     \/ UNCHANGED rows   \* the INSERT failed
  /\ UNCHANGED call

\* submit_proof_and_mint, once every signature of the batch has verified.
BeginSubmit(o, batch) ==
  /\ call = Idle /\ rows[o].state \in {"locked", "pending_proof"}
  /\ call' = [order |-> o, left |-> batch]
  /\ UNCHANGED <<vars, rows>>

SubmitNextIgnoresRefusal ==
  /\ call # Idle /\ call.left # <<>>
  /\ LET i == TransferOf(call.order)
         r == Head(call.left)
     IN  IF Accepts(i, r) THEN SubmitProof(i, r) ELSE UNCHANGED <<signers, event, record>>
  /\ call' = [call EXCEPT !.left = Tail(@)]
  /\ UNCHANGED <<transfers, madeOn, known, dedup, volume, day, paused, locked,
                 minted, burned, released, jobs, relayed, rows>>

\* Each signature is a call on the manager; the first it refuses ends the call
\* and leaves those before it in place.
SubmitNext ==
  /\ call # Idle /\ call.left # <<>>
  /\ LET i == TransferOf(call.order)
         r == Head(call.left)
     IN  IF Accepts(i, r)
         THEN /\ SubmitProof(i, r)
              /\ call' = [call EXCEPT !.left = Tail(@)]
         ELSE UNCHANGED <<signers, event, record>> /\ call' = Idle
  /\ UNCHANGED <<transfers, madeOn, known, dedup, volume, day, paused, locked,
                 minted, burned, released, jobs, relayed, rows>>

\* The row after the last signature, if its UPDATE succeeds.
CloseRow(state) ==
  /\ rows' = [rows EXCEPT ![call.order].state = state] \/ UNCHANGED rows
  /\ call' = Idle

\* mint_wrapped may find the event minted already, and then succeeds too.
EndReady ==
  LET i == TransferOf(call.order)
  IN  /\ call # Idle /\ call.left = <<>> /\ IsReady(i, signers)
      /\ MintWrapped(i) \/ (event[i] = "minted" /\ UNCHANGED vars)
      /\ CloseRow("minted")

EndPending ==
  /\ call # Idle /\ call.left = <<>> /\ ~IsReady(TransferOf(call.order), signers)
  /\ CloseRow("pending_proof")
  /\ UNCHANGED vars

\* The process is killed, in the middle of a call or not, and starts again.
Restart ==
  /\ known' = {} /\ dedup' = {} /\ volume' = [a \in Agents |-> 0] /\ paused' = FALSE
  /\ locked' = 0 /\ minted' = 0 /\ burned' = 0 /\ released' = 0
  /\ jobs' = [r \in Relayers |-> [i \in Ids |-> "none"]]
  /\ relayed' = [r \in Relayers |-> 0]
  /\ call' = Idle
  /\ UNCHANGED <<transfers, madeOn, event, record, signers, day, rows>>

HandoffNext ==
  \/ ManagerNext /\ UNCHANGED <<rows, call>>
  \/ \E o \in Orders : StartLock(o) \/ \E batch \in Batches : BeginSubmit(o, batch)
  \/ SubmitNext
  \/ EndReady
  \/ EndPending
  \/ Restart

HandoffSpec == HandoffInit /\ [][HandoffNext]_hvars

-----------------------------------------------------------------------------
\* Retries, failed inserts and direct locks never lock twice for the same
\* agent, amount and recipient in one run of the manager; the row of an order
\* names a lock of that order.
OneLockPerOrder ==
  /\ \A i, j \in Locks : Key[transfers[i]] = Key[transfers[j]] => i = j
  /\ \A o \in Orders : rows[o] # NoRow => transfers[TransferOf(o)] = o

\* The durable row may lag behind the manager (a refused signature, a failed
\* UPDATE) but never says more than happened.
RowNeverAhead ==
  \A o \in Orders :
    /\ rows[o].state = "pending_proof" => signers[TransferOf(o)] # {}
    /\ rows[o].state = "minted" => event[TransferOf(o)] = "minted"

\* An order keeps the lock it was mapped to and a minted row stays minted,
\* across restarts too; and once a restart lost the lock, nothing that is
\* submitted for the order changes its row.
RowsAreKept ==
  [][\A o \in Orders :
       rows[o] # NoRow =>
         /\ rows'[o].transfer = rows[o].transfer
         /\ rows[o].state = "minted" => rows'[o] = rows[o]
         /\ TransferOf(o) \notin known => rows'[o] = rows[o]]_hvars

\* What is minted, refunded or written down is never taken back, by a later
\* call, a failed one or a restart (manager.py:696-706; bridge_handoff.py:98-163).
NothingIsTakenBack == FinalStays /\ RowsAreKept

=============================================================================
