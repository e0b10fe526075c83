--------------------------- MODULE BridgeManager ---------------------------
(***************************************************************************)
(* The Python bridge: BridgeManager (manager.py), which keeps every        *)
(* transfer in memory, and the relayers that sign its lock events          *)
(* (relayer.py, authorization.py).  A transfer is numbered in the order in *)
(* which it is made; its event and its record are two objects that each    *)
(* carry a state.  Every call on the manager is one step.                  *)
(*                                                                         *)
(* A relayer's signature covers the event, so it is named by its signer;   *)
(* signatures that do not verify, and proofs other than the one stored     *)
(* with the event, are refused before anything changes.                    *)
(***************************************************************************)
EXTENDS Integers, Sequences, FiniteSets, FiniteSetsExt

CONSTANTS Requests,       \* what may be locked: (agent, amount, recipient, chain)
          Burns,          \* what may be burned
          Agents, Agent,  \* who asks for a request
          Amount, Key,    \* the amount of a request or burn; its dedup_key
          Relayers, Threshold,
          MaxPending,     \* max_pending_per_address
          DailyLimit,     \* daily_volume_limit_bait
          MaxTransfers, MaxDays, MaxReleases  \* bounds

Ids == 1..MaxTransfers

ASSUME ManagerAssumption ==
  /\ MaxTransfers \in Nat /\ MaxDays \in Nat /\ MaxReleases \in Nat
  /\ Threshold \in Nat \ {0} /\ MaxPending \in Nat \ {0} /\ DailyLimit \in Nat
  /\ IsFiniteSet(Relayers) /\ Requests \cap Burns = {}
  /\ Agent \in [Requests -> Agents] /\ DOMAIN Key = Requests
  /\ Amount \in [Requests \cup Burns -> Nat \ {0}]

VARIABLES transfers,  \* what each transfer is, in the order of _transfers
          madeOn,     \* the day each was made
          event, record,        \* the state of its event and of its record
          signers,    \* who signed its event
          known,      \* the transfers the running manager holds
          dedup,      \* _lock_dedup
          volume,     \* _daily_volume, of today
          day, paused,
          locked, minted, burned, released,  \* the four totals
          jobs,       \* of each relayer, its job for each event that did not fail
          relayed     \* _total_relayed

vars == <<transfers, madeOn, event, record, signers, known, dedup, volume, day,
          paused, locked, minted, burned, released, jobs, relayed>>

States == {"none", "locked", "pending_proof", "proof_submitted", "minted",
           "burned", "completed", "refunded"}
Provable == {"locked", "pending_proof", "proof_submitted"}
Outcomes == {"none", "submitted", "confirmed"}

Locks == {i \in known : transfers[i] \in Requests}
IsReady(i, who) == Cardinality(who[i]) >= Threshold
Worth == [i \in DOMAIN transfers |-> Amount[transfers[i]]]
Total(S) == SumFunctionOnSet(Worth, S)

TypeOK ==
  /\ transfers \in Seq(Requests \cup Burns) /\ Len(transfers) <= MaxTransfers
  /\ madeOn \in [Ids -> 0..MaxDays]
  /\ event \in [Ids -> States] /\ record \in [Ids -> States]
  /\ signers \in [Ids -> SUBSET Relayers]
  /\ known \subseteq DOMAIN transfers
  /\ dedup \subseteq {Key[q] : q \in Requests}
  /\ volume \in [Agents -> Nat] /\ day \in 0..MaxDays /\ paused \in BOOLEAN
  /\ locked \in Nat /\ minted \in Nat /\ burned \in Nat /\ released \in Nat
  /\ jobs \in [Relayers -> [Ids -> Outcomes]]
  /\ relayed \in [Relayers -> Nat]

Init ==
  /\ transfers = <<>> /\ madeOn = [i \in Ids |-> 0]
  /\ event = [i \in Ids |-> "none"] /\ record = [i \in Ids |-> "none"]
  /\ signers = [i \in Ids |-> {}]
  /\ known = {} /\ dedup = {} /\ volume = [a \in Agents |-> 0]
  /\ day = 0 /\ paused = FALSE
  /\ locked = 0 /\ minted = 0 /\ burned = 0 /\ released = 0
  /\ jobs = [r \in Relayers |-> [i \in Ids |-> "none"]]
  /\ relayed = [r \in Relayers |-> 0]

-----------------------------------------------------------------------------
NewId == Len(transfers) + 1

PendingOf(a) == {i \in Locks : Agent[transfers[i]] = a /\ record[i] \in Provable}

CheckRateLimit(q) == volume[Agent[q]] + Amount[q] <= DailyLimit
CheckPendingLimitOrEqual(q) == Cardinality(PendingOf(Agent[q])) <= MaxPending

CheckPendingLimit(q) == Cardinality(PendingOf(Agent[q])) < MaxPending

MayLockAgain(q) == ~paused /\ CheckRateLimit(q) /\ CheckPendingLimit(q)

\* lock_bait refuses in this order; every refusal leaves the manager as it was.
MayLock(q) ==
  /\ ~paused
  /\ CheckRateLimit(q)
  /\ CheckPendingLimit(q)
  /\ Key[q] \notin dedup

Make(what, state) ==
  /\ NewId \in Ids
  /\ transfers' = Append(transfers, what)
  /\ madeOn' = [madeOn EXCEPT ![NewId] = day]
  /\ event' = [event EXCEPT ![NewId] = state]
  /\ record' = [record EXCEPT ![NewId] = state]
  /\ known' = known \cup {NewId}

LockBaitSubtracts(q) ==
  /\ MayLock(q)
  /\ Make(q, "locked")
  /\ dedup' = dedup \cup {Key[q]}
  /\ volume' = [volume EXCEPT ![Agent[q]] = @ + Amount[q]]
  /\ locked' = locked - Amount[q]
  /\ UNCHANGED <<signers, day, paused, minted, burned, released, jobs, relayed>>

LockBait(q) ==
  /\ MayLock(q)
  /\ Make(q, "locked")
  /\ dedup' = dedup \cup {Key[q]}
  /\ volume' = [volume EXCEPT ![Agent[q]] = @ + Amount[q]]
  /\ locked' = locked + Amount[q]
  /\ UNCHANGED <<signers, day, paused, minted, burned, released, jobs, relayed>>

\* Nothing of what is burned is checked against what was minted.
BurnWrapped(b) ==
  /\ ~paused
  /\ Make(b, "burned")
  /\ burned' = burned + Amount[b]
  /\ UNCHANGED <<signers, dedup, volume, day, paused, locked, minted, released,
                 jobs, relayed>>

AcceptsAnyState(i, r) == i \in known /\ transfers[i] \in Requests /\ r \notin signers[i]

Accepts(i, r) == i \in known /\ event[i] \in Provable /\ r \notin signers[i]

\* submit_proof, of a proof and a signature that verify; guarded by Accepts.
SubmitProof(i, r) ==
  /\ signers' = [signers EXCEPT ![i] = @ \cup {r}]
  /\ LET state == IF IsReady(i, signers') THEN "proof_submitted" ELSE "pending_proof"
     IN  /\ event' = [event EXCEPT ![i] = state]
         /\ record' = [record EXCEPT ![i] = state]

\* relay_event: its job is confirmed, and paid, when this very signature finds
\* the event ready; a refused one only adds a failed job, which nothing reads.
RelayEvent(r, i) ==
  /\ i \in Locks /\ jobs[r][i] # "confirmed" /\ Accepts(i, r)
  /\ SubmitProof(i, r)
  /\ IF IsReady(i, signers')
     THEN /\ jobs' = [jobs EXCEPT ![r][i] = "confirmed"]
          /\ relayed' = [relayed EXCEPT ![r] = @ + 1]
     ELSE /\ jobs' = [jobs EXCEPT ![r][i] = "submitted"]
          /\ UNCHANGED relayed
  /\ UNCHANGED <<transfers, madeOn, known, dedup, volume, day, paused, locked,
                 minted, burned, released>>

\* relay_next: the first event that still wants signatures and has no good job.
Eligible(r) ==
  {i \in Locks : event[i] \in {"locked", "pending_proof"}
                   /\ jobs[r][i] = "none"}
RelayNext(r) == \E i \in Eligible(r) : (\A j \in Eligible(r) : i <= j) /\ RelayEvent(r, i)

\* mint_wrapped looks at the signatures, not at the state or at paused; it
\* answers a second call for one event without minting again.
Mint(i) ==
  /\ event[i] # "minted" /\ IsReady(i, signers)
  /\ event' = [event EXCEPT ![i] = "minted"]
  /\ record' = [record EXCEPT ![i] = "minted"]
  /\ minted' = minted + Amount[transfers[i]]

MintWrapped(i) ==
  /\ i \in known
  /\ Mint(i)
  /\ UNCHANGED <<transfers, madeOn, signers, known, dedup, volume, day, paused,
                 locked, burned, released, jobs, relayed>>

\* release_bait checks that it was given a burn, not that it is the first time.
ReleaseBait(i) ==
  /\ i \in known \ Locks /\ released < MaxReleases
  /\ event' = [event EXCEPT ![i] = "completed"]
  /\ record' = [record EXCEPT ![i] = "completed"]
  /\ released' = released + Amount[transfers[i]]
  /\ UNCHANGED <<transfers, madeOn, signers, known, dedup, volume, day, paused,
                 locked, minted, burned, jobs, relayed>>

RefundProven(i) ==
  /\ i \in known /\ record[i] \in Provable
  /\ record' = [record EXCEPT ![i] = "refunded"]
  /\ event' = [event EXCEPT ![i] = "refunded"]
  /\ released' = released + Amount[transfers[i]]
  /\ UNCHANGED <<transfers, madeOn, signers, known, dedup, volume, day, paused,
                 locked, minted, burned, jobs, relayed>>

\* refund asks for a record that is not ready, and for no timeout; locks only
\* ever have such a record.
Refund(i) ==
  /\ i \in known /\ record[i] \in {"locked", "pending_proof"}
  /\ record' = [record EXCEPT ![i] = "refunded"]
  /\ event' = [event EXCEPT ![i] = "refunded"]
  /\ released' = released + Amount[transfers[i]]
  /\ UNCHANGED <<transfers, madeOn, signers, known, dedup, volume, day, paused,
                 locked, minted, burned, jobs, relayed>>

SetPaused ==
  /\ paused' = ~paused
  /\ UNCHANGED <<transfers, madeOn, event, record, signers, known, dedup, volume,
                 day, locked, minted, burned, released, jobs, relayed>>

\* UTC midnight: the first check of the day clears _daily_volume, and nothing
\* reads it before that check.
NewDay ==
  /\ day < MaxDays
  /\ day' = day + 1
  /\ volume' = [a \in Agents |-> 0]
  /\ UNCHANGED <<transfers, madeOn, event, record, signers, known, dedup, paused,
                 locked, minted, burned, released, jobs, relayed>>

ManagerNext ==
  \/ \E q \in Requests : LockBait(q)
  \/ \E b \in Burns : BurnWrapped(b)
  \/ \E r \in Relayers : RelayNext(r) \/ \E i \in known : RelayEvent(r, i)
  \/ \E i \in known : MintWrapped(i) \/ ReleaseBait(i) \/ Refund(i)
  \/ SetPaused
  \/ NewDay

-----------------------------------------------------------------------------
\* A transfer's event and its record, which different calls read and write,
\* are never in different states (submit_proof, mint_wrapped, release_bait and
\* refund each update the other object by a look-up that may find nothing).
RecordFollowsEvent == \A i \in known : event[i] = record[i]

\* A lock is minted, or can be, exactly when a quorum of relayers signed its
\* event; so no order of signatures, refunds and mints, by relayers and by the
\* handoff, pays a refunded lock out a second time ("No mint without valid
\* N-of-M signatures", manager.py:32).
QuorumDecides ==
  \A i \in Locks : event[i] \in {"proof_submitted", "minted"} <=> IsReady(i, signers)

\* What was minted and what was refunded add up to no more than was locked,
\* and the totals get_stats reports are those of the transfers.
TotalsFollow ==
  LET Of(state) == Total({i \in Locks : event[i] = state})
  IN  /\ locked = Total(Locks)
      /\ minted = Of("minted")
      /\ burned = Total(known \ Locks)
      /\ Of("minted") + Of("refunded") <= locked
      /\ Of("refunded") <= released

\* The limits of an agent hold over any mix of locks, refunds and days, not
\* only at the moment a lock is checked.
LimitsHold ==
  \A a \in Agents :
    /\ Cardinality(PendingOf(a)) <= MaxPending
    /\ \A d \in 0..MaxDays :
         Total({i \in Locks : Agent[transfers[i]] = a /\ madeOn[i] = d}) <= DailyLimit

\* However often it is asked again, a relayer is paid at most once for an event,
\* and only for a signature of its own that the event carries.
PaidOncePerEvent ==
  \A r \in Relayers :
    LET Confirmed == {i \in Locks : jobs[r][i] = "confirmed"}
    IN  /\ relayed[r] = Cardinality(Confirmed)
        /\ \A i \in Confirmed : r \in signers[i] /\ IsReady(i, signers)

\* The parts of the manager agree on every transfer: its event, its record, its
\* signatures, the totals and what the relayers were paid (manager.py:410-716).
TransfersAgree ==
  RecordFollowsEvent /\ QuorumDecides /\ TotalsFollow /\ PaidOncePerEvent

\* What was minted stays minted and what was refunded stays refunded, whatever
\* proof, mint or refund comes late or is repeated.
FinalStays ==
  [][\A i \in known : event[i] \in {"minted", "refunded"} => event'[i] = event[i]]_vars

\* release_bait's promise ("Release locked BAIT on b'AI'tcoin after burn
\* verification", manager.py:636): no more is released than was locked.
ReleasesLocked == released <= locked


=============================================================================
