------------------------ MODULE BridgeHandoffProofs ------------------------
(***************************************************************************)
(* Proofs about BridgeManager and BridgeHandoff for any number of relayers *)
(* and orders, any threshold and any limits.                               *)
(***************************************************************************)
EXTENDS BridgeHandoff, SumTheorems, TLAPS

-----------------------------------------------------------------------------
(* The steps *)

\* What one more signature changes; a relayer's job may go with it.
ProofStep(i, r) ==
  /\ Accepts(i, r)
  /\ SubmitProof(i, r)
  /\ \/ UNCHANGED <<jobs, relayed>>
     \/ /\ i \in Locks /\ jobs[r][i] # "confirmed"
        /\ \/ /\ IsReady(i, signers')
              /\ jobs' = [jobs EXCEPT ![r][i] = "confirmed"]
              /\ relayed' = [relayed EXCEPT ![r] = @ + 1]
           \/ jobs' = [jobs EXCEPT ![r][i] = "submitted"] /\ UNCHANGED relayed
  /\ UNCHANGED <<transfers, madeOn, known, dedup, volume, day, paused, locked,
                 minted, burned, released>>

(* Every step of the handoff and of the manager is, for the manager, one of *)
(* its own calls, a restart or nothing.                                     *)
LEMMA StepKinds ==
  ASSUME HandoffTypeOK, HandoffNext
  PROVE  \/ \E q \in Requests : LockBait(q)
         \/ \E b \in Burns : BurnWrapped(b)
         \/ \E i \in known, r \in Relayers : ProofStep(i, r)
         \/ \E i \in known : MintWrapped(i) \/ ReleaseBait(i) \/ Refund(i)
         \/ SetPaused
         \/ NewDay
         \/ Restart
         \/ UNCHANGED vars
<1>1. ASSUME NEW r \in Relayers, NEW i \in known, RelayEvent(r, i)
      PROVE  ProofStep(i, r)
  BY <1>1 DEF RelayEvent, ProofStep
<1>2. CASE ManagerNext
  <2>1. ASSUME NEW r \in Relayers, RelayNext(r)
        PROVE  \E i \in known : ProofStep(i, r)
    <3>1. PICK i \in Eligible(r) : RelayEvent(r, i)
      BY <2>1 DEF RelayNext
    <3>2. i \in known
      BY DEF Eligible, Locks
    <3> QED
      BY <1>1, <3>1, <3>2
  <2> QED
    BY <1>1, <1>2, <2>1 DEF ManagerNext
<1>3. ASSUME NEW o \in Orders, StartLock(o)
      PROVE  \E q \in Requests : LockBait(q)
  BY <1>3, HandoffAssumption DEF StartLock, HandoffAssumption
<1>4. CASE SubmitNext
  <2> DEFINE i == TransferOf(call.order)
             r == Head(call.left)
  <2>1. CASE Accepts(i, r)
    <3>1. i \in known
      BY <2>1 DEF Accepts
    <3>2. r \in Relayers
      BY <1>4 DEF SubmitNext, HandoffTypeOK
    <3>3. ProofStep(i, r)
      BY <1>4, <2>1 DEF SubmitNext, ProofStep
    <3> QED
      BY <3>1, <3>2, <3>3
  <2>2. CASE ~Accepts(i, r)
    BY <1>4, <2>2 DEF SubmitNext, vars
  <2> QED
    BY <2>1, <2>2
<1>5. CASE EndReady
  <2>1. MintWrapped(TransferOf(call.order)) \/ UNCHANGED vars
    BY <1>5 DEF EndReady
  <2> QED
    BY <2>1 DEF MintWrapped
<1>6. ASSUME NEW o, NEW batch, BeginSubmit(o, batch) PROVE UNCHANGED vars
  BY <1>6 DEF BeginSubmit
<1>7. CASE EndPending
  BY <1>7 DEF EndPending
<1> QED
  BY <1>2, <1>3, <1>4, <1>5, <1>6, <1>7 DEF HandoffNext

-----------------------------------------------------------------------------
(* Types *)

(* Nothing exists at the start.                                             *)
LEMMA InitType == Init => TypeOK
<1> SUFFICES ASSUME Init PROVE TypeOK
  OBVIOUS
<1>1. MaxTransfers \in Nat /\ MaxDays \in Nat
  BY ManagerAssumption DEF ManagerAssumption
<1>2. /\ madeOn \in [Ids -> 0..MaxDays]
      /\ event \in [Ids -> States] /\ record \in [Ids -> States]
      /\ signers \in [Ids -> SUBSET Relayers]
  BY <1>1 DEF Init, States
<1>3. /\ jobs \in [Relayers -> [Ids -> Outcomes]] /\ relayed \in [Relayers -> Nat]
      /\ volume \in [Agents -> Nat] /\ day \in 0..MaxDays
  BY <1>1 DEF Init, Outcomes
<1>5. paused \in BOOLEAN
  BY DEF Init
<1>4. /\ transfers \in Seq(Requests \cup Burns) /\ Len(transfers) <= MaxTransfers
      /\ known \subseteq DOMAIN transfers /\ dedup \subseteq {Key[q] : q \in Requests}
      /\ locked \in Nat /\ minted \in Nat /\ burned \in Nat /\ released \in Nat
  BY <1>1 DEF Init
<1> QED
  BY <1>2, <1>3, <1>4, <1>5 DEF TypeOK

(* A new transfer gets the next number and starts in one state.             *)
LEMMA MakeType ==
  ASSUME TypeOK, NEW what \in Requests \cup Burns, NEW state \in States, Make(what, state)
  PROVE  /\ NewId \in Ids /\ NewId \notin DOMAIN transfers /\ NewId \notin known
         /\ transfers' \in Seq(Requests \cup Burns) /\ Len(transfers') <= MaxTransfers
         /\ DOMAIN transfers' = DOMAIN transfers \cup {NewId}
         /\ transfers'[NewId] = what
         /\ \A i \in DOMAIN transfers : transfers'[i] = transfers[i]
         /\ madeOn' \in [Ids -> 0..MaxDays]
         /\ event' \in [Ids -> States] /\ record' \in [Ids -> States]
         /\ known' = known \cup {NewId}
         /\ known' \subseteq DOMAIN transfers'
<1>1. /\ transfers \in Seq(Requests \cup Burns) /\ known \subseteq DOMAIN transfers
      /\ MaxTransfers \in Nat
  BY ManagerAssumption DEF TypeOK, ManagerAssumption
<1>2. /\ NewId \in Ids /\ transfers' = Append(transfers, what) /\ known' = known \cup {NewId}
      /\ NewId = Len(transfers) + 1
  BY DEF Make, NewId
<1>3. NewId \notin DOMAIN transfers /\ NewId \notin known
  BY <1>1, <1>2
<1>4. /\ transfers' \in Seq(Requests \cup Burns) /\ Len(transfers') <= MaxTransfers
      /\ DOMAIN transfers' = DOMAIN transfers \cup {NewId}
      /\ transfers'[NewId] = what
      /\ \A i \in DOMAIN transfers : transfers'[i] = transfers[i]
  BY <1>1, <1>2 DEF Ids
<1>5. /\ madeOn' \in [Ids -> 0..MaxDays]
      /\ event' \in [Ids -> States] /\ record' \in [Ids -> States]
  BY <1>2 DEF Make, TypeOK
<1>6. known' \subseteq DOMAIN transfers'
  BY <1>1, <1>2, <1>4
<1> QED
  BY <1>2, <1>3, <1>4, <1>5, <1>6

(* A transfer in being is one of the numbered ones.                         *)
LEMMA KnownIds == ASSUME TypeOK PROVE DOMAIN transfers \subseteq Ids /\ known \subseteq Ids
<1>1. MaxTransfers \in Nat /\ Len(transfers) \in Nat /\ DOMAIN transfers = 1..Len(transfers)
  BY ManagerAssumption DEF TypeOK, ManagerAssumption
<1> QED
  BY <1>1 DEF TypeOK, Ids

(* Amounts are positive.                                                    *)
LEMMA AmountType ==
  ASSUME TypeOK
  PROVE  /\ \A q \in Requests \cup Burns : Amount[q] \in Nat /\ Amount[q] > 0
         /\ \A i \in DOMAIN transfers : Worth[i] = Amount[transfers[i]] /\ Worth[i] \in Nat
<1>1. \A q \in Requests \cup Burns : Amount[q] \in Nat /\ Amount[q] > 0
  BY ManagerAssumption DEF ManagerAssumption
<1>2. \A i \in DOMAIN transfers : transfers[i] \in Requests \cup Burns
  BY DEF TypeOK
<1> QED
  BY <1>1, <1>2 DEF Worth

(* A signature puts both states of its event where its number says.         *)
LEMMA ProofType ==
  ASSUME TypeOK, NEW i \in known, NEW r \in Relayers, SubmitProof(i, r)
  PROVE  /\ signers' \in [Ids -> SUBSET Relayers]
         /\ signers' = [signers EXCEPT ![i] = @ \cup {r}]
         /\ event' \in [Ids -> States] /\ record' \in [Ids -> States]
         /\ event'[i] = IF IsReady(i, signers') THEN "proof_submitted" ELSE "pending_proof"
         /\ record'[i] = event'[i]
         /\ \A j \in Ids \ {i} : event'[j] = event[j] /\ record'[j] = record[j]
<1>1. i \in Ids
  BY KnownIds
<1> DEFINE state == IF IsReady(i, signers') THEN "proof_submitted" ELSE "pending_proof"
<1>2. /\ signers' = [signers EXCEPT ![i] = @ \cup {r}]
      /\ event' = [event EXCEPT ![i] = state] /\ record' = [record EXCEPT ![i] = state]
  BY DEF SubmitProof
<1>3. state \in States
  BY DEF States
<1>4. signers' \in [Ids -> SUBSET Relayers]
  BY <1>1, <1>2 DEF TypeOK
<1> HIDE DEF state
<1>5. /\ event' \in [Ids -> States] /\ record' \in [Ids -> States]
      /\ event'[i] = state /\ record'[i] = state
      /\ \A j \in Ids \ {i} : event'[j] = event[j] /\ record'[j] = record[j]
  BY <1>1, <1>2, <1>3 DEF TypeOK
<1> QED
  BY <1>2, <1>4, <1>5 DEF state

(* The manager's calls and a restart keep its types.                        *)
LEMMA ManagerType ==
  ASSUME TypeOK,
         \/ \E q \in Requests : LockBait(q)
         \/ \E b \in Burns : BurnWrapped(b)
         \/ \E i \in known, r \in Relayers : ProofStep(i, r)
         \/ \E i \in known : MintWrapped(i) \/ ReleaseBait(i) \/ Refund(i)
         \/ SetPaused
         \/ NewDay
         \/ Restart
         \/ UNCHANGED vars
  PROVE  TypeOK'
<1>0. /\ MaxTransfers \in Nat /\ MaxDays \in Nat
      /\ Agent \in [Requests -> Agents]
  BY ManagerAssumption DEF ManagerAssumption
<1>1. ASSUME NEW q \in Requests, LockBait(q) PROVE TypeOK'
  <2>1. Make(q, "locked") /\ "locked" \in States
    BY <1>1 DEF LockBait, States
  <2>2. volume' \in [Agents -> Nat] /\ locked' \in Nat /\ dedup' \subseteq {Key[x] : x \in Requests}
    <3>1. /\ volume' = [volume EXCEPT ![Agent[q]] = @ + Amount[q]] /\ locked' = locked + Amount[q]
          /\ dedup' = dedup \cup {Key[q]}
      BY <1>1 DEF LockBait
    <3>2. Agent[q] \in Agents /\ Amount[q] \in Nat
      BY <1>0, AmountType
    <3> QED
      BY <3>1, <3>2 DEF TypeOK
  <2> QED
    BY <1>1, <2>1, <2>2, MakeType DEF LockBait, TypeOK
<1>2. ASSUME NEW b \in Burns, BurnWrapped(b) PROVE TypeOK'
  <2>1. Make(b, "burned") /\ "burned" \in States
    BY <1>2 DEF BurnWrapped, States
  <2>2. burned' \in Nat
    BY <1>2, AmountType DEF BurnWrapped, TypeOK
  <2> QED
    BY <1>2, <2>1, <2>2, MakeType DEF BurnWrapped, TypeOK
<1>3. ASSUME NEW i \in known, NEW r \in Relayers, ProofStep(i, r) PROVE TypeOK'
  <2>1. SubmitProof(i, r)
    BY <1>3 DEF ProofStep
  <2>2. jobs' \in [Relayers -> [Ids -> Outcomes]] /\ relayed' \in [Relayers -> Nat]
    <3>1. i \in Ids
      BY KnownIds
    <3>2. \A x \in Outcomes : [jobs EXCEPT ![r][i] = x] \in [Relayers -> [Ids -> Outcomes]]
      BY <3>1 DEF TypeOK
    <3>3. "confirmed" \in Outcomes /\ "submitted" \in Outcomes
      BY DEF Outcomes
    <3>4. [relayed EXCEPT ![r] = @ + 1] \in [Relayers -> Nat]
      BY DEF TypeOK
    <3>5. jobs \in [Relayers -> [Ids -> Outcomes]] /\ relayed \in [Relayers -> Nat]
      BY DEF TypeOK
    <3> QED
      BY <1>3, <3>2, <3>3, <3>4, <3>5 DEF ProofStep
  <2> QED
    BY <1>3, <2>1, <2>2, ProofType DEF ProofStep, TypeOK
<1>4. ASSUME NEW i \in known, MintWrapped(i) \/ ReleaseBait(i) \/ Refund(i) PROVE TypeOK'
  <2>1. {"minted", "completed", "refunded"} \subseteq States /\ i \in Ids
    BY KnownIds DEF States
  <2>2. Amount[transfers[i]] \in Nat
    BY AmountType DEF TypeOK
  <2>3. \A x \in States : /\ [event EXCEPT ![i] = x] \in [Ids -> States]
                          /\ [record EXCEPT ![i] = x] \in [Ids -> States]
    BY <2>1 DEF TypeOK
  <2>4. event' \in [Ids -> States] /\ record' \in [Ids -> States]
    BY <1>4, <2>1, <2>3 DEF MintWrapped, Mint, ReleaseBait, Refund
  <2>5. minted' \in Nat /\ released' \in Nat
    BY <1>4, <2>2 DEF MintWrapped, Mint, ReleaseBait, Refund, TypeOK
  <2> QED
    BY <1>4, <2>4, <2>5 DEF MintWrapped, Mint, ReleaseBait, Refund, TypeOK
<1>5. CASE SetPaused
  BY <1>5 DEF SetPaused, TypeOK
<1>6. CASE NewDay
  BY <1>0, <1>6 DEF NewDay, TypeOK
<1>7. CASE Restart
  BY <1>7 DEF Restart, TypeOK, Outcomes
<1>8. CASE UNCHANGED vars
  BY <1>8 DEF vars, TypeOK
<1> QED
  BY <1>1, <1>2, <1>3, <1>4, <1>5, <1>6, <1>7, <1>8

-----------------------------------------------------------------------------
(* Events, records and signatures *)

(* A number nobody used yet carries nothing.                                *)
Fresh ==
  \A i \in Ids \ DOMAIN transfers :
    signers[i] = {} /\ \A r \in Relayers : jobs[r][i] = "none"

(* Burns are never signed, so a quorum never lets one be minted.            *)
OnlyLocksSigned == \A i \in DOMAIN transfers : transfers[i] \notin Requests => signers[i] = {}

(* The states of locks and of burns do not meet.                            *)
StatesFit ==
  \A i \in known : IF i \in Locks THEN event[i] \in Provable \cup {"minted", "refunded"}
                   ELSE event[i] \in {"burned", "completed"}

(* The part of the invariant that the totals and the limits rest on.        *)
Core ==
  TypeOK /\ Fresh /\ OnlyLocksSigned /\ StatesFit /\ RecordFollowsEvent /\ QuorumDecides

(* What a new transfer leaves alone.                                        *)
LEMMA MakeKeeps ==
  ASSUME TypeOK, NEW what \in Requests \cup Burns, NEW state \in States, Make(what, state)
  PROVE  /\ Locks' = IF what \in Requests THEN Locks \cup {NewId} ELSE Locks
         /\ event'[NewId] = state /\ record'[NewId] = state /\ madeOn'[NewId] = day
         /\ \A i \in DOMAIN transfers : /\ event'[i] = event[i] /\ record'[i] = record[i]
                                        /\ madeOn'[i] = madeOn[i]
<1>1. /\ NewId \in Ids /\ NewId \notin DOMAIN transfers /\ NewId \notin known
      /\ transfers'[NewId] = what
      /\ \A i \in DOMAIN transfers : transfers'[i] = transfers[i]
      /\ known' = known \cup {NewId}
  BY MakeType
<1>2. known \subseteq DOMAIN transfers
  BY DEF TypeOK
<1>3. Locks' = IF what \in Requests THEN Locks \cup {NewId} ELSE Locks
  BY <1>1, <1>2 DEF Locks
<1>4. \A i \in DOMAIN transfers : i \in Ids /\ i # NewId
  BY <1>1, KnownIds
<1>5. /\ event' = [event EXCEPT ![NewId] = state]
      /\ record' = [record EXCEPT ![NewId] = state]
      /\ madeOn' = [madeOn EXCEPT ![NewId] = day]
  BY DEF Make
<1>6. /\ event \in [Ids -> States] /\ record \in [Ids -> States]
      /\ madeOn \in [Ids -> 0..MaxDays]
  BY DEF TypeOK
<1> HIDE DEF NewId
<1> QED
  BY <1>1, <1>3, <1>4, <1>5, <1>6

(* No signature is no quorum.                                               *)
LEMMA NotReady == ASSUME NEW i, NEW who, who[i] = {} PROVE ~IsReady(i, who)
<1>1. Threshold \in Nat \ {0}
  BY ManagerAssumption DEF ManagerAssumption
<1> QED
  BY <1>1, FS_EmptySet DEF IsReady

(* The first transfers find everything empty.                               *)
LEMMA InitCore == Init => Core
<1> SUFFICES ASSUME Init PROVE Core
  OBVIOUS
<1>1. known = {} /\ transfers = <<>>
  BY DEF Init
<1>2. Fresh
  BY DEF Init, Fresh
<1>3. OnlyLocksSigned /\ StatesFit /\ RecordFollowsEvent /\ QuorumDecides
  BY <1>1 DEF OnlyLocksSigned, StatesFit, RecordFollowsEvent, QuorumDecides, Locks
<1> QED
  BY <1>2, <1>3, InitType DEF Core

(* A lock or a burn.                                                        *)
LEMMA MakeCore ==
  ASSUME Core, TypeOK', NEW what \in Requests \cup Burns, NEW state \in States,
         Make(what, state), UNCHANGED <<signers, jobs>>,
         IF what \in Requests THEN state = "locked" ELSE state = "burned"
  PROVE  Core'
<1>1. /\ NewId \in Ids /\ NewId \notin DOMAIN transfers /\ NewId \notin known
      /\ DOMAIN transfers' = DOMAIN transfers \cup {NewId}
      /\ transfers'[NewId] = what
      /\ \A i \in DOMAIN transfers : transfers'[i] = transfers[i]
      /\ known' = known \cup {NewId}
  BY MakeType DEF Core
<1>2. /\ Locks' = IF what \in Requests THEN Locks \cup {NewId} ELSE Locks
      /\ event'[NewId] = state /\ record'[NewId] = state
      /\ \A i \in known : event'[i] = event[i] /\ record'[i] = record[i]
  BY MakeKeeps DEF Core, TypeOK
<1>3. signers[NewId] = {} /\ ~IsReady(NewId, signers)
  BY <1>1, NotReady DEF Core, Fresh
<1>4. Fresh'
  BY <1>1 DEF Core, Fresh
<1>5. OnlyLocksSigned'
  BY <1>1, <1>3 DEF Core, OnlyLocksSigned
<1>6. Locks \subseteq known
  BY DEF Locks
<1> HIDE DEF NewId
<1>7. StatesFit'
  BY <1>1, <1>2, <1>6 DEF Core, StatesFit, Provable
<1>8. RecordFollowsEvent'
  BY <1>1, <1>2 DEF Core, RecordFollowsEvent
<1>9. QuorumDecides'
  BY <1>1, <1>2, <1>3, <1>6 DEF Core, QuorumDecides, IsReady
<1> QED
  BY <1>4, <1>5, <1>7, <1>8, <1>9 DEF Core

(* One more signature.                                                      *)
LEMMA ProofCore ==
  ASSUME Core, TypeOK', NEW i \in known, NEW r \in Relayers, ProofStep(i, r)
  PROVE  Core'
<1>1. /\ signers' = [signers EXCEPT ![i] = @ \cup {r}]
      /\ event'[i] = IF IsReady(i, signers') THEN "proof_submitted" ELSE "pending_proof"
      /\ record'[i] = event'[i]
      /\ \A j \in Ids \ {i} : event'[j] = event[j] /\ record'[j] = record[j]
  BY ProofType DEF ProofStep, Core
<1>2. UNCHANGED <<transfers, known>> /\ event[i] \in Provable
  BY DEF ProofStep, Accepts
<1>3. Locks' = Locks /\ Locks \subseteq known
  BY <1>2 DEF Locks
<1>4. i \in Ids /\ known \subseteq Ids /\ known \subseteq DOMAIN transfers
  BY KnownIds DEF Core, TypeOK
<1>5. i \in Locks
  BY <1>2 DEF Core, StatesFit, Provable
<1>6. \A j \in Ids \ {i} : signers'[j] = signers[j]
  BY <1>1 DEF Core, TypeOK
<1>7. Fresh'
  <2>1. i \in DOMAIN transfers
    BY <1>4
  <2>2. \A j \in Ids \ {i}, s \in Relayers : jobs'[s][j] = jobs[s][j]
    <3>1. \/ UNCHANGED jobs
          \/ jobs' = [jobs EXCEPT ![r][i] = "confirmed"]
          \/ jobs' = [jobs EXCEPT ![r][i] = "submitted"]
      BY DEF ProofStep
    <3>2. ASSUME NEW x, jobs' = [jobs EXCEPT ![r][i] = x]
          PROVE  \A j \in Ids \ {i}, s \in Relayers : jobs'[s][j] = jobs[s][j]
      <4>1. jobs \in [Relayers -> [Ids -> Outcomes]]
        BY DEF Core, TypeOK
      <4> QED
        BY <3>2, <4>1
    <3> QED
      BY <3>1, <3>2
  <2> QED
    BY <1>2, <1>6, <2>1, <2>2 DEF Core, Fresh
<1>8. OnlyLocksSigned'
  <2>1. transfers[i] \in Requests
    BY <1>5 DEF Locks
  <2>2. DOMAIN transfers \subseteq Ids
    BY KnownIds DEF Core
  <2> QED
    BY <1>2, <1>6, <2>1, <2>2 DEF Core, OnlyLocksSigned
<1>9. StatesFit'
  BY <1>1, <1>2, <1>3, <1>4, <1>5 DEF Core, StatesFit, Provable
<1>10. RecordFollowsEvent'
  BY <1>1, <1>2, <1>4 DEF Core, RecordFollowsEvent
<1>11. QuorumDecides'
  <2>1. ASSUME NEW j \in Locks
        PROVE  event'[j] \in {"proof_submitted", "minted"} <=> IsReady(j, signers')
    <3>1. CASE j = i
      BY <1>1, <3>1
    <3>2. CASE j # i
      BY <1>1, <1>3, <1>4, <1>6, <3>2 DEF Core, QuorumDecides, IsReady
    <3> QED
      BY <3>1, <3>2
  <2> QED
    BY <1>3, <2>1 DEF QuorumDecides
<1> QED
  BY <1>7, <1>8, <1>9, <1>10, <1>11 DEF Core

(* A mint, a release or a refund.                                           *)
LEMMA EndCore ==
  ASSUME Core, TypeOK', NEW i \in known, MintWrapped(i) \/ ReleaseBait(i) \/ Refund(i)
  PROVE  Core'
<1>1. UNCHANGED <<transfers, known, signers, jobs>>
  BY DEF MintWrapped, ReleaseBait, Refund
<1>2. Locks' = Locks /\ Locks \subseteq known
  BY <1>1 DEF Locks
<1>3. i \in Ids /\ known \subseteq Ids /\ i \in DOMAIN transfers
  BY KnownIds DEF Core, TypeOK
<1>4. Fresh' /\ OnlyLocksSigned'
  BY <1>1 DEF Core, Fresh, OnlyLocksSigned
<1>5. PICK x : /\ event' = [event EXCEPT ![i] = x] /\ record' = [record EXCEPT ![i] = x]
               /\ \/ x = "minted" /\ MintWrapped(i)
                  \/ x = "completed" /\ ReleaseBait(i)
                  \/ x = "refunded" /\ Refund(i)
  BY DEF MintWrapped, Mint, ReleaseBait, Refund
<1>6. /\ event'[i] = x /\ record'[i] = x
      /\ \A j \in Ids \ {i} : event'[j] = event[j] /\ record'[j] = record[j]
  BY <1>3, <1>5 DEF Core, TypeOK
<1>7. \/ x = "minted" /\ i \in Locks /\ IsReady(i, signers)
      \/ x = "completed" /\ i \notin Locks
      \/ x = "refunded" /\ i \in Locks /\ ~IsReady(i, signers)
  <2>1. CASE x = "minted" /\ MintWrapped(i)
    <3>1. IsReady(i, signers)
      BY <2>1 DEF MintWrapped, Mint
    <3>2. signers[i] # {}
      BY <3>1, NotReady
    <3>3. i \in Locks
      BY <1>3, <3>2 DEF Core, OnlyLocksSigned, Locks
    <3> QED
      BY <2>1, <3>1, <3>3
  <2>2. CASE x = "completed" /\ ReleaseBait(i)
    BY <2>2 DEF ReleaseBait
  <2>3. CASE x = "refunded" /\ Refund(i)
    <3>1. event[i] \in {"locked", "pending_proof"}
      BY <2>3 DEF Refund, Core, RecordFollowsEvent
    <3>2. i \in Locks
      BY <3>1 DEF Core, StatesFit
    <3>3. ~IsReady(i, signers)
      BY <3>1, <3>2 DEF Core, QuorumDecides
    <3> QED
      BY <2>3, <3>2, <3>3
  <2> QED
    BY <1>5, <2>1, <2>2, <2>3
<1>8. StatesFit'
  BY <1>1, <1>2, <1>3, <1>6, <1>7 DEF Core, StatesFit
<1>9. RecordFollowsEvent'
  BY <1>1, <1>3, <1>6 DEF Core, RecordFollowsEvent
<1>10. QuorumDecides'
  <2>1. ASSUME NEW j \in Locks
        PROVE  event'[j] \in {"proof_submitted", "minted"} <=> IsReady(j, signers)
    <3>1. CASE j = i
      BY <1>6, <1>7, <3>1
    <3>2. CASE j # i
      BY <1>2, <1>3, <1>6, <3>2 DEF Core, QuorumDecides
    <3> QED
      BY <3>1, <3>2
  <2> QED
    BY <1>1, <1>2, <2>1 DEF QuorumDecides
<1> QED
  BY <1>4, <1>8, <1>9, <1>10 DEF Core

(* Every step keeps events, records and signatures in agreement.            *)
LEMMA CoreStep ==
  ASSUME Core, HandoffTypeOK, [HandoffNext]_hvars
  PROVE  Core'
<1>1. \/ \E q \in Requests : LockBait(q)
      \/ \E b \in Burns : BurnWrapped(b)
      \/ \E i \in known, r \in Relayers : ProofStep(i, r)
      \/ \E i \in known : MintWrapped(i) \/ ReleaseBait(i) \/ Refund(i)
      \/ SetPaused
      \/ NewDay
      \/ Restart
      \/ UNCHANGED vars
  BY StepKinds DEF hvars
<1>2. TypeOK'
  BY <1>1, ManagerType DEF Core
<1>3. ASSUME NEW q \in Requests, LockBait(q) PROVE Core'
  <2>1. "locked" \in States /\ Make(q, "locked") /\ UNCHANGED <<signers, jobs>>
    BY <1>3 DEF LockBait, States
  <2> QED
    BY <1>2, <2>1, MakeCore
<1>4. ASSUME NEW b \in Burns, BurnWrapped(b) PROVE Core'
  <2>1. "burned" \in States /\ Make(b, "burned") /\ UNCHANGED <<signers, jobs>>
    BY <1>4 DEF BurnWrapped, States
  <2>2. b \notin Requests
    BY ManagerAssumption DEF ManagerAssumption
  <2> QED
    BY <1>2, <2>1, <2>2, MakeCore
<1>5. ASSUME NEW i \in known, NEW r \in Relayers, ProofStep(i, r) PROVE Core'
  BY <1>2, <1>5, ProofCore
<1>6. ASSUME NEW i \in known, MintWrapped(i) \/ ReleaseBait(i) \/ Refund(i) PROVE Core'
  BY <1>2, <1>6, EndCore
<1>7. ASSUME UNCHANGED <<transfers, known, signers, jobs, event, record>> PROVE Core'
  BY <1>2, <1>7 DEF Core, Fresh, OnlyLocksSigned, StatesFit, RecordFollowsEvent,
                    QuorumDecides, Locks, IsReady
<1>8. CASE SetPaused \/ NewDay \/ UNCHANGED vars
  BY <1>7, <1>8 DEF SetPaused, NewDay, vars
<1>9. CASE Restart
  <2>1. /\ known' = {} /\ jobs' = [r \in Relayers |-> [i \in Ids |-> "none"]]
        /\ UNCHANGED <<transfers, signers>>
    BY <1>9 DEF Restart
  <2>2. Fresh' /\ OnlyLocksSigned'
    BY <2>1 DEF Core, Fresh, OnlyLocksSigned
  <2>3. StatesFit' /\ RecordFollowsEvent' /\ QuorumDecides'
    BY <2>1 DEF StatesFit, RecordFollowsEvent, QuorumDecides, Locks
  <2> QED
    BY <1>2, <2>2, <2>3 DEF Core
<1> QED
  BY <1>1, <1>3, <1>4, <1>5, <1>6, <1>8, <1>9

-----------------------------------------------------------------------------
(* The totals *)

(* What sums over transfers do.                                             *)
TotalsAdd ==
  TypeOK =>
    \A S \in SUBSET DOMAIN transfers :
      /\ Total(S) \in Nat
      /\ \A i \in DOMAIN transfers \ S : Total(S \cup {i}) = Total(S) + Amount[transfers[i]]
      /\ \A R \in SUBSET S : Total(R) <= Total(S)
      /\ \A R, T \in SUBSET S : R \cap T = {} => Total(R) + Total(T) <= Total(S)

(* ... by the sums of their amounts.                                        *)
LEMMA TotalsAddUp == TotalsAdd
<1> SUFFICES ASSUME TypeOK, NEW S \in SUBSET DOMAIN transfers
             PROVE  /\ Total(S) \in Nat
                    /\ \A i \in DOMAIN transfers \ S :
                         Total(S \cup {i}) = Total(S) + Amount[transfers[i]]
                    /\ \A R \in SUBSET S : Total(R) <= Total(S)
                    /\ \A R, T \in SUBSET S : R \cap T = {} => Total(R) + Total(T) <= Total(S)
  BY DEF TotalsAdd
<1>1. \A U \in SUBSET DOMAIN transfers : IsFiniteSet(U)
  BY FS_Interval, FS_Subset DEF TypeOK
<1>2. \A i \in DOMAIN transfers : Worth[i] = Amount[transfers[i]] /\ Worth[i] \in Nat
  BY AmountType
<1>3. \A U \in SUBSET DOMAIN transfers : Total(U) \in Nat
  BY <1>1, <1>2, SumNat DEF Total
<1>4. ASSUME NEW i \in DOMAIN transfers \ S
      PROVE  Total(S \cup {i}) = Total(S) + Amount[transfers[i]]
  BY <1>1, <1>2, SumAdd DEF Total
<1>5. ASSUME NEW U \in SUBSET DOMAIN transfers, NEW R \in SUBSET U
      PROVE  Total(R) <= Total(U)
  BY <1>1, <1>2, SumPart DEF Total
<1>6. ASSUME NEW R \in SUBSET S, NEW T \in SUBSET S, R \cap T = {}
      PROVE  Total(R) + Total(T) <= Total(S)
  <2>1. Total(S) = Total(R) + Total(S \ R)
    BY <1>1, <1>2, SumUnion DEF Total
  <2>2. Total(T) <= Total(S \ R)
    BY <1>5, <1>6
  <2>3. Total(R) \in Nat /\ Total(T) \in Nat /\ Total(S \ R) \in Nat
    BY <1>3
  <2> QED
    BY <2>1, <2>2, <2>3
<1> QED
  BY <1>3, <1>4, <1>5, <1>6

(* ... in the next state too.                                               *)
LEMMA TotalsAddUpNext == TotalsAdd'
BY TotalsAddUp, PTL

(* A transfer is never changed, so a sum over old ones stays what it was.   *)
LEMMA TotalKept ==
  ASSUME TypeOK, NEW S \in SUBSET DOMAIN transfers,
         DOMAIN transfers \subseteq DOMAIN transfers',
         \A i \in DOMAIN transfers : transfers'[i] = transfers[i]
  PROVE  SumFunctionOnSet(Worth', S) = Total(S)
<1>1. IsFiniteSet(S)
  BY FS_Interval, FS_Subset DEF TypeOK
<1>2. \A i \in S : Worth'[i] = Worth[i]
  BY DEF Worth
<1> QED
  BY <1>1, <1>2, SumSame DEF Total

\* The locks that ended one way and the other.
Minted == {i \in Locks : event[i] = "minted"}
Refunded == {i \in Locks : event[i] = "refunded"}

(* The four totals against the transfers.                                   *)
Ledger ==
  /\ locked = Total(Locks)
  /\ minted = Total(Minted)
  /\ burned = Total(known \ Locks)
  /\ Total(Refunded) <= released

(* The ledger is what TotalsFollow says: minted and refunded locks are      *)
(* different parts of the locks.                                            *)
LEMMA LedgerFollows == ASSUME TypeOK, Ledger PROVE TotalsFollow
<1>1. Locks \in SUBSET DOMAIN transfers /\ Minted \in SUBSET Locks /\ Refunded \in SUBSET Locks
  BY DEF TypeOK, Locks, Minted, Refunded
<1>2. Minted \cap Refunded = {}
  BY DEF Minted, Refunded
<1>3. Total(Minted) + Total(Refunded) <= Total(Locks)
  BY <1>1, <1>2, TotalsAddUp DEF TotalsAdd
<1> QED
  BY <1>3, Zenon DEF Ledger, TotalsFollow, Minted, Refunded

(* The sums of the next state, when the sets are known.                     *)
LEMMA LedgerSums ==
  ASSUME TypeOK, TypeOK',
         DOMAIN transfers \subseteq DOMAIN transfers',
         \A i \in DOMAIN transfers : transfers'[i] = transfers[i]
  PROVE  /\ Locks' = Locks => Total(Locks)' = Total(Locks)
         /\ Minted' = Minted => Total(Minted)' = Total(Minted)
         /\ Refunded' = Refunded => Total(Refunded)' = Total(Refunded)
         /\ (known \ Locks)' = known \ Locks => Total(known \ Locks)' = Total(known \ Locks)
<1>1. /\ Locks \in SUBSET DOMAIN transfers /\ Minted \in SUBSET DOMAIN transfers
      /\ Refunded \in SUBSET DOMAIN transfers /\ known \ Locks \in SUBSET DOMAIN transfers
  BY DEF TypeOK, Locks, Minted, Refunded
<1>2. /\ SumFunctionOnSet(Worth', Locks) = Total(Locks)
      /\ SumFunctionOnSet(Worth', Minted) = Total(Minted)
      /\ SumFunctionOnSet(Worth', Refunded) = Total(Refunded)
      /\ SumFunctionOnSet(Worth', known \ Locks) = Total(known \ Locks)
  BY <1>1, TotalKept
<1>3. /\ Total(Locks)' = SumFunctionOnSet(Worth', Locks')
      /\ Total(Minted)' = SumFunctionOnSet(Worth', Minted')
      /\ Total(Refunded)' = SumFunctionOnSet(Worth', Refunded')
      /\ Total(known \ Locks)' = SumFunctionOnSet(Worth', (known \ Locks)')
  BY Zenon DEF Total
<1> QED
  BY <1>2, <1>3, Zenon

(* A lock adds its amount to what is locked.                                *)
LEMMA LockLedger ==
  ASSUME Core, TypeOK', Ledger, NEW q \in Requests, LockBait(q)
  PROVE  Ledger'
<1>1. "locked" \in States /\ Make(q, "locked")
  BY DEF LockBait, States
<1>2. /\ NewId \in Ids /\ NewId \notin DOMAIN transfers /\ NewId \notin known
      /\ DOMAIN transfers' = DOMAIN transfers \cup {NewId}
      /\ transfers'[NewId] = q
      /\ \A i \in DOMAIN transfers : transfers'[i] = transfers[i]
      /\ known' = known \cup {NewId}
  BY <1>1, MakeType DEF Core
<1>3. /\ Locks' = Locks \cup {NewId}
      /\ event'[NewId] = "locked"
      /\ \A i \in known : event'[i] = event[i]
  BY <1>1, MakeKeeps DEF Core, TypeOK
<1>4. /\ locked' = locked + Amount[q]
      /\ UNCHANGED <<minted, burned, released>>
  BY DEF LockBait
<1>5. Locks \in SUBSET DOMAIN transfers /\ Locks \subseteq known
  BY DEF Core, TypeOK, Locks
<1> HIDE DEF NewId
<1>6. Minted' = Minted /\ Refunded' = Refunded /\ (known \ Locks)' = known \ Locks
  BY <1>2, <1>3, <1>5 DEF Minted, Refunded
<1>7. Total(Locks)' = Total(Locks) + Amount[q]
  <2> DEFINE Sum(S) == SumFunctionOnSet(Worth', S)
  <2>1. Sum(Locks) = Total(Locks)
    BY <1>2, <1>5, TotalKept DEF Core
  <2>2. Total(Locks)' = Sum(Locks \cup {NewId})
    BY <1>3, Zenon DEF Total
  <2>3. Sum(Locks \cup {NewId}) = Sum(Locks) + Amount[transfers'[NewId]]
    <3>1. TotalsAdd'
      BY TotalsAddUpNext
    <3>2. Locks \in SUBSET DOMAIN transfers' /\ NewId \in DOMAIN transfers' \ Locks
      BY <1>2, <1>5
    <3> QED
      BY <3>1, <3>2 DEF TotalsAdd, Total
  <2> HIDE DEF Sum
  <2> QED
    BY <1>2, <2>1, <2>2, <2>3
<1>8. /\ Total(Minted)' = Total(Minted) /\ Total(Refunded)' = Total(Refunded)
      /\ Total(known \ Locks)' = Total(known \ Locks)
  BY <1>2, <1>6, LedgerSums DEF Core
<1> QED
  BY <1>4, <1>7, <1>8 DEF Ledger

(* A burn adds its amount to what is burned.                                *)
LEMMA BurnLedger ==
  ASSUME Core, TypeOK', Ledger, NEW b \in Burns, BurnWrapped(b)
  PROVE  Ledger'
<1>1. "burned" \in States /\ Make(b, "burned") /\ b \notin Requests
  BY ManagerAssumption DEF BurnWrapped, States, ManagerAssumption
<1>2. /\ NewId \in Ids /\ NewId \notin DOMAIN transfers /\ NewId \notin known
      /\ DOMAIN transfers' = DOMAIN transfers \cup {NewId}
      /\ transfers'[NewId] = b
      /\ \A i \in DOMAIN transfers : transfers'[i] = transfers[i]
      /\ known' = known \cup {NewId}
  BY <1>1, MakeType DEF Core
<1>3. Locks' = Locks /\ \A i \in known : event'[i] = event[i]
  BY <1>1, MakeKeeps DEF Core, TypeOK
<1>4. /\ burned' = burned + Amount[b]
      /\ UNCHANGED <<minted, locked, released>>
  BY DEF BurnWrapped
<1>5. known \subseteq DOMAIN transfers /\ Locks \subseteq known
  BY DEF Core, TypeOK, Locks
<1> HIDE DEF NewId
<1>6. /\ Minted' = Minted /\ Refunded' = Refunded
      /\ (known \ Locks)' = (known \ Locks) \cup {NewId}
  BY <1>2, <1>3, <1>5 DEF Minted, Refunded
<1>7. Total(known \ Locks)' = Total(known \ Locks) + Amount[b]
  <2> DEFINE Sum(S) == SumFunctionOnSet(Worth', S)
             B == known \ Locks
  <2>1. Sum(B) = Total(B)
    BY <1>2, <1>5, TotalKept DEF Core
  <2>2. Total(known \ Locks)' = Sum(B \cup {NewId})
    BY <1>6, Zenon DEF Total
  <2>3. Sum(B \cup {NewId}) = Sum(B) + Amount[transfers'[NewId]]
    <3>1. TotalsAdd'
      BY TotalsAddUpNext
    <3>2. B \in SUBSET DOMAIN transfers' /\ NewId \in DOMAIN transfers' \ B
      BY <1>2, <1>5
    <3> HIDE DEF B
    <3> QED
      BY <3>1, <3>2 DEF TotalsAdd, Total
  <2> HIDE DEF Sum
  <2> QED
    BY <1>2, <2>1, <2>2, <2>3
<1>8. /\ Total(Minted)' = Total(Minted) /\ Total(Refunded)' = Total(Refunded)
      /\ Total(Locks)' = Total(Locks)
  BY <1>2, <1>3, <1>6, LedgerSums DEF Core
<1> QED
  BY <1>4, <1>7, <1>8 DEF Ledger

(* A signature moves no amount.                                             *)
LEMMA ProofLedger ==
  ASSUME Core, TypeOK', Ledger, NEW i \in known, NEW r \in Relayers, ProofStep(i, r)
  PROVE  Ledger'
<1>1. UNCHANGED <<transfers, known, locked, minted, burned, released>>
  BY DEF ProofStep
<1>2. /\ event'[i] \in Provable /\ event[i] \in Provable
      /\ \A j \in Ids \ {i} : event'[j] = event[j]
  BY ProofType DEF ProofStep, Accepts, Core, Provable
<1>3. Locks' = Locks /\ Locks \subseteq Ids
  BY <1>1, KnownIds DEF Locks, Core
<1>4. Minted' = Minted /\ Refunded' = Refunded
  BY <1>2, <1>3 DEF Minted, Refunded, Provable
<1>5. /\ Total(Minted)' = Total(Minted) /\ Total(Refunded)' = Total(Refunded)
      /\ Total(Locks)' = Total(Locks) /\ Total(known \ Locks)' = Total(known \ Locks)
  BY <1>1, <1>3, <1>4, LedgerSums DEF Core
<1> QED
  BY <1>1, <1>5 DEF Ledger

(* A mint pays a lock that was not minted and not refunded; a refund one    *)
(* that is not ready; a release pays a burn.                                *)
LEMMA EndLedger ==
  ASSUME Core, TypeOK', Ledger, NEW i \in known, MintWrapped(i) \/ ReleaseBait(i) \/ Refund(i)
  PROVE  Ledger'
<1>1. UNCHANGED <<transfers, known, locked, burned>>
  BY DEF MintWrapped, ReleaseBait, Refund
<1>2. Locks' = Locks /\ Locks \subseteq known /\ (known \ Locks)' = known \ Locks
  BY <1>1 DEF Locks
<1>3. i \in DOMAIN transfers /\ i \in Ids /\ Locks \subseteq Ids /\ known \subseteq DOMAIN transfers
  BY <1>2, KnownIds DEF Core, TypeOK
<1>4. /\ Total(Locks)' = Total(Locks) /\ Total(known \ Locks)' = Total(known \ Locks)
      /\ Minted' = Minted => Total(Minted)' = Total(Minted)
      /\ Refunded' = Refunded => Total(Refunded)' = Total(Refunded)
  BY <1>1, <1>2, LedgerSums DEF Core
<1>5. /\ \A S : Total(S)' = Total(S)
      /\ \A S \in SUBSET DOMAIN transfers : Total(S) \in Nat
      /\ \A S \in SUBSET DOMAIN transfers :
           i \notin S => Total(S \cup {i}) = Total(S) + Amount[transfers[i]]
      /\ Amount[transfers[i]] \in Nat /\ released \in Nat
  <2>1. Worth' = Worth
    BY <1>1 DEF Worth
  <2>2. \A S : Total(S)' = Total(S)
    BY <2>1 DEF Total
  <2> QED
    BY <1>3, <2>2, TotalsAddUp, AmountType DEF TotalsAdd, Core, TypeOK
<1>6. Minted \in SUBSET DOMAIN transfers /\ Refunded \in SUBSET DOMAIN transfers
  BY <1>2, <1>3 DEF Minted, Refunded
<1>7. CASE MintWrapped(i)
  <2>1. IsReady(i, signers) /\ event[i] # "minted"
    BY <1>7 DEF MintWrapped, Mint
  <2>2. i \in Locks
    <3>1. signers[i] # {}
      BY <2>1, NotReady
    <3> QED
      BY <1>3, <3>1 DEF Core, OnlyLocksSigned, Locks
  <2>3. event[i] = "proof_submitted"
    BY <2>1, <2>2 DEF Core, QuorumDecides
  <2>4. event' = [event EXCEPT ![i] = "minted"]
    BY <1>7 DEF MintWrapped, Mint
  <2>5. event'[i] = "minted" /\ \A j \in Locks \ {i} : event'[j] = event[j]
    BY <1>3, <2>4 DEF Core, TypeOK
  <2>6. Minted' = Minted \cup {i} /\ i \notin Minted /\ Refunded' = Refunded
    BY <1>2, <2>2, <2>3, <2>5 DEF Minted, Refunded
  <2>7. Total(Minted)' = Total(Minted) + Amount[transfers[i]]
    <3>1. Total(Minted)' = Total(Minted \cup {i})
      BY <1>5, <2>6, Zenon
    <3> QED
      BY <1>5, <1>6, <2>6, <3>1
  <2>8. minted' = minted + Amount[transfers[i]] /\ UNCHANGED released
    BY <1>7 DEF MintWrapped, Mint
  <2> QED
    BY <1>1, <1>4, <2>6, <2>7, <2>8 DEF Ledger
<1>8. CASE ReleaseBait(i)
  <2>1. i \notin Locks /\ event' = [event EXCEPT ![i] = "completed"]
    BY <1>8 DEF ReleaseBait
  <2>2. \A j \in Locks : event'[j] = event[j]
    BY <1>3, <2>1 DEF Core, TypeOK
  <2>3. Minted' = Minted /\ Refunded' = Refunded
    BY <1>2, <2>2 DEF Minted, Refunded
  <2>4. released' = released + Amount[transfers[i]] /\ UNCHANGED minted
    BY <1>8 DEF ReleaseBait
  <2>5. Total(Refunded) \in Nat
    BY <1>5, <1>6
  <2> QED
    BY <1>1, <1>4, <1>5, <2>3, <2>4, <2>5 DEF Ledger
<1>9. CASE Refund(i)
  <2>1. event[i] \in {"locked", "pending_proof"}
    BY <1>9 DEF Refund, Core, RecordFollowsEvent
  <2>2. i \in Locks
    BY <2>1 DEF Core, StatesFit
  <2>3. event' = [event EXCEPT ![i] = "refunded"]
    BY <1>9 DEF Refund
  <2>4. event'[i] = "refunded" /\ \A j \in Locks \ {i} : event'[j] = event[j]
    BY <1>3, <2>3 DEF Core, TypeOK
  <2>5. Refunded' = Refunded \cup {i} /\ i \notin Refunded /\ Minted' = Minted
    BY <1>2, <2>1, <2>2, <2>4 DEF Minted, Refunded
  <2>6. Total(Refunded)' = Total(Refunded) + Amount[transfers[i]]
    <3>1. Total(Refunded)' = Total(Refunded \cup {i})
      BY <1>5, <2>5, Zenon
    <3> QED
      BY <1>5, <1>6, <2>5, <3>1
  <2>7. released' = released + Amount[transfers[i]] /\ UNCHANGED minted
    BY <1>9 DEF Refund
  <2>8. Total(Refunded) \in Nat
    BY <1>5, <1>6
  <2> QED
    BY <1>1, <1>4, <1>5, <2>5, <2>6, <2>7, <2>8 DEF Ledger
<1> QED
  BY <1>7, <1>8, <1>9

(* At the start, and after a restart, everything adds up to nothing.        *)
LEMMA EmptyLedger ==
  known = {} /\ locked = 0 /\ minted = 0 /\ burned = 0 /\ released = 0 => Ledger
<1> SUFFICES ASSUME known = {}, locked = 0, minted = 0, burned = 0, released = 0
             PROVE  Ledger
  OBVIOUS
<1>1. Locks = {} /\ Minted = {} /\ Refunded = {} /\ known \ Locks = {}
  BY DEF Locks, Minted, Refunded
<1>2. Total({}) = 0
  BY SumEmpty DEF Total
<1>3. /\ Total(Locks) = 0 /\ Total(Minted) = 0 /\ Total(Refunded) = 0
      /\ Total(known \ Locks) = 0
  BY <1>1, <1>2, Zenon
<1> QED
  BY <1>3 DEF Ledger

(* ... and in the next state.                                               *)
LEMMA EmptyLedgerNext ==
  (known = {} /\ locked = 0 /\ minted = 0 /\ burned = 0 /\ released = 0 => Ledger)'
BY EmptyLedger, PTL

(* Every step keeps the ledger.                                             *)
LEMMA LedgerStep ==
  ASSUME Core, Core', Ledger, HandoffTypeOK, [HandoffNext]_hvars
  PROVE  Ledger'
<1>1. \/ \E q \in Requests : LockBait(q)
      \/ \E b \in Burns : BurnWrapped(b)
      \/ \E i \in known, r \in Relayers : ProofStep(i, r)
      \/ \E i \in known : MintWrapped(i) \/ ReleaseBait(i) \/ Refund(i)
      \/ SetPaused
      \/ NewDay
      \/ Restart
      \/ UNCHANGED vars
  BY StepKinds DEF hvars
<1>2. TypeOK'
  BY DEF Core
<1>3. CASE SetPaused \/ NewDay \/ UNCHANGED vars
  <2>1. UNCHANGED <<transfers, known, event, locked, minted, burned, released>>
    BY <1>3 DEF SetPaused, NewDay, vars
  <2> QED
    BY <2>1, Zenon DEF Ledger, Total, Worth, Locks, Minted, Refunded
<1>4. CASE Restart
  BY <1>4, EmptyLedgerNext DEF Restart
<1> QED
  BY <1>1, <1>2, <1>3, <1>4, LockLedger, BurnLedger, ProofLedger, EndLedger

-----------------------------------------------------------------------------
(* The relayers' pay *)

\* The events a relayer was paid for.
PaidFor(r) == {i \in Locks : jobs[r][i] = "confirmed"}

(* A quorum stays one when a signature is added.                            *)
LEMMA ReadyGrows ==
  ASSUME TypeOK, TypeOK', NEW i \in Ids, signers[i] \subseteq signers'[i], IsReady(i, signers)
  PROVE  IsReady(i, signers')
<1>1. IsFiniteSet(Relayers) /\ Threshold \in Nat
  BY ManagerAssumption DEF ManagerAssumption
<1>2. IsFiniteSet(signers'[i]) /\ IsFiniteSet(signers[i])
  BY <1>1, FS_Subset DEF TypeOK
<1>3. /\ Cardinality(signers[i]) <= Cardinality(signers'[i])
      /\ Cardinality(signers[i]) \in Nat /\ Cardinality(signers'[i]) \in Nat
  BY <1>2, FS_Subset, FS_CardinalityType
<1> QED
  BY <1>1, <1>3 DEF IsReady

(* What is paid stays paid under calls that move no signature and no job.   *)
LEMMA PayKept ==
  ASSUME PaidOncePerEvent, UNCHANGED <<signers, jobs, relayed>>,
         \A i \in Locks' \ Locks, r \in Relayers : jobs[r][i] # "confirmed",
         Locks \subseteq Locks'
  PROVE  PaidOncePerEvent'
<1>1. ASSUME NEW r \in Relayers PROVE PaidFor(r)' = PaidFor(r)
  BY <1>1 DEF PaidFor
<1>2. ASSUME NEW r \in Relayers
      PROVE  /\ relayed'[r] = Cardinality(PaidFor(r)')
             /\ \A i \in PaidFor(r)' : r \in signers'[i] /\ IsReady(i, signers')
  <2>1. /\ relayed[r] = Cardinality(PaidFor(r))
        /\ \A i \in PaidFor(r) : r \in signers[i] /\ IsReady(i, signers)
    BY <1>2 DEF PaidOncePerEvent, PaidFor
  <2>2. Cardinality(PaidFor(r)') = Cardinality(PaidFor(r))
    BY <1>1, Zenon
  <2> QED
    BY <1>1, <2>1, <2>2 DEF IsReady
<1> QED
  BY <1>2 DEF PaidOncePerEvent, PaidFor

(* A signature pays its relayer only when it completes the quorum, once.    *)
LEMMA ProofPay ==
  ASSUME Core, Core', PaidOncePerEvent, NEW i \in known, NEW s \in Relayers, ProofStep(i, s)
  PROVE  PaidOncePerEvent'
<1>1. i \in Ids /\ Locks \subseteq Ids /\ IsFiniteSet(Locks)
  <2>1. Locks \subseteq Ids /\ i \in Ids
    BY KnownIds DEF Locks, Core
  <2>2. IsFiniteSet(Ids)
    BY FS_Interval, ManagerAssumption DEF Ids, ManagerAssumption
  <2> QED
    BY <2>1, <2>2, FS_Subset
<1>2. Locks' = Locks
  BY DEF ProofStep, Locks
<1>3. /\ signers' = [signers EXCEPT ![i] = @ \cup {s}]
      /\ s \notin signers[i]
      /\ \A j \in Ids : signers[j] \subseteq signers'[j]
      /\ s \in signers'[i]
  <2>1. signers' = [signers EXCEPT ![i] = @ \cup {s}] /\ s \notin signers[i]
    BY DEF ProofStep, SubmitProof, Accepts
  <2> QED
    BY <1>1, <2>1 DEF Core, TypeOK
<1>4. \A j \in Ids : IsReady(j, signers) => IsReady(j, signers')
  BY <1>3, ReadyGrows DEF Core
<1>5. jobs \in [Relayers -> [Ids -> Outcomes]] /\ relayed \in [Relayers -> Nat]
  BY DEF Core, TypeOK
<1>6. ASSUME NEW r \in Relayers
      PROVE  /\ relayed'[r] = Cardinality(PaidFor(r)')
             /\ \A j \in PaidFor(r)' : r \in signers'[j] /\ IsReady(j, signers')
  <2>1. /\ relayed[r] = Cardinality(PaidFor(r))
        /\ \A j \in PaidFor(r) : r \in signers[j] /\ IsReady(j, signers)
    BY <1>6 DEF PaidOncePerEvent, PaidFor
  <2>2. PaidFor(r) \subseteq Ids /\ IsFiniteSet(PaidFor(r))
    <3>1. PaidFor(r) \subseteq Locks
      BY DEF PaidFor
    <3> QED
      BY <1>1, <3>1, FS_Subset
  <2>3. \A j \in PaidFor(r) : r \in signers'[j] /\ IsReady(j, signers')
    BY <1>3, <1>4, <2>1, <2>2
  <2>4. ASSUME PaidFor(r)' = PaidFor(r), relayed'[r] = relayed[r]
        PROVE  /\ relayed'[r] = Cardinality(PaidFor(r)')
               /\ \A j \in PaidFor(r)' : r \in signers'[j] /\ IsReady(j, signers')
    BY <2>1, <2>3, <2>4
  <2>5. CASE UNCHANGED <<jobs, relayed>>
    BY <1>2, <2>4, <2>5 DEF PaidFor
  <2>6. CASE /\ i \in Locks /\ jobs[s][i] # "confirmed"
             /\ IsReady(i, signers')
             /\ jobs' = [jobs EXCEPT ![s][i] = "confirmed"]
             /\ relayed' = [relayed EXCEPT ![s] = @ + 1]
    <3>1. \A q \in Relayers, j \in Ids :
            jobs'[q][j] = IF q = s /\ j = i THEN "confirmed" ELSE jobs[q][j]
      BY <1>1, <1>5, <2>6
    <3>2. CASE r = s
      <4>1. PaidFor(r)' = PaidFor(r) \cup {i} /\ i \notin PaidFor(r)
        BY <1>1, <1>2, <2>6, <3>1, <3>2 DEF PaidFor
      <4>2. Cardinality(PaidFor(r) \cup {i}) = Cardinality(PaidFor(r)) + 1
        BY <2>2, <4>1, FS_AddElement
      <4>3. relayed'[r] = relayed[r] + 1
        BY <1>5, <2>6, <3>2
      <4>4. relayed'[r] = Cardinality(PaidFor(r)')
        BY <2>1, <4>1, <4>2, <4>3
      <4> QED
        BY <1>3, <2>3, <2>6, <3>2, <4>1, <4>4
    <3>3. CASE r # s
      <4>1. PaidFor(r)' = PaidFor(r)
        BY <1>1, <1>2, <3>1, <3>3 DEF PaidFor
      <4>2. relayed'[r] = relayed[r]
        BY <1>5, <2>6, <3>3
      <4> QED
        BY <2>4, <4>1, <4>2
    <3> QED
      BY <3>2, <3>3
  <2>7. CASE /\ i \in Locks /\ jobs[s][i] # "confirmed"
             /\ jobs' = [jobs EXCEPT ![s][i] = "submitted"] /\ UNCHANGED relayed
    <3>1. \A q \in Relayers, j \in Ids :
            jobs'[q][j] = IF q = s /\ j = i THEN "submitted" ELSE jobs[q][j]
      BY <1>1, <1>5, <2>7
    <3>2. PaidFor(r)' = PaidFor(r)
      BY <1>1, <1>2, <2>7, <3>1 DEF PaidFor
    <3> QED
      BY <2>4, <2>7, <3>2
  <2> QED
    BY <2>5, <2>6, <2>7 DEF ProofStep
<1> QED
  BY <1>6 DEF PaidOncePerEvent, PaidFor

(* Every step keeps a relayer paid once for an event.                       *)
LEMMA PayStep ==
  ASSUME Core, Core', PaidOncePerEvent, HandoffTypeOK, [HandoffNext]_hvars
  PROVE  PaidOncePerEvent'
<1>1. \/ \E q \in Requests : LockBait(q)
      \/ \E b \in Burns : BurnWrapped(b)
      \/ \E i \in known, r \in Relayers : ProofStep(i, r)
      \/ \E i \in known : MintWrapped(i) \/ ReleaseBait(i) \/ Refund(i)
      \/ SetPaused
      \/ NewDay
      \/ Restart
      \/ UNCHANGED vars
  BY StepKinds DEF hvars
<1>2. ASSUME NEW what \in Requests \cup Burns, NEW state \in States, Make(what, state),
             UNCHANGED <<signers, jobs, relayed>>
      PROVE  PaidOncePerEvent'
  <2>1. NewId \in Ids \ DOMAIN transfers
    BY <1>2, MakeType DEF Core
  <2>2. \A r \in Relayers : jobs[r][NewId] = "none"
    BY <2>1 DEF Core, Fresh
  <2>3. Locks \subseteq Locks' /\ Locks' \ Locks \subseteq {NewId}
    BY <1>2, MakeKeeps DEF Core
  <2> QED
    BY <1>2, <2>2, <2>3, PayKept
<1>3. ASSUME NEW q \in Requests, LockBait(q) PROVE PaidOncePerEvent'
  <2>1. "locked" \in States /\ Make(q, "locked") /\ UNCHANGED <<signers, jobs, relayed>>
    BY <1>3 DEF LockBait, States
  <2> QED
    BY <1>2, <2>1
<1>4. ASSUME NEW b \in Burns, BurnWrapped(b) PROVE PaidOncePerEvent'
  <2>1. "burned" \in States /\ Make(b, "burned") /\ UNCHANGED <<signers, jobs, relayed>>
    BY <1>4 DEF BurnWrapped, States
  <2> QED
    BY <1>2, <2>1
<1>5. ASSUME UNCHANGED <<transfers, known, signers, jobs, relayed>> PROVE PaidOncePerEvent'
  <2>1. Locks' = Locks
    BY <1>5 DEF Locks
  <2> QED
    BY <1>5, <2>1, PayKept
<1>6. ASSUME NEW i \in known, MintWrapped(i) \/ ReleaseBait(i) \/ Refund(i)
      PROVE  PaidOncePerEvent'
  BY <1>5, <1>6 DEF MintWrapped, ReleaseBait, Refund
<1>7. CASE SetPaused \/ NewDay \/ UNCHANGED vars
  BY <1>5, <1>7 DEF SetPaused, NewDay, vars
<1>8. CASE Restart
  <2>1. Locks' = {} /\ \A r \in Relayers : relayed'[r] = 0
    BY <1>8 DEF Restart, Locks
  <2>2. \A r \in Relayers : PaidFor(r)' = {}
    BY <2>1 DEF PaidFor
  <2>3. \A r \in Relayers : Cardinality(PaidFor(r)') = 0
    BY <2>2, FS_EmptySet, Zenon
  <2> QED
    BY <2>1, <2>2, <2>3 DEF PaidOncePerEvent, PaidFor
<1> QED
  BY <1>1, <1>3, <1>4, <1>6, <1>7, <1>8, ProofPay

-----------------------------------------------------------------------------
(* The limits of an agent *)

\* The locks of an agent on one day.
MadeOn(a, d) == {i \in Locks : Agent[transfers[i]] = a /\ madeOn[i] = d}

(* The volume of today is what the locks of today add up to, and no day had *)
(* more than the limit.                                                     *)
DaysFit ==
  /\ \A i \in known : madeOn[i] <= day
  /\ \A a \in Agents : volume[a] = Total(MadeOn(a, day))
  /\ \A a \in Agents, d \in 0..MaxDays : Total(MadeOn(a, d)) <= DailyLimit

PendingFits == \A a \in Agents : Cardinality(PendingOf(a)) <= MaxPending

(* The two limits.                                                          *)
LEMMA LimitsFollow == ASSUME DaysFit, PendingFits PROVE LimitsHold
BY DEF DaysFit, PendingFits, LimitsHold, MadeOn

(* A transfer that is not a lock of this agent on this day adds nothing.    *)
LEMMA DayKept ==
  ASSUME TypeOK, NEW a, NEW d,
         DOMAIN transfers \subseteq DOMAIN transfers',
         \A i \in DOMAIN transfers : transfers'[i] = transfers[i],
         {i \in Locks' : Agent[transfers'[i]] = a /\ madeOn'[i] = d} = MadeOn(a, d)
  PROVE  SumFunctionOnSet(Worth', {i \in Locks' : Agent[transfers'[i]] = a /\ madeOn'[i] = d})
           = Total(MadeOn(a, d))
<1>1. MadeOn(a, d) \in SUBSET DOMAIN transfers
  BY DEF TypeOK, MadeOn, Locks
<1>2. SumFunctionOnSet(Worth', MadeOn(a, d)) = Total(MadeOn(a, d))
  BY <1>1, TotalKept
<1> QED
  BY <1>2, Zenon

(* A lock counts for its agent, today.                                      *)
LEMMA LockDays ==
  ASSUME Core, TypeOK', DaysFit, NEW q \in Requests, LockBait(q)
  PROVE  DaysFit'
<1> DEFINE Day(a, d) == {i \in Locks' : Agent[transfers'[i]] = a /\ madeOn'[i] = d}
           Sum(S) == SumFunctionOnSet(Worth', S)
<1>1. "locked" \in States /\ Make(q, "locked")
  BY DEF LockBait, States
<1>2. /\ NewId \in Ids /\ NewId \notin DOMAIN transfers /\ NewId \notin known
      /\ DOMAIN transfers' = DOMAIN transfers \cup {NewId}
      /\ transfers'[NewId] = q
      /\ \A i \in DOMAIN transfers : transfers'[i] = transfers[i]
      /\ known' = known \cup {NewId}
  BY <1>1, MakeType DEF Core
<1>3. /\ Locks' = Locks \cup {NewId} /\ madeOn'[NewId] = day
      /\ \A i \in DOMAIN transfers : madeOn'[i] = madeOn[i]
  BY <1>1, MakeKeeps DEF Core
<1>4. /\ volume' = [volume EXCEPT ![Agent[q]] = @ + Amount[q]]
      /\ volume[Agent[q]] + Amount[q] <= DailyLimit
      /\ day' = day
  BY DEF LockBait, MayLock, CheckRateLimit
<1>5. /\ volume \in [Agents -> Nat] /\ day \in 0..MaxDays /\ Agent[q] \in Agents
      /\ known \subseteq DOMAIN transfers /\ Locks \subseteq known
  BY ManagerAssumption DEF ManagerAssumption, Core, TypeOK, Locks
<1>6. \A i \in known' : madeOn'[i] <= day'
  BY <1>2, <1>3, <1>4, <1>5 DEF DaysFit
<1> HIDE DEF NewId
<1>7. ASSUME NEW a \in Agents, NEW d \in 0..MaxDays, a # Agent[q] \/ d # day
      PROVE  Sum(Day(a, d)) = Total(MadeOn(a, d))
  <2>1. Day(a, d) = MadeOn(a, d)
    BY <1>2, <1>3, <1>5, <1>7 DEF MadeOn
  <2> QED
    BY <1>2, <2>1, DayKept DEF Core
<1>8. Sum(Day(Agent[q], day)) = Total(MadeOn(Agent[q], day)) + Amount[q]
  <2> DEFINE Old == MadeOn(Agent[q], day)
  <2>1. Day(Agent[q], day) = Old \cup {NewId}
    BY <1>2, <1>3, <1>5 DEF MadeOn
  <2>2. Old \in SUBSET DOMAIN transfers
    BY <1>5 DEF MadeOn
  <2> HIDE DEF Old
  <2>3. Sum(Old) = Total(Old)
    BY <1>2, <2>2, TotalKept DEF Core
  <2>4. Sum(Old \cup {NewId}) = Sum(Old) + Amount[transfers'[NewId]]
    <3>1. TotalsAdd'
      BY TotalsAddUpNext
    <3>2. Old \in SUBSET DOMAIN transfers' /\ NewId \in DOMAIN transfers' \ Old
      BY <1>2, <2>2
    <3> QED
      BY <3>1, <3>2 DEF TotalsAdd, Total
  <2>5. Sum(Day(Agent[q], day)) = Sum(Old \cup {NewId})
    BY <2>1, Zenon
  <2> HIDE DEF Sum, Day
  <2> QED
    BY <1>2, <2>3, <2>4, <2>5 DEF Old
<1> HIDE DEF Sum, Day
<1>9. \A a \in Agents : volume'[a] = Sum(Day(a, day))
  BY <1>4, <1>5, <1>7, <1>8 DEF DaysFit
<1>10. \A a \in Agents, d \in 0..MaxDays : Sum(Day(a, d)) <= DailyLimit
  <2>1. volume[Agent[q]] = Total(MadeOn(Agent[q], day))
    BY <1>5 DEF DaysFit
  <2>2. Sum(Day(Agent[q], day)) <= DailyLimit
    BY <1>4, <1>8, <2>1
  <2> QED
    BY <1>7, <2>2 DEF DaysFit
<1>11. \A a, d : Total(MadeOn(a, d))' = Sum(Day(a, d))
  BY Zenon DEF Sum, Day, Total, MadeOn
<1>12. \A a : Total(MadeOn(a, day))' = Sum(Day(a, day'))
  BY Zenon DEF Sum, Day, Total, MadeOn
<1> QED
  BY <1>4, <1>6, <1>9, <1>10, <1>11, <1>12 DEF DaysFit

(* A burn counts for nobody.                                                *)
LEMMA BurnDays ==
  ASSUME Core, TypeOK', DaysFit, NEW b \in Burns, BurnWrapped(b)
  PROVE  DaysFit'
<1> DEFINE Day(a, d) == {i \in Locks' : Agent[transfers'[i]] = a /\ madeOn'[i] = d}
           Sum(S) == SumFunctionOnSet(Worth', S)
<1>1. "burned" \in States /\ Make(b, "burned") /\ b \notin Requests
  BY ManagerAssumption DEF BurnWrapped, States, ManagerAssumption
<1>2. /\ DOMAIN transfers' = DOMAIN transfers \cup {NewId}
      /\ \A i \in DOMAIN transfers : transfers'[i] = transfers[i]
      /\ known' = known \cup {NewId}
  BY <1>1, MakeType DEF Core
<1>3. /\ Locks' = Locks /\ madeOn'[NewId] = day
      /\ \A i \in DOMAIN transfers : madeOn'[i] = madeOn[i]
  BY <1>1, MakeKeeps DEF Core
<1>4. volume' = volume /\ day' = day
  BY DEF BurnWrapped
<1>5. day \in 0..MaxDays /\ known \subseteq DOMAIN transfers /\ Locks \subseteq known
  BY DEF Core, TypeOK, Locks
<1>6. \A i \in known' : madeOn'[i] <= day'
  BY <1>2, <1>3, <1>4, <1>5 DEF DaysFit
<1> HIDE DEF NewId
<1>7. ASSUME NEW a \in Agents, NEW d \in 0..MaxDays
      PROVE  Sum(Day(a, d)) = Total(MadeOn(a, d))
  <2>1. Day(a, d) = MadeOn(a, d)
    BY <1>2, <1>3, <1>5 DEF MadeOn
  <2> QED
    BY <1>2, <2>1, DayKept DEF Core
<1> HIDE DEF Sum, Day
<1>8. \A a, d : Total(MadeOn(a, d))' = Sum(Day(a, d))
  BY Zenon DEF Sum, Day, Total, MadeOn
<1>9. \A a : Total(MadeOn(a, day))' = Sum(Day(a, day'))
  BY Zenon DEF Sum, Day, Total, MadeOn
<1> QED
  BY <1>4, <1>5, <1>6, <1>7, <1>8, <1>9 DEF DaysFit

(* A new day starts from nothing.                                           *)
LEMMA NewDayDays ==
  ASSUME Core, DaysFit, NewDay
  PROVE  DaysFit'
<1>1. /\ UNCHANGED <<transfers, madeOn, known>> /\ day' = day + 1
      /\ volume' = [a \in Agents |-> 0]
  BY DEF NewDay
<1>2. Locks' = Locks /\ Worth' = Worth /\ Locks \subseteq known
  BY <1>1 DEF Locks, Worth
<1>3. day \in Nat /\ madeOn \in [Ids -> 0..MaxDays] /\ known \subseteq Ids
  BY ManagerAssumption, KnownIds DEF ManagerAssumption, Core, TypeOK
<1>4. \A i \in known' : madeOn'[i] <= day'
  BY <1>1, <1>3 DEF DaysFit
<1>5. \A a, d : Total(MadeOn(a, d))' = Total(MadeOn(a, d))
  BY <1>1, <1>2 DEF Total, MadeOn
<1>6. ASSUME NEW a \in Agents PROVE Total(MadeOn(a, day))' = 0
  <2>1. MadeOn(a, day)' = {}
    BY <1>1, <1>2, <1>3 DEF MadeOn, DaysFit
  <2>2. SumFunctionOnSet(Worth', {}) = 0
    BY SumEmpty
  <2> QED
    BY <2>1, <2>2, Zenon DEF Total
<1> QED
  BY <1>1, <1>4, <1>5, <1>6 DEF DaysFit

(* At the start, and after a restart, nobody has locked anything.           *)
LEMMA EmptyDays == known = {} /\ volume = [a \in Agents |-> 0] => DaysFit
<1> SUFFICES ASSUME known = {}, volume = [a \in Agents |-> 0]
             PROVE  DaysFit
  OBVIOUS
<1>1. \A a, d : MadeOn(a, d) = {}
  BY DEF MadeOn, Locks
<1>2. Total({}) = 0
  BY SumEmpty DEF Total
<1>3. \A a, d : Total(MadeOn(a, d)) = 0
  BY <1>1, <1>2, Zenon
<1>4. DailyLimit \in Nat
  BY ManagerAssumption DEF ManagerAssumption
<1> QED
  BY <1>3, <1>4 DEF DaysFit

(* ... in the next state.                                                   *)
LEMMA EmptyDaysNext == (known = {} /\ volume = [a \in Agents |-> 0] => DaysFit)'
BY EmptyDays, PTL

(* Every step keeps an agent's days.                                        *)
LEMMA DaysStep ==
  ASSUME Core, Core', DaysFit, HandoffTypeOK, [HandoffNext]_hvars
  PROVE  DaysFit'
<1>1. \/ \E q \in Requests : LockBait(q)
      \/ \E b \in Burns : BurnWrapped(b)
      \/ \E i \in known, r \in Relayers : ProofStep(i, r)
      \/ \E i \in known : MintWrapped(i) \/ ReleaseBait(i) \/ Refund(i)
      \/ SetPaused
      \/ NewDay
      \/ Restart
      \/ UNCHANGED vars
  BY StepKinds DEF hvars
<1>2. TypeOK'
  BY DEF Core
<1>3. ASSUME UNCHANGED <<transfers, madeOn, known, volume, day>> PROVE DaysFit'
  BY <1>3, Zenon DEF DaysFit, Total, Worth, MadeOn, Locks
<1>4. CASE SetPaused \/ UNCHANGED vars
  BY <1>3, <1>4 DEF SetPaused, vars
<1>5. ASSUME NEW i \in known, MintWrapped(i) \/ ReleaseBait(i) \/ Refund(i) PROVE DaysFit'
  BY <1>3, <1>5 DEF MintWrapped, ReleaseBait, Refund
<1>6. ASSUME NEW i, NEW r, ProofStep(i, r) PROVE DaysFit'
  BY <1>3, <1>6 DEF ProofStep
<1>7. CASE Restart
  BY <1>7, EmptyDaysNext DEF Restart
<1> QED
  BY <1>1, <1>2, <1>4, <1>5, <1>6, <1>7, LockDays, BurnDays, NewDayDays

(* What an agent has open is finite.                                        *)
LEMMA PendingFinite ==
  ASSUME TypeOK, NEW a
  PROVE  IsFiniteSet(PendingOf(a)) /\ Cardinality(PendingOf(a)) \in Nat
<1>1. PendingOf(a) \subseteq Ids
  BY KnownIds DEF PendingOf, Locks
<1>2. IsFiniteSet(Ids)
  BY FS_Interval, ManagerAssumption DEF Ids, ManagerAssumption
<1> QED
  BY <1>1, <1>2, FS_Subset, FS_CardinalityType

(* Fewer open locks are within the limit too.                               *)
LEMMA PendingFewer ==
  ASSUME TypeOK, PendingFits, NEW a \in Agents, NEW P, P \subseteq PendingOf(a)
  PROVE  Cardinality(P) <= MaxPending
<1>1. IsFiniteSet(PendingOf(a)) /\ Cardinality(PendingOf(a)) \in Nat
  BY PendingFinite
<1>2. Cardinality(P) <= Cardinality(PendingOf(a)) /\ Cardinality(P) \in Nat
  BY <1>1, FS_Subset, FS_CardinalityType
<1>3. MaxPending \in Nat
  BY ManagerAssumption DEF ManagerAssumption
<1> QED
  BY <1>1, <1>2, <1>3 DEF PendingFits

(* Every step keeps the open locks of an agent within its limit: only a     *)
(* lock opens one, and it was checked under the number it adds to.          *)
LEMMA PendingStep ==
  ASSUME Core, Core', PendingFits, HandoffTypeOK, [HandoffNext]_hvars
  PROVE  PendingFits'
<1>1. \/ \E q \in Requests : LockBait(q)
      \/ \E b \in Burns : BurnWrapped(b)
      \/ \E i \in known, r \in Relayers : ProofStep(i, r)
      \/ \E i \in known : MintWrapped(i) \/ ReleaseBait(i) \/ Refund(i)
      \/ SetPaused
      \/ NewDay
      \/ Restart
      \/ UNCHANGED vars
  BY StepKinds DEF hvars
<1>2. TypeOK /\ TypeOK' /\ known \subseteq DOMAIN transfers /\ known \subseteq Ids
  BY KnownIds DEF Core, TypeOK
<1>3. Locks \subseteq known
  BY DEF Locks
<1>4. ASSUME \A a \in Agents : PendingOf(a)' \subseteq PendingOf(a) PROVE PendingFits'
  <2>1. \A a \in Agents : Cardinality(PendingOf(a)') <= MaxPending
    BY <1>2, <1>4, PendingFewer
  <2> QED
    BY <2>1 DEF PendingFits
<1>5. ASSUME UNCHANGED <<transfers, known>>,
             \A i \in known : record'[i] \in Provable => record[i] \in Provable
      PROVE  PendingFits'
  <2>1. Locks' = Locks
    BY <1>5 DEF Locks
  <2>2. \A a \in Agents : PendingOf(a)' \subseteq PendingOf(a)
    BY <1>3, <1>5, <2>1 DEF PendingOf
  <2> QED
    BY <1>4, <2>2
<1>6. CASE SetPaused \/ NewDay \/ UNCHANGED vars
  <2>1. UNCHANGED <<transfers, known, record>>
    BY <1>6 DEF SetPaused, NewDay, vars
  <2> QED
    BY <1>5, <2>1
<1>7. ASSUME NEW i \in known, MintWrapped(i) \/ ReleaseBait(i) \/ Refund(i)
      PROVE  PendingFits'
  <2>1. PICK x \in {"minted", "completed", "refunded"} : record' = [record EXCEPT ![i] = x]
    BY <1>7 DEF MintWrapped, Mint, ReleaseBait, Refund
  <2>2. \A j \in known : record'[j] \in Provable => record[j] \in Provable
    BY <1>2, <2>1 DEF TypeOK, Provable
  <2> QED
    BY <1>5, <1>7, <2>2 DEF MintWrapped, ReleaseBait, Refund
<1>8. ASSUME NEW i \in known, NEW r \in Relayers, ProofStep(i, r) PROVE PendingFits'
  <2>1. /\ record[i] \in Provable
        /\ \A j \in Ids \ {i} : record'[j] = record[j]
    BY <1>8, ProofType DEF ProofStep, Accepts, Core, RecordFollowsEvent
  <2>2. \A j \in known : record'[j] \in Provable => record[j] \in Provable
    BY <1>2, <2>1
  <2> QED
    BY <1>5, <1>8, <2>2 DEF ProofStep
<1>9. CASE Restart
  <2>1. \A a \in Agents : PendingOf(a)' \subseteq PendingOf(a)
    BY <1>9 DEF Restart, PendingOf, Locks
  <2> QED
    BY <1>4, <2>1
<1>10. ASSUME NEW b \in Burns, BurnWrapped(b) PROVE PendingFits'
  <2>1. "burned" \in States /\ Make(b, "burned") /\ b \notin Requests
    BY <1>10, ManagerAssumption DEF BurnWrapped, States, ManagerAssumption
  <2>2. \A i \in DOMAIN transfers : transfers'[i] = transfers[i]
    BY <1>2, <2>1, MakeType
  <2>3. Locks' = Locks /\ \A i \in DOMAIN transfers : record'[i] = record[i]
    BY <1>2, <2>1, MakeKeeps
  <2>4. \A a \in Agents : PendingOf(a)' \subseteq PendingOf(a)
    BY <1>2, <1>3, <2>2, <2>3 DEF PendingOf
  <2> QED
    BY <1>4, <2>4
<1>11. ASSUME NEW q \in Requests, LockBait(q) PROVE PendingFits'
  <2>1. "locked" \in States /\ Make(q, "locked")
    BY <1>11 DEF LockBait, States
  <2>2. /\ NewId \notin DOMAIN transfers /\ transfers'[NewId] = q
        /\ \A i \in DOMAIN transfers : transfers'[i] = transfers[i]
    BY <1>2, <2>1, MakeType
  <2>3. /\ Locks' = Locks \cup {NewId}
        /\ \A i \in DOMAIN transfers : record'[i] = record[i]
    BY <1>2, <2>1, MakeKeeps
  <2> HIDE DEF NewId
  <2>4. ASSUME NEW a \in Agents PROVE Cardinality(PendingOf(a)') <= MaxPending
    <3>1. CASE a # Agent[q]
      <4>1. PendingOf(a)' \subseteq PendingOf(a)
        BY <1>2, <1>3, <2>2, <2>3, <3>1 DEF PendingOf
      <4> QED
        BY <1>2, <4>1, PendingFewer
    <3>2. CASE a = Agent[q]
      <4>1. PendingOf(a)' \subseteq PendingOf(a) \cup {NewId}
        BY <1>2, <1>3, <2>2, <2>3 DEF PendingOf
      <4>2. IsFiniteSet(PendingOf(a)) /\ Cardinality(PendingOf(a)) \in Nat
        BY <1>2, PendingFinite
      <4>3. NewId \notin PendingOf(a)
        BY <1>2, <1>3, <2>2 DEF PendingOf
      <4>4. /\ IsFiniteSet(PendingOf(a) \cup {NewId})
            /\ Cardinality(PendingOf(a) \cup {NewId}) = Cardinality(PendingOf(a)) + 1
        BY <4>2, <4>3, FS_AddElement
      <4>5. /\ Cardinality(PendingOf(a)') <= Cardinality(PendingOf(a) \cup {NewId})
            /\ Cardinality(PendingOf(a)') \in Nat
        BY <4>1, <4>4, FS_Subset, FS_CardinalityType
      <4>6. Cardinality(PendingOf(a)) < MaxPending
        BY <1>11, <3>2 DEF LockBait, MayLock, CheckPendingLimit
      <4>7. MaxPending \in Nat
        BY ManagerAssumption DEF ManagerAssumption
      <4> QED
        BY <4>2, <4>4, <4>5, <4>6, <4>7
    <3> QED
      BY <3>1, <3>2
  <2> QED
    BY <2>4 DEF PendingFits
<1> QED
  BY <1>1, <1>6, <1>7, <1>8, <1>9, <1>10, <1>11

-----------------------------------------------------------------------------
(* Orders *)

(* A request that was locked is remembered, and an order's row names one    *)
(* of the locks that were made for it.                                      *)
Remembered == \A i \in Locks : Key[transfers[i]] \in dedup

RowsNameLocks ==
  \A o \in Orders :
    rows[o] # NoRow =>
      /\ TransferOf(o) \in DOMAIN transfers
      /\ transfers[TransferOf(o)] = o
      /\ rows[o].state # "none"

(* A call in progress works on a row that is not final; with all its        *)
(* signatures in, its lock is held and carries them.                        *)
CallFits ==
  call # Idle =>
    /\ call \in [order : Orders, left : Seq(Relayers)]
    /\ rows[call.order].state \in {"locked", "pending_proof"}
    /\ call.left = <<>> => /\ TransferOf(call.order) \in known
                           /\ signers[TransferOf(call.order)] # {}

KeysOnce == \A i, j \in Locks : Key[transfers[i]] = Key[transfers[j]] => i = j

(* All that is proved about the handoff rests on this.                      *)
HandoffInv ==
  /\ HandoffTypeOK /\ Core
  /\ Remembered /\ KeysOnce /\ RowsNameLocks /\ CallFits /\ RowNeverAhead

(* A transfer stays what it is, keeps its signatures, and what was minted   *)
(* or refunded stays so: a proof needs an event that can still be proved, a *)
(* mint a quorum, which no refunded lock has, and a refund a record without *)
(* one.  No call forgets a transfer or a key; only a restart does.          *)
LEMMA ManagerKeeps ==
  ASSUME Core, HandoffTypeOK, [HandoffNext]_hvars
  PROVE  /\ \A i \in DOMAIN transfers :
              /\ i \in DOMAIN transfers' /\ transfers'[i] = transfers[i]
              /\ signers[i] \subseteq signers'[i]
              /\ event[i] \in {"minted", "refunded"} => event'[i] = event[i]
         /\ known \subseteq known' \/ Restart
<1> DEFINE Keeps ==
             /\ \A i \in DOMAIN transfers :
                  /\ i \in DOMAIN transfers' /\ transfers'[i] = transfers[i]
                  /\ signers[i] \subseteq signers'[i]
                  /\ event[i] \in {"minted", "refunded"} => event'[i] = event[i]
             /\ known \subseteq known' \/ Restart
<1>1. \/ \E q \in Requests : LockBait(q)
      \/ \E b \in Burns : BurnWrapped(b)
      \/ \E i \in known, r \in Relayers : ProofStep(i, r)
      \/ \E i \in known : MintWrapped(i) \/ ReleaseBait(i) \/ Refund(i)
      \/ SetPaused
      \/ NewDay
      \/ Restart
      \/ UNCHANGED vars
  BY StepKinds DEF hvars
<1>2. /\ TypeOK /\ known \subseteq DOMAIN transfers
      /\ DOMAIN transfers \subseteq Ids
  BY KnownIds DEF Core, TypeOK
<1>3. ASSUME NEW what \in Requests \cup Burns, NEW state \in States, Make(what, state),
             UNCHANGED signers
      PROVE  Keeps
  BY <1>2, <1>3, MakeType, MakeKeeps
<1>4. ASSUME NEW q \in Requests, LockBait(q) PROVE Keeps
  <2>1. "locked" \in States /\ Make(q, "locked") /\ UNCHANGED signers
    BY <1>4 DEF LockBait, States
  <2> QED
    BY <1>3, <2>1
<1>5. ASSUME NEW b \in Burns, BurnWrapped(b) PROVE Keeps
  <2>1. "burned" \in States /\ Make(b, "burned") /\ UNCHANGED signers
    BY <1>5 DEF BurnWrapped, States
  <2> QED
    BY <1>3, <2>1
<1>6. ASSUME NEW i \in known, NEW r \in Relayers, ProofStep(i, r) PROVE Keeps
  <2>1. /\ signers' = [signers EXCEPT ![i] = @ \cup {r}]
        /\ \A j \in Ids \ {i} : event'[j] = event[j]
        /\ event[i] \in Provable /\ UNCHANGED <<transfers, known>>
    BY <1>2, <1>6, ProofType DEF ProofStep, Accepts
  <2>2. \A j \in Ids : signers[j] \subseteq signers'[j]
    BY <1>2, <2>1 DEF TypeOK
  <2> QED
    BY <1>2, <2>1, <2>2 DEF Provable
<1>7. ASSUME NEW i \in known, MintWrapped(i) \/ ReleaseBait(i) \/ Refund(i) PROVE Keeps
  <2>1. UNCHANGED <<transfers, known, signers>>
    BY <1>7 DEF MintWrapped, ReleaseBait, Refund
  <2>2. event[i] \notin {"minted", "refunded"}
    <3>1. CASE MintWrapped(i)
      <4>1. event[i] # "minted" /\ IsReady(i, signers)
        BY <3>1 DEF MintWrapped, Mint
      <4>2. signers[i] # {}
        BY <4>1, NotReady
      <4>3. i \in Locks
        BY <1>2, <4>2 DEF Core, OnlyLocksSigned, Locks
      <4> QED
        BY <4>1, <4>3 DEF Core, QuorumDecides
    <3>2. CASE ReleaseBait(i)
      BY <3>2 DEF ReleaseBait, Core, StatesFit
    <3>3. CASE Refund(i)
      BY <3>3 DEF Refund, Core, RecordFollowsEvent
    <3> QED
      BY <1>7, <3>1, <3>2, <3>3
  <2>3. \A j \in Ids \ {i} : event'[j] = event[j]
    <3>1. PICK x : event' = [event EXCEPT ![i] = x]
      BY <1>7 DEF MintWrapped, Mint, ReleaseBait, Refund
    <3> QED
      BY <1>2, <3>1 DEF TypeOK
  <2> QED
    BY <1>2, <2>1, <2>2, <2>3
<1>8. CASE SetPaused \/ NewDay \/ UNCHANGED vars
  BY <1>8 DEF SetPaused, NewDay, vars
<1>9. CASE Restart
  BY <1>9 DEF Restart
<1> QED
  BY <1>1, <1>4, <1>5, <1>6, <1>7, <1>8, <1>9

(* The handoff's own variables keep their types.                            *)
LEMMA HandoffType ==
  ASSUME HandoffInv, [HandoffNext]_hvars
  PROVE  HandoffTypeOK'
<1> DEFINE Row == [transfer : Ids \cup {0}, state : {"none", "locked", "pending_proof", "minted"}]
<1>1. TypeOK'
  BY StepKinds, ManagerType DEF hvars, HandoffInv, HandoffTypeOK
<1>2. rows \in [Orders -> Row] /\ call.left \in Seq(Relayers)
  BY DEF HandoffInv, HandoffTypeOK
<1>3. Idle.left \in Seq(Relayers)
  BY DEF Idle
<1>4. ASSUME UNCHANGED rows, call' = call \/ call' = Idle PROVE HandoffTypeOK'
  BY <1>1, <1>3, <1>4 DEF HandoffInv, HandoffTypeOK
<1>5. ASSUME NEW o \in Orders, StartLock(o) PROVE HandoffTypeOK'
  <2>1. NewId \in Ids /\ UNCHANGED call
    BY <1>5 DEF StartLock, LockBait, Make
  <2>2. [transfer |-> NewId, state |-> "locked"] \in Row
    BY <2>1
  <2> HIDE DEF Row
  <2>3. rows' \in [Orders -> Row]
    BY <1>2, <1>5, <2>2 DEF StartLock
  <2> QED
    BY <1>1, <2>1, <2>3 DEF HandoffInv, HandoffTypeOK, Row
<1>6. ASSUME NEW o \in Orders, NEW batch \in Batches, BeginSubmit(o, batch)
      PROVE  HandoffTypeOK'
  <2>1. batch \in Seq(Relayers)
    <3>1. PICK n \in 1..MaxBatch : batch \in [1..n -> Relayers]
      BY DEF Batches
    <3>2. n \in Nat
      BY HandoffAssumption DEF HandoffAssumption
    <3> QED
      BY <3>1, <3>2
  <2>2. call'.left = batch /\ call'.order = o /\ UNCHANGED rows
    BY <1>6 DEF BeginSubmit
  <2> QED
    BY <1>1, <2>1, <2>2 DEF HandoffInv, HandoffTypeOK
<1>7. CASE SubmitNext
  <2>1. UNCHANGED rows /\ (call' = [call EXCEPT !.left = Tail(@)] \/ call' = Idle)
    BY <1>7 DEF SubmitNext
  <2>2. CASE call' = [call EXCEPT !.left = Tail(@)]
    <3>1. call \in [order : Orders, left : Seq(Relayers)] /\ call.left # <<>>
      BY <1>7 DEF SubmitNext, HandoffInv, CallFits
    <3>2. call'.order \in Orders /\ call'.left \in Seq(Relayers)
      BY <2>2, <3>1
    <3> QED
      BY <1>1, <2>1, <3>2 DEF HandoffInv, HandoffTypeOK
  <2> QED
    BY <1>4, <2>1, <2>2
<1>8. ASSUME NEW state \in {"pending_proof", "minted"}, CloseRow(state), call # Idle
      PROVE  HandoffTypeOK'
  <2>1. call.order \in Orders
    BY <1>8 DEF HandoffInv, HandoffTypeOK
  <2>2. [rows[call.order] EXCEPT !.state = state] \in Row
    BY <1>2, <2>1
  <2>3. /\ rows' = [rows EXCEPT ![call.order] = [rows[call.order] EXCEPT !.state = state]]
           \/ rows' = rows
        /\ call' = Idle
    BY <1>8 DEF CloseRow
  <2> HIDE DEF Row
  <2>4. rows' \in [Orders -> Row]
    BY <1>2, <2>2, <2>3
  <2> QED
    BY <1>1, <1>3, <2>3, <2>4 DEF HandoffTypeOK, Row
<1>9. CASE EndReady \/ EndPending
  BY <1>8, <1>9 DEF EndReady, EndPending
<1>10. CASE Restart
  BY <1>4, <1>10 DEF Restart
<1>11. CASE UNCHANGED hvars
  BY <1>4, <1>11 DEF hvars
<1>12. CASE ManagerNext /\ UNCHANGED <<rows, call>>
  BY <1>4, <1>12
<1> QED
  BY <1>5, <1>6, <1>7, <1>9, <1>10, <1>11, <1>12 DEF HandoffNext

(* A lock is made only of a key that is not remembered; locks and keys are  *)
(* forgotten together.                                                      *)
LEMMA KeysStep ==
  ASSUME HandoffInv, [HandoffNext]_hvars
  PROVE  Remembered' /\ KeysOnce'
<1>1. \/ \E q \in Requests : LockBait(q)
      \/ \E b \in Burns : BurnWrapped(b)
      \/ \E i \in known, r \in Relayers : ProofStep(i, r)
      \/ \E i \in known : MintWrapped(i) \/ ReleaseBait(i) \/ Refund(i)
      \/ SetPaused
      \/ NewDay
      \/ Restart
      \/ UNCHANGED vars
  BY StepKinds DEF hvars, HandoffInv
<1>2. TypeOK /\ known \subseteq DOMAIN transfers /\ Locks \subseteq known
  BY DEF HandoffInv, HandoffTypeOK, TypeOK, Locks
<1>3. ASSUME NEW q \in Requests, LockBait(q) PROVE Remembered' /\ KeysOnce'
  <2>1. "locked" \in States /\ Make(q, "locked")
    BY <1>3 DEF LockBait, States
  <2>2. /\ transfers'[NewId] = q
        /\ \A i \in Locks : transfers'[i] = transfers[i]
        /\ Locks' = Locks \cup {NewId}
    BY <1>2, <2>1, MakeType, MakeKeeps
  <2>3. Key[q] \notin dedup /\ dedup' = dedup \cup {Key[q]}
    BY <1>3 DEF LockBait, MayLock
  <2> QED
    BY <2>2, <2>3 DEF HandoffInv, Remembered, KeysOnce
<1>4. ASSUME Locks' = Locks, \A i \in Locks : transfers'[i] = transfers[i], dedup' = dedup
      PROVE  Remembered' /\ KeysOnce'
  BY <1>4 DEF HandoffInv, Remembered, KeysOnce
<1>5. ASSUME NEW b \in Burns, BurnWrapped(b) PROVE Remembered' /\ KeysOnce'
  <2>1. "burned" \in States /\ Make(b, "burned") /\ dedup' = dedup /\ b \notin Requests
    BY <1>5, ManagerAssumption DEF BurnWrapped, States, ManagerAssumption
  <2> QED
    BY <1>2, <1>4, <2>1, MakeType, MakeKeeps
<1>6. ASSUME UNCHANGED <<transfers, known, dedup>> PROVE Remembered' /\ KeysOnce'
  BY <1>4, <1>6 DEF Locks
<1>7. ASSUME NEW i, NEW r, ProofStep(i, r) PROVE Remembered' /\ KeysOnce'
  BY <1>6, <1>7 DEF ProofStep
<1>8. ASSUME NEW i, MintWrapped(i) \/ ReleaseBait(i) \/ Refund(i)
      PROVE  Remembered' /\ KeysOnce'
  BY <1>6, <1>8 DEF MintWrapped, ReleaseBait, Refund
<1>9. CASE SetPaused \/ NewDay \/ UNCHANGED vars
  BY <1>6, <1>9 DEF SetPaused, NewDay, vars
<1>10. CASE Restart
  BY <1>10 DEF Restart, Remembered, KeysOnce, Locks
<1> QED
  BY <1>1, <1>3, <1>5, <1>7, <1>8, <1>9, <1>10

(* What a step does to the rows: nothing, a new one for a lock just made,   *)
(* or the end of the call in progress.                                      *)
LEMMA RowStep ==
  ASSUME HandoffInv, [HandoffNext]_hvars
  PROVE  \/ UNCHANGED rows
         \/ \E o \in Orders :
              /\ rows[o] = NoRow /\ LockBait(o)
              /\ rows' = [rows EXCEPT ![o] = [transfer |-> NewId, state |-> "locked"]]
         \/ /\ call # Idle /\ call.left = <<>>
            /\ \/ rows' = [rows EXCEPT ![call.order].state = "pending_proof"]
               \/ /\ rows' = [rows EXCEPT ![call.order].state = "minted"]
                  /\ event'[TransferOf(call.order)] = "minted"
<1>1. CASE EndReady
  <2> DEFINE i == TransferOf(call.order)
  <2>1. CASE MintWrapped(i)
    <3>1. i \in known /\ event' = [event EXCEPT ![i] = "minted"]
      BY <2>1 DEF MintWrapped, Mint
    <3>2. i \in Ids
      BY <3>1, KnownIds DEF HandoffInv, HandoffTypeOK
    <3>3. event'[i] = "minted"
      BY <3>1, <3>2 DEF HandoffInv, HandoffTypeOK, TypeOK
    <3> QED
      BY <1>1, <3>3 DEF EndReady, CloseRow
  <2>2. CASE event[i] = "minted" /\ UNCHANGED vars
    BY <1>1, <2>2 DEF EndReady, CloseRow, vars
  <2> QED
    BY <1>1, <2>1, <2>2 DEF EndReady
<1>2. CASE EndPending
  BY <1>2 DEF EndPending, CloseRow
<1>3. CASE (ManagerNext /\ UNCHANGED <<rows, call>>) \/ SubmitNext \/ Restart \/ UNCHANGED hvars
  BY <1>3 DEF SubmitNext, Restart, hvars
<1>4. ASSUME NEW o \in Orders, StartLock(o)
      PROVE  \/ UNCHANGED rows
             \/ /\ rows[o] = NoRow /\ LockBait(o)
                /\ rows' = [rows EXCEPT ![o] = [transfer |-> NewId, state |-> "locked"]]
  BY <1>4 DEF StartLock
<1>5. ASSUME NEW o, NEW batch, BeginSubmit(o, batch) PROVE UNCHANGED rows
  BY <1>5 DEF BeginSubmit
<1> QED
  BY <1>1, <1>2, <1>3, <1>4, <1>5 DEF HandoffNext

(* A row's parts after a step.                                              *)
LEMMA RowParts ==
  ASSUME HandoffInv, [HandoffNext]_hvars, NEW o \in Orders
  PROVE  \/ rows'[o] = rows[o]
         \/ /\ rows[o] = NoRow /\ LockBait(o)
            /\ rows'[o].transfer = NewId /\ rows'[o].state = "locked"
         \/ /\ rows'[o].transfer = rows[o].transfer
            /\ rows[o].state \in {"locked", "pending_proof"}
            /\ TransferOf(o) \in known /\ signers[TransferOf(o)] # {}
            /\ \/ rows'[o].state = "pending_proof"
               \/ rows'[o].state = "minted" /\ event'[TransferOf(o)] = "minted"
<1> DEFINE Row == [transfer : Ids \cup {0}, state : {"none", "locked", "pending_proof", "minted"}]
<1>1. rows \in [Orders -> Row]
  BY DEF HandoffInv, HandoffTypeOK
<1>2. ASSUME NEW p \in Orders, rows[p] = NoRow, LockBait(p),
             rows' = [rows EXCEPT ![p] = [transfer |-> NewId, state |-> "locked"]]
      PROVE  \/ rows'[o] = rows[o]
             \/ /\ rows[o] = NoRow /\ LockBait(o)
                /\ rows'[o].transfer = NewId /\ rows'[o].state = "locked"
  BY <1>1, <1>2
<1>3. ASSUME call # Idle, call.left = <<>>, NEW state \in {"pending_proof", "minted"},
             rows' = [rows EXCEPT ![call.order].state = state]
      PROVE  \/ rows'[o] = rows[o]
             \/ /\ o = call.order
                /\ rows'[o].transfer = rows[o].transfer /\ rows'[o].state = state
                /\ rows[o].state \in {"locked", "pending_proof"}
                /\ TransferOf(o) \in known /\ signers[TransferOf(o)] # {}
  <2>1. /\ call.order \in Orders /\ rows[call.order].state \in {"locked", "pending_proof"}
        /\ TransferOf(call.order) \in known /\ signers[TransferOf(call.order)] # {}
    BY <1>3 DEF HandoffInv, CallFits
  <2>2. CASE o = call.order
    BY <1>1, <1>3, <2>1, <2>2
  <2>3. CASE o # call.order
    BY <1>1, <1>3, <2>1, <2>3
  <2> QED
    BY <2>2, <2>3
<1> QED
  BY RowStep, <1>2, <1>3

(* Rows name the locks made for them and never run ahead of them.           *)
LEMMA RowsStep ==
  ASSUME HandoffInv, [HandoffNext]_hvars
  PROVE  RowsNameLocks' /\ RowNeverAhead'
<1>1. \A i \in DOMAIN transfers :
        /\ i \in DOMAIN transfers' /\ transfers'[i] = transfers[i]
        /\ signers[i] \subseteq signers'[i]
        /\ event[i] \in {"minted", "refunded"} => event'[i] = event[i]
  BY ManagerKeeps DEF HandoffInv
<1>2. ASSUME NEW o \in Orders
      PROVE  /\ rows'[o] # NoRow =>
                  /\ rows'[o].transfer \in DOMAIN transfers'
                  /\ transfers'[rows'[o].transfer] = o
                  /\ rows'[o].state # "none"
             /\ rows'[o].state = "pending_proof" => signers'[rows'[o].transfer] # {}
             /\ rows'[o].state = "minted" => event'[rows'[o].transfer] = "minted"
  <2>1. /\ rows[o] # NoRow => /\ rows[o].transfer \in DOMAIN transfers
                              /\ transfers[rows[o].transfer] = o
                              /\ rows[o].state # "none"
        /\ rows[o].state = "pending_proof" => signers[rows[o].transfer] # {}
        /\ rows[o].state = "minted" => event[rows[o].transfer] = "minted"
    BY DEF HandoffInv, RowsNameLocks, RowNeverAhead, TransferOf
  <2>2. rows[o] = NoRow => rows[o].state = "none"
    BY DEF NoRow
  <2>3. CASE rows'[o] = rows[o]
    BY <1>1, <2>1, <2>2, <2>3
  <2>4. CASE /\ rows[o] = NoRow /\ LockBait(o)
             /\ rows'[o].transfer = NewId /\ rows'[o].state = "locked"
    <3>1. o \in Requests /\ "locked" \in States /\ Make(o, "locked")
      BY <2>4, HandoffAssumption DEF LockBait, States, HandoffAssumption
    <3>2. NewId \in DOMAIN transfers' /\ transfers'[NewId] = o
      BY <3>1, MakeType DEF HandoffInv, HandoffTypeOK
    <3> QED
      BY <2>4, <3>2
  <2>5. CASE /\ rows'[o].transfer = rows[o].transfer
             /\ rows[o].state \in {"locked", "pending_proof"}
             /\ TransferOf(o) \in known /\ signers[TransferOf(o)] # {}
             /\ \/ rows'[o].state = "pending_proof"
                \/ rows'[o].state = "minted" /\ event'[TransferOf(o)] = "minted"
    BY <1>1, <2>1, <2>2, <2>5 DEF TransferOf
  <2> QED
    BY RowParts, <2>3, <2>4, <2>5
<1> QED
  BY <1>2 DEF RowsNameLocks, RowNeverAhead, TransferOf

(* A call starts on a row that is not final, and each of its signatures     *)
(* that is accepted is carried by a lock that is held.                      *)
LEMMA CallStep ==
  ASSUME HandoffInv, HandoffTypeOK', [HandoffNext]_hvars
  PROVE  CallFits'
<1>1. CASE call' = Idle
  BY <1>1 DEF CallFits, Idle
<1>2. ASSUME UNCHANGED <<rows, call>>, ~Restart PROVE CallFits'
  <2>1. /\ \A i \in DOMAIN transfers : signers[i] \subseteq signers'[i]
        /\ known \subseteq known'
    BY <1>2, ManagerKeeps DEF HandoffInv
  <2>2. known \subseteq DOMAIN transfers
    BY DEF HandoffInv, HandoffTypeOK, TypeOK
  <2> QED
    BY <1>2, <2>1, <2>2 DEF HandoffInv, CallFits, TransferOf
<1>3. CASE Restart
  BY <1>1, <1>3 DEF Restart
<1>4. CASE EndReady \/ EndPending
  BY <1>1, <1>4 DEF EndReady, EndPending, CloseRow
<1>5. ASSUME NEW o \in Orders, StartLock(o) PROVE CallFits'
  BY <1>1, <1>5 DEF StartLock
<1>6. ASSUME NEW o \in Orders, NEW batch \in Batches, BeginSubmit(o, batch)
      PROVE  CallFits'
  <2>1. /\ call' = [order |-> o, left |-> batch] /\ UNCHANGED rows
        /\ rows[o].state \in {"locked", "pending_proof"}
    BY <1>6 DEF BeginSubmit
  <2>2. batch \in Seq(Relayers)
    BY <2>1 DEF HandoffTypeOK
  <2>3. batch # <<>>
    <3>1. PICK n \in 1..MaxBatch : batch \in [1..n -> Relayers]
      BY DEF Batches
    <3>2. n \in Nat /\ n >= 1
      BY HandoffAssumption DEF HandoffAssumption
    <3>3. 1 \in DOMAIN batch
      BY <3>1, <3>2
    <3> QED
      BY <3>3
  <2> QED
    BY <2>1, <2>2, <2>3 DEF CallFits
<1>7. CASE SubmitNext
  <2> DEFINE i == TransferOf(call.order)
             r == Head(call.left)
  <2>1. CASE Accepts(i, r)
    <3>1. /\ call' = [call EXCEPT !.left = Tail(@)] /\ UNCHANGED <<rows, known>>
          /\ SubmitProof(i, r)
      BY <1>7, <2>1 DEF SubmitNext
    <3>2. /\ call \in [order : Orders, left : Seq(Relayers)] /\ call.left # <<>>
          /\ rows[call.order].state \in {"locked", "pending_proof"}
      BY <1>7 DEF SubmitNext, HandoffInv, CallFits
    <3>3. call' \in [order : Orders, left : Seq(Relayers)] /\ call'.order = call.order
      <4>1. Tail(call.left) \in Seq(Relayers)
        BY <3>2
      <4>2. call' = [order |-> call.order, left |-> Tail(call.left)]
        BY <3>1, <3>2
      <4> QED
        BY <3>2, <4>1, <4>2
    <3>4. i \in known /\ i \in Ids
      BY <2>1, KnownIds DEF Accepts, HandoffInv, HandoffTypeOK
    <3>5. r \in signers'[i]
      BY <3>1, <3>4 DEF SubmitProof, HandoffInv, HandoffTypeOK, TypeOK
    <3>6. TransferOf(call.order)' = i
      BY <3>1, <3>3 DEF TransferOf
    <3> HIDE DEF i, r
    <3> QED
      BY <3>1, <3>2, <3>3, <3>4, <3>5, <3>6 DEF CallFits
  <2>2. CASE ~Accepts(i, r)
    BY <1>1, <1>7, <2>2 DEF SubmitNext
  <2> QED
    BY <2>1, <2>2
<1>8. CASE (ManagerNext /\ UNCHANGED <<rows, call>>) \/ UNCHANGED hvars
  BY <1>2, <1>3, <1>8 DEF hvars
<1> QED
  BY <1>3, <1>4, <1>5, <1>6, <1>7, <1>8 DEF HandoffNext

-----------------------------------------------------------------------------
(* Theorems *)

(* The invariant holds before any call.                                     *)
LEMMA HandoffStarts == HandoffInit => HandoffInv /\ Ledger /\ PaidOncePerEvent /\ DaysFit /\ PendingFits
<1> SUFFICES ASSUME HandoffInit
             PROVE  HandoffInv /\ Ledger /\ PaidOncePerEvent /\ DaysFit /\ PendingFits
  OBVIOUS
<1>1. Init /\ rows = [o \in Orders |-> NoRow] /\ call = Idle
  BY DEF HandoffInit
<1>2. Core /\ TypeOK /\ known = {} /\ Locks = {}
  BY <1>1, InitCore DEF Core, Init, Locks
<1>3. HandoffTypeOK
  <2>1. NoRow \in [transfer : Ids \cup {0}, state : {"none", "locked", "pending_proof", "minted"}]
    BY DEF NoRow
  <2>2. call.left \in Seq(Relayers)
    BY <1>1 DEF Idle
  <2> QED
    BY <1>1, <1>2, <2>1, <2>2 DEF HandoffTypeOK
<1>4. Remembered /\ KeysOnce
  BY <1>2 DEF Remembered, KeysOnce
<1>5. RowsNameLocks /\ CallFits /\ RowNeverAhead
  BY <1>1 DEF RowsNameLocks, CallFits, RowNeverAhead, NoRow
<1>6. Ledger
  BY <1>1, EmptyLedger DEF Init
<1>7. PaidOncePerEvent
  <2>1. \A r \in Relayers : PaidFor(r) = {} /\ relayed[r] = 0
    BY <1>1, <1>2 DEF PaidFor, Init
  <2> QED
    BY <2>1, FS_EmptySet DEF PaidOncePerEvent, PaidFor
<1>8. DaysFit
  BY <1>1, EmptyDays DEF Init
<1>9. PendingFits
  <2>1. \A a \in Agents : PendingOf(a) = {}
    BY <1>2 DEF PendingOf
  <2>2. MaxPending \in Nat
    BY ManagerAssumption DEF ManagerAssumption
  <2> QED
    BY <2>1, <2>2, FS_EmptySet DEF PendingFits
<1> QED
  BY <1>2, <1>3, <1>4, <1>5, <1>6, <1>7, <1>8, <1>9 DEF HandoffInv

(* ... and every step keeps it.                                             *)
LEMMA HandoffKeeps == HandoffInv /\ [HandoffNext]_hvars => HandoffInv'
<1> SUFFICES ASSUME HandoffInv, [HandoffNext]_hvars PROVE HandoffInv'
  OBVIOUS
<1>1. HandoffTypeOK'
  BY HandoffType
<1>2. Core'
  BY CoreStep DEF HandoffInv
<1> QED
  BY <1>1, <1>2, KeysStep, RowsStep, CallStep DEF HandoffInv

(* So it holds always.                                                      *)
LEMMA HandoffHolds == HandoffSpec => []HandoffInv
<1>1. HandoffInit => HandoffInv
  BY HandoffStarts
<1> QED
  BY <1>1, HandoffKeeps, PTL DEF HandoffSpec

(* The manager's and the handoff's variables keep their types: a transfer   *)
(* has a number, its event and record a state, a row the state of its order *)
(* (manager.py:218-398, bridge_handoff.py:60-163).                          *)
THEOREM HandoffTypeCorrect == HandoffSpec => []HandoffTypeOK
<1>1. HandoffInv => HandoffTypeOK
  BY DEF HandoffInv
<1> QED
  BY <1>1, HandoffHolds, PTL

(* Whatever is locked, burned, signed, minted, released and refunded, by    *)
(* relayers, operators and the handoff, and however often the manager is    *)
(* restarted: event and record of a transfer agree, a lock is minted only   *)
(* by a quorum, no more is minted and refunded than was locked, and a       *)
(* relayer is paid once for an event (manager.py:410-716, relayer.py).      *)
THEOREM TransfersCorrect == HandoffSpec => []TransfersAgree
<1> DEFINE Books == HandoffInv /\ Ledger /\ PaidOncePerEvent
<1>1. HandoffInit => Books
  BY HandoffStarts
<1>2. Books /\ [HandoffNext]_hvars => Books'
  <2> SUFFICES ASSUME HandoffInv, Ledger, PaidOncePerEvent, [HandoffNext]_hvars
               PROVE  Books'
    OBVIOUS
  <2>1. HandoffInv'
    BY HandoffKeeps
  <2>2. HandoffTypeOK /\ Core /\ Core'
    BY <2>1 DEF HandoffInv
  <2>3. Ledger' /\ PaidOncePerEvent'
    BY <2>2, LedgerStep, PayStep
  <2> QED
    BY <2>1, <2>3
<1>3. Books => TransfersAgree
  <2> SUFFICES ASSUME Books PROVE TransfersAgree
    OBVIOUS
  <2>1. TypeOK /\ RecordFollowsEvent /\ QuorumDecides
    BY DEF HandoffInv, Core
  <2>2. TotalsFollow
    BY <2>1, LedgerFollows
  <2> QED
    BY <2>1, <2>2 DEF TransfersAgree
<1> HIDE DEF Books
<1> QED
  BY <1>1, <1>2, <1>3, PTL DEF HandoffSpec

(* No mix of locks, refunds, restarts and days lets an agent have more      *)
(* locks open, or lock more in a day, than its limits (manager.py:364-398). *)
THEOREM LimitsCorrect == HandoffSpec => []LimitsHold
<1> DEFINE Limits == HandoffInv /\ DaysFit /\ PendingFits
<1>1. HandoffInit => Limits
  BY HandoffStarts
<1>2. Limits /\ [HandoffNext]_hvars => Limits'
  <2> SUFFICES ASSUME HandoffInv, DaysFit, PendingFits, [HandoffNext]_hvars
               PROVE  Limits'
    OBVIOUS
  <2>1. HandoffInv'
    BY HandoffKeeps
  <2>2. HandoffTypeOK /\ Core /\ Core'
    BY <2>1 DEF HandoffInv
  <2>3. DaysFit' /\ PendingFits'
    BY <2>2, DaysStep, PendingStep
  <2> QED
    BY <2>1, <2>3
<1>3. Limits => LimitsHold
  BY LimitsFollow
<1> HIDE DEF Limits
<1> QED
  BY <1>1, <1>2, <1>3, PTL DEF HandoffSpec

(* Retries, failed inserts and direct calls never leave two locks of one    *)
(* dedup key in a run of the manager, and the row of an order names a lock  *)
(* of that order (manager.py:418-470, bridge_handoff.py:98-127).            *)
THEOREM OneLockCorrect == HandoffSpec => []OneLockPerOrder
<1>1. HandoffInv => OneLockPerOrder
  BY DEF HandoffInv, OneLockPerOrder, KeysOnce, RowsNameLocks
<1> QED
  BY <1>1, HandoffHolds, PTL

(* The durable row of an order never says more than the bridge did          *)
(* (bridge_handoff.py:129-163).                                             *)
THEOREM RowsCorrect == HandoffSpec => []RowNeverAhead
<1>1. HandoffInv => RowNeverAhead
  BY DEF HandoffInv
<1> QED
  BY <1>1, HandoffHolds, PTL

(* What was minted, refunded or written down stays so, across late and      *)
(* repeated calls, failed ones and restarts.                                *)
THEOREM NothingTakenBackCorrect == HandoffSpec => NothingIsTakenBack
<1>1. HandoffInv /\ [HandoffNext]_hvars =>
        [\A i \in known : event[i] \in {"minted", "refunded"} => event'[i] = event[i]]_vars
  <2> SUFFICES ASSUME HandoffInv, [HandoffNext]_hvars
               PROVE  \A i \in known :
                        event[i] \in {"minted", "refunded"} => event'[i] = event[i]
    OBVIOUS
  <2>1. known \subseteq DOMAIN transfers
    BY DEF HandoffInv, HandoffTypeOK, TypeOK
  <2> QED
    BY <2>1, ManagerKeeps DEF HandoffInv
<1>2. HandoffInv /\ [HandoffNext]_hvars =>
        [\A o \in Orders :
           rows[o] # NoRow =>
             /\ rows'[o].transfer = rows[o].transfer
             /\ rows[o].state = "minted" => rows'[o] = rows[o]
             /\ TransferOf(o) \notin known => rows'[o] = rows[o]]_hvars
  <2> SUFFICES ASSUME HandoffInv, [HandoffNext]_hvars, NEW o \in Orders, rows[o] # NoRow
               PROVE  /\ rows'[o].transfer = rows[o].transfer
                      /\ rows[o].state = "minted" => rows'[o] = rows[o]
                      /\ TransferOf(o) \notin known => rows'[o] = rows[o]
    OBVIOUS
  <2> QED
    BY RowParts
<1>3. HandoffSpec => FinalStays
  BY <1>1, HandoffHolds, PTL DEF HandoffSpec, FinalStays
<1>4. HandoffSpec => RowsAreKept
  BY <1>2, HandoffHolds, PTL DEF HandoffSpec, RowsAreKept
<1> QED
  BY <1>3, <1>4 DEF NothingIsTakenBack
=============================================================================
