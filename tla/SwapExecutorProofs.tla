------------------------- MODULE SwapExecutorProofs -------------------------
(***************************************************************************)
(* Proofs about SwapExecutor for every set of orders, workers, outputs and *)
(* coins.                                                                  *)
(***************************************************************************)
EXTENDS SwapExecutor, TLAPS

-----------------------------------------------------------------------------
(* The bridge's coins: no type is needed.                                  *)

(* A coin is spent by one transaction, in the mempool or in blocks, because *)
(* submit only takes what utxo_set has and FeeMarket refuses a conflict.    *)
CoinInv == NoCoinSpentTwice /\ stored \subseteq chain

LEMMA CoinSubmit ==
  ASSUME CoinInv, NEW w \in Workers, SubmitTx(w)
  PROVE  CoinInv'
<1>0. PICK c \in Coins : \E change \in FreshChange(c) :
        /\ Spendable(c)
        /\ mempool' = mempool \cup {[order |-> local[w].order, coin |-> c, change |-> change]}
  BY DEF SubmitTx
<1>1. PICK change \in FreshChange(c) :
        /\ Spendable(c)
        /\ mempool' = mempool \cup {[order |-> local[w].order, coin |-> c, change |-> change]}
  BY <1>0
<1> DEFINE tx == [order |-> local[w].order, coin |-> c, change |-> change]
<1>2. tx.coin = c
  OBVIOUS
<1>3. \A t \in mempool \cup chain : t.coin # c
  <2>1. \A t \in mempool : t.coin # c
    BY <1>1 DEF Spendable
  <2>2. c \in Unspent
    BY <1>1 DEF Spendable, Smallest
  <2>3. \A t \in chain : t.coin # c
    BY <2>2 DEF Unspent
  <2> QED
    BY <2>1, <2>3
<1>4. mempool' = mempool \cup {tx} /\ chain' = chain /\ stored' = stored
  BY <1>1 DEF SubmitTx
<1> HIDE DEF tx
<1>5. NoCoinSpentTwice'
  BY <1>2, <1>3, <1>4 DEF CoinInv, NoCoinSpentTwice
<1> QED
  BY <1>4, <1>5 DEF CoinInv

LEMMA CoinStep ==
  ASSUME CoinInv, [Next]_vars
  PROVE  CoinInv'
<1>1. CASE UNCHANGED bait
  BY <1>1 DEF CoinInv, NoCoinSpentTwice, bait
<1>2. ASSUME NEW w \in Workers, Step(w), ~UNCHANGED bait
      PROVE  SubmitTx(w)
  BY <1>2 DEF Step, Admit, Load, FindNothing, FindDeposit, Diverge, Observe, Confirm,
       SubmitAgain, SubmitRefused, RecordSubmission, RecordFails, MarkSubmitted, PollChain,
       PollMempool, PollAgain, Settle, Lose, Close, SyncNothing, SyncStart, SetStatus,
       SetStatusRefused
<1>3. CASE \E w \in Workers : Step(w)
  BY <1>1, <1>2, <1>3, CoinSubmit
<1>4. CASE MineBlock
  <2>1. mempool' \cup chain' \subseteq mempool \cup chain
    BY <1>4 DEF MineBlock
  <2>2. stored' \subseteq chain'
    BY <1>4 DEF MineBlock, CoinInv
  <2> QED
    BY <2>1, <2>2 DEF CoinInv, NoCoinSpentTwice
<1>5. CASE PersistBlock
  BY <1>5 DEF PersistBlock, CoinInv, NoCoinSpentTwice
<1>6. CASE Crash
  BY <1>6 DEF Crash, CoinInv, NoCoinSpentTwice
<1>7. CASE \E o \in Orders : Publish(o)
  BY <1>1, <1>7 DEF Publish
<1>8. CASE \E d \in Outpoints : Bitcoin(d)
  BY <1>1, <1>8 DEF Bitcoin
<1>9. CASE UNCHANGED vars
  BY <1>1, <1>9 DEF vars, bait
<1> QED
  BY <1>3, <1>4, <1>5, <1>6, <1>7, <1>8, <1>9 DEF Next

(* No coin of the bridge is ever spent twice, whatever crashes and failures *)
(* of an INSERT happen in between.                                          *)
THEOREM NoCoinSpentTwiceCorrect == Spec => []NoCoinSpentTwice
<1>1. Init => CoinInv
  BY DEF Init, CoinInv, NoCoinSpentTwice
<1>2. CoinInv => NoCoinSpentTwice
  BY DEF CoinInv
<1> QED
  BY <1>1, <1>2, CoinStep, PTL DEF Spec

-----------------------------------------------------------------------------
(* Types.                                                                  *)

ActiveFrames == [order : Orders, state : States, prior : Outpoints \cup {NoDeposit},
                 found : Outpoints \cup {NoDeposit}, deep : BOOLEAN, tx : Txs \cup {NoTx},
                 mark : Statuses]

Open == {"intent_validated", "btc_observed", "btc_confirmed", "bait_submitted"}

\* Where a worker is decides what it remembers: the walk of _sync_status stays
\* on the path and never passes the state it is heading for.
FrameGood(p, f) ==
  /\ p # "idle" => f \in ActiveFrames
  /\ p = "find" => f.state \in Open
  /\ p = "mirror" => \/ f.mark = "reconciling" /\ f.state = "reconciling"
                     \/ /\ {f.mark, f.state} \subseteq Path
                        /\ Rank[f.mark] <= Rank[f.state]

WorkersGood == \A w \in Workers : FrameGood(pc[w], local[w])

TypeInv == TypeOK /\ WorkersGood

LEMMA PathRank ==
  /\ Path = {"pending", "intent_validated", "btc_observed", "btc_confirmed",
             "bait_submitted", "settled"}
  /\ Rank["pending"] = 0 /\ Rank["intent_validated"] = 1 /\ Rank["btc_observed"] = 2
  /\ Rank["btc_confirmed"] = 3 /\ Rank["bait_submitted"] = 4 /\ Rank["settled"] = 5
BY DEF Path, Rank

(* The successor of a state on the path that is not the last one.           *)
LEMMA AfterType ==
  ASSUME NEW s \in Path, Rank[s] < 5
  PROVE  /\ After(s) \in Path /\ Rank[After(s)] = Rank[s] + 1
         /\ Rank[s] \in Nat
<1>1. \E t \in Path : Rank[t] = Rank[s] + 1
  BY PathRank
<1>2. Rank[s] \in Nat
  BY PathRank
<1> QED
  BY <1>1, <1>2 DEF After

LEMMA StatusTypes ==
  /\ Path \subseteq Statuses /\ States \subseteq Statuses
  /\ Open \subseteq Path /\ Open \subseteq States /\ Open \cap Final = {}
  /\ States = Open \cup Final
  /\ "reconciling" \in States /\ "absent" \in Statuses /\ "settled" \in States
  /\ \A s \in States : s # "reconciling" => s \in Path
  /\ \A s \in Statuses : s \in Path \/ s \in {"absent", "reconciling"}
BY PathRank DEF Statuses, States, Open, Final

(* A frame a worker keeps is one.                                           *)
LEMMA FrameType ==
  ASSUME NEW o \in Orders, NEW state \in States, NEW prior \in Outpoints \cup {NoDeposit},
         NEW found \in Outpoints \cup {NoDeposit}, NEW deep \in BOOLEAN,
         NEW tx \in Txs \cup {NoTx}, NEW mark \in Statuses
  PROVE  /\ Frame(o, state, prior, found, deep, tx, mark) \in ActiveFrames
         /\ Frame(o, state, prior, found, deep, tx, mark).state = state
         /\ Frame(o, state, prior, found, deep, tx, mark).mark = mark
BY DEF Frame, ActiveFrames

LEMMA FramesSplit == Frames = ActiveFrames \cup {NoFrame}
BY DEF Frames, ActiveFrames

(* A step that moves one worker keeps every worker's frame.                 *)
LEMMA Moves ==
  ASSUME TypeInv, NEW w \in Workers, NEW p \in PCs, NEW f \in Frames,
         Goto(w, p), Keep(w, f), FrameGood(p, f)
  PROVE  /\ pc' \in [Workers -> PCs]
         /\ local' \in [Workers -> Frames]
         /\ WorkersGood'
<1>1. pc' \in [Workers -> PCs]
  BY DEF TypeInv, TypeOK, Goto
<1>2. local' \in [Workers -> Frames]
  BY DEF TypeInv, TypeOK, Keep
<1>3. ASSUME NEW v \in Workers
      PROVE  FrameGood(pc'[v], local'[v])
  <2>1. CASE v = w
    <3>1. pc'[v] = p /\ local'[v] = f
      BY <2>1 DEF TypeInv, TypeOK, Goto, Keep
    <3> QED
      BY <3>1
  <2>2. CASE v # w
    <3>1. pc'[v] = pc[v] /\ local'[v] = local[v]
      BY <2>2 DEF TypeInv, TypeOK, Goto, Keep
    <3> QED
      BY <3>1 DEF TypeInv, WorkersGood
  <2> QED
    BY <2>1, <2>2
<1> QED
  BY <1>1, <1>2, <1>3 DEF WorkersGood

(* An exception, and a return.                                              *)
LEMMA LeaveMoves ==
  ASSUME TypeInv, NEW w \in Workers, Leave(w)
  PROVE  pc' \in [Workers -> PCs] /\ local' \in [Workers -> Frames] /\ WorkersGood'
<1>1. FrameGood("idle", NoFrame)
  BY DEF FrameGood
<1>2. "idle" \in PCs /\ NoFrame \in Frames
  BY FramesSplit DEF PCs
<1> QED
  BY <1>1, <1>2, Moves DEF Leave

LEMMA SyncMoves ==
  ASSUME TypeInv, NEW w \in Workers, NEW o \in Orders, NEW state \in States,
         Goto(w, "sync"),
         Keep(w, Frame(o, state, NoDeposit, NoDeposit, FALSE, NoTx, "absent"))
  PROVE  pc' \in [Workers -> PCs] /\ local' \in [Workers -> Frames] /\ WorkersGood'
<1> DEFINE f == Frame(o, state, NoDeposit, NoDeposit, FALSE, NoTx, "absent")
<1>1. f \in ActiveFrames
  BY FrameType, StatusTypes
<1>2. FrameGood("sync", f)
  BY <1>1 DEF FrameGood
<1>3. "sync" \in PCs /\ f \in Frames
  BY <1>1, FramesSplit DEF PCs
<1>4. Keep(w, f)
  OBVIOUS
<1> HIDE DEF f
<1> QED
  BY <1>2, <1>3, <1>4, Moves

LEMMA ReturnMoves ==
  ASSUME TypeInv, NEW w \in Workers, pc[w] # "idle", NEW state \in States, Return(w, state)
  PROVE  pc' \in [Workers -> PCs] /\ local' \in [Workers -> Frames] /\ WorkersGood'
<1>1. local[w] \in ActiveFrames
  BY DEF TypeInv, WorkersGood, FrameGood
<1>2. local[w].order \in Orders
  BY <1>1 DEF ActiveFrames
<1> QED
  BY <1>2, SyncMoves DEF Return

(* Writing a row.                                                           *)
LEMMA RowType ==
  ASSUME TypeInv, NEW o \in Orders, NEW state \in States \cup {"absent"},
         NEW d \in Outpoints \cup {NoDeposit}, NEW tx \in Txs \cup {NoTx},
         SetRow(o, state, d, tx)
  PROVE  order' \in [Orders -> Rows]
<1>1. [state |-> state, deposit |-> d, external |-> tx] \in Rows
  BY DEF Rows
<1> QED
  BY <1>1 DEF SetRow, TypeInv, TypeOK

LEMMA RowFields ==
  ASSUME TypeInv, NEW o \in Orders
  PROVE  /\ order[o].state \in States \cup {"absent"}
         /\ order[o].deposit \in Outpoints \cup {NoDeposit}
         /\ order[o].external \in Txs \cup {NoTx}
BY DEF TypeInv, TypeOK, Rows

LEMMA StateRowType ==
  ASSUME TypeInv, NEW o \in Orders, NEW state \in States,
         NEW d \in Outpoints \cup {NoDeposit}, SetState(o, state, d)
  PROVE  order' \in [Orders -> Rows]
<1>1. CASE HeldByAnother(o, d)
  BY <1>1, RowType, RowFields, StatusTypes DEF SetState
<1>2. CASE ~HeldByAnother(o, d)
  BY <1>2, RowType, RowFields DEF SetState
<1> QED
  BY <1>1, <1>2

(* The frame of a worker that is not idle.                                  *)
LEMMA FrameFields ==
  ASSUME TypeInv, NEW w \in Workers, pc[w] # "idle"
  PROVE  /\ local[w] \in ActiveFrames
         /\ local[w].order \in Orders /\ local[w].state \in States
         /\ local[w].prior \in Outpoints \cup {NoDeposit}
         /\ local[w].found \in Outpoints \cup {NoDeposit}
         /\ local[w].deep \in BOOLEAN /\ local[w].tx \in Txs \cup {NoTx}
         /\ local[w].mark \in Statuses
<1>1. local[w] \in ActiveFrames
  BY DEF TypeInv, WorkersGood, FrameGood
<1> QED
  BY <1>1 DEF ActiveFrames

\* What a step has to leave in place, besides its worker and the rows it writes.
TablesType ==
  /\ mirror \in [Orders -> Statuses]
  /\ settlement \in [Orders -> Txs \cup {NoTx}]
  /\ inflight \in Txs \cup {NoTx}
  /\ deposits \in [Outpoints -> {"absent", "shallow", "deep"}]
  /\ mempool \subseteq Txs /\ stored \subseteq chain /\ chain \subseteq Txs

LEMMA TablesKept ==
  ASSUME TypeInv, UNCHANGED <<mirror, settlement, inflight, deposits, bait>>
  PROVE  TablesType'
BY DEF TypeInv, TypeOK, TablesType, bait

LEMMA TypeParts ==
  TypeInv <=> /\ TablesType /\ order \in [Orders -> Rows]
              /\ pc \in [Workers -> PCs] /\ local \in [Workers -> Frames] /\ WorkersGood
BY DEF TypeInv, TypeOK, TablesType

(* Steps that only move a worker.                                           *)
LEMMA QuietMove ==
  ASSUME TypeInv, NEW w \in Workers,
         UNCHANGED <<db, inflight, deposits, bait>>,
         pc' \in [Workers -> PCs] /\ local' \in [Workers -> Frames] /\ WorkersGood'
  PROVE  TypeInv'
<1>1. TablesType' /\ order' \in [Orders -> Rows]
  BY TablesKept, TypeParts DEF db
<1> QED
  BY <1>1 DEF TypeInv, TypeOK, TablesType

(* Steps that move a worker and write a row.                                *)
LEMMA RowMove ==
  ASSUME TypeInv, NEW w \in Workers,
         UNCHANGED <<mirror, settlement, inflight, deposits, bait>>,
         order' \in [Orders -> Rows],
         pc' \in [Workers -> PCs] /\ local' \in [Workers -> Frames] /\ WorkersGood'
  PROVE  TypeInv'
<1>1. TablesType'
  BY TablesKept
<1> QED
  BY <1>1 DEF TypeInv, TypeOK, TablesType

-----------------------------------------------------------------------------
(* Every action keeps the types.                                           *)

LEMMA AdmitTypes ==
  ASSUME TypeInv, NEW w \in Workers, NEW o \in Orders, Admit(w, o)
  PROVE  TypeInv'
<1> DEFINE state == IF order[o].state = "absent" THEN "intent_validated" ELSE order[o].state
<1>1. state \in States
  BY RowFields, StatusTypes DEF Open
<1>2. SetRow(o, state, order[o].deposit, order[o].external)
  BY DEF Admit
<1>3. \/ /\ Goto(w, "sync")
         /\ Keep(w, Frame(o, state, NoDeposit, NoDeposit, FALSE, NoTx, "absent"))
      \/ UNCHANGED <<pc, local>>
  BY DEF Admit
<1> HIDE DEF state
<1>4. order' \in [Orders -> Rows]
  BY <1>1, <1>2, RowType, RowFields
<1>5. pc' \in [Workers -> PCs] /\ local' \in [Workers -> Frames] /\ WorkersGood'
  <2>1. CASE UNCHANGED <<pc, local>>
    BY <2>1 DEF TypeInv, TypeOK, WorkersGood
  <2> QED
    BY <1>1, <1>3, <2>1, SyncMoves
<1> QED
  BY <1>4, <1>5, RowMove DEF Admit

LEMMA LoadTypes ==
  ASSUME TypeInv, NEW w \in Workers, NEW o \in Orders, Load(w, o)
  PROVE  TypeInv'
<1>1. order[o].state \in States
  BY RowFields DEF Load
<1>2. CASE order[o].state \in Final
  <2>1. pc' \in [Workers -> PCs] /\ local' \in [Workers -> Frames] /\ WorkersGood'
    BY <1>1, <1>2, SyncMoves DEF Load
  <2> QED
    BY <2>1, QuietMove DEF Load
<1>3. CASE order[o].state \notin Final
  <2> DEFINE f == Frame(o, order[o].state, order[o].deposit, NoDeposit, FALSE,
                        order[o].external, "absent")
  <2>1. f \in ActiveFrames /\ f.state = order[o].state
    <3>1. /\ order[o].deposit \in Outpoints \cup {NoDeposit}
          /\ order[o].external \in Txs \cup {NoTx} /\ "absent" \in Statuses
      BY RowFields, StatusTypes
    <3> QED
      BY <1>1, <3>1 DEF Frame, ActiveFrames
  <2>2. Goto(w, "find") /\ Keep(w, f)
    BY <1>3 DEF Load
  <2> HIDE DEF f
  <2>3. FrameGood("find", f)
    BY <1>1, <1>3, <2>1, StatusTypes DEF FrameGood
  <2>4. "find" \in PCs /\ f \in Frames
    BY <2>1, FramesSplit DEF PCs
  <2>5. pc' \in [Workers -> PCs] /\ local' \in [Workers -> Frames] /\ WorkersGood'
    BY <2>2, <2>3, <2>4, Moves
  <2> QED
    BY <2>5, QuietMove DEF Load
<1> QED
  BY <1>2, <1>3

LEMMA FindNothingTypes ==
  ASSUME TypeInv, NEW w \in Workers, FindNothing(w)
  PROVE  TypeInv'
<1>1. pc[w] # "idle"
  BY DEF FindNothing
<1>2. pc' \in [Workers -> PCs] /\ local' \in [Workers -> Frames] /\ WorkersGood'
  BY <1>1, FrameFields, ReturnMoves DEF FindNothing
<1> QED
  BY <1>2, QuietMove DEF FindNothing

(* Where process goes on with a deposit.                                    *)
LEMMA OnwardType ==
  ASSUME NEW state \in Open, NEW deep \in BOOLEAN
  PROVE  Onward(state, deep) \in {"observe", "sync", "confirm", "submit", "poll"}
BY DEF Onward, Open

LEMMA FindDepositTypes ==
  ASSUME TypeInv, NEW w \in Workers, FindDeposit(w)
  PROVE  TypeInv'
<1> DEFINE f == local[w]
<1>1. pc[w] = "find" /\ pc[w] # "idle" /\ f \in ActiveFrames /\ f.state \in Open
  BY FrameFields DEF FindDeposit, TypeInv, WorkersGood, FrameGood
<1>2. PICK d \in Candidates(f.order) :
        LET deep == deposits[d] = "deep"
            next == IF f.prior \notin {NoDeposit, d} THEN "diverge" ELSE Onward(f.state, deep)
        IN IF next = "sync"
           THEN Return(w, f.state)
           ELSE /\ Goto(w, next)
                /\ Keep(w, Frame(f.order, f.state, NoDeposit, d, deep, f.tx, "absent"))
  BY DEF FindDeposit
<1> DEFINE deep == deposits[d] = "deep"
           next == IF f.prior \notin {NoDeposit, d} THEN "diverge" ELSE Onward(f.state, deep)
           g == Frame(f.order, f.state, NoDeposit, d, deep, f.tx, "absent")
<1>3. next \in {"diverge", "observe", "sync", "confirm", "submit", "poll"}
  <2>1. deep \in BOOLEAN
    OBVIOUS
  <2>2. Onward(f.state, deep) \in {"observe", "sync", "confirm", "submit", "poll"}
    BY <1>1, <2>1, OnwardType
  <2> QED
    BY <2>2
<1>4. IF next = "sync" THEN Return(w, f.state) ELSE Goto(w, next) /\ Keep(w, g)
  BY <1>2
<1>5. d \in Outpoints
  BY DEF Candidates
<1>6. f.order \in Orders /\ f.state \in States /\ f.tx \in Txs \cup {NoTx}
  BY <1>1, FrameFields
<1>7. g \in ActiveFrames
  BY <1>5, <1>6, FrameType, StatusTypes
<1> HIDE DEF g, next, f
<1>8. pc' \in [Workers -> PCs] /\ local' \in [Workers -> Frames] /\ WorkersGood'
  <2>1. CASE next = "sync"
    BY <1>1, <1>4, <1>6, <2>1, ReturnMoves
  <2>2. CASE next # "sync"
    <3>1. FrameGood(next, g)
      BY <1>3, <1>7 DEF FrameGood
    <3>2. next \in PCs /\ g \in Frames
      BY <1>3, <1>7, FramesSplit DEF PCs
    <3> QED
      BY <1>4, <2>2, <3>1, <3>2, Moves
  <2> QED
    BY <2>1, <2>2
<1> QED
  BY <1>8, QuietMove DEF FindDeposit

LEMMA DivergeTypes ==
  ASSUME TypeInv, NEW w \in Workers, Diverge(w)
  PROVE  TypeInv'
<1>1. pc[w] # "idle"
  BY DEF Diverge
<1>2. order' \in [Orders -> Rows]
  BY <1>1, FrameFields, StateRowType, StatusTypes DEF Diverge
<1>3. pc' \in [Workers -> PCs] /\ local' \in [Workers -> Frames] /\ WorkersGood'
  BY <1>1, ReturnMoves, StatusTypes DEF Diverge
<1> QED
  BY <1>2, <1>3, RowMove DEF Diverge

(* The worker moves on with another state in its frame.                     *)
LEMMA OnMoves ==
  ASSUME TypeInv, NEW w \in Workers, pc[w] # "idle", NEW state \in States, NEW deep \in BOOLEAN,
         NEW tx \in Txs \cup {NoTx}, NEW p \in PCs \ {"find", "mirror"},
         Goto(w, p),
         Keep(w, Frame(local[w].order, state, NoDeposit, local[w].found, deep, tx, "absent"))
  PROVE  pc' \in [Workers -> PCs] /\ local' \in [Workers -> Frames] /\ WorkersGood'
<1> DEFINE f == Frame(local[w].order, state, NoDeposit, local[w].found, deep, tx, "absent")
<1>1. f \in ActiveFrames
  <2>1. /\ local[w].order \in Orders /\ "absent" \in Statuses
        /\ local[w].found \in Outpoints \cup {NoDeposit}
    BY FrameFields, StatusTypes
  <2> QED
    BY <2>1 DEF Frame, ActiveFrames
<1>2. Keep(w, f)
  OBVIOUS
<1> HIDE DEF f
<1>3. FrameGood(p, f) /\ f \in Frames
  BY <1>1, FramesSplit DEF FrameGood
<1> QED
  BY <1>2, <1>3, Moves

LEMMA ObserveTypes ==
  ASSUME TypeInv, NEW w \in Workers, Observe(w)
  PROVE  TypeInv'
<1>1. pc[w] # "idle" /\ "btc_observed" \in States
  BY StatusTypes DEF Observe, Open
<1>2. order' \in [Orders -> Rows]
  BY <1>1, FrameFields, StateRowType DEF Observe
<1>3. \/ Return(w, "reconciling")
      \/ Return(w, "btc_observed")
      \/ /\ Goto(w, "confirm")
         /\ Keep(w, Frame(local[w].order, "btc_observed", NoDeposit, local[w].found, TRUE,
                          local[w].tx, "absent"))
  <2>1. local[w].deep \in BOOLEAN
    BY <1>1, FrameFields
  <2> QED
    BY <2>1 DEF Observe
<1>4. pc' \in [Workers -> PCs] /\ local' \in [Workers -> Frames] /\ WorkersGood'
  <2>1. "confirm" \in PCs \ {"find", "mirror"} /\ "reconciling" \in States
    BY StatusTypes DEF PCs
  <2> QED
    BY <1>1, <1>3, <2>1, ReturnMoves, OnMoves, FrameFields
<1> QED
  BY <1>2, <1>4, RowMove DEF Observe

LEMMA ConfirmTypes ==
  ASSUME TypeInv, NEW w \in Workers, Confirm(w)
  PROVE  TypeInv'
<1>1. pc[w] # "idle" /\ "btc_confirmed" \in States /\ "submit" \in PCs \ {"find", "mirror"}
  BY StatusTypes DEF Confirm, Open, PCs
<1>2. order' \in [Orders -> Rows]
  BY <1>1, FrameFields, StateRowType DEF Confirm
<1>3. pc' \in [Workers -> PCs] /\ local' \in [Workers -> Frames] /\ WorkersGood'
  BY <1>1, OnMoves, FrameFields DEF Confirm
<1> QED
  BY <1>2, <1>3, RowMove DEF Confirm

LEMMA SubmitAgainTypes ==
  ASSUME TypeInv, NEW w \in Workers, SubmitAgain(w)
  PROVE  TypeInv'
<1>1. pc[w] # "idle" /\ "submitted" \in PCs \ {"find", "mirror"}
  BY DEF SubmitAgain, PCs
<1>2. settlement[local[w].order] \in Txs \cup {NoTx}
  BY <1>1, FrameFields DEF TypeInv, TypeOK
<1>3. local[w].state \in States
  BY <1>1, FrameFields
<1>4. pc' \in [Workers -> PCs] /\ local' \in [Workers -> Frames] /\ WorkersGood'
  BY <1>1, <1>2, <1>3, OnMoves DEF SubmitAgain, WithTx
<1> QED
  BY <1>4, QuietMove DEF SubmitAgain

(* A worker that only changes its place, not its frame.                     *)
LEMMA StepsOn ==
  ASSUME TypeInv, NEW w \in Workers, pc[w] # "idle", NEW p \in PCs \ {"find", "mirror"},
         Goto(w, p), UNCHANGED local
  PROVE  pc' \in [Workers -> PCs] /\ local' \in [Workers -> Frames] /\ WorkersGood'
<1>1. local[w] \in ActiveFrames
  BY FrameFields
<1>2. local[w] \in Frames /\ FrameGood(p, local[w])
  BY <1>1, FramesSplit DEF FrameGood
<1>3. Keep(w, local[w])
  BY DEF Keep, TypeInv, TypeOK
<1> QED
  BY <1>2, <1>3, Moves

LEMMA SubmitTxTypes ==
  ASSUME TypeInv, NEW w \in Workers, SubmitTx(w)
  PROVE  TypeInv'
<1>1. pc[w] # "idle" /\ "insert" \in PCs \ {"find", "mirror"}
  BY DEF SubmitTx, PCs
<1>2. pc' \in [Workers -> PCs] /\ local' \in [Workers -> Frames] /\ WorkersGood'
  BY <1>1, StepsOn DEF SubmitTx
<1>3. PICK c \in Coins : \E change \in FreshChange(c) :
        LET tx == [order |-> local[w].order, coin |-> c, change |-> change] IN
        /\ mempool' = mempool \cup {tx}
        /\ inflight' = tx
  BY DEF SubmitTx
<1>4. PICK change \in FreshChange(c) :
        LET tx == [order |-> local[w].order, coin |-> c, change |-> change] IN
        /\ mempool' = mempool \cup {tx}
        /\ inflight' = tx
  BY <1>3
<1> DEFINE tx == [order |-> local[w].order, coin |-> c, change |-> change]
<1>5. tx \in Txs
  <2>1. local[w].order \in Orders
    BY <1>1, FrameFields
  <2>2. change \in Coins \cup {0}
    BY DEF FreshChange
  <2> QED
    BY <2>1, <2>2 DEF Txs
<1>6. mempool' = mempool \cup {tx} /\ inflight' = tx
  BY <1>4
<1> HIDE DEF tx
<1>7. mempool' \subseteq Txs /\ inflight' \in Txs \cup {NoTx}
  BY <1>5, <1>6 DEF TypeInv, TypeOK
<1>8. UNCHANGED <<order, mirror, settlement, deposits, chain, stored>>
  BY DEF SubmitTx, db
<1> QED
  BY <1>2, <1>7, <1>8 DEF TypeInv, TypeOK

LEMMA SubmitRefusedTypes ==
  ASSUME TypeInv, NEW w \in Workers, SubmitRefused(w)
  PROVE  TypeInv'
<1>1. pc' \in [Workers -> PCs] /\ local' \in [Workers -> Frames] /\ WorkersGood'
  BY LeaveMoves DEF SubmitRefused
<1> QED
  BY <1>1, QuietMove DEF SubmitRefused

LEMMA RecordSubmissionTypes ==
  ASSUME TypeInv, NEW w \in Workers, RecordSubmission(w)
  PROVE  TypeInv'
<1>1. pc[w] # "idle" /\ "submitted" \in PCs \ {"find", "mirror"}
  BY DEF RecordSubmission, PCs
<1>2. inflight \in Txs \cup {NoTx}
  BY DEF TypeInv, TypeOK
<1>3. local[w].state \in States
  BY <1>1, FrameFields
<1>4. pc' \in [Workers -> PCs] /\ local' \in [Workers -> Frames] /\ WorkersGood'
  BY <1>1, <1>2, <1>3, OnMoves DEF RecordSubmission, WithTx
<1>5. settlement' \in [Orders -> Txs \cup {NoTx}] /\ inflight' = NoTx
  BY <1>2 DEF RecordSubmission, TypeInv, TypeOK
<1>6. UNCHANGED <<order, mirror, deposits, mempool, chain, stored>>
  BY DEF RecordSubmission, bait
<1> QED
  BY <1>4, <1>5, <1>6 DEF TypeInv, TypeOK

LEMMA RecordFailsTypes ==
  ASSUME TypeInv, NEW w \in Workers, RecordFails(w)
  PROVE  TypeInv'
<1>1. pc' \in [Workers -> PCs] /\ local' \in [Workers -> Frames] /\ WorkersGood'
  BY LeaveMoves DEF RecordFails
<1>2. inflight' = NoTx /\ UNCHANGED <<order, mirror, settlement, deposits, mempool, chain, stored>>
  BY DEF RecordFails, db, bait
<1> QED
  BY <1>1, <1>2 DEF TypeInv, TypeOK

LEMMA MarkSubmittedTypes ==
  ASSUME TypeInv, NEW w \in Workers, MarkSubmitted(w)
  PROVE  TypeInv'
<1>1. pc[w] # "idle" /\ "poll" \in PCs \ {"find", "mirror"}
      /\ "bait_submitted" \in States
  BY StatusTypes DEF MarkSubmitted, PCs, Open
<1>2. CASE HeldByAnother(local[w].order, local[w].found)
  <2>1. pc' \in [Workers -> PCs] /\ local' \in [Workers -> Frames] /\ WorkersGood'
    BY <1>2, LeaveMoves DEF MarkSubmitted
  <2>2. order' \in [Orders -> Rows]
    BY <1>2 DEF MarkSubmitted, TypeInv, TypeOK
  <2> QED
    BY <2>1, <2>2, RowMove DEF MarkSubmitted
<1>3. CASE ~HeldByAnother(local[w].order, local[w].found)
  <2>1. local[w].state \in States /\ local[w].tx \in Txs \cup {NoTx}
        /\ local[w].order \in Orders /\ local[w].found \in Outpoints \cup {NoDeposit}
    BY <1>1, FrameFields
  <2>2. pc' \in [Workers -> PCs] /\ local' \in [Workers -> Frames] /\ WorkersGood'
    BY <1>1, <1>3, <2>1, OnMoves DEF MarkSubmitted, WithTx
  <2>3. order' \in [Orders -> Rows]
    BY <1>1, <1>3, <2>1, RowType DEF MarkSubmitted
  <2> QED
    BY <2>2, <2>3, RowMove DEF MarkSubmitted
<1> QED
  BY <1>2, <1>3

LEMMA PollTypes ==
  ASSUME TypeInv, NEW w \in Workers, PollChain(w) \/ PollMempool(w) \/ PollAgain(w)
  PROVE  TypeInv'
<1>1. {"settle", "pool", "again", "lost"} \subseteq PCs \ {"find", "mirror"}
      /\ "bait_submitted" \in States
  BY StatusTypes DEF PCs, Open
<1>2. pc[w] # "idle"
  BY DEF PollChain, PollMempool, PollAgain
<1>3. \/ Return(w, "bait_submitted")
      \/ \E p \in {"settle", "pool", "again", "lost"} : Goto(w, p) /\ UNCHANGED local
  BY DEF PollChain, PollMempool, PollAgain
<1>4. pc' \in [Workers -> PCs] /\ local' \in [Workers -> Frames] /\ WorkersGood'
  BY <1>1, <1>2, <1>3, ReturnMoves, StepsOn
<1> QED
  BY <1>4, QuietMove DEF PollChain, PollMempool, PollAgain

LEMMA CloseTypes ==
  ASSUME TypeInv, NEW w \in Workers, Settle(w) \/ Lose(w)
  PROVE  TypeInv'
<1>1. PICK state \in {"settled", "reconciling"} : Close(w, state)
  BY DEF Settle, Lose
<1>2. pc[w] # "idle" /\ state \in States
  BY <1>1, StatusTypes DEF Settle, Lose
<1>3. local[w].order \in Orders
  BY <1>2, FrameFields
<1>4. order' \in [Orders -> Rows]
  BY <1>1, <1>2, <1>3, RowType, RowFields DEF Close
<1>5. pc' \in [Workers -> PCs] /\ local' \in [Workers -> Frames] /\ WorkersGood'
  BY <1>1, <1>2, ReturnMoves DEF Close
<1> QED
  BY <1>1, <1>4, <1>5, RowMove DEF Close

LEMMA SyncNothingTypes ==
  ASSUME TypeInv, NEW w \in Workers, SyncNothing(w)
  PROVE  TypeInv'
<1>1. pc' \in [Workers -> PCs] /\ local' \in [Workers -> Frames] /\ WorkersGood'
  BY LeaveMoves DEF SyncNothing
<1> QED
  BY <1>1, QuietMove DEF SyncNothing

(* The next mark of a walk that is below its target is on the path, and not *)
(* above the target.                                                        *)
LEMMA NextMark ==
  ASSUME NEW s \in Path, NEW target \in Path, Rank[s] < Rank[target]
  PROVE  After(s) \in Path /\ Rank[After(s)] <= Rank[target]
<1>1. Rank[s] \in Nat /\ Rank[target] \in Nat /\ Rank[target] <= 5
  BY PathRank
<1>2. After(s) \in Path /\ Rank[After(s)] = Rank[s] + 1
  BY <1>1, AfterType
<1> QED
  BY <1>1, <1>2

LEMMA MirrorMoves ==
  ASSUME TypeInv, NEW w \in Workers, NEW o \in Orders, NEW state \in States, NEW mark \in Statuses,
         \/ mark = "reconciling" /\ state = "reconciling"
         \/ {mark, state} \subseteq Path /\ Rank[mark] <= Rank[state],
         Goto(w, "mirror"),
         Keep(w, Frame(o, state, NoDeposit, NoDeposit, FALSE, NoTx, mark))
  PROVE  pc' \in [Workers -> PCs] /\ local' \in [Workers -> Frames] /\ WorkersGood'
<1> DEFINE f == Frame(o, state, NoDeposit, NoDeposit, FALSE, NoTx, mark)
<1>1. f \in ActiveFrames /\ f.state = state /\ f.mark = mark
  BY DEF Frame, ActiveFrames
<1>2. Keep(w, f)
  OBVIOUS
<1> HIDE DEF f
<1>3. FrameGood("mirror", f) /\ f \in Frames
  BY <1>1, FramesSplit DEF FrameGood
<1>4. "mirror" \in PCs
  BY DEF PCs
<1> QED
  BY <1>2, <1>3, <1>4, Moves

LEMMA SyncStartTypes ==
  ASSUME TypeInv, NEW w \in Workers, SyncStart(w)
  PROVE  TypeInv'
<1> DEFINE f == local[w]
           mark == IF f.state = "reconciling" THEN "reconciling" ELSE After(mirror[f.order])
<1>1. pc[w] # "idle" /\ f.order \in Orders /\ f.state \in States
  BY FrameFields DEF SyncStart
<1>2. /\ f.state # "reconciling" => /\ mirror[f.order] \in Path
                                    /\ Rank[mirror[f.order]] < Rank[f.state]
      /\ Goto(w, "mirror")
      /\ Keep(w, Frame(f.order, f.state, NoDeposit, NoDeposit, FALSE, NoTx, mark))
  BY DEF SyncStart
<1>3. /\ mark \in Statuses
      /\ \/ mark = "reconciling" /\ f.state = "reconciling"
         \/ {mark, f.state} \subseteq Path /\ Rank[mark] <= Rank[f.state]
  <2>1. CASE f.state = "reconciling"
    BY <2>1, StatusTypes
  <2>2. CASE f.state # "reconciling"
    <3>1. f.state \in Path /\ mark = After(mirror[f.order])
      BY <1>1, <2>2, StatusTypes
    <3>2. mark \in Path /\ Rank[mark] <= Rank[f.state]
      BY <1>2, <2>2, <3>1, NextMark
    <3> QED
      BY <3>1, <3>2, StatusTypes
  <2> QED
    BY <2>1, <2>2
<1> HIDE DEF mark, f
<1>4. pc' \in [Workers -> PCs] /\ local' \in [Workers -> Frames] /\ WorkersGood'
  BY <1>1, <1>2, <1>3, MirrorMoves
<1> QED
  BY <1>4, QuietMove DEF SyncStart

LEMMA SetStatusTypes ==
  ASSUME TypeInv, NEW w \in Workers, SetStatus(w)
  PROVE  TypeInv'
<1> DEFINE f == local[w]
<1>1. /\ pc[w] = "mirror" /\ pc[w] # "idle"
      /\ f.order \in Orders /\ f.state \in States /\ f.mark \in Statuses
  BY FrameFields DEF SetStatus
<1>2. \/ f.mark = "reconciling" /\ f.state = "reconciling"
      \/ {f.mark, f.state} \subseteq Path /\ Rank[f.mark] <= Rank[f.state]
  BY <1>1 DEF TypeInv, WorkersGood, FrameGood
<1>3. mirror' \in [Orders -> Statuses]
  BY <1>1 DEF SetStatus, TypeInv, TypeOK
<1>4. CASE f.mark = f.state
  <2>1. pc' \in [Workers -> PCs] /\ local' \in [Workers -> Frames] /\ WorkersGood'
    BY <1>4, LeaveMoves DEF SetStatus
  <2> QED
    BY <1>3, <2>1 DEF SetStatus, TypeInv, TypeOK, bait
<1>5. CASE f.mark # f.state
  <2>1. {f.mark, f.state} \subseteq Path /\ Rank[f.mark] <= Rank[f.state]
    BY <1>2, <1>5
  <2>2. Rank[f.mark] < Rank[f.state]
    BY <1>5, <2>1, PathRank
  <2>3. After(f.mark) \in Path /\ Rank[After(f.mark)] <= Rank[f.state]
    BY <2>1, <2>2, NextMark
  <2>4. After(f.mark) \in Statuses
    BY <2>3, StatusTypes
  <2>5. /\ Keep(w, Frame(f.order, f.state, NoDeposit, NoDeposit, FALSE, NoTx, After(f.mark)))
        /\ UNCHANGED pc
    BY <1>5 DEF SetStatus
  <2>6. Goto(w, "mirror")
    BY <1>1, <2>5 DEF Goto, TypeInv, TypeOK
  <2> HIDE DEF f
  <2>7. pc' \in [Workers -> PCs] /\ local' \in [Workers -> Frames] /\ WorkersGood'
    BY <1>1, <2>1, <2>3, <2>4, <2>5, <2>6, MirrorMoves
  <2> QED
    BY <1>3, <2>7 DEF SetStatus, TypeInv, TypeOK, bait
<1> QED
  BY <1>4, <1>5

LEMMA SetStatusRefusedTypes ==
  ASSUME TypeInv, NEW w \in Workers, SetStatusRefused(w)
  PROVE  TypeInv'
<1>1. pc' \in [Workers -> PCs] /\ local' \in [Workers -> Frames] /\ WorkersGood'
  BY LeaveMoves DEF SetStatusRefused
<1> QED
  BY <1>1, QuietMove DEF SetStatusRefused

(* Steps of a worker, and of everything else.                               *)
LEMMA WorkerTypes ==
  ASSUME TypeInv, NEW w \in Workers, Step(w)
  PROVE  TypeInv'
BY AdmitTypes, LoadTypes, FindNothingTypes, FindDepositTypes, DivergeTypes, ObserveTypes,
   ConfirmTypes, SubmitAgainTypes, SubmitTxTypes, SubmitRefusedTypes, RecordSubmissionTypes,
   RecordFailsTypes, MarkSubmittedTypes, PollTypes, CloseTypes, SyncNothingTypes,
   SyncStartTypes, SetStatusTypes, SetStatusRefusedTypes
   DEF Step

LEMMA OutsideTypes ==
  ASSUME TypeInv, \/ \E o \in Orders : Publish(o)
                  \/ \E d \in Outpoints : Bitcoin(d)
                  \/ MineBlock \/ PersistBlock \/ UNCHANGED vars
  PROVE  TypeInv'
<1>1. UNCHANGED <<pc, local, order>> /\ WorkersGood'
  <2>1. UNCHANGED <<pc, local, order>>
    BY DEF Publish, Bitcoin, MineBlock, PersistBlock, vars, db
  <2> QED
    BY <2>1 DEF TypeInv, WorkersGood
<1>2. TablesType'
  <2>1. CASE \E o \in Orders : Publish(o)
    BY <2>1 DEF Publish, TypeInv, TypeOK, TablesType, Statuses, Path, Rank, bait
  <2>2. CASE \E d \in Outpoints : Bitcoin(d)
    BY <2>2 DEF Bitcoin, TypeInv, TypeOK, TablesType, db, bait
  <2>3. CASE MineBlock
    BY <2>3 DEF MineBlock, TypeInv, TypeOK, TablesType, db
  <2>4. CASE PersistBlock
    BY <2>4 DEF PersistBlock, TypeInv, TypeOK, TablesType, db
  <2>5. CASE UNCHANGED vars
    BY <2>5, TablesKept DEF vars, bait
  <2> QED
    BY <2>1, <2>2, <2>3, <2>4, <2>5
<1> QED
  BY <1>1, <1>2 DEF TypeInv, TypeOK, TablesType

LEMMA CrashTypes ==
  ASSUME TypeInv, Crash
  PROVE  TypeInv'
<1>1. TablesType' /\ order' \in [Orders -> Rows]
  BY DEF Crash, TypeInv, TypeOK, TablesType, db
<1>2. "idle" \in PCs /\ NoFrame \in Frames
  BY FramesSplit DEF PCs
<1>3. pc' = [w \in Workers |-> "idle"] /\ local' = [w \in Workers |-> NoFrame]
  BY DEF Crash
<1>4. pc' \in [Workers -> PCs] /\ local' \in [Workers -> Frames] /\ WorkersGood'
  <2> HIDE DEF Crash
  <2>1. \A w \in Workers : FrameGood(pc'[w], local'[w])
    BY <1>3 DEF FrameGood
  <2> QED
    BY <1>2, <1>3, <2>1 DEF WorkersGood
<1> QED
  BY <1>1, <1>4 DEF TypeInv, TypeOK, TablesType

LEMMA TypeStart == Init => TypeInv
<1> SUFFICES ASSUME Init PROVE TypeInv
  OBVIOUS
<1>1. order \in [Orders -> Rows]
  BY DEF Init, Rows
<1>2. TablesType
  BY DEF Init, TablesType, Statuses
<1>3. "idle" \in PCs /\ NoFrame \in Frames
  BY FramesSplit DEF PCs
<1>4. pc = [w \in Workers |-> "idle"] /\ local = [w \in Workers |-> NoFrame]
  BY DEF Init
<1>5. pc \in [Workers -> PCs] /\ local \in [Workers -> Frames]
  BY <1>3, <1>4
<1>6. WorkersGood
  BY <1>4 DEF WorkersGood, FrameGood
<1> QED
  BY <1>1, <1>2, <1>5, <1>6 DEF TypeInv, TypeOK, TablesType

LEMMA TypeStep ==
  ASSUME TypeInv, [Next]_vars
  PROVE  TypeInv'
BY WorkerTypes, OutsideTypes, CrashTypes DEF Next

(* Types, with the walk of _sync_status on its path, whatever fails.        *)
THEOREM SwapTypeCorrect == Spec => []TypeOK
<1>1. TypeInv => TypeOK
  BY DEF TypeInv
<1> QED
  BY <1>1, TypeStart, TypeStep, PTL DEF Spec

-----------------------------------------------------------------------------
(* One payment per order, when the process does not die and no INSERT fails. *)

\* A transaction is recorded or about to be; the lock admits one worker to that.
PayInv ==
  /\ \A t \in mempool \cup chain : settlement[t.order] = t \/ inflight = t
  /\ \A w \in Workers : pc[w] = "insert" => inflight # NoTx /\ inflight.order = local[w].order
  /\ \A v, w \in Workers : pc[v] = "insert" /\ pc[w] = "insert" => v = w
  /\ inflight # NoTx => settlement[inflight.order] = NoTx

LEMMA PaidOnce ==
  ASSUME TypeInv, PayInv
  PROVE  OnePaymentPerOrder
<1> SUFFICES ASSUME NEW t \in mempool \cup chain, NEW u \in mempool \cup chain,
                    t.order = u.order
             PROVE  t = u
  BY DEF OnePaymentPerOrder
<1>1. t # NoTx /\ u # NoTx
  BY SwapAssumption DEF TypeInv, TypeOK, Txs
<1> QED
  BY <1>1 DEF PayInv

\* No worker comes to the INSERT, and one that is there stays as it is.
NobodyArrives ==
  \A v \in Workers : pc'[v] = "insert" => pc[v] = "insert" /\ local'[v] = local[v]

LEMMA PayKept ==
  ASSUME PayInv, NobodyArrives, UNCHANGED <<settlement, inflight>>,
         mempool' \cup chain' \subseteq mempool \cup chain
  PROVE  PayInv'
BY DEF PayInv, NobodyArrives

LEMMA GoingElsewhere ==
  ASSUME TypeInv, NEW w \in Workers, NEW p \in PCs \ {"insert"}, Goto(w, p),
         \A v \in Workers \ {w} : local'[v] = local[v]
  PROVE  NobodyArrives
<1> SUFFICES ASSUME NEW v \in Workers, pc'[v] = "insert"
             PROVE  pc[v] = "insert" /\ local'[v] = local[v]
  BY DEF NobodyArrives
<1>1. v # w /\ pc[v] = "insert"
  BY DEF Goto, TypeInv, TypeOK
<1> QED
  BY <1>1

LEMMA KeepingElsewhere ==
  ASSUME TypeInv, NEW w \in Workers, NEW p \in PCs \ {"insert"}, NEW f, Goto(w, p), Keep(w, f)
  PROVE  NobodyArrives
<1>1. \A v \in Workers \ {w} : local'[v] = local[v]
  BY DEF Keep, TypeInv, TypeOK
<1> QED
  BY <1>1, GoingElsewhere

LEMMA LeavesArrive ==
  ASSUME TypeInv, NEW w \in Workers, Leave(w)
  PROVE  NobodyArrives
BY KeepingElsewhere DEF Leave, PCs

LEMMA ReturnsArrive ==
  ASSUME TypeInv, NEW w \in Workers, NEW state, Return(w, state)
  PROVE  NobodyArrives
BY KeepingElsewhere DEF Return, PCs

LEMMA DepositArrives ==
  ASSUME TypeInv, NEW w \in Workers, FindDeposit(w)
  PROVE  NobodyArrives
<1> DEFINE f == local[w]
<1>1. f.state \in Open
  BY DEF FindDeposit, TypeInv, WorkersGood, FrameGood
<1>2. PICK d \in Candidates(f.order) :
        LET deep == deposits[d] = "deep"
            next == IF f.prior \notin {NoDeposit, d} THEN "diverge" ELSE Onward(f.state, deep)
        IN IF next = "sync"
           THEN Return(w, f.state)
           ELSE /\ Goto(w, next)
                /\ Keep(w, Frame(f.order, f.state, NoDeposit, d, deep, f.tx, "absent"))
  BY DEF FindDeposit
<1> DEFINE deep == deposits[d] = "deep"
           next == IF f.prior \notin {NoDeposit, d} THEN "diverge" ELSE Onward(f.state, deep)
           g == Frame(f.order, f.state, NoDeposit, d, deep, f.tx, "absent")
<1>3. next \in {"diverge", "observe", "sync", "confirm", "submit", "poll"}
  <2>1. deep \in BOOLEAN
    OBVIOUS
  <2>2. Onward(f.state, deep) \in {"observe", "sync", "confirm", "submit", "poll"}
    BY <1>1, <2>1, OnwardType
  <2> QED
    BY <2>2
<1>4. IF next = "sync" THEN Return(w, f.state) ELSE Goto(w, next) /\ Keep(w, g)
  BY <1>2
<1> HIDE DEF g, next, f
<1>5. next \in PCs \ {"insert"}
  BY <1>3 DEF PCs
<1> QED
  BY <1>4, <1>5, KeepingElsewhere, ReturnsArrive

(* A step of a worker other than the two that touch the adapter's table.    *)
LEMMA OtherStepsArrive ==
  ASSUME TypeInv, ~Faults, NEW w \in Workers, Step(w), ~SubmitTx(w), ~RecordSubmission(w)
  PROVE  NobodyArrives /\ UNCHANGED <<settlement, inflight, bait>>
<1>1. UNCHANGED <<settlement, inflight, bait>>
  BY DEF Step, Admit, Load, FindNothing, FindDeposit, Diverge, Observe, Confirm,
     SubmitAgain, SubmitRefused, RecordFails, MarkSubmitted, PollChain, PollMempool,
     PollAgain, Settle, Lose, Close, SyncNothing, SyncStart, SetStatus, SetStatusRefused, db
<1>2. {"find", "sync", "confirm", "submit", "submitted", "poll", "settle", "pool", "again",
       "lost", "mirror"} \subseteq PCs \ {"insert"}
  BY DEF PCs
<1> SUFFICES NobodyArrives
  BY <1>1
<1>3. ASSUME UNCHANGED pc, pc[w] # "insert", NEW f, Keep(w, f)
      PROVE  NobodyArrives
  BY <1>3 DEF NobodyArrives, Keep, TypeInv, TypeOK
<1>4. CASE \E o \in Orders : Admit(w, o) \/ Load(w, o)
  <2>1. \/ UNCHANGED <<pc, local>>
        \/ \E p \in {"sync", "find"} : \E f : Goto(w, p) /\ Keep(w, f)
    BY <1>4 DEF Admit, Load
  <2>2. CASE UNCHANGED <<pc, local>>
    BY <2>2 DEF NobodyArrives
  <2> QED
    BY <1>2, <2>1, <2>2, KeepingElsewhere
<1>5. CASE FindNothing(w) \/ Diverge(w)
  BY <1>5, ReturnsArrive DEF FindNothing, Diverge
<1>6. CASE FindDeposit(w)
  BY <1>6, DepositArrives
<1>7. CASE Observe(w)
  <2>1. \/ Return(w, "reconciling") \/ Return(w, "btc_observed")
        \/ \E f : Goto(w, "confirm") /\ Keep(w, f)
    <3>1. local[w].deep \in BOOLEAN
      BY <1>7, FrameFields DEF Observe
    <3> QED
      BY <1>7, <3>1 DEF Observe
  <2> QED
    BY <1>2, <2>1, ReturnsArrive, KeepingElsewhere
<1>8. CASE Confirm(w) \/ SubmitAgain(w)
  <2>1. \E p \in {"submit", "submitted"} : \E f : Goto(w, p) /\ Keep(w, f)
    BY <1>8 DEF Confirm, SubmitAgain
  <2> QED
    BY <1>2, <2>1, KeepingElsewhere
<1>9. CASE SubmitRefused(w) \/ SyncNothing(w) \/ SetStatusRefused(w)
  BY <1>9, LeavesArrive DEF SubmitRefused, SyncNothing, SetStatusRefused
<1>10. CASE MarkSubmitted(w)
  <2>1. Leave(w) \/ \E f : Goto(w, "poll") /\ Keep(w, f)
    BY <1>10 DEF MarkSubmitted
  <2> QED
    BY <1>2, <2>1, LeavesArrive, KeepingElsewhere
<1>11. CASE PollChain(w) \/ PollMempool(w) \/ PollAgain(w)
  <2>1. \/ Return(w, "bait_submitted")
        \/ \E p \in {"settle", "pool", "again", "lost"} : Goto(w, p) /\ UNCHANGED local
    BY <1>11 DEF PollChain, PollMempool, PollAgain
  <2>2. ASSUME UNCHANGED local
        PROVE  \A v \in Workers \ {w} : local'[v] = local[v]
    BY <2>2
  <2> QED
    BY <1>2, <2>1, <2>2, ReturnsArrive, GoingElsewhere
<1>12. CASE Settle(w) \/ Lose(w)
  BY <1>12, ReturnsArrive DEF Settle, Lose, Close
<1>13. CASE SyncStart(w)
  BY <1>2, <1>13, KeepingElsewhere DEF SyncStart
<1>14. CASE SetStatus(w)
  <2>1. \/ Leave(w)
        \/ UNCHANGED pc /\ \E f : Keep(w, f)
    BY <1>14 DEF SetStatus
  <2>2. pc[w] # "insert"
    BY <1>14 DEF SetStatus
  <2> QED
    BY <1>3, <2>1, <2>2, LeavesArrive
<1>15. ~RecordFails(w)
  BY DEF RecordFails
<1> QED
  BY <1>1, <1>4, <1>5, <1>6, <1>7, <1>8, <1>9, <1>10, <1>11, <1>12, <1>13, <1>14, <1>15 DEF Step

(* The transaction goes to the mempool while nobody else is at the INSERT.  *)
LEMMA PaySubmit ==
  ASSUME TypeInv, PayInv, NEW w \in Workers, SubmitTx(w)
  PROVE  PayInv'
<1>1. PICK c \in Coins : \E change \in FreshChange(c) :
        LET tx == [order |-> local[w].order, coin |-> c, change |-> change] IN
        /\ mempool' = mempool \cup {tx}
        /\ inflight' = tx
  BY DEF SubmitTx
<1>2. PICK change \in FreshChange(c) :
        LET tx == [order |-> local[w].order, coin |-> c, change |-> change] IN
        /\ mempool' = mempool \cup {tx}
        /\ inflight' = tx
  BY <1>1
<1> DEFINE tx == [order |-> local[w].order, coin |-> c, change |-> change]
<1>3. tx.order = local[w].order
  OBVIOUS
<1>4. mempool' = mempool \cup {tx} /\ inflight' = tx
  BY <1>2
<1> HIDE DEF tx
<1>5. /\ inflight = NoTx /\ settlement[local[w].order] = NoTx
      /\ settlement' = settlement /\ chain' = chain /\ local' = local
      /\ Goto(w, "insert")
  BY DEF SubmitTx, db
<1>6. \A v \in Workers : pc'[v] = "insert" <=> v = w
  <2>1. \A v \in Workers : pc[v] # "insert"
    BY <1>5 DEF PayInv
  <2> QED
    BY <1>5, <2>1 DEF Goto, TypeInv, TypeOK
<1>7. NoTx \notin mempool \cup chain
  BY SwapAssumption DEF TypeInv, TypeOK, Txs
<1>8. tx # NoTx
  <2>1. TypeInv'
    BY SubmitTxTypes
  <2>2. tx \in mempool'
    BY <1>4
  <2>3. tx \in Txs
    BY <2>1, <2>2 DEF TypeInv, TypeOK
  <2> QED
    BY <2>3, SwapAssumption DEF Txs
<1>9. \A t \in mempool' \cup chain' : settlement'[t.order] = t \/ inflight' = t
  BY <1>4, <1>5, <1>7 DEF PayInv
<1>10. \A v \in Workers : pc'[v] = "insert" => inflight' # NoTx /\ inflight'.order = local'[v].order
  BY <1>3, <1>4, <1>5, <1>6, <1>8
<1>11. settlement'[inflight'.order] = NoTx
  BY <1>3, <1>4, <1>5
<1> QED
  BY <1>6, <1>9, <1>10, <1>11 DEF PayInv

(* The INSERT: the waiting transaction becomes the one on record.           *)
LEMMA PayRecord ==
  ASSUME TypeInv, PayInv, NEW w \in Workers, RecordSubmission(w)
  PROVE  PayInv'
<1> DEFINE o == local[w].order
<1>1. /\ pc[w] = "insert" /\ inflight' = NoTx
      /\ settlement' = [settlement EXCEPT ![o] = inflight]
      /\ UNCHANGED <<mempool, chain>>
      /\ Goto(w, "submitted")
  BY DEF RecordSubmission, bait
<1>2. o \in Orders
  BY <1>1, FrameFields
<1>3. inflight # NoTx /\ inflight.order = o /\ settlement[o] = NoTx
  BY <1>1 DEF PayInv
<1>4. settlement'[o] = inflight /\ \A p \in Orders \ {o} : settlement'[p] = settlement[p]
  BY <1>1, <1>2 DEF TypeInv, TypeOK
<1>5. ASSUME NEW t \in mempool \cup chain
      PROVE  settlement'[t.order] = t
  <2>1. t # NoTx /\ t.order \in Orders
    BY SwapAssumption DEF TypeInv, TypeOK, Txs
  <2>2. settlement[t.order] = t \/ inflight = t
    BY DEF PayInv
  <2> HIDE DEF o
  <2> QED
    BY <1>3, <1>4, <2>1, <2>2
<1>6. \A v \in Workers : pc'[v] # "insert"
  BY <1>1 DEF PayInv, Goto, TypeInv, TypeOK
<1> QED
  BY <1>1, <1>5, <1>6 DEF PayInv

LEMMA PayStep ==
  ASSUME ~Faults, TypeInv, PayInv, [Next]_vars
  PROVE  PayInv'
<1>1. ASSUME NEW w \in Workers, Step(w)
      PROVE  PayInv'
  <2>1. CASE SubmitTx(w)
    BY <2>1, PaySubmit
  <2>2. CASE RecordSubmission(w)
    BY <2>2, PayRecord
  <2>3. CASE ~SubmitTx(w) /\ ~RecordSubmission(w)
    BY <1>1, <2>3, OtherStepsArrive, PayKept DEF bait
  <2> QED
    BY <2>1, <2>2, <2>3
<1>2. ASSUME \/ \E o \in Orders : Publish(o)
             \/ \E d \in Outpoints : Bitcoin(d)
             \/ MineBlock \/ PersistBlock \/ UNCHANGED vars
      PROVE  PayInv'
  <2>1. UNCHANGED <<settlement, inflight, pc, local>>
    BY <1>2 DEF Publish, Bitcoin, MineBlock, PersistBlock, vars, db
  <2>2. mempool' \cup chain' \subseteq mempool \cup chain
    BY <1>2 DEF Publish, Bitcoin, MineBlock, PersistBlock, vars, bait
  <2>3. NobodyArrives
    BY <2>1 DEF NobodyArrives
  <2> QED
    BY <2>1, <2>2, <2>3, PayKept
<1>3. ~Crash
  BY DEF Crash
<1> QED
  BY <1>1, <1>2, <1>3 DEF Next

(* submit is idempotent: as long as the process lives and every INSERT      *)
(* succeeds, any number of workers pay an order with one transaction.       *)
THEOREM OnePaymentCorrect ==
  ASSUME ~Faults
  PROVE  Spec => []OnePaymentPerOrder
<1>1. Init => PayInv
  BY DEF Init, PayInv
<1>2. TypeInv /\ PayInv => OnePaymentPerOrder
  BY PaidOnce
<1>3. TypeInv /\ PayInv /\ [Next]_vars => (TypeInv /\ PayInv)'
  BY TypeStep, PayStep
<1> QED
  BY <1>1, <1>2, <1>3, TypeStart, PTL DEF Spec

-----------------------------------------------------------------------------
(* What is settled was paid, under the same condition.                      *)

\* What a worker remembers of the payment, against the tables.
FramePaid(p, f, rows, paid, blocks) ==
  /\ p = "submitted" => f.tx # NoTx /\ paid[f.order] = f.tx
  /\ p \in {"poll", "pool", "again", "settle", "lost"} =>
       f.tx # NoTx /\ rows[f.order].external = f.tx
  /\ p = "find" /\ f.state = "bait_submitted" =>
       f.tx # NoTx /\ rows[f.order].external = f.tx
  /\ p = "settle" => f.tx \in blocks
  /\ p \in {"sync", "mirror"} /\ f.state = "settled" => rows[f.order].external \in blocks

FramesPaid == \A w \in Workers : FramePaid(pc[w], local[w], order, settlement, chain)

\* What a row says of the payment.
RowsPaid ==
  \A o \in Orders :
    /\ order[o].external # NoTx => order[o].external = settlement[o]
    /\ order[o].state = "bait_submitted" => order[o].external # NoTx
    /\ "settled" \in {order[o].state, mirror[o]} => order[o].external \in chain

(* A transaction in a block is one, so a settled row has the adapter's.     *)
LEMMA PaidFollows ==
  ASSUME TypeInv, RowsPaid
  PROVE  SettledIsPaid
<1>1. NoTx \notin chain
  BY SwapAssumption DEF TypeInv, TypeOK, Txs
<1> QED
  BY <1>1 DEF RowsPaid, SettledIsPaid

\* Without a fault, what is recorded of a payment is never taken back.
Grows ==
  /\ \A o \in Orders : order[o].external # NoTx => order'[o].external = order[o].external
  /\ \A o \in Orders : settlement[o] # NoTx => settlement'[o] = settlement[o]
  /\ chain \subseteq chain'

(* A worker that does not move remembers what is still so.                  *)
LEMMA FrameStays ==
  ASSUME TypeInv, RowsPaid, FramesPaid, Grows, NEW v \in Workers
  PROVE  FramePaid(pc[v], local[v], order', settlement', chain')
<1>1. FramePaid(pc[v], local[v], order, settlement, chain)
  BY DEF FramesPaid
<1>2. NoTx \notin chain
  BY SwapAssumption DEF TypeInv, TypeOK, Txs
<1>3. pc[v] # "idle" => local[v].order \in Orders
  BY FrameFields
<1> QED
  BY <1>1, <1>2, <1>3 DEF FramePaid, Grows

(* One worker moves.                                                        *)
LEMMA FrameMoves ==
  ASSUME TypeInv, RowsPaid, FramesPaid, Grows, NEW w \in Workers, NEW p, NEW f,
         Goto(w, p), Keep(w, f), FramePaid(p, f, order', settlement', chain')
  PROVE  FramesPaid'
<1>1. ASSUME NEW v \in Workers
      PROVE  FramePaid(pc'[v], local'[v], order', settlement', chain')
  <2>1. CASE v = w
    <3>1. pc'[v] = p /\ local'[v] = f
      BY <2>1 DEF Goto, Keep, TypeInv, TypeOK
    <3> QED
      BY <3>1
  <2>2. CASE v # w
    <3>1. pc'[v] = pc[v] /\ local'[v] = local[v]
      BY <2>2 DEF Goto, Keep, TypeInv, TypeOK
    <3> QED
      BY <3>1, FrameStays
  <2> QED
    BY <2>1, <2>2
<1> QED
  BY <1>1 DEF FramesPaid

(* An exception, and a return of anything but settled.                      *)
LEMMA FrameLeaves ==
  ASSUME TypeInv, RowsPaid, FramesPaid, Grows, NEW w \in Workers, Leave(w)
  PROVE  FramesPaid'
<1>1. FramePaid("idle", NoFrame, order', settlement', chain')
  BY DEF FramePaid
<1> QED
  BY <1>1, FrameMoves DEF Leave

LEMMA FrameReturns ==
  ASSUME TypeInv, RowsPaid, FramesPaid, Grows, NEW w \in Workers, NEW state,
         Return(w, state),
         state = "settled" => order'[local[w].order].external \in chain'
  PROVE  FramesPaid'
<1> DEFINE f == Frame(local[w].order, state, NoDeposit, NoDeposit, FALSE, NoTx, "absent")
<1>1. f.order = local[w].order /\ f.state = state
  BY DEF Frame
<1>2. Goto(w, "sync") /\ Keep(w, f)
  BY DEF Return
<1> HIDE DEF f
<1>3. FramePaid("sync", f, order', settlement', chain')
  BY <1>1 DEF FramePaid
<1> QED
  BY <1>2, <1>3, FrameMoves

(* The tables are left alone.                                               *)
LEMMA PaidTables ==
  ASSUME RowsPaid, UNCHANGED <<order, settlement, chain>>,
         \A o \in Orders : mirror'[o] = "settled" => mirror[o] = "settled" \/ order[o].external \in chain
  PROVE  RowsPaid' /\ Grows
BY DEF RowsPaid, Grows

(* A row is written: its transaction is kept, or is the adapter's.          *)
LEMMA RowPaid ==
  ASSUME TypeInv, RowsPaid, NEW o \in Orders, NEW state, NEW d, NEW tx,
         SetRow(o, state, d, tx), UNCHANGED <<mirror, settlement, chain>>,
         tx = order[o].external \/ (tx # NoTx /\ tx = settlement[o]),
         state = "bait_submitted" => tx # NoTx,
         state = "settled" => tx \in chain
  PROVE  RowsPaid' /\ Grows /\ order'[o].external = tx
<1>1. /\ order'[o].state = state /\ order'[o].external = tx
      /\ \A p \in Orders \ {o} : order'[p] = order[p]
  BY DEF SetRow, TypeInv, TypeOK
<1>2. Grows
  BY <1>1 DEF Grows, RowsPaid
<1>3. mirror[o] = "settled" => tx \in chain
  <2>1. NoTx \notin chain
    BY SwapAssumption DEF TypeInv, TypeOK, Txs
  <2> QED
    BY <2>1 DEF RowsPaid
<1>4. RowsPaid'
  <2>1. ASSUME NEW p \in Orders
        PROVE  /\ order'[p].external # NoTx => order'[p].external = settlement'[p]
               /\ order'[p].state = "bait_submitted" => order'[p].external # NoTx
               /\ "settled" \in {order'[p].state, mirror'[p]} => order'[p].external \in chain'
    <3>1. CASE p = o
      BY <1>1, <1>3, <3>1 DEF RowsPaid
    <3>2. CASE p # o
      BY <1>1, <3>2 DEF RowsPaid
    <3> QED
      BY <3>1, <3>2
  <2> QED
    BY <2>1 DEF RowsPaid
<1> QED
  BY <1>1, <1>2, <1>4

(* A state and a deposit change no transaction, settled is none of them.    *)
LEMMA StatePaid ==
  ASSUME TypeInv, RowsPaid, NEW o \in Orders, NEW state, NEW d,
         state \notin {"bait_submitted", "settled"},
         SetState(o, state, d), UNCHANGED <<mirror, settlement, chain>>
  PROVE  RowsPaid' /\ Grows
<1>1. CASE HeldByAnother(o, d)
  BY <1>1, RowPaid DEF SetState
<1>2. CASE ~HeldByAnother(o, d)
  BY <1>2, RowPaid DEF SetState
<1> QED
  BY <1>1, <1>2

(* Admission rewrites the row as it is, or makes one.                       *)
LEMMA AdmitPaid ==
  ASSUME TypeInv, RowsPaid, FramesPaid, NEW w \in Workers, NEW o \in Orders, Admit(w, o)
  PROVE  RowsPaid' /\ FramesPaid'
<1> DEFINE state == IF order[o].state = "absent" THEN "intent_validated" ELSE order[o].state
           f == Frame(o, state, NoDeposit, NoDeposit, FALSE, NoTx, "absent")
<1>1. /\ SetRow(o, state, order[o].deposit, order[o].external)
      /\ UNCHANGED <<mirror, settlement, chain>>
      /\ (Goto(w, "sync") /\ Keep(w, f)) \/ UNCHANGED <<pc, local>>
  BY DEF Admit, bait
<1>2. /\ state = "bait_submitted" => order[o].external # NoTx
      /\ state = "settled" => order[o].external \in chain
  BY DEF RowsPaid
<1>3. f.order = o /\ f.state = state
  BY DEF Frame
<1> HIDE DEF state, f
<1>4. RowsPaid' /\ Grows /\ order'[o].external = order[o].external
  BY <1>1, <1>2, RowPaid
<1>5. FramePaid("sync", f, order', settlement', chain')
  BY <1>1, <1>2, <1>3, <1>4 DEF FramePaid
<1>6. CASE UNCHANGED <<pc, local>>
  BY <1>4, <1>6, FrameStays DEF FramesPaid
<1> QED
  BY <1>1, <1>4, <1>5, <1>6, FrameMoves

(* A loaded row that is submitted names its transaction.                    *)
LEMMA LoadPaid ==
  ASSUME TypeInv, RowsPaid, FramesPaid, NEW w \in Workers, NEW o \in Orders, Load(w, o)
  PROVE  RowsPaid' /\ FramesPaid'
<1>1. RowsPaid' /\ Grows /\ UNCHANGED <<order, settlement, chain>>
  BY PaidTables DEF Load, db, bait
<1>2. CASE order[o].state \in Final
  <2> DEFINE f == Frame(o, order[o].state, NoDeposit, NoDeposit, FALSE, NoTx, "absent")
  <2>1. Goto(w, "sync") /\ Keep(w, f)
    BY <1>2 DEF Load
  <2>2. f.order = o /\ f.state = order[o].state
    BY DEF Frame
  <2> HIDE DEF f
  <2>3. FramePaid("sync", f, order', settlement', chain')
    BY <1>1, <2>2 DEF FramePaid, RowsPaid
  <2> QED
    BY <1>1, <2>1, <2>3, FrameMoves
<1>3. CASE order[o].state \notin Final
  <2> DEFINE f == Frame(o, order[o].state, order[o].deposit, NoDeposit, FALSE,
                        order[o].external, "absent")
  <2>1. Goto(w, "find") /\ Keep(w, f)
    BY <1>3 DEF Load
  <2>2. f.order = o /\ f.state = order[o].state /\ f.tx = order[o].external
    BY DEF Frame
  <2> HIDE DEF f
  <2>3. FramePaid("find", f, order', settlement', chain')
    BY <1>1, <2>2 DEF FramePaid, RowsPaid
  <2> QED
    BY <1>1, <2>1, <2>3, FrameMoves
<1> QED
  BY <1>2, <1>3

(* Only a row that is submitted is polled.                                  *)
LEMMA OnwardPolls ==
  ASSUME NEW state \in Open, NEW deep \in BOOLEAN
  PROVE  Onward(state, deep) = "poll" => state = "bait_submitted"
BY DEF Onward, Open

LEMMA DepositPaid ==
  ASSUME TypeInv, RowsPaid, FramesPaid, NEW w \in Workers, FindDeposit(w)
  PROVE  RowsPaid' /\ FramesPaid'
<1> DEFINE f == local[w]
<1>1. RowsPaid' /\ Grows /\ UNCHANGED <<order, settlement, chain>>
  BY PaidTables DEF FindDeposit, db, bait
<1>2. f.state \in Open /\ pc[w] = "find"
  BY DEF FindDeposit, TypeInv, WorkersGood, FrameGood
<1>3. PICK d \in Candidates(f.order) :
        LET deep == deposits[d] = "deep"
            next == IF f.prior \notin {NoDeposit, d} THEN "diverge" ELSE Onward(f.state, deep)
        IN IF next = "sync"
           THEN Return(w, f.state)
           ELSE /\ Goto(w, next)
                /\ Keep(w, Frame(f.order, f.state, NoDeposit, d, deep, f.tx, "absent"))
  BY DEF FindDeposit
<1> DEFINE deep == deposits[d] = "deep"
           next == IF f.prior \notin {NoDeposit, d} THEN "diverge" ELSE Onward(f.state, deep)
           g == Frame(f.order, f.state, NoDeposit, d, deep, f.tx, "absent")
<1>4. /\ next \in {"diverge", "observe", "sync", "confirm", "submit", "poll"}
      /\ next = "poll" => f.state = "bait_submitted"
  <2>1. deep \in BOOLEAN
    OBVIOUS
  <2> HIDE DEF deep
  <2>2. /\ Onward(f.state, deep) \in {"observe", "sync", "confirm", "submit", "poll"}
        /\ Onward(f.state, deep) = "poll" => f.state = "bait_submitted"
    BY <1>2, <2>1, OnwardType, OnwardPolls
  <2> QED
    BY <2>2
<1>5. IF next = "sync" THEN Return(w, f.state) ELSE Goto(w, next) /\ Keep(w, g)
  BY <1>3
<1>6. g.order = f.order /\ g.tx = f.tx
  BY DEF Frame
<1>7. f.state # "settled"
  BY <1>2 DEF Open
<1>8. f.state = "bait_submitted" => f.tx # NoTx /\ order[f.order].external = f.tx
  BY <1>2 DEF FramesPaid, FramePaid
<1> HIDE DEF g, next, f
<1>9. next # "sync" => FramePaid(next, g, order', settlement', chain')
  BY <1>1, <1>4, <1>6, <1>8 DEF FramePaid
<1> QED
  BY <1>1, <1>5, <1>7, <1>9, FrameMoves, FrameReturns DEF f

(* Before the payment nothing is remembered of it.                          *)
LEMMA EarlyPaid ==
  ASSUME TypeInv, RowsPaid, FramesPaid, NEW w \in Workers,
         FindNothing(w) \/ Diverge(w) \/ Observe(w) \/ Confirm(w)
  PROVE  RowsPaid' /\ FramesPaid'
<1>1. pc[w] # "idle" /\ local[w].order \in Orders /\ local[w].deep \in BOOLEAN
  BY FrameFields DEF FindNothing, Diverge, Observe, Confirm
<1>2. ASSUME NEW o, NEW state, NEW found, NEW deep, NEW tx, NEW p \in {"confirm", "submit"},
             Goto(w, p), Keep(w, Frame(o, state, NoDeposit, found, deep, tx, "absent")),
             RowsPaid', Grows
      PROVE  FramesPaid'
  <2> DEFINE f == Frame(o, state, NoDeposit, found, deep, tx, "absent")
  <2>1. FramePaid(p, f, order', settlement', chain')
    BY DEF FramePaid
  <2>2. Keep(w, f)
    BY <1>2
  <2> HIDE DEF f
  <2> QED
    BY <1>2, <2>1, <2>2, FrameMoves
<1>3. CASE FindNothing(w)
  <2>1. RowsPaid' /\ Grows
    BY <1>3, PaidTables DEF FindNothing, db, bait
  <2>2. local[w].state # "settled" /\ Return(w, local[w].state)
    BY <1>3 DEF FindNothing, TypeInv, WorkersGood, FrameGood, Open
  <2> QED
    BY <2>1, <2>2, FrameReturns
<1>4. CASE Diverge(w)
  <2>1. RowsPaid' /\ Grows
    BY <1>1, <1>4, StatePaid DEF Diverge, bait
  <2> QED
    BY <1>4, <2>1, FrameReturns DEF Diverge
<1>5. CASE Observe(w)
  <2>1. RowsPaid' /\ Grows
    BY <1>1, <1>5, StatePaid DEF Observe, bait
  <2>2. \/ Return(w, "reconciling") \/ Return(w, "btc_observed")
        \/ /\ Goto(w, "confirm")
           /\ Keep(w, Frame(local[w].order, "btc_observed", NoDeposit, local[w].found, TRUE,
                            local[w].tx, "absent"))
    BY <1>1, <1>5 DEF Observe
  <2> QED
    BY <1>2, <2>1, <2>2, FrameReturns
<1>6. CASE Confirm(w)
  <2>1. RowsPaid' /\ Grows
    BY <1>1, <1>6, StatePaid DEF Confirm, bait
  <2> QED
    BY <1>2, <1>6, <2>1 DEF Confirm
<1> QED
  BY <1>3, <1>4, <1>5, <1>6

(* The submission hands over what is, or is now, on record.                 *)
LEMMA SubmitPaid ==
  ASSUME TypeInv, PayInv, RowsPaid, FramesPaid, NEW w \in Workers,
         SubmitAgain(w) \/ SubmitTx(w) \/ SubmitRefused(w) \/ RecordSubmission(w)
  PROVE  RowsPaid' /\ FramesPaid'
<1> DEFINE o == local[w].order
<1>1. pc[w] # "idle" /\ o \in Orders
  BY FrameFields DEF SubmitAgain, SubmitTx, SubmitRefused, RecordSubmission
<1>2. CASE SubmitAgain(w)
  <2> DEFINE f == WithTx(local[w], settlement[o])
  <2>1. RowsPaid' /\ Grows /\ settlement' = settlement
    BY <1>2, PaidTables DEF SubmitAgain, db, bait
  <2>2. Goto(w, "submitted") /\ Keep(w, f) /\ settlement[o] # NoTx
    BY <1>2 DEF SubmitAgain
  <2>3. f.tx = settlement[o] /\ f.order = o
    BY DEF WithTx, Frame
  <2> HIDE DEF f, o
  <2>4. FramePaid("submitted", f, order', settlement', chain')
    BY <2>1, <2>2, <2>3 DEF FramePaid
  <2> QED
    BY <2>1, <2>2, <2>4, FrameMoves
<1>3. CASE SubmitTx(w)
  <2>1. RowsPaid' /\ Grows
    BY <1>3, PaidTables DEF SubmitTx, db
  <2>2. Goto(w, "insert") /\ Keep(w, local[w])
    BY <1>3 DEF SubmitTx, Keep, TypeInv, TypeOK
  <2>3. FramePaid("insert", local[w], order', settlement', chain')
    BY DEF FramePaid
  <2> QED
    BY <2>1, <2>2, <2>3, FrameMoves
<1>4. CASE SubmitRefused(w)
  <2>1. RowsPaid' /\ Grows
    BY <1>4, PaidTables DEF SubmitRefused, db, bait
  <2> QED
    BY <1>4, <2>1, FrameLeaves DEF SubmitRefused
<1>5. CASE RecordSubmission(w)
  <2> DEFINE f == WithTx(local[w], inflight)
  <2>1. /\ settlement' = [settlement EXCEPT ![o] = inflight]
        /\ UNCHANGED <<order, mirror, chain>>
        /\ Goto(w, "submitted") /\ Keep(w, f) /\ pc[w] = "insert"
    BY <1>5 DEF RecordSubmission, bait
  <2>2. inflight # NoTx /\ settlement[o] = NoTx
    BY <2>1 DEF PayInv
  <2>3. f.tx = inflight /\ f.order = o
    BY DEF WithTx, Frame
  <2> HIDE DEF f, o
  <2>4. /\ settlement'[o] = inflight
        /\ \A p \in Orders \ {o} : settlement'[p] = settlement[p]
    BY <1>1, <2>1 DEF TypeInv, TypeOK
  <2>5. Grows
    BY <2>1, <2>2, <2>4 DEF Grows
  <2>6. RowsPaid'
    <3>1. order[o].external = NoTx
      BY <1>1, <2>2 DEF RowsPaid
    <3> QED
      BY <2>1, <2>4, <3>1 DEF RowsPaid
  <2>7. FramePaid("submitted", f, order', settlement', chain')
    BY <2>2, <2>3, <2>4 DEF FramePaid
  <2> QED
    BY <2>1, <2>5, <2>6, <2>7, FrameMoves
<1> QED
  BY <1>2, <1>3, <1>4, <1>5

(* The row gets the transaction it was handed.                              *)
LEMMA MarkPaid ==
  ASSUME TypeInv, RowsPaid, FramesPaid, NEW w \in Workers, MarkSubmitted(w)
  PROVE  RowsPaid' /\ FramesPaid'
<1> DEFINE f == local[w]
<1>1. pc[w] = "submitted" /\ f.order \in Orders
  BY FrameFields DEF MarkSubmitted
<1>2. f.tx # NoTx /\ f.tx = settlement[f.order]
  BY <1>1 DEF FramesPaid, FramePaid
<1>3. CASE HeldByAnother(f.order, f.found)
  <2>1. RowsPaid' /\ Grows /\ Leave(w)
    BY <1>3, PaidTables DEF MarkSubmitted, bait
  <2> QED
    BY <2>1, FrameLeaves
<1>4. CASE ~HeldByAnother(f.order, f.found)
  <2> DEFINE g == WithTx(f, f.tx)
  <2>1. /\ SetRow(f.order, "bait_submitted", f.found, f.tx)
        /\ Goto(w, "poll") /\ Keep(w, g)
        /\ UNCHANGED <<mirror, settlement, chain>>
    BY <1>4 DEF MarkSubmitted, bait
  <2>2. RowsPaid' /\ Grows /\ order'[f.order].external = f.tx
    BY <1>1, <1>2, <2>1, RowPaid
  <2>3. g.order = f.order /\ g.tx = f.tx
    BY DEF WithTx, Frame
  <2> HIDE DEF g, f
  <2>4. FramePaid("poll", g, order', settlement', chain')
    BY <1>2, <2>2, <2>3 DEF FramePaid
  <2> QED
    BY <2>1, <2>2, <2>4, FrameMoves
<1> QED
  BY <1>3, <1>4

(* A worker comes to settle only with a transaction that is in a block.     *)
LEMMA PollPaid ==
  ASSUME TypeInv, RowsPaid, FramesPaid, NEW w \in Workers,
         PollChain(w) \/ PollMempool(w) \/ PollAgain(w)
  PROVE  RowsPaid' /\ FramesPaid'
<1>1. RowsPaid' /\ Grows /\ UNCHANGED <<order, settlement, chain>>
  BY PaidTables DEF PollChain, PollMempool, PollAgain, db, bait
<1>2. local[w].tx # NoTx /\ order[local[w].order].external = local[w].tx
  BY DEF PollChain, PollMempool, PollAgain, FramesPaid, FramePaid
<1>3. CASE Return(w, "bait_submitted")
  BY <1>1, <1>3, FrameReturns
<1>4. ASSUME NEW p \in {"settle", "pool", "again", "lost"}, Goto(w, p), UNCHANGED local,
             p = "settle" => Mined(w)
      PROVE  FramesPaid'
  <2>1. Keep(w, local[w])
    BY <1>4 DEF Keep, TypeInv, TypeOK
  <2>2. FramePaid(p, local[w], order', settlement', chain')
    BY <1>1, <1>2, <1>4 DEF FramePaid, Mined
  <2> QED
    BY <1>1, <1>4, <2>1, <2>2, FrameMoves
<1> QED
  BY <1>1, <1>3, <1>4 DEF PollChain, PollMempool, PollAgain

(* The row that is closed as settled has this transaction.                  *)
LEMMA ClosePaid ==
  ASSUME TypeInv, RowsPaid, FramesPaid, NEW w \in Workers, Settle(w) \/ Lose(w)
  PROVE  RowsPaid' /\ FramesPaid'
<1> DEFINE o == local[w].order
<1>1. PICK state \in {"settled", "reconciling"} :
        Close(w, state) /\ pc[w] = (IF state = "settled" THEN "settle" ELSE "lost")
  BY DEF Settle, Lose
<1>2. o \in Orders
  BY <1>1, FrameFields
<1>3. state = "settled" => order[o].external \in chain
  BY <1>1 DEF FramesPaid, FramePaid
<1>4. /\ SetRow(o, state, order[o].deposit, order[o].external)
      /\ Return(w, state) /\ UNCHANGED <<mirror, settlement, chain>>
  BY <1>1 DEF Close, bait
<1>5. RowsPaid' /\ Grows /\ order'[o].external = order[o].external
  BY <1>2, <1>3, <1>4, RowPaid
<1> HIDE DEF o
<1> QED
  BY <1>3, <1>4, <1>5, FrameReturns DEF o

(* The mirror is told settled only by a worker that saw the row so.         *)
LEMMA SyncPaid ==
  ASSUME TypeInv, RowsPaid, FramesPaid, NEW w \in Workers,
         SyncNothing(w) \/ SyncStart(w) \/ SetStatus(w) \/ SetStatusRefused(w)
  PROVE  RowsPaid' /\ FramesPaid'
<1> DEFINE f == local[w]
           Walk(mark) == Frame(f.order, f.state, NoDeposit, NoDeposit, FALSE, NoTx, mark)
<1>1. pc[w] \in {"sync", "mirror"} /\ pc[w] # "idle" /\ f.order \in Orders
  BY FrameFields DEF SyncNothing, SyncStart, SetStatus, SetStatusRefused
<1>2. f.state = "settled" => order[f.order].external \in chain
  BY <1>1 DEF FramesPaid, FramePaid
<1>3. ASSUME NEW mark, Goto(w, "mirror"), Keep(w, Walk(mark)),
             RowsPaid', Grows, UNCHANGED <<order, chain>>
      PROVE  FramesPaid'
  <2>1. Walk(mark).order = f.order /\ Walk(mark).state = f.state
    BY DEF Frame
  <2> HIDE DEF Walk, f
  <2>2. FramePaid("mirror", Walk(mark), order', settlement', chain')
    BY <1>2, <1>3, <2>1 DEF FramePaid
  <2> QED
    BY <1>3, <2>2, FrameMoves
<1>4. CASE SyncNothing(w) \/ SetStatusRefused(w)
  <2>1. RowsPaid' /\ Grows /\ Leave(w)
    BY <1>4, PaidTables DEF SyncNothing, SetStatusRefused, db, bait
  <2> QED
    BY <2>1, FrameLeaves
<1>5. CASE SyncStart(w)
  <2>1. RowsPaid' /\ Grows /\ UNCHANGED <<order, chain>>
    BY <1>5, PaidTables DEF SyncStart, db, bait
  <2>2. PICK mark : Goto(w, "mirror") /\ Keep(w, Walk(mark))
    BY <1>5 DEF SyncStart
  <2> HIDE DEF Walk
  <2> QED
    BY <1>3, <2>1, <2>2
<1>6. CASE SetStatus(w)
  <2>1. /\ mirror' = [mirror EXCEPT ![f.order] = f.mark]
        /\ UNCHANGED <<order, settlement, chain>>
        /\ Leave(w) \/ (Keep(w, Walk(After(f.mark))) /\ UNCHANGED pc)
        /\ pc[w] = "mirror"
    BY <1>6 DEF SetStatus, bait
  <2>2. f.mark = "settled" => f.state = "settled"
    <3>1. \/ f.mark = "reconciling" /\ f.state = "reconciling"
          \/ {f.mark, f.state} \subseteq Path /\ Rank[f.mark] <= Rank[f.state]
      BY <2>1 DEF TypeInv, WorkersGood, FrameGood
    <3> QED
      BY <3>1, PathRank
  <2>3. \A o \in Orders : mirror'[o] = "settled" => mirror[o] = "settled" \/ order[o].external \in chain
    BY <1>1, <1>2, <2>1, <2>2 DEF TypeInv, TypeOK
  <2>4. RowsPaid' /\ Grows
    BY <2>1, <2>3, PaidTables
  <2>5. UNCHANGED pc => Goto(w, "mirror")
    BY <2>1 DEF Goto, TypeInv, TypeOK
  <2> HIDE DEF Walk
  <2> QED
    BY <1>3, <2>1, <2>4, <2>5, FrameLeaves
<1> QED
  BY <1>4, <1>5, <1>6

(* Every step keeps what is recorded of a payment true.                     *)
LEMMA PaidStep ==
  ASSUME ~Faults, TypeInv, PayInv, RowsPaid, FramesPaid, [Next]_vars
  PROVE  RowsPaid' /\ FramesPaid'
<1>1. ASSUME NEW w \in Workers, Step(w)
      PROVE  RowsPaid' /\ FramesPaid'
  <2>1. ~RecordFails(w)
    BY DEF RecordFails
  <2> QED
    BY <1>1, <2>1, AdmitPaid, LoadPaid, DepositPaid, EarlyPaid, SubmitPaid, MarkPaid, PollPaid,
       ClosePaid, SyncPaid DEF Step
<1>2. ASSUME UNCHANGED <<order, settlement, pc, local>>, chain \subseteq chain',
             \A o \in Orders : mirror'[o] = "settled" => mirror[o] = "settled"
      PROVE  RowsPaid' /\ FramesPaid'
  <2>1. RowsPaid' /\ Grows
    BY <1>2 DEF RowsPaid, Grows
  <2> QED
    BY <1>2, <2>1, FrameStays DEF FramesPaid
<1>3. ASSUME NEW o \in Orders, Publish(o)
      PROVE  RowsPaid' /\ FramesPaid'
  <2>1. \A p \in Orders : mirror'[p] = "settled" => mirror[p] = "settled"
    BY <1>3 DEF Publish, TypeInv, TypeOK
  <2> QED
    BY <1>2, <1>3, <2>1 DEF Publish, bait
<1>4. ASSUME (\E d \in Outpoints : Bitcoin(d)) \/ MineBlock \/ PersistBlock \/ UNCHANGED vars
      PROVE  RowsPaid' /\ FramesPaid'
  BY <1>2, <1>4 DEF Bitcoin, MineBlock, PersistBlock, vars, db, bait
<1>5. ~Crash
  BY DEF Crash
<1> QED
  BY <1>1, <1>3, <1>4, <1>5 DEF Next

(* As long as the process lives and every INSERT succeeds, an order that    *)
(* any worker or the mirror calls settled was paid by the transaction in    *)
(* its row, and that one is in a block (swap_executor.py:291-306).          *)
THEOREM SettledCorrect ==
  ASSUME ~Faults
  PROVE  Spec => []SettledIsPaid
<1> DEFINE Paid == TypeInv /\ PayInv /\ RowsPaid /\ FramesPaid
<1>1. Init => Paid
  <2> SUFFICES ASSUME Init PROVE RowsPaid /\ FramesPaid /\ PayInv
    BY TypeStart
  <2>1. PayInv
    BY DEF Init, PayInv
  <2>2. RowsPaid
    BY DEF Init, RowsPaid
  <2>3. FramesPaid
    BY DEF Init, FramesPaid, FramePaid
  <2> QED
    BY <2>1, <2>2, <2>3
<1>2. Paid /\ [Next]_vars => Paid'
  BY TypeStep, PayStep, PaidStep
<1>3. Paid => SettledIsPaid
  BY PaidFollows
<1> HIDE DEF Paid
<1> QED
  BY <1>1, <1>2, <1>3, PTL DEF Spec

-----------------------------------------------------------------------------
(* One worker: rows, mirror and payments in step, whatever fails.           *)

\* Nothing else than the one worker writes a row while it works.
Alone == \A v, w \in Workers : v = w

Held == {"btc_observed", "btc_confirmed", "bait_submitted", "settled"}

\* Where the worker is, against the row of its order.
FrameFits(p, f, row) ==
  /\ p \in {"find", "diverge"} => row.state \in Open /\ row.state = f.state
  /\ p = "find" => row.deposit = f.prior
  /\ p = "observe" => row.state = "intent_validated"
  /\ p \in {"diverge", "observe"} => f.found # NoDeposit
  /\ p = "confirm" => row.state = "btc_observed"
  /\ p \in {"submit", "insert", "submitted"} => row.state = "btc_confirmed"
  /\ p \in {"poll", "pool", "again", "settle", "lost"} => row.state = "bait_submitted"
  /\ p \in {"confirm", "submit", "insert", "submitted", "poll", "pool", "again", "settle",
            "lost"} => row.deposit = f.found
  /\ p \in {"sync", "mirror"} => row.state = f.state

FramesFit ==
  \A w \in Workers : pc[w] # "idle" => FrameFits(pc[w], local[w], order[local[w].order])

\* A row has the deposit its state speaks of, and no two rows the same one; an
\* order the mirror tells of has a row.
RowsFit ==
  /\ \A o \in Orders : order[o].state \in Held => order[o].deposit # NoDeposit
  /\ \A o, p \in Orders : o # p /\ order[o].deposit = order[p].deposit =>
       order[o].deposit = NoDeposit
  /\ \A o \in Orders : mirror[o] \notin {"absent", "pending"} => order[o].state # "absent"

FinalKept == \A o \in Orders : order[o].state \in Final => order'[o].state = order[o].state

(* What a row may become: what it is, the first state, or one further on.   *)
Legal(c, s) ==
  \/ s = c /\ c # "absent"
  \/ c = "absent" /\ s = "intent_validated"
  \/ /\ c \in Open
     /\ s = "reconciling" \/ (s \in Path /\ Rank[c] <= Rank[s])

(* Ranks and sets of states.                                                *)
LEMMA StateFacts ==
  /\ \A s \in Path : Rank[s] \in Nat
  /\ \A s \in Path \cap States : s \in Held <=> Rank[s] >= Rank["btc_observed"]
  /\ \A s \in Held : s \in Path /\ Rank[s] >= Rank["btc_observed"]
  /\ \A s \in Path : Rank[s] >= Rank["btc_confirmed"] <=>
                       s \in {"btc_confirmed", "bait_submitted", "settled"}
  /\ \A s \in Path : s = "settled" <=> Rank[s] = 5
  /\ \A s \in Path : Rank[s] <= 5
  /\ Open \subseteq Path /\ "reconciling" \notin Path /\ "absent" \notin Path
BY PathRank DEF Held, States, Open, Final

(* A row is written, the mirror and the payments are not.                   *)
LEMMA RowChange ==
  ASSUME TypeInv, RowsFit, NothingRunsAhead, NEW o \in Orders, NEW s \in States, NEW d, NEW tx,
         SetRow(o, s, d, tx), UNCHANGED <<mirror, settlement, mempool, chain>>,
         Legal(order[o].state, s),
         s \in Held => d # NoDeposit,
         order[o].deposit # NoDeposit => d # NoDeposit,
         \A p \in Orders \ {o} : order[p].deposit = d => d = NoDeposit
  PROVE  /\ RowsFit' /\ NothingRunsAhead' /\ FinalKept
         /\ order'[o].state = s /\ order'[o].deposit = d
<1> DEFINE c == order[o].state
<1>1. /\ order'[o].state = s /\ order'[o].deposit = d
      /\ \A p \in Orders \ {o} : order'[p] = order[p]
  BY DEF SetRow, TypeInv, TypeOK
<1>2. c \in Final => s = c
  BY StatusTypes DEF Legal, Final
<1>3. FinalKept
  BY <1>1, <1>2 DEF FinalKept
<1>4. RowsFit'
  <2>1. s # "absent"
    BY DEF States, Path, Rank, Final
  <2> QED
    BY <1>1, <2>1 DEF RowsFit
<1>5. /\ mirror[o] \in Final => s = mirror[o]
      /\ mirror[o] \in Path \ {"pending"} /\ s \in Path => Rank[mirror[o]] <= Rank[s]
      /\ mirror[o] \in Path /\ d = NoDeposit => Rank[mirror[o]] < Rank["btc_observed"]
  <2>1. /\ mirror[o] \in Final => c = mirror[o]
        /\ mirror[o] \in Path \ {"pending"} /\ c \in Path => Rank[mirror[o]] <= Rank[c]
        /\ mirror[o] \in Path /\ order[o].deposit = NoDeposit =>
             Rank[mirror[o]] < Rank["btc_observed"]
    BY DEF NothingRunsAhead, MirrorBehind
  <2>2. mirror[o] \notin {"absent", "pending"} => c # "absent"
    BY DEF RowsFit
  <2>3. mirror[o] \in Path \ {"pending"} /\ s \in Path => Rank[mirror[o]] <= Rank[s]
    <3>1. SUFFICES ASSUME mirror[o] \in Path \ {"pending"}, s \in Path
                   PROVE  Rank[mirror[o]] <= Rank[s]
      OBVIOUS
    <3>2. c # "absent"
      BY <2>2, <3>1, StateFacts
    <3>3. c \in Path /\ Rank[c] <= Rank[s]
      BY <3>1, <3>2, StateFacts DEF Legal
    <3>4. Rank[mirror[o]] \in Nat /\ Rank[c] \in Nat /\ Rank[s] \in Nat
      BY <3>1, <3>3, StateFacts
    <3> QED
      BY <2>1, <3>1, <3>3, <3>4
  <2> QED
    BY <1>2, <2>1, <2>3
<1>6. MirrorBehind'
  <2>1. ASSUME NEW p \in Orders
        PROVE  /\ mirror'[p] \in Final => order'[p].state = mirror'[p]
               /\ mirror'[p] \in Path \ {"pending"} /\ order'[p].state \in Path =>
                    Rank[mirror'[p]] <= Rank[order'[p].state]
               /\ mirror'[p] \in Path /\ order'[p].deposit = NoDeposit =>
                    Rank[mirror'[p]] < Rank["btc_observed"]
    <3>1. CASE p = o
      BY <1>1, <1>5, <3>1
    <3>2. CASE p # o
      BY <1>1, <3>2 DEF NothingRunsAhead, MirrorBehind
    <3> QED
      BY <3>1, <3>2
  <2> QED
    BY <2>1 DEF MirrorBehind
<1>7. c \in {"btc_confirmed", "bait_submitted"} \cup Final =>
        s \in {"btc_confirmed", "bait_submitted"} \cup Final
  <2>1. CASE c \in Final
    BY <1>2, <2>1
  <2>2. CASE c \in {"btc_confirmed", "bait_submitted"} /\ s \in Path /\ Rank[c] <= Rank[s]
    <3>1. c \in Path /\ Rank[c] \in Nat /\ Rank[s] \in Nat /\ Rank["btc_confirmed"] \in Nat
      BY <2>2, StateFacts, PathRank
    <3>2. Rank[c] >= Rank["btc_confirmed"]
      BY <2>2, <3>1, StateFacts
    <3>3. Rank[s] >= Rank["btc_confirmed"]
      BY <2>2, <3>1, <3>2
    <3> QED
      BY <2>2, <3>3, StateFacts DEF Final
  <2> QED
    BY <2>1, <2>2 DEF Legal, Final
<1>8. ConfirmedBeforePaid'
  BY <1>1, <1>7 DEF NothingRunsAhead, ConfirmedBeforePaid
<1> QED
  BY <1>1, <1>3, <1>4, <1>6, <1>8 DEF NothingRunsAhead

(* The mirror is told of a state the row has reached.                       *)
LEMMA MirrorChange ==
  ASSUME TypeInv, RowsFit, NothingRunsAhead, NEW o \in Orders, NEW m,
         mirror' = [mirror EXCEPT ![o] = m],
         UNCHANGED <<order, settlement, mempool, chain>>,
         order[o].state # "absent" \/ m = "pending",
         \/ m = "pending"
         \/ m = "reconciling" /\ order[o].state = "reconciling"
         \/ {m, order[o].state} \subseteq Path /\ Rank[m] <= Rank[order[o].state]
  PROVE  RowsFit' /\ NothingRunsAhead'
<1> DEFINE s == order[o].state
<1>1. mirror'[o] = m /\ \A p \in Orders \ {o} : mirror'[p] = mirror[p]
  BY DEF TypeInv, TypeOK
<1>2. RowsFit'
  BY <1>1 DEF RowsFit
<1>3. ConfirmedBeforePaid'
  BY DEF NothingRunsAhead, ConfirmedBeforePaid
<1>4. /\ m \in Final => s = m
      /\ m \in Path \ {"pending"} /\ s \in Path => Rank[m] <= Rank[s]
      /\ m \in Path /\ order[o].deposit = NoDeposit => Rank[m] < Rank["btc_observed"]
  <2>1. CASE m = "pending"
    BY <2>1, PathRank DEF Final
  <2>2. CASE m = "reconciling" /\ s = "reconciling"
    BY <2>2, StateFacts
  <2>3. CASE {m, s} \subseteq Path /\ Rank[m] <= Rank[s] /\ s # "absent"
    <3>1. s \in States
      BY <2>3, RowFields
    <3>2. Rank[m] \in Nat /\ Rank[s] \in Nat /\ Rank[s] <= 5 /\ Rank["btc_observed"] \in Nat
      BY <2>3, StateFacts, PathRank
    <3>3. m \in Final => s = m
      BY <2>3, <3>2, StateFacts DEF Final
    <3>4. order[o].deposit = NoDeposit => ~(Rank[s] >= Rank["btc_observed"])
      BY <2>3, <3>1, StateFacts DEF RowsFit
    <3> QED
      BY <2>3, <3>2, <3>3, <3>4
  <2> QED
    BY <2>1, <2>2, <2>3, StateFacts
<1>5. MirrorBehind'
  <2>1. ASSUME NEW p \in Orders
        PROVE  /\ mirror'[p] \in Final => order'[p].state = mirror'[p]
               /\ mirror'[p] \in Path \ {"pending"} /\ order'[p].state \in Path =>
                    Rank[mirror'[p]] <= Rank[order'[p].state]
               /\ mirror'[p] \in Path /\ order'[p].deposit = NoDeposit =>
                    Rank[mirror'[p]] < Rank["btc_observed"]
    <3>1. CASE p = o
      BY <1>1, <1>4, <3>1
    <3>2. CASE p # o
      BY <1>1, <3>2 DEF NothingRunsAhead, MirrorBehind
    <3> QED
      BY <3>1, <3>2
  <2> QED
    BY <2>1 DEF MirrorBehind
<1> QED
  BY <1>2, <1>3, <1>5 DEF NothingRunsAhead

\* What is proved of a single worker.
FitInv == TypeInv /\ RowsFit /\ FramesFit /\ NothingRunsAhead

(* The worker moves, and there is no other.                                 *)
LEMMA FitMoves ==
  ASSUME Alone, TypeInv, NEW w \in Workers, NEW p, NEW f, Goto(w, p), Keep(w, f),
         p # "idle" => FrameFits(p, f, order'[f.order])
  PROVE  FramesFit'
<1>1. pc'[w] = p /\ local'[w] = f /\ \A v \in Workers : v = w
  BY DEF Alone, Goto, Keep, TypeInv, TypeOK
<1> QED
  BY <1>1 DEF FramesFit

LEMMA FitLeaves ==
  ASSUME Alone, TypeInv, NEW w \in Workers, Leave(w)
  PROVE  FramesFit'
BY FitMoves DEF Leave

LEMMA FitReturns ==
  ASSUME Alone, TypeInv, NEW w \in Workers, NEW o, NEW state,
         Goto(w, "sync"),
         Keep(w, Frame(o, state, NoDeposit, NoDeposit, FALSE, NoTx, "absent")),
         order'[o].state = state
  PROVE  FramesFit'
<1> DEFINE f == Frame(o, state, NoDeposit, NoDeposit, FALSE, NoTx, "absent")
<1>1. f.order = o /\ f.state = state
  BY DEF Frame
<1> HIDE DEF f
<1>2. FrameFits("sync", f, order'[f.order])
  BY <1>1 DEF FrameFits
<1>3. Keep(w, f)
  BY DEF f
<1> QED
  BY <1>2, <1>3, FitMoves

(* The row of a worker that is under way.                                   *)
LEMMA FitRow ==
  ASSUME FitInv, NEW w \in Workers, pc[w] # "idle"
  PROVE  /\ local[w].order \in Orders
         /\ FrameFits(pc[w], local[w], order[local[w].order])
         /\ order[local[w].order].state \in States \cup {"absent"}
BY FrameFields, RowFields DEF FitInv, FramesFit

(* The deposit of a row is its own.                                         *)
LEMMA OwnDeposit ==
  ASSUME FitInv, NEW o \in Orders, order[o].state \in Held
  PROVE  order[o].deposit # NoDeposit /\ ~HeldByAnother(o, order[o].deposit)
BY DEF FitInv, RowsFit, HeldByAnother

(* Every action, with one worker.                                           *)
LEMMA AdmitFits ==
  ASSUME Alone, FitInv, NEW w \in Workers, NEW o \in Orders, Admit(w, o)
  PROVE  RowsFit' /\ NothingRunsAhead' /\ FramesFit' /\ FinalKept
<1> DEFINE state == IF order[o].state = "absent" THEN "intent_validated" ELSE order[o].state
<1>1. /\ SetRow(o, state, order[o].deposit, order[o].external)
      /\ UNCHANGED <<mirror, settlement, mempool, chain>>
      /\ pc[w] = "idle"
      /\ \/ /\ Goto(w, "sync")
            /\ Keep(w, Frame(o, state, NoDeposit, NoDeposit, FALSE, NoTx, "absent"))
         \/ UNCHANGED <<pc, local>>
  BY DEF Admit, bait
<1>2. TypeInv /\ RowsFit /\ NothingRunsAhead
  BY DEF FitInv
<1>3. state \in States /\ Legal(order[o].state, state)
  BY <1>2, RowFields, StatusTypes DEF Legal, Open
<1>4. state \in Held => order[o].deposit # NoDeposit
  BY <1>2 DEF RowsFit, Held
<1>5. \A p \in Orders \ {o} : order[p].deposit = order[o].deposit => order[o].deposit = NoDeposit
  BY <1>2 DEF RowsFit
<1> HIDE DEF state
<1>6. RowsFit' /\ NothingRunsAhead' /\ FinalKept /\ order'[o].state = state
  BY <1>1, <1>2, <1>3, <1>4, <1>5, RowChange
<1>7. CASE UNCHANGED <<pc, local>>
  BY <1>1, <1>6, <1>7 DEF FramesFit, Alone
<1> QED
  BY <1>1, <1>2, <1>6, <1>7, FitReturns

(* Steps that write nothing but the worker's memory.                        *)
LEMMA QuietFits ==
  ASSUME FitInv, UNCHANGED <<order, mirror, settlement>>,
         mempool' \cup chain' \subseteq mempool \cup chain
  PROVE  RowsFit' /\ NothingRunsAhead' /\ FinalKept
<1>1. RowsFit' /\ MirrorBehind' /\ FinalKept
  BY DEF FitInv, NothingRunsAhead, RowsFit, MirrorBehind, FinalKept
<1>2. ConfirmedBeforePaid'
  BY DEF FitInv, NothingRunsAhead, ConfirmedBeforePaid
<1> QED
  BY <1>1, <1>2 DEF NothingRunsAhead

LEMMA LoadFits ==
  ASSUME Alone, FitInv, NEW w \in Workers, NEW o \in Orders, Load(w, o)
  PROVE  RowsFit' /\ NothingRunsAhead' /\ FramesFit' /\ FinalKept
<1>1. RowsFit' /\ NothingRunsAhead' /\ FinalKept /\ UNCHANGED order /\ TypeInv
  BY QuietFits DEF Load, db, bait, FitInv
<1>2. CASE order[o].state \in Final
  BY <1>1, <1>2, FitReturns DEF Load
<1>3. CASE order[o].state \notin Final
  <2> DEFINE f == Frame(o, order[o].state, order[o].deposit, NoDeposit, FALSE,
                        order[o].external, "absent")
  <2>1. Goto(w, "find") /\ Keep(w, f)
    BY <1>3 DEF Load
  <2>2. f.order = o /\ f.state = order[o].state /\ f.prior = order[o].deposit
    BY DEF Frame
  <2>3. order[o].state \in Open
    BY <1>1, <1>3, RowFields, StatusTypes DEF Load
  <2> HIDE DEF f
  <2>4. FrameFits("find", f, order'[f.order])
    BY <1>1, <2>2, <2>3 DEF FrameFits
  <2> QED
    BY <1>1, <2>1, <2>4, FitMoves
<1> QED
  BY <1>2, <1>3

LEMMA OnwardStates ==
  ASSUME NEW state \in Open, NEW deep \in BOOLEAN
  PROVE  /\ Onward(state, deep) = "observe" => state = "intent_validated"
         /\ Onward(state, deep) = "confirm" => state = "btc_observed"
         /\ Onward(state, deep) = "submit" => state = "btc_confirmed"
         /\ Onward(state, deep) = "poll" => state = "bait_submitted"
BY DEF Onward, Open

LEMMA DepositFits ==
  ASSUME Alone, FitInv, NEW w \in Workers, FindDeposit(w)
  PROVE  RowsFit' /\ NothingRunsAhead' /\ FramesFit' /\ FinalKept
<1> DEFINE f == local[w]
           row == order[f.order]
<1>1. RowsFit' /\ NothingRunsAhead' /\ FinalKept /\ UNCHANGED order /\ TypeInv
  BY QuietFits DEF FindDeposit, db, bait, FitInv
<1>2. /\ f.order \in Orders /\ f.state \in Open /\ row.state = f.state
      /\ row.deposit = f.prior
  BY FitRow DEF FindDeposit, FrameFits
<1>3. PICK d \in Candidates(f.order) :
        LET deep == deposits[d] = "deep"
            next == IF f.prior \notin {NoDeposit, d} THEN "diverge" ELSE Onward(f.state, deep)
        IN IF next = "sync"
           THEN Return(w, f.state)
           ELSE /\ Goto(w, next)
                /\ Keep(w, Frame(f.order, f.state, NoDeposit, d, deep, f.tx, "absent"))
  BY DEF FindDeposit
<1> DEFINE deep == deposits[d] = "deep"
           next == IF f.prior \notin {NoDeposit, d} THEN "diverge" ELSE Onward(f.state, deep)
           g == Frame(f.order, f.state, NoDeposit, d, deep, f.tx, "absent")
<1>4. d # NoDeposit
  BY SwapAssumption DEF Candidates
<1>5. /\ next \in {"diverge", "observe", "sync", "confirm", "submit", "poll"}
      /\ next = "observe" => f.state = "intent_validated"
      /\ next \in {"confirm", "submit", "poll"} => f.state \in Held /\ f.prior \in {NoDeposit, d}
      /\ next = "confirm" => f.state = "btc_observed"
      /\ next = "submit" => f.state = "btc_confirmed"
      /\ next = "poll" => f.state = "bait_submitted"
  <2>1. deep \in BOOLEAN
    OBVIOUS
  <2> HIDE DEF deep
  <2>2. Onward(f.state, deep) \in {"observe", "sync", "confirm", "submit", "poll"}
    BY <1>2, <2>1, OnwardType
  <2>3. /\ Onward(f.state, deep) = "observe" => f.state = "intent_validated"
        /\ Onward(f.state, deep) = "confirm" => f.state = "btc_observed"
        /\ Onward(f.state, deep) = "submit" => f.state = "btc_confirmed"
        /\ Onward(f.state, deep) = "poll" => f.state = "bait_submitted"
    BY <1>2, <2>1, OnwardStates
  <2> QED
    BY <2>2, <2>3 DEF Held
<1>6. f.state \in Held => row.deposit # NoDeposit
  BY <1>2 DEF FitInv, RowsFit
<1>7. IF next = "sync" THEN Return(w, f.state) ELSE Goto(w, next) /\ Keep(w, g)
  BY <1>3
<1>8. g.order = f.order /\ g.state = f.state /\ g.found = d
  BY DEF Frame
<1> HIDE DEF g, next, f
<1>9. next # "sync" => FrameFits(next, g, order'[g.order])
  BY <1>1, <1>2, <1>4, <1>5, <1>6, <1>8 DEF FrameFits
<1>10. CASE next = "sync"
  BY <1>1, <1>2, <1>7, <1>10, FitReturns DEF Return, f
<1> QED
  BY <1>1, <1>7, <1>9, <1>10, FitMoves

\* What a step of the one worker has to show.
Fits == RowsFit' /\ NothingRunsAhead' /\ FramesFit' /\ FinalKept

LEMMA EarlyFits ==
  ASSUME Alone, FitInv, NEW w \in Workers, FindNothing(w) \/ Diverge(w)
  PROVE  Fits
<1> DEFINE f == local[w]
           o == f.order
<1>1. TypeInv /\ pc[w] # "idle"
  BY DEF FitInv, FindNothing, Diverge
<1>2. /\ o \in Orders /\ order[o].state \in Open /\ order[o].state = f.state
      /\ pc[w] = "diverge" => f.found # NoDeposit
  BY FitRow DEF FindNothing, Diverge, FrameFits
<1>3. CASE FindNothing(w)
  <2>1. RowsFit' /\ NothingRunsAhead' /\ FinalKept /\ UNCHANGED order
    BY <1>3, QuietFits DEF FindNothing, db, bait
  <2>2. FramesFit'
    BY <1>1, <1>2, <1>3, <2>1, FitReturns DEF FindNothing, Return
  <2> QED
    BY <2>1, <2>2 DEF Fits
<1>4. CASE Diverge(w)
  <2>1. /\ SetState(o, "reconciling", f.found) /\ Return(w, "reconciling")
        /\ UNCHANGED <<mirror, settlement, mempool, chain>>
    BY <1>4 DEF Diverge, bait
  <2>2. "reconciling" \in States /\ Legal(order[o].state, "reconciling") /\ "reconciling" \notin Held
    BY <1>2, StatusTypes DEF Legal, Held
  <2>3. f.found # NoDeposit
    BY <1>2, <1>4 DEF Diverge
  <2>4. PICK d : /\ SetRow(o, "reconciling", d, order[o].external)
                 /\ d = order[o].deposit \/ (d = f.found /\ ~HeldByAnother(o, d))
    BY <2>1 DEF SetState
  <2>5. /\ order[o].deposit # NoDeposit => d # NoDeposit
        /\ \A p \in Orders \ {o} : order[p].deposit = d => d = NoDeposit
    BY <1>2, <2>3, <2>4 DEF HeldByAnother, FitInv, RowsFit
  <2> HIDE DEF f, o
  <2>6. RowsFit' /\ NothingRunsAhead' /\ FinalKept /\ order'[o].state = "reconciling"
    BY <1>1, <1>2, <2>1, <2>2, <2>4, <2>5, RowChange DEF FitInv
  <2>7. FramesFit'
    BY <1>1, <2>1, <2>6, FitReturns DEF Return, f, o
  <2> QED
    BY <2>6, <2>7 DEF Fits
<1> QED
  BY <1>3, <1>4

LEMMA ObserveFits ==
  ASSUME Alone, FitInv, NEW w \in Workers, Observe(w)
  PROVE  Fits
<1> DEFINE f == local[w]
           o == f.order
<1>1. TypeInv /\ pc[w] # "idle" /\ f.deep \in BOOLEAN
  BY FrameFields DEF FitInv, Observe
<1>2. o \in Orders /\ order[o].state = "intent_validated" /\ f.found # NoDeposit
  BY FitRow DEF Observe, FrameFits
<1>3. UNCHANGED <<mirror, settlement, mempool, chain>>
  BY DEF Observe, bait
<1>4. CASE HeldByAnother(o, f.found)
  <2>1. SetRow(o, "reconciling", order[o].deposit, order[o].external) /\ Return(w, "reconciling")
    BY <1>4 DEF Observe, SetState
  <2>2. "reconciling" \in States /\ Legal(order[o].state, "reconciling") /\ "reconciling" \notin Held
    BY <1>2, StatusTypes DEF Legal, Held, Open
  <2>3. \A p \in Orders \ {o} : order[p].deposit = order[o].deposit => order[o].deposit = NoDeposit
    BY <1>2 DEF FitInv, RowsFit
  <2> HIDE DEF f, o
  <2>4. RowsFit' /\ NothingRunsAhead' /\ FinalKept /\ order'[o].state = "reconciling"
    BY <1>1, <1>2, <1>3, <2>1, <2>2, <2>3, RowChange DEF FitInv
  <2>5. FramesFit'
    BY <1>1, <2>1, <2>4, FitReturns DEF Return, f, o
  <2> QED
    BY <2>4, <2>5 DEF Fits
<1>5. CASE ~HeldByAnother(o, f.found)
  <2> DEFINE g == Frame(o, "btc_observed", NoDeposit, f.found, TRUE, f.tx, "absent")
  <2>1. /\ SetRow(o, "btc_observed", f.found, order[o].external)
        /\ Return(w, "btc_observed") \/ (Goto(w, "confirm") /\ Keep(w, g))
    BY <1>1, <1>5 DEF Observe, SetState
  <2>2. "btc_observed" \in States /\ Legal(order[o].state, "btc_observed")
    <3>1. "btc_observed" \in States /\ order[o].state \in Open
      BY <1>2, StatusTypes DEF Open
    <3> QED
      BY <1>2, <3>1, PathRank DEF Legal
  <2>3. \A p \in Orders \ {o} : order[p].deposit = f.found => f.found = NoDeposit
    BY <1>5 DEF HeldByAnother
  <2>4. g.order = o /\ g.state = "btc_observed" /\ g.found = f.found
    BY DEF Frame
  <2> HIDE DEF f, o, g
  <2>5. /\ RowsFit' /\ NothingRunsAhead' /\ FinalKept
        /\ order'[o].state = "btc_observed" /\ order'[o].deposit = f.found
    BY <1>1, <1>2, <1>3, <2>1, <2>2, <2>3, RowChange DEF FitInv
  <2>6. CASE Return(w, "btc_observed")
    <3>1. FramesFit'
      BY <1>1, <2>5, <2>6, FitReturns DEF Return, f, o
    <3> QED
      BY <2>5, <3>1 DEF Fits
  <2>7. CASE Goto(w, "confirm") /\ Keep(w, g)
    <3>1. FrameFits("confirm", g, order'[g.order])
      BY <2>4, <2>5 DEF FrameFits
    <3>2. FramesFit'
      BY <1>1, <2>7, <3>1, FitMoves
    <3> QED
      BY <2>5, <3>2 DEF Fits
  <2> QED
    BY <2>1, <2>6, <2>7
<1> QED
  BY <1>4, <1>5

(* The deposit of a row that is confirmed or submitted cannot be another's. *)
LEMMA ConfirmFits ==
  ASSUME Alone, FitInv, NEW w \in Workers, Confirm(w)
  PROVE  Fits
<1> DEFINE f == local[w]
           o == f.order
           g == Frame(o, "btc_confirmed", NoDeposit, f.found, TRUE, f.tx, "absent")
<1>1. TypeInv /\ pc[w] # "idle"
  BY DEF FitInv, Confirm
<1>2. o \in Orders /\ order[o].state = "btc_observed" /\ order[o].deposit = f.found
  BY FitRow DEF Confirm, FrameFits
<1>3. f.found # NoDeposit /\ ~HeldByAnother(o, f.found)
  BY <1>2, OwnDeposit DEF Held
<1>4. /\ SetRow(o, "btc_confirmed", f.found, order[o].external)
      /\ Goto(w, "submit") /\ Keep(w, g)
      /\ UNCHANGED <<mirror, settlement, mempool, chain>>
  BY <1>3 DEF Confirm, SetState, bait
<1>5. "btc_confirmed" \in States /\ Legal(order[o].state, "btc_confirmed")
  <2>1. "btc_confirmed" \in States /\ order[o].state \in Open
    BY <1>2, StatusTypes DEF Open
  <2> QED
    BY <1>2, <2>1, PathRank DEF Legal
<1>6. \A p \in Orders \ {o} : order[p].deposit = f.found => f.found = NoDeposit
  BY <1>3 DEF HeldByAnother
<1>7. g.order = o /\ g.found = f.found
  BY DEF Frame
<1> HIDE DEF f, o, g
<1>8. /\ RowsFit' /\ NothingRunsAhead' /\ FinalKept
      /\ order'[o].state = "btc_confirmed" /\ order'[o].deposit = f.found
  BY <1>1, <1>2, <1>3, <1>4, <1>5, <1>6, RowChange DEF FitInv
<1>9. FrameFits("submit", g, order'[g.order])
  BY <1>7, <1>8 DEF FrameFits
<1>10. FramesFit'
  BY <1>1, <1>4, <1>9, FitMoves
<1> QED
  BY <1>8, <1>10 DEF Fits

LEMMA MarkFits ==
  ASSUME Alone, FitInv, NEW w \in Workers, MarkSubmitted(w)
  PROVE  Fits
<1> DEFINE f == local[w]
           o == f.order
           g == WithTx(f, f.tx)
<1>1. TypeInv /\ pc[w] # "idle"
  BY DEF FitInv, MarkSubmitted
<1>2. o \in Orders /\ order[o].state = "btc_confirmed" /\ order[o].deposit = f.found
  BY FitRow DEF MarkSubmitted, FrameFits
<1>3. f.found # NoDeposit /\ ~HeldByAnother(o, f.found)
  BY <1>2, OwnDeposit DEF Held
<1>4. /\ SetRow(o, "bait_submitted", f.found, f.tx)
      /\ Goto(w, "poll") /\ Keep(w, g)
      /\ UNCHANGED <<mirror, settlement, mempool, chain>>
  BY <1>3 DEF MarkSubmitted, bait
<1>5. "bait_submitted" \in States /\ Legal(order[o].state, "bait_submitted")
  <2>1. "bait_submitted" \in States /\ order[o].state \in Open
    BY <1>2, StatusTypes DEF Open
  <2> QED
    BY <1>2, <2>1, PathRank DEF Legal
<1>6. \A p \in Orders \ {o} : order[p].deposit = f.found => f.found = NoDeposit
  BY <1>3 DEF HeldByAnother
<1>7. g.order = o /\ g.found = f.found
  BY DEF Frame, WithTx
<1> HIDE DEF g
<1>8. /\ RowsFit' /\ NothingRunsAhead' /\ FinalKept
      /\ order'[o].state = "bait_submitted" /\ order'[o].deposit = f.found
  BY <1>1, <1>2, <1>3, <1>4, <1>5, <1>6, RowChange DEF FitInv
<1>9. FrameFits("poll", g, order'[g.order])
  BY <1>7, <1>8 DEF FrameFits
<1>10. FramesFit'
  BY <1>1, <1>4, <1>9, FitMoves
<1> QED
  BY <1>8, <1>10 DEF Fits

LEMMA CloseFits ==
  ASSUME Alone, FitInv, NEW w \in Workers, Settle(w) \/ Lose(w)
  PROVE  Fits
<1> DEFINE o == local[w].order
<1>1. PICK state \in Final : Close(w, state)
  BY DEF Settle, Lose, Final
<1>2. TypeInv /\ pc[w] # "idle"
  BY DEF FitInv, Settle, Lose
<1>3. o \in Orders /\ order[o].state = "bait_submitted"
  BY FitRow DEF Settle, Lose, FrameFits
<1>4. order[o].deposit # NoDeposit /\ ~HeldByAnother(o, order[o].deposit)
  BY <1>3, OwnDeposit DEF Held
<1>5. /\ SetRow(o, state, order[o].deposit, order[o].external) /\ Return(w, state)
      /\ UNCHANGED <<mirror, settlement, mempool, chain>>
  BY <1>1 DEF Close, bait
<1>6. state \in States /\ Legal(order[o].state, state)
  <2>1. state \in States /\ order[o].state \in Open
    BY <1>3, StatusTypes DEF Open, Final
  <2> QED
    BY <1>3, <2>1, PathRank DEF Legal, Final
<1>7. \A p \in Orders \ {o} : order[p].deposit = order[o].deposit => order[o].deposit = NoDeposit
  BY <1>4 DEF HeldByAnother
<1> HIDE DEF o
<1>8. RowsFit' /\ NothingRunsAhead' /\ FinalKept /\ order'[o].state = state
  BY <1>2, <1>3, <1>4, <1>5, <1>6, <1>7, RowChange DEF FitInv
<1>9. FramesFit'
  BY <1>2, <1>5, <1>8, FitReturns DEF Return, o
<1> QED
  BY <1>8, <1>9 DEF Fits

(* The payment is made and recorded while the row says btc_confirmed.       *)
LEMMA PaymentFits ==
  ASSUME Alone, FitInv, NEW w \in Workers, SubmitTx(w) \/ RecordSubmission(w)
  PROVE  Fits
<1> DEFINE f == local[w]
           o == f.order
<1>1. TypeInv /\ pc[w] # "idle" /\ NothingRunsAhead /\ RowsFit
  BY DEF FitInv, SubmitTx, RecordSubmission
<1>2. o \in Orders /\ order[o].state = "btc_confirmed" /\ order[o].deposit = f.found
  BY FitRow DEF SubmitTx, RecordSubmission, FrameFits
<1>3. ASSUME UNCHANGED <<order, mirror>>,
             \A p \in Orders \ {o} :
               (settlement'[p] # NoTx \/ \E t \in mempool' \cup chain' : t.order = p) =>
                 (settlement[p] # NoTx \/ \E t \in mempool \cup chain : t.order = p)
      PROVE  RowsFit' /\ NothingRunsAhead' /\ FinalKept
  <2>1. RowsFit' /\ MirrorBehind' /\ FinalKept
    BY <1>1, <1>3 DEF NothingRunsAhead, RowsFit, MirrorBehind, FinalKept
  <2>2. ASSUME NEW p \in Orders,
               settlement'[p] # NoTx \/ \E t \in mempool' \cup chain' : t.order = p
        PROVE  order'[p].state \in {"btc_confirmed", "bait_submitted"} \cup Final
    <3>1. CASE p = o
      BY <1>2, <1>3, <3>1
    <3>2. CASE p # o
      <4>1. settlement[p] # NoTx \/ \E t \in mempool \cup chain : t.order = p
        BY <1>3, <2>2, <3>2
      <4> QED
        BY <1>1, <1>3, <4>1 DEF NothingRunsAhead, ConfirmedBeforePaid
    <3> QED
      BY <3>1, <3>2
  <2> QED
    BY <2>1, <2>2 DEF NothingRunsAhead, ConfirmedBeforePaid
<1>4. CASE SubmitTx(w)
  <2>1. PICK tx : mempool' = mempool \cup {tx} /\ tx.order = o
    BY <1>4 DEF SubmitTx
  <2>2. UNCHANGED <<order, mirror, settlement, chain>> /\ Goto(w, "insert") /\ Keep(w, f)
    BY <1>1, <1>4 DEF SubmitTx, db, Keep, TypeInv, TypeOK
  <2>3. RowsFit' /\ NothingRunsAhead' /\ FinalKept
    BY <1>3, <2>1, <2>2
  <2>4. FrameFits("insert", f, order'[f.order])
    BY <1>2, <2>2 DEF FrameFits
  <2>5. FramesFit'
    BY <1>1, <2>2, <2>4, FitMoves
  <2> QED
    BY <2>3, <2>5 DEF Fits
<1>5. CASE RecordSubmission(w)
  <2> DEFINE g == WithTx(f, inflight)
  <2>1. /\ settlement' = [settlement EXCEPT ![o] = inflight]
        /\ UNCHANGED <<order, mirror, mempool, chain>>
        /\ Goto(w, "submitted") /\ Keep(w, g)
    BY <1>5 DEF RecordSubmission, bait
  <2>2. \A p \in Orders \ {o} : settlement'[p] = settlement[p]
    BY <1>1, <2>1 DEF TypeInv, TypeOK
  <2>3. RowsFit' /\ NothingRunsAhead' /\ FinalKept
    BY <1>3, <2>1, <2>2
  <2>4. g.order = o /\ g.found = f.found
    BY DEF WithTx, Frame
  <2> HIDE DEF g
  <2>5. FrameFits("submitted", g, order'[g.order])
    BY <1>2, <2>1, <2>4 DEF FrameFits
  <2>6. FramesFit'
    BY <1>1, <2>1, <2>5, FitMoves
  <2> QED
    BY <2>3, <2>6 DEF Fits
<1> QED
  BY <1>4, <1>5

(* Steps that look at the adapter or at the chain.                          *)
LEMMA LookFits ==
  ASSUME Alone, FitInv, NEW w \in Workers,
         \/ SubmitAgain(w) \/ SubmitRefused(w) \/ RecordFails(w)
         \/ PollChain(w) \/ PollMempool(w) \/ PollAgain(w)
         \/ SyncNothing(w) \/ SyncStart(w) \/ SetStatusRefused(w)
  PROVE  Fits
<1> DEFINE f == local[w]
           o == f.order
<1>1. TypeInv /\ pc[w] # "idle"
  BY DEF FitInv, SubmitAgain, SubmitRefused, RecordFails, PollChain, PollMempool, PollAgain,
     SyncNothing, SyncStart, SetStatusRefused
<1>2. o \in Orders /\ FrameFits(pc[w], f, order[o])
  BY <1>1, FitRow
<1>3. RowsFit' /\ NothingRunsAhead' /\ FinalKept /\ UNCHANGED order
  <2>1. UNCHANGED <<order, mirror, settlement, mempool, chain>>
    BY DEF SubmitAgain, SubmitRefused, RecordFails, PollChain, PollMempool, PollAgain,
       SyncNothing, SyncStart, SetStatusRefused, db, bait
  <2> QED
    BY <2>1, QuietFits
<1>4. CASE SubmitRefused(w) \/ RecordFails(w) \/ SyncNothing(w) \/ SetStatusRefused(w)
  <2>1. FramesFit'
    BY <1>1, <1>4, FitLeaves DEF SubmitRefused, RecordFails, SyncNothing, SetStatusRefused
  <2> QED
    BY <1>3, <2>1 DEF Fits
<1>5. CASE SubmitAgain(w)
  <2> DEFINE g == WithTx(f, settlement[o])
  <2>1. Goto(w, "submitted") /\ Keep(w, g) /\ pc[w] = "submit"
    BY <1>5 DEF SubmitAgain
  <2>2. g.order = o /\ g.found = f.found
    BY DEF WithTx, Frame
  <2> HIDE DEF g
  <2>3. FrameFits("submitted", g, order'[g.order])
    BY <1>2, <1>3, <2>1, <2>2 DEF FrameFits
  <2>4. FramesFit'
    BY <1>1, <2>1, <2>3, FitMoves
  <2> QED
    BY <1>3, <2>4 DEF Fits
<1>6. CASE PollChain(w) \/ PollMempool(w) \/ PollAgain(w)
  <2>1. order'[o].state = "bait_submitted" /\ order'[o].deposit = f.found
    BY <1>2, <1>3, <1>6 DEF FrameFits, PollChain, PollMempool, PollAgain
  <2>2. \/ Return(w, "bait_submitted")
        \/ \E p \in {"settle", "pool", "again", "lost"} : Goto(w, p) /\ UNCHANGED local
    BY <1>6 DEF PollChain, PollMempool, PollAgain
  <2>3. CASE Return(w, "bait_submitted")
    <3>1. FramesFit'
      BY <1>1, <2>1, <2>3, FitReturns DEF Return
    <3> QED
      BY <1>3, <3>1 DEF Fits
  <2>4. ASSUME NEW p \in {"settle", "pool", "again", "lost"}, Goto(w, p), UNCHANGED local
        PROVE  Fits
    <3>1. Keep(w, f)
      BY <1>1, <2>4 DEF Keep, TypeInv, TypeOK
    <3>2. FrameFits(p, f, order'[f.order])
      BY <2>1 DEF FrameFits
    <3>3. FramesFit'
      BY <1>1, <2>4, <3>1, <3>2, FitMoves
    <3> QED
      BY <1>3, <3>3 DEF Fits
  <2> QED
    BY <2>2, <2>3, <2>4
<1>7. CASE SyncStart(w)
  <2>1. PICK mark :
          /\ Goto(w, "mirror")
          /\ Keep(w, Frame(o, f.state, NoDeposit, NoDeposit, FALSE, NoTx, mark))
          /\ pc[w] = "sync"
    BY <1>7 DEF SyncStart
  <2> DEFINE g == Frame(o, f.state, NoDeposit, NoDeposit, FALSE, NoTx, mark)
  <2>2. g.order = o /\ g.state = f.state
    BY DEF Frame
  <2>3. Keep(w, g)
    BY <2>1
  <2> HIDE DEF g
  <2>4. FrameFits("mirror", g, order'[g.order])
    BY <1>2, <1>3, <2>1, <2>2 DEF FrameFits
  <2>5. FramesFit'
    BY <1>1, <2>1, <2>3, <2>4, FitMoves
  <2> QED
    BY <1>3, <2>5 DEF Fits
<1> QED
  BY <1>4, <1>5, <1>6, <1>7

(* One more call of set_status on the way to the state the row has.         *)
LEMMA SetStatusFits ==
  ASSUME Alone, FitInv, NEW w \in Workers, SetStatus(w)
  PROVE  Fits
<1> DEFINE f == local[w]
           o == f.order
           g == Frame(o, f.state, NoDeposit, NoDeposit, FALSE, NoTx, After(f.mark))
<1>1. TypeInv /\ RowsFit /\ NothingRunsAhead /\ pc[w] = "mirror"
  BY DEF FitInv, SetStatus
<1>2. o \in Orders /\ order[o].state = f.state
  BY <1>1, FitRow DEF FrameFits
<1>3. /\ mirror' = [mirror EXCEPT ![o] = f.mark]
      /\ UNCHANGED <<order, settlement, mempool, chain>>
      /\ Leave(w) \/ (Keep(w, g) /\ UNCHANGED pc)
  BY DEF SetStatus, bait
<1>4. \/ f.mark = "reconciling" /\ f.state = "reconciling"
      \/ {f.mark, f.state} \subseteq Path /\ Rank[f.mark] <= Rank[f.state]
  BY <1>1 DEF TypeInv, WorkersGood, FrameGood
<1>5. order[o].state # "absent"
  BY <1>2, <1>4, StateFacts
<1>6. g.order = o /\ g.state = f.state
  BY DEF Frame
<1> HIDE DEF g
<1>7. RowsFit' /\ NothingRunsAhead'
  BY <1>1, <1>2, <1>3, <1>4, <1>5, MirrorChange
<1>8. FinalKept
  BY <1>3 DEF FinalKept
<1>9. FramesFit'
  <2>1. FrameFits("mirror", g, order'[g.order])
    BY <1>2, <1>3, <1>6 DEF FrameFits
  <2>2. UNCHANGED pc => Goto(w, "mirror")
    BY <1>1 DEF Goto, TypeInv, TypeOK
  <2> QED
    BY <1>1, <1>3, <2>1, <2>2, FitMoves, FitLeaves
<1> QED
  BY <1>7, <1>8, <1>9 DEF Fits

(* Every step.                                                              *)
LEMMA FitStep ==
  ASSUME Alone, FitInv, [Next]_vars
  PROVE  Fits
<1>1. ASSUME NEW w \in Workers, Step(w) PROVE Fits
  <2>1. ASSUME NEW o \in Orders, Admit(w, o) \/ Load(w, o) PROVE Fits
    BY <2>1, AdmitFits, LoadFits DEF Fits
  <2>2. CASE FindDeposit(w)
    BY <2>2, DepositFits DEF Fits
  <2> QED
    BY <1>1, <2>1, <2>2, EarlyFits, ObserveFits, ConfirmFits, PaymentFits, MarkFits, CloseFits,
       LookFits, SetStatusFits DEF Step
<1>2. ASSUME UNCHANGED <<order, mirror, settlement, pc, local>>,
             mempool' \cup chain' \subseteq mempool \cup chain
      PROVE  Fits
  BY <1>2, QuietFits DEF Fits, FitInv, FramesFit
<1>3. CASE (\E d \in Outpoints : Bitcoin(d)) \/ MineBlock \/ PersistBlock \/ UNCHANGED vars
  BY <1>2, <1>3 DEF Bitcoin, MineBlock, PersistBlock, vars, db, bait
<1>4. ASSUME NEW o \in Orders, Publish(o) PROVE Fits
  <2>1. RowsFit' /\ NothingRunsAhead'
    BY <1>4, MirrorChange DEF Publish, bait, FitInv
  <2> QED
    BY <1>4, <2>1 DEF Publish, Fits, FitInv, FramesFit, FinalKept
<1>5. CASE Crash
  <2>1. mempool' \cup chain' \subseteq mempool \cup chain
    BY <1>5 DEF Crash, FitInv, TypeInv, TypeOK
  <2>2. RowsFit' /\ NothingRunsAhead' /\ FinalKept
    BY <1>5, <2>1, QuietFits DEF Crash, db
  <2>3. FramesFit'
    BY <1>5 DEF Crash, FramesFit
  <2> QED
    BY <2>2, <2>3 DEF Fits
<1> QED
  BY <1>1, <1>3, <1>4, <1>5 DEF Next

LEMMA FitHolds == ASSUME Alone PROVE Spec => []FitInv
<1>1. Init => FitInv
  <2> SUFFICES ASSUME Init PROVE RowsFit /\ FramesFit /\ NothingRunsAhead
    BY TypeStart DEF FitInv
  <2>1. \A o \in Orders : /\ order[o].state = "absent" /\ order[o].deposit = NoDeposit
                          /\ mirror[o] = "absent" /\ settlement[o] = NoTx
    BY DEF Init
  <2>2. RowsFit
    BY <2>1 DEF RowsFit, Held
  <2>3. FramesFit
    BY DEF Init, FramesFit
  <2>4. MirrorBehind
    BY <2>1, StateFacts DEF MirrorBehind, Final
  <2>5. ConfirmedBeforePaid
    BY <2>1 DEF Init, ConfirmedBeforePaid
  <2> QED
    BY <2>2, <2>3, <2>4, <2>5 DEF NothingRunsAhead
<1>2. FitInv /\ [Next]_vars => FitInv'
  BY FitStep, TypeStep DEF FitInv, Fits
<1> QED
  BY <1>1, <1>2, PTL DEF Spec

(* With one worker, whatever crashes and failed INSERTs come between: the   *)
(* mirror never says more than the row, and no payment leaves before the    *)
(* row says btc_confirmed (swap_executor.py:291-306, swap_service.py).      *)
THEOREM NothingAheadCorrect ==
  ASSUME Alone
  PROVE  Spec => []NothingRunsAhead
<1>1. FitInv => NothingRunsAhead
  BY DEF FitInv
<1> QED
  BY <1>1, FitHolds, PTL

(* ... and an order that is settled or handed to reconciliation stays so.   *)
THEOREM FinalCorrect ==
  ASSUME Alone
  PROVE  Spec => FinalIsFinal
<1>1. FitInv /\ [Next]_vars =>
        [\A o \in Orders : order[o].state \in Final => order'[o].state = order[o].state]_vars
  BY FitStep DEF Fits, FinalKept
<1> QED
  BY <1>1, FitHolds, PTL DEF Spec, FinalIsFinal
=============================================================================
