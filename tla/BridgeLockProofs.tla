-------------------------- MODULE BridgeLockProofs --------------------------
(***************************************************************************)
(* Proofs about BridgeLock for every set of accounts, requests, operators  *)
(* and L1 transactions and every value of the numeric constants.           *)
(***************************************************************************)
EXTENDS BridgeRefinement, BridgeDailyCap, SumTheorems, TLAPS

-----------------------------------------------------------------------------
(* Type correctness *)

(* The constructors establish the types.                                    *)
LEMMA InitType == Init => TypeOK
<1> SUFFICES ASSUME Init PROVE TypeOK
  OBVIOUS
<1>1. WBAITTypeOK
  <2>1. WBAITInit
    BY DEF Init
  <2>2. balanceOf \in [Accounts -> Nat] /\ allowance \in [Accounts -> Nat]
    BY <2>1 DEF WBAITInit
  <2>3. totalSupply \in Int
    BY <2>1 DEF WBAITInit
  <2>5. wbaitPaused \in BOOLEAN
    BY <2>1, Zenon DEF WBAITInit
  <2>4. bridgeLock \in {ZeroAddress, Bridge}
    BY <2>1 DEF WBAITInit
  <2> QED
    BY <2>2, <2>3, <2>4, <2>5 DEF WBAITTypeOK
<1>2. now \in Nat /\ operators \in [1..NUM_OPERATORS -> OperatorAddrs]
  BY BridgeLockAssumption DEF Init, BridgeLockAssumption
<1>3. isOperator \in SUBSET OperatorAddrs
  BY <1>2 DEF Init
<1>4. lockRequests \in [RequestIds -> LockRequest]
  BY DEF Init, LockRequest, EmptyLockRequest
<1>5. burnReleases \in Seq(BurnRelease)
  BY DEF Init
<1>6. pendingOperatorUpdate \in [index : 1..NUM_OPERATORS,
                                 newOperator : OperatorAddrs \cup {ZeroAddress},
                                 proposedAt : Nat, active : BOOLEAN]
  BY BridgeLockAssumption DEF Init, NoOperatorUpdate, BridgeLockAssumption
<1> QED
  BY <1>1, <1>2, <1>3, <1>4, <1>5, <1>6 DEF Init, TypeOK

(* The token's own types survive _update, for any two addresses.            *)
LEMMA UpdateType ==
  ASSUME WBAITTypeOK, NEW from, NEW to, NEW value \in Nat, Update(from, to, value)
  PROVE  balanceOf' \in [Accounts -> Nat] /\ totalSupply' \in Int
<1>1. \A a \in Accounts : balanceOf[a] - (IF a = from THEN value ELSE 0)
                            + (IF a = to THEN value ELSE 0) \in Nat
  BY DEF Update, WBAITTypeOK
<1> QED
  BY <1>1 DEF Update, WBAITTypeOK

(* ... and an allowance that is spent stays a natural number.               *)
LEMMA SpendType ==
  ASSUME WBAITTypeOK, NEW owner \in Accounts, NEW value \in Nat,
         SpendAllowance(owner, value)
  PROVE  allowance' \in [Accounts -> Nat]
  BY DEF SpendAllowance, WBAITTypeOK

(* Confirming keeps a request a request and a release a release.            *)
LEMMA ConfirmationType ==
  ASSUME NEW caller \in OperatorAddrs
  PROVE  /\ \A r \in LockRequest : WithConfirmation(r, caller) \in LockRequest
         /\ \A r \in BurnRelease : WithConfirmation(r, caller) \in BurnRelease
<1>1. ASSUME NEW r \in LockRequest
      PROVE  WithConfirmation(r, caller) \in LockRequest
  <2> DEFINE r1 == [r EXCEPT !.confirmed = @ \cup {caller}]
             r2 == [r1 EXCEPT !.confirmations = @ + 1]
             r3 == [r2 EXCEPT !.executed = ReachesQuorum(r)]
  <2>1. r1 \in LockRequest
    BY DEF LockRequest
  <2>2. \A s \in LockRequest : [s EXCEPT !.confirmations = @ + 1] \in LockRequest
    BY DEF LockRequest
  <2>3. \A s \in LockRequest, q \in BOOLEAN : [s EXCEPT !.executed = q] \in LockRequest
    BY DEF LockRequest
  <2>4. ReachesQuorum(r) \in BOOLEAN
    BY DEF ReachesQuorum
  <2>5. WithConfirmation(r, caller) = r3
    BY DEF WithConfirmation, LockRequest
  <2> HIDE DEF r1
  <2>6. r2 \in LockRequest
    BY <2>1, <2>2
  <2> HIDE DEF r2
  <2>7. r3 \in LockRequest
    BY <2>3, <2>4, <2>6
  <2> QED
    BY <2>5, <2>7
<1>2. ASSUME NEW r \in BurnRelease
      PROVE  WithConfirmation(r, caller) \in BurnRelease
  <2> DEFINE r1 == [r EXCEPT !.confirmed = @ \cup {caller}]
             r2 == [r1 EXCEPT !.confirmations = @ + 1]
             r3 == [r2 EXCEPT !.executed = ReachesQuorum(r)]
  <2>1. r1 \in BurnRelease
    BY DEF BurnRelease
  <2>2. \A s \in BurnRelease : [s EXCEPT !.confirmations = @ + 1] \in BurnRelease
    BY DEF BurnRelease
  <2>3. \A s \in BurnRelease, q \in BOOLEAN : [s EXCEPT !.executed = q] \in BurnRelease
    BY DEF BurnRelease
  <2>4. ReachesQuorum(r) \in BOOLEAN
    BY DEF ReachesQuorum
  <2>5. WithConfirmation(r, caller) = r3
    BY DEF WithConfirmation, BurnRelease
  <2> HIDE DEF r1
  <2>6. r2 \in BurnRelease
    BY <2>1, <2>2
  <2> HIDE DEF r2
  <2>7. r3 \in BurnRelease
    BY <2>3, <2>4, <2>6
  <2> QED
    BY <2>5, <2>7
<1> QED
  BY <1>1, <1>2

(* Both floor subtractions return natural numbers.                          *)
LEMMA FloorType ==
  ASSUME NEW total \in Nat, NEW amount \in Nat
  PROVE  FloorSubtract(total, amount) \in Nat
  BY DEF FloorSubtract

(* The clock's day is a natural number.                                     *)
LEMMA DayType == ASSUME TypeOK PROVE currentDay \in Nat
<1>1. DayLength \in Nat /\ DayLength > 0 /\ now \in Nat
  BY BridgeLockAssumption DEF BridgeLockAssumption, TypeOK
<1> QED
  BY <1>1 DEF currentDay

(* requestLockMint.                                                         *)
LEMMA RequestType ==
  ASSUME TypeOK, NEW caller \in OperatorAddrs, NEW id \in RequestIds,
         NEW tx \in L1TxIds \cup {ZeroTx}, NEW to \in Accounts \cup {ZeroAddress},
         NEW amount \in Nat, RequestLockMint(caller, id, tx, to, amount)
  PROVE  TypeOK'
<1>1. to \in Accounts /\ tx \in L1TxIds
  BY DEF RequestLockMint, FreshTx
<1>2. Today(dailyMinted, to) \in Nat /\ Today(dailyReserved, to) \in Nat
  BY <1>1 DEF Today, TypeOK
<1>3. totalLockedOnL1' \in Nat
  BY DEF RequestLockMint, TypeOK
<1>4. dailyMinted' \in [Accounts -> Nat] /\ dailyReserved' \in [Accounts -> Nat]
  BY <1>1, <1>2 DEF RequestLockMint, TypeOK
<1>5. lastMintDay' \in [Accounts -> Nat]
  BY <1>1, DayType DEF RequestLockMint, TypeOK
<1>6. consumedL1TxIds' \in SUBSET L1TxIds
  BY <1>1 DEF RequestLockMint, TypeOK
<1>7. lockRequests' \in [RequestIds -> LockRequest]
  <2> DEFINE r  == lockRequests[id]
             r1 == [r EXCEPT !.l1TxId = tx]
             r2 == [r1 EXCEPT !.recipient = to]
             r3 == [r2 EXCEPT !.amount = amount]
  <2>1. r \in LockRequest
    BY DEF TypeOK
  <2>2. \A q \in LockRequest : [q EXCEPT !.l1TxId = tx] \in LockRequest
    BY DEF LockRequest
  <2>3. \A q \in LockRequest : [q EXCEPT !.recipient = to] \in LockRequest
    BY DEF LockRequest
  <2>4. \A q \in LockRequest : [q EXCEPT !.amount = amount] \in LockRequest
    BY DEF LockRequest
  <2>5. lockRequests' = [lockRequests EXCEPT ![id] = r3]
    BY DEF RequestLockMint, TypeOK
  <2> HIDE DEF r
  <2>6. r1 \in LockRequest
    BY <2>1, <2>2
  <2> HIDE DEF r1
  <2>7. r2 \in LockRequest
    BY <2>3, <2>6
  <2> HIDE DEF r2
  <2>8. r3 \in LockRequest
    BY <2>4, <2>7
  <2> HIDE DEF r3
  <2> QED
    BY <2>5, <2>8 DEF TypeOK
<1> QED
  BY <1>3, <1>4, <1>5, <1>6, <1>7
     DEF RequestLockMint, TypeOK, WBAITTypeOK, wbaitVars, operatorVars

(* A mint keeps the token's types.                                          *)
LEMMA MintType ==
  ASSUME WBAITTypeOK, NEW to, NEW amount \in Nat, Mint(Bridge, to, amount)
  PROVE  WBAITTypeOK'
  BY UpdateType DEF Mint, WBAITTypeOK

(* ... and so does the burn of initiateBurnRelease.                         *)
LEMMA BurnFromType ==
  ASSUME WBAITTypeOK, NEW owner \in Accounts, NEW amount \in Nat,
         BurnFrom(owner, amount)
  PROVE  WBAITTypeOK'
  BY UpdateType, SpendType DEF BurnFrom, WBAITTypeOK

(* _executeLockMint: its checked subtraction is what keeps dailyReserved a  *)
(* natural number.                                                          *)
LEMMA ExecuteType ==
  ASSUME TypeOK, NEW req \in LockRequest, ExecuteLockMint(req)
  PROVE  /\ totalMinted' \in Nat
         /\ dailyMinted' \in [Accounts -> Nat]
         /\ dailyReserved' \in [Accounts -> Nat]
         /\ WBAITTypeOK'
<1>1. req.amount \in Nat
  BY DEF LockRequest
<1>2. WBAITTypeOK'
  BY <1>1, MintType DEF ExecuteLockMint, TypeOK
<1>3. totalMinted' \in Nat
  BY <1>1 DEF ExecuteLockMint, TypeOK
<1> DEFINE amount == req.amount
           to     == req.recipient
<1>4. /\ dailyMinted' = [dailyMinted EXCEPT ![to] = @ + amount]
      /\ dailyReserved' = [dailyReserved EXCEPT ![to] = @ - amount]
      /\ dailyReserved[to] >= amount
      /\ amount \in Nat
  BY <1>1 DEF ExecuteLockMint
<1> HIDE DEF amount, to
<1>5. CASE to \in Accounts
  BY <1>2, <1>3, <1>4, <1>5 DEF TypeOK
<1>6. CASE to \notin Accounts
  <2>1. dailyMinted' = dailyMinted /\ dailyReserved' = dailyReserved
    BY <1>4, <1>6 DEF TypeOK
  <2> QED
    BY <1>2, <1>3, <2>1 DEF TypeOK
<1> QED
  BY <1>5, <1>6

(* confirmLockMint, with the mint of its last confirmation.                 *)
LEMMA ConfirmMintType ==
  ASSUME TypeOK, NEW caller \in OperatorAddrs, NEW id \in RequestIds,
         ConfirmLockMint(caller, id)
  PROVE  TypeOK'
<1> DEFINE req == lockRequests[id]
<1>1. req \in LockRequest
  BY DEF TypeOK
<1>2. lockRequests' \in [RequestIds -> LockRequest]
  BY <1>1, ConfirmationType DEF ConfirmLockMint, TypeOK
<1>3. /\ totalMinted' \in Nat
      /\ dailyMinted' \in [Accounts -> Nat]
      /\ dailyReserved' \in [Accounts -> Nat]
      /\ WBAITTypeOK'
  <2>1. CASE ExecuteLockMint(req)
    BY <1>1, <2>1, ExecuteType
  <2>2. CASE UNCHANGED <<totalMinted, dailyMinted, dailyReserved, wbaitVars>>
    BY <2>2 DEF TypeOK, WBAITTypeOK, wbaitVars
  <2> QED
    BY <2>1, <2>2 DEF ConfirmLockMint
<1> QED
  BY <1>2, <1>3 DEF ConfirmLockMint, TypeOK, operatorVars

(* initiateBurnRelease.                                                     *)
LEMMA BurnReleaseType ==
  ASSUME TypeOK, NEW caller \in Accounts, NEW amount \in Nat,
         InitiateBurnRelease(caller, amount)
  PROVE  TypeOK'
<1>1. WBAITTypeOK'
  BY BurnFromType DEF InitiateBurnRelease, TypeOK
<1>2. totalMinted' \in Nat
  BY FloorType DEF InitiateBurnRelease, TypeOK
<1>3. burnReleases' \in Seq(BurnRelease)
  <2> DEFINE rel == [burner |-> caller, amount |-> amount, confirmed |-> {},
                     confirmations |-> 0, executed |-> FALSE]
  <2>1. rel \in BurnRelease
    BY DEF BurnRelease
  <2>2. burnReleases' = Append(burnReleases, rel)
    BY DEF InitiateBurnRelease
  <2> HIDE DEF rel
  <2> QED
    BY <2>1, <2>2 DEF TypeOK
<1> QED
  BY <1>1, <1>2, <1>3 DEF InitiateBurnRelease, TypeOK, operatorVars, lockVars, dailyVars

(* confirmBurnRelease, with the release of its last confirmation.           *)
LEMMA ConfirmReleaseType ==
  ASSUME TypeOK, NEW caller \in OperatorAddrs, NEW i \in DOMAIN burnReleases,
         ConfirmBurnRelease(caller, i)
  PROVE  TypeOK'
<1> DEFINE rel == burnReleases[i]
<1>1. rel \in BurnRelease
  BY DEF TypeOK
<1>2. rel.amount \in Nat
  BY <1>1 DEF BurnRelease
<1>3. totalLockedOnL1' \in Nat
  BY <1>2, FloorType DEF ConfirmBurnRelease, TypeOK
<1>4. burnReleases' \in Seq(BurnRelease)
  <2>1. WithConfirmation(rel, caller) \in BurnRelease
    BY <1>1, ConfirmationType
  <2>2. burnReleases' = [burnReleases EXCEPT ![i] = WithConfirmation(rel, caller)]
    BY DEF ConfirmBurnRelease
  <2> HIDE DEF rel
  <2> QED
    BY <2>1, <2>2 DEF TypeOK
<1> QED
  BY <1>3, <1>4
     DEF ConfirmBurnRelease, TypeOK, WBAITTypeOK, operatorVars, lockVars, dailyVars,
         wbaitVars

(* Calls that go to the token alone.                                        *)
LEMMA TokenType ==
  ASSUME TypeOK, WBAITNext, UNCHANGED bridgeVars
  PROVE  TypeOK'
<1>1. WBAITTypeOK'
  <2> USE DEF TypeOK
  <2>1. ASSUME NEW owner \in Accounts, NEW amount \in Nat, Burn(owner, amount)
        PROVE  WBAITTypeOK'
    BY <2>1, UpdateType DEF Burn, WBAITTypeOK
  <2>2. ASSUME NEW owner \in Accounts, NEW amount \in Nat, Approve(owner, amount)
        PROVE  WBAITTypeOK'
    BY <2>2 DEF Approve, WBAITTypeOK
  <2>3. ASSUME NEW owner \in Accounts, NEW to \in Accounts, NEW amount \in Nat,
               Transfer(owner, to, amount)
        PROVE  WBAITTypeOK'
    BY <2>3, UpdateType DEF Transfer, WBAITTypeOK
  <2>4. CASE HolderNext
    BY <2>1, <2>2, <2>3, <2>4, WBAITAssumption DEF HolderNext, WBAITAssumption
  <2>5. CASE PauseWBAIT \/ UnpauseWBAIT
    BY <2>5 DEF PauseWBAIT, UnpauseWBAIT, WBAITTypeOK
  <2>6. CASE InitializeBridgeLock(Bridge)
    BY <2>6 DEF InitializeBridgeLock, WBAITTypeOK
  <2> QED
    BY <2>4, <2>5, <2>6 DEF WBAITNext
<1> QED
  BY <1>1 DEF TypeOK, bridgeVars, totalVars, operatorVars, lockVars, dailyVars

(* The calls of the owner and of the timelock.  That a pending candidate is *)
(* an address, and not zero, is part of OperatorTable.                      *)
LEMMA AdminType ==
  ASSUME TypeOK, OperatorTable, PauseBridge \/ UnpauseBridge \/ OwnerNext
  PROVE  TypeOK'
<1> USE DEF totalVars, operatorVars, lockVars, dailyVars, wbaitVars, WBAITTypeOK
<1>1. CASE PauseBridge \/ UnpauseBridge
  BY <1>1 DEF PauseBridge, UnpauseBridge, TypeOK
<1>2. ASSUME NEW index \in 1..NUM_OPERATORS, NEW addr \in OperatorAddrs,
             ProposeOperatorUpdate(index, addr)
      PROVE  TypeOK'
  BY <1>2 DEF ProposeOperatorUpdate, TypeOK
<1>3. NoOperatorUpdate \in [index : 1..NUM_OPERATORS,
                            newOperator : OperatorAddrs \cup {ZeroAddress},
                            proposedAt : Nat, active : BOOLEAN]
  BY BridgeLockAssumption DEF NoOperatorUpdate, BridgeLockAssumption
<1>4. CASE CancelOperatorUpdate
  BY <1>3, <1>4 DEF CancelOperatorUpdate, TypeOK
<1>5. CASE ExecuteOperatorUpdate
  <2> DEFINE idx   == pendingOperatorUpdate.index
             newOp == pendingOperatorUpdate.newOperator
  <2>1. idx \in 1..NUM_OPERATORS /\ newOp \in OperatorAddrs
    BY <1>5 DEF ExecuteOperatorUpdate, TypeOK, OperatorTable
  <2>2. /\ operators' = [operators EXCEPT ![idx] = newOp]
        /\ isOperator' = (isOperator \ {operators[idx]}) \cup {newOp}
    BY <1>5 DEF ExecuteOperatorUpdate
  <2> HIDE DEF idx, newOp
  <2>3. /\ operators' \in [1..NUM_OPERATORS -> OperatorAddrs]
        /\ isOperator' \in SUBSET OperatorAddrs
    BY <2>1, <2>2 DEF TypeOK
  <2> QED
    BY <1>3, <1>5, <2>3 DEF ExecuteOperatorUpdate, TypeOK
<1> QED
  BY <1>1, <1>2, <1>4, <1>5 DEF OwnerNext

(* Every step keeps the types.                                              *)
LEMMA TypeStep == TypeOK /\ OperatorTable /\ [Next]_vars => TypeOK'
<1> SUFFICES ASSUME TypeOK, OperatorTable, [Next]_vars PROVE TypeOK'
  OBVIOUS
<1>1. Amounts \subseteq Nat
  BY WBAITAssumption DEF WBAITAssumption
<1>2. CASE OperatorNext
  BY <1>1, <1>2, RequestType, ConfirmMintType, ConfirmReleaseType DEF OperatorNext
<1>3. ASSUME NEW user \in Accounts, NEW amount \in Amounts,
             InitiateBurnRelease(user, amount)
      PROVE  TypeOK'
  BY <1>1, <1>3, BurnReleaseType
<1>4. CASE PauseBridge \/ UnpauseBridge \/ OwnerNext
  BY <1>4, AdminType
<1>5. CASE Tick
  BY <1>5 DEF Tick, TypeOK, WBAITTypeOK, totalVars, operatorVars, lockVars, dailyVars,
              wbaitVars
<1>6. CASE WBAITNext /\ UNCHANGED bridgeVars
  BY <1>6, TokenType
<1>7. CASE UNCHANGED vars
  BY <1>7 DEF vars, TypeOK, WBAITTypeOK, bridgeVars, totalVars, operatorVars, lockVars,
              dailyVars, wbaitVars
<1> QED
  BY <1>2, <1>3, <1>4, <1>5, <1>6, <1>7 DEF Next

-----------------------------------------------------------------------------
(* Operators *)

(* The constructor fills the table with distinct addresses.                 *)
LEMMA InitTable == Init => OperatorTable
  BY DEF Init, OperatorTable, NoOperatorUpdate

(* Only the owner's calls write the table.                                  *)
LEMMA TableFrame ==
  ASSUME [Next]_vars, ~OwnerNext
  PROVE  UNCHANGED <<operators, isOperator, pendingOperatorUpdate>>
<1> DEFINE frame == UNCHANGED <<operators, isOperator, pendingOperatorUpdate>>
<1>1. CASE OperatorNext
  <2>1. \A caller, id : ConfirmLockMint(caller, id) => frame
    BY DEF ConfirmLockMint, operatorVars
  <2>2. \A caller, i : ConfirmBurnRelease(caller, i) => frame
    BY DEF ConfirmBurnRelease, operatorVars
  <2>3. \A caller, id, tx, to, amount :
            RequestLockMint(caller, id, tx, to, amount) => frame
    BY DEF RequestLockMint, operatorVars
  <2> QED
    BY <1>1, <2>1, <2>2, <2>3 DEF OperatorNext
<1>2. CASE \E user \in Accounts, amount \in Amounts : InitiateBurnRelease(user, amount)
  BY <1>2 DEF InitiateBurnRelease, operatorVars
<1>3. CASE PauseBridge \/ UnpauseBridge \/ Tick
  BY <1>3 DEF PauseBridge, UnpauseBridge, Tick, operatorVars
<1>4. CASE UNCHANGED bridgeVars
  BY <1>4 DEF bridgeVars, operatorVars
<1> QED
  BY <1>1, <1>2, <1>3, <1>4 DEF Next, vars

(* A rotation swaps one address for another that is not in the table, in    *)
(* the array and in the mapping alike.                                      *)
LEMMA TableStep == TypeOK /\ OperatorTable /\ [Next]_vars => OperatorTable'
<1> SUFFICES ASSUME TypeOK, OperatorTable, [Next]_vars PROVE OperatorTable'
  OBVIOUS
<1>1. CASE ~OwnerNext
  BY <1>1, TableFrame DEF OperatorTable
<1>2. ASSUME NEW index \in 1..NUM_OPERATORS, NEW addr \in OperatorAddrs,
             ProposeOperatorUpdate(index, addr)
      PROVE  OperatorTable'
  BY <1>2 DEF ProposeOperatorUpdate, OperatorTable
<1>3. CASE CancelOperatorUpdate
  BY <1>3 DEF CancelOperatorUpdate, OperatorTable, NoOperatorUpdate
<1>4. CASE ExecuteOperatorUpdate
  <2> DEFINE idx   == pendingOperatorUpdate.index
             newOp == pendingOperatorUpdate.newOperator
  <2>1. idx \in 1..NUM_OPERATORS /\ newOp \notin isOperator
    BY <1>4 DEF ExecuteOperatorUpdate, TypeOK, OperatorTable
  <2>2. /\ operators' = [operators EXCEPT ![idx] = newOp]
        /\ isOperator' = (isOperator \ {operators[idx]}) \cup {newOp}
        /\ ~pendingOperatorUpdate'.active
    BY <1>4 DEF ExecuteOperatorUpdate, NoOperatorUpdate
  <2> HIDE DEF idx, newOp
  <2>3. \A i \in 1..NUM_OPERATORS :
            operators'[i] = IF i = idx THEN newOp ELSE operators[i]
    BY <2>1, <2>2 DEF TypeOK
  <2>4. isOperator = {operators[i] : i \in 1..NUM_OPERATORS}
    BY DEF OperatorTable
  <2>5. isOperator' = {operators'[i] : i \in 1..NUM_OPERATORS}
    <3>1. ASSUME NEW x \in isOperator'
          PROVE  \E i \in 1..NUM_OPERATORS : x = operators'[i]
      BY <2>1, <2>2, <2>3, <2>4
    <3>2. ASSUME NEW i \in 1..NUM_OPERATORS
          PROVE  operators'[i] \in isOperator'
      BY <2>1, <2>2, <2>3, <2>4 DEF OperatorTable
    <3> QED
      BY <3>1, <3>2
  <2>6. \A i, j \in 1..NUM_OPERATORS : operators'[i] = operators'[j] => i = j
    BY <2>1, <2>3, <2>4 DEF OperatorTable
  <2> QED
    BY <2>2, <2>5, <2>6 DEF OperatorTable
<1> QED
  BY <1>1, <1>2, <1>3, <1>4 DEF OwnerNext

(* TypeOK holds in every reachable state.                                   *)
THEOREM TypeCorrect == Spec => []TypeOK
<1>1. Init => TypeOK /\ OperatorTable
  BY InitType, InitTable
<1>2. TypeOK /\ OperatorTable /\ [Next]_vars => (TypeOK /\ OperatorTable)'
  BY TypeStep, TableStep
<1> QED
  BY <1>1, <1>2, PTL DEF Spec

(* The mapping isOperator is the set of addresses in the table, whose       *)
(* entries are distinct, and no pending candidate is already among them.    *)
THEOREM OperatorTableCorrect == Spec => []OperatorTable
<1>1. Init => TypeOK /\ OperatorTable
  BY InitType, InitTable
<1>2. TypeOK /\ OperatorTable /\ [Next]_vars => (TypeOK /\ OperatorTable)'
  BY TypeStep, TableStep
<1> QED
  BY <1>1, <1>2, PTL DEF Spec

-----------------------------------------------------------------------------
(* Quorum *)

(* What one confirmation does to the fields a quorum is about.              *)
LEMMA ConfirmationFields ==
  ASSUME NEW r \in LockRequest \cup BurnRelease, NEW caller
  PROVE  /\ WithConfirmation(r, caller).confirmed = r.confirmed \cup {caller}
         /\ WithConfirmation(r, caller).confirmations = r.confirmations + 1
         /\ WithConfirmation(r, caller).executed = ReachesQuorum(r)
         /\ WithConfirmation(r, caller).amount = r.amount
<1>1. CASE r \in LockRequest
  BY <1>1 DEF WithConfirmation, LockRequest
<1>2. CASE r \in BurnRelease
  BY <1>2 DEF WithConfirmation, BurnRelease
<1> QED
  BY <1>1, <1>2

(* A confirmation by somebody new moves a request or release from below the *)
(* threshold to exactly one more, and executes it exactly at the threshold. *)
LEMMA QuorumStep ==
  ASSUME NEW r \in LockRequest \cup BurnRelease, QuorumMet(r), ~r.executed,
         NEW caller \in OperatorAddrs, caller \notin r.confirmed
  PROVE  QuorumMet(WithConfirmation(r, caller))
<1> DEFINE w == WithConfirmation(r, caller)
<1>1. /\ r.confirmed \in SUBSET OperatorAddrs
      /\ r.confirmations \in Nat
  BY DEF LockRequest, BurnRelease
<1>2. REQUIRED_CONFIRMATIONS \in Nat /\ IsFiniteSet(r.confirmed)
  BY <1>1, BridgeLockAssumption, FS_Subset DEF BridgeLockAssumption
<1>3. Cardinality(r.confirmed \cup {caller}) = r.confirmations + 1
  BY <1>2, FS_AddElement DEF QuorumMet
<1>4. /\ w.confirmed = r.confirmed \cup {caller}
      /\ w.confirmations = r.confirmations + 1
      /\ w.executed = (r.confirmations + 1 >= REQUIRED_CONFIRMATIONS)
  BY ConfirmationFields DEF ReachesQuorum
<1>5. r.confirmations < REQUIRED_CONFIRMATIONS
  BY <1>1, <1>2 DEF QuorumMet
<1> HIDE DEF w
<1>6. w.confirmations = Cardinality(w.confirmed)
  BY <1>3, <1>4
<1>7. w.executed <=> w.confirmations >= REQUIRED_CONFIRMATIONS
  BY <1>4, Zenon
<1>8. w.confirmations <= REQUIRED_CONFIRMATIONS
  BY <1>1, <1>2, <1>4, <1>5
<1>9. QuorumMet(w)
  BY <1>6, <1>7, <1>8, Zenon DEF QuorumMet
<1> QED
  BY <1>9 DEF w

(* Nobody has confirmed anything at the start.                              *)
LEMMA InitQuorum == Init => ExactQuorum
<1>1. ASSUME NEW r, r = EmptyLockRequest
      PROVE  QuorumMet(r)
  BY <1>1, FS_EmptySet, BridgeLockAssumption
     DEF QuorumMet, EmptyLockRequest, BridgeLockAssumption
<1> QED
  BY <1>1 DEF Init, ExactQuorum

(* confirmLockMint and confirmBurnRelease count one confirmation each; no   *)
(* other call touches a counter, a set of confirmers or an executed flag.   *)
LEMMA ExactQuorumStep == TypeOK /\ ExactQuorum /\ [Next]_vars => ExactQuorum'
<1> SUFFICES ASSUME TypeOK, ExactQuorum, [Next]_vars PROVE ExactQuorum'
  OBVIOUS
<1> DEFINE Lock == UNCHANGED lockRequests
           Rel  == UNCHANGED burnReleases
<1>1. ASSUME Lock, Rel PROVE ExactQuorum'
  BY <1>1 DEF ExactQuorum, QuorumMet
<1>2. ASSUME NEW caller \in OperatorAddrs, NEW id \in RequestIds,
             ConfirmLockMint(caller, id)
      PROVE  ExactQuorum'
  <2> DEFINE w == WithConfirmation(lockRequests[id], caller)
  <2>1. lockRequests[id] \in LockRequest
    BY DEF TypeOK
  <2>2. QuorumMet(w)
    BY <1>2, <2>1, QuorumStep DEF ConfirmLockMint, MayConfirm, ExactQuorum
  <2>3. lockRequests' = [lockRequests EXCEPT ![id] = w] /\ Rel
    BY <1>2 DEF ConfirmLockMint
  <2> HIDE DEF w
  <2>4. \A x \in RequestIds : lockRequests'[x] = IF x = id THEN w ELSE lockRequests[x]
    BY <2>3 DEF TypeOK
  <2>5. \A x \in RequestIds : QuorumMet(lockRequests'[x])
    BY <2>2, <2>4 DEF ExactQuorum
  <2> QED
    BY <2>3, <2>5 DEF ExactQuorum, QuorumMet
<1>3. ASSUME NEW caller \in OperatorAddrs, NEW i \in DOMAIN burnReleases,
             ConfirmBurnRelease(caller, i)
      PROVE  ExactQuorum'
  <2> DEFINE w == WithConfirmation(burnReleases[i], caller)
  <2>1. burnReleases[i] \in BurnRelease
    BY DEF TypeOK
  <2>2. QuorumMet(w)
    BY <1>3, <2>1, QuorumStep DEF ConfirmBurnRelease, MayConfirm, ExactQuorum
  <2>3. burnReleases' = [burnReleases EXCEPT ![i] = w] /\ Lock
    BY <1>3 DEF ConfirmBurnRelease, lockVars
  <2> HIDE DEF w
  <2>4. /\ DOMAIN burnReleases' = DOMAIN burnReleases
        /\ \A x \in DOMAIN burnReleases :
              burnReleases'[x] = IF x = i THEN w ELSE burnReleases[x]
    BY <2>3 DEF TypeOK
  <2>5. \A x \in DOMAIN burnReleases' : QuorumMet(burnReleases'[x])
    BY <2>2, <2>4 DEF ExactQuorum
  <2> QED
    BY <2>3, <2>5 DEF ExactQuorum, QuorumMet
<1>4. ASSUME NEW caller \in OperatorAddrs, NEW id \in RequestIds,
             NEW tx, NEW to, NEW amount, RequestLockMint(caller, id, tx, to, amount)
      PROVE  ExactQuorum'
  <2>1. /\ \A x \in RequestIds :
              /\ lockRequests'[x].confirmed = lockRequests[x].confirmed
              /\ lockRequests'[x].confirmations = lockRequests[x].confirmations
              /\ lockRequests'[x].executed = lockRequests[x].executed
        /\ Rel
    BY <1>4 DEF RequestLockMint, TypeOK, LockRequest
  <2> QED
    BY <2>1 DEF ExactQuorum, QuorumMet
<1>5. ASSUME NEW user \in Accounts, NEW amount \in Amounts,
             InitiateBurnRelease(user, amount)
      PROVE  ExactQuorum'
  <2> DEFINE rel == [burner |-> user, amount |-> amount, confirmed |-> {},
                     confirmations |-> 0, executed |-> FALSE]
  <2>1. QuorumMet(rel)
    BY FS_EmptySet, BridgeLockAssumption DEF QuorumMet, BridgeLockAssumption
  <2>2. burnReleases' = Append(burnReleases, rel) /\ Lock
    BY <1>5 DEF InitiateBurnRelease, lockVars
  <2> HIDE DEF rel
  <2>3. \A x \in DOMAIN burnReleases' :
            \/ burnReleases'[x] = rel
            \/ x \in DOMAIN burnReleases /\ burnReleases'[x] = burnReleases[x]
    BY <2>2 DEF TypeOK
  <2>4. \A x \in DOMAIN burnReleases' : QuorumMet(burnReleases'[x])
    BY <2>1, <2>3 DEF ExactQuorum
  <2> QED
    BY <2>2, <2>4 DEF ExactQuorum, QuorumMet
<1>6. CASE PauseBridge \/ UnpauseBridge \/ Tick \/ UNCHANGED bridgeVars
  BY <1>1, <1>6 DEF PauseBridge, UnpauseBridge, Tick, bridgeVars, lockVars
<1>7. CASE OwnerNext
  BY <1>1, <1>7 DEF OwnerNext, ProposeOperatorUpdate, ExecuteOperatorUpdate,
                    CancelOperatorUpdate, lockVars
<1> QED
  BY <1>2, <1>3, <1>4, <1>5, <1>6, <1>7 DEF Next, OperatorNext, vars

(* A mint or a release has happened exactly when REQUIRED_CONFIRMATIONS     *)
(* distinct addresses confirmed it, for every threshold and operator set.   *)
THEOREM ExactQuorumCorrect == Spec => []ExactQuorum
<1> DEFINE IInv == TypeOK /\ OperatorTable /\ ExactQuorum
<1>1. Init => IInv
  BY InitType, InitTable, InitQuorum
<1>2. IInv /\ [Next]_vars => IInv'
  BY TypeStep, TableStep, ExactQuorumStep
<1> QED
  BY <1>1, <1>2, PTL DEF Spec

-----------------------------------------------------------------------------
(* One mint per L1 transaction *)

(* What a confirmation leaves alone.                                        *)
LEMMA ConfirmKeepsDeposits ==
  ASSUME TypeOK, NEW caller \in OperatorAddrs, NEW id \in RequestIds,
         ConfirmLockMint(caller, id)
  PROVE  /\ \A x \in RequestIds :
              /\ lockRequests'[x].amount = lockRequests[x].amount
              /\ lockRequests'[x].l1TxId = lockRequests[x].l1TxId
         /\ UNCHANGED consumedL1TxIds
<1> DEFINE w == WithConfirmation(lockRequests[id], caller)
<1>1. lockRequests[id] \in LockRequest
  BY DEF TypeOK
<1>2. w.amount = lockRequests[id].amount /\ w.l1TxId = lockRequests[id].l1TxId
  BY <1>1 DEF WithConfirmation, LockRequest
<1>3. lockRequests' = [lockRequests EXCEPT ![id] = w] /\ UNCHANGED consumedL1TxIds
  BY DEF ConfirmLockMint
<1> HIDE DEF w
<1> QED
  BY <1>2, <1>3 DEF TypeOK

(* Nothing is requested at the start.                                       *)
LEMMA InitOneMint == Init => OneMintPerL1Tx
  BY DEF Init, OneMintPerL1Tx, Requested, EmptyLockRequest

(* requestLockMint accepts only transactions no request stands for.         *)
LEMMA OneMintStep == TypeOK /\ OneMintPerL1Tx /\ [Next]_vars => OneMintPerL1Tx'
<1> SUFFICES ASSUME TypeOK, OneMintPerL1Tx, [Next]_vars PROVE OneMintPerL1Tx'
  OBVIOUS
<1> DEFINE Kept == /\ \A x \in RequestIds :
                         /\ lockRequests'[x].amount = lockRequests[x].amount
                         /\ lockRequests'[x].l1TxId = lockRequests[x].l1TxId
                   /\ UNCHANGED consumedL1TxIds
<1>1. ASSUME Kept PROVE OneMintPerL1Tx'
  BY <1>1 DEF OneMintPerL1Tx, Requested
<1>2. UNCHANGED lockVars => Kept
  BY DEF lockVars
<1>3. ASSUME NEW caller \in OperatorAddrs, NEW id \in RequestIds,
             NEW tx \in L1TxIds \cup {ZeroTx}, NEW to, NEW amount \in Nat,
             RequestLockMint(caller, id, tx, to, amount)
      PROVE  OneMintPerL1Tx'
  <2>1. /\ \A x \in RequestIds \ {id} : lockRequests'[x] = lockRequests[x]
        /\ lockRequests'[id].amount = amount
        /\ lockRequests'[id].l1TxId = tx
    BY <1>3 DEF RequestLockMint, TypeOK, LockRequest
  <2>2. /\ tx \notin consumedL1TxIds
        /\ consumedL1TxIds' = consumedL1TxIds \cup {tx}
        /\ ~Requested(id)
        /\ amount > 0
    BY <1>3 DEF RequestLockMint, FreshTx, Requested
  <2>3. /\ Requested(id)'
        /\ \A x \in RequestIds \ {id} : Requested(x)' <=> Requested(x)
    BY <2>1, <2>2 DEF Requested
  <2>4. \A x \in RequestIds : Requested(x) => lockRequests[x].l1TxId # tx
    BY <2>2 DEF OneMintPerL1Tx
  <2>5. ASSUME NEW a \in RequestIds, NEW b \in RequestIds, Requested(a)', Requested(b)',
               lockRequests'[a].l1TxId = lockRequests'[b].l1TxId
        PROVE  a = b
    BY <2>1, <2>2, <2>3, <2>4, <2>5 DEF OneMintPerL1Tx
  <2>6. consumedL1TxIds' =
          {lockRequests'[x].l1TxId : x \in {r \in RequestIds : Requested(r)'}}
    BY <2>1, <2>2, <2>3 DEF OneMintPerL1Tx
  <2> QED
    BY <2>5, <2>6 DEF OneMintPerL1Tx
<1>4. ASSUME NEW caller \in OperatorAddrs, NEW id \in RequestIds,
             ConfirmLockMint(caller, id)
      PROVE  Kept
  BY <1>4, ConfirmKeepsDeposits
<1>5. ASSUME NEW caller, NEW i, ConfirmBurnRelease(caller, i) PROVE Kept
  BY <1>2, <1>5 DEF ConfirmBurnRelease
<1>6. ASSUME NEW user, NEW amount, InitiateBurnRelease(user, amount) PROVE Kept
  BY <1>2, <1>6 DEF InitiateBurnRelease
<1>7. CASE PauseBridge \/ UnpauseBridge \/ Tick \/ UNCHANGED bridgeVars
  BY <1>2, <1>1, <1>7 DEF PauseBridge, UnpauseBridge, Tick, bridgeVars
<1>8. CASE OwnerNext
  BY <1>2, <1>1, <1>8 DEF OwnerNext, ProposeOperatorUpdate, ExecuteOperatorUpdate,
                          CancelOperatorUpdate
<1>9. Amounts \subseteq Nat
  BY WBAITAssumption DEF WBAITAssumption
<1> HIDE DEF Kept
<1> QED
  BY <1>1, <1>3, <1>4, <1>5, <1>6, <1>7, <1>8, <1>9 DEF Next, OperatorNext, vars

(* However many request ids an L1 transaction is submitted under, at most   *)
(* one of them is ever accepted, and with ExactQuorum and the executed flag *)
(* it is minted at most once.                                               *)
THEOREM OneMintCorrect == Spec => []OneMintPerL1Tx
<1> DEFINE IInv == TypeOK /\ OperatorTable /\ OneMintPerL1Tx
<1>1. Init => IInv
  BY InitType, InitTable, InitOneMint
<1>2. IInv /\ [Next]_vars => IInv'
  BY TypeStep, TableStep, OneMintStep
<1> QED
  BY <1>1, <1>2, PTL DEF Spec

-----------------------------------------------------------------------------
(* The daily window *)

(* The counters are zero at the start.                                      *)
LEMMA InitWindow == Init => DailyWindowBounded
  BY BridgeLockAssumption DEF Init, DailyWindowBounded, BridgeLockAssumption

(* A mint moves its amount from reserved to minted; a request checks the    *)
(* limit on counters it has just reset or left alone.                       *)
LEMMA WindowStep == TypeOK /\ DailyWindowBounded /\ [Next]_vars => DailyWindowBounded'
<1> SUFFICES ASSUME TypeOK, DailyWindowBounded, [Next]_vars PROVE DailyWindowBounded'
  OBVIOUS
<1> DEFINE Kept == UNCHANGED <<dailyMinted, dailyReserved>>
<1>1. ASSUME Kept PROVE DailyWindowBounded'
  BY <1>1 DEF DailyWindowBounded
<1>2. UNCHANGED dailyVars => Kept
  BY DEF dailyVars
<1>3. ASSUME NEW caller \in OperatorAddrs, NEW id \in RequestIds, NEW tx,
             NEW to \in Accounts \cup {ZeroAddress}, NEW amount \in Nat,
             RequestLockMint(caller, id, tx, to, amount)
      PROVE  DailyWindowBounded'
  <2> DEFINE m == Today(dailyMinted, to)
             r == Today(dailyReserved, to)
  <2>1. to \in Accounts
    BY <1>3 DEF RequestLockMint
  <2>2. m \in Nat /\ r \in Nat
    BY <2>1 DEF Today, TypeOK
  <2>3. m + r + amount <= RATE_LIMIT
    BY <1>3 DEF RequestLockMint, WithinLimit
  <2>4. /\ dailyMinted' = [dailyMinted EXCEPT ![to] = m]
        /\ dailyReserved' = [dailyReserved EXCEPT ![to] = r + amount]
    BY <1>3 DEF RequestLockMint
  <2> HIDE DEF m, r
  <2>5. RATE_LIMIT \in Nat
    BY BridgeLockAssumption DEF BridgeLockAssumption
  <2> QED
    BY <2>1, <2>2, <2>3, <2>4, <2>5 DEF DailyWindowBounded, TypeOK
<1>4. ASSUME NEW caller \in OperatorAddrs, NEW id \in RequestIds,
             ConfirmLockMint(caller, id)
      PROVE  DailyWindowBounded'
  <2> DEFINE to     == lockRequests[id].recipient
             amount == lockRequests[id].amount
  <2>1. amount \in Nat
    BY DEF TypeOK, LockRequest
  <2>2. CASE ExecuteLockMint(lockRequests[id])
    <3>1. /\ dailyMinted' = [dailyMinted EXCEPT ![to] = @ + amount]
          /\ dailyReserved' = [dailyReserved EXCEPT ![to] = @ - amount]
      BY <2>2 DEF ExecuteLockMint
    <3> HIDE DEF to, amount
    <3>2. ASSUME NEW a \in Accounts
          PROVE  dailyMinted'[a] + dailyReserved'[a] = dailyMinted[a] + dailyReserved[a]
      <4>1. dailyMinted[a] \in Nat /\ dailyReserved[a] \in Nat
        BY DEF TypeOK
      <4>2. CASE a = to
        BY <2>1, <3>1, <4>1, <4>2 DEF TypeOK
      <4>3. CASE a # to
        BY <3>1, <4>3 DEF TypeOK
      <4> QED
        BY <4>2, <4>3
    <3> QED
      BY <3>2 DEF DailyWindowBounded
  <2>3. CASE Kept
    BY <1>1, <2>3
  <2> QED
    BY <1>4, <2>2, <2>3 DEF ConfirmLockMint
<1>5. ASSUME NEW caller, NEW i, ConfirmBurnRelease(caller, i) PROVE Kept
  BY <1>2, <1>5 DEF ConfirmBurnRelease
<1>6. ASSUME NEW user, NEW amount, InitiateBurnRelease(user, amount) PROVE Kept
  BY <1>2, <1>6 DEF InitiateBurnRelease
<1>7. CASE PauseBridge \/ UnpauseBridge \/ Tick \/ UNCHANGED bridgeVars
  BY <1>2, <1>1, <1>7 DEF PauseBridge, UnpauseBridge, Tick, bridgeVars
<1>8. CASE OwnerNext
  BY <1>2, <1>1, <1>8 DEF OwnerNext, ProposeOperatorUpdate, ExecuteOperatorUpdate,
                          CancelOperatorUpdate
<1>9. Amounts \subseteq Nat
  BY WBAITAssumption DEF WBAITAssumption
<1> HIDE DEF Kept
<1> QED
  BY <1>1, <1>3, <1>4, <1>5, <1>6, <1>7, <1>8, <1>9 DEF Next, OperatorNext, vars

(* Minted and reserved together never pass RATE_LIMIT in the counters of    *)
(* any recipient.                                                           *)
THEOREM DailyWindowCorrect == Spec => []DailyWindowBounded
<1> DEFINE IInv == TypeOK /\ OperatorTable /\ DailyWindowBounded
<1>1. Init => IInv
  BY InitType, InitTable, InitWindow
<1>2. IInv /\ [Next]_vars => IInv'
  BY TypeStep, TableStep, WindowStep
<1> QED
  BY <1>1, <1>2, PTL DEF Spec

-----------------------------------------------------------------------------
(* The accounts *)

(* A request is for somebody: requestLockMint refuses the zero address.     *)
Recipients == \A id \in RequestIds : Requested(id) => lockRequests[id].recipient \in Accounts

(* What _update does to the sum of the balances.                            *)
LEMMA UpdateSum ==
  ASSUME WBAITTypeOK, NEW from, NEW to, NEW value \in Nat, Update(from, to, value)
  PROVE  SumFunction(balanceOf)' = SumFunction(balanceOf)
                                     - (IF from \in Accounts THEN value ELSE 0)
                                     + (IF to \in Accounts THEN value ELSE 0)
<1> DEFINE taken == [a \in Accounts |-> balanceOf[a] - (IF a = from THEN value ELSE 0)]
           Sum(f) == SumFunctionOnSet(f, Accounts)
<1>1. IsFiniteSet(Accounts)
  BY WBAITAssumption DEF WBAITAssumption
<1>2. /\ balanceOf \in [Accounts -> Nat] /\ balanceOf' \in [Accounts -> Nat]
      /\ taken \in [Accounts -> Int]
  BY UpdateType DEF WBAITTypeOK
<1>3. \A a \in Accounts : balanceOf'[a] = taken[a] + (IF a = to THEN value ELSE 0)
  BY DEF Update
<1>4. Sum(taken) = Sum(balanceOf) - (IF from \in Accounts THEN value ELSE 0)
  <2>1. Sum(balanceOf) \in Int
    BY <1>1, <1>2, SumInt
  <2>2. CASE from \in Accounts
    <3>1. Sum(taken) = Sum(balanceOf) + (taken[from] - balanceOf[from])
      BY <1>1, <1>2, <2>2, SumChange
    <3>2. taken[from] = balanceOf[from] - value /\ balanceOf[from] \in Nat
      BY <1>2, <2>2
    <3> HIDE DEF taken, Sum
    <3> QED
      BY <2>1, <2>2, <3>1, <3>2
  <2>3. CASE from \notin Accounts
    <3>1. \A a \in Accounts : taken[a] = balanceOf[a]
      BY <1>2, <2>3
    <3> HIDE DEF taken
    <3>2. Sum(taken) = Sum(balanceOf)
      BY <1>1, <3>1, SumSame
    <3> HIDE DEF Sum
    <3> QED
      BY <2>1, <2>3, <3>2
  <2> QED
    BY <2>2, <2>3
<1> HIDE DEF taken
<1>5. Sum(balanceOf') = Sum(taken) + (IF to \in Accounts THEN value ELSE 0)
  <2>1. Sum(taken) \in Int
    BY <1>1, <1>2, SumInt
  <2>2. CASE to \in Accounts
    <3>1. Sum(balanceOf') = Sum(taken) + (balanceOf'[to] - taken[to])
      BY <1>1, <1>2, <1>3, <2>2, SumChange
    <3>2. balanceOf'[to] = taken[to] + value /\ taken[to] \in Int
      BY <1>2, <1>3, <2>2
    <3> HIDE DEF Sum
    <3> QED
      BY <2>1, <2>2, <3>1, <3>2
  <2>3. CASE to \notin Accounts
    <3>1. \A a \in Accounts : balanceOf'[a] = taken[a]
      BY <1>2, <1>3, <2>3
    <3>2. Sum(balanceOf') = Sum(taken)
      BY <1>1, <3>1, SumSame
    <3> HIDE DEF Sum
    <3> QED
      BY <2>1, <2>3, <3>2
  <2> QED
    BY <2>2, <2>3
<1>6. DOMAIN balanceOf = Accounts /\ DOMAIN balanceOf' = Accounts
  BY <1>2
<1>7. SumFunction(balanceOf) = Sum(balanceOf) /\ SumFunction(balanceOf)' = Sum(balanceOf')
  BY <1>6, Zenon DEF SumFunction
<1> HIDE DEF Sum
<1> QED
  BY <1>4, <1>5, <1>7

(* The two sums as sums over Accounts and positions.                        *)
LEMMA SumDomains ==
  ASSUME TypeOK
  PROVE  /\ SumFunction(balanceOf) = SumFunctionOnSet(balanceOf, Accounts)
         /\ UnreleasedTotal = SumFunctionOnSet(UnreleasedAmount, DOMAIN burnReleases)
<1>1. DOMAIN balanceOf = Accounts
  BY DEF TypeOK, WBAITTypeOK
<1>2. DOMAIN UnreleasedAmount = DOMAIN burnReleases
  BY DEF UnreleasedAmount
<1> QED
  BY <1>1, <1>2, Zenon DEF SumFunction, UnreleasedTotal

(* The sums are natural numbers.                                            *)
LEMMA SumTypes ==
  ASSUME TypeOK
  PROVE  /\ SumFunction(balanceOf) \in Nat
         /\ \A ids \in SUBSET RequestIds : PendingTotal(ids) \in Nat
         /\ UnreleasedTotal \in Nat
<1>1. SumFunction(balanceOf) \in Nat
  <2>1. IsFiniteSet(Accounts) /\ \A a \in Accounts : balanceOf[a] \in Nat
    BY WBAITAssumption DEF WBAITAssumption, TypeOK, WBAITTypeOK
  <2> QED
    BY <2>1, SumNat, SumDomains
<1>2. \A id \in RequestIds : PendingAmount[id] \in Nat
  BY DEF PendingAmount, TypeOK, LockRequest
<1>3. ASSUME NEW ids \in SUBSET RequestIds
      PROVE  PendingTotal(ids) \in Nat
  <2>1. IsFiniteSet(ids)
    BY BridgeLockAssumption, FS_Subset DEF BridgeLockAssumption
  <2> QED
    BY <1>2, <2>1, SumNat DEF PendingTotal
<1>4. UnreleasedTotal \in Nat
  <2>1. \A i \in DOMAIN burnReleases : UnreleasedAmount[i] \in Nat
    <3>1. \A i \in DOMAIN burnReleases : burnReleases[i] \in BurnRelease
      BY DEF TypeOK
    <3> QED
      BY <3>1 DEF UnreleasedAmount, BurnRelease
  <2>2. IsFiniteSet(DOMAIN burnReleases)
    BY FS_Interval DEF TypeOK
  <2> QED
    BY <2>1, <2>2, SumNat, SumDomains
<1> QED
  BY <1>1, <1>3, <1>4

(* A call that changes one request changes the pending totals by what it    *)
(* does to that request.                                                    *)
LEMMA PendingChange ==
  ASSUME TypeOK, TypeOK', NEW id \in RequestIds,
         \A x \in RequestIds \ {id} : lockRequests'[x] = lockRequests[x]
  PROVE  /\ PendingTotal(RequestIds)'
               = PendingTotal(RequestIds) + (PendingAmount'[id] - PendingAmount[id])
         /\ \A a \in Accounts :
              LET Of(p, r) == IF r.recipient = a THEN p ELSE 0
              IN  PendingTotal({x \in RequestIds : lockRequests[x].recipient = a})'
                    = PendingTotal({x \in RequestIds : lockRequests[x].recipient = a})
                        + (Of(PendingAmount'[id], lockRequests'[id])
                             - Of(PendingAmount[id], lockRequests[id]))
<1>1. IsFiniteSet(RequestIds)
  BY BridgeLockAssumption DEF BridgeLockAssumption
<1>2. \A x \in RequestIds : PendingAmount[x] \in Nat /\ PendingAmount'[x] \in Nat
  BY DEF PendingAmount, TypeOK, LockRequest
<1>3. \A x \in RequestIds \ {id} : PendingAmount'[x] = PendingAmount[x]
  BY DEF PendingAmount, Pending, Requested
<1>4. PendingTotal(RequestIds)'
        = PendingTotal(RequestIds) + (PendingAmount'[id] - PendingAmount[id])
  BY <1>1, <1>2, <1>3, SumChange DEF PendingTotal
<1>5. ASSUME NEW a \in Accounts
      PROVE  LET Of(p, r) == IF r.recipient = a THEN p ELSE 0
             IN  PendingTotal({x \in RequestIds : lockRequests[x].recipient = a})'
                   = PendingTotal({x \in RequestIds : lockRequests[x].recipient = a})
                       + (Of(PendingAmount'[id], lockRequests'[id])
                            - Of(PendingAmount[id], lockRequests[id]))
  <2> DEFINE R  == {x \in RequestIds : lockRequests[x].recipient = a}
             R1 == {x \in RequestIds : lockRequests'[x].recipient = a}
             F  == [x \in RequestIds |-> IF x \in R THEN PendingAmount[x] ELSE 0]
             F1 == [x \in RequestIds |-> IF x \in R1 THEN PendingAmount'[x] ELSE 0]
  <2>1. \A x \in RequestIds : F[x] \in Int /\ F1[x] \in Int
    BY <1>2
  <2>2. \A x \in RequestIds \ {id} : F[x] = F1[x]
    BY <1>3
  <2>3. SumFunctionOnSet(F1, RequestIds) = SumFunctionOnSet(F, RequestIds) + (F1[id] - F[id])
    <3> HIDE DEF F, F1
    <3> QED
      BY <1>1, <2>1, <2>2, SumChange
  <2>4. SumFunctionOnSet(PendingAmount, R) = SumFunctionOnSet(F, RequestIds)
    <3>1. R \in SUBSET RequestIds /\ \A x \in RequestIds : F[x] = IF x \in R THEN PendingAmount[x] ELSE 0
      OBVIOUS
    <3> HIDE DEF F, R
    <3> QED
      BY <1>1, <1>2, <3>1, SumFilter
  <2>5. SumFunctionOnSet(PendingAmount', R1) = SumFunctionOnSet(F1, RequestIds)
    <3>1. R1 \in SUBSET RequestIds /\ \A x \in RequestIds : F1[x] = IF x \in R1 THEN PendingAmount'[x] ELSE 0
      OBVIOUS
    <3> HIDE DEF F1, R1
    <3> QED
      BY <1>1, <1>2, <3>1, SumFilter
  <2>6. /\ F1[id] = IF lockRequests'[id].recipient = a THEN PendingAmount'[id] ELSE 0
        /\ F[id] = IF lockRequests[id].recipient = a THEN PendingAmount[id] ELSE 0
    OBVIOUS
  <2>7. /\ PendingTotal({x \in RequestIds : lockRequests[x].recipient = a})' = SumFunctionOnSet(PendingAmount', R1)
        /\ PendingTotal({x \in RequestIds : lockRequests[x].recipient = a}) = SumFunctionOnSet(PendingAmount, R)
    BY Zenon DEF PendingTotal
  <2> HIDE DEF F, F1, R, R1
  <2> QED
    BY <2>3, <2>4, <2>5, <2>6, <2>7
<1> QED
  BY <1>4, <1>5

(* Nothing is locked, minted, burned or reserved at the start.              *)
LEMMA InitBooks == Init => AccountsBalance /\ Recipients
<1> SUFFICES ASSUME Init PROVE AccountsBalance /\ Recipients
  OBVIOUS
<1>0. TypeOK
  BY InitType
<1>1. IsFiniteSet(RequestIds) /\ IsFiniteSet(Accounts) /\ MAX_SUPPLY \in Nat
  BY BridgeLockAssumption, WBAITAssumption DEF BridgeLockAssumption, WBAITAssumption
<1>2. \A id \in RequestIds : PendingAmount[id] = 0 /\ ~Requested(id)
  BY DEF Init, PendingAmount, Pending, Requested, EmptyLockRequest
<1>3. \A ids \in SUBSET RequestIds : PendingTotal(ids) = 0
  BY <1>1, <1>2, FS_Subset, SumZero DEF PendingTotal
<1>4. UnreleasedTotal = 0
  <2>1. DOMAIN burnReleases = {}
    BY DEF Init
  <2>2. UnreleasedTotal = SumFunctionOnSet(UnreleasedAmount, {})
    BY <1>0, <2>1, SumDomains, Zenon
  <2> QED
    BY <2>2, SumEmpty
<1>5. SumFunction(balanceOf) = 0
  <2>1. \A a \in Accounts : balanceOf[a] = 0
    BY DEF Init, WBAITInit
  <2> QED
    BY <1>0, <1>1, <2>1, SumDomains, SumZero
<1>6. LockedDecomposition
  BY <1>3, <1>4 DEF Init, LockedDecomposition
<1>7. SupplyBacked
  BY <1>1, <1>5 DEF Init, WBAITInit, SupplyBacked, SupplyAccounted
<1>8. NoOrphanReservation
  <2>1. ASSUME NEW a \in Accounts
        PROVE  PendingTotal({id \in RequestIds : lockRequests[id].recipient = a}) = 0
    BY <1>3
  <2> QED
    BY <2>1 DEF Init, NoOrphanReservation
<1> QED
  BY <1>2, <1>6, <1>7, <1>8 DEF AccountsBalance, Recipients

(* What the books are kept in.                                              *)
books == <<lockRequests, burnReleases, totalVars, dailyReserved, balanceOf, totalSupply>>

(* requestLockMint adds the amount to what is locked and pending, and       *)
(* reserves at most that much more for the recipient.                       *)
LEMMA RequestBooks ==
  ASSUME TypeOK, TypeOK', AccountsBalance, Recipients,
         NEW caller \in OperatorAddrs, NEW id \in RequestIds, NEW tx,
         NEW to \in Accounts \cup {ZeroAddress}, NEW amount \in Nat,
         RequestLockMint(caller, id, tx, to, amount)
  PROVE  AccountsBalance' /\ Recipients'
<1>1. /\ \A x \in RequestIds \ {id} : lockRequests'[x] = lockRequests[x]
      /\ lockRequests'[id].recipient = to
      /\ lockRequests'[id].amount = amount
      /\ lockRequests'[id].executed = lockRequests[id].executed
  BY DEF RequestLockMint, TypeOK, LockRequest
<1>2. lockRequests[id].amount = 0 /\ ~lockRequests[id].executed /\ amount > 0 /\ to \in Accounts
  BY DEF RequestLockMint
<1>3. PendingAmount[id] = 0 /\ PendingAmount'[id] = amount
  BY <1>1, <1>2 DEF PendingAmount, Pending, Requested
<1>4. /\ totalLockedOnL1' = totalLockedOnL1 + amount
      /\ UNCHANGED <<totalMinted, burnReleases, balanceOf, totalSupply>>
  BY DEF RequestLockMint, wbaitVars
<1>5. UnreleasedTotal' = UnreleasedTotal
  BY <1>4 DEF UnreleasedTotal, UnreleasedAmount
<1>6. PendingTotal(RequestIds)' = PendingTotal(RequestIds) + amount
  BY <1>1, <1>3, PendingChange, SumTypes
<1>7. LockedDecomposition'
  <2>1. PendingTotal(RequestIds) \in Nat /\ UnreleasedTotal \in Nat /\ totalMinted \in Nat
    BY SumTypes DEF TypeOK
  <2> QED
    BY <1>4, <1>5, <1>6, <2>1 DEF LockedDecomposition, AccountsBalance
<1>8. SupplyBacked'
  BY <1>4 DEF AccountsBalance, SupplyBacked, SupplyAccounted
<1>9. NoOrphanReservation'
  <2> DEFINE For(a) == PendingTotal({x \in RequestIds : lockRequests[x].recipient = a})
             For1(a) == PendingTotal({x \in RequestIds : lockRequests[x].recipient = a})'
  <2>1. SUFFICES ASSUME NEW a \in Accounts
                 PROVE  dailyReserved'[a] <= For1(a)
    BY DEF NoOrphanReservation
  <2>2. For(a) \in Nat
    <3>1. {x \in RequestIds : lockRequests[x].recipient = a} \in SUBSET RequestIds
      OBVIOUS
    <3> QED
      BY <3>1, SumTypes
  <2>3. For1(a) = For(a) + ((IF to = a THEN amount ELSE 0) - 0)
    <3>1. For1(a) = For(a) + ((IF lockRequests'[id].recipient = a THEN PendingAmount'[id] ELSE 0)
                                - (IF lockRequests[id].recipient = a THEN PendingAmount[id] ELSE 0))
      BY <1>1, PendingChange
    <3> HIDE DEF For, For1
    <3> QED
      BY <1>1, <1>3, <3>1
  <2>4. dailyReserved[a] <= For(a) /\ dailyReserved[a] \in Nat
    BY DEF AccountsBalance, NoOrphanReservation, TypeOK
  <2>5. dailyReserved' = [dailyReserved EXCEPT ![to] = Today(dailyReserved, to) + amount]
    BY DEF RequestLockMint
  <2>6. a = to => Today(dailyReserved, to) \in {0, dailyReserved[a]}
    BY DEF Today
  <2>7. dailyReserved'[a] = IF a = to THEN Today(dailyReserved, to) + amount ELSE dailyReserved[a]
    BY <2>5 DEF TypeOK
  <2> HIDE DEF For, For1
  <2> QED
    BY <2>2, <2>3, <2>4, <2>6, <2>7
<1>10. Recipients'
  BY <1>1, <1>2 DEF Recipients, Requested
<1> QED
  BY <1>7, <1>8, <1>9, <1>10 DEF AccountsBalance

(* A mint by the bridge is worth its amount in the supply, and fits the cap. *)
LEMMA MintSum ==
  ASSUME WBAITTypeOK, SupplyAccounted, NEW to \in Accounts, NEW amount \in Nat,
         Mint(Bridge, to, amount)
  PROVE  SupplyAccounted' /\ totalSupply' = totalSupply + amount
<1>1. to # ZeroAddress /\ ZeroAddress \notin Accounts /\ MAX_SUPPLY \in Nat
  BY WBAITAssumption DEF WBAITAssumption
<1>2. totalSupply \in Int /\ totalSupply + amount <= MAX_SUPPLY
  BY DEF Mint, WBAITTypeOK
<1>3. totalSupply' = totalSupply + amount
  BY <1>1, <1>2 DEF Mint, Update
<1>4. SumFunction(balanceOf)' = SumFunction(balanceOf) - 0 + amount
  BY <1>1, UpdateSum DEF Mint
<1>5. SumFunction(balanceOf) = totalSupply
  BY DEF SupplyAccounted
<1> QED
  BY <1>2, <1>3, <1>4, <1>5 DEF SupplyAccounted

(* A burn takes its amount out of an account and out of the supply.         *)
LEMMA BurnSum ==
  ASSUME WBAITTypeOK, SupplyAccounted, NEW owner \in Accounts, NEW amount \in Nat,
         Update(owner, ZeroAddress, amount)
  PROVE  SupplyAccounted' /\ totalSupply' = totalSupply - amount /\ amount <= totalSupply
<1>1. owner # ZeroAddress /\ ZeroAddress \notin Accounts /\ MAX_SUPPLY \in Nat
  BY WBAITAssumption DEF WBAITAssumption
<1>2. totalSupply \in Int /\ totalSupply <= MAX_SUPPLY
  BY DEF WBAITTypeOK, SupplyAccounted
<1>3. totalSupply' = totalSupply - amount
  BY <1>1, <1>2 DEF Update
<1>4. SumFunction(balanceOf)' = SumFunction(balanceOf) - amount + 0
  BY <1>1, UpdateSum
<1>5. SumFunction(balanceOf) = totalSupply
  BY DEF SupplyAccounted
<1>6. amount <= totalSupply
  <2>1. balanceOf[owner] >= amount /\ balanceOf[owner] \in Nat
    BY DEF Update, WBAITTypeOK
  <2>2. IsFiniteSet(Accounts) /\ \A a \in Accounts : balanceOf[a] \in Nat
    BY WBAITAssumption DEF WBAITAssumption, WBAITTypeOK
  <2>3. /\ SumFunctionOnSet(balanceOf, Accounts) \in Nat
        /\ balanceOf[owner] <= SumFunctionOnSet(balanceOf, Accounts)
    BY <2>2, PartOfSum
  <2>4. DOMAIN balanceOf = Accounts
    BY DEF WBAITTypeOK
  <2>5. SumFunctionOnSet(balanceOf, Accounts) = totalSupply
    BY <1>5, <2>4, Zenon DEF SumFunction
  <2> QED
    BY <1>2, <2>1, <2>3, <2>5
<1>7. owner \in Accounts /\ (IF ZeroAddress \in Accounts THEN amount ELSE 0) = 0
  BY <1>1
<1>8. SumFunction(balanceOf)' = totalSupply' /\ totalSupply' <= MAX_SUPPLY
  BY <1>1, <1>2, <1>3, <1>4, <1>5
<1> QED
  BY <1>3, <1>6, <1>8 DEF SupplyAccounted

(* A holder's call of the token keeps every unit in an account, and creates *)
(* none.                                                                    *)
LEMMA TokenSum ==
  ASSUME WBAITTypeOK, SupplyAccounted, WBAITNext
  PROVE  SupplyAccounted' /\ totalSupply' <= totalSupply
<1>0. totalSupply \in Int /\ Amounts \subseteq Nat
  BY WBAITAssumption DEF WBAITTypeOK, WBAITAssumption
<1>1. ASSUME UNCHANGED <<balanceOf, totalSupply>>
      PROVE  SupplyAccounted' /\ totalSupply' <= totalSupply
  BY <1>0, <1>1 DEF SupplyAccounted
<1>2. ASSUME NEW owner \in Accounts, NEW amount \in Nat, Burn(owner, amount)
      PROVE  SupplyAccounted' /\ totalSupply' <= totalSupply
  BY <1>0, <1>2, BurnSum DEF Burn
<1>3. ASSUME NEW from \in Accounts, NEW to \in Accounts, NEW amount \in Nat,
             Transfer(from, to, amount)
      PROVE  SupplyAccounted' /\ totalSupply' <= totalSupply
  <2>1. from # ZeroAddress /\ to # ZeroAddress
    BY WBAITAssumption DEF WBAITAssumption
  <2>2. totalSupply' = totalSupply
    BY <1>0, <1>3, <2>1 DEF Transfer, Update
  <2>3. SumFunction(balanceOf)' = SumFunction(balanceOf) - amount + amount
    BY <1>3, UpdateSum DEF Transfer
  <2>4. SumFunction(balanceOf) = totalSupply
    BY DEF SupplyAccounted
  <2>5. SumFunction(balanceOf)' = totalSupply'
    BY <1>0, <2>2, <2>3, <2>4
  <2> QED
    BY <1>0, <2>2, <2>5 DEF SupplyAccounted
<1>4. CASE HolderNext
  <2>1. PICK owner \in Accounts, amount \in Amounts :
          \/ Burn(owner, amount)
          \/ Approve(owner, amount)
          \/ Approve(owner, MAX_UINT)
          \/ \E to \in Accounts : Transfer(owner, to, amount)
    BY <1>4, Zenon DEF HolderNext
  <2>2. ASSUME NEW n, Approve(owner, n)
        PROVE  SupplyAccounted' /\ totalSupply' <= totalSupply
    BY <1>1, <2>2 DEF Approve
  <2> QED
    BY <1>0, <1>2, <1>3, <2>1, <2>2
<1>5. CASE PauseWBAIT \/ UnpauseWBAIT \/ InitializeBridgeLock(Bridge)
  BY <1>1, <1>5 DEF PauseWBAIT, UnpauseWBAIT, InitializeBridgeLock
<1> QED
  BY <1>4, <1>5 DEF WBAITNext

(* Everything but the five bridge calls and the token's own leaves the      *)
(* books alone.                                                             *)
LEMMA FrameBooks ==
  ASSUME AccountsBalance, Recipients, UNCHANGED books
  PROVE  AccountsBalance' /\ Recipients'
<1>1. /\ UNCHANGED <<lockRequests, burnReleases, totalLockedOnL1, totalMinted>>
      /\ UNCHANGED <<dailyReserved, balanceOf, totalSupply>>
  BY DEF books, totalVars
<1>2. Recipients'
  BY <1>1 DEF Recipients, Requested
<1>3. LockedDecomposition'
  BY <1>1 DEF AccountsBalance, LockedDecomposition, PendingTotal, PendingAmount, Pending,
              Requested, UnreleasedTotal, UnreleasedAmount
<1>4. SupplyBacked'
  BY <1>1 DEF AccountsBalance, SupplyBacked, SupplyAccounted
<1>5. NoOrphanReservation'
  BY <1>1 DEF AccountsBalance, NoOrphanReservation, PendingTotal, PendingAmount, Pending,
              Requested
<1> QED
  BY <1>2, <1>3, <1>4, <1>5 DEF AccountsBalance

(* What one more confirmation does to a request.                            *)
LEMMA ConfirmedRequest ==
  ASSUME TypeOK, NEW caller, NEW id \in RequestIds, ConfirmLockMint(caller, id)
  PROVE  /\ \A x \in RequestIds \ {id} : lockRequests'[x] = lockRequests[x]
         /\ lockRequests'[id].recipient = lockRequests[id].recipient
         /\ lockRequests'[id].amount = lockRequests[id].amount
         /\ lockRequests'[id].executed = ReachesQuorum(lockRequests[id])
         /\ ~lockRequests[id].executed
         /\ lockRequests[id].amount \in Nat /\ lockRequests[id].amount > 0
<1>1. lockRequests[id] \in LockRequest
  BY DEF TypeOK
<1>2. lockRequests' = [lockRequests EXCEPT ![id] = WithConfirmation(lockRequests[id], caller)]
  BY DEF ConfirmLockMint
<1>3. /\ \A x \in RequestIds \ {id} : lockRequests'[x] = lockRequests[x]
      /\ lockRequests'[id] = WithConfirmation(lockRequests[id], caller)
  BY <1>2 DEF TypeOK
<1>4. /\ ~lockRequests[id].executed
      /\ lockRequests[id].amount \in Nat /\ lockRequests[id].amount > 0
  BY <1>1 DEF ConfirmLockMint, MayConfirm, LockRequest
<1>5. /\ WithConfirmation(lockRequests[id], caller).recipient = lockRequests[id].recipient
      /\ WithConfirmation(lockRequests[id], caller).amount = lockRequests[id].amount
      /\ WithConfirmation(lockRequests[id], caller).executed = ReachesQuorum(lockRequests[id])
  BY <1>1 DEF WithConfirmation, LockRequest
<1> QED
  BY <1>3, <1>4, <1>5

(* confirmLockMint moves the request's amount from pending to minted when   *)
(* it executes, and nothing otherwise.                                      *)
LEMMA ConfirmMintBooks ==
  ASSUME TypeOK, TypeOK', AccountsBalance, Recipients,
         NEW caller \in OperatorAddrs, NEW id \in RequestIds, ConfirmLockMint(caller, id)
  PROVE  AccountsBalance' /\ Recipients'
<1> DEFINE req == lockRequests[id]
           to == req.recipient
           amount == req.amount
<1>1. /\ \A x \in RequestIds \ {id} : lockRequests'[x] = lockRequests[x]
      /\ lockRequests'[id].recipient = to
      /\ lockRequests'[id].amount = amount
      /\ lockRequests'[id].executed = ReachesQuorum(req)
      /\ ~req.executed
      /\ amount \in Nat /\ amount > 0
  BY ConfirmedRequest
<1>2. to \in Accounts
  BY <1>1 DEF Recipients, Requested
<1>3. /\ PendingAmount[id] = amount
      /\ PendingAmount'[id] = IF ReachesQuorum(req) THEN 0 ELSE amount
  BY <1>1 DEF PendingAmount, Pending, Requested
<1>4. UNCHANGED <<totalLockedOnL1, burnReleases>>
  BY DEF ConfirmLockMint
<1>5. UnreleasedTotal' = UnreleasedTotal
  BY <1>4 DEF UnreleasedTotal, UnreleasedAmount
<1>6. PendingTotal(RequestIds)' = PendingTotal(RequestIds) + (PendingAmount'[id] - PendingAmount[id])
  BY <1>1, PendingChange
<1>7. /\ PendingTotal(RequestIds) \in Nat /\ UnreleasedTotal \in Nat
      /\ totalMinted \in Nat /\ totalLockedOnL1 \in Nat /\ totalSupply \in Int
  BY SumTypes DEF TypeOK, WBAITTypeOK
<1>8. Recipients'
  BY <1>1 DEF Recipients, Requested
<1> DEFINE For(a) == PendingTotal({x \in RequestIds : lockRequests[x].recipient = a})
           For1(a) == PendingTotal({x \in RequestIds : lockRequests[x].recipient = a})'
<1>9. ASSUME NEW a \in Accounts
      PROVE  /\ For(a) \in Nat
             /\ For1(a) = For(a) + ((IF to = a THEN PendingAmount'[id] ELSE 0)
                                      - (IF to = a THEN PendingAmount[id] ELSE 0))
             /\ dailyReserved[a] <= For(a) /\ dailyReserved[a] \in Nat
  <2>1. {x \in RequestIds : lockRequests[x].recipient = a} \in SUBSET RequestIds
    OBVIOUS
  <2>2. For(a) \in Nat
    BY <2>1, SumTypes
  <2>3. For1(a) = For(a) + ((IF lockRequests'[id].recipient = a THEN PendingAmount'[id] ELSE 0)
                              - (IF lockRequests[id].recipient = a THEN PendingAmount[id] ELSE 0))
    BY <1>1, PendingChange
  <2>4. dailyReserved[a] <= For(a) /\ dailyReserved[a] \in Nat
    BY DEF AccountsBalance, NoOrphanReservation, TypeOK
  <2> HIDE DEF For, For1
  <2> QED
    BY <1>1, <2>2, <2>3, <2>4
<1>10. CASE ReachesQuorum(req) /\ ExecuteLockMint(req)
  <2>1. /\ totalMinted' = totalMinted + amount
        /\ dailyReserved' = [dailyReserved EXCEPT ![to] = @ - amount]
        /\ Mint(Bridge, to, amount)
    BY <1>10 DEF ExecuteLockMint
  <2>2. SupplyAccounted' /\ totalSupply' = totalSupply + amount
    <3>1. WBAITTypeOK /\ SupplyAccounted
      BY DEF TypeOK, AccountsBalance, SupplyBacked
    <3> HIDE DEF to, amount
    <3> QED
      BY <1>1, <1>2, <2>1, <3>1, MintSum
  <2>3. PendingAmount'[id] = 0
    BY <1>3, <1>10
  <2> HIDE DEF to, amount, req
  <2>4. LockedDecomposition'
    <3>1. totalLockedOnL1 = PendingTotal(RequestIds) + totalMinted + UnreleasedTotal
      BY DEF AccountsBalance, LockedDecomposition
    <3>2. PendingTotal(RequestIds)' = PendingTotal(RequestIds) - amount
      BY <1>1, <1>3, <1>6, <1>7, <2>3
    <3> QED
      BY <1>1, <1>4, <1>5, <1>7, <2>1, <3>1, <3>2 DEF LockedDecomposition
  <2>5. SupplyBacked'
    BY <1>1, <1>7, <2>1, <2>2 DEF SupplyBacked, AccountsBalance
  <2>6. NoOrphanReservation'
    <3>1. SUFFICES ASSUME NEW a \in Accounts PROVE dailyReserved'[a] <= For1(a)
      BY DEF NoOrphanReservation
    <3>2. dailyReserved'[a] = IF a = to THEN dailyReserved[a] - amount ELSE dailyReserved[a]
      BY <2>1 DEF TypeOK
    <3>3. /\ For(a) \in Nat
          /\ For1(a) = For(a) + ((IF to = a THEN PendingAmount'[id] ELSE 0)
                                   - (IF to = a THEN PendingAmount[id] ELSE 0))
          /\ dailyReserved[a] <= For(a) /\ dailyReserved[a] \in Nat
      BY <1>9
    <3> HIDE DEF For, For1
    <3> QED
      BY <1>1, <1>3, <2>3, <3>2, <3>3
  <2> QED
    BY <1>8, <2>4, <2>5, <2>6 DEF AccountsBalance
<1>11. CASE /\ ~ReachesQuorum(req)
            /\ UNCHANGED <<totalMinted, dailyMinted, dailyReserved, wbaitVars>>
  <2>1. UNCHANGED <<totalMinted, dailyReserved, balanceOf, totalSupply>>
    BY <1>11 DEF wbaitVars
  <2>2. PendingAmount'[id] = amount
    BY <1>3, <1>11
  <2> HIDE DEF to, amount, req
  <2>3. LockedDecomposition'
    <3>1. PendingTotal(RequestIds)' = PendingTotal(RequestIds)
      BY <1>1, <1>3, <1>6, <1>7, <2>2
    <3> QED
      BY <1>4, <1>5, <2>1, <3>1 DEF LockedDecomposition, AccountsBalance
  <2>4. SupplyBacked'
    BY <2>1 DEF SupplyBacked, SupplyAccounted, AccountsBalance
  <2>5. NoOrphanReservation'
    <3>1. SUFFICES ASSUME NEW a \in Accounts PROVE dailyReserved'[a] <= For1(a)
      BY DEF NoOrphanReservation
    <3>3. /\ For(a) \in Nat
          /\ For1(a) = For(a) + ((IF to = a THEN PendingAmount'[id] ELSE 0)
                                   - (IF to = a THEN PendingAmount[id] ELSE 0))
          /\ dailyReserved[a] <= For(a)
      BY <1>9
    <3> HIDE DEF For, For1
    <3> QED
      BY <1>1, <1>3, <2>1, <2>2, <3>3
  <2> QED
    BY <1>8, <2>3, <2>4, <2>5 DEF AccountsBalance
<1> QED
  BY <1>10, <1>11 DEF ConfirmLockMint

(* A call that changes one release changes the unreleased total by what it  *)
(* does to that release.                                                    *)
LEMMA UnreleasedChange ==
  ASSUME TypeOK, TypeOK', NEW i \in DOMAIN burnReleases,
         DOMAIN burnReleases' = DOMAIN burnReleases,
         \A j \in DOMAIN burnReleases \ {i} : burnReleases'[j] = burnReleases[j]
  PROVE  UnreleasedTotal' = UnreleasedTotal + (UnreleasedAmount'[i] - UnreleasedAmount[i])
<1> DEFINE D == DOMAIN burnReleases
<1>1. IsFiniteSet(D) /\ i \in D
  BY FS_Interval DEF TypeOK
<1>2. \A j \in D : UnreleasedAmount[j] \in Int /\ UnreleasedAmount'[j] \in Int
  <2>1. \A j \in D : burnReleases[j] \in BurnRelease /\ burnReleases'[j] \in BurnRelease
    BY DEF TypeOK
  <2> QED
    BY <2>1 DEF UnreleasedAmount, BurnRelease
<1>3. \A j \in D \ {i} : UnreleasedAmount[j] = UnreleasedAmount'[j]
  BY DEF UnreleasedAmount
<1>4. SumFunctionOnSet(UnreleasedAmount', D)
        = SumFunctionOnSet(UnreleasedAmount, D) + (UnreleasedAmount'[i] - UnreleasedAmount[i])
  <2> HIDE DEF D
  <2> QED
    BY <1>1, <1>2, <1>3, SumChange
<1>5. UnreleasedTotal = SumFunctionOnSet(UnreleasedAmount, D)
  BY SumDomains
<1>6. UnreleasedTotal' = SumFunctionOnSet(UnreleasedAmount', D)
  <2>1. DOMAIN UnreleasedAmount' = D
    BY DEF UnreleasedAmount
  <2> QED
    BY <2>1, Zenon DEF UnreleasedTotal, SumFunction
<1> QED
  BY <1>4, <1>5, <1>6

(* A new release adds its amount.                                           *)
LEMMA UnreleasedAppend ==
  ASSUME TypeOK, TypeOK', NEW rel \in BurnRelease, ~rel.executed,
         burnReleases' = Append(burnReleases, rel)
  PROVE  UnreleasedTotal' = UnreleasedTotal + rel.amount
<1> DEFINE D == DOMAIN burnReleases
           n == Len(burnReleases) + 1
<1>1. IsFiniteSet(D)
  BY FS_Interval DEF TypeOK
<1>2. DOMAIN burnReleases' = D \cup {n} /\ n \notin D
  BY DEF TypeOK
<1>3. burnReleases'[n] = rel /\ \A j \in D : burnReleases'[j] = burnReleases[j]
  BY DEF TypeOK
<1>4. /\ UnreleasedAmount'[n] = rel.amount
      /\ \A j \in D : UnreleasedAmount'[j] = UnreleasedAmount[j]
  BY <1>2, <1>3 DEF UnreleasedAmount
<1>5. \A j \in D \cup {n} : UnreleasedAmount'[j] \in Int
  <2>1. \A j \in D : burnReleases[j] \in BurnRelease
    BY DEF TypeOK
  <2>2. \A j \in D : UnreleasedAmount[j] \in Int
    BY <2>1 DEF UnreleasedAmount, BurnRelease
  <2>3. rel.amount \in Int
    BY DEF BurnRelease
  <2> QED
    BY <1>4, <2>2, <2>3
<1>6. SumFunctionOnSet(UnreleasedAmount', D \cup {n})
        = SumFunctionOnSet(UnreleasedAmount', D) + UnreleasedAmount'[n]
  <2> HIDE DEF D, n
  <2> QED
    BY <1>1, <1>2, <1>5, SumAdd
<1>7. SumFunctionOnSet(UnreleasedAmount', D) = SumFunctionOnSet(UnreleasedAmount, D)
  <2> HIDE DEF D, n
  <2> QED
    BY <1>1, <1>4, SumSame
<1>8. UnreleasedTotal = SumFunctionOnSet(UnreleasedAmount, D)
  BY SumDomains
<1>9. UnreleasedTotal' = SumFunctionOnSet(UnreleasedAmount', D \cup {n})
  <2>1. DOMAIN UnreleasedAmount' = D \cup {n}
    BY <1>2 DEF UnreleasedAmount
  <2> QED
    BY <2>1, Zenon DEF UnreleasedTotal, SumFunction
<1> QED
  BY <1>4, <1>6, <1>7, <1>8, <1>9

(* initiateBurnRelease moves its amount from minted to unreleased: the      *)
(* subtraction from totalMinted never reaches its floor, because what a     *)
(* holder burns is part of the supply.                                      *)
LEMMA BurnReleaseBooks ==
  ASSUME TypeOK, TypeOK', AccountsBalance, Recipients,
         NEW caller \in Accounts, NEW amount \in Nat, InitiateBurnRelease(caller, amount)
  PROVE  /\ AccountsBalance' /\ Recipients'
         /\ amount <= totalSupply /\ amount <= totalMinted
         /\ totalMinted' = totalMinted - amount
         /\ totalSupply' = totalSupply - amount
<1> DEFINE rel == [burner |-> caller, amount |-> amount, confirmed |-> {},
                   confirmations |-> 0, executed |-> FALSE]
<1>1. /\ totalMinted' = FloorSubtract(totalMinted, amount)
      /\ burnReleases' = Append(burnReleases, rel)
      /\ UNCHANGED <<totalLockedOnL1, lockRequests, dailyReserved>>
  BY DEF InitiateBurnRelease, lockVars, dailyVars
<1>2. SupplyAccounted' /\ totalSupply' = totalSupply - amount /\ amount <= totalSupply
  <2>1. WBAITTypeOK /\ SupplyAccounted
    BY DEF TypeOK, AccountsBalance, SupplyBacked
  <2> QED
    BY <2>1, BurnSum DEF InitiateBurnRelease, BurnFrom
<1>3. /\ totalSupply \in Int /\ totalMinted \in Nat /\ totalLockedOnL1 \in Nat
      /\ UnreleasedTotal \in Nat /\ PendingTotal(RequestIds) \in Nat
      /\ totalSupply <= totalMinted
  BY SumTypes DEF TypeOK, WBAITTypeOK, AccountsBalance, SupplyBacked
<1>4. amount <= totalMinted /\ totalMinted' = totalMinted - amount
  BY <1>1, <1>2, <1>3 DEF FloorSubtract
<1>5. UnreleasedTotal' = UnreleasedTotal + amount
  <2>1. rel \in BurnRelease /\ ~rel.executed /\ rel.amount = amount
    BY DEF BurnRelease
  <2> HIDE DEF rel
  <2> QED
    BY <1>1, <2>1, UnreleasedAppend
<1>6. /\ PendingTotal(RequestIds)' = PendingTotal(RequestIds)
      /\ NoOrphanReservation'
      /\ Recipients'
  BY <1>1 DEF PendingTotal, PendingAmount, Pending, Requested, Recipients,
              AccountsBalance, NoOrphanReservation
<1>7. LockedDecomposition'
  <2>1. totalLockedOnL1 = PendingTotal(RequestIds) + totalMinted + UnreleasedTotal
    BY DEF AccountsBalance, LockedDecomposition
  <2> QED
    BY <1>1, <1>3, <1>4, <1>5, <1>6, <2>1 DEF LockedDecomposition
<1>8. SupplyBacked'
  BY <1>2, <1>3, <1>4 DEF SupplyBacked
<1> QED
  BY <1>2, <1>4, <1>6, <1>7, <1>8 DEF AccountsBalance

(* What one more confirmation does to a release.                            *)
LEMMA ConfirmedRelease ==
  ASSUME TypeOK, NEW caller, NEW i \in DOMAIN burnReleases, ConfirmBurnRelease(caller, i)
  PROVE  /\ DOMAIN burnReleases' = DOMAIN burnReleases
         /\ \A j \in DOMAIN burnReleases \ {i} : burnReleases'[j] = burnReleases[j]
         /\ burnReleases'[i].amount = burnReleases[i].amount
         /\ burnReleases'[i].executed = ReachesQuorum(burnReleases[i])
         /\ ~burnReleases[i].executed
         /\ burnReleases[i].amount \in Nat
<1>1. burnReleases[i] \in BurnRelease
  BY DEF TypeOK
<1>2. burnReleases' = [burnReleases EXCEPT ![i] = WithConfirmation(burnReleases[i], caller)]
  BY DEF ConfirmBurnRelease
<1>3. /\ DOMAIN burnReleases' = DOMAIN burnReleases
      /\ \A j \in DOMAIN burnReleases \ {i} : burnReleases'[j] = burnReleases[j]
      /\ burnReleases'[i] = WithConfirmation(burnReleases[i], caller)
  BY <1>2 DEF TypeOK
<1>4. ~burnReleases[i].executed /\ burnReleases[i].amount \in Nat
  BY <1>1 DEF ConfirmBurnRelease, MayConfirm, BurnRelease
<1>5. /\ WithConfirmation(burnReleases[i], caller).amount = burnReleases[i].amount
      /\ WithConfirmation(burnReleases[i], caller).executed = ReachesQuorum(burnReleases[i])
  BY <1>1 DEF WithConfirmation, BurnRelease
<1> QED
  BY <1>3, <1>4, <1>5

(* confirmBurnRelease takes the amount out of what is locked when it pays:  *)
(* the subtraction never reaches its floor, because what is not released is *)
(* part of what is locked.                                                  *)
LEMMA ConfirmReleaseBooks ==
  ASSUME TypeOK, TypeOK', AccountsBalance, Recipients,
         NEW caller \in OperatorAddrs, NEW i \in DOMAIN burnReleases,
         ConfirmBurnRelease(caller, i)
  PROVE  /\ AccountsBalance' /\ Recipients'
         /\ burnReleases[i].amount + totalMinted <= totalLockedOnL1
         /\ totalLockedOnL1' = IF ReachesQuorum(burnReleases[i])
                               THEN totalLockedOnL1 - burnReleases[i].amount
                               ELSE totalLockedOnL1
<1> DEFINE rel == burnReleases[i]
           amount == rel.amount
<1>1. /\ DOMAIN burnReleases' = DOMAIN burnReleases
      /\ \A j \in DOMAIN burnReleases \ {i} : burnReleases'[j] = burnReleases[j]
      /\ burnReleases'[i].amount = amount
      /\ burnReleases'[i].executed = ReachesQuorum(rel)
      /\ ~rel.executed
      /\ amount \in Nat
  BY ConfirmedRelease
<1>2. /\ UnreleasedAmount[i] = amount
      /\ UnreleasedAmount'[i] = IF ReachesQuorum(rel) THEN 0 ELSE amount
  BY <1>1 DEF UnreleasedAmount
<1>3. UnreleasedTotal' = UnreleasedTotal + (UnreleasedAmount'[i] - UnreleasedAmount[i])
  BY <1>1, UnreleasedChange
<1>4. UnreleasedTotal \in Nat /\ amount <= UnreleasedTotal
  <2>1. IsFiniteSet(DOMAIN burnReleases)
    BY FS_Interval DEF TypeOK
  <2>2. \A j \in DOMAIN burnReleases : UnreleasedAmount[j] \in Nat
    <3>1. \A j \in DOMAIN burnReleases : burnReleases[j] \in BurnRelease
      BY DEF TypeOK
    <3> QED
      BY <3>1 DEF UnreleasedAmount, BurnRelease
  <2>3. /\ SumFunctionOnSet(UnreleasedAmount, DOMAIN burnReleases) \in Nat
        /\ UnreleasedAmount[i] <= SumFunctionOnSet(UnreleasedAmount, DOMAIN burnReleases)
    BY <2>1, <2>2, PartOfSum
  <2> QED
    BY <1>2, <2>3, SumDomains
<1>5. /\ totalLockedOnL1' = IF ReachesQuorum(rel)
                            THEN FloorSubtract(totalLockedOnL1, amount) ELSE totalLockedOnL1
      /\ UNCHANGED <<totalMinted, lockRequests, dailyReserved, balanceOf, totalSupply>>
  BY DEF ConfirmBurnRelease, lockVars, dailyVars, wbaitVars
<1>6. /\ totalMinted \in Nat /\ totalLockedOnL1 \in Nat /\ PendingTotal(RequestIds) \in Nat
      /\ totalLockedOnL1 = PendingTotal(RequestIds) + totalMinted + UnreleasedTotal
  BY SumTypes DEF TypeOK, AccountsBalance, LockedDecomposition
<1>7. /\ PendingTotal(RequestIds)' = PendingTotal(RequestIds)
      /\ NoOrphanReservation'
      /\ Recipients'
      /\ SupplyBacked'
  BY <1>5 DEF PendingTotal, PendingAmount, Pending, Requested, Recipients, AccountsBalance,
              NoOrphanReservation, SupplyBacked, SupplyAccounted
<1> HIDE DEF amount, rel
<1>8. amount + totalMinted <= totalLockedOnL1
  BY <1>1, <1>4, <1>6
<1>9. totalLockedOnL1' = IF ReachesQuorum(rel) THEN totalLockedOnL1 - amount ELSE totalLockedOnL1
  BY <1>1, <1>5, <1>6, <1>8 DEF FloorSubtract
<1>10. LockedDecomposition'
  BY <1>1, <1>2, <1>3, <1>4, <1>5, <1>6, <1>7, <1>9 DEF LockedDecomposition
<1> QED
  BY <1>7, <1>8, <1>9, <1>10 DEF AccountsBalance, amount, rel

(* Every call keeps the accounts.                                           *)
LEMMA BooksStep ==
  TypeOK /\ TypeOK' /\ AccountsBalance /\ Recipients /\ [Next]_vars
    => AccountsBalance' /\ Recipients'
<1> SUFFICES ASSUME TypeOK, TypeOK', AccountsBalance, Recipients, [Next]_vars
             PROVE  AccountsBalance' /\ Recipients'
  OBVIOUS
<1> DEFINE Kept == AccountsBalance' /\ Recipients'
<1>1. Amounts \subseteq Nat
  BY WBAITAssumption DEF WBAITAssumption
<1>2. ASSUME UNCHANGED books PROVE Kept
  BY <1>2, FrameBooks
<1>3. CASE OperatorNext
  <2>1. PICK caller \in OperatorAddrs :
          \/ \E id \in RequestIds : ConfirmLockMint(caller, id)
          \/ \E i \in DOMAIN burnReleases : ConfirmBurnRelease(caller, i)
          \/ \E id \in RequestIds, tx \in L1TxIds \cup {ZeroTx},
                to \in Accounts \cup {ZeroAddress}, amount \in Amounts :
                  RequestLockMint(caller, id, tx, to, amount)
    BY <1>3, Zenon DEF OperatorNext
  <2>2. ASSUME NEW id \in RequestIds, ConfirmLockMint(caller, id) PROVE Kept
    BY <2>2, ConfirmMintBooks
  <2>3. ASSUME NEW i \in DOMAIN burnReleases, ConfirmBurnRelease(caller, i) PROVE Kept
    BY <2>3, ConfirmReleaseBooks
  <2>4. ASSUME NEW id \in RequestIds, NEW tx, NEW to \in Accounts \cup {ZeroAddress},
               NEW amount \in Amounts, RequestLockMint(caller, id, tx, to, amount)
        PROVE  Kept
    BY <1>1, <2>4, RequestBooks
  <2> QED
    BY <2>1, <2>2, <2>3, <2>4
<1>4. ASSUME NEW user \in Accounts, NEW amount \in Amounts, InitiateBurnRelease(user, amount)
      PROVE  Kept
  BY <1>1, <1>4, BurnReleaseBooks
<1>5. CASE PauseBridge \/ UnpauseBridge \/ Tick
  <2>1. UNCHANGED books
    BY <1>5 DEF PauseBridge, UnpauseBridge, Tick, books, lockVars, dailyVars, wbaitVars
  <2> QED
    BY <1>2, <2>1
<1>6. CASE OwnerNext
  <2>1. UNCHANGED books
    BY <1>6 DEF OwnerNext, ProposeOperatorUpdate, ExecuteOperatorUpdate,
                CancelOperatorUpdate, books, lockVars, dailyVars, wbaitVars
  <2> QED
    BY <1>2, <2>1
<1>7. CASE WBAITNext /\ UNCHANGED bridgeVars
  <2>1. WBAITTypeOK /\ SupplyAccounted /\ totalSupply <= totalMinted /\ totalMinted \in Nat
    BY DEF TypeOK, AccountsBalance, SupplyBacked
  <2>2. SupplyAccounted' /\ totalSupply' <= totalSupply
    BY <1>7, <2>1, TokenSum
  <2>3. UNCHANGED <<lockRequests, burnReleases, totalLockedOnL1, totalMinted, dailyReserved>>
    BY <1>7 DEF bridgeVars, totalVars, lockVars, dailyVars
  <2>4. SupplyBacked'
    <3>1. totalSupply \in Int /\ totalSupply' \in Int
      BY DEF TypeOK, WBAITTypeOK
    <3> QED
      BY <2>1, <2>2, <2>3, <3>1 DEF SupplyBacked
  <2>5. LockedDecomposition' /\ NoOrphanReservation' /\ Recipients'
    BY <2>3 DEF AccountsBalance, LockedDecomposition, NoOrphanReservation, PendingTotal,
                PendingAmount, Pending, Requested, Recipients, UnreleasedTotal,
                UnreleasedAmount
  <2> QED
    BY <2>4, <2>5 DEF AccountsBalance
<1>8. CASE UNCHANGED vars
  <2>1. UNCHANGED books
    BY <1>8 DEF vars, bridgeVars, books, lockVars, dailyVars, wbaitVars
  <2> QED
    BY <1>2, <2>1
<1> QED
  BY <1>3, <1>4, <1>5, <1>6, <1>7, <1>8 DEF Next

(* What is locked on L1 is pending, minted or not yet released; the supply  *)
(* is the sum of the balances and is backed by what was minted; and a       *)
(* reservation never outlives its request.  Neither floor subtraction of    *)
(* the contracts reaches its floor.                                         *)
THEOREM AccountsCorrect == Spec => []AccountsBalance
<1> DEFINE IInv == TypeOK /\ OperatorTable /\ AccountsBalance /\ Recipients
<1>1. Init => IInv
  BY InitType, InitTable, InitBooks
<1>2. IInv /\ [Next]_vars => IInv'
  BY TypeStep, TableStep, BooksStep
<1> QED
  BY <1>1, <1>2, PTL DEF Spec

-----------------------------------------------------------------------------
(* The refinement *)

(* The deposit of a transaction is the one request it was used in, or none. *)
DepositsAreRequests ==
  OneMintPerL1Tx =>
    \A tx \in L1TxIds :
      /\ \A id \in RequestIds : Requested(id) /\ lockRequests[id].l1TxId = tx =>
            DepositOf(tx) = [amount |-> lockRequests[id].amount,
                             issued |-> lockRequests[id].executed]
      /\ (\A id \in RequestIds : Requested(id) => lockRequests[id].l1TxId # tx) =>
            DepositOf(tx) = [amount |-> 0, issued |-> FALSE]

(* CHOOSE takes the only element there is.                                  *)
LEMMA DepositIs == DepositsAreRequests
<1> SUFFICES ASSUME OneMintPerL1Tx, NEW tx \in L1TxIds
             PROVE  /\ \A id \in RequestIds : Requested(id) /\ lockRequests[id].l1TxId = tx =>
                          DepositOf(tx) = [amount |-> lockRequests[id].amount,
                                           issued |-> lockRequests[id].executed]
                    /\ (\A id \in RequestIds : Requested(id) => lockRequests[id].l1TxId # tx) =>
                          DepositOf(tx) = [amount |-> 0, issued |-> FALSE]
  BY DEF DepositsAreRequests
<1> DEFINE ids == {id \in RequestIds : Requested(id) /\ lockRequests[id].l1TxId = tx}
           some == CHOOSE id \in ids : TRUE
<1>1. ASSUME NEW id \in RequestIds, Requested(id), lockRequests[id].l1TxId = tx
      PROVE  DepositOf(tx) = [amount |-> lockRequests[id].amount,
                              issued |-> lockRequests[id].executed]
  <2>1. ids # {} /\ \A x \in ids : x = id
    BY <1>1 DEF OneMintPerL1Tx
  <2>2. some = id
    <3> HIDE DEF ids
    <3> QED
      BY <2>1
  <2>3. DepositOf(tx) = [amount |-> lockRequests[some].amount,
                         issued |-> lockRequests[some].executed]
    <3>1. DepositOf(tx) = IF ids = {} THEN [amount |-> 0, issued |-> FALSE]
                          ELSE [amount |-> lockRequests[some].amount,
                                issued |-> lockRequests[some].executed]
      BY Zenon DEF DepositOf
    <3> HIDE DEF ids, some
    <3> QED
      BY <2>1, <3>1
  <2> HIDE DEF some
  <2> QED
    BY <2>2, <2>3
<1>2. ASSUME \A id \in RequestIds : Requested(id) => lockRequests[id].l1TxId # tx
      PROVE  DepositOf(tx) = [amount |-> 0, issued |-> FALSE]
  <2>1. ids = {}
    BY <1>2
  <2> QED
    BY <2>1, Zenon DEF DepositOf
<1> QED
  BY <1>1, <1>2

(* ... in the next state too.                                               *)
LEMMA DepositIsNext == DepositsAreRequests'
BY DepositIs, PTL

(* A call that keeps what was requested and executed keeps the deposits.    *)
LEMMA DepositsKept ==
  ASSUME OneMintPerL1Tx, OneMintPerL1Tx',
         \A x \in RequestIds : /\ lockRequests'[x].amount = lockRequests[x].amount
                               /\ lockRequests'[x].l1TxId = lockRequests[x].l1TxId
                               /\ lockRequests'[x].executed = lockRequests[x].executed
  PROVE  Deposited' = Deposited
<1>1. ASSUME NEW tx \in L1TxIds PROVE DepositOf(tx)' = DepositOf(tx)
  <2>1. \A x \in RequestIds : Requested(x)' <=> Requested(x)
    BY DEF Requested
  <2>2. CASE \E id \in RequestIds : Requested(id) /\ lockRequests[id].l1TxId = tx
    <3>1. PICK id \in RequestIds : Requested(id) /\ lockRequests[id].l1TxId = tx
      BY <2>2
    <3>2. DepositOf(tx) = [amount |-> lockRequests[id].amount,
                           issued |-> lockRequests[id].executed]
      BY <3>1, DepositIs DEF DepositsAreRequests
    <3>3. DepositOf(tx)' = [amount |-> lockRequests'[id].amount,
                            issued |-> lockRequests'[id].executed]
      BY <2>1, <3>1, DepositIsNext DEF DepositsAreRequests
    <3> QED
      BY <3>2, <3>3
  <2>3. CASE \A id \in RequestIds : Requested(id) => lockRequests[id].l1TxId # tx
    <3>1. DepositOf(tx) = [amount |-> 0, issued |-> FALSE]
      BY <2>3, DepositIs DEF DepositsAreRequests
    <3>2. DepositOf(tx)' = [amount |-> 0, issued |-> FALSE]
      BY <2>1, <2>3, DepositIsNext DEF DepositsAreRequests
    <3> QED
      BY <3>1, <3>2
  <2> QED
    BY <2>2, <2>3
<1> QED
  BY <1>1 DEF Deposited

(* A call that writes one request changes the deposit of its transaction    *)
(* alone.                                                                   *)
LEMMA DepositChanged ==
  ASSUME OneMintPerL1Tx, OneMintPerL1Tx', NEW id \in RequestIds,
         \A x \in RequestIds \ {id} : lockRequests'[x] = lockRequests[x],
         Requested(id)',
         Requested(id) => lockRequests'[id].l1TxId = lockRequests[id].l1TxId
  PROVE  \A tx \in L1TxIds :
           DepositOf(tx)' = IF tx = lockRequests'[id].l1TxId
                            THEN [amount |-> lockRequests'[id].amount,
                                  issued |-> lockRequests'[id].executed]
                            ELSE DepositOf(tx)
<1> SUFFICES ASSUME NEW tx \in L1TxIds
             PROVE  DepositOf(tx)' = IF tx = lockRequests'[id].l1TxId
                                     THEN [amount |-> lockRequests'[id].amount,
                                           issued |-> lockRequests'[id].executed]
                                     ELSE DepositOf(tx)
  OBVIOUS
<1>1. CASE tx = lockRequests'[id].l1TxId
  BY <1>1, DepositIsNext DEF DepositsAreRequests
<1>2. ASSUME tx # lockRequests'[id].l1TxId,
             NEW x \in RequestIds, Requested(x), lockRequests[x].l1TxId = tx
      PROVE  DepositOf(tx)' = DepositOf(tx)
  <2>1. x # id
    BY <1>2
  <2>2. lockRequests'[x] = lockRequests[x] /\ Requested(x)'
    BY <1>2, <2>1 DEF Requested
  <2>3. DepositOf(tx) = [amount |-> lockRequests[x].amount, issued |-> lockRequests[x].executed]
    BY <1>2, DepositIs DEF DepositsAreRequests
  <2>4. DepositOf(tx)' = [amount |-> lockRequests'[x].amount,
                          issued |-> lockRequests'[x].executed]
    BY <1>2, <2>2, DepositIsNext DEF DepositsAreRequests
  <2> QED
    BY <2>2, <2>3, <2>4
<1>3. ASSUME tx # lockRequests'[id].l1TxId,
             \A x \in RequestIds : Requested(x) => lockRequests[x].l1TxId # tx
      PROVE  DepositOf(tx)' = DepositOf(tx)
  <2>1. \A x \in RequestIds : Requested(x)' => lockRequests'[x].l1TxId # tx
    BY <1>3 DEF Requested
  <2>2. DepositOf(tx) = [amount |-> 0, issued |-> FALSE]
    BY <1>3, DepositIs DEF DepositsAreRequests
  <2>3. DepositOf(tx)' = [amount |-> 0, issued |-> FALSE]
    BY <2>1, DepositIsNext DEF DepositsAreRequests
  <2> QED
    BY <2>2, <2>3
<1> QED
  BY <1>1, <1>2, <1>3

(* What the steps of the refinement rest on.                                *)
Sound == TypeOK /\ OperatorTable /\ AccountsBalance /\ Recipients /\ OneMintPerL1Tx

(* requestLockMint claims a deposit.                                        *)
LEMMA RequestClaims ==
  ASSUME Sound, Sound', NEW caller, NEW id \in RequestIds, NEW tx \in L1TxIds \cup {ZeroTx},
         NEW to \in Accounts \cup {ZeroAddress}, NEW amount \in Amounts,
         RequestLockMint(caller, id, tx, to, amount)
  PROVE  tx \in L1TxIds /\ amount \in 1..MAX_UINT /\ Asset!Claim(tx, amount)
<1>1. tx \in L1TxIds /\ amount \in 1..MAX_UINT
  <2>1. amount \in 0..MAX_UINT /\ MAX_UINT \in Nat
    BY WBAITAssumption DEF WBAITAssumption
  <2> QED
    BY <2>1 DEF RequestLockMint, FreshTx
<1>2. /\ \A x \in RequestIds \ {id} : lockRequests'[x] = lockRequests[x]
      /\ lockRequests'[id].l1TxId = tx
      /\ lockRequests'[id].amount = amount
      /\ lockRequests'[id].executed = FALSE
      /\ lockRequests[id].amount = 0
  <2>1. lockRequests[id] \in LockRequest
    BY DEF Sound, TypeOK
  <2> QED
    BY <2>1 DEF RequestLockMint, Sound, TypeOK, LockRequest
<1>3. Requested(id)' /\ ~Requested(id)
  BY <1>1, <1>2 DEF Requested
<1>4. DepositOf(tx) = [amount |-> 0, issued |-> FALSE]
  <2>1. tx \notin consumedL1TxIds
    BY DEF RequestLockMint, FreshTx
  <2>2. \A x \in RequestIds : Requested(x) => lockRequests[x].l1TxId # tx
    BY <2>1 DEF Sound, OneMintPerL1Tx
  <2> QED
    BY <1>1, <2>2, DepositIs DEF DepositsAreRequests, Sound
<1>5. \A t \in L1TxIds :
        DepositOf(t)' = IF t = tx THEN [amount |-> amount, issued |-> FALSE] ELSE DepositOf(t)
  BY <1>2, <1>3, DepositChanged DEF Sound
<1>6. Deposited' = [Deposited EXCEPT ![tx].amount = amount]
  <2> DEFINE old == Deposited[tx]
             new == [amount |-> amount, issued |-> FALSE]
  <2>1. /\ Deposited \in [L1TxIds -> {Deposited[t] : t \in L1TxIds}]
        /\ DOMAIN Deposited' = L1TxIds
        /\ \A t \in L1TxIds : Deposited'[t] = IF t = tx THEN new ELSE Deposited[t]
    BY <1>5 DEF Deposited
  <2>2. old = [amount |-> 0, issued |-> FALSE]
    BY <1>1, <1>4 DEF Deposited
  <2> HIDE DEF old, new
  <2>3. [old EXCEPT !.amount = amount] = new
    <3> DEFINE no == FALSE
    <3>1. old = [amount |-> 0, issued |-> no] /\ new = [amount |-> amount, issued |-> no]
      BY <2>2 DEF new
    <3> HIDE DEF no
    <3>2. [old EXCEPT !.amount = amount] \in [amount : {amount}, issued : {no}]
      BY <3>1
    <3>3. \A r \in [amount : {amount}, issued : {no}] : r = [amount |-> amount, issued |-> no]
      OBVIOUS
    <3> QED
      BY <3>1, <3>2, <3>3
  <2>4. Deposited' = [Deposited EXCEPT ![tx] = new]
    BY <1>1, <2>1 DEF Deposited
  <2> QED
    BY <2>3, <2>4 DEF old
<1>7. Redeemed' = Redeemed
  BY DEF RequestLockMint, Redeemed
<1>8. Deposited[tx].amount = 0
  BY <1>1, <1>4 DEF Deposited
<1> QED
  BY <1>1, <1>6, <1>7, <1>8 DEF Asset!Claim, RequestLockMint, wbaitVars

(* confirmLockMint issues the deposit when it executes.                     *)
LEMMA ConfirmIssues ==
  ASSUME Sound, Sound', NEW caller, NEW id \in RequestIds, ConfirmLockMint(caller, id)
  PROVE  (\E d \in L1TxIds : Asset!Issue(d)) \/ UNCHANGED Asset!vars
<1> DEFINE req == lockRequests[id]
           tx == req.l1TxId
<1>1. /\ \A x \in RequestIds \ {id} : lockRequests'[x] = lockRequests[x]
      /\ lockRequests'[id].amount = req.amount
      /\ lockRequests'[id].executed = ReachesQuorum(req)
      /\ ~req.executed
      /\ req.amount \in Nat /\ req.amount > 0
  BY ConfirmedRequest DEF Sound
<1>2. lockRequests'[id].l1TxId = tx
  <2>1. lockRequests[id] \in LockRequest
    BY DEF Sound, TypeOK
  <2> QED
    BY <2>1 DEF ConfirmLockMint, WithConfirmation, LockRequest, Sound, TypeOK
<1>3. Requested(id) /\ Requested(id)'
  BY <1>1 DEF Requested
<1>4. tx \in L1TxIds
  BY <1>3 DEF Sound, OneMintPerL1Tx, TypeOK
<1>5. Redeemed' = Redeemed /\ totalLockedOnL1' = totalLockedOnL1
  BY DEF ConfirmLockMint, Redeemed
<1>6. CASE ReachesQuorum(req) /\ ExecuteLockMint(req)
  <2>1. /\ totalMinted' = totalMinted + req.amount
        /\ totalMinted + req.amount <= totalLockedOnL1
        /\ totalSupply' = totalSupply + req.amount
    <3>1. WBAITTypeOK /\ SupplyAccounted /\ req.recipient \in Accounts
      BY <1>3 DEF Sound, TypeOK, AccountsBalance, SupplyBacked, Recipients
    <3>2. Mint(Bridge, req.recipient, req.amount)
      BY <1>6 DEF ExecuteLockMint
    <3>3. totalSupply' = totalSupply + req.amount
      BY <1>1, <3>1, <3>2, MintSum
    <3> QED
      BY <1>6, <3>3 DEF ExecuteLockMint
  <2>2. DepositOf(tx) = [amount |-> req.amount, issued |-> FALSE]
    <3>1. DepositOf(tx) = [amount |-> req.amount, issued |-> req.executed]
      BY <1>3, <1>4, DepositIs DEF DepositsAreRequests, Sound
    <3>2. req.executed = FALSE
      BY <1>1 DEF Sound, TypeOK, LockRequest
    <3> QED
      BY <3>1, <3>2
  <2>3. \A t \in L1TxIds :
          DepositOf(t)' = IF t = tx THEN [amount |-> req.amount, issued |-> TRUE]
                          ELSE DepositOf(t)
    <3>1. lockRequests'[id].executed = TRUE
      BY <1>1, <1>6
    <3> QED
      BY <1>1, <1>2, <1>3, <3>1, DepositChanged DEF Sound
  <2>4. Deposited' = [Deposited EXCEPT ![tx].issued = TRUE]
    <3> DEFINE D(t) == DepositOf(t)
               D1(t) == DepositOf(t)'
    <3>1. \A t \in L1TxIds : D1(t) = IF t = tx THEN [D(tx) EXCEPT !.issued = TRUE] ELSE D(t)
      BY <2>2, <2>3
    <3>2. Deposited = [t \in L1TxIds |-> D(t)] /\ Deposited' = [t \in L1TxIds |-> D1(t)]
      BY DEF Deposited
    <3> HIDE DEF D, D1, tx
    <3> QED
      BY <1>4, <3>1, <3>2
  <2>5. Deposited[tx].amount = req.amount /\ ~Deposited[tx].issued
    BY <1>4, <2>2 DEF Deposited
  <2>6. Asset!Issue(tx)
    <3> HIDE DEF tx, req
    <3> QED
      BY <1>1, <1>5, <2>1, <2>4, <2>5 DEF Asset!Issue
  <2> QED
    BY <1>4, <2>6
<1>7. CASE /\ ~ReachesQuorum(req)
           /\ UNCHANGED <<totalMinted, dailyMinted, dailyReserved, wbaitVars>>
  <2>1. \A x \in RequestIds : /\ lockRequests'[x].amount = lockRequests[x].amount
                              /\ lockRequests'[x].l1TxId = lockRequests[x].l1TxId
                              /\ lockRequests'[x].executed = lockRequests[x].executed
    <3>1. req.executed = FALSE /\ lockRequests'[id].executed = FALSE
      BY <1>1, <1>7 DEF Sound, TypeOK, LockRequest
    <3> QED
      BY <1>1, <1>2, <3>1
  <2>2. Deposited' = Deposited
    BY <2>1, DepositsKept DEF Sound
  <2> QED
    BY <1>5, <1>7, <2>2 DEF Asset!vars, wbaitVars
<1> QED
  BY <1>6, <1>7 DEF ConfirmLockMint

(* initiateBurnRelease redeems.                                             *)
LEMMA BurnRedeems ==
  ASSUME Sound, Sound', NEW caller \in Accounts, NEW amount \in Amounts,
         InitiateBurnRelease(caller, amount)
  PROVE  amount \in 1..MAX_UINT /\ Asset!Redeem(amount)
<1>1. amount \in Nat /\ amount \in 1..MAX_UINT
  <2>1. amount \in 0..MAX_UINT /\ MAX_UINT \in Nat
    BY WBAITAssumption DEF WBAITAssumption
  <2> QED
    BY <2>1 DEF InitiateBurnRelease
<1>2. /\ amount <= totalSupply /\ amount <= totalMinted
      /\ totalMinted' = totalMinted - amount
      /\ totalSupply' = totalSupply - amount
  BY <1>1, BurnReleaseBooks DEF Sound
<1>3. Deposited' = Deposited
  BY DepositsKept DEF Sound, InitiateBurnRelease, lockVars
<1>4. Redeemed' = Append(Redeemed, [amount |-> amount, paid |-> FALSE])
  <2> DEFINE rel == [burner |-> caller, amount |-> amount, confirmed |-> {},
                     confirmations |-> 0, executed |-> FALSE]
             R(r) == [amount |-> r.amount, paid |-> r.executed]
             n == Len(burnReleases)
  <2>1. burnReleases' = Append(burnReleases, rel) /\ n \in Nat /\ DOMAIN burnReleases = 1..n
    BY DEF InitiateBurnRelease, Sound, TypeOK
  <2>2. /\ DOMAIN burnReleases' = 1..(n + 1)
        /\ burnReleases'[n + 1] = rel
        /\ \A i \in 1..n : burnReleases'[i] = burnReleases[i]
    <3> HIDE DEF rel
    <3> QED
      BY <2>1 DEF Sound, TypeOK
  <2>3. R(rel) = [amount |-> amount, paid |-> FALSE]
    OBVIOUS
  <2>4. /\ Redeemed = [i \in 1..n |-> R(burnReleases[i])]
        /\ Redeemed' = [i \in 1..(n + 1) |-> R(burnReleases'[i])]
    BY <2>1, <2>2 DEF Redeemed
  <2> HIDE DEF rel, R, n
  <2> DEFINE S == [i \in 1..n |-> R(burnReleases[i])]
             x == [amount |-> amount, paid |-> FALSE]
  <2>5. Len(S) = n /\ S \in Seq({S[i] : i \in 1..n})
    BY <2>1
  <2>6. Append(S, x) = [i \in 1..(n + 1) |-> IF i = n + 1 THEN x ELSE S[i]]
    BY <2>1, <2>5
  <2>7. ASSUME NEW i \in 1..(n + 1)
        PROVE  R(burnReleases'[i]) = IF i = n + 1 THEN x ELSE S[i]
    <3>1. CASE i = n + 1
      BY <2>2, <2>3, <3>1
    <3>2. CASE i # n + 1
      <4>1. i \in 1..n
        BY <2>1, <3>2
      <4> QED
        BY <2>2, <3>2, <4>1
    <3> QED
      BY <3>1, <3>2
  <2> QED
    BY <2>4, <2>6, <2>7
<1> QED
  BY <1>1, <1>2, <1>3, <1>4 DEF Asset!Redeem, InitiateBurnRelease

(* confirmBurnRelease pays when it executes.                                *)
LEMMA ConfirmPays ==
  ASSUME Sound, Sound', NEW caller \in OperatorAddrs, NEW i \in DOMAIN burnReleases,
         ConfirmBurnRelease(caller, i)
  PROVE  (\E j \in DOMAIN Redeemed : Asset!Pay(j)) \/ UNCHANGED Asset!vars
<1> DEFINE rel == burnReleases[i]
<1>1. /\ DOMAIN burnReleases' = DOMAIN burnReleases
      /\ \A j \in DOMAIN burnReleases \ {i} : burnReleases'[j] = burnReleases[j]
      /\ burnReleases'[i].amount = rel.amount
      /\ burnReleases'[i].executed = ReachesQuorum(rel)
      /\ ~rel.executed
      /\ rel.amount \in Nat
  BY ConfirmedRelease DEF Sound
<1>2. /\ rel.amount + totalMinted <= totalLockedOnL1
      /\ totalLockedOnL1' = IF ReachesQuorum(rel) THEN totalLockedOnL1 - rel.amount
                            ELSE totalLockedOnL1
  BY ConfirmReleaseBooks DEF Sound
<1>3. rel.executed = FALSE
  BY <1>1 DEF Sound, TypeOK, BurnRelease
<1>4. Deposited' = Deposited
  BY DepositsKept DEF Sound, ConfirmBurnRelease, lockVars
<1>5. UNCHANGED <<totalMinted, totalSupply>>
  BY DEF ConfirmBurnRelease, wbaitVars
<1> DEFINE R(r) == [amount |-> r.amount, paid |-> r.executed]
           D == DOMAIN burnReleases
<1>6. Redeemed = [j \in D |-> R(burnReleases[j])] /\ Redeemed' = [j \in D |-> R(burnReleases'[j])]
  BY <1>1 DEF Redeemed
<1>7. CASE ReachesQuorum(rel)
  <2> DEFINE old == Redeemed[i]
             new == [amount |-> rel.amount, paid |-> TRUE]
  <2>1. burnReleases'[i].executed = TRUE
    BY <1>1, <1>7
  <2>2. R(burnReleases'[i]) = new /\ old = [amount |-> rel.amount, paid |-> FALSE]
    BY <1>1, <1>3, <1>6, <2>1
  <2> HIDE DEF old, new, R, rel
  <2>3. [old EXCEPT !.paid = TRUE] = new
    <3> DEFINE no == FALSE
               yes == TRUE
               amount == rel.amount
    <3>1. old = [amount |-> amount, paid |-> no] /\ new = [amount |-> amount, paid |-> yes]
      BY <2>2 DEF new
    <3> HIDE DEF no, yes, amount
    <3>2. [old EXCEPT !.paid = yes] \in [amount : {amount}, paid : {yes}]
      BY <3>1
    <3>3. \A r \in [amount : {amount}, paid : {yes}] : r = [amount |-> amount, paid |-> yes]
      OBVIOUS
    <3>4. [old EXCEPT !.paid = yes] = new
      BY <3>1, <3>2, <3>3
    <3> QED
      BY <3>4, Zenon DEF yes
  <2>4. Redeemed' = [Redeemed EXCEPT ![i] = new]
    BY <1>1, <1>6, <2>2
  <2>5. Redeemed' = [Redeemed EXCEPT ![i].paid = TRUE]
    BY <2>3, <2>4 DEF old
  <2> USE DEF R, rel
  <2>6. Redeemed[i].amount = rel.amount /\ ~Redeemed[i].paid /\ i \in DOMAIN Redeemed
    BY <1>3, <1>6
  <2>7. Asset!Pay(i)
    <3> HIDE DEF rel, R
    <3> QED
      BY <1>2, <1>4, <1>5, <1>7, <2>5, <2>6 DEF Asset!Pay
  <2> QED
    BY <2>6, <2>7
<1>8. CASE ~ReachesQuorum(rel)
  <2>1. R(burnReleases'[i]) = R(burnReleases[i])
    <3>1. burnReleases'[i].executed = FALSE /\ burnReleases'[i].amount = burnReleases[i].amount
      BY <1>1, <1>8
    <3> QED
      BY <1>3, <3>1
  <2>2. Redeemed' = Redeemed
    <3> HIDE DEF R
    <3> QED
      BY <1>1, <1>6, <2>1
  <2> QED
    BY <1>2, <1>4, <1>5, <1>8, <2>2 DEF Asset!vars
<1> QED
  BY <1>7, <1>8

(* A call of the token alone discards units or changes nothing an asset is. *)
LEMMA TokenDiscards ==
  ASSUME Sound, Sound', WBAITNext, UNCHANGED bridgeVars
  PROVE  (\E amount \in 1..MAX_UINT : Asset!Discard(amount)) \/ UNCHANGED Asset!vars
<1>1. /\ Deposited' = Deposited /\ Redeemed' = Redeemed
      /\ UNCHANGED <<totalLockedOnL1, totalMinted>>
  <2>1. UNCHANGED <<lockRequests, burnReleases, totalLockedOnL1, totalMinted>>
    BY DEF bridgeVars, lockVars, totalVars
  <2>2. Deposited' = Deposited
    BY <2>1, DepositsKept DEF Sound
  <2> QED
    BY <2>1, <2>2 DEF Redeemed
<1>2. ASSUME totalSupply' = totalSupply PROVE UNCHANGED Asset!vars
  BY <1>1, <1>2 DEF Asset!vars
<1>3. totalSupply \in Int /\ MAX_UINT \in Nat /\ Amounts \subseteq 0..MAX_UINT
      /\ ZeroAddress \notin Accounts
  BY WBAITAssumption DEF Sound, TypeOK, WBAITTypeOK, WBAITAssumption
<1>4. ASSUME NEW owner \in Accounts, NEW amount \in Amounts, Burn(owner, amount)
      PROVE  (\E n \in 1..MAX_UINT : Asset!Discard(n)) \/ UNCHANGED Asset!vars
  <2>1. amount \in Nat /\ amount \in 0..MAX_UINT
    BY <1>3
  <2>2. totalSupply' = totalSupply - amount /\ amount <= totalSupply
    BY <1>4, <2>1, BurnSum DEF Burn, Sound, TypeOK, AccountsBalance, SupplyBacked
  <2>3. CASE amount = 0
    BY <1>2, <1>3, <2>2, <2>3
  <2>4. CASE amount # 0
    <3>1. amount \in 1..MAX_UINT
      BY <1>3, <2>1, <2>4
    <3>2. Asset!Discard(amount)
      BY <1>1, <2>2 DEF Asset!Discard
    <3> QED
      BY <3>1, <3>2
  <2> QED
    BY <2>3, <2>4
<1>5. ASSUME NEW owner \in Accounts, NEW to \in Accounts, NEW amount, Transfer(owner, to, amount)
      PROVE  UNCHANGED Asset!vars
  <2>1. totalSupply' = totalSupply
    BY <1>3, <1>5 DEF Transfer, Update
  <2> QED
    BY <1>2, <2>1
<1>6. ASSUME NEW owner, NEW amount, Approve(owner, amount)
      PROVE  UNCHANGED Asset!vars
  BY <1>2, <1>6 DEF Approve
<1>7. CASE PauseWBAIT \/ UnpauseWBAIT \/ InitializeBridgeLock(Bridge)
  BY <1>2, <1>7 DEF PauseWBAIT, UnpauseWBAIT, InitializeBridgeLock
<1>8. CASE HolderNext
  <2>1. PICK owner \in Accounts, amount \in Amounts :
          \/ Burn(owner, amount)
          \/ Approve(owner, amount)
          \/ Approve(owner, MAX_UINT)
          \/ \E to \in Accounts : Transfer(owner, to, amount)
    BY <1>8, Zenon DEF HolderNext
  <2> QED
    BY <1>4, <1>5, <1>6, <2>1
<1> QED
  BY <1>7, <1>8 DEF WBAITNext

(* Every step of the two contracts is a step of a wrapped asset, or nothing *)
(* an asset is changes.                                                     *)
LEMMA AssetStep == Sound /\ Sound' /\ [Next]_vars => [Asset!Next]_(Asset!vars)
<1> SUFFICES ASSUME Sound, Sound', [Next]_vars
             PROVE  Asset!Next \/ UNCHANGED Asset!vars
  OBVIOUS
<1> DEFINE Goal == Asset!Next \/ UNCHANGED Asset!vars
<1>1. ASSUME UNCHANGED <<lockRequests, burnReleases, totalVars, totalSupply>>
      PROVE  Goal
  <2>1. Deposited' = Deposited
    BY <1>1, DepositsKept DEF Sound
  <2>2. Redeemed' = Redeemed
    BY <1>1 DEF Redeemed
  <2> QED
    BY <1>1, <2>1, <2>2 DEF Asset!vars, totalVars
<1>2. ASSUME NEW caller \in OperatorAddrs, NEW id \in RequestIds,
             NEW tx \in L1TxIds \cup {ZeroTx}, NEW to \in Accounts \cup {ZeroAddress},
             NEW amount \in Amounts, RequestLockMint(caller, id, tx, to, amount)
      PROVE  Goal
  BY <1>2, RequestClaims DEF Asset!Next
<1>3. ASSUME NEW caller \in OperatorAddrs, NEW id \in RequestIds, ConfirmLockMint(caller, id)
      PROVE  Goal
  BY <1>3, ConfirmIssues DEF Asset!Next
<1>4. ASSUME NEW caller \in OperatorAddrs, NEW i \in DOMAIN burnReleases,
             ConfirmBurnRelease(caller, i)
      PROVE  Goal
  BY <1>4, ConfirmPays DEF Asset!Next
<1>5. ASSUME NEW user \in Accounts, NEW amount \in Amounts, InitiateBurnRelease(user, amount)
      PROVE  Goal
  BY <1>5, BurnRedeems DEF Asset!Next
<1>6. CASE WBAITNext /\ UNCHANGED bridgeVars
  BY <1>6, TokenDiscards DEF Asset!Next
<1>7. CASE OperatorNext
  BY <1>2, <1>3, <1>4, <1>7 DEF OperatorNext
<1>8. CASE PauseBridge \/ UnpauseBridge \/ Tick
  BY <1>1, <1>8 DEF PauseBridge, UnpauseBridge, Tick, lockVars, wbaitVars
<1>9. CASE OwnerNext
  BY <1>1, <1>9 DEF OwnerNext, ProposeOperatorUpdate, ExecuteOperatorUpdate,
                    CancelOperatorUpdate, lockVars, wbaitVars
<1>10. CASE UNCHANGED vars
  BY <1>1, <1>10 DEF vars, bridgeVars, lockVars, wbaitVars
<1> QED
  BY <1>5, <1>6, <1>7, <1>8, <1>9, <1>10 DEF Next

(* The constructors start an asset with no deposit, unit or redemption.     *)
LEMMA AssetInit == Init => Asset!Init
<1> SUFFICES ASSUME Init PROVE Asset!Init
  OBVIOUS
<1>1. OneMintPerL1Tx /\ \A id \in RequestIds : ~Requested(id)
  BY InitOneMint DEF Init, Requested, EmptyLockRequest
<1>2. \A tx \in L1TxIds : DepositOf(tx) = [amount |-> 0, issued |-> FALSE]
  BY <1>1, DepositIs DEF DepositsAreRequests
<1>3. Deposited = [tx \in L1TxIds |-> [amount |-> 0, issued |-> FALSE]]
  BY <1>2 DEF Deposited
<1>4. Redeemed = <<>>
  BY DEF Redeemed, Init
<1> QED
  BY <1>3, <1>4 DEF Asset!Init, Init, WBAITInit

(* BridgeLock with WBAIT implements WrappedAsset, for any number of         *)
(* operators, accounts, requests and amounts: whatever operators, holders,  *)
(* the owner and the timelock do, a deposit is issued at most once, a       *)
(* redemption is paid at most once and nothing is issued or paid beyond     *)
(* what is in custody.                                                      *)
THEOREM ImplementsCorrect == Spec => ImplementsWrappedAsset
<1>1. Init => Sound
  BY InitType, InitTable, InitBooks, InitOneMint DEF Sound
<1>2. Sound /\ [Next]_vars => Sound'
  BY TypeStep, TableStep, BooksStep, OneMintStep DEF Sound
<1> QED
  BY <1>1, <1>2, AssetInit, AssetStep, PTL DEF Spec, ImplementsWrappedAsset, Asset!Spec

-----------------------------------------------------------------------------
(* The calendar day: BridgeDailyCap.  No recipient is minted more than two  *)
(* daily limits in one day, for every limit, day length and set of accounts *)
(* and requests.                                                            *)

(* Nothing is minted at the start.                                          *)
LEMMA InitHistory == CapInit => WindowHistory
  BY BridgeLockAssumption DEF CapInit, Init, WindowHistory, BridgeLockAssumption

(* A step that neither mints, nor resets a counter, nor lets time pass      *)
(* leaves the history as it was.                                            *)
LEMMA QuietStep ==
  ASSUME TypeOK, TypeOK', WindowHistory, CapNext,
         UNCHANGED <<now, dailyMinted, lastMintDay>>, totalSupply' <= totalSupply
  PROVE  WindowHistory'
<1>1. ~(totalSupply' > totalSupply)
  BY DEF TypeOK, WBAITTypeOK
<1>2. mintedToday' = [a \in Accounts |-> mintedToday[a] + 0]
  BY <1>1 DEF CapNext, MintedInStep, currentDay
<1>3. mintedToday' = mintedToday
  BY <1>2 DEF WindowHistory
<1> QED
  BY <1>3 DEF WindowHistory, currentDay

(* Burning and moving tokens never raises the supply.                       *)
LEMMA SupplyNotRaised ==
  ASSUME TypeOK, NEW from \in Accounts, NEW to, NEW amount \in Nat,
         Update(from, to, amount)
  PROVE  totalSupply' <= totalSupply
  BY WBAITAssumption DEF Update, TypeOK, WBAITTypeOK, WBAITAssumption

(* The first request of a day zeroes counters that held at most one limit,  *)
(* all of it minted before the reset.                                       *)
LEMMA RequestHistory ==
  ASSUME TypeOK, TypeOK', DailyWindowBounded, WindowHistory, CapNext,
         NEW caller, NEW id \in RequestIds, NEW tx,
         NEW to \in Accounts \cup {ZeroAddress}, NEW amount,
         RequestLockMint(caller, id, tx, to, amount)
  PROVE  WindowHistory'
<1>1. /\ to \in Accounts
      /\ UNCHANGED <<now, totalSupply>>
      /\ dailyMinted' = [dailyMinted EXCEPT ![to] = Today(dailyMinted, to)]
      /\ lastMintDay' = [lastMintDay EXCEPT ![to] = currentDay]
  BY DEF RequestLockMint, wbaitVars
<1>2. ~(totalSupply' > totalSupply)
  BY <1>1 DEF TypeOK, WBAITTypeOK
<1>3. mintedToday' = [a \in Accounts |-> mintedToday[a] + 0]
  BY <1>1, <1>2 DEF CapNext, MintedInStep, currentDay
<1>4. mintedToday' = mintedToday /\ currentDay' = currentDay
  BY <1>1, <1>3 DEF WindowHistory, currentDay
<1>5. RATE_LIMIT \in Nat
  BY BridgeLockAssumption DEF BridgeLockAssumption
<1>6. ASSUME NEW a \in Accounts
      PROVE  mintedToday[a] <= dailyMinted'[a]
                + (IF lastMintDay'[a] = currentDay THEN RATE_LIMIT ELSE 0)
  <2>1. /\ dailyMinted[a] \in Nat /\ dailyReserved[a] \in Nat
        /\ mintedToday[a] \in Nat
        /\ dailyMinted[a] + dailyReserved[a] <= RATE_LIMIT
    BY DEF TypeOK, WindowHistory, DailyWindowBounded
  <2>2. CASE a # to
    BY <1>1, <2>2 DEF TypeOK, WindowHistory
  <2>3. CASE a = to /\ lastMintDay[a] = currentDay
    BY <1>1, <2>3 DEF TypeOK, WindowHistory, Today
  <2>4. CASE a = to /\ lastMintDay[a] # currentDay
    <3>1. dailyMinted'[a] = 0 /\ lastMintDay'[a] = currentDay
      BY <1>1, <2>4 DEF TypeOK, Today
    <3>2. mintedToday[a] <= dailyMinted[a] + 0
      BY <2>4 DEF WindowHistory
    <3> QED
      BY <1>5, <2>1, <3>1, <3>2
  <2> QED
    BY <2>2, <2>3, <2>4
<1> QED
  BY <1>4, <1>6 DEF WindowHistory

(* A mint adds the same amount to the counter and to the history.           *)
LEMMA MintHistory ==
  ASSUME TypeOK, TypeOK', WindowHistory, CapNext, UNCHANGED <<now, lastMintDay>>,
         NEW req \in LockRequest, req.amount > 0, ExecuteLockMint(req)
  PROVE  WindowHistory'
<1> DEFINE to     == req.recipient
           amount == req.amount
           paid(a) == IF a = to THEN amount ELSE 0
<1>1. amount \in Nat
  BY DEF LockRequest
<1>2. /\ dailyMinted' = [dailyMinted EXCEPT ![to] = @ + amount]
      /\ Update(ZeroAddress, to, amount)
  BY DEF ExecuteLockMint, Mint
<1> HIDE DEF to, amount
<1>3. ASSUME NEW a \in Accounts
      PROVE  /\ dailyMinted'[a] = dailyMinted[a] + paid(a)
             /\ balanceOf'[a] - balanceOf[a] = paid(a)
             /\ paid(a) \in Nat
  <2>1. dailyMinted'[a] = dailyMinted[a] + paid(a)
    <3>1. dailyMinted \in [Accounts -> Nat]
      BY DEF TypeOK
    <3>2. CASE a = to
      BY <1>1, <1>2, <3>1, <3>2
    <3>3. CASE a # to
      BY <1>1, <1>2, <3>1, <3>3
    <3> QED
      BY <3>2, <3>3
  <2>2. a # ZeroAddress
    BY WBAITAssumption DEF WBAITAssumption
  <2>3. balanceOf[a] \in Nat
    BY DEF TypeOK, WBAITTypeOK
  <2>4. balanceOf'[a] = balanceOf[a] - 0 + paid(a)
    BY <1>2, <2>2 DEF Update
  <2> QED
    BY <1>1, <2>1, <2>3, <2>4
<1>4. mintedToday' = [a \in Accounts |->
            mintedToday[a] + IF totalSupply' > totalSupply
                             THEN balanceOf'[a] - balanceOf[a] ELSE 0]
  BY DEF CapNext, MintedInStep, currentDay
<1>5. RATE_LIMIT \in Nat
  BY BridgeLockAssumption DEF BridgeLockAssumption
<1>6. ASSUME NEW a \in Accounts
      PROVE  /\ mintedToday'[a] \in Nat
             /\ mintedToday'[a] <= dailyMinted'[a]
                    + (IF lastMintDay'[a] = currentDay' THEN RATE_LIMIT ELSE 0)
  <2> DEFINE extra == IF lastMintDay[a] = currentDay THEN RATE_LIMIT ELSE 0
  <2>1. /\ dailyMinted[a] \in Nat
        /\ mintedToday[a] \in Nat
        /\ mintedToday[a] <= dailyMinted[a] + extra
        /\ extra \in Nat
    BY <1>5 DEF TypeOK, WindowHistory
  <2>2. extra = IF lastMintDay'[a] = currentDay' THEN RATE_LIMIT ELSE 0
    BY DEF currentDay
  <2>3. \/ mintedToday'[a] = mintedToday[a] + paid(a)
        \/ mintedToday'[a] = mintedToday[a] + 0
    BY <1>3, <1>4
  <2> HIDE DEF extra, paid
  <2> QED
    BY <1>3, <2>1, <2>2, <2>3
<1>7. mintedToday' \in [Accounts -> Nat]
  BY <1>4, <1>6
<1> QED
  BY <1>6, <1>7 DEF WindowHistory

(* A new day starts with nothing minted.                                    *)
LEMMA TickHistory ==
  ASSUME TypeOK, TypeOK', WindowHistory, CapNext, Tick
  PROVE  WindowHistory'
<1>1. UNCHANGED <<totalSupply, dailyMinted, lastMintDay>>
  BY DEF Tick, wbaitVars, dailyVars
<1>2. ~(totalSupply' > totalSupply)
  BY <1>1 DEF TypeOK, WBAITTypeOK
<1>3. RATE_LIMIT \in Nat
  BY BridgeLockAssumption DEF BridgeLockAssumption
<1>4. CASE currentDay' = currentDay
  <2>1. mintedToday' = [a \in Accounts |-> mintedToday[a] + 0]
    BY <1>2, <1>4 DEF CapNext, MintedInStep, currentDay
  <2>2. mintedToday' = mintedToday
    BY <2>1 DEF WindowHistory
  <2> QED
    BY <1>1, <1>4, <2>2 DEF WindowHistory
<1>5. CASE currentDay' # currentDay
  <2>1. mintedToday' = [a \in Accounts |-> 0]
    BY <1>5 DEF CapNext, currentDay
  <2> QED
    BY <1>1, <1>3, <2>1 DEF WindowHistory, TypeOK
<1> QED
  BY <1>4, <1>5

(* Every step keeps the history in step with the counters.                  *)
LEMMA HistoryStep ==
  TypeOK /\ TypeOK' /\ DailyWindowBounded /\ WindowHistory
    /\ [CapNext]_<<vars, mintedToday>> => WindowHistory'
<1> SUFFICES ASSUME TypeOK, TypeOK', DailyWindowBounded, WindowHistory, CapNext
             PROVE  WindowHistory'
  <2>1. UNCHANGED <<vars, mintedToday>> /\ WindowHistory => WindowHistory'
    BY DEF vars, bridgeVars, dailyVars, WindowHistory, currentDay
  <2> QED
    BY <2>1
<1> DEFINE Quiet == /\ UNCHANGED <<now, dailyMinted, lastMintDay>>
                    /\ totalSupply' <= totalSupply
<1>1. ASSUME Quiet PROVE WindowHistory'
  BY <1>1, QuietStep
<1>2. totalSupply \in Int
  BY DEF TypeOK, WBAITTypeOK
<1>3. Amounts \subseteq Nat
  BY WBAITAssumption DEF WBAITAssumption
<1>4. CASE OperatorNext
  <2>1. ASSUME NEW caller \in OperatorAddrs, NEW id \in RequestIds,
               ConfirmLockMint(caller, id)
        PROVE  WindowHistory'
    <3>1. lockRequests[id] \in LockRequest /\ lockRequests[id].amount > 0
      BY <2>1 DEF ConfirmLockMint, MayConfirm, TypeOK
    <3>2. UNCHANGED <<now, lastMintDay>>
      BY <2>1 DEF ConfirmLockMint
    <3>3. CASE ExecuteLockMint(lockRequests[id])
      BY <3>1, <3>2, <3>3, MintHistory
    <3>4. CASE UNCHANGED <<totalMinted, dailyMinted, dailyReserved, wbaitVars>>
      BY <1>1, <1>2, <3>2, <3>4 DEF wbaitVars
    <3> QED
      BY <2>1, <3>3, <3>4 DEF ConfirmLockMint
  <2>2. ASSUME NEW caller, NEW i, ConfirmBurnRelease(caller, i) PROVE Quiet
    BY <1>2, <2>2 DEF ConfirmBurnRelease, dailyVars, wbaitVars
  <2> HIDE DEF Quiet
  <2> QED
    BY <1>1, <1>4, <2>1, <2>2, RequestHistory DEF OperatorNext
<1>5. ASSUME NEW user \in Accounts, NEW amount \in Amounts,
             InitiateBurnRelease(user, amount)
      PROVE  Quiet
  BY <1>3, <1>5, SupplyNotRaised DEF InitiateBurnRelease, BurnFrom, dailyVars
<1>6. CASE PauseBridge \/ UnpauseBridge
  BY <1>1, <1>2, <1>6 DEF PauseBridge, UnpauseBridge, dailyVars, wbaitVars
<1>7. CASE OwnerNext
  BY <1>1, <1>2, <1>7 DEF OwnerNext, ProposeOperatorUpdate, ExecuteOperatorUpdate,
                          CancelOperatorUpdate, dailyVars, wbaitVars
<1>8. CASE WBAITNext /\ UNCHANGED bridgeVars
  <2>1. UNCHANGED <<now, dailyMinted, lastMintDay>>
    BY <1>8 DEF bridgeVars, dailyVars
  <2>2. HolderNext => totalSupply' <= totalSupply
    BY <1>2, <1>3, SupplyNotRaised DEF HolderNext, Burn, Approve, Transfer
  <2>3. PauseWBAIT \/ UnpauseWBAIT \/ InitializeBridgeLock(Bridge)
            => totalSupply' <= totalSupply
    BY <1>2 DEF PauseWBAIT, UnpauseWBAIT, InitializeBridgeLock
  <2> QED
    BY <1>1, <1>8, <2>1, <2>2, <2>3 DEF WBAITNext
<1> HIDE DEF Quiet
<1> QED
  BY <1>1, <1>4, <1>5, <1>6, <1>7, <1>8, TickHistory DEF CapNext, Next

(* The counters and the history together bound what a day can bring.        *)
LEMMA HistoryBounds ==
  ASSUME TypeOK, DailyWindowBounded, WindowHistory
  PROVE  AtMostTwoWindows
<1>1. RATE_LIMIT \in Nat
  BY BridgeLockAssumption DEF BridgeLockAssumption
<1>2. ASSUME NEW a \in Accounts PROVE mintedToday[a] <= 2 * RATE_LIMIT
  <2>1. /\ mintedToday[a] \in Nat /\ dailyMinted[a] \in Nat
        /\ dailyReserved[a] \in Nat
        /\ dailyMinted[a] + dailyReserved[a] <= RATE_LIMIT
        /\ mintedToday[a] <= dailyMinted[a] + RATE_LIMIT
    BY <1>1 DEF TypeOK, DailyWindowBounded, WindowHistory
  <2> QED
    BY <1>1, <2>1
<1> QED
  BY <1>2 DEF AtMostTwoWindows

(* No recipient receives more than twice RATE_LIMIT between two midnights.  *)
THEOREM AtMostTwoWindowsCorrect == CapSpec => []AtMostTwoWindows
<1> DEFINE IInv == /\ TypeOK /\ OperatorTable /\ DailyWindowBounded
                   /\ WindowHistory
<1>1. CapInit => IInv
  BY InitType, InitTable, InitWindow, InitHistory DEF CapInit
<1>2. IInv /\ [CapNext]_<<vars, mintedToday>> => IInv'
  <2>1. [CapNext]_<<vars, mintedToday>> => [Next]_vars
    BY DEF CapNext
  <2> QED
    BY <2>1, TypeStep, TableStep, WindowStep, HistoryStep
<1>3. IInv => AtMostTwoWindows
  BY HistoryBounds
<1> QED
  BY <1>1, <1>2, <1>3, PTL DEF CapSpec
=============================================================================
