----------------------------- MODULE BridgeLock -----------------------------
(***************************************************************************)
(* contracts/src/BridgeLock.sol composed with contracts/src/WBAIT.sol: the *)
(* lock-and-mint bridge between BAIT on L1 and wBAIT on Ethereum.          *)
(*                                                                         *)
(*   lock/mint    an operator requests a mint for an L1 lock transaction,  *)
(*                REQUIRED_CONFIRMATIONS distinct operators confirm it,    *)
(*                and the last confirmation mints                          *)
(*   burn/release a holder burns, the operators attest the L1 payment      *)
(*   rotation     the owner replaces an operator after a timelock          *)
(*                                                                         *)
(* A transaction is one action: it happens completely or, when a require   *)
(* or a checked subtraction fails anywhere in it, not at all.              *)
(***************************************************************************)
EXTENDS WBAIT, Sequences

CONSTANTS
    OperatorAddrs,          \* addresses that are or may become operators
    RequestIds,             \* caller-chosen bytes32 keys of lockRequests
    L1TxIds,                \* L1 lock transactions
    ZeroTx,                 \* bytes32(0)
    NUM_OPERATORS,
    REQUIRED_CONFIRMATIONS,
    RATE_LIMIT,             \* per recipient and day
    TIMELOCK_DURATION,
    DayLength,              \* "1 days"
    MaxTime,                \* model bound on block.timestamp
    MaxReleases             \* releases the fairness condition speaks of

ASSUME BridgeLockAssumption ==
    /\ IsFiniteSet(OperatorAddrs)
    /\ IsFiniteSet(RequestIds)      \* they are bytes32
    /\ ZeroAddress \notin OperatorAddrs
    /\ ZeroTx \notin L1TxIds
    /\ NUM_OPERATORS \in Nat
    /\ REQUIRED_CONFIRMATIONS \in 1..NUM_OPERATORS
    /\ RATE_LIMIT \in Nat
    /\ TIMELOCK_DURATION \in Nat
    /\ DayLength \in Nat \ {0}
    /\ MaxTime \in Nat
    /\ MaxReleases \in Nat

VARIABLES
    now,                    \* block.timestamp
    paused,                 \* BridgeLock's own Pausable flag
    totalLockedOnL1,
    totalMinted,
    operators,              \* [1..NUM_OPERATORS -> address]
    isOperator,             \* the set of addresses with isOperator = true
    lockRequests,           \* [RequestIds -> LockRequest]
    consumedL1TxIds,        \* also usedL1TxIds: the two are written together
    burnReleases,           \* sequence of BurnRelease, in order of initiation
    dailyMinted, dailyReserved, lastMintDay,    \* [Accounts -> Nat]
    pendingOperatorUpdate

lockVars    == <<lockRequests, consumedL1TxIds>>
totalVars   == <<totalLockedOnL1, totalMinted>>
dailyVars   == <<dailyMinted, dailyReserved, lastMintDay>>
operatorVars == <<operators, isOperator, pendingOperatorUpdate>>
bridgeVars  == <<now, paused, totalVars, operatorVars, lockVars, burnReleases,
                 dailyVars>>
vars        == <<wbaitVars, bridgeVars>>

-----------------------------------------------------------------------------
(* State *)

\* Operator addresses are told apart from token holders only by use.
LockRequest == [l1TxId : L1TxIds \cup {ZeroTx},
                recipient : Accounts \cup {ZeroAddress},
                amount : Nat,
                confirmed : SUBSET OperatorAddrs,
                confirmations : Nat,
                executed : BOOLEAN]

\* The value of a storage slot nobody wrote.
EmptyLockRequest == [l1TxId |-> ZeroTx, recipient |-> ZeroAddress, amount |-> 0,
                     confirmed |-> {}, confirmations |-> 0, executed |-> FALSE]

\* A release id hashes burnReleaseIds.length, so no two ids collide: a release
\* is named by its position.  Where it is paid on L1 matters to no property.
BurnRelease == [burner : Accounts,
                amount : Nat,
                confirmed : SUBSET OperatorAddrs,
                confirmations : Nat,
                executed : BOOLEAN]

NoOperatorUpdate == [index |-> 1, newOperator |-> ZeroAddress,
                     proposedAt |-> 0, active |-> FALSE]

currentDay == now \div DayLength

Init ==
    /\ WBAITInit
    /\ now \in DayLength .. 2 * DayLength - 1   \* any time of a day after 1970-01-01
    /\ paused = FALSE
    /\ totalLockedOnL1 = 0
    /\ totalMinted = 0
    /\ operators \in {f \in [1..NUM_OPERATORS -> OperatorAddrs] :
                        \A i, j \in 1..NUM_OPERATORS : f[i] = f[j] => i = j}
    /\ isOperator = {operators[i] : i \in 1..NUM_OPERATORS}
    /\ lockRequests = [id \in RequestIds |-> EmptyLockRequest]
    /\ consumedL1TxIds = {}
    /\ burnReleases = <<>>
    /\ dailyMinted = [a \in Accounts |-> 0]
    /\ dailyReserved = [a \in Accounts |-> 0]
    /\ lastMintDay = [a \in Accounts |-> 0]
    /\ pendingOperatorUpdate = NoOperatorUpdate

-----------------------------------------------------------------------------
(* Faulty variants of definitions below, each with one plausible mistake:   *)
(* they exist to show that the properties notice it.                        *)

MayConfirmTwice(caller, r) ==
    /\ caller \in isOperator
    /\ ~paused
    /\ ~r.executed
    /\ r.amount > 0

ReachesQuorumLate(r) == r.confirmations + 1 > REQUIRED_CONFIRMATIONS

TodayAlwaysReset(counter, recipient) == 0

NonzeroTx(l1TxId) == l1TxId # ZeroTx

ExecuteLockMintUnchecked(req) ==
    /\ totalMinted + req.amount <= totalLockedOnL1
    /\ totalMinted' = totalMinted + req.amount
    /\ dailyMinted' = [dailyMinted EXCEPT ![req.recipient] = @ + req.amount]
    /\ dailyReserved' = [dailyReserved EXCEPT ![req.recipient] = @ - req.amount]
    /\ Mint(Bridge, req.recipient, req.amount)

ExecuteLockMintKeepingReservation(req) ==
    /\ totalMinted + req.amount <= totalLockedOnL1
    /\ totalMinted' = totalMinted + req.amount
    /\ dailyMinted' = [dailyMinted EXCEPT ![req.recipient] = @ + req.amount]
    /\ Mint(Bridge, req.recipient, req.amount)
    /\ UNCHANGED dailyReserved

-----------------------------------------------------------------------------
(* Confirmations, the same for requests and releases *)

\* The requires of confirmLockMint and confirmBurnRelease.
MayConfirm(caller, r) ==
    /\ caller \in isOperator
    /\ ~paused
    /\ ~r.executed
    /\ caller \notin r.confirmed
    /\ r.amount > 0

\* One more confirmation reaches the threshold.
ReachesQuorum(r) == r.confirmations + 1 >= REQUIRED_CONFIRMATIONS

WithConfirmation(r, caller) ==
    [r EXCEPT !.confirmed = @ \cup {caller},
              !.confirmations = @ + 1,
              !.executed = ReachesQuorum(r)]

-----------------------------------------------------------------------------
(* Lock and mint *)

\* A counter of the recipient once the values of an earlier day are reset.
Today(counter, recipient) ==
    IF lastMintDay[recipient] = currentDay THEN counter[recipient] ELSE 0

WithinLimit(recipient, amount) ==
    Today(dailyMinted, recipient) + Today(dailyReserved, recipient) + amount
        <= RATE_LIMIT

FreshTx(l1TxId) == l1TxId # ZeroTx /\ l1TxId \notin consumedL1TxIds

RequestLockMint(caller, requestId, l1TxId, recipient, amount) ==
    /\ caller \in isOperator
    /\ ~paused
    /\ ~lockRequests[requestId].executed
    /\ lockRequests[requestId].amount = 0
    /\ FreshTx(l1TxId)
    /\ recipient # ZeroAddress
    /\ amount > 0
    /\ WithinLimit(recipient, amount)
    /\ totalLockedOnL1' = totalLockedOnL1 + amount
    /\ dailyMinted' = [dailyMinted EXCEPT ![recipient] = Today(dailyMinted, recipient)]
    /\ dailyReserved' = [dailyReserved EXCEPT
                            ![recipient] = Today(dailyReserved, recipient) + amount]
    /\ lastMintDay' = [lastMintDay EXCEPT ![recipient] = currentDay]
    /\ lockRequests' = [lockRequests EXCEPT
                            ![requestId].l1TxId = l1TxId,
                            ![requestId].recipient = recipient,
                            ![requestId].amount = amount]
    /\ consumedL1TxIds' = consumedL1TxIds \cup {l1TxId}
    /\ UNCHANGED <<now, paused, totalMinted, operatorVars, burnReleases, wbaitVars>>

\* _executeLockMint.  lastMintDay is not consulted, and dailyReserved is a
\* checked subtraction.
ExecuteLockMint(req) ==
    /\ totalMinted + req.amount <= totalLockedOnL1
    /\ dailyReserved[req.recipient] >= req.amount
    /\ totalMinted' = totalMinted + req.amount
    /\ dailyMinted' = [dailyMinted EXCEPT ![req.recipient] = @ + req.amount]
    /\ dailyReserved' = [dailyReserved EXCEPT ![req.recipient] = @ - req.amount]
    /\ Mint(Bridge, req.recipient, req.amount)

ConfirmLockMint(caller, requestId) ==
    LET req == lockRequests[requestId]
    IN  /\ MayConfirm(caller, req)
        /\ lockRequests' = [lockRequests EXCEPT
                                ![requestId] = WithConfirmation(req, caller)]
        /\ \/ ReachesQuorum(req) /\ ExecuteLockMint(req)
           \/ /\ ~ReachesQuorum(req)
              /\ UNCHANGED <<totalMinted, dailyMinted, dailyReserved, wbaitVars>>
        /\ UNCHANGED <<now, paused, totalLockedOnL1, operatorVars, consumedL1TxIds,
                       burnReleases, lastMintDay>>

-----------------------------------------------------------------------------
(* Burn and release *)

\* "if (total >= amount) total -= amount; else total = 0"
FloorSubtract(total, amount) == IF total >= amount THEN total - amount ELSE 0

InitiateBurnRelease(caller, amount) ==
    /\ ~paused
    /\ amount > 0
    /\ balanceOf[caller] >= amount
    /\ burnReleases' = Append(burnReleases,
            [burner |-> caller, amount |-> amount, confirmed |-> {},
             confirmations |-> 0, executed |-> FALSE])
    /\ totalMinted' = FloorSubtract(totalMinted, amount)
    /\ BurnFrom(caller, amount)
    /\ UNCHANGED <<now, paused, totalLockedOnL1, operatorVars, lockVars, dailyVars>>

ConfirmBurnRelease(caller, releaseId) ==
    LET rel == burnReleases[releaseId]
    IN  /\ MayConfirm(caller, rel)
        /\ burnReleases' = [burnReleases EXCEPT
                                ![releaseId] = WithConfirmation(rel, caller)]
        /\ totalLockedOnL1' = IF ReachesQuorum(rel)
                              THEN FloorSubtract(totalLockedOnL1, rel.amount)
                              ELSE totalLockedOnL1
        /\ UNCHANGED <<now, paused, totalMinted, operatorVars, lockVars, dailyVars,
                       wbaitVars>>

-----------------------------------------------------------------------------
(* Administration: the timelock pauses, the owner rotates operators *)

PauseBridge ==
    /\ ~paused
    /\ paused' = TRUE
    /\ UNCHANGED <<now, totalVars, operatorVars, lockVars, burnReleases, dailyVars,
                   wbaitVars>>

UnpauseBridge ==
    /\ paused
    /\ paused' = FALSE
    /\ UNCHANGED <<now, totalVars, operatorVars, lockVars, burnReleases, dailyVars,
                   wbaitVars>>

ProposeOperatorUpdate(index, newOperator) ==
    /\ newOperator # ZeroAddress
    /\ newOperator \notin isOperator
    /\ newOperator = pendingOperatorUpdate.newOperator
            => ~pendingOperatorUpdate.active
    /\ pendingOperatorUpdate' = [index |-> index, newOperator |-> newOperator,
                                 proposedAt |-> now, active |-> TRUE]
    /\ UNCHANGED <<now, paused, totalVars, operators, isOperator, lockVars,
                   burnReleases, dailyVars, wbaitVars>>

ExecuteOperatorUpdate ==
    LET idx == pendingOperatorUpdate.index
        newOp == pendingOperatorUpdate.newOperator
    IN  /\ pendingOperatorUpdate.active
        /\ now >= pendingOperatorUpdate.proposedAt + TIMELOCK_DURATION
        /\ isOperator' = (isOperator \ {operators[idx]}) \cup {newOp}
        /\ operators' = [operators EXCEPT ![idx] = newOp]
        /\ pendingOperatorUpdate' = NoOperatorUpdate
        /\ UNCHANGED <<now, paused, totalVars, lockVars, burnReleases, dailyVars,
                       wbaitVars>>

CancelOperatorUpdate ==
    /\ pendingOperatorUpdate.active
    /\ pendingOperatorUpdate' = NoOperatorUpdate
    /\ UNCHANGED <<now, paused, totalVars, operators, isOperator, lockVars,
                   burnReleases, dailyVars, wbaitVars>>

\* Time passes between blocks.
Tick ==
    /\ now < MaxTime
    /\ now' = now + 1
    /\ UNCHANGED <<paused, totalVars, operatorVars, lockVars, burnReleases,
                   dailyVars, wbaitVars>>

-----------------------------------------------------------------------------

OperatorNext ==
    \E caller \in OperatorAddrs :
        \/ \E id \in RequestIds : ConfirmLockMint(caller, id)
        \/ \E i \in DOMAIN burnReleases : ConfirmBurnRelease(caller, i)
        \/ \E id \in RequestIds, tx \in L1TxIds \cup {ZeroTx},
              to \in Accounts \cup {ZeroAddress}, amount \in Amounts :
                RequestLockMint(caller, id, tx, to, amount)

OwnerNext ==
    \/ \E index \in 1..NUM_OPERATORS, addr \in OperatorAddrs :
            ProposeOperatorUpdate(index, addr)
    \/ ExecuteOperatorUpdate
    \/ CancelOperatorUpdate

Next ==
    \/ OperatorNext
    \/ \E user \in Accounts, amount \in Amounts : InitiateBurnRelease(user, amount)
    \/ PauseBridge
    \/ UnpauseBridge
    \/ OwnerNext
    \/ Tick
    \/ WBAITNext /\ UNCHANGED bridgeVars

Spec == Init /\ [][Next]_vars

-----------------------------------------------------------------------------
(* Properties *)

TypeOK ==
    /\ WBAITTypeOK
    /\ now \in Nat
    /\ paused \in BOOLEAN
    /\ totalLockedOnL1 \in Nat
    /\ totalMinted \in Nat
    /\ operators \in [1..NUM_OPERATORS -> OperatorAddrs]
    /\ isOperator \in SUBSET OperatorAddrs
    /\ lockRequests \in [RequestIds -> LockRequest]
    /\ consumedL1TxIds \in SUBSET L1TxIds
    /\ burnReleases \in Seq(BurnRelease)
    /\ dailyMinted \in [Accounts -> Nat]
    /\ dailyReserved \in [Accounts -> Nat]
    /\ lastMintDay \in [Accounts -> Nat]
    /\ pendingOperatorUpdate \in [index : 1..NUM_OPERATORS,
                                  newOperator : OperatorAddrs \cup {ZeroAddress},
                                  proposedAt : Nat, active : BOOLEAN]

Requested(id) == lockRequests[id].amount > 0
Pending(id)   == Requested(id) /\ ~lockRequests[id].executed

PendingAmount == [id \in RequestIds |-> IF Pending(id) THEN lockRequests[id].amount ELSE 0]
UnreleasedAmount ==
    [i \in DOMAIN burnReleases |->
        IF burnReleases[i].executed THEN 0 ELSE burnReleases[i].amount]

PendingTotal(ids) == SumFunctionOnSet(PendingAmount, ids)
UnreleasedTotal == SumFunction(UnreleasedAmount)

(* Every unit claimed locked on L1 is exactly one of: waiting for its mint, *)
(* minted, or burned and waiting for its L1 payment.  In particular the     *)
(* two floor subtractions never floor and the "InvariantViolation" require  *)
(* of _executeLockMint never fails, whatever the order of requests,         *)
(* confirmations, burns and releases.                                       *)
LockedDecomposition ==
    totalLockedOnL1 = PendingTotal(RequestIds) + totalMinted + UnreleasedTotal

(* No wBAIT exists that the bridge does not count: the sum of the balances  *)
(* is the supply, and the supply is at most totalMinted although holders    *)
(* may burn without the bridge and both contracts pause independently.      *)
SupplyBacked ==
    /\ SupplyAccounted
    /\ totalSupply <= totalMinted

(* A mint or a release happened exactly when REQUIRED_CONFIRMATIONS distinct *)
(* operators confirmed it: the counter never runs ahead of the set of        *)
(* confirmers, and a third confirmation whose execution reverts leaves no    *)
(* trace of itself.                                                          *)
QuorumMet(r) ==
    /\ r.confirmations = Cardinality(r.confirmed)
    /\ r.executed <=> r.confirmations >= REQUIRED_CONFIRMATIONS
    /\ r.confirmations <= REQUIRED_CONFIRMATIONS

ExactQuorum ==
    /\ \A id \in RequestIds : QuorumMet(lockRequests[id])
    /\ \A i \in DOMAIN burnReleases : QuorumMet(burnReleases[i])

(* One L1 lock transaction backs at most one mint, under however many       *)
(* request ids it is submitted, and the ledger of used transactions is      *)
(* exactly the set of transactions behind requests.                         *)
OneMintPerL1Tx ==
    /\ \A a, b \in RequestIds :
          Requested(a) /\ Requested(b) /\ lockRequests[a].l1TxId = lockRequests[b].l1TxId
            => a = b
    /\ consumedL1TxIds = {lockRequests[id].l1TxId : id \in {r \in RequestIds : Requested(r)}}

(* The mapping isOperator and the array operators agree after any sequence  *)
(* of rotations, so there are always NUM_OPERATORS distinct operators, and  *)
(* a pending candidate is never already one of them.                        *)
OperatorTable ==
    /\ isOperator = {operators[i] : i \in 1..NUM_OPERATORS}
    /\ \A i, j \in 1..NUM_OPERATORS : operators[i] = operators[j] => i = j
    /\ pendingOperatorUpdate.active =>
          /\ pendingOperatorUpdate.newOperator # ZeroAddress
          /\ pendingOperatorUpdate.newOperator \notin isOperator

(* The counters of one day, minted and reserved together, stay inside the   *)
(* limit although executions move amounts between them on later days.       *)
DailyWindowBounded ==
    \A a \in Accounts : dailyMinted[a] + dailyReserved[a] <= RATE_LIMIT

(* A reservation never outlives the request it was made for: dailyReserved  *)
(* holds no more than the recipient's pending requests, so a recipient is   *)
(* never locked out of the limit by requests already minted.                *)
NoOrphanReservation ==
    \A a \in Accounts :
        dailyReserved[a] <=
            PendingTotal({id \in RequestIds : lockRequests[id].recipient = a})

(* The counters of the two contracts, the requests, the releases and the    *)
(* reservations tell one story: locked on L1 is pending, minted or not yet  *)
(* released, the supply is backed, and no reservation is left over.         *)
AccountsBalance == LockedDecomposition /\ SupplyBacked /\ NoOrphanReservation

-----------------------------------------------------------------------------
(* Liveness.  The operators' daemons submit confirmations until one is      *)
(* accepted, through any number of pauses (strong fairness), and the        *)
(* timelock does not leave the bridge paused for ever.                      *)

ReleaseAttested(i) ==
    /\ i \in DOMAIN burnReleases
    /\ \E caller \in OperatorAddrs : ConfirmBurnRelease(caller, i)

MintConfirmed(id) == \E caller \in OperatorAddrs : ConfirmLockMint(caller, id)

LinkToken == InitializeBridgeLock(Bridge) /\ UNCHANGED bridgeVars

FairSpec ==
    /\ Spec
    /\ WF_vars(UnpauseBridge)
    /\ WF_vars(LinkToken)
    /\ \A i \in 1..MaxReleases : SF_vars(ReleaseAttested(i))
    /\ \A id \in RequestIds : SF_vars(MintConfirmed(id))

(* A holder whose tokens are burned is paid on L1: every initiated release  *)
(* reaches its quorum, through pauses and rotations of the operators.       *)
EveryReleaseExecuted ==
    \A i \in 1..MaxReleases :
        (i \in DOMAIN burnReleases) ~> (i \in DOMAIN burnReleases /\ burnReleases[i].executed)

-----------------------------------------------------------------------------
(* What the repository's documents say and the contracts do not do.         *)

(* bridge/operator-onboarding.md:67: any 3 of 5 operators can execute, so   *)
(* once nothing is paused a request every operator confirms is minted.      *)
AnyQuorumExecutes ==
    <>[](~paused /\ ~wbaitPaused) =>
        \A id \in RequestIds : Requested(id) ~> lockRequests[id].executed
=============================================================================
