-------------------------- MODULE BridgeRefinement --------------------------
(* BridgeLock with WBAIT implements WrappedAsset. *)
EXTENDS BridgeLock

\* The deposit an L1 transaction stands for is the request it was used in.
DepositOf(tx) ==
    LET ids == {id \in RequestIds : Requested(id) /\ lockRequests[id].l1TxId = tx}
    IN  IF ids = {} THEN [amount |-> 0, issued |-> FALSE]
        ELSE LET req == lockRequests[CHOOSE id \in ids : TRUE]
             IN  [amount |-> req.amount, issued |-> req.executed]

Deposited == [tx \in L1TxIds |-> DepositOf(tx)]

\* A release is paid when it executes.
Redeemed ==
    [i \in DOMAIN burnReleases |->
        [amount |-> burnReleases[i].amount, paid |-> burnReleases[i].executed]]

Asset == INSTANCE WrappedAsset WITH
    Deposits    <- L1TxIds,
    MaxUnits    <- MAX_UINT,
    deposit     <- Deposited,
    custody     <- totalLockedOnL1,
    outstanding <- totalMinted,
    supply      <- totalSupply,
    redemptions <- Redeemed

(* Whatever operators, holders, the owner and the timelock do and in        *)
(* whatever order, the two contracts together behave as a wrapped asset:    *)
(* one issue per L1 transaction, one payment per burn, nothing issued or    *)
(* paid beyond what is in custody.                                          *)
ImplementsWrappedAsset == Asset!Spec
=============================================================================
