------------------------ MODULE EcosystemNodeProofs ------------------------
(***************************************************************************)
(* Proofs about EcosystemNode for every set of agents, stakers, offers,    *)
(* listings, purchases and transactions, and any number of restarts.       *)
(***************************************************************************)
EXTENDS EcosystemNode, SumTheorems, TLAPS

-----------------------------------------------------------------------------
(* The store: one key changes per put.                                     *)

StoreInv ==
  /\ DOMAIN disk = Keys /\ disk = [k \in Keys |-> disk[k]]
  /\ client \in Clients /\ writes \in Seq(Keys)

\* A put stores one key, and every other key keeps its value.
LEMMA PutOne ==
  ASSUME StoreInv, Put
  PROVE  /\ Head(writes) \in Keys
         /\ \A k \in Keys : disk'[k] = IF k = Head(writes) THEN Image[k] ELSE disk[k]
         /\ StoreInv'
<1>1. writes \in Seq(Keys) /\ writes # <<>>
  BY DEF Put, StoreInv, Idle
<1>2. Head(writes) \in Keys /\ Tail(writes) \in Seq(Keys)
  BY <1>1
<1>3. disk' = [disk EXCEPT ![Head(writes)] = Image[Head(writes)]] /\ writes' = Tail(writes)
  BY DEF Put
<1> QED
  BY <1>2, <1>3 DEF StoreInv, Put

\* The client's calls change no key; they begin a list of puts or none.
DeskOps == \/ LendingOp \/ LiquidateOp \/ VaultOp
           \/ RegisterOp \/ ReputationOp \/ OracleOp \/ GetPriceOp \/ MarketOp
Calls == \/ TokenOp \/ TokenOpRefused \/ FaucetClaim \/ StakingOp \/ RewardsToNobody \/ UnstakeOp
         \/ DeskOps \/ PoolOp \/ SubmitTransaction \/ MineOp \/ PersistAll

DeskClients == {"lending", "vaults", "agents", "oracle", "market"}
DeskLists == {<<>>, <<"lending">>, <<"vaults">>, <<"oracle">>, <<"market">>, <<"agents">>, AgentKeys}

\* What a call begins to put depends on its client.
Begins ==
  \/ client = "token" /\ writes' \in {<<>>, TokenKeys, ClaimKeys, AllTokenKeys}
  \/ client = "bank" /\ writes' \in {<<>>, StakingKeys}
  \/ client \in DeskClients /\ writes' \in DeskLists
  \/ client = "chain" /\ writes' \in {<<>>, <<"pool">>, ChainKeys}

LEMMA CallFrame ==
  ASSUME client \in Clients, Calls
  PROVE  /\ Idle /\ Begins
         /\ UNCHANGED <<now, client, disk, saved, paid, torn, restarts>>
<1>1. CASE TokenOp
  BY <1>1 DEF TokenOp, Call, Begins
<1>2. CASE TokenOpRefused
  BY <1>2 DEF TokenOpRefused, Call, Begins
<1>3. CASE FaucetClaim
  BY <1>3 DEF FaucetClaim, Call, Begins
<1>4. CASE StakingOp
  BY <1>4 DEF StakingOp, Call, Begins
<1>5. CASE RewardsToNobody
  BY <1>5 DEF RewardsToNobody, Call, Begins
<1>6. CASE UnstakeOp
  BY <1>6 DEF UnstakeOp, Call, Begins
<1>7. CASE DeskOps
  <2> USE DEF Call, Begins, DeskClients, DeskLists
  <2>1. CASE LendingOp
    BY <2>1 DEF LendingOp
  <2>2. CASE LiquidateOp
    BY <2>2 DEF LiquidateOp
  <2>3. CASE VaultOp
    BY <2>3 DEF VaultOp
  <2>4. CASE RegisterOp
    BY <2>4 DEF RegisterOp
  <2>5. CASE ReputationOp
    BY <2>5 DEF ReputationOp
  <2>6. CASE OracleOp
    BY <2>6 DEF OracleOp
  <2>7. CASE GetPriceOp
    BY <2>7 DEF GetPriceOp
  <2>8. CASE MarketOp
    BY <2>8 DEF MarketOp
  <2> QED
    BY <1>7, <2>1, <2>2, <2>3, <2>4, <2>5, <2>6, <2>7, <2>8 DEF DeskOps
<1>8. CASE PoolOp
  BY <1>8 DEF PoolOp, Call, Begins, Unless
<1>9. CASE SubmitTransaction
  <2>1. PICK tx \in Txs : Call("chain", Unless(tx \in pool.txs, <<"pool">>))
    BY <1>9 DEF SubmitTransaction
  <2> QED
    BY <2>1 DEF Call, Begins, Unless
<1>10. CASE MineOp
  BY <1>10 DEF MineOp, Call, Begins, Unless
<1>11. CASE PersistAll
  <2>1. Idle /\ UNCHANGED <<now, client, disk, saved, paid, torn, restarts>>
    BY <1>11 DEF PersistAll, Call
  <2>2. CASE client = "token"
    BY <1>11, <2>1, <2>2 DEF PersistAll, Call, Begins
  <2>3. CASE client = "bank"
    BY <1>11, <2>1, <2>3 DEF PersistAll, Call, Begins
  <2>4. CASE client \in {"lending", "vaults", "oracle", "market"}
    BY <1>11, <2>1, <2>4 DEF PersistAll, Call, Begins, DeskClients, DeskLists
  <2>5. CASE client = "agents"
    BY <1>11, <2>1, <2>5 DEF PersistAll, Call, Begins, DeskClients, DeskLists
  <2>6. CASE client = "chain"
    BY <1>11, <2>1, <2>6 DEF PersistAll, Call, Begins
  <2> QED
    BY <2>2, <2>3, <2>4, <2>5, <2>6 DEF Clients
<1> QED
  BY <1>1, <1>2, <1>3, <1>4, <1>5, <1>6, <1>7, <1>8, <1>9, <1>10, <1>11 DEF Calls

\* The calls of the desks leave the rest of the node alone.
LEMMA DeskFrame ==
  ASSUME DeskOps
  PROVE  UNCHANGED <<token, faucet, staking, ledger, feeMarket, pool, payee>>
BY DEF DeskOps, LendingOp, LiquidateOp, VaultOp, RegisterOp, ReputationOp, OracleOp, GetPriceOp,
       MarketOp, core

\* The list of puts is always a tail of one of its client's lists.
TokenTails ==
  {<<>>, <<"burned">>, <<"minted", "burned">>, <<"allowances", "minted", "burned">>,
   <<"balances", "allowances", "minted", "burned">>,
   <<"faucet", "balances", "allowances", "minted", "burned">>, <<"faucet">>,
   <<"burned", "faucet">>, <<"minted", "burned", "faucet">>,
   <<"allowances", "minted", "burned", "faucet">>,
   <<"balances", "allowances", "minted", "burned", "faucet">>}
BankTails == {<<>>, <<"meta">>, <<"positions", "meta">>}
DeskTails ==
  {<<>>, <<"lending">>, <<"vaults">>, <<"oracle">>, <<"market">>, <<"agents">>, <<"reputation">>,
   <<"agents", "reputation">>}
ChainTails == {<<>>, <<"pool">>, <<"utxo", "pool">>, <<"chain", "utxo", "pool">>}

ListInv ==
  /\ StoreInv
  /\ client = "token" => writes \in TokenTails
  /\ client = "bank" => writes \in BankTails
  /\ client \in DeskClients => writes \in DeskTails
  /\ client = "chain" => writes \in ChainTails

LEMMA TailsClosed ==
  /\ \A s \in TokenTails \ {<<>>} : Tail(s) \in TokenTails
  /\ \A s \in BankTails \ {<<>>} : Tail(s) \in BankTails
  /\ \A s \in DeskTails \ {<<>>} : Tail(s) \in DeskTails
  /\ \A s \in ChainTails \ {<<>>} : Tail(s) \in ChainTails
<1>1. \A s \in TokenTails \ {<<>>} : Tail(s) \in TokenTails
  <2>1. /\ Tail(<<"burned">>) = <<>> /\ Tail(<<"minted", "burned">>) = <<"burned">>
        /\ Tail(<<"allowances", "minted", "burned">>) = <<"minted", "burned">>
        /\ Tail(<<"balances", "allowances", "minted", "burned">>)
             = <<"allowances", "minted", "burned">>
        /\ Tail(<<"faucet", "balances", "allowances", "minted", "burned">>)
             = <<"balances", "allowances", "minted", "burned">>
    OBVIOUS
  <2>2. /\ Tail(<<"faucet">>) = <<>> /\ Tail(<<"burned", "faucet">>) = <<"faucet">>
        /\ Tail(<<"minted", "burned", "faucet">>) = <<"burned", "faucet">>
        /\ Tail(<<"allowances", "minted", "burned", "faucet">>) = <<"minted", "burned", "faucet">>
        /\ Tail(<<"balances", "allowances", "minted", "burned", "faucet">>)
             = <<"allowances", "minted", "burned", "faucet">>
    OBVIOUS
  <2> QED
    BY <2>1, <2>2, Zenon DEF TokenTails
<1>2. \A s \in BankTails \ {<<>>} : Tail(s) \in BankTails
  <2>1. Tail(<<"meta">>) = <<>> /\ Tail(<<"positions", "meta">>) = <<"meta">>
    OBVIOUS
  <2> QED
    BY <2>1, Zenon DEF BankTails
<1>3. \A s \in DeskTails \ {<<>>} : Tail(s) \in DeskTails
  <2>1. /\ Tail(<<"lending">>) = <<>> /\ Tail(<<"vaults">>) = <<>> /\ Tail(<<"oracle">>) = <<>>
        /\ Tail(<<"market">>) = <<>> /\ Tail(<<"agents">>) = <<>> /\ Tail(<<"reputation">>) = <<>>
        /\ Tail(<<"agents", "reputation">>) = <<"reputation">>
    OBVIOUS
  <2> QED
    BY <2>1, Zenon DEF DeskTails
<1>4. \A s \in ChainTails \ {<<>>} : Tail(s) \in ChainTails
  <2>1. /\ Tail(<<"pool">>) = <<>> /\ Tail(<<"utxo", "pool">>) = <<"pool">>
        /\ Tail(<<"chain", "utxo", "pool">>) = <<"utxo", "pool">>
    OBVIOUS
  <2> QED
    BY <2>1, Zenon DEF ChainTails
<1> QED
  BY <1>1, <1>2, <1>3, <1>4

\* Every list a call begins with is a list of keys.
LEMMA BeginsKeys ==
  ASSUME Begins, client \in Clients
  PROVE  /\ writes' \in Seq(Keys)
         /\ client = "token" => writes' \in TokenTails
         /\ client = "bank" => writes' \in BankTails
         /\ client \in DeskClients => writes' \in DeskTails
         /\ client = "chain" => writes' \in ChainTails
<1>1. /\ <<>> \in Seq(Keys) /\ TokenKeys \in Seq(Keys) /\ ClaimKeys \in Seq(Keys)
      /\ AllTokenKeys \in Seq(Keys) /\ StakingKeys \in Seq(Keys)
      /\ <<"pool">> \in Seq(Keys) /\ ChainKeys \in Seq(Keys)
  BY DEF Keys, TokenKeys, ClaimKeys, AllTokenKeys, StakingKeys, ChainKeys
<1>2. writes' \in Seq(Keys)
  <2>1. /\ <<"lending">> \in Seq(Keys) /\ <<"vaults">> \in Seq(Keys) /\ <<"oracle">> \in Seq(Keys)
        /\ <<"market">> \in Seq(Keys) /\ <<"agents">> \in Seq(Keys) /\ AgentKeys \in Seq(Keys)
    BY DEF Keys, AgentKeys
  <2> QED
    BY <1>1, <2>1 DEF Begins, DeskLists
<1>3. {<<>>, TokenKeys, ClaimKeys, AllTokenKeys} \subseteq TokenTails
  BY Zenon DEF TokenTails, TokenKeys, ClaimKeys, AllTokenKeys
<1>4. {<<>>, StakingKeys} \subseteq BankTails /\ {<<>>, <<"pool">>, ChainKeys} \subseteq ChainTails
  BY Zenon DEF BankTails, StakingKeys, ChainTails, ChainKeys
<1>5. DeskLists \subseteq DeskTails
  BY Zenon DEF DeskLists, DeskTails, AgentKeys
<1> QED
  BY <1>2, <1>3, <1>4, <1>5 DEF Begins, DeskClients

LEMMA ListStep ==
  ASSUME ListInv, [Next]_vars
  PROVE  ListInv'
<1>1. CASE Calls
  <2>1. /\ Begins /\ client' = client /\ disk' = disk
    BY <1>1, CallFrame DEF ListInv, StoreInv
  <2> QED
    BY <2>1, BeginsKeys DEF ListInv, StoreInv
<1>2. CASE Put
  <2>1. client' = client /\ writes' = Tail(writes) /\ writes # <<>> /\ StoreInv'
    BY <1>2, PutOne DEF Put, Idle, ListInv
  <2> QED
    BY <2>1, TailsClosed DEF ListInv
<1>3. CASE Restart
  <2>1. writes' = <<>> /\ client' = client /\ disk' = disk
    BY <1>3 DEF Restart
  <2> QED
    BY <2>1 DEF ListInv, StoreInv, TokenTails, BankTails, DeskTails, ChainTails
<1>4. CASE Tick
  BY <1>4 DEF Tick, ListInv, StoreInv
<1>5. CASE UNCHANGED vars
  BY <1>5 DEF vars, ListInv, StoreInv
<1> QED
  BY <1>1, <1>2, <1>3, <1>4, <1>5 DEF Next, Calls, DeskOps

LEMMA ListInit ==
  ASSUME Init
  PROVE  ListInv
<1>1. DOMAIN disk = Keys /\ disk = [k \in Keys |-> disk[k]]
  BY DEF Init, Image, Keys
<1>2. writes = <<>> /\ client \in Clients
  BY DEF Init, Clients
<1> QED
  BY <1>1, <1>2 DEF ListInv, StoreInv, TokenTails, BankTails, DeskTails, ChainTails

-----------------------------------------------------------------------------
(* The staking pool: a payout is reported once.                            *)

Position == [state : States, amount : Nat, reward : Int]
Positions == [Stakers -> Position]
StakingRecords == [pos : Positions, total : Int, distributed : Nat]
Final(position) == position.state \in {"withdrawn", "slashed"}

\* A record with one field replaced.
LEMMA PositionExcept ==
  ASSUME NEW r \in Position
  PROVE  /\ \A s \in States :
              /\ [r EXCEPT !.state = s] = [state |-> s, amount |-> r.amount, reward |-> r.reward]
              /\ [r EXCEPT !.state = s] \in Position
         /\ \A n \in Nat :
              /\ [r EXCEPT !.amount = n] = [state |-> r.state, amount |-> n, reward |-> r.reward]
              /\ [r EXCEPT !.amount = n] \in Position
         /\ \A n \in Int :
              /\ [r EXCEPT !.reward = n] = [state |-> r.state, amount |-> r.amount, reward |-> n]
              /\ [r EXCEPT !.reward = n] \in Position
  BY DEF Position

\* Stake gives an agent without a position an active one.
LEMMA StakeStep ==
  ASSUME StakingAssumption, staking \in StakingRecords, NEW a \in Stakers, NEW n \in Stakes, Stake(a, n)
  PROVE  /\ staking' \in StakingRecords
         /\ \A b \in Stakers : Final(staking.pos[b]) => Final(staking'.pos[b])
         /\ staking.pos[a].state = "none"
         /\ staking'.pos = [staking.pos EXCEPT ![a] = [state |-> "active", amount |-> n, reward |-> 0]]
         /\ staking'.total = staking.total + n /\ staking'.distributed = staking.distributed
<1> DEFINE p == [state |-> "active", amount |-> n, reward |-> 0]
<1>1. p \in Position /\ n \in Nat
  BY DEF StakingAssumption, States, Position
<1> HIDE DEF p
<1>2. staking.pos \in Positions /\ staking.total \in Int /\ staking.distributed \in Nat
  BY DEF StakingRecords
<1>3. staking' = [pos |-> [staking.pos EXCEPT ![a] = p], total |-> staking.total + n,
                  distributed |-> staking.distributed]
  <2>1. staking' = [staking EXCEPT !.pos[a] = p, !.total = @ + n]
    BY DEF Stake, p
  <2> QED
    BY <2>1 DEF StakingRecords
<1>4. staking.pos[a].state = "none"
  BY DEF Stake
<1>5. [staking.pos EXCEPT ![a] = p] \in Positions
  BY <1>1, <1>2 DEF Positions, Position
<1>6. staking' \in StakingRecords /\ staking'.pos = [staking.pos EXCEPT ![a] = p]
  BY <1>1, <1>2, <1>3, <1>5 DEF StakingRecords
<1>7. staking'.total = staking.total + n /\ staking'.distributed = staking.distributed
  BY <1>3
<1>8. \A b \in Stakers : Final(staking.pos[b]) => Final(staking'.pos[b])
  BY <1>2, <1>4, <1>6 DEF Final, Positions, Position
<1> QED
  BY <1>4, <1>6, <1>7, <1>8 DEF p

\* Unstake withdraws an active position.
LEMMA UnstakeStep ==
  ASSUME staking \in StakingRecords, NEW a \in Stakers, Unstake(a)
  PROVE  /\ staking' \in StakingRecords
         /\ ~Final(staking.pos[a]) /\ Final(staking'.pos[a])
         /\ \A b \in Stakers : Final(staking.pos[b]) => Final(staking'.pos[b])
         /\ staking.pos[a].state = "active"
         /\ staking'.pos = [staking.pos EXCEPT ![a] = [staking.pos[a] EXCEPT !.state = "withdrawn"]]
         /\ staking'.total = staking.total - staking.pos[a].amount
         /\ staking'.distributed = staking.distributed
<1> DEFINE p == [staking.pos[a] EXCEPT !.state = "withdrawn"]
<1>1. staking.pos \in Positions /\ staking.total \in Int /\ staking.distributed \in Nat
  BY DEF StakingRecords
<1>2. staking.pos[a] \in Position
  BY <1>1 DEF Positions, Position
<1>3. p \in Position /\ p.state = "withdrawn"
  BY <1>2, PositionExcept DEF States, Position
<1>4. staking' = [staking EXCEPT !.pos[a].state = "withdrawn", !.total = @ - staking.pos[a].amount]
  BY DEF Unstake
<1>5. staking' = [pos |-> [staking.pos EXCEPT ![a] = p], total |-> staking.total - staking.pos[a].amount,
                  distributed |-> staking.distributed]
  BY <1>4 DEF StakingRecords
<1> HIDE DEF p
<1>6. [staking.pos EXCEPT ![a] = p] \in Positions
  BY <1>1, <1>3 DEF Positions, Position
<1>7. staking' \in StakingRecords /\ staking'.pos = [staking.pos EXCEPT ![a] = p]
  BY <1>1, <1>2, <1>5, <1>6 DEF StakingRecords, Position
<1>8. staking.pos[a].state = "active"
  BY DEF Unstake
<1>9. /\ ~Final(staking.pos[a]) /\ Final(staking'.pos[a])
      /\ \A b \in Stakers : Final(staking.pos[b]) => Final(staking'.pos[b])
  BY <1>1, <1>3, <1>7, <1>8 DEF Final, Positions, Position
<1>10. staking'.total = staking.total - staking.pos[a].amount /\ staking'.distributed = staking.distributed
  BY <1>5
<1> QED
  BY <1>7, <1>8, <1>9, <1>10 DEF p

\* A percentage of an amount is at most the amount.
LEMMA PartOfAmount ==
  ASSUME NEW n \in Nat, NEW percent \in 0..100
  PROVE  (n * percent) \div 100 \in Nat /\ n - (n * percent) \div 100 \in Nat
<1> DEFINE x == n * percent
<1>1. x \in Nat /\ x <= n * 100
  <2>1. 100 - percent \in Nat
    OBVIOUS
  <2>2. n * (100 - percent) \in Nat
    BY <2>1
  <2>3. n * (100 - percent) = n * 100 - x
    BY <2>1
  <2> QED
    BY <2>2, <2>3
<1> HIDE DEF x
<1>2. x \div 100 \in Nat /\ x \div 100 <= n
  BY <1>1
<1> QED
  BY <1>2 DEF x

\* Slash marks a position, whatever its state.
LEMMA SlashStep ==
  ASSUME StakingAssumption, staking \in StakingRecords, NEW a \in Stakers, NEW percent \in Percents,
         Slash(a, percent)
  PROVE  /\ staking' \in StakingRecords
         /\ \A b \in Stakers : Final(staking.pos[b]) => Final(staking'.pos[b])
         /\ staking.pos[a].state # "none"
         /\ \E cut \in 0..staking.pos[a].amount :
              /\ staking'.pos = [staking.pos EXCEPT ![a] =
                                   [state |-> "slashed", amount |-> staking.pos[a].amount - cut,
                                    reward |-> staking.pos[a].reward]]
              /\ staking'.total = staking.total - cut
         /\ staking'.distributed = staking.distributed
<1> DEFINE old == staking.pos[a]
           cut == (old.amount * percent) \div 100
           p == [state |-> "slashed", amount |-> old.amount - cut, reward |-> old.reward]
<1>1. staking.pos \in Positions /\ staking.total \in Int /\ staking.distributed \in Nat
  BY DEF StakingRecords
<1>2. old \in Position
  BY <1>1 DEF Positions, Position
<1>3. cut \in Nat /\ old.amount - cut \in Nat
  <2>1. old.amount \in Nat /\ percent \in 0..100
    BY <1>2 DEF StakingAssumption, Position
  <2> QED
    BY <2>1, PartOfAmount
<1>4. staking' = [staking EXCEPT !.pos[a].amount = @ - cut, !.pos[a].state = "slashed", !.total = @ - cut]
  BY DEF Slash
<1> HIDE DEF cut
<1>5. staking' = [pos |-> [staking.pos EXCEPT ![a] = p], total |-> staking.total - cut,
                  distributed |-> staking.distributed]
  <2> DEFINE m == [staking.pos[a] EXCEPT !.amount = @ - cut]
             q == [staking.pos EXCEPT ![a] = m]
             r == [pos |-> q, total |-> staking.total, distributed |-> staking.distributed]
             z == [q EXCEPT ![a] = p]
             t == [pos |-> z, total |-> staking.total, distributed |-> staking.distributed]
  <2>1. m = [state |-> old.state, amount |-> old.amount - cut, reward |-> old.reward]
    BY <1>2, <1>3, PositionExcept DEF Position
  <2>2. [m EXCEPT !.state = "slashed"] = p
    <3> DEFINE k == old.amount - cut
    <3>1. k \in Int /\ old.state \in States /\ old.reward \in Int
      BY <1>2, <1>3 DEF Position
    <3> HIDE DEF k, m
    <3>2. m = [state |-> old.state, amount |-> k, reward |-> old.reward]
      BY <2>1 DEF k
    <3>3. [m EXCEPT !.state = "slashed"] = [state |-> "slashed", amount |-> k, reward |-> old.reward]
      BY <3>2
    <3> QED
      BY <3>3 DEF k
  <2>3. [staking EXCEPT !.pos[a].amount = @ - cut] = r
    BY <1>1 DEF StakingRecords
  <2> HIDE DEF m, p
  <2>4. q[a] = m /\ z = [staking.pos EXCEPT ![a] = p]
    BY <1>1 DEF Positions, Position
  <2>5. [r EXCEPT !.pos[a].state = "slashed"] = t
    <3>1. [r EXCEPT !.pos[a].state = "slashed"]
            = [r EXCEPT !.pos = [q EXCEPT ![a] = [q[a] EXCEPT !.state = "slashed"]]]
      BY Zenon
    <3>2. [q EXCEPT ![a] = [q[a] EXCEPT !.state = "slashed"]] = z
      BY <2>2, <2>4, Zenon
    <3> HIDE DEF z, q
    <3> QED
      BY <3>1, <3>2
  <2>6. [t EXCEPT !.total = @ - cut]
          = [pos |-> z, total |-> staking.total - cut, distributed |-> staking.distributed]
    <3> HIDE DEF z
    <3> QED
      OBVIOUS
  <2> HIDE DEF r, t, z
  <2>7. staking' = [[[staking EXCEPT !.pos[a].amount = @ - cut] EXCEPT !.pos[a].state = "slashed"]
                     EXCEPT !.total = @ - cut]
    BY <1>4, Zenon
  <2> QED
    BY <2>3, <2>4, <2>5, <2>6, <2>7, Zenon
<1>6. p \in Position /\ p.state = "slashed"
  BY <1>2, <1>3 DEF States, Position
<1> HIDE DEF p
<1>7. [staking.pos EXCEPT ![a] = p] \in Positions
  BY <1>1, <1>6 DEF Positions, Position
<1>8. staking' \in StakingRecords /\ staking'.pos = [staking.pos EXCEPT ![a] = p]
  BY <1>1, <1>3, <1>5, <1>7 DEF StakingRecords
<1>9. \A b \in Stakers : Final(staking.pos[b]) => Final(staking'.pos[b])
  BY <1>1, <1>6, <1>8 DEF Final, Positions, Position
<1>10. staking'.total = staking.total - cut /\ staking'.distributed = staking.distributed
  BY <1>5
<1>11. cut \in 0..staking.pos[a].amount
  BY <1>2, <1>3 DEF Position
<1>12. staking.pos[a].state # "none"
  BY DEF Slash
<1> QED
  BY <1>8, <1>9, <1>10, <1>11, <1>12 DEF p

\* A distribution leaves every state, and every position when nobody has a share.
LEMMA RewardStep ==
  ASSUME StakingAssumption, staking \in StakingRecords, NEW n \in Rewards, DistributeRewards(n)
  PROVE  /\ staking' \in StakingRecords
         /\ \A b \in Stakers : Final(staking.pos[b]) => Final(staking'.pos[b])
         /\ (\A b \in Stakers : Effective(b) = 0) => staking'.pos = staking.pos
         /\ staking.total # 0 /\ n \in Nat
         /\ \A b \in Stakers :
              /\ Share(b, n) \in Int
              /\ staking'.pos[b] = [state |-> staking.pos[b].state, amount |-> staking.pos[b].amount,
                                    reward |-> staking.pos[b].reward + Share(b, n)]
         /\ staking'.total = staking.total /\ staking'.distributed = staking.distributed + n
<1> DEFINE Paid(b) == [staking.pos[b] EXCEPT !.reward = @ + Share(b, n)]
           q == [b \in Stakers |-> Paid(b)]
<1>1. /\ staking.pos \in Positions /\ staking.total \in Int /\ staking.distributed \in Nat
      /\ n \in Nat /\ staking.total # 0
  BY DEF StakingRecords, StakingAssumption, DistributeRewards
<1>2. \A b \in Stakers : staking.pos[b] \in Position
  BY <1>1 DEF Positions, Position
<1>3. \A b \in Stakers : Share(b, n) \in Int
  <2>1. SUFFICES ASSUME NEW b \in Stakers PROVE Share(b, n) \in Int
    OBVIOUS
  <2>2. Effective(b) \in Int
    BY <1>2 DEF Effective, Position
  <2>3. n * Effective(b) \in Int
    BY <2>2, <1>1
  <2>4. \A x, y \in Int : y # 0 => Truncated(x, y) \in Int
    BY DEF Truncated
  <2> QED
    BY <2>3, <2>4, <1>1 DEF Share
<1>4. \A b \in Stakers : /\ Paid(b) \in Position
                         /\ Paid(b).state = staking.pos[b].state
                         /\ Share(b, n) = 0 => Paid(b) = staking.pos[b]
                         /\ Paid(b) = [state |-> staking.pos[b].state, amount |-> staking.pos[b].amount,
                                       reward |-> staking.pos[b].reward + Share(b, n)]
  <2>1. SUFFICES ASSUME NEW b \in Stakers
                 PROVE  /\ Paid(b) \in Position
                        /\ Paid(b).state = staking.pos[b].state
                        /\ Share(b, n) = 0 => Paid(b) = staking.pos[b]
                        /\ Paid(b) = [state |-> staking.pos[b].state, amount |-> staking.pos[b].amount,
                                      reward |-> staking.pos[b].reward + Share(b, n)]
    OBVIOUS
  <2>2. staking.pos[b].reward + Share(b, n) \in Int
    BY <1>2, <1>3 DEF Position
  <2>3. Paid(b) = [state |-> staking.pos[b].state, amount |-> staking.pos[b].amount,
                   reward |-> staking.pos[b].reward + Share(b, n)]
    BY <1>2, <2>2, PositionExcept
  <2> QED
    BY <1>2, <2>2, <2>3 DEF Position
<1>5. staking' = [staking EXCEPT !.pos = q, !.distributed = @ + n]
  BY DEF DistributeRewards
<1> HIDE DEF Paid
<1>6. q \in Positions
  BY <1>4 DEF Positions, Position
<1>7. \A b \in Stakers : q[b] = Paid(b)
  OBVIOUS
<1> HIDE DEF q
<1>8. staking' = [pos |-> q, total |-> staking.total, distributed |-> staking.distributed + n]
  BY <1>5 DEF StakingRecords
<1>9. staking' \in StakingRecords /\ staking'.pos = q
  BY <1>1, <1>6, <1>8 DEF StakingRecords
<1>10. (\A b \in Stakers : Effective(b) = 0) => q = staking.pos
  <2>1. \A b \in Stakers : Effective(b) = 0 => q[b] = staking.pos[b]
    BY <1>4, <1>7 DEF Share
  <2> QED
    BY <2>1, <1>1, <1>6 DEF Positions, Position
<1>11. \A b \in Stakers : Final(staking.pos[b]) => Final(staking'.pos[b])
  BY <1>4, <1>7, <1>9 DEF Final
<1>12. staking'.total = staking.total /\ staking'.distributed = staking.distributed + n
  BY <1>8
<1>13. \A b \in Stakers : staking'.pos[b] = Paid(b)
  BY <1>7, <1>9
<1> QED
  BY <1>1, <1>3, <1>4, <1>9, <1>10, <1>11, <1>12, <1>13

\* An unstake in progress has its position final in memory; a reported one has
\* it final on disk too, because positions are put before the answer.
PayInv ==
  /\ ListInv
  /\ staking \in StakingRecords /\ disk["positions"] \in Positions
  /\ disk["meta"].total \in Int /\ disk["meta"].distributed \in Nat
  /\ disk["positions"] = staking.pos \/ (writes # <<>> /\ Head(writes) = "positions")
  /\ paid \in [Stakers -> Nat] /\ payee \in Stakers \cup {Nobody}
  /\ payee # Nobody => /\ writes \in {StakingKeys, <<"meta">>}
                       /\ paid[payee] = 0 /\ Final(staking.pos[payee])
  /\ \A a \in Stakers : paid[a] <= 1
  /\ \A a \in Stakers : paid[a] = 1 => Final(staking.pos[a]) /\ Final(disk["positions"][a])

LEMMA PayInit ==
  ASSUME Init
  PROVE  PayInv
<1>1. ListInv
  BY ListInit
<1>2. staking.pos = [a \in Stakers |-> [state |-> "none", amount |-> 0, reward |-> 0]]
      /\ staking = [pos |-> staking.pos, total |-> 0, distributed |-> 0]
  BY DEF Init, StakingInit
<1>3. staking.pos \in Positions
  BY <1>2 DEF Positions, States, Position
<1>4. staking \in StakingRecords
  BY <1>2, <1>3 DEF StakingRecords
<1>5. disk["positions"] = staking.pos /\ disk["meta"].total \in Int /\ disk["meta"].distributed \in Nat
  <2>1. /\ disk["positions"] = staking.pos
        /\ disk["meta"] = [total |-> staking.total, distributed |-> staking.distributed]
    BY DEF Init, Image
  <2> QED
    BY <2>1, <1>4 DEF StakingRecords
<1>6. paid = [a \in Stakers |-> 0] /\ payee = Nobody
  BY DEF Init
<1>7. paid \in [Stakers -> Nat] /\ \A a \in Stakers : paid[a] = 0
  BY <1>6
<1> QED
  BY <1>1, <1>3, <1>4, <1>5, <1>6, <1>7 DEF PayInv

\* At rest nothing of the pool is pending.
LEMMA PayIdle ==
  ASSUME PayInv, Idle
  PROVE  payee = Nobody /\ disk["positions"] = staking.pos
<1>1. StakingKeys # <<>> /\ <<"meta">> # <<>>
  BY DEF StakingKeys
<1> QED
  BY <1>1 DEF PayInv, Idle

\* A call of the pool's own client that keeps final positions final.
LEMMA PayBegin ==
  ASSUME PayInv, ListInv', Idle, writes' = StakingKeys, staking' \in StakingRecords,
         \A b \in Stakers : Final(staking.pos[b]) => Final(staking'.pos[b]),
         UNCHANGED <<disk, paid>>,
         payee' \in Stakers \cup {Nobody},
         payee' # Nobody => ~Final(staking.pos[payee']) /\ Final(staking'.pos[payee'])
  PROVE  PayInv'
<1>1. writes' # <<>> /\ Head(writes') = "positions"
  BY DEF StakingKeys
<1>2. payee' # Nobody => paid[payee'] = 0
  <2>1. ASSUME payee' # Nobody PROVE payee' \in Stakers /\ paid[payee'] \in Nat /\ paid[payee'] # 1 /\ paid[payee'] <= 1
    BY <2>1 DEF PayInv
  <2> QED
    BY <2>1
<1> QED
  BY <1>1, <1>2 DEF PayInv

\* A call that leaves the positions as they are.
LEMMA PayOther ==
  ASSUME PayInv, ListInv', Idle, staking' \in StakingRecords, staking'.pos = staking.pos,
         UNCHANGED <<disk, paid>>, payee' = Nobody
  PROVE  PayInv'
  BY PayIdle DEF PayInv

LEMMA PayStep ==
  ASSUME PayInv, [Next]_vars
  PROVE  PayInv'
<1>1. ListInv'
  BY ListStep DEF PayInv
<1>2. client \in Clients /\ staking \in StakingRecords /\ payee \in Stakers \cup {Nobody}
  BY DEF PayInv, ListInv, StoreInv
<1>3. CASE Calls
  <2>1. Idle /\ UNCHANGED <<disk, paid>>
    BY <1>2, <1>3, CallFrame
  <2>2. payee = Nobody
    BY <2>1, PayIdle
  <2>3. CASE UNCHANGED <<staking, payee>>
    BY <1>1, <1>2, <2>1, <2>2, <2>3, PayOther
  <2>4. CASE StakingOp
    <3>1. writes' = StakingKeys /\ payee' = Nobody
      BY <2>2, <2>4 DEF StakingOp, Call
    <3>2. /\ staking' \in StakingRecords
          /\ \A b \in Stakers : Final(staking.pos[b]) => Final(staking'.pos[b])
      <4>1. CASE \E a \in Stakers, n \in Stakes : Stake(a, n)
        BY <4>1, <1>2, StakeStep, StakingAssumption
      <4>2. CASE \E a \in Stakers, percent \in Percents : Slash(a, percent)
        BY <4>2, <1>2, SlashStep, StakingAssumption
      <4>3. CASE \E n \in Rewards : DistributeRewards(n)
        BY <4>3, <1>2, RewardStep, StakingAssumption
      <4> QED
        BY <2>4, <4>1, <4>2, <4>3 DEF StakingOp
    <3> QED
      BY <1>1, <2>1, <3>1, <3>2, PayBegin
  <2>5. CASE RewardsToNobody
    <3>1. payee' = Nobody /\ \A a \in Stakers : Effective(a) = 0
      BY <2>2, <2>5 DEF RewardsToNobody
    <3>2. PICK n \in Rewards : DistributeRewards(n)
      BY <2>5 DEF RewardsToNobody
    <3>3. staking' \in StakingRecords /\ staking'.pos = staking.pos
      BY <3>1, <3>2, <1>2, RewardStep, StakingAssumption
    <3> QED
      BY <1>1, <2>1, <3>1, <3>3, PayOther
  <2>6. CASE UnstakeOp
    <3>1. writes' = StakingKeys
      BY <2>6 DEF UnstakeOp, Call
    <3>2. PICK a \in Stakers : Unstake(a) /\ payee' = a
      BY <2>6 DEF UnstakeOp
    <3>3. /\ staking' \in StakingRecords /\ ~Final(staking.pos[a]) /\ Final(staking'.pos[a])
          /\ \A b \in Stakers : Final(staking.pos[b]) => Final(staking'.pos[b])
      BY <3>2, <1>2, UnstakeStep
    <3> QED
      BY <1>1, <2>1, <3>1, <3>2, <3>3, PayBegin
  <2>7. TokenOp \/ TokenOpRefused \/ FaucetClaim \/ DeskOps \/ PoolOp \/ SubmitTransaction
          \/ MineOp \/ PersistAll => UNCHANGED <<staking, payee>>
    BY DeskFrame DEF TokenOp, TokenOpRefused, FaucetClaim, PoolOp, SubmitTransaction, MineOp,
                     PersistAll, memory
  <2> QED
    BY <1>3, <2>3, <2>4, <2>5, <2>6, <2>7 DEF Calls
<1>4. CASE Put
  <2> DEFINE k == Head(writes)
  <2>1. k \in Keys /\ \A j \in Keys : disk'[j] = IF j = k THEN Image[j] ELSE disk[j]
    BY <1>4, PutOne DEF PayInv, ListInv
  <2>2. staking' = staking /\ writes' = Tail(writes) /\ writes # <<>>
    BY <1>4 DEF Put, memory, Idle
  <2>3. /\ Image["positions"] = staking.pos
        /\ Image["meta"].total = staking.total /\ Image["meta"].distributed = staking.distributed
    BY DEF Image
  <2>4. "positions" \in Keys /\ "meta" \in Keys
    BY DEF Keys
  <2>5. disk'["positions"] = staking.pos
    BY <2>1, <2>3, <2>4 DEF PayInv
  <2>6. disk'["meta"].total \in Int /\ disk'["meta"].distributed \in Nat /\ staking.pos \in Positions
    BY <2>1, <2>3, <2>4 DEF PayInv, StakingRecords
  <2>7. Tail(StakingKeys) = <<"meta">> /\ Tail(<<"meta">>) = <<>>
    BY DEF StakingKeys
  <2>8. /\ paid' \in [Stakers -> Nat] /\ payee' \in Stakers \cup {Nobody}
        /\ payee' # Nobody => /\ writes' \in {StakingKeys, <<"meta">>}
                              /\ paid'[payee'] = 0 /\ Final(staking.pos[payee'])
        /\ \A a \in Stakers : paid'[a] <= 1
        /\ \A a \in Stakers : paid'[a] = 1 => Final(staking.pos[a])
    <3>1. CASE payee # Nobody /\ Tail(writes) = <<>>
      <4>1. payee' = Nobody /\ paid' = [paid EXCEPT ![payee] = @ + 1] /\ payee \in Stakers
        BY <1>4, <3>1, <1>2 DEF Put
      <4>2. paid[payee] = 0 /\ Final(staking.pos[payee]) /\ paid \in [Stakers -> Nat]
        BY <3>1 DEF PayInv
      <4>3. \A a \in Stakers : paid'[a] = IF a = payee THEN 1 ELSE paid[a]
        BY <4>1, <4>2
      <4>4. paid' \in [Stakers -> Nat]
        BY <4>1, <4>2
      <4> QED
        BY <4>1, <4>2, <4>3, <4>4 DEF PayInv
    <3>2. CASE ~(payee # Nobody /\ Tail(writes) = <<>>)
      <4>1. UNCHANGED <<payee, paid>>
        BY <1>4, <3>2 DEF Put
      <4>2. payee # Nobody => writes = StakingKeys
        BY <3>2, <2>7 DEF PayInv
      <4> QED
        BY <4>1, <4>2, <2>2, <2>7 DEF PayInv
    <3> QED
      BY <3>1, <3>2
  <2> QED
    BY <1>1, <2>2, <2>5, <2>6, <2>8 DEF PayInv
<1>5. CASE Restart
  <2>1. /\ UNCHANGED <<disk, paid>> /\ payee' = Nobody
        /\ staking' = [pos |-> disk["positions"], total |-> disk["meta"].total,
                       distributed |-> disk["meta"].distributed]
    BY <1>5 DEF Restart
  <2>2. staking' \in StakingRecords /\ staking'.pos = disk["positions"]
    BY <2>1 DEF PayInv, StakingRecords
  <2> QED
    BY <1>1, <2>1, <2>2 DEF PayInv
<1>6. CASE Tick
  BY <1>1, <1>6 DEF Tick, memory, PayInv
<1>7. CASE UNCHANGED vars
  BY <1>1, <1>7 DEF vars, memory, PayInv
<1> QED
  BY <1>3, <1>4, <1>5, <1>6, <1>7 DEF Next, Calls, DeskOps

\* However often the process is killed between two puts, an agent is told at
\* most once that its stake was paid out, and its position stays final.
THEOREM NodePaysOutOnce == Spec => []PaidOutOnce
<1>1. Init => PayInv
  BY PayInit
<1>2. PayInv /\ [Next]_vars => PayInv'
  BY PayStep
<1>3. PayInv => PaidOutOnce
  BY DEF PayInv, PaidOutOnce, Final
<1> QED
  BY <1>1, <1>2, <1>3, PTL DEF Spec

-----------------------------------------------------------------------------
(* The faucet: coins never run ahead of the claims that are on disk.       *)

TokenFields == {"balances", "allowances", "minted", "burned", "granted"}
FaucetFields == {"claims", "count", "start"}
Times == [Agents -> Seq(Nat)]

\* The token's calls leave the history of grants alone.
Keeps(t) == DOMAIN t = TokenFields /\ t.granted = token.granted

LEMMA KeepsOthers ==
  ASSUME NEW t, Keeps(t), NEW u, NEW v,
         \/ u = [t EXCEPT !.balances = v]
         \/ u = [t EXCEPT !.minted = v]
         \/ u = [t EXCEPT !.burned = v]
         \/ u = [t EXCEPT !.allowances = v]
  PROVE  Keeps(u)
<1>1. CASE u = [t EXCEPT !.balances = v]
  BY <1>1 DEF Keeps, TokenFields
<1>2. CASE u = [t EXCEPT !.minted = v]
  BY <1>2 DEF Keeps, TokenFields
<1>3. CASE u = [t EXCEPT !.burned = v]
  BY <1>3 DEF Keeps, TokenFields
<1>4. CASE u = [t EXCEPT !.allowances = v]
  BY <1>4 DEF Keeps, TokenFields
<1> QED
  BY <1>1, <1>2, <1>3, <1>4

LEMMA TokenKeeps ==
  ASSUME DOMAIN token = TokenFields, NEW a \in Agents, NEW b \in Agents, NEW c \in Agents, NEW n \in Amounts
  PROVE  /\ Keeps(Minted(a, n))
         /\ Mint(a, n) \/ Burn(a, n) \/ Transfer(a, b, n) \/ Approve(a, b, n)
              \/ TransferFrom(c, a, b, n) \/ TransferFromRefused(c, a, n) => Keeps(token')
<1>0. Keeps(token)
  BY DEF Keeps
<1>1. Keeps(Minted(a, n))
  <2> DEFINE t == [token EXCEPT !.balances[a] = @ + n]
  <2>1. Keeps(t)
    BY <1>0, KeepsOthers
  <2>2. Minted(a, n) = [t EXCEPT !.minted = token.minted + n]
    BY Zenon DEF Minted
  <2> HIDE DEF t
  <2> QED
    BY <2>1, <2>2, KeepsOthers
<1>2. Burn(a, n) => Keeps(token')
  <2> DEFINE t == [token EXCEPT !.balances[a] = @ - n]
  <2>1. Keeps(t)
    BY <1>0, KeepsOthers
  <2>2. Burn(a, n) => token' = [t EXCEPT !.burned = token.burned + n]
    BY Zenon DEF Burn
  <2> HIDE DEF t
  <2> QED
    BY <2>1, <2>2, KeepsOthers
<1>3. Keeps(Moved(a, b, n))
  <2> DEFINE t == [token EXCEPT !.balances[a] = @ - n]
  <2>1. Keeps(t)
    BY <1>0, KeepsOthers
  <2> HIDE DEF t
  <2>2. Moved(a, b, n) = [t EXCEPT !.balances[b] = @ + n]
    BY DEF Moved, t
  <2> QED
    BY <2>1, <2>2, KeepsOthers
<1>4. Approve(a, b, n) => Keeps(token')
  BY <1>0, KeepsOthers, Zenon DEF Approve
<1>5. TransferFrom(c, a, b, n) => Keeps(token')
  <2> DEFINE t == Moved(a, b, n)
  <2> HIDE DEF t
  <2>1. TransferFrom(c, a, b, n)
          => token' = [t EXCEPT !.allowances[a][c] = @ - n]
    BY Zenon DEF TransferFrom, t
  <2>2. Keeps(t)
    BY <1>3 DEF t
  <2> QED
    BY <2>1, <2>2, KeepsOthers, Zenon
<1>6. TransferFromRefused(c, a, n) => Keeps(token')
  BY <1>0, KeepsOthers, Zenon DEF TransferFromRefused
<1> QED
  BY <1>1, <1>2, <1>3, <1>4, <1>5, <1>6 DEF Mint, Transfer

\* The grants g are covered by the claims c: no more of them, none later, and
\* themselves a cooldown apart.
Behind(c, g) ==
  /\ Len(g) <= Len(c) /\ Len(c) * FaucetAmount <= MaxTotal
  /\ \A i \in 1..Len(g) - 1 : g[i + 1] - g[i] >= Cooldown
  /\ g # <<>> => g[Len(g)] <= c[Len(c)]

GrantInv ==
  /\ ListInv
  /\ DOMAIN token = TokenFields /\ token.granted \in Times
  /\ DOMAIN faucet = FaucetFields /\ faucet.claims \in Times
  /\ disk["balances"].granted \in Times
  /\ DOMAIN disk["faucet"] = FaucetFields /\ disk["faucet"].claims \in Times
  /\ now \in Nat
  /\ disk["faucet"].claims = faucet.claims \/ (writes # <<>> /\ Head(writes) = "faucet")
  /\ \A a \in Agents : /\ Behind(faucet.claims[a], token.granted[a])
                       /\ Behind(faucet.claims[a], disk["balances"].granted[a])
                       /\ Behind(disk["faucet"].claims[a], disk["balances"].granted[a])

LEMMA GrantInit ==
  ASSUME Init
  PROVE  GrantInv
<1>1. token.granted = [a \in Agents |-> <<>>] /\ faucet.claims = [a \in Agents |-> <<>>]
      /\ DOMAIN token = TokenFields /\ DOMAIN faucet = FaucetFields /\ now = 0
  BY DEF Init, TokenInit, TokenFields, FaucetFields
<1>2. disk["balances"].granted = token.granted /\ disk["faucet"] = faucet
  BY DEF Init, Image
<1>3. token.granted \in Times /\ faucet.claims \in Times
  BY <1>1 DEF Times
<1>4. Behind(<<>>, <<>>)
  BY TokenAssumption DEF Behind
<1>5. \A a \in Agents : token.granted[a] = <<>> /\ faucet.claims[a] = <<>>
  BY <1>1
<1> QED
  BY <1>1, <1>2, <1>3, <1>4, <1>5, ListInit DEF GrantInv

\* Opening a window forgets no claim.
LEMMA OpenedKeeps ==
  ASSUME DOMAIN faucet = FaucetFields
  PROVE  DOMAIN Opened = FaucetFields /\ Opened.claims = faucet.claims
<1> DEFINE f == [faucet EXCEPT !.count = 0]
<1>1. DOMAIN f = FaucetFields /\ f.claims = faucet.claims
  BY DEF FaucetFields
<1>2. Opened = IF now - faucet.start > Window THEN [f EXCEPT !.start = now] ELSE faucet
  BY Zenon DEF Opened
<1> HIDE DEF f
<1>3. DOMAIN [f EXCEPT !.start = now] = FaucetFields /\ [f EXCEPT !.start = now].claims = faucet.claims
  BY <1>1 DEF FaucetFields
<1> QED
  BY <1>2, <1>3

\* A claim appends the time to the claims and to the grants of its agent.
LEMMA ClaimStep ==
  ASSUME GrantInv, NEW a \in Agents, Claim(a)
  PROVE  /\ token'.granted = [token.granted EXCEPT ![a] = Append(@, now)]
         /\ faucet'.claims = [faucet.claims EXCEPT ![a] = Append(@, now)]
         /\ DOMAIN token' = TokenFields /\ DOMAIN faucet' = FaucetFields
         /\ (Len(faucet.claims[a]) + 1) * FaucetAmount <= MaxTotal
         /\ faucet.claims[a] # <<>> => now - faucet.claims[a][Len(faucet.claims[a])] >= Cooldown
<1>1. DOMAIN token = TokenFields /\ DOMAIN faucet = FaucetFields
  BY DEF GrantInv
<1>2. (Len(faucet.claims[a]) + 1) * FaucetAmount <= MaxTotal
      /\ (faucet.claims[a] # <<>> => now - faucet.claims[a][Len(faucet.claims[a])] >= Cooldown)
  BY DEF Claim, MayClaim
<1>3. token'.granted = [token.granted EXCEPT ![a] = Append(@, now)] /\ DOMAIN token' = TokenFields
  <2> DEFINE t == Minted(a, FaucetAmount)
             u == [token EXCEPT !.balances[a] = @ + FaucetAmount]
  <2>1. Keeps(u)
    BY <1>1, KeepsOthers DEF Keeps
  <2>2. t = [u EXCEPT !.minted = token.minted + FaucetAmount]
    BY Zenon DEF Minted
  <2> HIDE DEF u
  <2>3. Keeps(t)
    <3> HIDE DEF t
    <3> QED
      BY <2>1, <2>2, KeepsOthers
  <2> HIDE DEF t
  <2>4. token' = [t EXCEPT !.granted[a] = Append(@, now)]
    BY Zenon DEF Claim, t
  <2> QED
    BY <2>3, <2>4 DEF Keeps, TokenFields
<1>4. faucet'.claims = [faucet.claims EXCEPT ![a] = Append(@, now)] /\ DOMAIN faucet' = FaucetFields
  <2> DEFINE f == Opened
  <2>1. DOMAIN f = FaucetFields /\ f.claims = faucet.claims
    BY <1>1, OpenedKeeps
  <2> HIDE DEF f
  <2> DEFINE g == [f EXCEPT !.claims[a] = Append(@, now)]
  <2>2. DOMAIN g = FaucetFields /\ g.claims = [faucet.claims EXCEPT ![a] = Append(@, now)]
    BY <2>1 DEF FaucetFields
  <2>3. faucet' = [g EXCEPT !.count = f.count + 1]
    BY Zenon DEF Claim, f
  <2> HIDE DEF g
  <2> QED
    BY <2>2, <2>3 DEF FaucetFields
<1> QED
  BY <1>1, <1>2, <1>3, <1>4

\* A claim a cooldown after the last keeps grants behind claims.
LEMMA BehindAppend ==
  ASSUME NEW c \in Seq(Nat), NEW g \in Seq(Nat), Behind(c, g), NEW t \in Nat,
         (Len(c) + 1) * FaucetAmount <= MaxTotal, c # <<>> => t - c[Len(c)] >= Cooldown
  PROVE  Behind(Append(c, t), Append(g, t)) /\ Behind(Append(c, t), g)
<1>1. Cooldown \in Nat
  BY TokenAssumption
<1>2. Append(c, t) \in Seq(Nat) /\ Len(Append(c, t)) = Len(c) + 1 /\ Append(c, t)[Len(c) + 1] = t
  OBVIOUS
<1>3. Append(g, t) \in Seq(Nat) /\ Len(Append(g, t)) = Len(g) + 1 /\ Append(g, t)[Len(g) + 1] = t
      /\ \A i \in 1..Len(g) : Append(g, t)[i] = g[i]
  OBVIOUS
<1>4. g # <<>> => /\ c # <<>> /\ g[Len(g)] \in Nat /\ c[Len(c)] \in Nat /\ g[Len(g)] <= c[Len(c)]
                  /\ t - g[Len(g)] >= Cooldown /\ Len(g) >= 1
  BY <1>1 DEF Behind
<1> DEFINE h == Append(g, t)
           d == Append(c, t)
<1>5. \A i \in 1..Len(g) : h[i + 1] - h[i] >= Cooldown
  <2>1. SUFFICES ASSUME NEW i \in 1..Len(g) PROVE h[i + 1] - h[i] >= Cooldown
    OBVIOUS
  <2>2. CASE i = Len(g)
    BY <2>1, <2>2, <1>3, <1>4
  <2>3. CASE i # Len(g)
    BY <2>1, <2>3, <1>3 DEF Behind
  <2> QED
    BY <2>2, <2>3
<1>6. Behind(d, h)
  <2>1. Len(h) <= Len(d) /\ Len(d) * FaucetAmount <= MaxTotal
    BY <1>2, <1>3 DEF Behind
  <2>2. \A i \in 1..Len(h) - 1 : h[i + 1] - h[i] >= Cooldown
    BY <1>3, <1>5
  <2>3. h[Len(h)] <= d[Len(d)]
    BY <1>2, <1>3
  <2> HIDE DEF h, d
  <2> QED
    BY <2>1, <2>2, <2>3 DEF Behind
<1>7. Behind(d, g)
  <2>1. Len(g) <= Len(d) /\ Len(d) * FaucetAmount <= MaxTotal
    BY <1>2 DEF Behind
  <2>2. g # <<>> => g[Len(g)] <= d[Len(d)]
    BY <1>1, <1>2, <1>4
  <2> HIDE DEF d
  <2> QED
    BY <2>1, <2>2 DEF Behind
<1> QED
  BY <1>6, <1>7

\* A call that grants nothing.
LEMMA GrantOther ==
  ASSUME GrantInv, ListInv', Idle, DOMAIN token' = TokenFields, token'.granted = token.granted,
         DOMAIN faucet' = FaucetFields, faucet'.claims = faucet.claims, UNCHANGED <<disk, now>>
  PROVE  GrantInv'
  BY DEF GrantInv, Idle

LEMMA GrantStep ==
  ASSUME GrantInv, [Next]_vars
  PROVE  GrantInv'
<1>1. ListInv'
  BY ListStep DEF GrantInv
<1>2. client \in Clients /\ DOMAIN token = TokenFields /\ DOMAIN faucet = FaucetFields
  BY DEF GrantInv, ListInv, StoreInv
<1>3. CASE Calls
  <2>1. Idle /\ UNCHANGED <<disk, now>>
    BY <1>2, <1>3, CallFrame
  <2>2. CASE UNCHANGED <<token, faucet>>
    BY <1>1, <1>2, <2>1, <2>2, GrantOther
  <2>3. CASE TokenOp
    <3>1. faucet' = faucet
      BY <2>3 DEF TokenOp
    <3>2. Keeps(token')
      BY <1>2, <2>3, TokenKeeps DEF TokenOp
    <3> QED
      BY <1>1, <1>2, <2>1, <3>1, <3>2, GrantOther DEF Keeps
  <2>4. CASE TokenOpRefused
    <3>1. CASE \E s \in Agents, a \in Agents, n \in Amounts :
                 TransferFromRefused(s, a, n) /\ UNCHANGED faucet
      <4>1. Keeps(token') /\ faucet' = faucet
        BY <1>2, <3>1, TokenKeeps
      <4> QED
        BY <1>1, <1>2, <2>1, <4>1, GrantOther DEF Keeps
    <3>2. CASE \E a \in Agents : ClaimRefused(a)
      <4>1. faucet' = Opened /\ token' = token
        BY <3>2 DEF ClaimRefused
      <4> QED
        BY <1>1, <1>2, <2>1, <4>1, OpenedKeeps, GrantOther
    <3> QED
      BY <2>4, <3>1, <3>2 DEF TokenOpRefused
  <2>5. CASE FaucetClaim
    <3>1. writes' = ClaimKeys
      BY <2>5 DEF FaucetClaim, Call
    <3>2. PICK a \in Agents : Claim(a)
      BY <2>5 DEF FaucetClaim
    <3>3. writes' # <<>> /\ Head(writes') = "faucet"
      BY <3>1 DEF ClaimKeys
    <3>4. /\ token'.granted = [token.granted EXCEPT ![a] = Append(@, now)]
          /\ faucet'.claims = [faucet.claims EXCEPT ![a] = Append(@, now)]
          /\ DOMAIN token' = TokenFields /\ DOMAIN faucet' = FaucetFields
          /\ (Len(faucet.claims[a]) + 1) * FaucetAmount <= MaxTotal
          /\ faucet.claims[a] # <<>> => now - faucet.claims[a][Len(faucet.claims[a])] >= Cooldown
      BY <3>2, ClaimStep
    <3>5. /\ token.granted \in Times /\ faucet.claims \in Times /\ now \in Nat
          /\ disk["balances"].granted \in Times
      BY DEF GrantInv
    <3>6. token'.granted \in Times /\ faucet'.claims \in Times
      BY <3>4, <3>5 DEF Times
    <3>7. \A b \in Agents :
            /\ token'.granted[b] = IF b = a THEN Append(token.granted[a], now) ELSE token.granted[b]
            /\ faucet'.claims[b] = IF b = a THEN Append(faucet.claims[a], now) ELSE faucet.claims[b]
      BY <3>4, <3>5 DEF Times
    <3>8. /\ Behind(Append(faucet.claims[a], now), Append(token.granted[a], now))
          /\ Behind(Append(faucet.claims[a], now), disk["balances"].granted[a])
      <4>1. /\ faucet.claims[a] \in Seq(Nat) /\ token.granted[a] \in Seq(Nat)
            /\ disk["balances"].granted[a] \in Seq(Nat)
            /\ Behind(faucet.claims[a], token.granted[a])
            /\ Behind(faucet.claims[a], disk["balances"].granted[a])
        BY <3>5 DEF GrantInv, Times
      <4> QED
        BY <4>1, <3>4, <3>5, BehindAppend
    <3>9. \A b \in Agents : /\ Behind(faucet'.claims[b], token'.granted[b])
                            /\ Behind(faucet'.claims[b], disk["balances"].granted[b])
                            /\ Behind(disk["faucet"].claims[b], disk["balances"].granted[b])
      BY <3>7, <3>8 DEF GrantInv
    <3> QED
      BY <1>1, <2>1, <3>3, <3>4, <3>6, <3>9 DEF GrantInv
  <2>6. StakingOp \/ RewardsToNobody \/ UnstakeOp \/ DeskOps \/ PoolOp \/ SubmitTransaction
          \/ MineOp \/ PersistAll => UNCHANGED <<token, faucet>>
    BY DeskFrame DEF StakingOp, RewardsToNobody, UnstakeOp, PoolOp, SubmitTransaction, MineOp,
                     PersistAll, memory
  <2> QED
    BY <1>3, <2>2, <2>3, <2>4, <2>5, <2>6 DEF Calls
<1>4. CASE Put
  <2> DEFINE k == Head(writes)
  <2>1. k \in Keys /\ \A j \in Keys : disk'[j] = IF j = k THEN Image[j] ELSE disk[j]
    BY <1>4, PutOne DEF GrantInv, ListInv
  <2>2. UNCHANGED <<token, faucet, now>> /\ writes' = Tail(writes) /\ writes # <<>>
    BY <1>4 DEF Put, memory, Idle
  <2>3. Image["balances"].granted = token.granted /\ Image["faucet"] = faucet
    BY DEF Image
  <2>4. "balances" \in Keys /\ "faucet" \in Keys /\ "balances" # "faucet"
    BY DEF Keys
  <2>5. disk'["faucet"].claims = faucet.claims /\ DOMAIN disk'["faucet"] = FaucetFields
    BY <2>1, <2>3, <2>4 DEF GrantInv
  <2>6. /\ disk'["balances"].granted \in Times
        /\ \A a \in Agents : Behind(faucet.claims[a], disk'["balances"].granted[a])
    BY <2>1, <2>3, <2>4 DEF GrantInv
  <2> QED
    BY <1>1, <2>2, <2>5, <2>6 DEF GrantInv
<1>5. CASE Restart
  <2>1. /\ UNCHANGED <<disk, now>> /\ token'.granted = disk["balances"].granted
        /\ DOMAIN token' = TokenFields
    BY <1>5 DEF Restart, TokenFields
  <2>2. faucet' = disk["faucet"] \/ faucet' = [disk["faucet"] EXCEPT !.start = now]
    BY <1>5 DEF Restart
  <2>3. faucet'.claims = disk["faucet"].claims /\ DOMAIN faucet' = FaucetFields
    BY <2>2 DEF GrantInv, FaucetFields
  <2> QED
    BY <1>1, <2>1, <2>3 DEF GrantInv
<1>6. CASE Tick
  <2>1. now' \in Nat
    BY <1>6 DEF Tick, GrantInv
  <2> QED
    BY <1>1, <1>6, <2>1 DEF Tick, memory, GrantInv
<1>7. CASE UNCHANGED vars
  BY <1>1, <1>7 DEF vars, memory, GrantInv
<1> QED
  BY <1>3, <1>4, <1>5, <1>6, <1>7 DEF Next, Calls, DeskOps

\* Whenever the process is killed, and however often, no agent holds coins of
\* more claims than the faucet's maximum or of claims within the cooldown.
THEOREM NodeCapsTheFaucet == Spec => []FaucetCapped
<1>1. Init => GrantInv
  BY GrantInit
<1>2. GrantInv /\ [Next]_vars => GrantInv'
  BY GrantStep
<1>3. GrantInv => FaucetCapped
  <2>1. SUFFICES ASSUME GrantInv, NEW a \in Agents
                 PROVE  /\ Len(token.granted[a]) * FaucetAmount <= MaxTotal
                        /\ \A i \in 1..Len(token.granted[a]) - 1 :
                             token.granted[a][i + 1] - token.granted[a][i] >= Cooldown
    BY DEF FaucetCapped
  <2>2. \A m, n, f \in Nat : m <= n => m * f <= n * f
    OBVIOUS
  <2>3. /\ Behind(faucet.claims[a], token.granted[a])
        /\ Len(token.granted[a]) \in Nat /\ Len(faucet.claims[a]) \in Nat
    BY <2>1 DEF GrantInv, Times
  <2> DEFINE m == Len(token.granted[a])
             n == Len(faucet.claims[a])
  <2>4. m * FaucetAmount <= n * FaucetAmount /\ n * FaucetAmount <= MaxTotal
    <3>1. FaucetAmount \in Nat
      BY TokenAssumption
    <3>2. m <= n /\ n * FaucetAmount <= MaxTotal
      BY <2>3 DEF Behind
    <3>3. m \in Nat /\ n \in Nat
      BY <2>3
    <3> HIDE DEF m, n
    <3> QED
      BY <2>2, <3>1, <3>2, <3>3, Zenon
  <2>5. m * FaucetAmount \in Nat /\ n * FaucetAmount \in Nat /\ MaxTotal \in Nat
    <3>1. \A x, y \in Nat : x * y \in Nat
      OBVIOUS
    <3>2. FaucetAmount \in Nat /\ MaxTotal \in Nat
      BY TokenAssumption
    <3>3. m \in Nat /\ n \in Nat
      BY <2>3
    <3> HIDE DEF m, n
    <3> QED
      BY <3>1, <3>2, <3>3
  <2>6. m * FaucetAmount <= MaxTotal
    <3> DEFINE x == m * FaucetAmount
               y == n * FaucetAmount
    <3> HIDE DEF x, y, m, n
    <3>1. x \in Nat /\ y \in Nat /\ MaxTotal \in Nat /\ x <= y /\ y <= MaxTotal
      BY <2>4, <2>5, Zenon DEF x, y
    <3>2. x <= MaxTotal
      BY <3>1
    <3> QED
      BY <3>2, Zenon DEF x
  <2> QED
    BY <2>3, <2>6 DEF Behind
<1> QED
  BY <1>1, <1>2, <1>3, PTL DEF Spec

-----------------------------------------------------------------------------
(* The chain: the unspent coins follow the blocks, also on disk, as long    *)
(* as no kill cuts a save short.                                            *)

InChain(c) == {t \in Txs : \E i \in DOMAIN c : t \in c[i]}
Known(c) == 0..Len(c) \cup InChain(c)

CoinsFollow(c, u) ==
  /\ c \in Seq(SUBSET Txs) /\ u \subseteq Known(c)
  /\ \A t \in InChain(c) : Spends[t] \in Known(c) /\ Spends[t] \notin u
  /\ \A i, j \in DOMAIN c : \A t \in c[i], v \in c[j] : Spends[t] = Spends[v] => t = v /\ i = j

\* A block of transactions without conflict that spend unspent coins.
LEMMA CoinsFollowBlock ==
  ASSUME NEW c, NEW u, CoinsFollow(c, u), NEW M \in SUBSET Txs, \A t \in M : Spends[t] \in u,
         \A t, v \in M : Spends[t] = Spends[v] => t = v
  PROVE  CoinsFollow(Append(c, M), (u \ {Spends[t] : t \in M}) \cup {Len(c) + 1} \cup M)
<1> DEFINE d == Append(c, M)
           w == (u \ {Spends[t] : t \in M}) \cup {Len(c) + 1} \cup M
<1>1. /\ c \in Seq(SUBSET Txs) /\ Len(c) \in Nat /\ DOMAIN c = 1..Len(c)
      /\ u \subseteq Known(c) /\ Txs \cap Nat = {}
  BY ChainAssumption DEF CoinsFollow
<1>2. /\ d \in Seq(SUBSET Txs) /\ Len(d) = Len(c) + 1 /\ DOMAIN d = 1..Len(c) + 1
      /\ d[Len(c) + 1] = M /\ \A i \in 1..Len(c) : d[i] = c[i]
  BY <1>1
<1> HIDE DEF d, w
<1>3. InChain(d) = InChain(c) \cup M
  <2>1. ASSUME NEW t \in InChain(d) PROVE t \in InChain(c) \cup M
    <3>1. PICK i \in 1..Len(c) + 1 : t \in d[i]
      BY <1>2, <2>1 DEF InChain
    <3>2. CASE i = Len(c) + 1
      BY <3>1, <3>2, <1>2
    <3>3. CASE i # Len(c) + 1
      <4>1. i \in 1..Len(c)
        BY <3>3, <1>1
      <4> QED
        BY <4>1, <3>1, <1>1, <1>2, <2>1 DEF InChain
    <3> QED
      BY <3>2, <3>3
  <2>2. ASSUME NEW t \in InChain(c) PROVE t \in InChain(d)
    <3>1. PICK i \in 1..Len(c) : t \in c[i]
      BY <1>1, <2>2 DEF InChain
    <3>2. i \in 1..Len(c) + 1 /\ t \in d[i]
      BY <3>1, <1>1, <1>2
    <3> QED
      BY <3>2, <1>2, <2>2 DEF InChain
  <2>3. ASSUME NEW t \in M PROVE t \in InChain(d)
    <3>1. Len(c) + 1 \in 1..Len(c) + 1
      BY <1>1
    <3> QED
      BY <3>1, <1>2 DEF InChain
  <2> QED
    BY <2>1, <2>2, <2>3
<1>4. \A t \in InChain(c) : t \notin M
  BY DEF CoinsFollow
<1>5. Known(d) = Known(c) \cup {Len(c) + 1} \cup M
  <2>1. 0..Len(c) + 1 = 0..Len(c) \cup {Len(c) + 1}
    BY <1>1
  <2> QED
    BY <2>1, <1>2, <1>3 DEF Known
<1>6. Len(c) + 1 \notin Known(c)
  BY <1>1 DEF Known, InChain
<1>7. \A t \in M : t \notin Known(c)
  BY <1>1, <1>4 DEF Known
<1>8. \A t \in InChain(c) : Spends[t] \in Known(c) /\ Spends[t] \notin u
  BY DEF CoinsFollow
<1>9. w \subseteq Known(d)
  BY <1>1, <1>5 DEF w
<1>10. \A t \in InChain(d) : Spends[t] \in Known(c) /\ Spends[t] \notin w
  <2>1. ASSUME NEW t \in InChain(c) PROVE Spends[t] \in Known(c) /\ Spends[t] \notin w
    BY <1>6, <1>7, <1>8 DEF w
  <2>2. ASSUME NEW t \in M PROVE Spends[t] \in Known(c) /\ Spends[t] \notin w
    <3>1. Spends[t] \in Known(c)
      BY <1>1
    <3> QED
      BY <3>1, <1>6, <1>7 DEF w
  <2> QED
    BY <2>1, <2>2, <1>3
<1>11. ASSUME NEW i \in DOMAIN d, NEW j \in DOMAIN d, NEW t \in d[i], NEW v \in d[j],
              Spends[t] = Spends[v]
       PROVE  t = v /\ i = j
  <2>1. ASSUME NEW k \in DOMAIN d
        PROVE  (k = Len(c) + 1 /\ d[k] = M) \/ (k \in DOMAIN c /\ d[k] = c[k])
    BY <2>1, <1>1, <1>2
  <2>2. \A k \in DOMAIN c : \A x \in c[k] : x \in InChain(c)
    BY <1>1 DEF InChain
  <2>3. CASE i = Len(c) + 1 /\ j = Len(c) + 1
    BY <2>3, <1>2, <1>11
  <2>4. CASE i = Len(c) + 1 /\ j \in DOMAIN c /\ d[j] = c[j]
    BY <2>2, <2>4, <1>2, <1>8, <1>11
  <2>5. CASE j = Len(c) + 1 /\ i \in DOMAIN c /\ d[i] = c[i]
    BY <2>2, <2>5, <1>2, <1>8, <1>11
  <2>6. CASE i \in DOMAIN c /\ d[i] = c[i] /\ j \in DOMAIN c /\ d[j] = c[j]
    BY <2>6, <1>11 DEF CoinsFollow
  <2> QED
    BY <2>1, <2>3, <2>4, <2>5, <2>6
<1>12. CoinsFollow(d, w)
  BY <1>2, <1>5, <1>9, <1>10, <1>11 DEF CoinsFollow
<1> QED
  BY <1>12 DEF d, w

\* The lists that hold no put of the chain or of its coins.
LEMMA HeadsElsewhere ==
  /\ \A s \in (TokenTails \cup BankTails \cup DeskTails \cup {<<>>, <<"pool">>}) \ {<<>>} :
       Head(s) \notin {"chain", "utxo"}
  /\ Head(<<"chain", "utxo", "pool">>) = "chain" /\ Head(<<"utxo", "pool">>) = "utxo"
  /\ Tail(<<"chain", "utxo", "pool">>) = <<"utxo", "pool">> /\ Tail(<<"utxo", "pool">>) = <<"pool">>
  /\ Tail(<<"pool">>) = <<>>
<1>1. /\ Head(<<"burned">>) = "burned" /\ Head(<<"minted", "burned">>) = "minted"
      /\ Head(<<"allowances", "minted", "burned">>) = "allowances"
      /\ Head(<<"balances", "allowances", "minted", "burned">>) = "balances"
      /\ Head(<<"faucet", "balances", "allowances", "minted", "burned">>) = "faucet"
  OBVIOUS
<1>2. /\ Head(<<"faucet">>) = "faucet" /\ Head(<<"burned", "faucet">>) = "burned"
      /\ Head(<<"minted", "burned", "faucet">>) = "minted"
      /\ Head(<<"allowances", "minted", "burned", "faucet">>) = "allowances"
      /\ Head(<<"balances", "allowances", "minted", "burned", "faucet">>) = "balances"
  OBVIOUS
<1>3. /\ Head(<<"meta">>) = "meta" /\ Head(<<"positions", "meta">>) = "positions"
      /\ Head(<<"pool">>) = "pool"
  OBVIOUS
<1>4. /\ Head(<<"chain", "utxo", "pool">>) = "chain" /\ Head(<<"utxo", "pool">>) = "utxo"
      /\ Tail(<<"chain", "utxo", "pool">>) = <<"utxo", "pool">> /\ Tail(<<"utxo", "pool">>) = <<"pool">>
      /\ Tail(<<"pool">>) = <<>>
  OBVIOUS
<1>5. \A k \in {"burned", "minted", "allowances", "balances", "faucet", "meta", "positions", "pool"} : k \notin {"chain", "utxo"}
  OBVIOUS
<1>6. \A s \in TokenTails \ {<<>>} : Head(s) \notin {"chain", "utxo"}
  <2>1. \A s \in TokenTails \ {<<>>} : Head(s) \in {"burned", "minted", "allowances", "balances", "faucet"}
    BY <1>1, <1>2, Zenon DEF TokenTails
  <2> QED
    BY <2>1
<1>7. \A s \in BankTails \ {<<>>} : Head(s) \notin {"chain", "utxo"}
  <2>1. \A s \in BankTails \ {<<>>} : Head(s) \in {"meta", "positions"}
    BY <1>3, Zenon DEF BankTails
  <2> QED
    BY <2>1
<1>8. \A s \in DeskTails \ {<<>>} : Head(s) \notin {"chain", "utxo"}
  <2>1. /\ Head(<<"lending">>) = "lending" /\ Head(<<"vaults">>) = "vaults"
        /\ Head(<<"oracle">>) = "oracle" /\ Head(<<"market">>) = "market"
        /\ Head(<<"agents">>) = "agents" /\ Head(<<"reputation">>) = "reputation"
        /\ Head(<<"agents", "reputation">>) = "agents"
    OBVIOUS
  <2>2. \A s \in DeskTails \ {<<>>} :
          Head(s) \in {"lending", "vaults", "oracle", "market", "agents", "reputation"}
    BY <2>1, Zenon DEF DeskTails
  <2> QED
    BY <2>2
<1> QED
  BY <1>3, <1>4, <1>5, <1>6, <1>7, <1>8

Unsaved == {<<"chain", "utxo", "pool">>, <<"utxo", "pool">>}

CoinInv ==
  /\ ListInv
  /\ ~torn =>
       /\ CoinsFollow(ledger.chain, ledger.utxo)
       /\ feeMarket \subseteq Txs
       /\ \A t, v \in feeMarket : Spends[t] = Spends[v] => t = v
       /\ writes \notin Unsaved => CoinsFollow(disk["chain"], disk["utxo"])
       /\ writes = <<"utxo", "pool">> => disk["chain"] = ledger.chain

LEMMA CoinInit ==
  ASSUME Init
  PROVE  CoinInv
<1>1. /\ ledger.chain = <<>> /\ ledger.utxo = {0} /\ feeMarket = {} /\ writes = <<>>
  BY DEF Init, ChainInit
<1>2. disk["chain"] = ledger.chain /\ disk["utxo"] = ledger.utxo
  BY DEF Init, Image
<1>3. CoinsFollow(<<>>, {0})
  <2>1. InChain(<<>>) = {} /\ <<>> \in Seq(SUBSET Txs) /\ DOMAIN <<>> = {} /\ 0 \in 0..Len(<<>>)
    BY DEF InChain
  <2> QED
    BY <2>1 DEF CoinsFollow, Known
<1>4. writes \notin Unsaved /\ writes # <<"utxo", "pool">>
  BY <1>1 DEF Unsaved
<1> QED
  BY <1>1, <1>2, <1>3, <1>4, ListInit DEF CoinInv

\* A block of the fee market.
LEMMA MineStep ==
  ASSUME CoinInv, ~torn, MineBlock
  PROVE  /\ CoinsFollow(ledger'.chain, ledger'.utxo) /\ feeMarket' \subseteq feeMarket
<1>1. /\ ledger'.chain = Append(ledger.chain, Mined) /\ feeMarket' = feeMarket \ Mined
      /\ ledger'.utxo = (ledger.utxo \ {Spends[t] : t \in Mined})
                          \cup {Len(ledger.chain) + 1} \cup Mined
  BY DEF MineBlock
<1>2. Mined \subseteq feeMarket /\ \A t \in Mined : Spends[t] \in ledger.utxo
  BY DEF Mined
<1> HIDE DEF Mined
<1>3. /\ Mined \in SUBSET Txs /\ CoinsFollow(ledger.chain, ledger.utxo)
      /\ \A t, v \in Mined : Spends[t] = Spends[v] => t = v
  BY <1>2 DEF CoinInv
<1> QED
  BY <1>1, <1>2, <1>3, CoinsFollowBlock

\* A call that leaves the blocks and the fee market.
LEMMA CoinOther ==
  ASSUME CoinInv, ListInv', Idle, UNCHANGED <<ledger, feeMarket, disk, torn>>,
         writes' # <<"utxo", "pool">>
  PROVE  CoinInv'
<1>1. writes \notin Unsaved
  BY DEF Idle, Unsaved
<1> QED
  BY <1>1 DEF CoinInv

LEMMA CoinStep ==
  ASSUME CoinInv, [Next]_vars
  PROVE  CoinInv'
<1>1. ListInv'
  BY ListStep DEF CoinInv
<1>2. client \in Clients
  BY DEF CoinInv, ListInv, StoreInv
<1>3. CASE Calls
  <2>1. Idle /\ UNCHANGED <<disk, torn>> /\ Begins
    BY <1>2, <1>3, CallFrame
  <2>2. writes' # <<"utxo", "pool">>
    BY <2>1 DEF Begins, TokenKeys, ClaimKeys, AllTokenKeys, StakingKeys, ChainKeys, DeskLists, AgentKeys
  <2>3. CASE UNCHANGED <<ledger, feeMarket>>
    BY <1>1, <2>1, <2>2, <2>3, CoinOther
  <2>4. writes \notin Unsaved
    BY <2>1 DEF Idle, Unsaved
  <2>5. CASE SubmitTransaction
    <3>1. PICK tx \in Txs : AddTransaction(tx)
      BY <2>5 DEF SubmitTransaction
    <3>2. /\ ledger' = ledger /\ feeMarket' = feeMarket \cup {tx}
          /\ \A t \in feeMarket : Spends[t] # Spends[tx]
      BY <3>1 DEF AddTransaction
    <3>3. ~torn => /\ feeMarket' \subseteq Txs
                   /\ \A t, v \in feeMarket' : Spends[t] = Spends[v] => t = v
      BY <3>2 DEF CoinInv
    <3> QED
      BY <1>1, <2>1, <2>2, <2>4, <3>2, <3>3 DEF CoinInv
  <2>6. CASE MineOp
    <3>1. ~torn => CoinsFollow(ledger'.chain, ledger'.utxo) /\ feeMarket' \subseteq feeMarket
      BY <2>6, MineStep DEF MineOp
    <3> QED
      BY <1>1, <2>1, <2>2, <2>4, <3>1 DEF CoinInv
  <2>7. TokenOp \/ TokenOpRefused \/ FaucetClaim \/ StakingOp \/ RewardsToNobody \/ UnstakeOp
          \/ DeskOps \/ PoolOp \/ PersistAll => UNCHANGED <<ledger, feeMarket>>
    BY DeskFrame DEF TokenOp, TokenOpRefused, FaucetClaim, StakingOp, RewardsToNobody, UnstakeOp,
                     PoolOp, PersistAll, memory
  <2> QED
    BY <1>3, <2>3, <2>5, <2>6, <2>7 DEF Calls
<1>4. CASE Put
  <2> DEFINE k == Head(writes)
  <2>1. k \in Keys /\ \A j \in Keys : disk'[j] = IF j = k THEN Image[j] ELSE disk[j]
    BY <1>4, PutOne DEF CoinInv, ListInv
  <2>2. UNCHANGED <<ledger, feeMarket, torn>> /\ writes' = Tail(writes) /\ writes # <<>>
    BY <1>4 DEF Put, memory, Idle
  <2>3. Image["chain"] = ledger.chain /\ Image["utxo"] = ledger.utxo
    BY DEF Image
  <2>4. "chain" \in Keys /\ "utxo" \in Keys /\ "chain" # "utxo"
    BY DEF Keys
  <2>5. CASE writes = <<"chain", "utxo", "pool">>
    <3>1. writes' = <<"utxo", "pool">> /\ disk'["chain"] = ledger.chain
      BY <2>1, <2>2, <2>3, <2>4, <2>5, HeadsElsewhere
    <3>2. writes' \in Unsaved
      BY <3>1 DEF Unsaved
    <3> QED
      BY <1>1, <2>2, <3>1, <3>2 DEF CoinInv
  <2>6. CASE writes = <<"utxo", "pool">>
    <3>1. writes' = <<"pool">> /\ disk'["utxo"] = ledger.utxo /\ disk'["chain"] = disk["chain"]
      BY <2>1, <2>2, <2>3, <2>4, <2>6, HeadsElsewhere
    <3>2. writes' # <<"utxo", "pool">>
      BY <3>1
    <3> QED
      BY <1>1, <2>2, <2>6, <3>1, <3>2 DEF CoinInv
  <2>7. CASE writes \notin Unsaved
    <3>1. writes \in (TokenTails \cup BankTails \cup DeskTails \cup {<<>>, <<"pool">>}) \ {<<>>}
      BY <1>2, <2>2, <2>7 DEF CoinInv, ListInv, Clients, DeskClients, ChainTails, Unsaved
    <3>2. k # "chain" /\ k # "utxo"
      BY <3>1, HeadsElsewhere
    <3>3. disk'["chain"] = disk["chain"] /\ disk'["utxo"] = disk["utxo"]
      BY <2>1, <2>4, <3>2
    <3>4. writes' \notin Unsaved
      <4>1. \A s \in TokenTails \cup BankTails \cup DeskTails \cup {<<>>} : s \notin Unsaved
        <5>1. <<>> \notin Unsaved /\ \A s \in Unsaved : Head(s) \in {"chain", "utxo"}
          BY HeadsElsewhere DEF Unsaved
        <5> QED
          BY <5>1, HeadsElsewhere
      <4>2. writes' \in TokenTails \cup BankTails \cup DeskTails \cup {<<>>}
        BY <2>2, <3>1, TailsClosed, HeadsElsewhere
      <4> QED
        BY <4>1, <4>2
    <3>5. writes' # <<"utxo", "pool">>
      BY <3>4 DEF Unsaved
    <3> QED
      BY <1>1, <2>2, <2>7, <3>3, <3>4, <3>5 DEF CoinInv
  <2> QED
    BY <2>5, <2>6, <2>7 DEF Unsaved
<1>5. CASE Restart
  <2>1. /\ UNCHANGED disk /\ writes' = <<>> /\ torn' = (torn \/ ~Idle) /\ feeMarket' = {}
        /\ ledger' = [chain |-> disk["chain"], utxo |-> disk["utxo"]]
    BY <1>5 DEF Restart
  <2>2. CASE ~Idle \/ torn
    <3>1. torn'
      BY <2>1, <2>2
    <3> QED
      BY <1>1, <3>1, Zenon DEF CoinInv
  <2>3. CASE Idle /\ ~torn
    <3>1. writes' \notin Unsaved /\ writes' # <<"utxo", "pool">>
      BY <2>1 DEF Unsaved
    <3>2. CoinsFollow(disk["chain"], disk["utxo"])
      BY <2>3 DEF CoinInv, Idle, Unsaved
    <3>3. ledger'.chain = disk["chain"] /\ ledger'.utxo = disk["utxo"]
      BY <2>1
    <3>4. CoinsFollow(ledger'.chain, ledger'.utxo)
      BY <3>2, <3>3
    <3> QED
      BY <1>1, <2>1, <3>1, <3>2, <3>4 DEF CoinInv
  <2> QED
    BY <2>2, <2>3
<1>6. CASE Tick
  BY <1>1, <1>6 DEF Tick, memory, CoinInv
<1>7. CASE UNCHANGED vars
  BY <1>1, <1>7 DEF vars, memory, CoinInv
<1> QED
  BY <1>3, <1>4, <1>5, <1>6, <1>7 DEF Next, Calls, DeskOps

\* As long as no kill comes between two puts of a save, no coin is spent twice
\* in the chain of a node, whatever calls failed and however often it restarted.
THEOREM NodeSpendsOnce == Spec => []NoDoubleSpend
<1>1. Init => CoinInv
  BY CoinInit
<1>2. CoinInv /\ [Next]_vars => CoinInv'
  BY CoinStep
<1>3. CoinInv => NoDoubleSpend
  BY DEF CoinInv, CoinsFollow, NoDoubleSpend
<1> QED
  BY <1>1, <1>2, <1>3, PTL DEF Spec

-----------------------------------------------------------------------------
(* The loans: each is covered in memory and on disk.                       *)

LendingRecords == [offers : SUBSET Offers, loans : [Offers -> Loan], lent : Nat, repaid : Nat]
Sound(l) ==
  /\ l \in LendingRecords
  /\ \A o \in Offers :
       l.loans[o].state = "active" => Covers(l.loans[o].collateral, l.loans[o].principal)

LoanInv == ListInv /\ Sound(lending) /\ Sound(disk["lending"])

LEMMA LoanInit ==
  ASSUME Init
  PROVE  LoanInv
<1>1. ListInv /\ disk["lending"] = lending
  BY ListInit DEF Init, Image
<1>2. lending = [offers |-> {}, lent |-> 0, repaid |-> 0,
                 loans |-> [o \in Offers |-> [state |-> "none", principal |-> 0, collateral |-> 0]]]
  BY DEF Init, LendingInit
<1>3. lending.loans = [o \in Offers |-> [state |-> "none", principal |-> 0, collateral |-> 0]]
  BY <1>2
<1>4. lending.loans \in [Offers -> Loan]
  BY <1>3 DEF Loan, LoanStates
<1>5. lending \in LendingRecords
  BY <1>2, <1>3, <1>4 DEF LendingRecords
<1> QED
  BY <1>1, <1>3, <1>5 DEF LoanInv, Sound

\* A loan that is covered at 150 % is not below 120 %.
LEMMA SoundKeepsLoans ==
  ASSUME Sound(lending)
  PROVE  Liquidatable = {}
<1>1. SUFFICES ASSUME NEW o \in Offers, lending.loans[o].state = "active"
               PROVE  ~(5 * lending.loans[o].collateral < 6 * AtLeast1(lending.loans[o].principal))
  BY DEF Liquidatable, Undercollateralized
<1>2. lending.loans[o] \in Loan
  BY DEF Sound, LendingRecords
<1>3. 2 * lending.loans[o].collateral >= 3 * AtLeast1(lending.loans[o].principal)
  BY <1>1 DEF Sound, Covers
<1> DEFINE c == lending.loans[o].collateral
           q == AtLeast1(lending.loans[o].principal)
<1>4. c \in Nat /\ q \in Nat
  BY <1>2 DEF Loan, AtLeast1
<1> HIDE DEF c, q
<1>5. 2 * c >= 3 * q => ~(5 * c < 6 * q)
  BY <1>4
<1> QED
  BY <1>3, <1>5 DEF c, q

\* A loan that is made or paid leaves every loan covered.
LEMMA SoundWith ==
  ASSUME Sound(lending), NEW o \in Offers, NEW l \in Loan,
         l.state = "active" => Covers(l.collateral, l.principal),
         NEW s \in SUBSET Offers, NEW m \in Nat, NEW n \in Nat,
         lending' = [offers |-> s, loans |-> [lending.loans EXCEPT ![o] = l], lent |-> m, repaid |-> n]
  PROVE  Sound(lending')
<1>1. lending.loans \in [Offers -> Loan]
  BY DEF Sound, LendingRecords
<1>2. lending'.loans = [lending.loans EXCEPT ![o] = l]
  OBVIOUS
<1>3. lending'.loans \in [Offers -> Loan]
  BY <1>1, <1>2
<1>4. lending' \in LendingRecords
  BY <1>2, <1>3 DEF LendingRecords
<1>5. \A b \in Offers : lending'.loans[b] = IF b = o THEN l ELSE lending.loans[b]
  BY <1>1, <1>2
<1> QED
  BY <1>4, <1>5 DEF Sound

LEMMA LendingKeepsSound ==
  ASSUME Sound(lending), LendingOp
  PROVE  Sound(lending')
<1>1. /\ lending.loans \in [Offers -> Loan] /\ lending.offers \in SUBSET Offers
      /\ lending.lent \in Nat /\ lending.repaid \in Nat
      /\ lending = [offers |-> lending.offers, loans |-> lending.loans, lent |-> lending.lent,
                    repaid |-> lending.repaid]
  BY DEF Sound, LendingRecords
<1>2. PICK o \in Offers : \/ CreateOffer(o)
                          \/ \E c \in Collaterals : Borrow(o, c)
                          \/ \E n \in Repayments : Repay(o, n)
  BY DEF LendingOp
<1>3. CASE CreateOffer(o)
  <2>1. lending' = [offers |-> lending.offers \cup {o}, loans |-> lending.loans, lent |-> lending.lent,
                    repaid |-> lending.repaid]
    BY <1>1, <1>3 DEF CreateOffer
  <2> QED
    BY <1>1, <2>1 DEF Sound, LendingRecords
<1>4. ASSUME NEW c \in Collaterals, Borrow(o, c) PROVE Sound(lending')
  <2> DEFINE l == [state |-> "active", principal |-> OfferAmount[o], collateral |-> c]
  <2>1. l \in Loan /\ Covers(l.collateral, l.principal) /\ OfferAmount[o] \in Nat
    BY <1>4, LendingAssumption DEF Borrow, Loan, LoanStates
  <2>2. lending' = [lending EXCEPT !.offers = @ \ {o}, !.loans[o] = l, !.lent = @ + OfferAmount[o]]
    BY <1>4 DEF Borrow
  <2> HIDE DEF l
  <2>3. lending' = [offers |-> lending.offers \ {o}, loans |-> [lending.loans EXCEPT ![o] = l],
                    lent |-> lending.lent + OfferAmount[o], repaid |-> lending.repaid]
    BY <1>1, <2>2
  <2>4. lending.offers \ {o} \in SUBSET Offers /\ lending.lent + OfferAmount[o] \in Nat
    BY <1>1, <2>1
  <2> QED
    BY <1>1, <2>1, <2>3, <2>4, SoundWith
<1>5. ASSUME NEW n \in Repayments, Repay(o, n) PROVE Sound(lending')
  <2> DEFINE old == lending.loans[o]
             rest == IF n < old.principal THEN old.principal - n ELSE 0
             l == [state |-> IF rest = 0 THEN "repaid" ELSE "active", principal |-> rest,
                   collateral |-> old.collateral]
  <2>1. old \in Loan /\ old.state = "active" /\ n \in Nat
    BY <1>1, <1>5, LendingAssumption DEF Repay
  <2>2. rest \in Nat /\ rest <= old.principal
    BY <2>1 DEF Loan
  <2>3. Covers(old.collateral, old.principal)
    BY <2>1 DEF Sound
  <2>4. Covers(old.collateral, rest)
    BY <2>1, <2>2, <2>3 DEF Covers, AtLeast1, Loan
  <2>5. lending' = [lending EXCEPT !.loans[o] = l, !.repaid = @ + n]
    BY <1>5 DEF Repay
  <2>6. l \in Loan /\ Covers(l.collateral, l.principal)
    <3> HIDE DEF rest
    <3> QED
      BY <2>1, <2>2, <2>4 DEF Loan, LoanStates
  <2> HIDE DEF l
  <2>7. lending' = [offers |-> lending.offers, loans |-> [lending.loans EXCEPT ![o] = l],
                    lent |-> lending.lent, repaid |-> lending.repaid + n]
    BY <1>1, <2>5
  <2> QED
    BY <1>1, <2>1, <2>6, <2>7, SoundWith
<1> QED
  BY <1>2, <1>3, <1>4, <1>5

\* With nothing to liquidate, check_liquidations changes nothing.
LEMMA LiquidateKeepsSound ==
  ASSUME Sound(lending), LiquidateOp
  PROVE  lending' = lending
<1>1. Liquidatable = {}
  BY SoundKeepsLoans
<1>2. /\ lending.loans = [o \in Offers |-> lending.loans[o]]
      /\ lending = [offers |-> lending.offers, loans |-> lending.loans, lent |-> lending.lent,
                    repaid |-> lending.repaid]
  BY DEF Sound, LendingRecords
<1>3. lending' = [lending EXCEPT !.loans = [o \in Offers |-> lending.loans[o]]]
  BY <1>1 DEF LiquidateOp, CheckLiquidations
<1> QED
  BY <1>2, <1>3

LEMMA LoanStep ==
  ASSUME LoanInv, [Next]_vars
  PROVE  LoanInv'
<1>1. ListInv' /\ client \in Clients
  BY ListStep DEF LoanInv, ListInv, StoreInv
<1>2. CASE Calls
  <2>1. disk' = disk
    BY <1>1, <1>2, CallFrame
  <2>2. Sound(lending')
    <3>1. CASE LendingOp
      BY <3>1, LendingKeepsSound DEF LoanInv
    <3>2. CASE LiquidateOp
      BY <3>2, LiquidateKeepsSound DEF LoanInv
    <3>3. VaultOp \/ RegisterOp \/ ReputationOp \/ OracleOp \/ GetPriceOp \/ MarketOp \/ TokenOp
            \/ TokenOpRefused \/ FaucetClaim \/ StakingOp \/ RewardsToNobody \/ UnstakeOp \/ PoolOp
            \/ SubmitTransaction \/ MineOp \/ PersistAll => lending' = lending
      BY DEF VaultOp, RegisterOp, ReputationOp, OracleOp, GetPriceOp, MarketOp, TokenOp, TokenOpRefused,
             FaucetClaim, StakingOp, RewardsToNobody, UnstakeOp, PoolOp, SubmitTransaction, MineOp,
             PersistAll, memory, desks
    <3> QED
      BY <1>2, <3>1, <3>2, <3>3 DEF Calls, DeskOps, LoanInv
  <2> QED
    BY <1>1, <2>1, <2>2 DEF LoanInv
<1>3. CASE Put
  <2>1. /\ lending' = lending
        /\ disk'["lending"] = IF "lending" = Head(writes) THEN Image["lending"] ELSE disk["lending"]
    BY <1>3, PutOne DEF Put, memory, desks, LoanInv, ListInv, Keys
  <2>2. Image["lending"] = lending
    BY DEF Image
  <2> QED
    BY <1>1, <2>1, <2>2 DEF LoanInv
<1>4. CASE Restart
  BY <1>1, <1>4 DEF Restart, LoanInv
<1>5. CASE Tick
  BY <1>1, <1>5 DEF Tick, memory, desks, LoanInv
<1>6. CASE UNCHANGED vars
  BY <1>1, <1>6 DEF vars, memory, desks, LoanInv
<1> QED
  BY <1>2, <1>3, <1>4, <1>5, <1>6 DEF Next, Calls, DeskOps

\* Whatever is offered, borrowed and repaid, and wherever the process is killed,
\* every loan in force stays covered at 150 %, and none is ever liquidated.
THEOREM NodeKeepsLoansCovered == Spec => []LoansCovered
<1>1. Init => LoanInv
  BY LoanInit
<1>2. LoanInv /\ [Next]_vars => LoanInv'
  BY LoanStep
<1>3. LoanInv => LoansCovered
  BY SoundKeepsLoans DEF LoanInv, Sound, LoansCovered
<1> QED
  BY <1>1, <1>2, <1>3, PTL DEF Spec

-----------------------------------------------------------------------------
(* A step as each part of the node sees it: a call of its own, a put, a     *)
(* restart, or nothing.                                                     *)

\* A call changes its client's part of the memory, and no other.
LEMMA CallsOfParts ==
  ASSUME Calls
  PROVE  /\ TokenOp \/ TokenOpRefused \/ FaucetClaim \/ UNCHANGED <<token, faucet>>
         /\ StakingOp \/ RewardsToNobody \/ UnstakeOp \/ UNCHANGED <<staking, payee>>
         /\ LendingOp \/ LiquidateOp \/ UNCHANGED lending
         /\ VaultOp \/ UNCHANGED vaults
         /\ RegisterOp \/ ReputationOp \/ UNCHANGED registry
         /\ OracleOp \/ GetPriceOp \/ UNCHANGED oracle
         /\ MarketOp \/ UNCHANGED market
         /\ PoolOp \/ SubmitTransaction \/ MineOp \/ UNCHANGED <<ledger, feeMarket, pool>>
<1> USE DEF core, desks
<1>1. CASE TokenOp \/ TokenOpRefused \/ FaucetClaim
  BY <1>1 DEF TokenOp, TokenOpRefused, FaucetClaim
<1>2. CASE StakingOp \/ RewardsToNobody \/ UnstakeOp
  BY <1>2 DEF StakingOp, RewardsToNobody, UnstakeOp
<1>3. CASE LendingOp \/ LiquidateOp
  BY <1>3 DEF LendingOp, LiquidateOp
<1>4. CASE VaultOp
  BY <1>4 DEF VaultOp
<1>5. CASE RegisterOp \/ ReputationOp
  BY <1>5 DEF RegisterOp, ReputationOp
<1>6. CASE OracleOp \/ GetPriceOp
  BY <1>6 DEF OracleOp, GetPriceOp
<1>7. CASE MarketOp
  BY <1>7 DEF MarketOp
<1>8. CASE PoolOp \/ SubmitTransaction \/ MineOp
  BY <1>8 DEF PoolOp, SubmitTransaction, MineOp
<1>9. CASE PersistAll
  BY <1>9 DEF PersistAll, memory
<1> QED
  BY <1>1, <1>2, <1>3, <1>4, <1>5, <1>6, <1>7, <1>8, <1>9 DEF Calls, DeskOps

\* Nothing but the clock moves.
Rests ==
  /\ UNCHANGED <<memory, client, disk, saved, writes, payee, paid, torn, restarts>>
  /\ now' \in {now, now + 1} /\ (now' = now \/ now < MaxTime)

LEMMA StepKinds ==
  ASSUME [Next]_vars
  PROVE  Calls \/ Put \/ Restart \/ Rests
<1>1. CASE Tick
  BY <1>1 DEF Tick, Rests
<1>2. CASE UNCHANGED vars
  BY <1>2 DEF vars, Rests
<1> QED
  BY <1>1, <1>2 DEF Next, Calls, DeskOps

\* The puts of the call in progress that are still to come.
Pending(k) == \E i \in 1..Len(writes) : writes[i] = k

\* Nothing is pending at rest; a put takes one key off.
LEMMA PendingIdle ==
  ASSUME Idle, NEW k
  PROVE  ~Pending(k)
  BY DEF Idle, Pending

LEMMA PendingPut ==
  ASSUME StoreInv, Put, NEW k, Pending(k)
  PROVE  Pending(k)' \/ k = Head(writes)
<1>1. writes \in Seq(Keys) /\ writes # <<>> /\ writes' = Tail(writes)
  BY DEF StoreInv, Put, Idle
<1>2. PICK i \in 1..Len(writes) : writes[i] = k
  BY DEF Pending
<1>3. CASE i = 1
  BY <1>1, <1>2, <1>3
<1>4. CASE i # 1
  <2>1. i - 1 \in 1..Len(Tail(writes)) /\ Tail(writes)[i - 1] = k
    BY <1>1, <1>2, <1>4
  <2> QED
    BY <1>1, <2>1 DEF Pending
<1> QED
  BY <1>3, <1>4

\* A put writes what the memory holds, and leaves the memory alone.
LEMMA PutKeeps ==
  ASSUME Put
  PROVE  UNCHANGED <<memory, now, client, torn, restarts>> /\ Image' = Image
<1>1. UNCHANGED <<memory, now, client, torn, restarts>>
  BY DEF Put
<1>2. UNCHANGED <<token, faucet, staking, market, ledger, pool, lending, vaults, registry, oracle>>
  BY <1>1 DEF memory, desks
<1> QED
  BY <1>1, <1>2, Zenon DEF Image

\* The keys of a call are pending when it begins.
LEMMA PendingCall ==
  /\ writes' \in {TokenKeys, ClaimKeys, AllTokenKeys} =>
       Pending("balances")' /\ Pending("allowances")' /\ Pending("minted")' /\ Pending("burned")'
  /\ writes' \in {ClaimKeys, AllTokenKeys} => Pending("faucet")'
  /\ writes' = StakingKeys => Pending("positions")' /\ Pending("meta")'
  /\ writes' = AgentKeys => Pending("agents")' /\ Pending("reputation")'
  /\ writes' = <<"lending">> => Pending("lending")'
  /\ writes' = <<"vaults">> => Pending("vaults")'
  /\ writes' = <<"agents">> => Pending("agents")'
  /\ writes' = <<"oracle">> => Pending("oracle")'
  /\ writes' = <<"market">> => Pending("market")'
<1>1. ASSUME NEW a, NEW b, NEW c, NEW d
      PROVE /\ Len(<<a>>) = 1 /\ <<a>>[1] = a
            /\ Len(<<a, b>>) = 2 /\ <<a, b>>[1] = a /\ <<a, b>>[2] = b
            /\ Len(<<a, b, c, d>>) = 4 /\ <<a, b, c, d>>[1] = a /\ <<a, b, c, d>>[2] = b
            /\ <<a, b, c, d>>[3] = c /\ <<a, b, c, d>>[4] = d
  OBVIOUS
<1>2. ASSUME NEW a, NEW b, NEW c, NEW d, NEW e
      PROVE /\ Len(<<a, b, c, d, e>>) = 5 /\ <<a, b, c, d, e>>[1] = a /\ <<a, b, c, d, e>>[2] = b
            /\ <<a, b, c, d, e>>[3] = c /\ <<a, b, c, d, e>>[4] = d /\ <<a, b, c, d, e>>[5] = e
  OBVIOUS
<1>3. 1 \in 1..1 /\ 1 \in 1..2 /\ 2 \in 1..2 /\ (\A i \in {1, 2, 3, 4} : i \in 1..4)
      /\ \A i \in {1, 2, 3, 4, 5} : i \in 1..5
  OBVIOUS
<1>4. writes' = TokenKeys =>
        Pending("balances")' /\ Pending("allowances")' /\ Pending("minted")' /\ Pending("burned")'
  BY <1>1, <1>3 DEF TokenKeys, Pending
<1>5. writes' \in {ClaimKeys, AllTokenKeys} =>
        /\ Pending("balances")' /\ Pending("allowances")' /\ Pending("minted")' /\ Pending("burned")'
        /\ Pending("faucet")'
  BY <1>2, <1>3 DEF ClaimKeys, AllTokenKeys, Pending
<1>6. /\ writes' = StakingKeys => Pending("positions")' /\ Pending("meta")'
      /\ writes' = AgentKeys => Pending("agents")' /\ Pending("reputation")'
  BY <1>1, <1>3 DEF StakingKeys, AgentKeys, Pending
<1>7. \A k : writes' = <<k>> => Pending(k)'
  BY <1>1, <1>3 DEF Pending
<1> QED
  BY <1>4, <1>5, <1>6, <1>7

-----------------------------------------------------------------------------
(* The token: the balances add up, in memory and on disk.                   *)

Held == [Agents -> Nat]
TokenRecords ==
  [balances : Held, allowances : [Agents -> Held], minted : Nat, burned : Nat, granted : Times]
FaucetRecords == [claims : Times, count : Nat, start : Nat]

\* The balances of a token are what was minted and not burned.
Backed(t) ==
  /\ SumFunctionOnSet(t.balances, Agents) = t.minted - t.burned
  /\ t.minted <= TotalSupply

\* Of a token that was well formed and backed, the next one is.
Stands(t) == t \in TokenRecords /\ (Backed(token) => Backed(t))

LEMMA HeldSum ==
  ASSUME NEW f \in Held, NEW g \in Held, NEW a \in Agents, \A b \in Agents \ {a} : f[b] = g[b]
  PROVE  /\ SumFunctionOnSet(f, Agents) \in Int
         /\ SumFunctionOnSet(g, Agents) = SumFunctionOnSet(f, Agents) + (g[a] - f[a])
<1>1. IsFiniteSet(Agents)
  BY TokenAssumption
<1>2. \A b \in Agents : f[b] \in Int /\ g[b] \in Int
  BY DEF Held
<1> QED
  BY <1>1, <1>2, SumInt, SumChange

LEMMA CreditSum ==
  ASSUME NEW f \in Held, NEW a \in Agents, NEW m \in Nat, NEW g, g = [f EXCEPT ![a] = m]
  PROVE  /\ g \in Held /\ SumFunctionOnSet(f, Agents) \in Int
         /\ SumFunctionOnSet(g, Agents) = SumFunctionOnSet(f, Agents) + (m - f[a])
<1>1. g \in Held /\ g[a] = m /\ \A b \in Agents \ {a} : f[b] = g[b]
  BY DEF Held
<1>2. SumFunctionOnSet(f, Agents) \in Int
      /\ SumFunctionOnSet(g, Agents) = SumFunctionOnSet(f, Agents) + (g[a] - f[a])
  BY <1>1, HeldSum
<1> QED
  BY <1>1, <1>2

\* A token by its fields.
LEMMA TokenFieldsOf ==
  ASSUME token \in TokenRecords
  PROVE  /\ token = [balances |-> token.balances, allowances |-> token.allowances,
                     minted |-> token.minted, burned |-> token.burned, granted |-> token.granted]
         /\ token.balances \in Held /\ token.allowances \in [Agents -> Held]
         /\ token.minted \in Nat /\ token.burned \in Nat /\ token.granted \in Times
  BY DEF TokenRecords

\* Coins that are minted and held.
LEMMA MintStands ==
  ASSUME token \in TokenRecords, NEW a \in Agents, NEW n \in Nat, token.minted + n <= TotalSupply
  PROVE  /\ Stands(Minted(a, n))
         /\ Minted(a, n).granted = token.granted
         /\ DOMAIN Minted(a, n) = TokenFields
<1> DEFINE f == token.balances
           g == [f EXCEPT ![a] = f[a] + n]
           t == [balances |-> g, allowances |-> token.allowances, minted |-> token.minted + n,
                 burned |-> token.burned, granted |-> token.granted]
<1>1. f \in Held /\ f[a] + n \in Nat /\ f[a] \in Nat
  BY TokenFieldsOf DEF Held
<1>2. Minted(a, n) = t
  <2>1. token = [balances |-> token.balances, allowances |-> token.allowances,
                 minted |-> token.minted, burned |-> token.burned, granted |-> token.granted]
    BY TokenFieldsOf
  <2>2. ASSUME NEW u, u = Minted(a, n) PROVE u = t
    BY <2>1, <2>2 DEF Minted
  <2> QED
    BY <2>2
<1>3. /\ g \in Held /\ SumFunctionOnSet(f, Agents) \in Int
      /\ SumFunctionOnSet(g, Agents) = SumFunctionOnSet(f, Agents) + ((f[a] + n) - f[a])
  <2> HIDE DEF f
  <2> QED
    BY <1>1, CreditSum
<1> HIDE DEF f, g
<1>4. t \in TokenRecords
  BY <1>3, TokenFieldsOf DEF TokenRecords
<1>5. Backed(token) => Backed(t)
  BY <1>1, <1>3, TokenFieldsOf DEF Backed, f
<1> QED
  BY <1>2, <1>4, <1>5 DEF Stands, TokenFields

\* Coins that are burned.
LEMMA BurnStands ==
  ASSUME token \in TokenRecords, NEW a \in Agents, NEW n \in Nat, Burn(a, n)
  PROVE  Stands(token')
<1> DEFINE f == token.balances
           g == [f EXCEPT ![a] = f[a] - n]
           t == [balances |-> g, allowances |-> token.allowances, minted |-> token.minted,
                 burned |-> token.burned + n, granted |-> token.granted]
<1>1. f \in Held /\ f[a] - n \in Nat /\ f[a] \in Nat
  <2>1. f \in Held /\ f[a] \in Nat
    BY TokenFieldsOf DEF Held
  <2>2. n <= f[a]
    BY DEF Burn
  <2> QED
    BY <2>1, <2>2
<1>2. token' = t
  BY TokenFieldsOf DEF Burn
<1>3. /\ g \in Held /\ SumFunctionOnSet(f, Agents) \in Int
      /\ SumFunctionOnSet(g, Agents) = SumFunctionOnSet(f, Agents) + ((f[a] - n) - f[a])
  <2> HIDE DEF f
  <2> QED
    BY <1>1, CreditSum
<1> HIDE DEF f, g
<1>4. t \in TokenRecords
  BY <1>3, TokenFieldsOf DEF TokenRecords
<1>5. Backed(token) => Backed(t)
  BY <1>1, <1>3, TokenFieldsOf DEF Backed, f
<1> QED
  BY <1>2, <1>4, <1>5 DEF Stands

\* Coins that are transferred.
LEMMA MovedStands ==
  ASSUME token \in TokenRecords, NEW a \in Agents, NEW b \in Agents, NEW n \in Nat,
         n <= token.balances[a]
  PROVE  Stands(Moved(a, b, n)) /\ Moved(a, b, n).allowances = token.allowances
<1> DEFINE f == token.balances
           g == [f EXCEPT ![a] = f[a] - n]
           h == [g EXCEPT ![b] = g[b] + n]
           t == [balances |-> h, allowances |-> token.allowances, minted |-> token.minted,
                 burned |-> token.burned, granted |-> token.granted]
<1>1. f \in Held /\ f[a] - n \in Nat /\ f[a] \in Nat
  <2>1. f \in Held /\ f[a] \in Nat
    BY TokenFieldsOf DEF Held
  <2> QED
    BY <2>1
<1>2. Moved(a, b, n) = t
  <2>1. token = [balances |-> token.balances, allowances |-> token.allowances,
                 minted |-> token.minted, burned |-> token.burned, granted |-> token.granted]
    BY TokenFieldsOf
  <2>2. ASSUME NEW u, u = Moved(a, b, n) PROVE u = t
    BY <2>1, <2>2 DEF Moved
  <2> QED
    BY <2>2
<1>3. /\ g \in Held /\ SumFunctionOnSet(f, Agents) \in Int
      /\ SumFunctionOnSet(g, Agents) = SumFunctionOnSet(f, Agents) + ((f[a] - n) - f[a])
  <2> HIDE DEF f
  <2> QED
    BY <1>1, CreditSum
<1>4. /\ h \in Held /\ SumFunctionOnSet(g, Agents) \in Int /\ g[b] \in Nat
      /\ SumFunctionOnSet(h, Agents) = SumFunctionOnSet(g, Agents) + ((g[b] + n) - g[b])
  <2> HIDE DEF g
  <2>1. g[b] \in Nat /\ g[b] + n \in Nat
    BY <1>3 DEF Held
  <2> QED
    BY <1>3, <2>1, CreditSum
<1> HIDE DEF f, g, h
<1>5. t \in TokenRecords
  BY <1>4, TokenFieldsOf DEF TokenRecords
<1>6. Backed(token) => Backed(t)
  BY <1>1, <1>3, <1>4, TokenFieldsOf DEF Backed, f
<1> QED
  BY <1>2, <1>5, <1>6 DEF Stands

\* A change of an allowance changes nothing else.
LEMMA AllowanceStands ==
  ASSUME NEW t \in TokenRecords, Backed(token) => Backed(t),
         NEW o \in Agents, NEW s \in Agents, NEW n \in Nat,
         NEW u, u = [t EXCEPT !.allowances[o][s] = n]
  PROVE  /\ Stands(u)
         /\ u.balances = t.balances /\ u.granted = t.granted
         /\ u.minted = t.minted /\ u.burned = t.burned
         /\ u.allowances = [t.allowances EXCEPT ![o][s] = n]
<1> DEFINE w == [t.allowances EXCEPT ![o][s] = n]
<1>1. /\ t = [balances |-> t.balances, allowances |-> t.allowances, minted |-> t.minted,
              burned |-> t.burned, granted |-> t.granted]
      /\ t.allowances \in [Agents -> Held] /\ t.balances \in Held /\ t.minted \in Nat
      /\ t.burned \in Nat /\ t.granted \in Times
  BY DEF TokenRecords
<1>2. u = [balances |-> t.balances, allowances |-> w, minted |-> t.minted, burned |-> t.burned,
           granted |-> t.granted]
  BY <1>1
<1>3. w \in [Agents -> Held]
  BY <1>1 DEF Held
<1> HIDE DEF w
<1>4. u \in TokenRecords
  BY <1>1, <1>2, <1>3 DEF TokenRecords
<1>5. u.balances = t.balances /\ u.minted = t.minted /\ u.burned = t.burned /\ u.granted = t.granted
      /\ u.allowances = w
  BY <1>2
<1>6. Backed(t) => Backed(u)
  BY <1>5, Zenon DEF Backed
<1> QED
  BY <1>4, <1>5, <1>6 DEF Stands, w

\* A window that opens leaves a faucet.
LEMMA OpenedType ==
  ASSUME faucet \in FaucetRecords, now \in Nat
  PROVE  Opened \in FaucetRecords /\ Opened.claims = faucet.claims
<1>1. /\ faucet = [claims |-> faucet.claims, count |-> faucet.count, start |-> faucet.start]
      /\ faucet.claims \in Times /\ faucet.count \in Nat /\ faucet.start \in Nat
  BY DEF FaucetRecords
<1>2. CASE now - faucet.start > Window
  <2>1. Opened = [claims |-> faucet.claims, count |-> 0, start |-> now]
    BY <1>1, <1>2 DEF Opened
  <2> QED
    BY <1>1, <2>1 DEF FaucetRecords
<1>3. CASE ~(now - faucet.start > Window)
  BY <1>3 DEF Opened
<1> QED
  BY <1>2, <1>3

\* A claim mints coins, and is written down.
LEMMA ClaimStands ==
  ASSUME token \in TokenRecords, faucet \in FaucetRecords, now \in Nat, NEW a \in Agents, Claim(a)
  PROVE  Stands(token') /\ faucet' \in FaucetRecords
<1>1. FaucetAmount \in Nat
  BY TokenAssumption
<1>2. token.minted + FaucetAmount <= TotalSupply
  BY DEF Claim, MayClaim
<1> DEFINE m == Minted(a, FaucetAmount)
           g == [token.granted EXCEPT ![a] = Append(@, now)]
<1>3. Stands(m) /\ m.granted = token.granted
  BY <1>1, <1>2, MintStands
<1>4. g \in Times
  BY TokenFieldsOf DEF Times
<1>5. token' = [m EXCEPT !.granted[a] = Append(@, now)]
  BY DEF Claim
<1> HIDE DEF m
<1>6. /\ m = [balances |-> m.balances, allowances |-> m.allowances, minted |-> m.minted,
              burned |-> m.burned, granted |-> m.granted]
      /\ m.balances \in Held /\ m.allowances \in [Agents -> Held] /\ m.minted \in Nat /\ m.burned \in Nat
  BY <1>3 DEF Stands, TokenRecords
<1>7. token' = [balances |-> m.balances, allowances |-> m.allowances, minted |-> m.minted,
                burned |-> m.burned, granted |-> g]
  BY <1>3, <1>5, <1>6
<1> HIDE DEF g
<1>8. token' \in TokenRecords
  BY <1>4, <1>6, <1>7 DEF TokenRecords
<1>9. Backed(m) => Backed(token')
  <2>1. token'.balances = m.balances /\ token'.minted = m.minted /\ token'.burned = m.burned
    BY <1>7
  <2> QED
    BY <2>1 DEF Backed
<1>10. faucet' \in FaucetRecords
  <2> DEFINE o == Opened
             c == [o.claims EXCEPT ![a] = Append(@, now)]
  <2>1. o \in FaucetRecords
    BY OpenedType
  <2>2. faucet' = [o EXCEPT !.claims[a] = Append(@, now), !.count = @ + 1]
    BY DEF Claim
  <2> HIDE DEF o
  <2>3. /\ o = [claims |-> o.claims, count |-> o.count, start |-> o.start]
        /\ o.claims \in Times /\ o.count \in Nat /\ o.start \in Nat
    BY <2>1 DEF FaucetRecords
  <2>4. c \in Times
    BY <2>3 DEF Times
  <2>5. faucet' = [claims |-> c, count |-> o.count + 1, start |-> o.start]
    BY <2>2, <2>3
  <2> HIDE DEF c
  <2> QED
    BY <2>3, <2>4, <2>5 DEF FaucetRecords
<1> QED
  BY <1>3, <1>8, <1>9, <1>10 DEF Stands

\* What the token and the faucet are in memory, on disk, and to each other: a
\* key that is not pending holds what the memory does, but for allowances, which
\* a transfer that failed may have spent, and the faucet's window.
TokenInv ==
  /\ ListInv
  /\ token \in TokenRecords /\ faucet \in FaucetRecords /\ now \in 0..MaxTime
  /\ disk["balances"] \in [held : Held, granted : Times]
  /\ disk["allowances"] \in [Agents -> Held]
  /\ disk["minted"] \in Nat /\ disk["burned"] \in Nat /\ disk["faucet"] \in FaucetRecords
  /\ Pending("balances") \/ disk["balances"] = [held |-> token.balances, granted |-> token.granted]
  /\ Pending("minted") \/ disk["minted"] = token.minted
  /\ Pending("burned") \/ disk["burned"] = token.burned
  /\ Pending("allowances") \/ \A o, s \in Agents : token.allowances[o][s] <= disk["allowances"][o][s]
  /\ Pending("faucet") \/ disk["faucet"].claims = faucet.claims
  /\ ~torn => Backed(token)

LEMMA TokenInvInit ==
  ASSUME Init
  PROVE  TokenInv
<1>1. /\ token = [balances |-> [a \in Agents |-> 0],
                  allowances |-> [o \in Agents |-> [s \in Agents |-> 0]],
                  minted |-> 0, burned |-> 0, granted |-> [a \in Agents |-> <<>>]]
      /\ faucet = [claims |-> [a \in Agents |-> <<>>], count |-> 0, start |-> 0]
      /\ now = 0
  BY DEF Init, TokenInit
<1>2. token \in TokenRecords /\ faucet \in FaucetRecords
  BY <1>1 DEF TokenRecords, FaucetRecords, Held, Times
<1>3. /\ disk["balances"] = [held |-> token.balances, granted |-> token.granted]
      /\ disk["allowances"] = token.allowances
      /\ disk["minted"] = token.minted /\ disk["burned"] = token.burned /\ disk["faucet"] = faucet
  BY DEF Init, Image
<1>4. /\ disk["balances"] \in [held : Held, granted : Times]
      /\ disk["allowances"] \in [Agents -> Held]
      /\ disk["minted"] \in Nat /\ disk["burned"] \in Nat /\ disk["faucet"] \in FaucetRecords
  BY <1>2, <1>3, TokenFieldsOf
<1>5. Backed(token)
  <2>1. \A a \in Agents : token.balances[a] = 0
    BY <1>1
  <2>2. SumFunctionOnSet(token.balances, Agents) = 0
    BY <2>1, TokenAssumption, SumZero
  <2>3. TotalSupply \in Nat
    BY TokenAssumption
  <2> QED
    BY <1>1, <2>2, <2>3 DEF Backed
<1>6. \A o, s \in Agents : token.allowances[o][s] <= disk["allowances"][o][s]
  BY <1>1, <1>3
<1>7. now \in 0..MaxTime
  BY <1>1, TokenAssumption
<1> QED
  BY <1>2, <1>3, <1>4, <1>5, <1>6, <1>7, ListInit DEF TokenInv

\* A call of the token that puts all its keys.
LEMMA TokenBegin ==
  ASSUME TokenInv, ListInv', writes' \in {TokenKeys, ClaimKeys, AllTokenKeys},
         UNCHANGED <<disk, torn, now>>, Stands(token'), faucet' \in FaucetRecords,
         writes' = TokenKeys => disk["faucet"].claims = faucet'.claims
  PROVE  TokenInv'
<1>1. /\ Pending("balances")' /\ Pending("allowances")' /\ Pending("minted")' /\ Pending("burned")'
      /\ Pending("faucet")' \/ disk["faucet"].claims = faucet'.claims
  BY PendingCall
<1> QED
  BY <1>1 DEF TokenInv, Stands

\* A call that puts nothing of the token, and changes no more than allowances,
\* which get lower, and the window of the faucet.
LEMMA TokenSame ==
  ASSUME TokenInv, ListInv', Idle, UNCHANGED <<disk, torn, now>>, Stands(token'),
         token'.balances = token.balances, token'.granted = token.granted,
         token'.minted = token.minted, token'.burned = token.burned,
         \A o, s \in Agents : token'.allowances[o][s] <= token.allowances[o][s],
         faucet' \in FaucetRecords, faucet'.claims = faucet.claims
  PROVE  TokenInv'
<1>1. \A k : ~Pending(k)
  BY PendingIdle
<1>2. \A o, s \in Agents : /\ token'.allowances[o][s] \in Nat /\ token.allowances[o][s] \in Nat
                           /\ disk["allowances"][o][s] \in Nat
  BY DEF TokenInv, Stands, TokenRecords, Held
<1>3. \A o, s \in Agents : token'.allowances[o][s] <= disk["allowances"][o][s]
  <2> SUFFICES ASSUME NEW o \in Agents, NEW s \in Agents
               PROVE  token'.allowances[o][s] <= disk["allowances"][o][s]
    OBVIOUS
  <2>1. token.allowances[o][s] <= disk["allowances"][o][s]
    BY <1>1 DEF TokenInv
  <2> QED
    BY <1>2, <2>1
<1> QED
  BY <1>1, <1>3 DEF TokenInv, Stands

LEMMA TokenCall ==
  ASSUME TokenInv, ListInv', Calls
  PROVE  TokenInv'
<1>1. /\ Idle /\ UNCHANGED <<disk, torn, now>>
  BY CallFrame DEF TokenInv, ListInv, StoreInv
<1>2. token \in TokenRecords /\ faucet \in FaucetRecords /\ now \in Nat
  BY DEF TokenInv
<1>3. disk["faucet"].claims = faucet.claims
  BY <1>1, PendingIdle DEF TokenInv
<1>4. Amounts \subseteq Nat
  BY TokenAssumption
<1>5. CASE TokenOp
  <2>1. writes' = TokenKeys /\ faucet' = faucet
    BY <1>5 DEF TokenOp, Call
  <2>2. Stands(token')
    <3>1. PICK a \in Agents, n \in Amounts :
            \/ Mint(a, n) \/ Burn(a, n)
            \/ \E b \in Agents : Transfer(a, b, n)
            \/ \E b \in Agents \ {a} : Approve(a, b, n)
            \/ \E s \in Agents, b \in Agents : TransferFrom(s, a, b, n)
      BY <1>5 DEF TokenOp
    <3>2. n \in Nat
      BY <1>4
    <3>3. CASE Mint(a, n)
      BY <1>2, <3>2, <3>3, MintStands DEF Mint
    <3>4. CASE Burn(a, n)
      BY <1>2, <3>2, <3>4, BurnStands
    <3>5. ASSUME NEW b \in Agents, Transfer(a, b, n) PROVE Stands(token')
      BY <1>2, <3>2, <3>5, MovedStands DEF Transfer
    <3>6. ASSUME NEW b \in Agents, Approve(a, b, n) PROVE Stands(token')
      BY <1>2, <3>2, <3>6, AllowanceStands, Zenon DEF Approve
    <3>7. ASSUME NEW s \in Agents, NEW b \in Agents, TransferFrom(s, a, b, n) PROVE Stands(token')
      <4> DEFINE t == Moved(a, b, n)
      <4>1. n <= token.allowances[a][s] /\ n <= token.balances[a]
            /\ token' = [t EXCEPT !.allowances[a][s] = @ - n]
        BY <3>7 DEF TransferFrom
      <4>2. Stands(t) /\ t.allowances = token.allowances
        BY <1>2, <3>2, <4>1, MovedStands
      <4> HIDE DEF t
      <4> DEFINE m == t.allowances[a][s] - n
      <4>3. m \in Nat
        <5>1. token.allowances[a][s] \in Nat
          BY <1>2, TokenFieldsOf DEF Held
        <5> QED
          BY <3>2, <4>1, <4>2, <5>1
      <4>4. token' = [t EXCEPT !.allowances[a][s] = m]
        BY <4>1
      <4> HIDE DEF m
      <4> QED
        BY <4>2, <4>3, <4>4, AllowanceStands DEF Stands
    <3> QED
      BY <3>1, <3>3, <3>4, <3>5, <3>6, <3>7
  <2> QED
    BY <1>1, <1>2, <1>3, <2>1, <2>2, TokenBegin
<1>6. CASE TokenOpRefused
  <2>1. CASE \E s \in Agents, a \in Agents, n \in Amounts :
               TransferFromRefused(s, a, n) /\ UNCHANGED faucet
    <3>1. PICK s \in Agents, a \in Agents, n \in Amounts :
            TransferFromRefused(s, a, n) /\ UNCHANGED faucet
      BY <2>1
    <3> DEFINE m == token.allowances[a][s] - n
    <3>2. m \in Nat /\ token.allowances[a][s] \in Nat /\ m <= token.allowances[a][s]
      <4>1. token.allowances[a][s] \in Nat /\ n \in Nat
        BY <1>2, <1>4, TokenFieldsOf DEF Held
      <4>2. n <= token.allowances[a][s]
        BY <3>1 DEF TransferFromRefused
      <4> QED
        BY <4>1, <4>2
    <3>3. token' = [token EXCEPT !.allowances[a][s] = m]
      BY <3>1 DEF TransferFromRefused
    <3> HIDE DEF m
    <3>4. /\ Stands(token')
          /\ token'.balances = token.balances /\ token'.granted = token.granted
          /\ token'.minted = token.minted /\ token'.burned = token.burned
          /\ token'.allowances = [token.allowances EXCEPT ![a][s] = m]
      <4>1. Stands(token')
        BY <1>2, <3>2, <3>3, AllowanceStands, Zenon
      <4>2. token = [balances |-> token.balances, allowances |-> token.allowances,
                     minted |-> token.minted, burned |-> token.burned, granted |-> token.granted]
        BY <1>2, TokenFieldsOf
      <4> QED
        BY <3>3, <4>1, <4>2
    <3>5. \A p, q \in Agents : token'.allowances[p][q] <= token.allowances[p][q]
      <4>1. token.allowances \in [Agents -> [Agents -> Nat]]
        BY <1>2, TokenFieldsOf DEF Held
      <4> QED
        BY <3>2, <3>4, <4>1
    <3> QED
      BY <1>1, <1>2, <3>1, <3>4, <3>5, TokenSame
  <2>2. CASE \E a \in Agents : ClaimRefused(a)
    <3>1. faucet' = Opened /\ token' = token
      BY <2>2 DEF ClaimRefused
    <3>2. faucet' \in FaucetRecords /\ faucet'.claims = faucet.claims
      BY <1>2, <3>1, OpenedType
    <3>3. \A p, q \in Agents : token'.allowances[p][q] <= token.allowances[p][q]
      <4>1. token.allowances \in [Agents -> [Agents -> Nat]]
        BY <1>2, TokenFieldsOf DEF Held
      <4> QED
        BY <3>1, <4>1
    <3> QED
      BY <1>1, <1>2, <3>1, <3>2, <3>3, TokenSame DEF Stands
  <2> QED
    BY <1>6, <2>1, <2>2 DEF TokenOpRefused
<1>7. CASE FaucetClaim
  <2>1. writes' = ClaimKeys /\ ClaimKeys # TokenKeys
    BY <1>7 DEF FaucetClaim, Call, ClaimKeys, TokenKeys
  <2>2. Stands(token') /\ faucet' \in FaucetRecords
    BY <1>2, <1>7, ClaimStands DEF FaucetClaim
  <2> QED
    BY <1>1, <2>1, <2>2, TokenBegin
<1>8. CASE UNCHANGED <<token, faucet>>
  <2>1. \A p, q \in Agents : token'.allowances[p][q] <= token.allowances[p][q]
    <3>1. token.allowances \in [Agents -> [Agents -> Nat]]
      BY <1>2, TokenFieldsOf DEF Held
    <3> QED
      BY <1>8, <3>1
  <2> QED
    BY <1>1, <1>2, <1>8, <2>1, TokenSame DEF Stands
<1> QED
  BY <1>5, <1>6, <1>7, <1>8, CallsOfParts

LEMMA TokenPut ==
  ASSUME TokenInv, ListInv', Put
  PROVE  TokenInv'
<1> DEFINE k == Head(writes)
<1>1. k \in Keys /\ \A j \in Keys : disk'[j] = IF j = k THEN Image[j] ELSE disk[j]
  BY PutOne DEF TokenInv, ListInv
<1>2. UNCHANGED <<token, faucet, now, torn>>
  BY PutKeeps DEF memory
<1>3. /\ Image["balances"] = [held |-> token.balances, granted |-> token.granted]
      /\ Image["allowances"] = token.allowances /\ Image["minted"] = token.minted
      /\ Image["burned"] = token.burned /\ Image["faucet"] = faucet
  BY DEF Image
<1>4. {"balances", "allowances", "minted", "burned", "faucet"} \subseteq Keys
  BY DEF Keys
<1>5. \A j : Pending(j) => Pending(j)' \/ j = k
  BY PendingPut DEF TokenInv, ListInv
<1> HIDE DEF k
<1>6. /\ token.balances \in Held /\ token.granted \in Times
      /\ token.allowances \in [Agents -> Held] /\ token.minted \in Nat /\ token.burned \in Nat
      /\ faucet \in FaucetRecords
  BY TokenFieldsOf DEF TokenInv
<1>7. /\ disk'["balances"] \in [held : Held, granted : Times]
      /\ Pending("balances")' \/ disk'["balances"] = [held |-> token.balances, granted |-> token.granted]
  BY <1>1, <1>3, <1>4, <1>5, <1>6 DEF TokenInv
<1>8. /\ disk'["allowances"] \in [Agents -> Held]
      /\ Pending("allowances")' \/ \A o, s \in Agents : token.allowances[o][s] <= disk'["allowances"][o][s]
  <2>1. CASE k = "allowances"
    <3>1. disk'["allowances"] = token.allowances
      BY <1>1, <1>3, <1>4, <2>1
    <3>2. \A o, s \in Agents : token.allowances[o][s] \in Nat
      BY <1>6 DEF Held
    <3> QED
      BY <1>6, <3>1, <3>2
  <2>2. CASE k # "allowances"
    BY <1>1, <1>4, <1>5, <2>2 DEF TokenInv
  <2> QED
    BY <2>1, <2>2
<1>9. /\ disk'["minted"] \in Nat /\ disk'["burned"] \in Nat
      /\ Pending("minted")' \/ disk'["minted"] = token.minted
      /\ Pending("burned")' \/ disk'["burned"] = token.burned
  BY <1>1, <1>3, <1>4, <1>5, <1>6 DEF TokenInv
<1>10. /\ disk'["faucet"] \in FaucetRecords
       /\ Pending("faucet")' \/ disk'["faucet"].claims = faucet.claims
  BY <1>1, <1>3, <1>4, <1>5, <1>6 DEF TokenInv
<1> QED
  BY <1>2, <1>7, <1>8, <1>9, <1>10 DEF TokenInv

LEMMA TokenRestart ==
  ASSUME TokenInv, ListInv', Restart
  PROVE  TokenInv'
<1>1. /\ UNCHANGED <<disk, now>> /\ writes' = <<>> /\ torn' = (torn \/ ~Idle)
      /\ token' = [balances |-> disk["balances"].held, granted |-> disk["balances"].granted,
                   allowances |-> disk["allowances"], minted |-> disk["minted"],
                   burned |-> disk["burned"]]
      /\ faucet' = disk["faucet"] \/ faucet' = [disk["faucet"] EXCEPT !.start = now]
  BY DEF Restart
<1>2. /\ disk["balances"] = [held |-> disk["balances"].held, granted |-> disk["balances"].granted]
      /\ disk["balances"].held \in Held /\ disk["balances"].granted \in Times
      /\ disk["allowances"] \in [Agents -> Held] /\ disk["minted"] \in Nat /\ disk["burned"] \in Nat
  BY DEF TokenInv
<1>3. token' \in TokenRecords
  BY <1>1, <1>2 DEF TokenRecords
<1>4. faucet' \in FaucetRecords /\ faucet'.claims = disk["faucet"].claims
  <2> DEFINE f == disk["faucet"]
  <2>1. /\ f = [claims |-> f.claims, count |-> f.count, start |-> f.start]
        /\ f.claims \in Times /\ f.count \in Nat /\ f.start \in Nat /\ now \in Nat
    BY DEF TokenInv, FaucetRecords
  <2>2. [f EXCEPT !.start = now] = [claims |-> f.claims, count |-> f.count, start |-> now]
    BY <2>1
  <2>3. faucet' = f \/ faucet' = [f EXCEPT !.start = now]
    BY <1>1
  <2> HIDE DEF f
  <2>4. faucet' \in FaucetRecords /\ faucet'.claims = f.claims
    BY <2>1, <2>2, <2>3 DEF FaucetRecords
  <2> QED
    BY <2>4 DEF f
<1>5. \A o, s \in Agents : token'.allowances[o][s] <= disk["allowances"][o][s]
  <2>1. token'.allowances = disk["allowances"] /\ disk["allowances"] \in [Agents -> [Agents -> Nat]]
    BY <1>1, <1>2 DEF Held
  <2> QED
    BY <2>1
<1>6. ~torn' => Backed(token')
  <2>1. SUFFICES ASSUME ~torn' PROVE Backed(token')
    OBVIOUS
  <2>2. ~torn /\ Idle
    BY <1>1, <2>1
  <2>3. /\ disk["balances"].held = token.balances /\ disk["minted"] = token.minted
        /\ disk["burned"] = token.burned
    BY <2>2, PendingIdle DEF TokenInv
  <2>4. token'.balances = token.balances /\ token'.minted = token.minted /\ token'.burned = token.burned
    BY <1>1, <2>3
  <2>5. Backed(token)
    BY <2>2 DEF TokenInv
  <2> QED
    BY <2>4, <2>5 DEF Backed
<1>7. /\ token'.balances = disk["balances"].held /\ token'.granted = disk["balances"].granted
      /\ token'.minted = disk["minted"] /\ token'.burned = disk["burned"]
  BY <1>1
<1> QED
  BY <1>1, <1>2, <1>3, <1>4, <1>5, <1>6, <1>7 DEF TokenInv

LEMMA TokenInvStep ==
  ASSUME TokenInv, [Next]_vars
  PROVE  TokenInv'
<1>1. ListInv'
  BY ListStep DEF TokenInv
<1>2. CASE Rests
  <2>1. UNCHANGED <<token, faucet, disk, writes, torn>>
    BY <1>2 DEF Rests, memory
  <2>2. now' \in 0..MaxTime
    BY <1>2, TokenAssumption DEF Rests, TokenInv
  <2> QED
    BY <1>1, <2>1, <2>2 DEF TokenInv, Pending, Backed
<1> QED
  BY <1>1, <1>2, TokenCall, TokenPut, TokenRestart, StepKinds

-----------------------------------------------------------------------------
(* The loans: what was lent is the sum of the offers taken.                 *)

TakenIn(l) == {o \in Offers : l.loans[o].state # "none"}
OwedIn(l) == [o \in Offers |-> l.loans[o].principal]

Tallied(l) ==
  /\ TakenIn(l) \cap l.offers = {}
  /\ l.lent = SumFunctionOnSet(OfferAmount, TakenIn(l))
  /\ l.lent - SumFunctionOnSet(OwedIn(l), TakenIn(l)) <= l.repaid

LendInv ==
  /\ ListInv
  /\ Sound(lending) /\ Tallied(lending)
  /\ Sound(disk["lending"]) /\ Tallied(disk["lending"])
  /\ Pending("lending") \/ disk["lending"] = lending

LEMMA LendInit ==
  ASSUME Init
  PROVE  LendInv
<1>1. ListInv /\ Sound(lending)
  BY LoanInit DEF LoanInv
<1>2. disk["lending"] = lending
  BY DEF Init, Image
<1>3. lending = [offers |-> {}, lent |-> 0, repaid |-> 0,
                 loans |-> [o \in Offers |-> [state |-> "none", principal |-> 0, collateral |-> 0]]]
  BY DEF Init, LendingInit
<1>4. TakenIn(lending) = {}
  BY <1>3 DEF TakenIn
<1>5. /\ SumFunctionOnSet(OfferAmount, TakenIn(lending)) = 0
      /\ SumFunctionOnSet(OwedIn(lending), TakenIn(lending)) = 0
  BY <1>4, SumEmpty
<1>6. lending.lent = 0 /\ lending.repaid = 0
  BY <1>3
<1>7. Tallied(lending)
  BY <1>4, <1>5, <1>6 DEF Tallied
<1> QED
  BY <1>1, <1>2, <1>7 DEF LendInv

\* The sums of a well-formed record of loans.
LEMMA LentSums ==
  ASSUME NEW l \in LendingRecords
  PROVE  /\ IsFiniteSet(TakenIn(l)) /\ TakenIn(l) \subseteq Offers
         /\ \A o \in Offers : OfferAmount[o] \in Int /\ OwedIn(l)[o] \in Int
         /\ SumFunctionOnSet(OfferAmount, TakenIn(l)) \in Int
         /\ SumFunctionOnSet(OwedIn(l), TakenIn(l)) \in Int
<1>1. IsFiniteSet(TakenIn(l)) /\ TakenIn(l) \subseteq Offers
  <2>1. TakenIn(l) \subseteq Offers
    BY DEF TakenIn
  <2> QED
    BY <2>1, LendingAssumption, FS_Subset
<1>2. \A o \in Offers : OfferAmount[o] \in Int /\ OwedIn(l)[o] \in Int
  BY LendingAssumption DEF OwedIn, LendingRecords, Loan
<1> QED
  BY <1>1, <1>2, SumInt

\* A loan taken.
LEMMA BorrowTallied ==
  ASSUME Sound(lending), Tallied(lending), NEW o \in Offers, NEW c \in Collaterals, Borrow(o, c),
         Sound(lending')
  PROVE  Tallied(lending')
<1> DEFINE l == [state |-> "active", principal |-> OfferAmount[o], collateral |-> c]
           T == TakenIn(lending)
           f == OwedIn(lending)
           g == OwedIn(lending')
<1>1. /\ lending \in LendingRecords /\ lending' \in LendingRecords
      /\ lending.loans \in [Offers -> Loan] /\ lending.lent \in Nat /\ lending.repaid \in Nat
      /\ lending = [offers |-> lending.offers, loans |-> lending.loans, lent |-> lending.lent,
                    repaid |-> lending.repaid]
  BY DEF Sound, LendingRecords
<1>2. /\ o \in lending.offers
      /\ lending' = [lending EXCEPT !.offers = @ \ {o}, !.loans[o] = l, !.lent = @ + OfferAmount[o]]
  BY DEF Borrow
<1>3. /\ lending'.offers = lending.offers \ {o} /\ lending'.lent = lending.lent + OfferAmount[o]
      /\ lending'.loans = [lending.loans EXCEPT ![o] = l] /\ lending'.repaid = lending.repaid
  <2> HIDE DEF l
  <2> QED
    BY <1>1, <1>2
<1>4. \A b \in Offers : lending'.loans[b] = IF b = o THEN l ELSE lending.loans[b]
  BY <1>1, <1>3
<1>5. o \notin T /\ TakenIn(lending') = T \cup {o}
  BY <1>2, <1>4 DEF TakenIn, Tallied
<1>6. g[o] = OfferAmount[o] /\ \A b \in T : f[b] = g[b]
  BY <1>4, <1>5 DEF OwedIn, TakenIn
<1>7. /\ IsFiniteSet(T) /\ T \subseteq Offers
      /\ \A b \in Offers : OfferAmount[b] \in Int /\ f[b] \in Int /\ g[b] \in Int
      /\ SumFunctionOnSet(OfferAmount, T) \in Int /\ SumFunctionOnSet(f, T) \in Int
  BY <1>1, LentSums
<1> HIDE DEF T, f, g, l
<1>8. SumFunctionOnSet(OfferAmount, T \cup {o}) = SumFunctionOnSet(OfferAmount, T) + OfferAmount[o]
  BY <1>5, <1>7, SumAdd
<1>9. SumFunctionOnSet(g, T \cup {o}) = SumFunctionOnSet(g, T) + g[o]
  BY <1>5, <1>7, SumAdd
<1>10. SumFunctionOnSet(f, T) = SumFunctionOnSet(g, T)
  BY <1>6, <1>7, SumSame
<1>11. /\ lending.lent = SumFunctionOnSet(OfferAmount, T) /\ T \cap lending.offers = {}
       /\ lending.lent - SumFunctionOnSet(f, T) <= lending.repaid
  BY DEF Tallied, T, f
<1>12. lending'.lent = SumFunctionOnSet(OfferAmount, T \cup {o})
  BY <1>3, <1>8, <1>11
<1>13. lending'.lent - SumFunctionOnSet(g, T \cup {o}) <= lending'.repaid
  <2>1. OfferAmount[o] \in Int
    BY <1>7
  <2>2. SumFunctionOnSet(g, T \cup {o}) = SumFunctionOnSet(f, T) + OfferAmount[o]
    BY <1>6, <1>9, <1>10
  <2> QED
    BY <1>1, <1>3, <1>7, <1>11, <2>1, <2>2
<1>14. (T \cup {o}) \cap lending'.offers = {}
  BY <1>3, <1>11
<1> QED
  BY <1>5, <1>12, <1>13, <1>14 DEF Tallied, g

\* A loan repaid, or a part of it.
LEMMA RepayTallied ==
  ASSUME Sound(lending), Tallied(lending), NEW o \in Offers, NEW n \in Nat, Repay(o, n),
         Sound(lending')
  PROVE  Tallied(lending')
<1> DEFINE old == lending.loans[o]
           rest == IF n < old.principal THEN old.principal - n ELSE 0
           l == [state |-> IF rest = 0 THEN "repaid" ELSE "active", principal |-> rest,
                 collateral |-> old.collateral]
           T == TakenIn(lending)
           f == OwedIn(lending)
           g == OwedIn(lending')
<1>1. /\ lending \in LendingRecords /\ lending' \in LendingRecords
      /\ lending.loans \in [Offers -> Loan] /\ lending.lent \in Nat /\ lending.repaid \in Nat
      /\ lending = [offers |-> lending.offers, loans |-> lending.loans, lent |-> lending.lent,
                    repaid |-> lending.repaid]
  BY DEF Sound, LendingRecords
<1>2. old.state = "active" /\ lending' = [lending EXCEPT !.loans[o] = l, !.repaid = @ + n]
  BY DEF Repay
<1>3. rest \in Nat /\ old.principal \in Nat /\ old.principal - rest <= n
  BY <1>1 DEF Loan
<1>4. l.principal = rest /\ l.state # "none"
  <2> HIDE DEF rest
  <2> QED
    OBVIOUS
<1>5. /\ lending'.offers = lending.offers /\ lending'.lent = lending.lent
      /\ lending'.loans = [lending.loans EXCEPT ![o] = l] /\ lending'.repaid = lending.repaid + n
  <2> HIDE DEF l
  <2> QED
    BY <1>1, <1>2
<1> HIDE DEF l, rest
<1>6. \A b \in Offers : lending'.loans[b] = IF b = o THEN l ELSE lending.loans[b]
  BY <1>1, <1>5
<1>7. o \in T /\ TakenIn(lending') = T
  BY <1>2, <1>4, <1>6 DEF TakenIn
<1>8. g[o] = rest /\ f[o] = old.principal /\ \A b \in T \ {o} : f[b] = g[b]
  BY <1>4, <1>6 DEF OwedIn, TakenIn
<1>9. /\ IsFiniteSet(T) /\ T \subseteq Offers
      /\ \A b \in Offers : f[b] \in Int /\ g[b] \in Int
      /\ SumFunctionOnSet(f, T) \in Int
  BY <1>1, LentSums
<1> HIDE DEF T, f, g, old
<1>10. SumFunctionOnSet(g, T) = SumFunctionOnSet(f, T) + (rest - old.principal)
  <2>1. \A b \in T : f[b] \in Int /\ g[b] \in Int
    BY <1>9
  <2>2. SumFunctionOnSet(g, T) = SumFunctionOnSet(f, T) + (g[o] - f[o])
    BY <1>7, <1>8, <1>9, <2>1, SumChange
  <2> QED
    BY <1>8, <2>2
<1>11. /\ lending.lent = SumFunctionOnSet(OfferAmount, T) /\ T \cap lending.offers = {}
       /\ lending.lent - SumFunctionOnSet(f, T) <= lending.repaid
  BY DEF Tallied, T, f
<1>12. lending'.lent - SumFunctionOnSet(g, T) <= lending'.repaid
  BY <1>1, <1>3, <1>5, <1>9, <1>10, <1>11
<1> QED
  BY <1>5, <1>7, <1>11, <1>12 DEF Tallied, g

LEMMA LendingTallied ==
  ASSUME Sound(lending), Tallied(lending), LendingOp
  PROVE  Sound(lending') /\ Tallied(lending')
<1>1. Sound(lending')
  BY LendingKeepsSound
<1>2. PICK o \in Offers : \/ CreateOffer(o)
                          \/ \E c \in Collaterals : Borrow(o, c)
                          \/ \E n \in Repayments : Repay(o, n)
  BY DEF LendingOp
<1>3. CASE CreateOffer(o)
  <2>1. /\ lending = [offers |-> lending.offers, loans |-> lending.loans, lent |-> lending.lent,
                      repaid |-> lending.repaid]
    BY DEF Sound, LendingRecords
  <2>2. lending.loans[o].state = "none" /\ lending' = [lending EXCEPT !.offers = @ \cup {o}]
    BY <1>3 DEF CreateOffer
  <2>3. /\ lending'.offers = lending.offers \cup {o} /\ lending'.loans = lending.loans
        /\ lending'.lent = lending.lent /\ lending'.repaid = lending.repaid
    BY <2>1, <2>2
  <2>4. TakenIn(lending') = TakenIn(lending) /\ OwedIn(lending') = OwedIn(lending) /\ o \notin TakenIn(lending)
    BY <2>2, <2>3 DEF TakenIn, OwedIn
  <2> QED
    BY <1>1, <2>3, <2>4 DEF Tallied
<1>4. CASE \E c \in Collaterals : Borrow(o, c)
  BY <1>1, <1>4, BorrowTallied
<1>5. CASE \E n \in Repayments : Repay(o, n)
  BY <1>1, <1>5, RepayTallied, LendingAssumption
<1> QED
  BY <1>2, <1>3, <1>4, <1>5

LEMMA LendStep ==
  ASSUME LendInv, [Next]_vars
  PROVE  LendInv'
<1>1. ListInv' /\ client \in Clients /\ StoreInv
  BY ListStep DEF LendInv, ListInv, StoreInv
<1>2. CASE Calls
  <2>1. Idle /\ disk' = disk
    BY <1>1, <1>2, CallFrame
  <2>2. disk["lending"] = lending
    BY <2>1, PendingIdle DEF LendInv
  <2>3. CASE LendingOp
    <3>1. Pending("lending")'
      BY <2>3, PendingCall DEF LendingOp, Call
    <3> QED
      BY <1>1, <2>1, <2>3, <3>1, LendingTallied DEF LendInv
  <2>4. CASE LiquidateOp \/ lending' = lending
    <3>1. lending' = lending
      BY <2>4, LiquidateKeepsSound DEF LendInv
    <3> QED
      BY <1>1, <2>1, <2>2, <3>1 DEF LendInv
  <2> QED
    BY <1>2, <2>3, <2>4, CallsOfParts
<1>3. CASE Put
  <2>1. /\ lending' = lending /\ "lending" \in Keys /\ Image["lending"] = lending
        /\ disk'["lending"] = IF "lending" = Head(writes) THEN Image["lending"] ELSE disk["lending"]
    BY <1>1, <1>3, PutOne, PutKeeps DEF memory, desks, Keys, Image
  <2>2. Pending("lending") => Pending("lending")' \/ "lending" = Head(writes)
    BY <1>1, <1>3, PendingPut
  <2> QED
    BY <1>1, <2>1, <2>2 DEF LendInv
<1>4. CASE Restart
  BY <1>1, <1>4 DEF Restart, LendInv
<1>5. CASE Rests
  BY <1>1, <1>5 DEF Rests, memory, desks, LendInv, Pending
<1> QED
  BY <1>2, <1>3, <1>4, <1>5, StepKinds

-----------------------------------------------------------------------------
(* The marketplace: its counters are those of its settled purchases.        *)

MarketRecords ==
  [listed : SUBSET Listings, listing : [Purchases -> Listings \cup {None}],
   txid : [Purchases -> Txids \cup {None}], settled : SUBSET Purchases, rated : SUBSET Purchases,
   calls : [Listings -> Nat], revenue : [Listings -> Nat], ratings : [Listings -> Nat], volume : Nat]

SettledOf(m, l) == {p \in m.settled : m.listing[p] = l}
Totals(m) == [p \in Purchases |-> Total(m.listing[p])]

\* A record of the marketplace whose figures are right.
Booked(m) ==
  /\ m \in MarketRecords /\ m.rated \subseteq m.settled
  /\ \A p \in m.settled : m.listing[p] # None
  /\ \A l \in Listings : /\ m.calls[l] = Cardinality(SettledOf(m, l))
                         /\ m.revenue[l] = m.calls[l] * Price[l]
  /\ m.volume = SumFunctionOnSet(Totals(m), m.settled)

Untold == [p \in Purchases |-> None]
SavedMarket(m) == [m EXCEPT !.txid = Untold, !.rated = {}]

MarketInv ==
  /\ ListInv
  /\ Booked(market) /\ Booked(disk["market"])
  /\ disk["market"].txid = Untold /\ disk["market"].rated = {}
  /\ Pending("market") \/ disk["market"] = SavedMarket(market)

\* A record of the marketplace by its fields.
LEMMA MarketFields ==
  ASSUME NEW m \in MarketRecords
  PROVE  /\ m = [listed |-> m.listed, listing |-> m.listing, txid |-> m.txid, settled |-> m.settled,
                 rated |-> m.rated, calls |-> m.calls, revenue |-> m.revenue, ratings |-> m.ratings,
                 volume |-> m.volume]
         /\ m.listed \in SUBSET Listings /\ m.listing \in [Purchases -> Listings \cup {None}]
         /\ m.txid \in [Purchases -> Txids \cup {None}] /\ m.settled \in SUBSET Purchases
         /\ m.rated \in SUBSET Purchases /\ m.calls \in [Listings -> Nat]
         /\ m.revenue \in [Listings -> Nat] /\ m.ratings \in [Listings -> Nat] /\ m.volume \in Nat
  BY DEF MarketRecords

\* What is saved has the figures of what it was saved from.
LEMMA SavedBooked ==
  ASSUME NEW m, Booked(m)
  PROVE  /\ Booked(SavedMarket(m)) /\ SavedMarket(m).txid = Untold /\ SavedMarket(m).rated = {}
         /\ m.txid = Untold /\ m.rated = {} => SavedMarket(m) = m
<1> DEFINE s == SavedMarket(m)
<1>1. m \in MarketRecords
  BY DEF Booked
<1>2. ASSUME NEW u, u = SavedMarket(m)
      PROVE  u = [listed |-> m.listed, listing |-> m.listing, txid |-> Untold, settled |-> m.settled,
                  rated |-> {}, calls |-> m.calls, revenue |-> m.revenue, ratings |-> m.ratings,
                  volume |-> m.volume]
  <2>1. m = [listed |-> m.listed, listing |-> m.listing, txid |-> m.txid, settled |-> m.settled,
             rated |-> m.rated, calls |-> m.calls, revenue |-> m.revenue, ratings |-> m.ratings,
             volume |-> m.volume]
    BY <1>1, MarketFields
  <2> QED
    BY <1>2, <2>1 DEF SavedMarket
<1>3. s = [listed |-> m.listed, listing |-> m.listing, txid |-> Untold, settled |-> m.settled,
           rated |-> {}, calls |-> m.calls, revenue |-> m.revenue, ratings |-> m.ratings,
           volume |-> m.volume]
  BY <1>2
<1> HIDE DEF s
<1>4. Untold \in [Purchases -> Txids \cup {None}]
  BY DEF Untold
<1>5. s \in MarketRecords
  <2>1. {} \in SUBSET Purchases
    OBVIOUS
  <2> QED
    BY <1>1, <1>3, <1>4, <2>1, MarketFields DEF MarketRecords
<1>6. /\ s.listing = m.listing /\ s.settled = m.settled /\ s.calls = m.calls /\ s.revenue = m.revenue
      /\ s.volume = m.volume /\ s.txid = Untold /\ s.rated = {}
  BY <1>3
<1>7. Totals(s) = Totals(m) /\ \A l : SettledOf(s, l) = SettledOf(m, l)
  BY <1>6, Zenon DEF Totals, SettledOf
<1>8. Booked(s)
  BY <1>5, <1>6, <1>7 DEF Booked
<1>9. m.txid = Untold /\ m.rated = {} => s = m
  <2>1. m = [listed |-> m.listed, listing |-> m.listing, txid |-> m.txid, settled |-> m.settled,
             rated |-> m.rated, calls |-> m.calls, revenue |-> m.revenue, ratings |-> m.ratings,
             volume |-> m.volume]
    BY <1>1, MarketFields
  <2> QED
    BY <1>3, <2>1, Zenon
<1> QED
  BY <1>6, <1>8, <1>9 DEF s

LEMMA MarketInvInit ==
  ASSUME Init
  PROVE  MarketInv
<1>1. market = [listed |-> {}, listing |-> Untold, txid |-> Untold, settled |-> {}, rated |-> {},
                calls |-> [l \in Listings |-> 0], revenue |-> [l \in Listings |-> 0],
                ratings |-> [l \in Listings |-> 0], volume |-> 0]
  BY DEF Init, MarketInit, Untold
<1>2. market \in MarketRecords
  <2>1. Untold \in [Purchases -> Listings \cup {None}] /\ Untold \in [Purchases -> Txids \cup {None}]
    BY DEF Untold
  <2> QED
    BY <1>1, <2>1 DEF MarketRecords
<1>3. /\ market.settled = {} /\ market.rated = {} /\ market.volume = 0 /\ market.txid = Untold
      /\ \A l \in Listings : market.calls[l] = 0 /\ market.revenue[l] = 0
  BY <1>1
<1>4. \A l \in Listings : SettledOf(market, l) = {}
  BY <1>3 DEF SettledOf
<1>5. SumFunctionOnSet(Totals(market), {}) = 0 /\ Cardinality({}) = 0
  BY SumEmpty, FS_EmptySet
<1>6. \A l \in Listings : Price[l] \in Nat
  BY MarketAssumption
<1>7. Booked(market)
  BY <1>2, <1>3, <1>4, <1>5, <1>6 DEF Booked
<1>8. disk["market"] = SavedMarket(market)
  BY Zenon DEF Init, Image, SavedMarket, Untold
<1> QED
  BY <1>3, <1>7, <1>8, SavedBooked, ListInit DEF MarketInv

\* A listing, and a purchase of one, leave the settled purchases.
LEMMA ListBooked ==
  ASSUME Booked(market), NEW l \in Listings, ListService(l)
  PROVE  Booked(market')
<1>1. market \in MarketRecords
  BY DEF Booked
<1>2. market' = [listed |-> market.listed \cup {l}, listing |-> market.listing, txid |-> market.txid,
                 settled |-> market.settled, rated |-> market.rated, calls |-> market.calls,
                 revenue |-> market.revenue, ratings |-> market.ratings, volume |-> market.volume]
  BY <1>1, MarketFields DEF ListService
<1>3. market' \in MarketRecords
  BY <1>1, <1>2, MarketFields DEF MarketRecords
<1>4. /\ market'.listing = market.listing /\ market'.settled = market.settled
      /\ market'.calls = market.calls /\ market'.revenue = market.revenue
      /\ market'.volume = market.volume /\ market'.rated = market.rated
  BY <1>2
<1>5. Totals(market') = Totals(market) /\ \A k : SettledOf(market', k) = SettledOf(market, k)
  BY <1>4, Zenon DEF Totals, SettledOf
<1> QED
  BY <1>3, <1>4, <1>5 DEF Booked

LEMMA PurchaseBooked ==
  ASSUME Booked(market), NEW p \in Purchases, NEW l \in Listings, PurchaseService(p, l)
  PROVE  Booked(market')
<1> DEFINE new == [market.listing EXCEPT ![p] = l]
<1>1. market \in MarketRecords
  BY DEF Booked
<1>2. market' = [listed |-> market.listed, listing |-> new, txid |-> market.txid,
                 settled |-> market.settled, rated |-> market.rated, calls |-> market.calls,
                 revenue |-> market.revenue, ratings |-> market.ratings, volume |-> market.volume]
  BY <1>1, MarketFields DEF PurchaseService
<1>3. new \in [Purchases -> Listings \cup {None}] /\ \A q \in Purchases : q # p => new[q] = market.listing[q]
  BY <1>1, MarketFields
<1> HIDE DEF new
<1>4. market' \in MarketRecords
  BY <1>1, <1>2, <1>3, MarketFields DEF MarketRecords
<1>5. /\ market'.listing = new /\ market'.settled = market.settled
      /\ market'.calls = market.calls /\ market'.revenue = market.revenue
      /\ market'.volume = market.volume /\ market'.rated = market.rated
  BY <1>2
<1>6. p \notin market.settled /\ market.settled \subseteq Purchases
  BY <1>1, MarketFields DEF PurchaseService, Bought, Booked
<1>7. \A q \in market.settled : market'.listing[q] = market.listing[q]
  BY <1>3, <1>5, <1>6
<1>8. \A k : SettledOf(market', k) = SettledOf(market, k)
  BY <1>5, <1>7 DEF SettledOf
<1>9. SumFunctionOnSet(Totals(market'), market.settled) = SumFunctionOnSet(Totals(market), market.settled)
  <2>1. IsFiniteSet(market.settled)
    BY <1>6, MarketAssumption, FS_Subset
  <2>2. \A q \in market.settled : Totals(market)[q] = Totals(market')[q]
    BY <1>6, <1>7, Zenon DEF Totals
  <2> QED
    BY <2>1, <2>2, SumSame
<1> QED
  BY <1>4, <1>5, <1>7, <1>8, <1>9 DEF Booked

\* The price with its fee is a number.
LEMMA TotalNat ==
  ASSUME NEW l \in Listings
  PROVE  Total(l) \in Nat /\ Price[l] \in Nat
<1>1. Price[l] \in Nat
  BY MarketAssumption
<1> DEFINE x == Price[l]
<1> HIDE DEF x
<1>2. x \in Nat => x + (x * 25) \div 1000 \in Nat
  OBVIOUS
<1> QED
  BY <1>1, <1>2 DEF Total, x

\* A purchase that is settled counts once for its listing.
LEMMA SettleBooked ==
  ASSUME Booked(market), NEW p \in Purchases, NEW x \in Txids, SettlePurchase(p, x)
  PROVE  Booked(market')
<1> DEFINE l == market.listing[p]
           S == market.settled
           T == S \cup {p}
           tx == [market.txid EXCEPT ![p] = x]
           ca == [market.calls EXCEPT ![l] = market.calls[l] + 1]
           re == [market.revenue EXCEPT ![l] = market.revenue[l] + Price[l]]
<1>1. market \in MarketRecords
  BY DEF Booked
<1>2. p \notin S /\ l \in Listings
  BY <1>1, MarketFields DEF SettlePurchase, Bought
<1>3. market' = [listed |-> market.listed, listing |-> market.listing, txid |-> tx,
                 settled |-> T, rated |-> market.rated, calls |-> ca,
                 revenue |-> re, ratings |-> market.ratings, volume |-> market.volume + Total(l)]
  <2>1. market = [listed |-> market.listed, listing |-> market.listing, txid |-> market.txid,
                  settled |-> market.settled, rated |-> market.rated, calls |-> market.calls,
                  revenue |-> market.revenue, ratings |-> market.ratings, volume |-> market.volume]
    BY <1>1, MarketFields
  <2>2. market' = [market EXCEPT !.settled = T, !.txid = tx, !.calls = ca, !.revenue = re,
                                 !.volume = market.volume + Total(l)]
    BY <2>1 DEF SettlePurchase
  <2> HIDE DEF T, tx, ca, re, l
  <2> QED
    BY <2>1, <2>2
<1>4. Total(l) \in Nat /\ Price[l] \in Nat
  BY <1>2, TotalNat
<1>5. /\ tx \in [Purchases -> Txids \cup {None}] /\ ca \in [Listings -> Nat] /\ re \in [Listings -> Nat]
      /\ T \in SUBSET Purchases /\ market.volume + Total(l) \in Nat
  BY <1>1, <1>2, <1>4, MarketFields
<1>6. \A k \in Listings : /\ ca[k] = IF k = l THEN market.calls[k] + 1 ELSE market.calls[k]
                          /\ re[k] = IF k = l THEN market.revenue[k] + Price[k] ELSE market.revenue[k]
  BY <1>1, MarketFields
<1> HIDE DEF tx, ca, re
<1>7. market' \in MarketRecords
  BY <1>1, <1>3, <1>5, MarketFields DEF MarketRecords
<1>8. /\ market'.listing = market.listing /\ market'.settled = T
      /\ market'.calls = ca /\ market'.revenue = re
      /\ market'.volume = market.volume + Total(l) /\ market'.rated = market.rated
  BY <1>3
<1>9. IsFiniteSet(S) /\ S \subseteq Purchases /\ \A q \in T : market.listing[q] \in Listings
  <2>1. S \subseteq Purchases /\ IsFiniteSet(Purchases)
    BY <1>1, MarketFields, MarketAssumption
  <2>2. \A q \in T : market.listing[q] \in Listings
    BY <1>1, <1>2, <2>1, MarketFields DEF Booked
  <2> QED
    BY <2>1, <2>2, FS_Subset
<1>10. \A k \in Listings :
         Cardinality(SettledOf(market', k)) =
           IF k = l THEN Cardinality(SettledOf(market, k)) + 1 ELSE Cardinality(SettledOf(market, k))
  <2> SUFFICES ASSUME NEW k \in Listings
               PROVE  Cardinality(SettledOf(market', k)) =
                        IF k = l THEN Cardinality(SettledOf(market, k)) + 1
                        ELSE Cardinality(SettledOf(market, k))
    OBVIOUS
  <2>1. SettledOf(market', k) = IF k = l THEN SettledOf(market, k) \cup {p} ELSE SettledOf(market, k)
    BY <1>8 DEF SettledOf
  <2>2. IsFiniteSet(SettledOf(market, k)) /\ p \notin SettledOf(market, k)
    <3>1. SettledOf(market, k) \subseteq S
      BY DEF SettledOf
    <3> QED
      BY <1>2, <1>9, <3>1, FS_Subset
  <2>3. Cardinality(SettledOf(market, k) \cup {p}) = Cardinality(SettledOf(market, k)) + 1
    BY <2>2, FS_AddElement
  <2> QED
    BY <2>1, <2>3
<1>11. \A k \in Listings : /\ ca[k] = Cardinality(SettledOf(market', k))
                           /\ re[k] = ca[k] * Price[k]
  <2> SUFFICES ASSUME NEW k \in Listings
               PROVE  ca[k] = Cardinality(SettledOf(market', k)) /\ re[k] = ca[k] * Price[k]
    OBVIOUS
  <2>1. market.calls[k] = Cardinality(SettledOf(market, k)) /\ market.revenue[k] = market.calls[k] * Price[k]
    BY DEF Booked
  <2>2. market.calls[k] \in Nat /\ Price[k] \in Nat
    BY <1>1, MarketFields, TotalNat
  <2>3. (market.calls[k] + 1) * Price[k] = market.calls[k] * Price[k] + Price[k]
    BY <2>2
  <2> QED
    BY <1>6, <1>10, <2>1, <2>3
<1>12. market'.volume = SumFunctionOnSet(Totals(market'), T)
  <2>1. Totals(market') = Totals(market)
    BY <1>8, Zenon DEF Totals
  <2>2. \A q \in T : Totals(market)[q] \in Int
    <3>1. \A q \in T : Totals(market)[q] = Total(market.listing[q])
      BY <1>9 DEF Totals
    <3> QED
      BY <1>9, <3>1, TotalNat
  <2>3. Totals(market)[p] = Total(l)
    BY DEF Totals
  <2> HIDE DEF S, l
  <2>4. SumFunctionOnSet(Totals(market), S \cup {p}) = SumFunctionOnSet(Totals(market), S) + Totals(market)[p]
    BY <1>2, <1>9, <2>2, SumAdd
  <2>5. market.volume = SumFunctionOnSet(Totals(market), S)
    BY DEF Booked, S
  <2> QED
    BY <1>8, <2>1, <2>3, <2>4, <2>5
<1>13. market'.rated \subseteq market'.settled /\ \A q \in T : market'.listing[q] # None
  <2>1. None \notin Listings
    BY MarketAssumption
  <2>2. market.rated \subseteq S
    BY DEF Booked
  <2> QED
    BY <1>8, <1>9, <2>1, <2>2
<1> QED
  BY <1>7, <1>8, <1>11, <1>12, <1>13 DEF Booked

LEMMA RateBooked ==
  ASSUME Booked(market), NEW p \in Purchases, RateService(p)
  PROVE  Booked(market')
<1> DEFINE l == market.listing[p]
           ra == [market.ratings EXCEPT ![l] = market.ratings[l] + 1]
<1>1. market \in MarketRecords
  BY DEF Booked
<1>2. p \in market.settled
  BY DEF RateService
<1>3. market' = [listed |-> market.listed, listing |-> market.listing, txid |-> market.txid,
                 settled |-> market.settled, rated |-> market.rated \cup {p}, calls |-> market.calls,
                 revenue |-> market.revenue, ratings |-> ra, volume |-> market.volume]
  <2>1. market = [listed |-> market.listed, listing |-> market.listing, txid |-> market.txid,
                  settled |-> market.settled, rated |-> market.rated, calls |-> market.calls,
                  revenue |-> market.revenue, ratings |-> market.ratings, volume |-> market.volume]
    BY <1>1, MarketFields
  <2>2. market' = [market EXCEPT !.rated = market.rated \cup {p}, !.ratings = ra]
    BY <2>1 DEF RateService
  <2> HIDE DEF ra, l
  <2> QED
    BY <2>1, <2>2
<1>4. ra \in [Listings -> Nat]
  <2>1. l \in Listings
    BY <1>1, <1>2, MarketFields DEF Booked
  <2> QED
    BY <1>1, <2>1, MarketFields
<1> HIDE DEF ra
<1>5. market' \in MarketRecords
  BY <1>1, <1>3, <1>4, MarketFields DEF MarketRecords
<1>6. /\ market'.listing = market.listing /\ market'.settled = market.settled
      /\ market'.calls = market.calls /\ market'.revenue = market.revenue
      /\ market'.volume = market.volume /\ market'.rated = market.rated \cup {p}
  BY <1>3
<1>7. Totals(market') = Totals(market) /\ \A k : SettledOf(market', k) = SettledOf(market, k)
  BY <1>6, Zenon DEF Totals, SettledOf
<1> QED
  BY <1>2, <1>5, <1>6, <1>7 DEF Booked

LEMMA MarketInvStep ==
  ASSUME MarketInv, [Next]_vars
  PROVE  MarketInv'
<1>1. ListInv' /\ client \in Clients /\ StoreInv
  BY ListStep DEF MarketInv, ListInv, StoreInv
<1>2. CASE Calls
  <2>1. Idle /\ disk' = disk
    BY <1>1, <1>2, CallFrame
  <2>2. CASE MarketOp
    <3>1. Pending("market")'
      BY <2>2, PendingCall DEF MarketOp, Call
    <3>2. Booked(market')
      BY <2>2, ListBooked, PurchaseBooked, SettleBooked, RateBooked DEF MarketOp, MarketInv
    <3> QED
      BY <1>1, <2>1, <3>1, <3>2 DEF MarketInv
  <2>3. CASE market' = market
    <3>1. disk["market"] = SavedMarket(market)
      BY <2>1, PendingIdle DEF MarketInv
    <3> QED
      BY <1>1, <2>1, <2>3, <3>1 DEF MarketInv
  <2> QED
    BY <1>2, <2>2, <2>3, CallsOfParts
<1>3. CASE Put
  <2>1. /\ market' = market /\ "market" \in Keys
        /\ disk'["market"] = IF "market" = Head(writes) THEN Image["market"] ELSE disk["market"]
    BY <1>1, <1>3, PutOne, PutKeeps DEF memory, Keys
  <2>2. Image["market"] = SavedMarket(market)
    BY Zenon DEF Image, SavedMarket, Untold
  <2>3. Pending("market") => Pending("market")' \/ "market" = Head(writes)
    BY <1>1, <1>3, PendingPut
  <2> QED
    BY <1>1, <2>1, <2>2, <2>3, SavedBooked DEF MarketInv
<1>4. CASE Restart
  <2>1. market' = disk["market"] /\ disk' = disk
    BY <1>4 DEF Restart
  <2>2. disk["market"] = SavedMarket(disk["market"])
    BY SavedBooked DEF MarketInv
  <2> QED
    BY <1>1, <2>1, <2>2 DEF MarketInv
<1>5. CASE Rests
  BY <1>1, <1>5 DEF Rests, memory, MarketInv, Pending
<1> QED
  BY <1>2, <1>3, <1>4, <1>5, StepKinds

-----------------------------------------------------------------------------
(* The registry: the events of reputation lead to the scores.               *)

Scores == 0..100
ReputationEvents == [agent : Members, delta : Deltas]
RegistryRecords ==
  [score : [Members -> Scores \cup {Absent}], events : Seq(ReputationEvents)]

\* The recursion of ScoreAfter, and the function it folds with.
Rescores(g, m, events) ==
  g = [n \in 0..Len(events) |->
         IF n = 0 THEN 50
         ELSE IF events[n].agent = m THEN Clamped(g[n - 1] + events[n].delta)
         ELSE g[n - 1]]
Rescore(m) ==
  [p \in Scores \X ReputationEvents |->
     IF p[2].agent = m THEN Clamped(p[1] + p[2].delta) ELSE p[1]]

LEMMA ClampedType ==
  ASSUME NEW n \in Int
  PROVE  Clamped(n) \in Scores
  BY DEF Clamped, Scores

LEMMA RescoreType ==
  ASSUME NEW m
  PROVE  Rescore(m) \in [Scores \X ReputationEvents -> Scores]
<1>1. ASSUME NEW x \in Scores, NEW e \in ReputationEvents
      PROVE  (IF e.agent = m THEN Clamped(x + e.delta) ELSE x) \in Scores
  <2>1. e.delta \in Int /\ x \in Int
    <3>1. e.delta \in Deltas /\ x \in Int
      BY DEF ReputationEvents, Scores
    <3> QED
      BY <3>1, RegistryAssumption
  <2>2. Clamped(x + e.delta) \in Scores
    BY <2>1, ClampedType
  <2> QED
    BY <2>2
<1> QED
  BY <1>1 DEF Rescore

\* ScoreAfter is a fold of the events.
LEMMA ScoreIs ==
  ASSUME NEW m, NEW s \in Seq(ReputationEvents)
  PROVE  \E g \in [0..Len(s) -> Scores] :
            Folds(g, s, 50, Rescore(m)) /\ ScoreAfter(m, s) = g[Len(s)]
<1>0. Len(s) \in Nat /\ (\A n \in 1..Len(s) : s[n] \in ReputationEvents) /\ 50 \in Scores
  BY DEF Scores
<1>1. Rescore(m) \in [Scores \X ReputationEvents -> Scores]
  BY RescoreType
<1>2. ASSUME NEW g \in [0..Len(s) -> Scores], Folds(g, s, 50, Rescore(m))
      PROVE  Rescores(g, m, s)
  <2>1. ASSUME NEW n \in 1..Len(s)
        PROVE  g[n] = IF s[n].agent = m THEN Clamped(g[n - 1] + s[n].delta) ELSE g[n - 1]
    <3>0. n - 1 \in 0..Len(s) /\ s[n] \in ReputationEvents
      BY <1>0
    <3>1. g[n - 1] \in Scores
      BY <3>0
    <3>2. g[n] = Rescore(m)[<<g[n - 1], s[n]>>]
      BY <1>2 DEF Folds
    <3> QED
      BY <3>0, <3>1, <3>2 DEF Rescore
  <2>2. g[0] = 50
    BY <1>2 DEF Folds
  <2>3. \A n \in 0..Len(s) :
          g[n] = IF n = 0 THEN 50
                 ELSE IF s[n].agent = m THEN Clamped(g[n - 1] + s[n].delta) ELSE g[n - 1]
    <3> SUFFICES ASSUME NEW n \in 0..Len(s)
                 PROVE  g[n] = IF n = 0 THEN 50
                               ELSE IF s[n].agent = m THEN Clamped(g[n - 1] + s[n].delta) ELSE g[n - 1]
      OBVIOUS
    <3>1. CASE n = 0
      BY <2>2, <3>1
    <3>2. CASE n # 0
      <4>1. n \in 1..Len(s)
        BY <1>0, <3>2
      <4> QED
        BY <2>1, <3>2, <4>1
    <3> QED
      BY <3>1, <3>2
  <2>4. g = [n \in 0..Len(s) |-> g[n]]
    OBVIOUS
  <2> QED
    BY <2>3, <2>4, Zenon DEF Rescores
<1> DEFINE k == CHOOSE g : Rescores(g, m, s)
<1>3. Rescores(k, m, s)
  <2>1. \E g \in [0..Len(s) -> Scores] : Folds(g, s, 50, Rescore(m))
    BY <1>0, <1>1, FoldExists
  <2> QED
    BY <1>2, <2>1
<1>4. ScoreAfter(m, s) = k[Len(s)]
  BY DEF ScoreAfter, Rescores
<1> HIDE DEF k
<1>5. k \in [0..Len(s) -> Scores] /\ Folds(k, s, 50, Rescore(m))
  <2>0. \A n \in 0..Len(s) :
          k[n] = IF n = 0 THEN 50
                 ELSE IF s[n].agent = m THEN Clamped(k[n - 1] + s[n].delta) ELSE k[n - 1]
    BY <1>3, Zenon DEF Rescores
  <2>1. k = [n \in 0..Len(s) |-> k[n]] /\ k[0] = 50
    BY <1>0, <1>3, <2>0 DEF Rescores
  <2>2. ASSUME NEW n \in 1..Len(s), k[n - 1] \in Scores
        PROVE  k[n] = Rescore(m)[<<k[n - 1], s[n]>>]
    <3>1. k[n] = IF s[n].agent = m THEN Clamped(k[n - 1] + s[n].delta) ELSE k[n - 1]
      BY <1>0, <2>0
    <3> QED
      BY <1>0, <2>2, <3>1 DEF Rescore
  <2> QED
    BY <1>0, <1>1, <2>1, <2>2, FoldTyped, ZenonT(60)
<1> QED
  BY <1>4, <1>5

\* No event leaves the initial score; one more moves the score of its agent.
LEMMA ScoreEmpty ==
  ASSUME NEW m
  PROVE  ScoreAfter(m, <<>>) = 50
<1>1. <<>> \in Seq(ReputationEvents) /\ Len(<<>>) = 0
  OBVIOUS
<1>2. PICK g \in [0..Len(<<>>) -> Scores] :
        Folds(g, <<>>, 50, Rescore(m)) /\ ScoreAfter(m, <<>>) = g[Len(<<>>)]
  BY <1>1, ScoreIs
<1> QED
  BY <1>1, <1>2 DEF Folds

LEMMA ScoreAppend ==
  ASSUME NEW m, NEW s \in Seq(ReputationEvents), NEW e \in ReputationEvents
  PROVE  ScoreAfter(m, Append(s, e)) =
           IF e.agent = m THEN Clamped(ScoreAfter(m, s) + e.delta) ELSE ScoreAfter(m, s)
<1> DEFINE t == Append(s, e)
<1>1. t \in Seq(ReputationEvents) /\ LongerByOne(s, t) /\ t[Len(t)] = e /\ Len(s) \in 0..Len(s)
  BY DEF LongerByOne
<1> HIDE DEF t
<1>2. PICK g \in [0..Len(s) -> Scores] :
        Folds(g, s, 50, Rescore(m)) /\ ScoreAfter(m, s) = g[Len(s)]
  BY ScoreIs
<1>3. PICK h \in [0..Len(t) -> Scores] :
        Folds(h, t, 50, Rescore(m)) /\ ScoreAfter(m, t) = h[Len(t)]
  BY <1>1, ScoreIs
<1>4. GoesOn(h, t, g, s, Rescore(m))
  BY <1>1, <1>2, <1>3, FoldUnique
<1>5. h[Len(t)] = Rescore(m)[<<g[Len(s)], e>>]
  BY <1>1, <1>4, Zenon DEF GoesOn
<1>6. g[Len(s)] \in Scores
  BY <1>1
<1>7. Rescore(m)[<<g[Len(s)], e>>] = IF e.agent = m THEN Clamped(g[Len(s)] + e.delta) ELSE g[Len(s)]
  BY <1>6 DEF Rescore
<1> QED
  BY <1>2, <1>3, <1>5, <1>7 DEF t

\* The score each member would have, by the events.
Scored(r) ==
  \A m \in Members :
    ScoreAfter(m, r.events) = IF r.score[m] = Absent THEN 50 ELSE r.score[m]

AgentInv ==
  /\ ListInv
  /\ registry \in RegistryRecords /\ disk["agents"] \in [Members -> Scores \cup {Absent}]
  /\ Pending("agents") \/ disk["agents"] = registry.score
  /\ registry.events # <<>> => Pending("reputation") \/ disk["reputation"] = registry.events
  /\ restarts \in Nat /\ (restarts = 0 => Scored(registry))

LEMMA AgentInvInit ==
  ASSUME Init
  PROVE  AgentInv
<1>1. registry = [score |-> [m \in Members |-> Absent], events |-> <<>>] /\ restarts = 0
  BY DEF Init, RegistryInit
<1>2. registry \in RegistryRecords /\ registry.events = <<>> /\ \A m \in Members : registry.score[m] = Absent
  <2>1. <<>> \in Seq(ReputationEvents) /\ [m \in Members |-> Absent] \in [Members -> Scores \cup {Absent}]
    OBVIOUS
  <2>2. registry \in RegistryRecords
    BY <1>1, <2>1 DEF RegistryRecords
  <2> QED
    BY <1>1, <2>2
<1>3. Scored(registry)
  BY <1>2, ScoreEmpty DEF Scored
<1>4. disk["agents"] = registry.score
  BY Zenon DEF Init, Image
<1>5. disk["agents"] \in [Members -> Scores \cup {Absent}]
  BY <1>2, <1>4 DEF RegistryRecords
<1> QED
  BY <1>1, <1>2, <1>3, <1>4, <1>5, ListInit DEF AgentInv

\* A record of the registry by its fields.
LEMMA RegistryFields ==
  ASSUME NEW r \in RegistryRecords
  PROVE  /\ r = [score |-> r.score, events |-> r.events]
         /\ r.score \in [Members -> Scores \cup {Absent}] /\ r.events \in Seq(ReputationEvents)
  BY DEF RegistryRecords

LEMMA RegisterScored ==
  ASSUME registry \in RegistryRecords, NEW m \in Members, Register(m)
  PROVE  /\ registry' \in RegistryRecords /\ registry'.events = registry.events
         /\ Scored(registry) => Scored(registry')
<1> DEFINE sc == [registry.score EXCEPT ![m] = 50]
<1>1. registry' = [score |-> sc, events |-> registry.events]
  BY RegistryFields DEF Register
<1>2. sc \in [Members -> Scores \cup {Absent}]
  <2>1. 50 \in Scores
    BY DEF Scores
  <2> QED
    BY <2>1, RegistryFields
<1>3. registry.score[m] = Absent /\ Absent # 50
  BY DEF Register, Registered, Absent
<1>4. \A k \in Members : sc[k] = IF k = m THEN 50 ELSE registry.score[k]
  BY RegistryFields
<1> HIDE DEF sc
<1>5. registry' \in RegistryRecords
  BY <1>1, <1>2, RegistryFields DEF RegistryRecords
<1>6. registry'.score = sc /\ registry'.events = registry.events
  BY <1>1
<1> QED
  BY <1>3, <1>4, <1>5, <1>6 DEF Scored

LEMMA ReputationScored ==
  ASSUME registry \in RegistryRecords, NEW m \in Members, NEW d \in Deltas, UpdateReputation(m, d)
  PROVE  /\ registry' \in RegistryRecords
         /\ Scored(registry) => Scored(registry')
<1> DEFINE e == [agent |-> m, delta |-> d]
           sc == [registry.score EXCEPT ![m] = Clamped(registry.score[m] + d)]
           ev == Append(registry.events, e)
<1>1. registry' = [score |-> sc, events |-> ev]
  <2>1. registry = [score |-> registry.score, events |-> registry.events]
    BY RegistryFields
  <2>2. registry' = [registry EXCEPT !.score = sc, !.events = ev]
    BY <2>1 DEF UpdateReputation
  <2> HIDE DEF sc, ev
  <2> QED
    BY <2>1, <2>2
<1>2. d \in Int /\ e \in ReputationEvents /\ e.agent = m /\ e.delta = d
  BY RegistryAssumption DEF ReputationEvents
<1>3. registry.score[m] \in Scores /\ registry.score[m] # Absent
  BY RegistryFields DEF UpdateReputation, Registered
<1>4. Clamped(registry.score[m] + d) \in Scores
  BY <1>2, <1>3, ClampedType DEF Scores
<1>5. sc \in [Members -> Scores \cup {Absent}]
  BY <1>4, RegistryFields
<1>6. \A k \in Members : sc[k] = IF k = m THEN Clamped(registry.score[m] + d) ELSE registry.score[k]
  BY RegistryFields
<1> HIDE DEF e
<1>7. ev \in Seq(ReputationEvents)
  BY <1>2, RegistryFields
<1>8. \A k \in Members : ScoreAfter(k, ev) =
        IF k = m THEN Clamped(ScoreAfter(k, registry.events) + d) ELSE ScoreAfter(k, registry.events)
  BY <1>2, RegistryFields, ScoreAppend
<1> HIDE DEF sc, ev
<1>9. registry' \in RegistryRecords
  BY <1>1, <1>5, <1>7 DEF RegistryRecords
<1>10. registry'.score = sc /\ registry'.events = ev
  BY <1>1
<1>11. Absent \notin Scores
  BY DEF Absent, Scores
<1>12. ASSUME Scored(registry) PROVE Scored(registry')
  <2> SUFFICES ASSUME NEW k \in Members
               PROVE  ScoreAfter(k, ev) = IF sc[k] = Absent THEN 50 ELSE sc[k]
    BY <1>10 DEF Scored
  <2>1. ScoreAfter(k, registry.events) = IF registry.score[k] = Absent THEN 50 ELSE registry.score[k]
    BY <1>12 DEF Scored
  <2>2. CASE k = m
    BY <1>3, <1>4, <1>6, <1>8, <1>11, <2>1, <2>2
  <2>3. CASE k # m
    BY <1>6, <1>8, <2>1, <2>3
  <2> QED
    BY <2>2, <2>3
<1> QED
  BY <1>9, <1>12

LEMMA AgentInvStep ==
  ASSUME AgentInv, [Next]_vars
  PROVE  AgentInv'
<1>1. ListInv' /\ client \in Clients /\ StoreInv
  BY ListStep DEF AgentInv, ListInv, StoreInv
<1>2. CASE Calls
  <2>1. Idle /\ disk' = disk /\ restarts' = restarts
    BY <1>1, <1>2, CallFrame
  <2>2. disk["agents"] = registry.score /\ (registry.events # <<>> => disk["reputation"] = registry.events)
    BY <2>1, PendingIdle DEF AgentInv
  <2>3. CASE RegisterOp
    <3>1. Pending("agents")' /\ \E m \in Members : Register(m)
      BY <2>3, PendingCall DEF RegisterOp, Call
    <3>2. /\ registry' \in RegistryRecords /\ registry'.events = registry.events
          /\ Scored(registry) => Scored(registry')
      BY <3>1, RegisterScored DEF AgentInv
    <3> QED
      BY <1>1, <2>1, <2>2, <3>1, <3>2 DEF AgentInv
  <2>4. CASE ReputationOp
    <3>1. Pending("agents")' /\ Pending("reputation")' /\ \E m \in Members, d \in Deltas : UpdateReputation(m, d)
      BY <2>4, PendingCall DEF ReputationOp, Call
    <3>2. /\ registry' \in RegistryRecords /\ (Scored(registry) => Scored(registry'))
      BY <3>1, ReputationScored DEF AgentInv
    <3> QED
      BY <1>1, <2>1, <3>1, <3>2 DEF AgentInv
  <2>5. CASE registry' = registry
    BY <1>1, <2>1, <2>2, <2>5 DEF AgentInv
  <2> QED
    BY <1>2, <2>3, <2>4, <2>5, CallsOfParts
<1>3. CASE Put
  <2>1. /\ registry' = registry /\ "agents" \in Keys /\ "reputation" \in Keys /\ restarts' = restarts
        /\ disk'["agents"] = IF "agents" = Head(writes) THEN Image["agents"] ELSE disk["agents"]
        /\ disk'["reputation"] = IF "reputation" = Head(writes) THEN Image["reputation"] ELSE disk["reputation"]
    BY <1>1, <1>3, PutOne, PutKeeps DEF memory, desks, Keys
  <2>2. Image["agents"] = registry.score /\ Image["reputation"] = registry.events
    BY Zenon DEF Image
  <2>3. /\ Pending("agents") => Pending("agents")' \/ "agents" = Head(writes)
        /\ Pending("reputation") => Pending("reputation")' \/ "reputation" = Head(writes)
    BY <1>1, <1>3, PendingPut
  <2>4. registry.score \in [Members -> Scores \cup {Absent}]
    BY RegistryFields DEF AgentInv
  <2> QED
    BY <1>1, <2>1, <2>2, <2>3, <2>4 DEF AgentInv
<1>4. CASE Restart
  <2>1. /\ registry' = [score |-> disk["agents"], events |-> <<>>]
        /\ disk' = disk /\ restarts' = restarts + 1
    BY <1>4 DEF Restart
  <2>2. registry' \in RegistryRecords /\ registry'.events = <<>> /\ registry'.score = disk["agents"]
    BY <2>1 DEF AgentInv, RegistryRecords
  <2>3. restarts' \in Nat /\ restarts' # 0
    BY <2>1 DEF AgentInv
  <2> QED
    BY <1>1, <2>1, <2>2, <2>3 DEF AgentInv
<1>5. CASE Rests
  BY <1>1, <1>5 DEF Rests, memory, desks, AgentInv, Pending
<1> QED
  BY <1>2, <1>3, <1>4, <1>5, StepKinds

-----------------------------------------------------------------------------
(* The oracle: the price it remembers was reported.                         *)

PricePoints == [price : Prices, at : Nat, source : Sources]
OracleRecords ==
  [oracles : [Sources -> Weights \cup {Unknown}], feed : Seq(PricePoints),
   lastValid : Prices \cup {Unknown}]

Reported(o) ==
  o.lastValid # Unknown => \E i \in 1..Len(o.feed) : o.feed[i].price = o.lastValid
Forgetful(o) == [o EXCEPT !.lastValid = Unknown]

OracleInv ==
  /\ ListInv /\ now \in Nat
  /\ oracle \in OracleRecords /\ Reported(oracle)
  /\ disk["oracle"] \in OracleRecords /\ disk["oracle"].lastValid = Unknown
  /\ Pending("oracle") \/ disk["oracle"] = Forgetful(oracle)

\* A record of the oracle by its fields.
LEMMA OracleFields ==
  ASSUME NEW o \in OracleRecords
  PROVE  /\ o = [oracles |-> o.oracles, feed |-> o.feed, lastValid |-> o.lastValid]
         /\ o.oracles \in [Sources -> Weights \cup {Unknown}] /\ o.feed \in Seq(PricePoints)
         /\ o.lastValid \in Prices \cup {Unknown}
  BY DEF OracleRecords

LEMMA ForgetfulIs ==
  ASSUME NEW o \in OracleRecords
  PROVE  /\ Forgetful(o) \in OracleRecords /\ Forgetful(o).lastValid = Unknown
         /\ o.lastValid = Unknown => Forgetful(o) = o
<1>1. ASSUME NEW u, u = Forgetful(o)
      PROVE  u = [oracles |-> o.oracles, feed |-> o.feed, lastValid |-> Unknown]
  BY <1>1, OracleFields DEF Forgetful
<1>2. Forgetful(o) = [oracles |-> o.oracles, feed |-> o.feed, lastValid |-> Unknown]
  BY <1>1
<1>3. Forgetful(o) \in OracleRecords
  BY <1>2, OracleFields DEF OracleRecords
<1>4. o = [oracles |-> o.oracles, feed |-> o.feed, lastValid |-> o.lastValid]
  BY OracleFields
<1> QED
  BY <1>2, <1>3, <1>4

LEMMA OracleInvInit ==
  ASSUME Init
  PROVE  OracleInv
<1>1. oracle = [oracles |-> [m \in Sources |-> Unknown], feed |-> <<>>, lastValid |-> Unknown] /\ now = 0
  BY DEF Init, OracleInit, TokenInit
<1>2. oracle \in OracleRecords /\ oracle.lastValid = Unknown
  <2>1. <<>> \in Seq(PricePoints) /\ [m \in Sources |-> Unknown] \in [Sources -> Weights \cup {Unknown}]
    OBVIOUS
  <2> QED
    BY <1>1, <2>1 DEF OracleRecords
<1>3. disk["oracle"] = Forgetful(oracle)
  BY Zenon DEF Init, Image, Forgetful
<1> QED
  BY <1>1, <1>2, <1>3, ForgetfulIs, ListInit DEF OracleInv, Reported

LEMMA RegisterReported ==
  ASSUME oracle \in OracleRecords, Reported(oracle), NEW m \in Sources, NEW w \in Weights,
         RegisterOracle(m, w)
  PROVE  oracle' \in OracleRecords /\ Reported(oracle')
<1> DEFINE o == [oracle.oracles EXCEPT ![m] = w]
<1>1. oracle' = [oracles |-> o, feed |-> oracle.feed, lastValid |-> oracle.lastValid]
  <2>1. oracle = [oracles |-> oracle.oracles, feed |-> oracle.feed, lastValid |-> oracle.lastValid]
    BY OracleFields
  <2>2. oracle' = [oracle EXCEPT !.oracles = o]
    BY Zenon DEF RegisterOracle
  <2> HIDE DEF o
  <2> QED
    BY <2>1, <2>2
<1>2. o \in [Sources -> Weights \cup {Unknown}]
  BY OracleFields
<1> HIDE DEF o
<1>3. oracle.feed \in Seq(PricePoints) /\ oracle.lastValid \in Prices \cup {Unknown}
  BY OracleFields
<1>4. oracle' \in OracleRecords /\ oracle'.feed = oracle.feed /\ oracle'.lastValid = oracle.lastValid
  BY <1>1, <1>2, <1>3 DEF OracleRecords
<1> QED
  BY <1>4 DEF Reported

LEMMA SubmitReported ==
  ASSUME oracle \in OracleRecords, Reported(oracle), now \in Nat,
         NEW m \in Sources, NEW price \in Prices, SubmitPrice(m, price, now)
  PROVE  oracle' \in OracleRecords /\ Reported(oracle')
<1> DEFINE e == [price |-> price, at |-> now, source |-> m]
           f == Append(oracle.feed, e)
<1>1. oracle' = [oracles |-> oracle.oracles, feed |-> f, lastValid |-> oracle.lastValid]
  <2>1. oracle = [oracles |-> oracle.oracles, feed |-> oracle.feed, lastValid |-> oracle.lastValid]
    BY OracleFields
  <2>2. oracle' = [oracle EXCEPT !.feed = f]
    BY Zenon DEF SubmitPrice
  <2> HIDE DEF f
  <2> QED
    BY <2>1, <2>2
<1>2. e \in PricePoints
  BY DEF PricePoints
<1> HIDE DEF e
<1>3. /\ f \in Seq(PricePoints) /\ Len(f) = Len(oracle.feed) + 1 /\ Len(oracle.feed) \in Nat
      /\ \A i \in 1..Len(oracle.feed) : f[i] = oracle.feed[i]
  <2>1. oracle.feed \in Seq(PricePoints)
    BY OracleFields
  <2> QED
    BY <1>2, <2>1
<1> HIDE DEF f
<1>4. oracle' \in OracleRecords /\ oracle'.feed = f /\ oracle'.lastValid = oracle.lastValid
  <2>1. oracle.oracles \in [Sources -> Weights \cup {Unknown}] /\ oracle.lastValid \in Prices \cup {Unknown}
    BY OracleFields
  <2> QED
    BY <1>1, <1>3, <2>1 DEF OracleRecords
<1>5. ASSUME oracle.lastValid # Unknown PROVE \E i \in 1..Len(f) : f[i].price = oracle.lastValid
  <2>1. PICK i \in 1..Len(oracle.feed) : oracle.feed[i].price = oracle.lastValid
    BY <1>5 DEF Reported
  <2>2. i \in 1..Len(f) /\ f[i] = oracle.feed[i]
    BY <1>3
  <2> QED
    BY <2>1, <2>2
<1> QED
  BY <1>4, <1>5 DEF Reported

\* A median of the points is the price of one of them.
LEMMA MedianReported ==
  ASSUME oracle \in OracleRecords, NEW p \in Prices, NEW S \in SUBSET (1..Len(oracle.feed)), IsMedian(p, S)
  PROVE  \E i \in 1..Len(oracle.feed) : oracle.feed[i].price = p
<1> DEFINE Below == {i \in S : oracle.feed[i].price < p}
           UpTo == {i \in S : oracle.feed[i].price <= p}
           f == [i \in DOMAIN oracle.feed |-> oracle.oracles[oracle.feed[i].source]]
<1>0. Len(oracle.feed) \in Nat /\ DOMAIN oracle.feed = 1..Len(oracle.feed)
  BY OracleFields
<1>1. \A i \in 1..Len(oracle.feed) : oracle.feed[i].source \in Sources /\ oracle.feed[i].price \in Nat
  <2>1. oracle.feed \in Seq(PricePoints)
    BY OracleFields
  <2>2. \A i \in 1..Len(oracle.feed) : oracle.feed[i] \in PricePoints
    BY <2>1
  <2>3. \A e \in PricePoints : e.source \in Sources /\ e.price \in Prices
    BY DEF PricePoints
  <2>4. Prices \subseteq Nat
    BY OracleAssumption
  <2> QED
    BY <2>2, <2>3, <2>4
<1>2. \A i \in 1..Len(oracle.feed) : f[i] \in Int
  <2> SUFFICES ASSUME NEW i \in 1..Len(oracle.feed) PROVE oracle.oracles[oracle.feed[i].source] \in Int
    BY <1>0, Zenon
  <2>1. oracle.oracles[oracle.feed[i].source] \in Weights \cup {Unknown}
    BY <1>1, OracleFields
  <2>2. Weights \subseteq Nat /\ Unknown \in Int
    BY OracleAssumption DEF Unknown
  <2> DEFINE x == oracle.oracles[oracle.feed[i].source]
  <2>3. x \in Weights \cup {Unknown}
    BY <2>1
  <2> HIDE DEF x
  <2>4. x \in Int
    BY <2>2, <2>3
  <2> QED
    BY <2>4 DEF x
<1>3. /\ WeightOf(Below) <= WeightOf(S) \div 2
      /\ WeightOf(S) \div 2 < WeightOf(UpTo)
  BY DEF IsMedian
<1>4. IsFiniteSet(1..Len(oracle.feed))
  BY <1>0, FS_Interval
<1>5. \A T \in SUBSET (1..Len(oracle.feed)) : WeightOf(T) \in Int
  <2> SUFFICES ASSUME NEW T \in SUBSET (1..Len(oracle.feed)) PROVE SumFunctionOnSet(f, T) \in Int
    BY Zenon DEF WeightOf
  <2>1. IsFiniteSet(T) /\ \A y \in T : f[y] \in Int
    BY <1>2, <1>4, FS_Subset
  <2> HIDE DEF f
  <2> QED
    BY <2>1, SumInt
<1>6. WeightOf(Below) \in Int /\ WeightOf(S) \in Int /\ WeightOf(UpTo) \in Int
  <2>1. Below \in SUBSET (1..Len(oracle.feed)) /\ UpTo \in SUBSET (1..Len(oracle.feed))
    OBVIOUS
  <2> HIDE DEF Below, UpTo
  <2> QED
    BY <1>5, <2>1
<1>7. Below # UpTo
  <2>1. WeightOf(S) \div 2 \in Int
    BY <1>6
  <2>2. WeightOf(Below) # WeightOf(UpTo)
    <3> HIDE DEF Below, UpTo
    <3> QED
      BY <1>3, <1>6, <2>1
  <2> QED
    BY <2>2, Zenon
<1>8. p \in Int
  BY OracleAssumption
<1>9. PICK i \in S : oracle.feed[i].price <= p /\ ~(oracle.feed[i].price < p)
  <2>1. ASSUME NEW i \in S, oracle.feed[i].price < p PROVE oracle.feed[i].price <= p
    BY <1>1, <1>8, <2>1
  <2> QED
    BY <1>7, <2>1
<1> DEFINE q == oracle.feed[i].price
<1>10. q \in Int /\ q <= p /\ ~(q < p)
  BY <1>1, <1>9
<1>11. i \in 1..Len(oracle.feed)
  OBVIOUS
<1> HIDE DEF q
<1>12. q = p
  BY <1>8, <1>10
<1> QED
  BY <1>11, <1>12 DEF q

LEMMA PriceReported ==
  ASSUME oracle \in OracleRecords, GetPrice(now)
  PROVE  /\ oracle' \in OracleRecords /\ Reported(oracle') /\ Forgetful(oracle') = Forgetful(oracle)
<1>1. PICK p \in Prices : IsMedian(p, ValidPoints(now)) /\ oracle' = [oracle EXCEPT !.lastValid = p]
  BY DEF GetPrice
<1>2. oracle' = [oracles |-> oracle.oracles, feed |-> oracle.feed, lastValid |-> p]
  BY <1>1, OracleFields
<1>3. /\ oracle' \in OracleRecords /\ oracle'.oracles = oracle.oracles /\ oracle'.feed = oracle.feed
      /\ oracle'.lastValid = p
  <2>1. oracle.oracles \in [Sources -> Weights \cup {Unknown}] /\ oracle.feed \in Seq(PricePoints)
    BY OracleFields
  <2> QED
    BY <1>2, <2>1 DEF OracleRecords
<1>4. ValidPoints(now) \in SUBSET (1..Len(oracle.feed))
  BY OracleFields DEF ValidPoints
<1>5. \E i \in 1..Len(oracle.feed) : oracle.feed[i].price = p
  BY <1>1, <1>4, MedianReported
<1>6. Forgetful(oracle') = Forgetful(oracle)
  <2>1. ASSUME NEW o \in OracleRecords, NEW u, u = Forgetful(o)
        PROVE  u = [oracles |-> o.oracles, feed |-> o.feed, lastValid |-> Unknown]
    BY <2>1, OracleFields DEF Forgetful
  <2>2. \A o \in OracleRecords : Forgetful(o) = [oracles |-> o.oracles, feed |-> o.feed, lastValid |-> Unknown]
    BY <2>1
  <2> QED
    BY <1>3, <2>2
<1> QED
  BY <1>3, <1>5, <1>6 DEF Reported

LEMMA OracleInvStep ==
  ASSUME OracleInv, [Next]_vars
  PROVE  OracleInv'
<1>1. ListInv' /\ client \in Clients /\ StoreInv
  BY ListStep DEF OracleInv, ListInv, StoreInv
<1>2. CASE Calls
  <2>1. Idle /\ disk' = disk /\ now' = now
    BY <1>1, <1>2, CallFrame
  <2>2. disk["oracle"] = Forgetful(oracle)
    BY <2>1, PendingIdle DEF OracleInv
  <2>3. CASE OracleOp
    <3>1. /\ Pending("oracle")'
          /\ \E m \in Sources : \/ \E w \in Weights : RegisterOracle(m, w)
                                \/ \E price \in Prices : SubmitPrice(m, price, now)
      BY <2>3, PendingCall DEF OracleOp, Call
    <3>2. oracle' \in OracleRecords /\ Reported(oracle')
      BY <3>1, RegisterReported, SubmitReported DEF OracleInv
    <3> QED
      BY <1>1, <2>1, <3>1, <3>2 DEF OracleInv
  <2>4. CASE GetPriceOp
    <3>1. oracle' \in OracleRecords /\ Reported(oracle') /\ Forgetful(oracle') = Forgetful(oracle)
      BY <2>4, PriceReported DEF OracleInv, GetPriceOp
    <3> QED
      BY <1>1, <2>1, <2>2, <3>1 DEF OracleInv
  <2>5. CASE oracle' = oracle
    BY <1>1, <2>1, <2>2, <2>5 DEF OracleInv
  <2> QED
    BY <1>2, <2>3, <2>4, <2>5, CallsOfParts
<1>3. CASE Put
  <2>1. /\ oracle' = oracle /\ "oracle" \in Keys /\ now' = now
        /\ disk'["oracle"] = IF "oracle" = Head(writes) THEN Image["oracle"] ELSE disk["oracle"]
    BY <1>1, <1>3, PutOne, PutKeeps DEF memory, desks, Keys
  <2>2. Image["oracle"] = Forgetful(oracle)
    BY Zenon DEF Image, Forgetful
  <2>3. Pending("oracle") => Pending("oracle")' \/ "oracle" = Head(writes)
    BY <1>1, <1>3, PendingPut
  <2>4. Forgetful(oracle) \in OracleRecords /\ Forgetful(oracle).lastValid = Unknown
    BY ForgetfulIs DEF OracleInv
  <2> QED
    BY <1>1, <2>1, <2>2, <2>3, <2>4 DEF OracleInv
<1>4. CASE Restart
  <2>1. oracle' = disk["oracle"] /\ disk' = disk /\ now' = now
    BY <1>4 DEF Restart
  <2>2. disk["oracle"] = Forgetful(disk["oracle"]) /\ Reported(disk["oracle"])
    BY ForgetfulIs DEF OracleInv, Reported
  <2> QED
    BY <1>1, <2>1, <2>2 DEF OracleInv
<1>5. CASE Rests
  <2>1. now' \in Nat /\ UNCHANGED <<oracle, disk, writes>>
    BY <1>5 DEF Rests, memory, desks, OracleInv
  <2> QED
    BY <1>1, <2>1 DEF OracleInv, Pending
<1> QED
  BY <1>2, <1>3, <1>4, <1>5, StepKinds

-----------------------------------------------------------------------------
(* The staking pool: no more is credited than was distributed.              *)

Counted(p) == IF p.state \in {"active", "slashed"} THEN p.amount ELSE 0
InPool(pos) == [a \in Stakers |-> Counted(pos[a])]
Earned(pos) == [a \in Stakers |-> pos[a].reward]

\* No position was slashed after its payout was reported.
Clean(pos, told) == \A a \in Stakers : pos[a].state = "slashed" => told[a] = 0

\* The total is that of the positions in the pool, the rewards fit.
Fits(s) ==
  /\ s.total = SumFunctionOnSet(InPool(s.pos), Stakers)
  /\ SumFunctionOnSet(Earned(s.pos), Stakers) <= s.distributed
  /\ \A a \in Stakers : s.pos[a].state = "none" => s.pos[a].reward = 0

BankInv ==
  /\ PayInv
  /\ Pending("meta") \/ disk["meta"].total = staking.total
  /\ ~torn => \A a \in Stakers : staking.pos[a].state = "withdrawn" => paid[a] = 1 \/ payee = a
  /\ ~torn /\ Clean(staking.pos, paid) =>
       /\ Fits(staking)
       /\ \/ Pending("meta")
          \/ SumFunctionOnSet(Earned(staking.pos), Stakers) <= disk["meta"].distributed

LEMMA PositionOf ==
  ASSUME NEW pos \in Positions, NEW a \in Stakers
  PROVE  /\ pos[a] \in Position
         /\ pos[a].state \in States /\ pos[a].amount \in Nat /\ pos[a].reward \in Int
         /\ Counted(pos[a]) \in Nat
         /\ pos[a] = [state |-> pos[a].state, amount |-> pos[a].amount, reward |-> pos[a].reward]
<1>1. pos[a] \in Position
  BY DEF Positions
<1>2. pos[a].state \in States /\ pos[a].amount \in Nat /\ pos[a].reward \in Int
  BY <1>1 DEF Position
<1>3. Counted(pos[a]) \in Nat
  BY <1>2 DEF Counted
<1>4. pos[a] = [state |-> pos[a].state, amount |-> pos[a].amount, reward |-> pos[a].reward]
  BY <1>1 DEF Position
<1> QED
  BY <1>1, <1>2, <1>3, <1>4

LEMMA PoolSums ==
  ASSUME NEW pos \in Positions
  PROVE  /\ SumFunctionOnSet(InPool(pos), Stakers) \in Nat
         /\ SumFunctionOnSet(Earned(pos), Stakers) \in Int
<1>1. IsFiniteSet(Stakers)
  BY StakingAssumption
<1>2. \A a \in Stakers : InPool(pos)[a] \in Nat /\ Earned(pos)[a] \in Int
  BY PositionOf DEF InPool, Earned
<1> QED
  BY <1>1, <1>2, SumNat, SumInt

\* When one position is replaced, so are its summands.
LEMMA PoolChange ==
  ASSUME NEW pos \in Positions, NEW q \in Positions, NEW a \in Stakers, NEW p,
         q = [pos EXCEPT ![a] = p]
  PROVE  /\ SumFunctionOnSet(InPool(q), Stakers) =
              SumFunctionOnSet(InPool(pos), Stakers) + (Counted(p) - Counted(pos[a]))
         /\ SumFunctionOnSet(Earned(q), Stakers) =
              SumFunctionOnSet(Earned(pos), Stakers) + (p.reward - pos[a].reward)
<1>1. IsFiniteSet(Stakers)
  BY StakingAssumption
<1>2. q[a] = p /\ \A b \in Stakers \ {a} : q[b] = pos[b]
  BY DEF Positions
<1>3. \A b \in Stakers : /\ InPool(pos)[b] \in Int /\ InPool(q)[b] \in Int
                         /\ Earned(pos)[b] \in Int /\ Earned(q)[b] \in Int
  <2> SUFFICES ASSUME NEW b \in Stakers
               PROVE  /\ Counted(pos[b]) \in Int /\ Counted(q[b]) \in Int
                      /\ pos[b].reward \in Int /\ q[b].reward \in Int
    BY Zenon DEF InPool, Earned
  <2>1. Counted(pos[b]) \in Nat /\ Counted(q[b]) \in Nat
    BY PositionOf
  <2>2. pos[b].reward \in Int /\ q[b].reward \in Int
    BY PositionOf
  <2> QED
    BY <2>1, <2>2
<1>4. \A b \in Stakers \ {a} : InPool(pos)[b] = InPool(q)[b] /\ Earned(pos)[b] = Earned(q)[b]
  BY <1>2 DEF InPool, Earned
<1>5. /\ SumFunctionOnSet(InPool(q), Stakers) =
           SumFunctionOnSet(InPool(pos), Stakers) + (InPool(q)[a] - InPool(pos)[a])
      /\ SumFunctionOnSet(Earned(q), Stakers) =
           SumFunctionOnSet(Earned(pos), Stakers) + (Earned(q)[a] - Earned(pos)[a])
  <2>1. ASSUME NEW f, NEW g, \A b \in Stakers : f[b] \in Int /\ g[b] \in Int,
               \A b \in Stakers \ {a} : f[b] = g[b]
        PROVE  SumFunctionOnSet(g, Stakers) = SumFunctionOnSet(f, Stakers) + (g[a] - f[a])
    <3>1. SumFunctionOnSet(g, Stakers) = SumFunctionOnSet(f, Stakers) + g[a] - f[a]
      BY <1>1, <2>1, SumChange
    <3>2. SumFunctionOnSet(f, Stakers) \in Int /\ f[a] \in Int /\ g[a] \in Int
      BY <1>1, <2>1, SumInt
    <3> QED
      BY <3>1, <3>2
  <2>2. (\A b \in Stakers : InPool(pos)[b] \in Int /\ InPool(q)[b] \in Int)
        /\ \A b \in Stakers \ {a} : InPool(pos)[b] = InPool(q)[b]
    BY <1>3, <1>4
  <2>3. (\A b \in Stakers : Earned(pos)[b] \in Int /\ Earned(q)[b] \in Int)
        /\ \A b \in Stakers \ {a} : Earned(pos)[b] = Earned(q)[b]
    BY <1>3, <1>4
  <2>4. SumFunctionOnSet(InPool(q), Stakers) =
           SumFunctionOnSet(InPool(pos), Stakers) + (InPool(q)[a] - InPool(pos)[a])
    BY <2>1, <2>2
  <2>5. SumFunctionOnSet(Earned(q), Stakers) =
           SumFunctionOnSet(Earned(pos), Stakers) + (Earned(q)[a] - Earned(pos)[a])
    BY <2>1, <2>3
  <2> QED
    BY <2>4, <2>5
<1>6. /\ InPool(q)[a] = Counted(p) /\ InPool(pos)[a] = Counted(pos[a])
      /\ Earned(q)[a] = p.reward /\ Earned(pos)[a] = pos[a].reward
  BY <1>2 DEF InPool, Earned
<1> QED
  BY <1>5, <1>6

LEMMA StakeFits ==
  ASSUME staking \in StakingRecords, Fits(staking), NEW a \in Stakers, NEW n \in Stakes, Stake(a, n)
  PROVE  Fits(staking')
<1> DEFINE p == [state |-> "active", amount |-> n, reward |-> 0]
<1>1. /\ staking' \in StakingRecords /\ staking.pos[a].state = "none"
      /\ staking'.pos = [staking.pos EXCEPT ![a] = p]
      /\ staking'.total = staking.total + n /\ staking'.distributed = staking.distributed
  BY StakeStep, StakingAssumption
<1>2. staking.pos \in Positions /\ staking'.pos \in Positions
  BY <1>1 DEF StakingRecords
<1>3. Counted(p) = n /\ p.reward = 0 /\ p.state = "active"
  BY DEF Counted
<1>4. Counted(staking.pos[a]) = 0 /\ staking.pos[a].reward = 0
  BY <1>1 DEF Counted, Fits
<1>5. n \in Nat /\ SumFunctionOnSet(InPool(staking.pos), Stakers) \in Nat
      /\ SumFunctionOnSet(Earned(staking.pos), Stakers) \in Int
  BY <1>2, PoolSums, StakingAssumption
<1> HIDE DEF p
<1>6. /\ SumFunctionOnSet(InPool(staking'.pos), Stakers) =
           SumFunctionOnSet(InPool(staking.pos), Stakers) + (Counted(p) - Counted(staking.pos[a]))
      /\ SumFunctionOnSet(Earned(staking'.pos), Stakers) =
           SumFunctionOnSet(Earned(staking.pos), Stakers) + (p.reward - staking.pos[a].reward)
  BY <1>1, <1>2, PoolChange
<1>7. \A b \in Stakers : staking'.pos[b] = IF b = a THEN p ELSE staking.pos[b]
  BY <1>1, <1>2 DEF Positions
<1>8. \A b \in Stakers : staking'.pos[b].state = "none" => staking'.pos[b].reward = 0
  BY <1>3, <1>7 DEF Fits
<1>9. /\ staking'.total = SumFunctionOnSet(InPool(staking'.pos), Stakers)
      /\ SumFunctionOnSet(Earned(staking'.pos), Stakers) <= staking'.distributed
  BY <1>1, <1>3, <1>4, <1>5, <1>6 DEF Fits
<1> QED
  BY <1>8, <1>9 DEF Fits

LEMMA UnstakeFits ==
  ASSUME staking \in StakingRecords, Fits(staking), NEW a \in Stakers, Unstake(a)
  PROVE  Fits(staking')
<1> DEFINE p == [staking.pos[a] EXCEPT !.state = "withdrawn"]
<1>1. /\ staking' \in StakingRecords /\ staking.pos[a].state = "active"
      /\ staking'.pos = [staking.pos EXCEPT ![a] = p]
      /\ staking'.total = staking.total - staking.pos[a].amount
      /\ staking'.distributed = staking.distributed
  BY UnstakeStep
<1>2. staking.pos \in Positions /\ staking'.pos \in Positions
  BY <1>1 DEF StakingRecords
<1>3. p = [state |-> "withdrawn", amount |-> staking.pos[a].amount, reward |-> staking.pos[a].reward]
  BY <1>2, PositionOf, PositionExcept DEF States
<1>4. Counted(p) = 0 /\ p.reward = staking.pos[a].reward /\ p.state = "withdrawn"
  BY <1>3 DEF Counted
<1>5. Counted(staking.pos[a]) = staking.pos[a].amount
  BY <1>1 DEF Counted
<1>6. /\ SumFunctionOnSet(InPool(staking.pos), Stakers) \in Nat
      /\ SumFunctionOnSet(Earned(staking.pos), Stakers) \in Int
      /\ staking.pos[a].amount \in Nat /\ staking.pos[a].reward \in Int
  BY <1>2, PoolSums, PositionOf
<1> HIDE DEF p
<1>7. /\ SumFunctionOnSet(InPool(staking'.pos), Stakers) =
           SumFunctionOnSet(InPool(staking.pos), Stakers) + (Counted(p) - Counted(staking.pos[a]))
      /\ SumFunctionOnSet(Earned(staking'.pos), Stakers) =
           SumFunctionOnSet(Earned(staking.pos), Stakers) + (p.reward - staking.pos[a].reward)
  BY <1>1, <1>2, PoolChange
<1>8. \A b \in Stakers : staking'.pos[b] = IF b = a THEN p ELSE staking.pos[b]
  BY <1>1, <1>2 DEF Positions
<1>9. \A b \in Stakers : staking'.pos[b].state = "none" => staking'.pos[b].reward = 0
  BY <1>4, <1>8 DEF Fits
<1>10. /\ staking'.total = SumFunctionOnSet(InPool(staking'.pos), Stakers)
       /\ SumFunctionOnSet(Earned(staking'.pos), Stakers) <= staking'.distributed
  BY <1>1, <1>4, <1>5, <1>6, <1>7 DEF Fits
<1> QED
  BY <1>9, <1>10 DEF Fits

\* A position that is slashed while it is in the pool.
LEMMA SlashFits ==
  ASSUME staking \in StakingRecords, Fits(staking), NEW a \in Stakers, NEW percent \in Percents,
         Slash(a, percent), staking.pos[a].state # "withdrawn"
  PROVE  Fits(staking')
<1>1. PICK cut \in 0..staking.pos[a].amount :
        /\ staking'.pos = [staking.pos EXCEPT ![a] =
                             [state |-> "slashed", amount |-> staking.pos[a].amount - cut,
                              reward |-> staking.pos[a].reward]]
        /\ staking'.total = staking.total - cut
  BY SlashStep, StakingAssumption
<1> DEFINE p == [state |-> "slashed", amount |-> staking.pos[a].amount - cut, reward |-> staking.pos[a].reward]
<1>2. staking' \in StakingRecords /\ staking'.distributed = staking.distributed /\ staking.pos[a].state # "none"
  BY SlashStep, StakingAssumption
<1>3. staking.pos \in Positions /\ staking'.pos \in Positions
  BY <1>2 DEF StakingRecords
<1>4. Counted(p) = staking.pos[a].amount - cut /\ p.reward = staking.pos[a].reward /\ p.state = "slashed"
  BY DEF Counted
<1>5. Counted(staking.pos[a]) = staking.pos[a].amount
  BY <1>2, <1>3, PositionOf DEF Counted, States
<1>6. /\ SumFunctionOnSet(InPool(staking.pos), Stakers) \in Nat
      /\ SumFunctionOnSet(Earned(staking.pos), Stakers) \in Int
      /\ staking.pos[a].amount \in Nat /\ staking.pos[a].reward \in Int /\ cut \in Int
  <2>1. staking.pos[a].amount \in Nat /\ staking.pos[a].reward \in Int
    BY <1>3, PositionOf
  <2>2. cut \in Int
    BY <2>1
  <2>3. /\ SumFunctionOnSet(InPool(staking.pos), Stakers) \in Nat
        /\ SumFunctionOnSet(Earned(staking.pos), Stakers) \in Int
    BY <1>3, PoolSums
  <2> QED
    BY <2>1, <2>2, <2>3
<1>7. staking'.pos = [staking.pos EXCEPT ![a] = p]
  BY <1>1
<1> HIDE DEF p
<1>8. /\ SumFunctionOnSet(InPool(staking'.pos), Stakers) =
           SumFunctionOnSet(InPool(staking.pos), Stakers) + (Counted(p) - Counted(staking.pos[a]))
      /\ SumFunctionOnSet(Earned(staking'.pos), Stakers) =
           SumFunctionOnSet(Earned(staking.pos), Stakers) + (p.reward - staking.pos[a].reward)
  BY <1>3, <1>7, PoolChange
<1>9. \A b \in Stakers : staking'.pos[b] = IF b = a THEN p ELSE staking.pos[b]
  BY <1>3, <1>7 DEF Positions
<1>10. \A b \in Stakers : staking'.pos[b].state = "none" => staking'.pos[b].reward = 0
  BY <1>4, <1>9 DEF Fits
<1>11. /\ staking'.total = SumFunctionOnSet(InPool(staking'.pos), Stakers)
       /\ SumFunctionOnSet(Earned(staking'.pos), Stakers) <= staking'.distributed
  BY <1>1, <1>2, <1>4, <1>5, <1>6, <1>8 DEF Fits
<1> QED
  BY <1>10, <1>11 DEF Fits

\* A share is rounded down, so the shares are no more than what is distributed.
LEMMA RoundedDown ==
  ASSUME NEW x \in Int, NEW y \in Int, y > 0
  PROVE  Truncated(x, y) * y <= x
<1>1. x = ((x \div y) * y) + (x % y) /\ (x % y) >= 0 /\ (x \div y) \in Int /\ (x % y) \in Int
  OBVIOUS
<1> QED
  BY <1>1 DEF Truncated

LEMMA RewardFits ==
  ASSUME staking \in StakingRecords, Fits(staking), NEW n \in Rewards, DistributeRewards(n)
  PROVE  Fits(staking')
<1> DEFINE t == staking.total
           share == [b \in Stakers |-> Share(b, n)]
<1>1. /\ staking' \in StakingRecords /\ t # 0 /\ n \in Nat
      /\ \A b \in Stakers :
           /\ Share(b, n) \in Int
           /\ staking'.pos[b] = [state |-> staking.pos[b].state, amount |-> staking.pos[b].amount,
                                 reward |-> staking.pos[b].reward + Share(b, n)]
      /\ staking'.total = t /\ staking'.distributed = staking.distributed + n
  BY RewardStep, StakingAssumption
<1>2. staking.pos \in Positions /\ staking'.pos \in Positions /\ staking.distributed \in Nat
  BY <1>1 DEF StakingRecords
<1>12. \A b \in Stakers :
         /\ staking'.pos[b].state = staking.pos[b].state /\ staking'.pos[b].amount = staking.pos[b].amount
         /\ staking'.pos[b].reward = staking.pos[b].reward + Share(b, n)
  <2> SUFFICES ASSUME NEW b \in Stakers
               PROVE  /\ staking'.pos[b].state = staking.pos[b].state
                      /\ staking'.pos[b].amount = staking.pos[b].amount
                      /\ staking'.pos[b].reward = staking.pos[b].reward + Share(b, n)
    OBVIOUS
  <2> DEFINE p == staking'.pos[b]
             s == staking.pos[b].state
             m == staking.pos[b].amount
             r == staking.pos[b].reward + Share(b, n)
  <2>1. p = [state |-> s, amount |-> m, reward |-> r]
    BY <1>1
  <2> HIDE DEF p, s, m, r
  <2>2. p.state = s /\ p.amount = m /\ p.reward = r
    BY <2>1
  <2> QED
    BY <2>2, Zenon DEF p, s, m, r
<1>3. /\ SumFunctionOnSet(InPool(staking.pos), Stakers) \in Nat
      /\ SumFunctionOnSet(Earned(staking.pos), Stakers) \in Int
      /\ t = SumFunctionOnSet(InPool(staking.pos), Stakers)
      /\ SumFunctionOnSet(Earned(staking.pos), Stakers) <= staking.distributed
  BY <1>2, PoolSums DEF Fits
<1>4. t \in Nat /\ t > 0
  BY <1>1, <1>3
<1>5. IsFiniteSet(Stakers)
  BY StakingAssumption
<1>6. \A b \in Stakers : share[b] \in Int /\ InPool(staking.pos)[b] \in Int /\ share[b] * t <= n * InPool(staking.pos)[b]
  <2> SUFFICES ASSUME NEW b \in Stakers
               PROVE  share[b] \in Int /\ InPool(staking.pos)[b] \in Int /\ share[b] * t <= n * InPool(staking.pos)[b]
    OBVIOUS
  <2> DEFINE c == Counted(staking.pos[b])
  <2>1. InPool(staking.pos)[b] = c /\ share[b] = Share(b, n)
    BY DEF InPool
  <2>2. c \in Nat /\ share[b] \in Int /\ staking.pos[b].amount \in Nat
    BY <1>1, <1>2, PositionOf
  <2>3. n * c \in Nat
    BY <1>1, <2>2
  <2>4. CASE Effective(b) > 0
    <3>1. staking.pos[b].state = "active"
      BY <2>4 DEF Effective
    <3>2. Effective(b) = c
      BY <3>1 DEF Effective, Counted
    <3>3. Share(b, n) = Truncated(n * c, t)
      BY <2>4, <3>2 DEF Share
    <3> HIDE DEF c, t, share
    <3>4. Truncated(n * c, t) * t <= n * c
      BY <1>4, <2>3, RoundedDown
    <3> QED
      BY <2>1, <2>2, <3>3, <3>4
  <2>5. CASE ~(Effective(b) > 0)
    <3>1. Share(b, n) = 0
      BY <2>5 DEF Share
    <3> HIDE DEF c, t, share
    <3>2. 0 * t = 0
      BY <1>4
    <3> QED
      BY <2>1, <2>2, <2>3, <3>1, <3>2
  <2> QED
    BY <2>4, <2>5
<1>7. SumFunctionOnSet(share, Stakers) <= n
  <2>1. SumFunctionOnSet(share, Stakers) \in Int
    <3> HIDE DEF share
    <3> QED
      BY <1>5, <1>6, SumInt
  <2>2. SumFunctionOnSet(share, Stakers) * t <= n * SumFunctionOnSet(InPool(staking.pos), Stakers)
    <3>1. t \in Int /\ n \in Int
      BY <1>1, <1>4
    <3> HIDE DEF share, t
    <3> QED
      BY <1>5, <1>6, <3>1, SumFair
  <2>3. \A x \in Int : x * t <= n * t => x <= n
    <3> HIDE DEF t, share
    <3> SUFFICES ASSUME NEW x \in Int, x * t <= n * t, ~(x <= n) PROVE FALSE
      OBVIOUS
    <3>1. x - n \in Nat /\ x - n > 0
      BY <1>1
    <3>2. (x - n) * t > 0
      BY <1>4, <3>1
    <3>3. (x - n) * t = x * t - n * t /\ x * t \in Int /\ n * t \in Int
      BY <1>1, <1>4
    <3> QED
      BY <3>2, <3>3
  <2> HIDE DEF share, t
  <2> QED
    BY <1>3, <2>1, <2>2, <2>3
<1>8. SumFunctionOnSet(Earned(staking'.pos), Stakers) =
        SumFunctionOnSet(Earned(staking.pos), Stakers) + SumFunctionOnSet(share, Stakers)
  <2>1. \A b \in Stakers : /\ Earned(staking.pos)[b] \in Int /\ share[b] \in Int
                           /\ Earned(staking'.pos)[b] = Earned(staking.pos)[b] + share[b]
    <3> SUFFICES ASSUME NEW b \in Stakers
                 PROVE  /\ staking.pos[b].reward \in Int /\ Share(b, n) \in Int
                        /\ staking'.pos[b].reward = staking.pos[b].reward + Share(b, n)
      BY Zenon DEF Earned
    <3>1. staking.pos[b].reward \in Int
      BY <1>2, PositionOf
    <3>2. Share(b, n) \in Int
      BY <1>1
    <3> QED
      BY <1>12, <3>1, <3>2
  <2> HIDE DEF share
  <2> QED
    BY <1>5, <2>1, SumPlus
<1>9. SumFunctionOnSet(InPool(staking'.pos), Stakers) = SumFunctionOnSet(InPool(staking.pos), Stakers)
  <2>1. \A b \in Stakers : InPool(staking.pos)[b] = InPool(staking'.pos)[b]
    <3> SUFFICES ASSUME NEW b \in Stakers PROVE Counted(staking.pos[b]) = Counted(staking'.pos[b])
      BY Zenon DEF InPool
    <3> QED
      BY <1>12, Zenon DEF Counted
  <2> QED
    BY <1>5, <2>1, SumSame
<1>10. \A b \in Stakers : staking'.pos[b].state = "none" => staking'.pos[b].reward = 0
  <2> SUFFICES ASSUME NEW b \in Stakers, staking'.pos[b].state = "none" PROVE staking'.pos[b].reward = 0
    OBVIOUS
  <2>1. staking.pos[b].state = "none" /\ staking'.pos[b].reward = staking.pos[b].reward + Share(b, n)
    BY <1>12
  <2>2. Share(b, n) = 0 /\ staking.pos[b].reward = 0
    BY <2>1 DEF Share, Effective, Fits
  <2> QED
    BY <2>1, <2>2
<1>11. SumFunctionOnSet(share, Stakers) \in Int
  <2> HIDE DEF share
  <2> QED
    BY <1>5, <1>6, SumInt
<1> HIDE DEF share
<1>13. SumFunctionOnSet(Earned(staking'.pos), Stakers) <= staking'.distributed
  BY <1>1, <1>2, <1>3, <1>7, <1>8, <1>11
<1> QED
  BY <1>1, <1>3, <1>9, <1>10, <1>13 DEF Fits

LEMMA BankInvInit ==
  ASSUME Init
  PROVE  BankInv
<1>1. PayInv
  BY PayInit
<1>2. /\ staking.pos = [a \in Stakers |-> [state |-> "none", amount |-> 0, reward |-> 0]]
      /\ staking.total = 0 /\ staking.distributed = 0
  BY DEF Init, StakingInit
<1>3. disk["meta"].total = staking.total /\ disk["meta"].distributed = staking.distributed
  <2>1. disk["meta"] = [total |-> staking.total, distributed |-> staking.distributed]
    BY DEF Init, Image
  <2> QED
    BY <2>1
<1>4. IsFiniteSet(Stakers)
  BY StakingAssumption
<1>5. \A a \in Stakers : InPool(staking.pos)[a] = 0 /\ Earned(staking.pos)[a] = 0
  BY <1>2 DEF InPool, Earned, Counted
<1>6. /\ SumFunctionOnSet(InPool(staking.pos), Stakers) = 0
      /\ SumFunctionOnSet(Earned(staking.pos), Stakers) = 0
  BY <1>4, <1>5, SumZero
<1>7. \A a \in Stakers : staking.pos[a].state = "none" /\ staking.pos[a].reward = 0
  BY <1>2
<1> QED
  BY <1>1, <1>2, <1>3, <1>6, <1>7 DEF BankInv, Fits

\* What the invariant says at rest.
LEMMA BankIdle ==
  ASSUME BankInv, Idle
  PROVE  /\ payee = Nobody /\ disk["positions"] = staking.pos /\ disk["meta"].total = staking.total
         /\ ~torn => \A a \in Stakers : staking.pos[a].state = "withdrawn" => paid[a] = 1
         /\ ~torn /\ Clean(staking.pos, paid) =>
              /\ Fits(staking)
              /\ SumFunctionOnSet(Earned(staking.pos), Stakers) <= disk["meta"].distributed
<1>1. payee = Nobody /\ disk["positions"] = staking.pos
  BY PayIdle DEF BankInv
<1>2. ~Pending("meta") /\ Nobody \notin Stakers
  BY PendingIdle, NodeAssumption
<1> QED
  BY <1>1, <1>2 DEF BankInv

\* A call that begins the puts of the pool.
LEMMA BankBegin ==
  ASSUME PayInv', Pending("meta")', UNCHANGED <<paid, torn>>,
         ~torn => \A a \in Stakers : staking'.pos[a].state = "withdrawn" => paid[a] = 1 \/ payee' = a,
         ~torn /\ Clean(staking'.pos, paid) => Fits(staking')
  PROVE  BankInv'
  BY DEF BankInv

LEMMA BankCall ==
  ASSUME BankInv, PayInv', Calls, client \in Clients
  PROVE  BankInv'
<1>1. Idle /\ UNCHANGED <<disk, paid, torn>>
  BY CallFrame
<1>2. /\ payee = Nobody /\ disk["positions"] = staking.pos /\ disk["meta"].total = staking.total
      /\ ~torn => \A a \in Stakers : staking.pos[a].state = "withdrawn" => paid[a] = 1
      /\ ~torn /\ Clean(staking.pos, paid) =>
           /\ Fits(staking)
           /\ SumFunctionOnSet(Earned(staking.pos), Stakers) <= disk["meta"].distributed
  BY <1>1, BankIdle
<1>3. staking \in StakingRecords /\ staking.pos \in Positions
  BY DEF BankInv, PayInv, StakingRecords
<1>4. CASE StakingOp
  <2>1. Pending("meta")'
    BY <1>4, PendingCall DEF StakingOp, Call
  <2>2. CASE \E a \in Stakers, n \in Stakes : Stake(a, n)
    <3>1. PICK a \in Stakers, n \in Stakes : Stake(a, n)
      BY <2>2
    <3>2. /\ staking.pos[a].state = "none"
          /\ staking'.pos = [staking.pos EXCEPT ![a] = [state |-> "active", amount |-> n, reward |-> 0]]
      BY <1>3, <3>1, StakeStep, StakingAssumption
    <3>3. \A b \in Stakers : staking'.pos[b].state = IF b = a THEN "active" ELSE staking.pos[b].state
      BY <1>3, <3>2 DEF Positions
    <3>4. Clean(staking'.pos, paid) => Clean(staking.pos, paid)
      BY <3>2, <3>3 DEF Clean
    <3>5. \A b \in Stakers : staking'.pos[b].state = "withdrawn" => staking.pos[b].state = "withdrawn"
      BY <3>3
    <3>6. Fits(staking) => Fits(staking')
      BY <1>3, <3>1, StakeFits
    <3> QED
      BY <1>1, <1>2, <2>1, <3>4, <3>5, <3>6, BankBegin
  <2>3. CASE \E a \in Stakers, percent \in Percents : Slash(a, percent)
    <3>1. PICK a \in Stakers, percent \in Percents : Slash(a, percent)
      BY <2>3
    <3>2. PICK cut \in 0..staking.pos[a].amount :
            staking'.pos = [staking.pos EXCEPT ![a] =
                              [state |-> "slashed", amount |-> staking.pos[a].amount - cut,
                               reward |-> staking.pos[a].reward]]
      BY <1>3, <3>1, SlashStep, StakingAssumption
    <3>3. \A b \in Stakers : staking'.pos[b].state = IF b = a THEN "slashed" ELSE staking.pos[b].state
      BY <1>3, <3>2 DEF Positions
    <3>4. Clean(staking'.pos, paid) => Clean(staking.pos, paid) /\ paid[a] = 0
      BY <3>3 DEF Clean
    <3>5. \A b \in Stakers : staking'.pos[b].state = "withdrawn" => staking.pos[b].state = "withdrawn"
      BY <3>3
    <3>6. ~torn /\ Clean(staking'.pos, paid) => staking.pos[a].state # "withdrawn"
      BY <1>2, <3>4
    <3>7. Fits(staking) /\ staking.pos[a].state # "withdrawn" => Fits(staking')
      BY <1>3, <3>1, SlashFits
    <3> QED
      BY <1>1, <1>2, <2>1, <3>4, <3>5, <3>6, <3>7, BankBegin
  <2>4. CASE \E n \in Rewards : DistributeRewards(n)
    <3>1. PICK n \in Rewards : DistributeRewards(n)
      BY <2>4
    <3>2. \A b \in Stakers :
            staking'.pos[b] = [state |-> staking.pos[b].state, amount |-> staking.pos[b].amount,
                               reward |-> staking.pos[b].reward + Share(b, n)]
      BY <1>3, <3>1, RewardStep, StakingAssumption
    <3>3. \A b \in Stakers : staking'.pos[b].state = staking.pos[b].state
      <4> SUFFICES ASSUME NEW b \in Stakers PROVE staking'.pos[b].state = staking.pos[b].state
        OBVIOUS
      <4> DEFINE p == staking'.pos[b]
                 s == staking.pos[b].state
                 m == staking.pos[b].amount
                 r == staking.pos[b].reward + Share(b, n)
      <4>1. p = [state |-> s, amount |-> m, reward |-> r]
        BY <3>2
      <4> HIDE DEF p, s, m, r
      <4>2. p.state = s
        BY <4>1
      <4> QED
        BY <4>2 DEF p, s
    <3>4. Clean(staking'.pos, paid) => Clean(staking.pos, paid)
      BY <3>3 DEF Clean
    <3>5. Fits(staking) => Fits(staking')
      BY <1>3, <3>1, RewardFits
    <3> QED
      BY <1>1, <1>2, <2>1, <3>3, <3>4, <3>5, BankBegin
  <2> QED
    BY <1>4, <2>2, <2>3, <2>4 DEF StakingOp
<1>5. CASE RewardsToNobody
  <2>1. PICK n \in Rewards : DistributeRewards(n)
    BY <1>5 DEF RewardsToNobody
  <2>2. staking'.pos = staking.pos /\ staking'.total = staking.total
    BY <1>3, <1>5, <2>1, RewardStep, StakingAssumption DEF RewardsToNobody
  <2>3. Fits(staking) => Fits(staking')
    BY <1>3, <2>1, RewardFits
  <2>4. payee' = payee
    BY <1>5 DEF RewardsToNobody
  <2> QED
    BY <1>1, <1>2, <2>2, <2>3, <2>4 DEF BankInv
<1>6. CASE UnstakeOp
  <2>1. Pending("meta")'
    BY <1>6, PendingCall DEF UnstakeOp, Call
  <2>2. PICK a \in Stakers : Unstake(a) /\ payee' = a
    BY <1>6 DEF UnstakeOp
  <2>3. staking'.pos = [staking.pos EXCEPT ![a] = [staking.pos[a] EXCEPT !.state = "withdrawn"]]
        /\ staking.pos[a].state = "active"
    BY <1>3, <2>2, UnstakeStep
  <2>4. [staking.pos[a] EXCEPT !.state = "withdrawn"].state = "withdrawn"
    BY <1>3, PositionOf, PositionExcept DEF States
  <2>5. \A b \in Stakers : staking'.pos[b].state = IF b = a THEN "withdrawn" ELSE staking.pos[b].state
    BY <1>3, <2>3, <2>4 DEF Positions
  <2>6. Clean(staking'.pos, paid) => Clean(staking.pos, paid)
    BY <2>3, <2>5 DEF Clean
  <2>7. Fits(staking) => Fits(staking')
    BY <1>3, <2>2, UnstakeFits
  <2>8. ~torn => \A b \in Stakers : staking'.pos[b].state = "withdrawn" => paid[b] = 1 \/ payee' = b
    BY <1>2, <2>2, <2>5
  <2> QED
    BY <1>1, <1>2, <2>1, <2>6, <2>7, <2>8, BankBegin
<1>7. CASE UNCHANGED <<staking, payee>>
  BY <1>1, <1>2, <1>7 DEF BankInv
<1> QED
  BY <1>4, <1>5, <1>6, <1>7, CallsOfParts

LEMMA BankPut ==
  ASSUME BankInv, PayInv', Put
  PROVE  BankInv'
<1>1. StoreInv /\ PayInv /\ paid \in [Stakers -> Nat]
  BY DEF BankInv, PayInv, ListInv
<1>2. /\ staking' = staking /\ "meta" \in Keys /\ torn' = torn
      /\ disk'["meta"] = IF "meta" = Head(writes) THEN Image["meta"] ELSE disk["meta"]
  BY <1>1, PutOne, PutKeeps DEF memory, Keys
<1>3. Image["meta"].total = staking.total /\ Image["meta"].distributed = staking.distributed
  BY DEF Image
<1>4. Pending("meta") => Pending("meta")' \/ "meta" = Head(writes)
  BY <1>1, PendingPut
<1>5. /\ \A a \in Stakers : paid[a] = 1 \/ payee = a => paid'[a] = 1 \/ payee' = a
      /\ \A a \in Stakers : paid'[a] = 0 => paid[a] = 0
  <2>1. CASE payee # Nobody /\ Tail(writes) = <<>>
    <3>1. payee' = Nobody /\ paid' = [paid EXCEPT ![payee] = @ + 1] /\ payee \in Stakers /\ paid[payee] = 0
      BY <1>1, <2>1 DEF Put, PayInv
    <3>2. \A a \in Stakers : paid'[a] = IF a = payee THEN 1 ELSE paid[a]
      BY <1>1, <3>1
    <3> QED
      BY <3>1, <3>2
  <2>2. CASE ~(payee # Nobody /\ Tail(writes) = <<>>)
    BY <2>2 DEF Put
  <2> QED
    BY <2>1, <2>2
<1>6. Clean(staking.pos, paid') => Clean(staking.pos, paid)
  BY <1>5 DEF Clean
<1>7. Pending("meta")' \/ disk'["meta"].total = staking.total
  BY <1>2, <1>3, <1>4 DEF BankInv
<1>8. ~torn => \A a \in Stakers : staking.pos[a].state = "withdrawn" => paid'[a] = 1 \/ payee' = a
  BY <1>5 DEF BankInv
<1>9. ASSUME ~torn, Clean(staking.pos, paid')
      PROVE  /\ Fits(staking)
             /\ \/ Pending("meta")'
                \/ SumFunctionOnSet(Earned(staking.pos), Stakers) <= disk'["meta"].distributed
  <2>1. Fits(staking)
    BY <1>6, <1>9 DEF BankInv
  <2>2. SumFunctionOnSet(Earned(staking.pos), Stakers) <= staking.distributed
    BY <2>1 DEF Fits
  <2>3. Pending("meta") \/ SumFunctionOnSet(Earned(staking.pos), Stakers) <= disk["meta"].distributed
    BY <1>6, <1>9 DEF BankInv
  <2> QED
    BY <1>2, <1>3, <1>4, <2>1, <2>2, <2>3
<1> QED
  BY <1>2, <1>7, <1>8, <1>9 DEF BankInv

LEMMA BankInvStep ==
  ASSUME BankInv, [Next]_vars
  PROVE  BankInv'
<1>1. PayInv' /\ client \in Clients
  BY PayStep DEF BankInv, PayInv, ListInv, StoreInv
<1>2. CASE Calls
  BY <1>1, <1>2, BankCall
<1>3. CASE Put
  BY <1>1, <1>3, BankPut
<1>4. CASE Restart
  <2>1. /\ staking' = [pos |-> disk["positions"], total |-> disk["meta"].total,
                       distributed |-> disk["meta"].distributed]
        /\ disk' = disk /\ paid' = paid /\ payee' = Nobody /\ (~torn' => ~torn /\ Idle)
    BY <1>4 DEF Restart
  <2>2. /\ staking'.pos = disk["positions"] /\ staking'.total = disk["meta"].total
        /\ staking'.distributed = disk["meta"].distributed
    BY <2>1
  <2>3. ASSUME ~torn'
        PROVE  /\ staking'.pos = staking.pos /\ staking'.total = staking.total
               /\ \A a \in Stakers : staking.pos[a].state = "withdrawn" => paid[a] = 1
    BY <2>1, <2>2, <2>3, BankIdle
  <2>4. ASSUME ~torn', Clean(staking.pos, paid)
        PROVE  /\ Fits(staking') 
               /\ SumFunctionOnSet(Earned(staking'.pos), Stakers) <= disk["meta"].distributed
    <3>1. Fits(staking) /\ SumFunctionOnSet(Earned(staking.pos), Stakers) <= disk["meta"].distributed
      BY <2>1, <2>4, BankIdle
    <3> QED
      BY <2>2, <2>3, <2>4, <3>1 DEF Fits
  <2> QED
    BY <1>1, <2>1, <2>2, <2>3, <2>4 DEF BankInv
<1>5. CASE Rests
  BY <1>1, <1>5 DEF Rests, memory, BankInv, Pending
<1> QED
  BY <1>2, <1>3, <1>4, <1>5, StepKinds

-----------------------------------------------------------------------------
(* The mempool: until the first restart it is listed by fee.                *)

\* A place in a sequence for an entry.
Slot(T, s, i, e) == s \in Seq(T) /\ i \in 1..(Len(s) + 1) /\ e \in T

LEMMA InsertAtIs ==
  ASSUME NEW T, NEW s, NEW i, NEW e, Slot(T, s, i, e)
  PROVE  /\ InsertAt(s, i, e) \in Seq(T) /\ Len(InsertAt(s, i, e)) = Len(s) + 1
         /\ \A j \in 1..(Len(s) + 1) :
              InsertAt(s, i, e)[j] = IF j < i THEN s[j] ELSE IF j = i THEN e ELSE s[j - 1]
<1> DEFINE a == SubSeq(s, 1, i - 1)
           b == SubSeq(s, i, Len(s))
           c == a \o <<e>>
<1>1. Len(s) \in Nat /\ i \in Nat /\ s \in Seq(T) /\ i \in 1..(Len(s) + 1) /\ e \in T
  BY DEF Slot
<1>2. /\ a \in Seq(T) /\ Len(a) = i - 1 /\ \A j \in 1..(i - 1) : a[j] = s[j]
      /\ b \in Seq(T) /\ Len(b) = (Len(s) - i) + 1 /\ \A j \in 1..((Len(s) - i) + 1) : b[j] = s[(i + j) - 1]
  BY <1>1
<1>3. <<e>> \in Seq(T) /\ Len(<<e>>) = 1 /\ <<e>>[1] = e
  BY <1>1
<1> HIDE DEF a, b
<1>4. /\ c \in Seq(T) /\ Len(c) = i /\ c[i] = e /\ \A j \in 1..(i - 1) : c[j] = s[j]
  <2> DEFINE x == <<e>>
  <2>1. x \in Seq(T) /\ Len(x) = 1 /\ x[1] = e
    BY <1>3
  <2> HIDE DEF x
  <2>2. /\ a \o x \in Seq(T) /\ Len(a \o x) = Len(a) + Len(x)
        /\ \A j \in 1..(Len(a) + Len(x)) : (a \o x)[j] = IF j <= Len(a) THEN a[j] ELSE x[j - Len(a)]
    BY <1>2, <2>1, ConcatProperties
  <2> DEFINE d == a \o x
  <2>3. d \in Seq(T) /\ Len(d) = i /\ \A j \in 1..i : d[j] = IF j <= i - 1 THEN a[j] ELSE x[j - (i - 1)]
    BY <1>1, <1>2, <2>1, <2>2
  <2> HIDE DEF d
  <2>4. i \in 1..i /\ ~(i <= i - 1) /\ i - (i - 1) = 1
    BY <1>1
  <2>5. d[i] = e
    BY <2>1, <2>3, <2>4
  <2>6. \A j \in 1..(i - 1) : d[j] = s[j]
    <3> SUFFICES ASSUME NEW j \in 1..(i - 1) PROVE d[j] = s[j]
      OBVIOUS
    <3>1. j \in 1..i /\ j <= i - 1
      BY <1>1
    <3> QED
      BY <1>2, <2>3, <3>1
  <2> QED
    BY <2>3, <2>5, <2>6 DEF d, x
<1> HIDE DEF c
<1>5. /\ c \o b \in Seq(T) /\ Len(c \o b) = Len(s) + 1
      /\ \A j \in 1..(Len(s) + 1) : (c \o b)[j] = IF j <= i THEN c[j] ELSE b[j - i]
  BY <1>1, <1>2, <1>4
<1>6. \A j \in 1..(Len(s) + 1) : (c \o b)[j] = IF j < i THEN s[j] ELSE IF j = i THEN e ELSE s[j - 1]
  <2> SUFFICES ASSUME NEW j \in 1..(Len(s) + 1)
               PROVE  (c \o b)[j] = IF j < i THEN s[j] ELSE IF j = i THEN e ELSE s[j - 1]
    OBVIOUS
  <2>1. CASE j < i
    BY <1>1, <1>4, <1>5, <2>1
  <2>2. CASE j = i
    BY <1>4, <1>5, <2>2
  <2>3. CASE j > i
    <3>1. j - i \in 1..((Len(s) - i) + 1) /\ (i + (j - i)) - 1 = j - 1
      BY <1>1, <2>3
    <3>2. b[j - i] = s[j - 1]
      BY <1>2, <3>1
    <3> QED
      BY <1>1, <1>5, <2>3, <3>2
  <2>4. j \in Int /\ i \in Int
    BY <1>1
  <2>5. j < i \/ j = i \/ j > i
    BY <2>4
  <2> QED
    BY <2>1, <2>2, <2>3, <2>5, Zenon
<1> QED
  BY <1>5, <1>6 DEF InsertAt, a, b, c


LEMMA RemoveAtIs ==
  ASSUME NEW T, NEW s \in Seq(T), NEW i \in 1..Len(s)
  PROVE  /\ RemoveAt(s, i) \in Seq(T) /\ Len(RemoveAt(s, i)) = Len(s) - 1
         /\ \A j \in 1..(Len(s) - 1) : RemoveAt(s, i)[j] = IF j < i THEN s[j] ELSE s[j + 1]
<1> DEFINE a == SubSeq(s, 1, i - 1)
           b == SubSeq(s, i + 1, Len(s))
<1>1. Len(s) \in Nat /\ i \in Nat
  OBVIOUS
<1>2. /\ a \in Seq(T) /\ Len(a) = i - 1 /\ \A j \in 1..(i - 1) : a[j] = s[j]
      /\ b \in Seq(T) /\ Len(b) = Len(s) - i /\ \A j \in 1..(Len(s) - i) : b[j] = s[i + j]
  BY <1>1
<1> HIDE DEF a, b
<1>3. /\ a \o b \in Seq(T) /\ Len(a \o b) = Len(s) - 1
      /\ \A j \in 1..(Len(s) - 1) : (a \o b)[j] = IF j <= i - 1 THEN a[j] ELSE b[j - (i - 1)]
  <2>1. /\ a \o b \in Seq(T) /\ Len(a \o b) = Len(a) + Len(b)
        /\ \A j \in 1..(Len(a) + Len(b)) : (a \o b)[j] = IF j <= Len(a) THEN a[j] ELSE b[j - Len(a)]
    BY <1>2, ConcatProperties
  <2>2. Len(a) + Len(b) = Len(s) - 1 /\ Len(a) = i - 1
    BY <1>1, <1>2
  <2> QED
    BY <2>1, <2>2
<1>4. \A j \in 1..(Len(s) - 1) : (a \o b)[j] = IF j < i THEN s[j] ELSE s[j + 1]
  <2> SUFFICES ASSUME NEW j \in 1..(Len(s) - 1)
               PROVE  (a \o b)[j] = IF j < i THEN s[j] ELSE s[j + 1]
    OBVIOUS
  <2>1. CASE j < i
    BY <1>1, <1>2, <1>3, <2>1
  <2>2. CASE ~(j < i)
    <3>1. j - (i - 1) \in 1..(Len(s) - i) /\ i + (j - (i - 1)) = j + 1
      BY <1>1, <2>2
    <3>2. b[j - (i - 1)] = s[j + 1]
      BY <1>2, <3>1
    <3> QED
      BY <1>1, <1>3, <2>2, <3>2
  <2> QED
    BY <2>1, <2>2
<1> QED
  BY <1>3, <1>4 DEF RemoveAt, a, b

LEMMA FrontIs ==
  ASSUME NEW T, NEW s \in Seq(T), s # <<>>
  PROVE  /\ Len(s) \in Nat /\ Len(s) >= 1 /\ Last(s) = s[Len(s)] /\ Last(s) \in T
         /\ Front(s) \in Seq(T) /\ Len(Front(s)) = Len(s) - 1
         /\ \A j \in 1..(Len(s) - 1) : Front(s)[j] = s[j]
<1>1. Len(s) \in Nat /\ Len(s) >= 1
  OBVIOUS
<1>2. Last(s) = s[Len(s)] /\ Last(s) \in T
  BY <1>1 DEF Last
<1>3. /\ Front(s) \in Seq(T) /\ Len(Front(s)) = Len(s) - 1
      /\ \A j \in 1..(Len(s) - 1) : Front(s)[j] = s[j]
  BY <1>1 DEF Front
<1> QED
  BY <1>1, <1>2, <1>3

Senders == {Sender[t] : t \in Txs}
PoolRecords ==
  [txs : SUBSET Txs, byFee : Seq(Txs), negFees : Seq(Nat), byAgent : SUBSET Txs, known : SUBSET Senders,
   plain : BOOLEAN, raised : BOOLEAN]

\* A mempool that is well formed: no fee without an entry.
PoolOK(p) == p \in PoolRecords /\ Len(p.negFees) <= Len(p.byFee) /\ IsFiniteSet(p.txs)

\* The entries are the transactions, once each, beside their fees, the best first.
Lists(byFee, negFees, txs) ==
  /\ Len(negFees) = Len(byFee) /\ Cardinality(txs) = Len(byFee)
  /\ \A i \in 1..Len(byFee) : negFees[i] = Fee[byFee[i]] /\ byFee[i] \in txs
  /\ \A t \in txs : \E i \in 1..Len(byFee) : byFee[i] = t
  /\ \A i, j \in 1..Len(byFee) : i < j => negFees[i] >= negFees[j] /\ byFee[i] # byFee[j]

Ordered(p) ==
  /\ PoolOK(p) /\ ~p.plain /\ ~p.raised /\ p.byAgent = p.txs
  /\ Lists(p.byFee, p.negFees, p.txs)

\* A mempool by its fields.
LEMMA PoolFields ==
  ASSUME NEW p \in PoolRecords
  PROVE  /\ p = [txs |-> p.txs, byFee |-> p.byFee, negFees |-> p.negFees, byAgent |-> p.byAgent,
                 known |-> p.known, plain |-> p.plain, raised |-> p.raised]
         /\ p.txs \in SUBSET Txs /\ p.byFee \in Seq(Txs) /\ p.negFees \in Seq(Nat)
         /\ p.byAgent \in SUBSET Txs /\ p.known \in SUBSET Senders /\ p.plain \in BOOLEAN
         /\ p.raised \in BOOLEAN
         /\ Len(p.byFee) \in Nat /\ Len(p.negFees) \in Nat
         /\ DOMAIN p.byFee = 1..Len(p.byFee) /\ DOMAIN p.negFees = 1..Len(p.negFees)
<1>1. /\ p = [txs |-> p.txs, byFee |-> p.byFee, negFees |-> p.negFees, byAgent |-> p.byAgent,
              known |-> p.known, plain |-> p.plain, raised |-> p.raised]
      /\ p.txs \in SUBSET Txs /\ p.byFee \in Seq(Txs) /\ p.negFees \in Seq(Nat)
      /\ p.byAgent \in SUBSET Txs /\ p.known \in SUBSET Senders /\ p.plain \in BOOLEAN
      /\ p.raised \in BOOLEAN
  BY DEF PoolRecords
<1>2. /\ Len(p.byFee) \in Nat /\ Len(p.negFees) \in Nat
      /\ DOMAIN p.byFee = 1..Len(p.byFee) /\ DOMAIN p.negFees = 1..Len(p.negFees)
  BY <1>1
<1> QED
  BY <1>1, <1>2

\* What a mempool is made of.
MadeOf(p, a, b, c, d, e, f, g) ==
  /\ a \in SUBSET Txs /\ b \in Seq(Txs) /\ c \in Seq(Nat) /\ d \in SUBSET Txs
  /\ e \in SUBSET Senders /\ f \in BOOLEAN /\ g \in BOOLEAN
  /\ p = [txs |-> a, byFee |-> b, negFees |-> c, byAgent |-> d, known |-> e, plain |-> f, raised |-> g]

LEMMA PoolRecord ==
  ASSUME NEW p, NEW a, NEW b, NEW c, NEW d, NEW e, NEW f, NEW g, MadeOf(p, a, b, c, d, e, f, g)
  PROVE  /\ p \in PoolRecords /\ p.txs = a /\ p.byFee = b /\ p.negFees = c /\ p.byAgent = d
         /\ p.known = e /\ p.plain = f /\ p.raised = g
  BY DEF PoolRecords, MadeOf

\* The four ends of a removal.
RemovedTo(p, tx, byFee, negFees, byAgent, raised) ==
  [txs |-> p.txs \ {tx}, byFee |-> byFee, negFees |-> negFees, byAgent |-> byAgent,
   known |-> p.known, plain |-> p.plain, raised |-> raised]

LEMMA RemovedIs ==
  ASSUME NEW p \in PoolRecords, NEW tx
  PROVE  \/ Removed(p, tx) = p /\ (p.raised \/ tx \notin p.txs)
         \/ /\ ~p.raised /\ tx \in p.txs
            /\ \E i \in 1..Len(p.byFee) :
                 /\ p.byFee[i] = tx /\ i \notin 1..Len(p.negFees)
                 /\ Removed(p, tx) = RemovedTo(p, tx, RemoveAt(p.byFee, i), p.negFees, p.byAgent, TRUE)
         \/ /\ ~p.raised /\ tx \in p.txs /\ \A i \in 1..Len(p.byFee) : p.byFee[i] # tx
            /\ Removed(p, tx) = RemovedTo(p, tx, p.byFee, p.negFees, p.byAgent \ {tx}, tx \notin p.byAgent)
         \/ /\ ~p.raised /\ tx \in p.txs
            /\ \E i \in 1..Len(p.byFee) :
                 /\ p.byFee[i] = tx /\ i \in 1..Len(p.negFees)
                 /\ Removed(p, tx) = RemovedTo(p, tx, RemoveAt(p.byFee, i), RemoveAt(p.negFees, i),
                                               p.byAgent \ {tx}, tx \notin p.byAgent)
<1> DEFINE at == {i \in DOMAIN p.byFee : p.byFee[i] = tx}
           k == CHOOSE i \in at : TRUE
           q == [p EXCEPT !.txs = @ \ {tx}]
<1>1. /\ p = [txs |-> p.txs, byFee |-> p.byFee, negFees |-> p.negFees, byAgent |-> p.byAgent,
              known |-> p.known, plain |-> p.plain, raised |-> p.raised]
      /\ DOMAIN p.byFee = 1..Len(p.byFee) /\ DOMAIN p.negFees = 1..Len(p.negFees)
  BY PoolFields
<1>2. at # {} => k \in 1..Len(p.byFee) /\ p.byFee[k] = tx
  BY <1>1
<1>3. q = [txs |-> p.txs \ {tx}, byFee |-> p.byFee, negFees |-> p.negFees, byAgent |-> p.byAgent,
           known |-> p.known, plain |-> p.plain, raised |-> p.raised]
  <2> DEFINE x == p.txs \ {tx}
  <2>1. q = [p EXCEPT !.txs = x]
    OBVIOUS
  <2> HIDE DEF x, q
  <2>2. q = [txs |-> x, byFee |-> p.byFee, negFees |-> p.negFees, byAgent |-> p.byAgent,
             known |-> p.known, plain |-> p.plain, raised |-> p.raised]
    BY <1>1, <2>1
  <2> QED
    BY <2>2 DEF x
<1>4. Removed(p, tx) =
        IF p.raised \/ tx \notin p.txs THEN p
        ELSE IF at # {} /\ k \notin DOMAIN p.negFees
        THEN [q EXCEPT !.byFee = RemoveAt(@, k), !.raised = TRUE]
        ELSE LET r == IF at = {} THEN q
                      ELSE [q EXCEPT !.byFee = RemoveAt(@, k), !.negFees = RemoveAt(@, k)]
             IN  [r EXCEPT !.raised = tx \notin r.byAgent, !.byAgent = @ \ {tx}]
  BY Zenon DEF Removed
<1>5. at = {} => \A i \in 1..Len(p.byFee) : p.byFee[i] # tx
  BY <1>1
<1> HIDE DEF at, k, q
<1>6. CASE p.raised \/ tx \notin p.txs
  BY <1>4, <1>6
<1>7. CASE ~p.raised /\ tx \in p.txs /\ at # {} /\ k \notin DOMAIN p.negFees
  <2>1. Removed(p, tx) = [q EXCEPT !.byFee = RemoveAt(@, k), !.raised = TRUE]
    BY <1>4, <1>7, Zenon
  <2>2. Removed(p, tx) = RemovedTo(p, tx, RemoveAt(p.byFee, k), p.negFees, p.byAgent, TRUE)
    BY <1>3, <2>1 DEF RemovedTo
  <2> QED
    BY <1>1, <1>2, <1>7, <2>2
<1>8. CASE ~p.raised /\ tx \in p.txs /\ at = {}
  <2>1. Removed(p, tx) = [q EXCEPT !.raised = tx \notin q.byAgent, !.byAgent = @ \ {tx}]
    BY <1>4, <1>8, Zenon
  <2>2. q.byAgent = p.byAgent
    BY <1>3
  <2>3. Removed(p, tx) = RemovedTo(p, tx, p.byFee, p.negFees, p.byAgent \ {tx}, tx \notin p.byAgent)
    BY <1>3, <2>1, <2>2 DEF RemovedTo
  <2> QED
    BY <1>5, <1>8, <2>3
<1>9. CASE ~p.raised /\ tx \in p.txs /\ at # {} /\ k \in DOMAIN p.negFees
  <2> DEFINE r == [q EXCEPT !.byFee = RemoveAt(@, k), !.negFees = RemoveAt(@, k)]
  <2>1. Removed(p, tx) = [r EXCEPT !.raised = tx \notin r.byAgent, !.byAgent = @ \ {tx}]
    BY <1>4, <1>9, Zenon
  <2>2. r = [txs |-> p.txs \ {tx}, byFee |-> RemoveAt(p.byFee, k), negFees |-> RemoveAt(p.negFees, k),
             byAgent |-> p.byAgent, known |-> p.known, plain |-> p.plain, raised |-> p.raised]
    <3> DEFINE x == p.txs \ {tx}
               b == RemoveAt(p.byFee, k)
               c == RemoveAt(p.negFees, k)
    <3>1. q = [txs |-> x, byFee |-> p.byFee, negFees |-> p.negFees, byAgent |-> p.byAgent,
               known |-> p.known, plain |-> p.plain, raised |-> p.raised]
      BY <1>3
    <3> HIDE DEF x
    <3>2. q.byFee = p.byFee /\ q.negFees = p.negFees
      BY <3>1
    <3>3. r = [q EXCEPT !.byFee = b, !.negFees = c]
      BY <3>2, Zenon
    <3> HIDE DEF b, c, r
    <3>4. r = [txs |-> x, byFee |-> b, negFees |-> c, byAgent |-> p.byAgent,
               known |-> p.known, plain |-> p.plain, raised |-> p.raised]
      BY <3>1, <3>3
    <3> QED
      BY <3>4 DEF x, b, c
  <2> HIDE DEF r
  <2>3. r.byAgent = p.byAgent
    BY <2>2
  <2>4. Removed(p, tx) = RemovedTo(p, tx, RemoveAt(p.byFee, k), RemoveAt(p.negFees, k),
                                   p.byAgent \ {tx}, tx \notin p.byAgent)
    BY <2>1, <2>2, <2>3 DEF RemovedTo
  <2> QED
    BY <1>1, <1>2, <1>9, <2>4
<1> QED
  BY <1>6, <1>7, <1>8, <1>9

\* What the lists may be.
Ends(p, b, c, d, g) ==
  /\ p \in PoolRecords /\ IsFiniteSet(p.txs)
  /\ b \in Seq(Txs) /\ c \in Seq(Nat) /\ d \in SUBSET Txs /\ g \in BOOLEAN /\ Len(c) <= Len(b)

LEMMA RemovedToIs ==
  ASSUME NEW p, NEW tx, NEW b, NEW c, NEW d, NEW g, Ends(p, b, c, d, g),
         NEW r, r = RemovedTo(p, tx, b, c, d, g)
  PROVE  /\ PoolOK(r) /\ r.txs = p.txs \ {tx} /\ r.byFee = b /\ r.negFees = c /\ r.byAgent = d
         /\ r.plain = p.plain /\ r.raised = g
<1>0. /\ p \in PoolRecords /\ IsFiniteSet(p.txs)
      /\ b \in Seq(Txs) /\ c \in Seq(Nat) /\ d \in SUBSET Txs /\ g \in BOOLEAN /\ Len(c) <= Len(b)
  BY Zenon DEF Ends
<1>1. p.txs \ {tx} \in SUBSET Txs /\ p.known \in SUBSET Senders /\ p.plain \in BOOLEAN
  BY <1>0, PoolFields
<1>2. /\ r \in PoolRecords /\ r.txs = p.txs \ {tx} /\ r.byFee = b /\ r.negFees = c /\ r.byAgent = d
      /\ r.plain = p.plain /\ r.raised = g
  <2> DEFINE a == p.txs \ {tx}
             e == p.known
             f == p.plain
  <2>1. /\ r = [txs |-> a, byFee |-> b, negFees |-> c, byAgent |-> d, known |-> e, plain |-> f,
                raised |-> g]
        /\ a \in SUBSET Txs /\ e \in SUBSET Senders /\ f \in BOOLEAN
    BY <1>1 DEF RemovedTo
  <2> HIDE DEF a, e, f
  <2>2. /\ r \in PoolRecords /\ r.txs = a /\ r.byFee = b /\ r.negFees = c /\ r.byAgent = d
        /\ r.plain = f /\ r.raised = g
    BY <1>0, <2>1 DEF PoolRecords
  <2> QED
    BY <2>2 DEF a, f
<1>3. IsFiniteSet(p.txs \ {tx})
  BY <1>0, FS_RemoveElement
<1> QED
  BY <1>0, <1>2, <1>3 DEF PoolOK

LEMMA RemovedOK ==
  ASSUME NEW p, PoolOK(p), NEW tx \in Txs
  PROVE  PoolOK(Removed(p, tx))
<1> DEFINE u == Removed(p, tx)
<1>1. p \in PoolRecords /\ Len(p.negFees) <= Len(p.byFee) /\ IsFiniteSet(p.txs)
  BY DEF PoolOK
<1>2. /\ p.byFee \in Seq(Txs) /\ p.negFees \in Seq(Nat) /\ p.byAgent \in SUBSET Txs
      /\ p.byAgent \ {tx} \in SUBSET Txs /\ Len(p.byFee) \in Nat /\ Len(p.negFees) \in Nat
  BY <1>1, PoolFields
<1>3. \A i \in 1..Len(p.byFee) : RemoveAt(p.byFee, i) \in Seq(Txs) /\ Len(RemoveAt(p.byFee, i)) = Len(p.byFee) - 1
  BY <1>2, RemoveAtIs
<1>4. \A i \in 1..Len(p.negFees) : RemoveAt(p.negFees, i) \in Seq(Nat) /\ Len(RemoveAt(p.negFees, i)) = Len(p.negFees) - 1
  BY <1>2, RemoveAtIs
<1> HIDE DEF u
<1>5. CASE u = p
  BY <1>5 DEF u
<1>6. ASSUME NEW b \in Seq(Txs), NEW c \in Seq(Nat), NEW d \in SUBSET Txs, NEW g, g \in BOOLEAN,
             Len(c) <= Len(b), u = RemovedTo(p, tx, b, c, d, g)
      PROVE  PoolOK(u)
  <2>1. Ends(p, b, c, d, g)
    BY <1>1, <1>6 DEF Ends
  <2> QED
    BY <1>6, <2>1, RemovedToIs
<1> DEFINE g == tx \notin p.byAgent
           d == p.byAgent \ {tx}
<1>7. g \in BOOLEAN /\ d \in SUBSET Txs
  BY <1>2
<1>8. ASSUME NEW i \in 1..Len(p.byFee), i \notin 1..Len(p.negFees),
             u = RemovedTo(p, tx, RemoveAt(p.byFee, i), p.negFees, p.byAgent, TRUE)
      PROVE  PoolOK(u)
  <2>1. Len(p.negFees) <= Len(RemoveAt(p.byFee, i))
    BY <1>2, <1>3, <1>8
  <2> QED
    BY <1>2, <1>3, <1>8, <1>6, <2>1
<1>9. ASSUME u = RemovedTo(p, tx, p.byFee, p.negFees, p.byAgent \ {tx}, tx \notin p.byAgent)
      PROVE  PoolOK(u)
  <2>1. u = RemovedTo(p, tx, p.byFee, p.negFees, d, g)
    BY <1>9, Zenon
  <2> HIDE DEF g, d
  <2> QED
    BY <1>1, <1>2, <1>6, <1>7, <2>1
<1>10. ASSUME NEW i \in 1..Len(p.byFee), i \in 1..Len(p.negFees),
             u = RemovedTo(p, tx, RemoveAt(p.byFee, i), RemoveAt(p.negFees, i), p.byAgent \ {tx},
                           tx \notin p.byAgent)
      PROVE  PoolOK(u)
  <2> DEFINE b == RemoveAt(p.byFee, i)
             c == RemoveAt(p.negFees, i)
  <2>1. u = RemovedTo(p, tx, b, c, d, g)
    BY <1>10, Zenon
  <2>2. b \in Seq(Txs) /\ c \in Seq(Nat) /\ Len(c) = Len(p.negFees) - 1 /\ Len(b) = Len(p.byFee) - 1
    BY <1>3, <1>4, <1>10
  <2>3. Len(c) <= Len(b)
    BY <1>1, <1>2, <2>2
  <2> HIDE DEF b, c, g, d
  <2> QED
    BY <1>6, <1>7, <2>1, <2>2, <2>3
<1> QED
  BY <1>1, <1>5, <1>8, <1>9, <1>10, RemovedIs DEF u

\* One entry leaves both lists.
Shortened(b, c, i, d, e) ==
  /\ Len(d) = Len(b) - 1 /\ Len(e) = Len(b) - 1
  /\ \A j \in 1..(Len(b) - 1) : /\ d[j] = IF j < i THEN b[j] ELSE b[j + 1]
                                /\ e[j] = IF j < i THEN c[j] ELSE c[j + 1]

LEMMA ListsWithout ==
  ASSUME NEW S \in SUBSET Txs, IsFiniteSet(S), NEW b \in Seq(Txs), NEW c \in Seq(Nat), Lists(b, c, S),
         NEW i \in 1..Len(b), NEW d \in Seq(Txs), NEW e \in Seq(Nat), Shortened(b, c, i, d, e)
  PROVE  Lists(d, e, S \ {b[i]})
<1> DEFINE R == S \ {b[i]}
           N == Len(b)
           M == Len(b) - 1
           from(j) == IF j < i THEN j ELSE j + 1
<1>1. N \in Nat /\ i \in 1..N /\ M \in Nat /\ Len(d) = M /\ Len(e) = M /\ N = M + 1
  BY DEF Shortened
<1>2. /\ N = Len(c) /\ Cardinality(S) = N
      /\ \A k \in 1..N : c[k] = Fee[b[k]] /\ b[k] \in S
      /\ \A t \in S : \E k \in 1..N : b[k] = t
      /\ \A k, l \in 1..N : k < l => c[k] >= c[l] /\ b[k] # b[l]
  BY DEF Lists
<1>3. \A j \in 1..M : from(j) \in 1..N /\ from(j) # i /\ d[j] = b[from(j)] /\ e[j] = c[from(j)]
  BY <1>1 DEF Shortened
<1>4. \A k, l \in 1..M : k < l => from(k) < from(l)
  BY <1>1
<1>5. Cardinality(R) = M
  <2>1. b[i] \in S /\ Cardinality(S) = N
    BY <1>1, <1>2
  <2>2. Cardinality(R) = Cardinality(S) - 1
    BY <2>1, FS_RemoveElement
  <2> QED
    BY <1>1, <2>1, <2>2
<1> HIDE DEF N, M, from
<1>6. \A k, l \in 1..N : k # l => b[k] # b[l]
  <2> SUFFICES ASSUME NEW k \in 1..N, NEW l \in 1..N, k # l
               PROVE  b[k] # b[l]
    OBVIOUS
  <2>1. k < l \/ l < k
    BY <1>1
  <2> QED
    BY <1>2, <2>1
<1>7. \A j \in 1..M : e[j] = Fee[d[j]] /\ d[j] \in R
  <2> SUFFICES ASSUME NEW j \in 1..M
               PROVE  e[j] = Fee[d[j]] /\ d[j] \in R
    OBVIOUS
  <2>1. from(j) \in 1..N /\ d[j] = b[from(j)] /\ e[j] = c[from(j)] /\ b[from(j)] # b[i]
    BY <1>1, <1>3, <1>6
  <2>2. c[from(j)] = Fee[b[from(j)]] /\ b[from(j)] \in S
    BY <1>2, <2>1
  <2> QED
    BY <2>1, <2>2
<1>8. \A t \in R : \E j \in 1..M : d[j] = t
  <2> SUFFICES ASSUME NEW t \in R
               PROVE  \E j \in 1..M : d[j] = t
    OBVIOUS
  <2>1. PICK k \in 1..N : b[k] = t
    BY <1>2
  <2>2. k # i
    BY <2>1
  <2>3. CASE k < i
    <3>1. k \in 1..M /\ from(k) = k
      BY <1>1, <2>3 DEF from
    <3> QED
      BY <1>3, <2>1, <3>1
  <2>4. CASE k > i
    <3>1. k - 1 \in 1..M /\ from(k - 1) = k
      BY <1>1, <2>4 DEF from
    <3> QED
      BY <1>3, <2>1, <3>1
  <2> QED
    BY <1>1, <2>2, <2>3, <2>4
<1>9. \A k, l \in 1..M : k < l => e[k] >= e[l] /\ d[k] # d[l]
  <2> SUFFICES ASSUME NEW k \in 1..M, NEW l \in 1..M, k < l
               PROVE  e[k] >= e[l] /\ d[k] # d[l]
    OBVIOUS
  <2>1. from(k) \in 1..N /\ from(l) \in 1..N /\ from(k) < from(l)
    BY <1>3, <1>4
  <2>2. c[from(k)] >= c[from(l)] /\ b[from(k)] # b[from(l)]
    BY <1>2, <2>1
  <2> QED
    BY <1>3, <2>2
<1> QED
  BY <1>1, <1>5, <1>7, <1>8, <1>9 DEF Lists

\* One entry is put in its place.
Inserted(b, c, t, i, d, e) ==
  /\ Len(d) = Len(b) + 1 /\ Len(e) = Len(b) + 1
  /\ \A j \in 1..Len(b) : IF j < i THEN c[j] > Fee[t] ELSE c[j] <= Fee[t]
  /\ \A j \in 1..(Len(b) + 1) :
       /\ d[j] = IF j < i THEN b[j] ELSE IF j = i THEN t ELSE b[j - 1]
       /\ e[j] = IF j < i THEN c[j] ELSE IF j = i THEN Fee[t] ELSE c[j - 1]

LEMMA ListsWith ==
  ASSUME NEW S \in SUBSET Txs, IsFiniteSet(S), NEW b \in Seq(Txs), NEW c \in Seq(Nat), Lists(b, c, S),
         NEW t \in Txs, t \notin S, NEW i \in 1..(Len(b) + 1), NEW d \in Seq(Txs), NEW e \in Seq(Nat),
         Fee[t] \in Nat, Inserted(b, c, t, i, d, e)
  PROVE  Lists(d, e, S \cup {t})
<1> DEFINE R == S \cup {t}
           N == Len(b)
           M == Len(b) + 1
<1>1. N \in Nat /\ i \in 1..M /\ M \in Nat /\ Len(d) = M /\ Len(e) = M /\ M = N + 1
  BY DEF Inserted
<1>2. /\ N = Len(c) /\ Cardinality(S) = N
      /\ \A k \in 1..N : c[k] = Fee[b[k]] /\ b[k] \in S /\ c[k] \in Nat
      /\ \A u \in S : \E k \in 1..N : b[k] = u
      /\ \A k, l \in 1..N : k < l => c[k] >= c[l] /\ b[k] # b[l]
  BY DEF Lists
<1>3. /\ \A j \in 1..M : j < i => j \in 1..N /\ d[j] = b[j] /\ e[j] = c[j] /\ c[j] > Fee[t]
      /\ d[i] = t /\ e[i] = Fee[t]
      /\ \A j \in 1..M : j > i =>
           j - 1 \in 1..N /\ d[j] = b[j - 1] /\ e[j] = c[j - 1] /\ c[j - 1] <= Fee[t]
  BY <1>1 DEF Inserted
<1>4. Cardinality(R) = M
  BY <1>1, <1>2, FS_AddElement
<1> HIDE DEF N, M
<1>5. \A j \in 1..M : e[j] = Fee[d[j]] /\ d[j] \in R
  <2> SUFFICES ASSUME NEW j \in 1..M
               PROVE  e[j] = Fee[d[j]] /\ d[j] \in R
    OBVIOUS
  <2>1. CASE j < i
    <3>1. j \in 1..N /\ d[j] = b[j] /\ e[j] = c[j]
      BY <1>3, <2>1
    <3> QED
      BY <1>2, <3>1
  <2>2. CASE j = i
    BY <1>3, <2>2
  <2>3. CASE j > i
    <3>1. j - 1 \in 1..N /\ d[j] = b[j - 1] /\ e[j] = c[j - 1]
      BY <1>3, <2>3
    <3> QED
      BY <1>2, <3>1
  <2> QED
    BY <1>1, <2>1, <2>2, <2>3
<1>6. \A u \in R : \E j \in 1..M : d[j] = u
  <2> SUFFICES ASSUME NEW u \in R
               PROVE  \E j \in 1..M : d[j] = u
    OBVIOUS
  <2>1. CASE u = t
    BY <1>1, <1>3, <2>1
  <2>2. CASE u \in S
    <3>1. PICK k \in 1..N : b[k] = u
      BY <1>2, <2>2
    <3>2. CASE k < i
      BY <1>1, <1>3, <3>1, <3>2
    <3>3. CASE ~(k < i)
      <4>1. k + 1 \in 1..M /\ k + 1 > i /\ (k + 1) - 1 = k
        BY <1>1, <3>3
      <4>2. d[k + 1] = b[k]
        BY <1>3, <4>1
      <4> QED
        BY <3>1, <4>1, <4>2
    <3> QED
      BY <3>2, <3>3
  <2> QED
    BY <2>1, <2>2
<1>7. \A k, l \in 1..M : k < l => e[k] >= e[l] /\ d[k] # d[l]
  <2> SUFFICES ASSUME NEW k \in 1..M, NEW l \in 1..M, k < l
               PROVE  e[k] >= e[l] /\ d[k] # d[l]
    OBVIOUS
  <2>1. CASE l < i
    <3>1. k < i
      BY <1>1, <2>1
    <3> QED
      BY <1>2, <1>3, <2>1, <3>1
  <2>2. CASE l = i
    <3>1. k < i
      BY <1>1, <2>2
    <3>2. k \in 1..N /\ d[k] = b[k] /\ e[k] = c[k] /\ c[k] > Fee[t] /\ d[l] = t /\ e[l] = Fee[t]
      BY <1>3, <2>2, <3>1
    <3>3. b[k] \in S /\ c[k] \in Nat
      BY <1>2, <3>2
    <3> QED
      BY <3>2, <3>3, SMTT(40)
  <2>3. CASE l > i
    <3>1. l - 1 \in 1..N /\ d[l] = b[l - 1] /\ e[l] = c[l - 1] /\ c[l - 1] <= Fee[t] /\ c[l - 1] \in Nat
      BY <1>2, <1>3, <2>3
    <3>2. CASE k < i
      <4>1. k \in 1..N /\ d[k] = b[k] /\ e[k] = c[k] /\ c[k] > Fee[t] /\ c[k] \in Nat /\ k < l - 1
        BY <1>1, <1>2, <1>3, <2>3, <3>2, SMTT(40)
      <4> QED
        BY <1>2, <3>1, <4>1, SMTT(40)
    <3>3. CASE k = i
      <4>1. d[k] = t /\ e[k] = Fee[t] /\ b[l - 1] \in S
        BY <1>2, <1>3, <3>1, <3>3
      <4> QED
        BY <3>1, <4>1
    <3>4. CASE k > i
      <4>1. k - 1 \in 1..N /\ d[k] = b[k - 1] /\ e[k] = c[k - 1]
        BY <1>3, <3>4
      <4>2. k \in Int /\ l \in Int /\ k < l => k - 1 < l - 1
        OBVIOUS
      <4>3. k - 1 < l - 1
        BY <1>1, <4>2
      <4> DEFINE m == k - 1
                 n == l - 1
      <4>4. m \in 1..N /\ d[k] = b[m] /\ e[k] = c[m] /\ m < n
        BY <4>1, <4>3
      <4>5. n \in 1..N /\ d[l] = b[n] /\ e[l] = c[n]
        BY <3>1
      <4> HIDE DEF m, n
      <4>6. c[m] >= c[n] /\ b[m] # b[n]
        BY <1>2, <4>4, <4>5, Zenon
      <4> QED
        BY <4>4, <4>5, <4>6
    <3> QED
      BY <1>1, <3>2, <3>3, <3>4
  <2> QED
    BY <1>1, <2>1, <2>2, <2>3
<1> QED
  BY <1>1, <1>4, <1>5, <1>6, <1>7 DEF Lists

\* What is removed leaves the lists too.
LEMMA RemovedOrdered ==
  ASSUME NEW p, Ordered(p), NEW tx \in Txs
  PROVE  Ordered(Removed(p, tx)) /\ Removed(p, tx).txs = p.txs \ {tx}
<1> DEFINE u == Removed(p, tx)
<1>1. /\ PoolOK(p) /\ ~p.plain /\ ~p.raised /\ p.byAgent = p.txs /\ Lists(p.byFee, p.negFees, p.txs)
      /\ p \in PoolRecords /\ IsFiniteSet(p.txs)
  BY DEF Ordered, PoolOK
<1>2. /\ Len(p.negFees) = Len(p.byFee)
      /\ \A t \in p.txs : \E i \in 1..Len(p.byFee) : p.byFee[i] = t
  BY <1>1 DEF Lists
<1>3. p.byFee \in Seq(Txs) /\ p.negFees \in Seq(Nat) /\ p.txs \in SUBSET Txs /\ Len(p.byFee) \in Nat
  BY <1>1, PoolFields
<1> HIDE DEF u
<1>4. CASE u = p /\ (p.raised \/ tx \notin p.txs)
  <2>1. p.txs \ {tx} = p.txs
    BY <1>1, <1>4
  <2> QED
    BY <1>4, <2>1 DEF u
<1>5. ASSUME NEW i \in 1..Len(p.byFee), p.byFee[i] = tx, i \in 1..Len(p.negFees),
             u = RemovedTo(p, tx, RemoveAt(p.byFee, i), RemoveAt(p.negFees, i), p.byAgent \ {tx},
                           tx \notin p.byAgent), tx \in p.txs
      PROVE  Ordered(u) /\ u.txs = p.txs \ {tx}
  <2> DEFINE d == RemoveAt(p.byFee, i)
             e == RemoveAt(p.negFees, i)
             g == tx \notin p.byAgent
  <2>1. /\ d \in Seq(Txs) /\ Len(d) = Len(p.byFee) - 1
        /\ \A j \in 1..(Len(p.byFee) - 1) : d[j] = IF j < i THEN p.byFee[j] ELSE p.byFee[j + 1]
    BY <1>3, RemoveAtIs
  <2>2. /\ e \in Seq(Nat) /\ Len(e) = Len(p.byFee) - 1
        /\ \A j \in 1..(Len(p.byFee) - 1) : e[j] = IF j < i THEN p.negFees[j] ELSE p.negFees[j + 1]
    <3>1. /\ e \in Seq(Nat) /\ Len(e) = Len(p.negFees) - 1
          /\ \A j \in 1..(Len(p.negFees) - 1) : e[j] = IF j < i THEN p.negFees[j] ELSE p.negFees[j + 1]
      BY <1>3, <1>5, RemoveAtIs
    <3> HIDE DEF e
    <3> QED
      BY <1>2, <3>1
  <2>3. g = FALSE /\ g \in BOOLEAN
    BY <1>1, <1>5
  <2>4. p.byAgent \ {tx} = p.txs \ {tx} /\ p.byAgent \ {tx} \in SUBSET Txs
    BY <1>1, <1>3
  <2>5. u = RemovedTo(p, tx, d, e, p.byAgent \ {tx}, g)
    BY <1>5
  <2> HIDE DEF d, e, g
  <2>6. Lists(d, e, p.txs \ {tx})
    <3>1. Shortened(p.byFee, p.negFees, i, d, e)
      BY <2>1, <2>2 DEF Shortened
    <3>2. d \in Seq(Txs) /\ e \in Seq(Nat)
      BY <2>1, <2>2
    <3>3. Lists(d, e, p.txs \ {p.byFee[i]})
      BY <1>1, <1>3, <3>1, <3>2, ListsWithout
    <3> QED
      BY <1>5, <3>3
  <2>7. Len(e) <= Len(d)
    BY <1>3, <2>1, <2>2
  <2>8. /\ PoolOK(u) /\ u.txs = p.txs \ {tx} /\ u.byFee = d /\ u.negFees = e /\ u.byAgent = p.byAgent \ {tx}
        /\ u.plain = p.plain /\ u.raised = g
    <3> DEFINE a == p.byAgent \ {tx}
    <3> HIDE DEF a
    <3>1. Ends(p, d, e, a, g)
      BY <1>1, <2>1, <2>2, <2>3, <2>4, <2>7 DEF Ends, a
    <3>2. u = RemovedTo(p, tx, d, e, a, g)
      BY <2>5 DEF a
    <3>3. /\ PoolOK(u) /\ u.txs = p.txs \ {tx} /\ u.byFee = d /\ u.negFees = e /\ u.byAgent = a
          /\ u.plain = p.plain /\ u.raised = g
      BY <3>1, <3>2, RemovedToIs
    <3> QED
      BY <3>3 DEF a
  <2> QED
    BY <1>1, <2>3, <2>4, <2>6, <2>8 DEF Ordered
<1>6. \/ u = p /\ (p.raised \/ tx \notin p.txs)
      \/ \E i \in 1..Len(p.byFee) :
           /\ p.byFee[i] = tx /\ i \in 1..Len(p.negFees) /\ tx \in p.txs
           /\ u = RemovedTo(p, tx, RemoveAt(p.byFee, i), RemoveAt(p.negFees, i), p.byAgent \ {tx},
                            tx \notin p.byAgent)
  BY <1>1, <1>2, RemovedIs, ZenonT(60) DEF u
<1> QED
  BY <1>4, <1>5, <1>6 DEF u

\* A set of positions that holds every position before one of its own.
LEMMA FirstOnes ==
  ASSUME NEW N \in Nat, NEW H \in SUBSET (1..N), \A i, j \in 1..N : i < j /\ j \in H => i \in H
  PROVE  Cardinality(H) \in 0..N /\ H = 1..Cardinality(H)
<1> DEFINE S == {n \in 0..N : 1..n \subseteq H \/ \E k \in 0..N : H = 1..k}
<1>1. 0 \in S
  OBVIOUS
<1>2. \A n \in 0..(N - 1) : n \in S => n + 1 \in S
  <2> SUFFICES ASSUME NEW n \in 0..(N - 1), n \in S
               PROVE  n + 1 \in S
    OBVIOUS
  <2>1. n \in Nat /\ n + 1 \in 0..N /\ n \in 0..N
    OBVIOUS
  <2>2. CASE \E k \in 0..N : H = 1..k
    BY <2>1, <2>2
  <2>3. CASE 1..n \subseteq H /\ n + 1 \in H
    <3>1. 1..(n + 1) \subseteq H
      BY <2>1, <2>3
    <3> QED
      BY <2>1, <3>1
  <2>4. CASE 1..n \subseteq H /\ n + 1 \notin H
    <3>1. \A j \in H : j \in 1..n
      <4> SUFFICES ASSUME NEW j \in H, j \notin 1..n
                   PROVE  FALSE
        OBVIOUS
      <4>1. j \in 1..N /\ n + 1 \in 1..N /\ n + 1 < j
        BY <2>1, <2>4
      <4> QED
        BY <2>4, <4>1
    <3>2. H = 1..n
      BY <2>4, <3>1
    <3> QED
      BY <2>1, <3>2
  <2> QED
    BY <2>2, <2>3, <2>4
<1>3. N \in S
  <2> HIDE DEF S
  <2>1. 0..N \subseteq S
    BY <1>1, <1>2, BoundedInduction
  <2> QED
    BY <2>1
<1>4. 1..N \subseteq H => H = 1..N
  OBVIOUS
<1>5. PICK k \in 0..N : H = 1..k
  BY <1>3, <1>4
<1>6. Cardinality(1..k) = k
  BY <1>5, FS_Interval
<1> QED
  BY <1>5, <1>6

LEMMA PlaceIs ==
  ASSUME NEW p, p.negFees \in Seq(Nat), NEW tx \in Txs
  PROVE  /\ Place(p, tx) \in 1..(Len(p.negFees) + 1)
         /\ (\A i, j \in 1..Len(p.negFees) : i < j => p.negFees[i] >= p.negFees[j]) =>
              \A j \in 1..Len(p.negFees) :
                IF j < Place(p, tx) THEN p.negFees[j] > Fee[tx] ELSE p.negFees[j] <= Fee[tx]
<1> DEFINE c == p.negFees
           N == Len(p.negFees)
           H == {i \in DOMAIN c : c[i] > Fee[tx]}
<1>1. N \in Nat /\ DOMAIN c = 1..N /\ Fee[tx] \in Nat /\ \A j \in 1..N : c[j] \in Nat
  BY ChainAssumption
<1>2. H \in SUBSET (1..N)
  BY <1>1
<1>3. Place(p, tx) = Cardinality(H) + 1
  BY DEF Place
<1>4. Cardinality(H) \in 0..N
  <2>1. IsFiniteSet(1..N) /\ Cardinality(1..N) = N
    <3> HIDE DEF N
    <3>1. N \in Int /\ 1 \in Int /\ ~(1 > N) => N - 1 + 1 = N
      OBVIOUS
    <3>2. N \in Int /\ 1 \in Int /\ (1 > N => N = 0)
      BY <1>1
    <3> QED
      BY <3>1, <3>2, FS_Interval
  <2>2. IsFiniteSet(H) /\ Cardinality(H) <= N
    BY <1>2, <2>1, FS_Subset
  <2>3. Cardinality(H) \in Nat
    BY <2>2, FS_CardinalityType
  <2> QED
    BY <1>1, <2>2, <2>3
<1>5. ASSUME \A i, j \in 1..N : i < j => c[i] >= c[j]
      PROVE  \A j \in 1..N : IF j < Place(p, tx) THEN c[j] > Fee[tx] ELSE c[j] <= Fee[tx]
  <2>1. \A i, j \in 1..N : i < j /\ j \in H => i \in H
    <3> SUFFICES ASSUME NEW i \in 1..N, NEW j \in 1..N, i < j, j \in H
                 PROVE  i \in H
      OBVIOUS
    <3>1. c[i] >= c[j] /\ c[j] > Fee[tx]
      BY <1>5
    <3> QED
      BY <1>1, <3>1
  <2>2. \A j \in 1..N : j \in H <=> c[j] > Fee[tx]
    BY <1>1
  <2> HIDE DEF H
  <2>3. H = 1..Cardinality(H)
    BY <1>1, <1>2, <2>1, FirstOnes
  <2>4. \A j \in 1..N : j < Place(p, tx) <=> j \in H
    BY <1>3, <1>4, <2>3
  <2> QED
    BY <1>1, <2>2, <2>4
<1> QED
  BY <1>1, <1>3, <1>4, <1>5, SMTT(40)

\* One entry leaves the end of both lists, or of the identifiers alone.
LEMMA EvictIs ==
  ASSUME NEW p \in PoolRecords
  PROVE  \/ p.byFee = <<>> /\ Evict(p) = p
         \/ /\ p.byFee # <<>> /\ p.negFees = <<>>
            /\ Evict(p) = [txs |-> p.txs, byFee |-> Front(p.byFee), negFees |-> p.negFees,
                           byAgent |-> p.byAgent, known |-> p.known, plain |-> p.plain, raised |-> TRUE]
         \/ /\ p.byFee # <<>> /\ p.negFees # <<>>
            /\ Evict(p) = RemovedTo(p, Last(p.byFee), Front(p.byFee), Front(p.negFees),
                                    p.byAgent \ {Last(p.byFee)}, p.raised)
<1> DEFINE l == Last(p.byFee)
<1>1. p = [txs |-> p.txs, byFee |-> p.byFee, negFees |-> p.negFees, byAgent |-> p.byAgent,
           known |-> p.known, plain |-> p.plain, raised |-> p.raised]
  BY PoolFields
<1>2. Evict(p) = IF p.byFee = <<>> THEN p
                 ELSE IF p.negFees = <<>> THEN [p EXCEPT !.byFee = Front(@), !.raised = TRUE]
                 ELSE [p EXCEPT !.byFee = Front(@), !.negFees = Front(@), !.txs = @ \ {l},
                                !.byAgent = @ \ {l}]
  BY Zenon DEF Evict
<1> HIDE DEF l
<1>3. CASE p.byFee = <<>>
  BY <1>2, <1>3
<1>4. CASE p.byFee # <<>> /\ p.negFees = <<>>
  <2>1. Evict(p) = [p EXCEPT !.byFee = Front(@), !.raised = TRUE]
    BY <1>2, <1>4, Zenon
  <2>2. Evict(p) = [txs |-> p.txs, byFee |-> Front(p.byFee), negFees |-> p.negFees,
                    byAgent |-> p.byAgent, known |-> p.known, plain |-> p.plain, raised |-> TRUE]
    BY <1>1, <2>1
  <2> QED
    BY <1>4, <2>2
<1>5. CASE p.byFee # <<>> /\ p.negFees # <<>>
  <2>1. Evict(p) = [p EXCEPT !.byFee = Front(@), !.negFees = Front(@), !.txs = @ \ {l}, !.byAgent = @ \ {l}]
    BY <1>2, <1>5, Zenon
  <2>2. Evict(p) = RemovedTo(p, l, Front(p.byFee), Front(p.negFees), p.byAgent \ {l}, p.raised)
    BY <1>1, <2>1 DEF RemovedTo
  <2> QED
    BY <1>5, <2>2 DEF l
<1> QED
  BY <1>3, <1>4, <1>5

LEMMA EvictOK ==
  ASSUME NEW p, PoolOK(p)
  PROVE  PoolOK(Evict(p))
<1> DEFINE u == Evict(p)
<1>1. p \in PoolRecords /\ Len(p.negFees) <= Len(p.byFee) /\ IsFiniteSet(p.txs)
  BY DEF PoolOK
<1>2. /\ p.byFee \in Seq(Txs) /\ p.negFees \in Seq(Nat) /\ p.byAgent \in SUBSET Txs
      /\ p.txs \in SUBSET Txs /\ p.known \in SUBSET Senders /\ p.plain \in BOOLEAN /\ p.raised \in BOOLEAN
      /\ Len(p.byFee) \in Nat /\ Len(p.negFees) \in Nat
  BY <1>1, PoolFields
<1>3. p.byFee # <<>> => /\ Len(p.byFee) >= 1 /\ Front(p.byFee) \in Seq(Txs)
                        /\ Len(Front(p.byFee)) = Len(p.byFee) - 1
  BY <1>2, FrontIs
<1>4. p.negFees # <<>> => /\ Len(p.negFees) >= 1 /\ Front(p.negFees) \in Seq(Nat)
                          /\ Len(Front(p.negFees)) = Len(p.negFees) - 1
  BY <1>2, FrontIs
<1> HIDE DEF u
<1>5. ASSUME p.byFee # <<>>, p.negFees = <<>>,
             u = [txs |-> p.txs, byFee |-> Front(p.byFee), negFees |-> p.negFees,
                  byAgent |-> p.byAgent, known |-> p.known, plain |-> p.plain, raised |-> TRUE]
      PROVE  PoolOK(u)
  <2>1. Len(p.negFees) = 0
    BY <1>5
  <2>2. Len(p.negFees) <= Len(Front(p.byFee))
    BY <1>2, <1>3, <1>5, <2>1
  <2>3. u \in PoolRecords /\ u.txs = p.txs /\ u.byFee = Front(p.byFee) /\ u.negFees = p.negFees
    <3> DEFINE x == Front(p.byFee)
               a == p.txs
               c == p.negFees
               f == p.byAgent
               w == p.known
               m == p.plain
               o == TRUE
    <3>1. u = [txs |-> a, byFee |-> x, negFees |-> c, byAgent |-> f, known |-> w, plain |-> m, raised |-> o]
      BY <1>5
    <3>2. /\ a \in SUBSET Txs /\ x \in Seq(Txs) /\ c \in Seq(Nat) /\ f \in SUBSET Txs
          /\ w \in SUBSET Senders /\ m \in BOOLEAN /\ o \in BOOLEAN
      BY <1>2, <1>3, <1>5
    <3> HIDE DEF x, a, c, f, w, m, o
    <3>4. MadeOf(u, a, x, c, f, w, m, o)
      BY <3>1, <3>2 DEF MadeOf
    <3>3. u \in PoolRecords /\ u.txs = a /\ u.byFee = x /\ u.negFees = c
      BY <3>4, PoolRecord
    <3> QED
      BY <3>3 DEF x, a, c
  <2> QED
    BY <1>1, <2>2, <2>3 DEF PoolOK
<1>6. ASSUME p.byFee # <<>>, p.negFees # <<>>,
             u = RemovedTo(p, Last(p.byFee), Front(p.byFee), Front(p.negFees),
                           p.byAgent \ {Last(p.byFee)}, p.raised)
      PROVE  PoolOK(u)
  <2>1. Len(Front(p.negFees)) <= Len(Front(p.byFee))
    BY <1>1, <1>2, <1>3, <1>4, <1>6
  <2>2. p.byAgent \ {Last(p.byFee)} \in SUBSET Txs
    BY <1>2
  <2> DEFINE d == Front(p.byFee)
             e == Front(p.negFees)
             l == Last(p.byFee)
             a == p.byAgent \ {l}
             g == p.raised
  <2>3. d \in Seq(Txs) /\ e \in Seq(Nat)
    BY <1>3, <1>4, <1>6
  <2>4. Ends(p, d, e, a, g)
    BY <1>1, <1>2, <2>1, <2>2, <2>3 DEF Ends
  <2>5. u = RemovedTo(p, l, d, e, a, g)
    BY <1>6
  <2> HIDE DEF d, e, l, a, g
  <2> QED
    BY <2>4, <2>5, RemovedToIs
<1> QED
  BY <1>1, <1>5, <1>6, EvictIs DEF u

\* A full mempool makes room for one.
LEMMA EvictOrdered ==
  ASSUME NEW p, Ordered(p), Cardinality(p.txs) >= 1
  PROVE  /\ Ordered(Evict(p)) /\ Evict(p).txs \subseteq p.txs
         /\ Cardinality(Evict(p).txs) = Cardinality(p.txs) - 1
<1> DEFINE u == Evict(p)
           b == p.byFee
           N == Len(p.byFee)
           l == Last(p.byFee)
<1>1. /\ PoolOK(p) /\ ~p.plain /\ ~p.raised /\ p.byAgent = p.txs /\ Lists(b, p.negFees, p.txs)
      /\ p \in PoolRecords /\ IsFiniteSet(p.txs)
  BY DEF Ordered, PoolOK
<1>2. /\ b \in Seq(Txs) /\ p.negFees \in Seq(Nat) /\ p.txs \in SUBSET Txs /\ N \in Nat
      /\ p.raised \in BOOLEAN /\ Len(p.negFees) \in Nat
  BY <1>1, PoolFields
<1>3. /\ Len(p.negFees) = N /\ Cardinality(p.txs) = N /\ N >= 1
      /\ \A i \in 1..N : b[i] \in p.txs
  BY <1>1 DEF Lists
<1>4. b # <<>> /\ p.negFees # <<>>
  BY <1>2, <1>3
<1>5. /\ l = b[N] /\ Front(b) \in Seq(Txs) /\ Len(Front(b)) = N - 1
      /\ \A j \in 1..(N - 1) : Front(b)[j] = b[j]
  BY <1>2, <1>4, FrontIs
<1>6. /\ Front(p.negFees) \in Seq(Nat) /\ Len(Front(p.negFees)) = N - 1
      /\ \A j \in 1..(N - 1) : Front(p.negFees)[j] = p.negFees[j]
  BY <1>2, <1>3, <1>4, FrontIs
<1>7. u = RemovedTo(p, l, Front(b), Front(p.negFees), p.byAgent \ {l}, p.raised)
  BY <1>1, <1>4, EvictIs
<1> DEFINE d == Front(b)
           e == Front(p.negFees)
           S == p.txs \ {l}
<1> HIDE DEF u, l, d, e
<1>8. Lists(d, e, S)
  <2>1. N \in 1..N
    BY <1>2, <1>3
  <2>2. \A j \in 1..(N - 1) : /\ d[j] = IF j < N THEN b[j] ELSE b[j + 1]
                              /\ e[j] = IF j < N THEN p.negFees[j] ELSE p.negFees[j + 1]
    BY <1>2, <1>5, <1>6 DEF d, e
  <2>3. d \in Seq(Txs) /\ e \in Seq(Nat) /\ Len(d) = N - 1 /\ Len(e) = N - 1
    BY <1>5, <1>6 DEF d, e
  <2>4. Lists(d, e, p.txs \ {b[N]})
    <3>1. Shortened(b, p.negFees, N, d, e)
      BY <2>2, <2>3 DEF Shortened
    <3> QED
      BY <1>1, <1>2, <2>1, <2>3, <3>1, ListsWithout
  <2> QED
    BY <1>5, <2>4
<1>9. /\ PoolOK(u) /\ u.txs = S /\ u.byFee = d /\ u.negFees = e /\ u.byAgent = p.byAgent \ {l}
      /\ u.plain = p.plain /\ u.raised = p.raised
  <2>1. /\ d \in Seq(Txs) /\ e \in Seq(Nat) /\ Len(e) <= Len(d)
        /\ u = RemovedTo(p, l, d, e, p.byAgent \ {l}, p.raised)
    BY <1>2, <1>5, <1>6, <1>7 DEF d, e
  <2>2. p.byAgent \ {l} \in SUBSET Txs
    BY <1>1, <1>2
  <2> DEFINE a == p.byAgent \ {l}
             g == p.raised
  <2>3. Ends(p, d, e, a, g)
    BY <1>1, <1>2, <2>1, <2>2 DEF Ends
  <2>4. u = RemovedTo(p, l, d, e, a, g)
    BY <2>1
  <2> HIDE DEF a, g
  <2>5. /\ PoolOK(u) /\ u.txs = p.txs \ {l} /\ u.byFee = d /\ u.negFees = e /\ u.byAgent = a
        /\ u.plain = p.plain /\ u.raised = g
    BY <2>3, <2>4, RemovedToIs
  <2> QED
    BY <2>5 DEF a, g
<1>10. Cardinality(S) = Cardinality(p.txs) - 1
  <2>1. l \in p.txs
    BY <1>2, <1>3, <1>5
  <2> QED
    BY <1>1, <2>1, FS_RemoveElement
<1> QED
  BY <1>1, <1>8, <1>9, <1>10 DEF Ordered, u

LEMMA AddedOK ==
  ASSUME NEW p, PoolOK(p), NEW tx \in Txs
  PROVE  /\ PoolOK(AddedTo(p, tx))
         /\ Ordered(p) /\ tx \notin p.txs =>
              Ordered(AddedTo(p, tx)) /\ AddedTo(p, tx).txs = p.txs \cup {tx}
<1> DEFINE u == AddedTo(p, tx)
           k == Place(p, tx)
           d == InsertAt(p.byFee, k, tx)
           e == InsertAt(p.negFees, k, Fee[tx])
           S == p.txs \cup {tx}
           A == p.byAgent \cup {tx}
           W == p.known \cup {Sender[tx]}
<1>1. /\ p \in PoolRecords /\ Len(p.negFees) <= Len(p.byFee) /\ IsFiniteSet(p.txs)
      /\ Fee[tx] \in Nat
  BY ChainAssumption DEF PoolOK
<1>2. /\ p = [txs |-> p.txs, byFee |-> p.byFee, negFees |-> p.negFees, byAgent |-> p.byAgent,
              known |-> p.known, plain |-> p.plain, raised |-> p.raised]
      /\ p.txs \in SUBSET Txs /\ p.byFee \in Seq(Txs) /\ p.negFees \in Seq(Nat)
      /\ p.byAgent \in SUBSET Txs /\ p.known \in SUBSET Senders /\ p.plain \in BOOLEAN
      /\ p.raised \in BOOLEAN
      /\ Len(p.byFee) \in Nat /\ Len(p.negFees) \in Nat
  BY <1>1, PoolFields
<1>3. S \in SUBSET Txs /\ A \in SUBSET Txs /\ W \in SUBSET Senders /\ IsFiniteSet(S)
  BY <1>1, <1>2, FS_AddElement DEF Senders
<1>4. k \in 1..(Len(p.negFees) + 1) /\ k \in 1..(Len(p.byFee) + 1)
  <2>1. k \in 1..(Len(p.negFees) + 1)
    BY <1>2, PlaceIs
  <2> HIDE DEF k
  <2> QED
    BY <1>1, <1>2, <2>1
<1>5. u = IF p.raised THEN p
          ELSE IF p.plain /\ Sender[tx] \notin p.known
          THEN [p EXCEPT !.txs = @ \cup {tx}, !.raised = TRUE]
          ELSE [p EXCEPT !.txs = @ \cup {tx}, !.byAgent = @ \cup {tx}, !.known = @ \cup {Sender[tx]},
                         !.byFee = InsertAt(@, k, tx), !.negFees = InsertAt(@, k, Fee[tx])]
  BY Zenon DEF AddedTo
<1> HIDE DEF u, k
<1>6. /\ d \in Seq(Txs) /\ Len(d) = Len(p.byFee) + 1
      /\ \A j \in 1..(Len(p.byFee) + 1) :
           d[j] = IF j < k THEN p.byFee[j] ELSE IF j = k THEN tx ELSE p.byFee[j - 1]
  <2>1. Slot(Txs, p.byFee, k, tx)
    BY <1>2, <1>4 DEF Slot
  <2> QED
    BY <2>1, InsertAtIs
<1>7. /\ e \in Seq(Nat) /\ Len(e) = Len(p.negFees) + 1
      /\ \A j \in 1..(Len(p.negFees) + 1) :
           e[j] = IF j < k THEN p.negFees[j] ELSE IF j = k THEN Fee[tx] ELSE p.negFees[j - 1]
  <2> DEFINE f == Fee[tx]
             c == p.negFees
  <2>1. Slot(Nat, c, k, f)
    BY <1>1, <1>2, <1>4 DEF Slot
  <2> HIDE DEF f, c
  <2>2. /\ InsertAt(c, k, f) \in Seq(Nat) /\ Len(InsertAt(c, k, f)) = Len(c) + 1
        /\ \A j \in 1..(Len(c) + 1) :
             InsertAt(c, k, f)[j] = IF j < k THEN c[j] ELSE IF j = k THEN f ELSE c[j - 1]
    BY <2>1, InsertAtIs
  <2> QED
    BY <2>2 DEF f, c
<1>8. ASSUME ~p.raised, ~(p.plain /\ Sender[tx] \notin p.known)
      PROVE  /\ PoolOK(u) /\ u.txs = S /\ u.byFee = d /\ u.negFees = e /\ u.byAgent = A
             /\ u.plain = p.plain /\ u.raised = p.raised
  <2>1. u = [p EXCEPT !.txs = @ \cup {tx}, !.byAgent = @ \cup {tx}, !.known = @ \cup {Sender[tx]},
                      !.byFee = InsertAt(@, k, tx), !.negFees = InsertAt(@, k, Fee[tx])]
    BY <1>5, <1>8, Zenon
  <2>2. u = [txs |-> S, byFee |-> d, negFees |-> e, byAgent |-> A, known |-> W, plain |-> p.plain,
             raised |-> p.raised]
    BY <1>2, <2>1
  <2> DEFINE m == p.plain
             o == p.raised
  <2> HIDE DEF S, A, W, d, e
  <2>3. /\ u \in PoolRecords /\ u.txs = S /\ u.byFee = d /\ u.negFees = e /\ u.byAgent = A
        /\ u.plain = p.plain /\ u.raised = p.raised
    <3>1. MadeOf(u, S, d, e, A, W, m, o)
      BY <1>2, <1>3, <1>6, <1>7, <2>2 DEF MadeOf
    <3> HIDE DEF m, o
    <3>2. /\ u \in PoolRecords /\ u.txs = S /\ u.byFee = d /\ u.negFees = e /\ u.byAgent = A
          /\ u.plain = m /\ u.raised = o
      BY <3>1, PoolRecord
    <3> QED
      BY <3>2 DEF m, o
  <2>4. Len(e) <= Len(d)
    BY <1>1, <1>2, <1>6, <1>7
  <2> QED
    BY <1>3, <2>3, <2>4 DEF PoolOK
<1>9. ASSUME ~p.raised, p.plain, Sender[tx] \notin p.known
      PROVE  PoolOK(u)
  <2>1. u = [p EXCEPT !.txs = @ \cup {tx}, !.raised = TRUE]
    BY <1>5, <1>9, Zenon
  <2>2. u = [txs |-> S, byFee |-> p.byFee, negFees |-> p.negFees, byAgent |-> p.byAgent,
             known |-> p.known, plain |-> p.plain, raised |-> TRUE]
    BY <1>2, <2>1
  <2> HIDE DEF S
  <2>3. u \in PoolRecords /\ u.txs = S /\ u.byFee = p.byFee /\ u.negFees = p.negFees
    <3> DEFINE b == p.byFee
               c == p.negFees
               f == p.byAgent
               w == p.known
               m == p.plain
               o == TRUE
    <3>1. MadeOf(u, S, b, c, f, w, m, o)
      BY <1>2, <1>3, <2>2 DEF MadeOf
    <3> HIDE DEF b, c, f, w, m, o
    <3>2. u \in PoolRecords /\ u.txs = S /\ u.byFee = b /\ u.negFees = c
      BY <3>1, PoolRecord
    <3> QED
      BY <3>2 DEF b, c
  <2> QED
    BY <1>1, <1>3, <2>3 DEF PoolOK
<1>10. p.raised => u = p
  BY <1>5, Zenon
<1>11. ASSUME Ordered(p), tx \notin p.txs
       PROVE  Ordered(u) /\ u.txs = S
  <2>1. ~p.plain /\ ~p.raised /\ p.byAgent = p.txs /\ Lists(p.byFee, p.negFees, p.txs)
    BY <1>11 DEF Ordered
  <2>2. /\ PoolOK(u) /\ u.txs = S /\ u.byFee = d /\ u.negFees = e /\ u.byAgent = A
        /\ u.plain = p.plain /\ u.raised = p.raised
    BY <1>8, <2>1
  <2>3. /\ Len(p.negFees) = Len(p.byFee)
        /\ \A i, j \in 1..Len(p.byFee) : i < j => p.negFees[i] >= p.negFees[j]
    BY <2>1 DEF Lists
  <2>4. \A j \in 1..Len(p.byFee) : IF j < k THEN p.negFees[j] > Fee[tx] ELSE p.negFees[j] <= Fee[tx]
    BY <1>2, <2>3, PlaceIs DEF k
  <2>5. A = S
    BY <2>1
  <2>6. Lists(d, e, S)
    <3> HIDE DEF d, e
    <3>1. Inserted(p.byFee, p.negFees, tx, k, d, e)
      BY <1>6, <1>7, <2>3, <2>4 DEF Inserted
    <3>2. d \in Seq(Txs) /\ e \in Seq(Nat)
      BY <1>6, <1>7
    <3> QED
      BY <1>1, <1>2, <1>4, <1>11, <2>1, <3>1, <3>2, ListsWith
  <2> HIDE DEF d, e, A
  <2> QED
    BY <2>1, <2>2, <2>5, <2>6 DEF Ordered
<1> QED
  BY <1>1, <1>8, <1>9, <1>10, <1>11 DEF u

\* A call begins without an error.
LEMMA CalmIs ==
  ASSUME PoolOK(pool)
  PROVE  PoolOK(Calm) /\ (Ordered(pool) => Calm = pool)
<1>1. pool \in PoolRecords /\ Len(pool.negFees) <= Len(pool.byFee) /\ IsFiniteSet(pool.txs)
  BY DEF PoolOK
<1>2. /\ pool = [txs |-> pool.txs, byFee |-> pool.byFee, negFees |-> pool.negFees,
                 byAgent |-> pool.byAgent, known |-> pool.known, plain |-> pool.plain,
                 raised |-> pool.raised]
      /\ pool.txs \in SUBSET Txs /\ pool.byFee \in Seq(Txs) /\ pool.negFees \in Seq(Nat)
      /\ pool.byAgent \in SUBSET Txs /\ pool.known \in SUBSET Senders /\ pool.plain \in BOOLEAN
      /\ pool.raised \in BOOLEAN
  BY <1>1, PoolFields
<1>3. Calm = [txs |-> pool.txs, byFee |-> pool.byFee, negFees |-> pool.negFees,
              byAgent |-> pool.byAgent, known |-> pool.known, plain |-> pool.plain, raised |-> FALSE]
  <2> DEFINE p == pool
             o == FALSE
  <2>1. Calm = [p EXCEPT !.raised = o]
    BY Zenon DEF Calm
  <2>2. p = [txs |-> p.txs, byFee |-> p.byFee, negFees |-> p.negFees, byAgent |-> p.byAgent,
             known |-> p.known, plain |-> p.plain, raised |-> p.raised]
    BY <1>2
  <2> HIDE DEF p, o
  <2>3. Calm = [txs |-> p.txs, byFee |-> p.byFee, negFees |-> p.negFees, byAgent |-> p.byAgent,
                known |-> p.known, plain |-> p.plain, raised |-> o]
    BY <2>1, <2>2
  <2> QED
    BY <2>3 DEF p, o
<1>4. Calm \in PoolRecords /\ Calm.txs = pool.txs /\ Calm.byFee = pool.byFee /\ Calm.negFees = pool.negFees
  <2> DEFINE a == pool.txs
             b == pool.byFee
             c == pool.negFees
             f == pool.byAgent
             w == pool.known
             m == pool.plain
             o == FALSE
  <2>1. MadeOf(Calm, a, b, c, f, w, m, o)
    BY <1>2, <1>3 DEF MadeOf
  <2> HIDE DEF a, b, c, f, w, m, o
  <2>2. Calm \in PoolRecords /\ Calm.txs = a /\ Calm.byFee = b /\ Calm.negFees = c
    BY <2>1, PoolRecord
  <2> QED
    BY <2>2 DEF a, b, c
<1>5. PoolOK(Calm)
  BY <1>1, <1>4 DEF PoolOK
<1>6. Ordered(pool) => pool.raised = FALSE
  BY <1>2 DEF Ordered
<1> QED
  BY <1>2, <1>3, <1>5, <1>6

LEMMA AddedKeeps ==
  ASSUME PoolOK(pool), NEW tx \in Txs
  PROVE  /\ PoolOK(Added(tx))
         /\ Ordered(pool) /\ Cardinality(pool.txs) <= MaxSize /\ tx \notin pool.txs =>
              Ordered(Added(tx)) /\ Cardinality(Added(tx).txs) <= MaxSize
<1> DEFINE p == IF Cardinality(pool.txs) >= MaxSize THEN Evict(Calm) ELSE Calm
<1>1. PoolOK(p)
  BY CalmIs, EvictOK
<1>2. Added(tx) = AddedTo(p, tx)
  BY Zenon DEF Added
<1>3. ASSUME Ordered(pool), Cardinality(pool.txs) <= MaxSize, tx \notin pool.txs
      PROVE  Ordered(p) /\ tx \notin p.txs /\ Cardinality(p.txs) + 1 <= MaxSize
  <2>1. Calm = pool /\ IsFiniteSet(pool.txs)
    BY <1>3, CalmIs DEF Ordered, PoolOK
  <2>2. Cardinality(pool.txs) \in Nat /\ MaxSize \in Nat /\ MaxSize >= 1
    BY <2>1, ChainAssumption, FS_CardinalityType
  <2>3. CASE Cardinality(pool.txs) >= MaxSize
    <3>1. /\ Ordered(Evict(pool)) /\ Evict(pool).txs \subseteq pool.txs
          /\ Cardinality(Evict(pool).txs) = Cardinality(pool.txs) - 1
      BY <1>3, <2>2, <2>3, EvictOrdered
    <3>2. p = Evict(pool)
      BY <2>1, <2>3
    <3> HIDE DEF p
    <3> QED
      BY <1>3, <2>2, <3>1, <3>2
  <2>4. CASE ~(Cardinality(pool.txs) >= MaxSize)
    <3>1. p = pool
      BY <2>1, <2>4
    <3> HIDE DEF p
    <3> QED
      BY <1>3, <2>2, <2>4, <3>1
  <2> QED
    BY <2>3, <2>4
<1> HIDE DEF p
<1>4. ASSUME Ordered(p), tx \notin p.txs, Cardinality(p.txs) + 1 <= MaxSize
      PROVE  Ordered(AddedTo(p, tx)) /\ Cardinality(AddedTo(p, tx).txs) <= MaxSize
  <2>1. Ordered(AddedTo(p, tx)) /\ AddedTo(p, tx).txs = p.txs \cup {tx}
    BY <1>1, <1>4, AddedOK
  <2>2. Cardinality(p.txs \cup {tx}) = Cardinality(p.txs) + 1
    BY <1>1, <1>4, FS_AddElement DEF PoolOK
  <2> QED
    BY <1>4, <2>1, <2>2
<1> QED
  BY <1>1, <1>2, <1>3, <1>4, AddedOK

\* The removals of a block, by the number of transactions removed.
Drains(g, order) ==
  g = [n \in 0..Len(order) |-> IF n = 0 THEN Calm ELSE Removed(g[n - 1], order[n])]

\* What every removal keeps, all of them keep.
LEMMA RemovedAllIn ==
  ASSUME NEW T, NEW order \in Seq(T), NEW X, Calm \in X, \A p \in X : \A t \in T : Removed(p, t) \in X
  PROVE  RemovedAll(order) \in X
<1> DEFINE F == [q \in X \X T |-> Removed(q[1], q[2])]
           k == CHOOSE g : Drains(g, order)
<1>0. Len(order) \in Nat /\ \A n \in 1..Len(order) : order[n] \in T
  OBVIOUS
<1>1. F \in [X \X T -> X] /\ \A p \in X : \A t \in T : F[<<p, t>>] = Removed(p, t)
  OBVIOUS
<1> HIDE DEF F
<1>2. ASSUME NEW g \in [0..Len(order) -> X], Folds(g, order, Calm, F)
      PROVE  Drains(g, order)
  <2>1. \A n \in 0..Len(order) : g[n] = IF n = 0 THEN Calm ELSE Removed(g[n - 1], order[n])
    <3> SUFFICES ASSUME NEW n \in 0..Len(order)
                 PROVE  g[n] = IF n = 0 THEN Calm ELSE Removed(g[n - 1], order[n])
      OBVIOUS
    <3>1. CASE n = 0
      BY <1>2, <3>1 DEF Folds
    <3>2. CASE n # 0
      <4>1. n \in 1..Len(order) /\ n - 1 \in 0..Len(order)
        BY <1>0, <3>2
      <4>2. g[n] = F[<<g[n - 1], order[n]>>] /\ g[n - 1] \in X /\ order[n] \in T
        BY <1>0, <1>2, <4>1 DEF Folds
      <4> QED
        BY <1>1, <3>2, <4>2
    <3> QED
      BY <3>1, <3>2
  <2>2. g = [n \in 0..Len(order) |-> g[n]]
    OBVIOUS
  <2> QED
    BY <2>1, <2>2, Zenon DEF Drains
<1>3. Drains(k, order)
  <2>1. \E g \in [0..Len(order) -> X] : Folds(g, order, Calm, F)
    BY <1>0, <1>1, FoldExists
  <2> QED
    BY <1>2, <2>1
<1>4. RemovedAll(order) = k[Len(order)]
  BY DEF RemovedAll, Drains
<1> HIDE DEF k
<1>5. k \in [0..Len(order) -> X] /\ Folds(k, order, Calm, F)
  <2>1. \A n \in 0..Len(order) : k[n] = IF n = 0 THEN Calm ELSE Removed(k[n - 1], order[n])
    BY <1>3, Zenon DEF Drains
  <2>2. k = [n \in 0..Len(order) |-> k[n]] /\ k[0] = Calm
    <3> DEFINE body(n) == IF n = 0 THEN Calm ELSE Removed(k[n - 1], order[n])
    <3>1. k = [n \in 0..Len(order) |-> body(n)]
      BY <1>3, Zenon DEF Drains
    <3>2. k[0] = Calm
      BY <1>0, <2>1
    <3> HIDE DEF body
    <3> QED
      BY <3>1, <3>2
  <2>3. ASSUME NEW n \in 1..Len(order), k[n - 1] \in X
        PROVE  k[n] = F[<<k[n - 1], order[n]>>]
    <3>1. k[n] = Removed(k[n - 1], order[n])
      BY <1>0, <2>1
    <3> QED
      BY <1>0, <1>1, <2>3, <3>1
  <2> DEFINE c == Calm
  <2>4. c \in X /\ k[0] = c /\ order \in Seq(T) /\ F \in [X \X T -> X]
    BY <1>1, <2>2
  <2>5. k = [n \in 0..Len(order) |-> k[n]]
    BY <2>2
  <2>6. \A n \in 1..Len(order) : k[n - 1] \in X => k[n] = F[<<k[n - 1], order[n]>>]
    BY <2>3
  <2> HIDE DEF c
  <2>7. k \in [0..Len(order) -> X] /\ Folds(k, order, c, F)
    BY <2>4, <2>5, <2>6, FoldTyped
  <2> QED
    BY <2>7 DEF c
<1> QED
  BY <1>0, <1>4, <1>5

\* An order of a finite set is a sequence of its elements.
LEMMA SetToSeqsType ==
  ASSUME NEW S, IsFiniteSet(S), NEW order \in SetToSeqs(S)
  PROVE  order \in Seq(S)
<1>1. Cardinality(S) \in Nat
  BY FS_CardinalityType
<1>2. order \in [1..Cardinality(S) -> S]
  BY DEF SetToSeqs
<1> HIDE DEF SetToSeqs
<1> QED
  BY <1>1, <1>2

LEMMA RemovedAllKeeps ==
  ASSUME PoolOK(pool), NEW S \in SUBSET Txs, IsFiniteSet(S), NEW order \in SetToSeqs(S)
  PROVE  /\ PoolOK(RemovedAll(order))
         /\ Ordered(pool) /\ Cardinality(pool.txs) <= MaxSize =>
              Ordered(RemovedAll(order)) /\ Cardinality(RemovedAll(order).txs) <= MaxSize
<1>1. order \in Seq(S)
  BY SetToSeqsType
<1>2. PoolOK(RemovedAll(order))
  <2> DEFINE X == {p \in PoolRecords : PoolOK(p)}
  <2>1. Calm \in X
    BY CalmIs DEF PoolOK
  <2>2. \A p \in X : \A t \in S : Removed(p, t) \in X
    <3> SUFFICES ASSUME NEW p \in X, NEW t \in S
                 PROVE  Removed(p, t) \in X
      OBVIOUS
    <3>1. PoolOK(Removed(p, t))
      BY RemovedOK
    <3> QED
      BY <3>1 DEF PoolOK
  <2> HIDE DEF X
  <2>3. RemovedAll(order) \in X
    BY <1>1, <2>1, <2>2, RemovedAllIn
  <2> QED
    BY <2>3 DEF X
<1>3. ASSUME Ordered(pool), Cardinality(pool.txs) <= MaxSize
      PROVE  Ordered(RemovedAll(order)) /\ Cardinality(RemovedAll(order).txs) <= MaxSize
  <2> DEFINE X == {p \in PoolRecords : Ordered(p) /\ p.txs \subseteq pool.txs}
  <2>1. Calm \in X
    BY <1>3, CalmIs DEF PoolOK
  <2>2. \A p \in X : \A t \in S : Removed(p, t) \in X
    <3> SUFFICES ASSUME NEW p \in X, NEW t \in S
                 PROVE  Removed(p, t) \in X
      OBVIOUS
    <3>1. Ordered(Removed(p, t)) /\ Removed(p, t).txs = p.txs \ {t}
      BY RemovedOrdered
    <3>2. Removed(p, t) \in PoolRecords
      BY <3>1 DEF Ordered, PoolOK
    <3> QED
      BY <3>1, <3>2
  <2> HIDE DEF X
  <2>3. RemovedAll(order) \in X
    BY <1>1, <2>1, <2>2, RemovedAllIn
  <2>4. Ordered(RemovedAll(order)) /\ RemovedAll(order).txs \subseteq pool.txs
    BY <2>3 DEF X
  <2>5. IsFiniteSet(pool.txs) /\ Cardinality(pool.txs) \in Nat /\ MaxSize \in Nat
    BY ChainAssumption, FS_CardinalityType DEF PoolOK
  <2>6. IsFiniteSet(RemovedAll(order).txs) /\ Cardinality(RemovedAll(order).txs) <= Cardinality(pool.txs)
    BY <2>4, <2>5, FS_Subset
  <2>7. Cardinality(RemovedAll(order).txs) \in Nat
    BY <2>6, FS_CardinalityType
  <2> QED
    BY <1>3, <2>4, <2>5, <2>6, <2>7
<1> QED
  BY <1>2, <1>3

Blocks(chain, utxo) == chain \in Seq(SUBSET Txs) /\ utxo \in SUBSET Coins

PoolInv ==
  /\ ListInv /\ restarts \in Nat
  /\ ledger = [chain |-> ledger.chain, utxo |-> ledger.utxo]
  /\ Blocks(ledger.chain, ledger.utxo) /\ Blocks(disk["chain"], disk["utxo"])
  /\ feeMarket \in SUBSET Txs /\ IsFiniteSet(feeMarket)
  /\ PoolOK(pool) /\ PoolOK(disk["pool"])
  /\ restarts = 0 => Ordered(pool) /\ Cardinality(pool.txs) <= MaxSize

LEMMA EmptyOrdered == Ordered(EmptyPool) /\ Cardinality(EmptyPool.txs) = 0
<1>1. {} \in SUBSET Txs /\ {} \in SUBSET Senders /\ <<>> \in Seq(Txs) /\ <<>> \in Seq(Nat)
      /\ Len(<<>>) = 0 /\ FALSE \in BOOLEAN
  OBVIOUS
<1>2. IsFiniteSet({}) /\ Cardinality({}) = 0
  BY FS_EmptySet
<1>3. /\ EmptyPool \in PoolRecords /\ EmptyPool.txs = {} /\ EmptyPool.byFee = <<>>
      /\ EmptyPool.negFees = <<>> /\ EmptyPool.byAgent = {} /\ EmptyPool.plain = FALSE
      /\ EmptyPool.raised = FALSE
  <2> DEFINE S == {}
             q == <<>>
             o == FALSE
  <2>1. MadeOf(EmptyPool, S, q, q, S, S, o, o)
    BY <1>1 DEF EmptyPool, MadeOf
  <2> HIDE DEF S, q, o
  <2>2. /\ EmptyPool \in PoolRecords /\ EmptyPool.txs = S /\ EmptyPool.byFee = q
        /\ EmptyPool.negFees = q /\ EmptyPool.byAgent = S /\ EmptyPool.plain = o
        /\ EmptyPool.raised = o
    BY <2>1, PoolRecord
  <2> QED
    BY <2>2 DEF S, q, o
<1>4. PoolOK(EmptyPool)
  BY <1>1, <1>2, <1>3 DEF PoolOK
<1>5. Lists(<<>>, <<>>, {})
  BY <1>1, <1>2 DEF Lists
<1> QED
  BY <1>2, <1>3, <1>4, <1>5 DEF Ordered

\* What is saved of the mempool: no fees, no error.
SavedPool(p) == [p EXCEPT !.negFees = <<>>, !.plain = TRUE, !.raised = FALSE]

LEMMA SavedPoolOK ==
  ASSUME NEW p, PoolOK(p)
  PROVE  PoolOK(SavedPool(p))
<1>1. p \in PoolRecords /\ Len(p.negFees) <= Len(p.byFee) /\ IsFiniteSet(p.txs)
  BY DEF PoolOK
<1>2. /\ p = [txs |-> p.txs, byFee |-> p.byFee, negFees |-> p.negFees, byAgent |-> p.byAgent,
              known |-> p.known, plain |-> p.plain, raised |-> p.raised]
      /\ p.txs \in SUBSET Txs /\ p.byFee \in Seq(Txs) /\ p.byAgent \in SUBSET Txs
      /\ p.known \in SUBSET Senders /\ Len(p.byFee) \in Nat
  BY <1>1, PoolFields
<1>3. <<>> \in Seq(Nat) /\ Len(<<>>) = 0 /\ TRUE \in BOOLEAN /\ FALSE \in BOOLEAN
  OBVIOUS
<1>4. SavedPool(p) = [txs |-> p.txs, byFee |-> p.byFee, negFees |-> <<>>, byAgent |-> p.byAgent,
                      known |-> p.known, plain |-> TRUE, raised |-> FALSE]
  <2> DEFINE c == <<>>
             m == TRUE
             o == FALSE
  <2>1. SavedPool(p) = [p EXCEPT !.negFees = c, !.plain = m, !.raised = o]
    BY Zenon DEF SavedPool
  <2>2. p = [txs |-> p.txs, byFee |-> p.byFee, negFees |-> p.negFees, byAgent |-> p.byAgent,
             known |-> p.known, plain |-> p.plain, raised |-> p.raised]
    BY <1>2
  <2> HIDE DEF c, m, o
  <2>3. SavedPool(p) = [txs |-> p.txs, byFee |-> p.byFee, negFees |-> c, byAgent |-> p.byAgent,
                        known |-> p.known, plain |-> m, raised |-> o]
    BY <2>1, <2>2
  <2> QED
    BY <2>3 DEF c, m, o
<1>5. /\ SavedPool(p) \in PoolRecords /\ SavedPool(p).txs = p.txs
      /\ SavedPool(p).byFee = p.byFee /\ SavedPool(p).negFees = <<>>
  <2> DEFINE a == p.txs
             b == p.byFee
             c == <<>>
             f == p.byAgent
             w == p.known
             m == TRUE
             o == FALSE
  <2>1. MadeOf(SavedPool(p), a, b, c, f, w, m, o)
    BY <1>2, <1>3, <1>4 DEF MadeOf
  <2> HIDE DEF a, b, c, f, w, m, o
  <2>2. /\ SavedPool(p) \in PoolRecords /\ SavedPool(p).txs = a
        /\ SavedPool(p).byFee = b /\ SavedPool(p).negFees = c
    BY <2>1, PoolRecord
  <2> QED
    BY <2>2 DEF a, b, c
<1> QED
  BY <1>1, <1>2, <1>3, <1>5 DEF PoolOK

LEMMA PoolInvInit ==
  ASSUME Init
  PROVE  PoolInv
<1>1. /\ ledger = [chain |-> <<>>, utxo |-> {0}] /\ feeMarket = {} /\ pool = EmptyPool
      /\ disk = Image /\ restarts = 0
  BY DEF Init, ChainInit
<1>2. ledger.chain = <<>> /\ ledger.utxo = {0}
  BY <1>1
<1>3. <<>> \in Seq(SUBSET Txs) /\ {0} \in SUBSET Coins /\ MaxSize \in Nat
  BY ChainAssumption DEF Coins
<1>4. Image["chain"] = ledger.chain /\ Image["utxo"] = ledger.utxo /\ Image["pool"] = SavedPool(pool)
  BY Zenon DEF Image, SavedPool
<1>5. PoolOK(EmptyPool) /\ PoolOK(SavedPool(EmptyPool))
  BY EmptyOrdered, SavedPoolOK DEF Ordered
<1>6. IsFiniteSet({}) /\ {} \in SUBSET Txs
  BY FS_EmptySet
<1>7. Blocks(ledger.chain, ledger.utxo) /\ Blocks(disk["chain"], disk["utxo"])
  BY <1>1, <1>2, <1>3, <1>4 DEF Blocks
<1>8. Cardinality(EmptyPool.txs) <= MaxSize
  BY <1>3, EmptyOrdered, ChainAssumption
<1>9. ledger = [chain |-> ledger.chain, utxo |-> ledger.utxo]
  BY <1>1, <1>2, Zenon
<1>10. PoolOK(disk["pool"])
  BY <1>1, <1>4, <1>5
<1> QED
  BY <1>1, <1>5, <1>6, <1>7, <1>8, <1>9, <1>10, EmptyOrdered, ListInit DEF PoolInv

\* What a call leaves of the chain and its pools.
Kept ==
  /\ ledger' = [chain |-> ledger'.chain, utxo |-> ledger'.utxo] /\ Blocks(ledger'.chain, ledger'.utxo)
  /\ feeMarket' \in SUBSET Txs /\ IsFiniteSet(feeMarket')
  /\ PoolOK(pool')
  /\ Ordered(pool) /\ Cardinality(pool.txs) <= MaxSize =>
       Ordered(pool') /\ Cardinality(pool'.txs) <= MaxSize

LEMMA PoolOpKept ==
  ASSUME PoolInv, PoolOp
  PROVE  Kept
<1>1. UNCHANGED <<ledger, feeMarket>> /\ PoolOK(pool)
  BY DEF PoolOp, PoolInv
<1>2. ASSUME NEW tx \in Txs, MempoolAdd(tx) PROVE Kept
  <2>1. tx \notin pool.txs /\ pool' = Added(tx)
    BY <1>2 DEF MempoolAdd
  <2> QED
    BY <1>1, <2>1, AddedKeeps DEF Kept, PoolInv
<1>3. ASSUME NEW expired \in SUBSET pool.txs, PurgeExpired(expired) PROVE Kept
  <2>1. PICK order \in SetToSeqs(expired) : pool' = RemovedAll(order)
    BY <1>3 DEF PurgeExpired
  <2>2. pool.txs \in SUBSET Txs /\ IsFiniteSet(pool.txs)
    BY <1>1, PoolFields DEF PoolOK
  <2>3. IsFiniteSet(expired) /\ expired \in SUBSET Txs
    BY <1>3, <2>2, FS_Subset
  <2> QED
    BY <1>1, <2>1, <2>3, RemovedAllKeeps DEF Kept, PoolInv
<1> QED
  BY <1>2, <1>3 DEF PoolOp

LEMMA SubmitKept ==
  ASSUME PoolInv, SubmitTransaction
  PROVE  Kept
<1>1. PICK tx \in Txs : AddTransaction(tx)
  BY DEF SubmitTransaction
<1>2. /\ ledger' = ledger /\ feeMarket' = feeMarket \cup {tx}
      /\ pool' = IF tx \in pool.txs THEN Calm ELSE Added(tx)
  BY <1>1 DEF AddTransaction
<1>3. feeMarket' \in SUBSET Txs /\ IsFiniteSet(feeMarket')
  BY <1>2, FS_AddElement DEF PoolInv
<1>4. PoolOK(pool)
  BY DEF PoolInv
<1>5. /\ PoolOK(pool')
      /\ Ordered(pool) /\ Cardinality(pool.txs) <= MaxSize =>
           Ordered(pool') /\ Cardinality(pool'.txs) <= MaxSize
  <2>1. CASE tx \in pool.txs
    <3>1. pool' = Calm
      BY <1>2, <2>1
    <3> QED
      BY <1>4, <3>1, CalmIs
  <2>2. CASE tx \notin pool.txs
    <3>1. pool' = Added(tx)
      BY <1>2, <2>2
    <3> QED
      BY <1>4, <2>2, <3>1, AddedKeeps
  <2> QED
    BY <2>1, <2>2
<1> QED
  BY <1>2, <1>3, <1>5 DEF Kept, PoolInv

LEMMA MineKept ==
  ASSUME PoolInv, MineOp
  PROVE  Kept
<1> DEFINE chain == Append(ledger.chain, Mined)
           utxo == (ledger.utxo \ {Spends[t] : t \in Mined}) \cup {Len(ledger.chain) + 1} \cup Mined
<1>1. /\ Len(ledger.chain) < MaxHeight
      /\ ledger' = [chain |-> chain, utxo |-> utxo]
      /\ feeMarket' = feeMarket \ Mined
      /\ \E order \in SetToSeqs(Mined) : pool' = RemovedAll(order)
  BY DEF MineOp, MineBlock
<1>2. /\ ledger.chain \in Seq(SUBSET Txs) /\ ledger.utxo \in SUBSET Coins
      /\ feeMarket \in SUBSET Txs /\ IsFiniteSet(feeMarket) /\ PoolOK(pool)
  BY DEF PoolInv, Blocks
<1>3. Mined \in SUBSET feeMarket
  BY DEF Mined
<1>4. Mined \in SUBSET Txs /\ IsFiniteSet(Mined)
  BY <1>2, <1>3, FS_Subset
<1>5. chain \in Seq(SUBSET Txs)
  BY <1>2, <1>4
<1>6. Len(ledger.chain) + 1 \in 0..MaxHeight
  <2>1. Len(ledger.chain) \in Nat /\ MaxHeight \in Nat
    BY <1>2, ChainAssumption
  <2> QED
    BY <1>1, <2>1
<1>7. utxo \in SUBSET Coins
  BY <1>2, <1>4, <1>6 DEF Coins
<1>8. feeMarket' \in SUBSET Txs /\ IsFiniteSet(feeMarket')
  <2>1. feeMarket \ Mined \in SUBSET feeMarket
    OBVIOUS
  <2>2. IsFiniteSet(feeMarket \ Mined)
    BY <1>2, <2>1, FS_Subset
  <2> QED
    BY <1>1, <1>2, <2>2
<1> HIDE DEF chain, utxo
<1>9. ledger'.chain = chain /\ ledger'.utxo = utxo
  BY <1>1
<1>10. PICK order \in SetToSeqs(Mined) : pool' = RemovedAll(order)
  BY <1>1
<1>11. /\ PoolOK(pool')
       /\ Ordered(pool) /\ Cardinality(pool.txs) <= MaxSize =>
            Ordered(pool') /\ Cardinality(pool'.txs) <= MaxSize
  BY <1>2, <1>4, <1>10, RemovedAllKeeps
<1>12. ledger' = [chain |-> ledger'.chain, utxo |-> ledger'.utxo]
  BY <1>1, <1>9, Zenon
<1> QED
  BY <1>5, <1>7, <1>8, <1>9, <1>11, <1>12 DEF Kept, Blocks

LEMMA PoolInvStep ==
  ASSUME PoolInv, [Next]_vars
  PROVE  PoolInv'
<1>1. ListInv' /\ client \in Clients /\ StoreInv
  BY ListStep DEF PoolInv, ListInv, StoreInv
<1>2. CASE Calls
  <2>1. disk' = disk /\ restarts' = restarts
    BY <1>1, <1>2, CallFrame
  <2>2. CASE PoolOp \/ SubmitTransaction \/ MineOp
    <3>1. Kept
      BY <2>2, PoolOpKept, SubmitKept, MineKept
    <3> QED
      BY <1>1, <2>1, <3>1 DEF PoolInv, Kept
  <2>3. CASE UNCHANGED <<ledger, feeMarket, pool>>
    BY <1>1, <2>1, <2>3 DEF PoolInv
  <2> QED
    BY <1>2, <2>2, <2>3, CallsOfParts
<1>3. CASE Put
  <2>1. UNCHANGED <<ledger, feeMarket, pool, restarts>>
    BY <1>3, PutKeeps DEF memory
  <2>2. /\ disk'["chain"] = IF "chain" = Head(writes) THEN Image["chain"] ELSE disk["chain"]
        /\ disk'["utxo"] = IF "utxo" = Head(writes) THEN Image["utxo"] ELSE disk["utxo"]
        /\ disk'["pool"] = IF "pool" = Head(writes) THEN Image["pool"] ELSE disk["pool"]
    BY <1>1, <1>3, PutOne DEF Keys
  <2>3. Image["chain"] = ledger.chain /\ Image["utxo"] = ledger.utxo /\ Image["pool"] = SavedPool(pool)
    BY Zenon DEF Image, SavedPool
  <2>4. PoolOK(disk'["pool"]) /\ Blocks(disk'["chain"], disk'["utxo"])
    BY <2>2, <2>3, SavedPoolOK DEF PoolInv, Blocks
  <2> QED
    BY <1>1, <2>1, <2>4 DEF PoolInv
<1>4. CASE Restart
  <2>1. /\ ledger' = [chain |-> disk["chain"], utxo |-> disk["utxo"]] /\ feeMarket' = {}
        /\ pool' = IF "pool" \in saved THEN disk["pool"] ELSE EmptyPool
        /\ disk' = disk /\ restarts' = restarts + 1
    BY <1>4 DEF Restart
  <2>2. ledger'.chain = disk["chain"] /\ ledger'.utxo = disk["utxo"]
    BY <2>1
  <2>3. ledger' = [chain |-> ledger'.chain, utxo |-> ledger'.utxo]
    BY <2>1, <2>2, Zenon
  <2>4. PoolOK(pool')
    BY <2>1, EmptyOrdered DEF PoolInv, Ordered
  <2>5. restarts' \in Nat /\ restarts' # 0
    BY <2>1 DEF PoolInv
  <2>6. feeMarket' \in SUBSET Txs /\ IsFiniteSet(feeMarket')
    BY <2>1, FS_EmptySet
  <2> QED
    BY <1>1, <2>1, <2>2, <2>3, <2>4, <2>5, <2>6 DEF PoolInv
<1>5. CASE Rests
  BY <1>1, <1>5 DEF Rests, memory, PoolInv
<1> QED
  BY <1>2, <1>3, <1>4, <1>5, StepKinds

\* Until the first restart, what is listed by fee are the transactions of the
\* mempool, each once and beside its fee.
LEMMA OrderedInOrder ==
  ASSUME PoolInv
  PROVE  PoolInOrder
<1> SUFFICES ASSUME restarts = 0
             PROVE  /\ Listed = pool.txs /\ Len(pool.byFee) = Cardinality(pool.txs) /\ ~pool.raised
                    /\ Cardinality(pool.txs) <= MaxSize
                    /\ pool.negFees = [i \in DOMAIN pool.byFee |-> Fee[pool.byFee[i]]]
                    /\ \A i \in 1..Len(pool.negFees) - 1 : pool.negFees[i] >= pool.negFees[i + 1]
  BY DEF PoolInOrder
<1>1. PoolOK(pool) /\ Ordered(pool) /\ Cardinality(pool.txs) <= MaxSize
  BY DEF PoolInv
<1>2. ~pool.raised /\ Lists(pool.byFee, pool.negFees, pool.txs) /\ pool \in PoolRecords
  BY <1>1 DEF Ordered, PoolOK
<1>3. /\ Len(pool.negFees) = Len(pool.byFee) /\ Cardinality(pool.txs) = Len(pool.byFee)
      /\ \A i \in 1..Len(pool.byFee) : pool.negFees[i] = Fee[pool.byFee[i]] /\ pool.byFee[i] \in pool.txs
      /\ \A t \in pool.txs : \E i \in 1..Len(pool.byFee) : pool.byFee[i] = t
      /\ \A i, j \in 1..Len(pool.byFee) : i < j => pool.negFees[i] >= pool.negFees[j]
  BY <1>2 DEF Lists
<1>4. /\ pool.byFee \in Seq(Txs) /\ pool.negFees \in Seq(Nat) /\ Len(pool.byFee) \in Nat
      /\ DOMAIN pool.byFee = 1..Len(pool.byFee) /\ DOMAIN pool.negFees = 1..Len(pool.negFees)
  BY <1>2, PoolFields
<1>5. Listed = pool.txs
  <2> DEFINE b == pool.byFee
             S == pool.txs
  <2>1. DOMAIN b = 1..Len(b) /\ (\A i \in 1..Len(b) : b[i] \in S) /\ \A t \in S : \E i \in 1..Len(b) : b[i] = t
    BY <1>3, <1>4
  <2> HIDE DEF b, S
  <2>2. {b[i] : i \in DOMAIN b} = S
    BY <2>1
  <2> QED
    BY <2>2, Zenon DEF Listed, ToSet, b, S
<1>6. pool.negFees = [i \in DOMAIN pool.byFee |-> Fee[pool.byFee[i]]]
  <2>1. pool.negFees = [i \in 1..Len(pool.negFees) |-> pool.negFees[i]]
    BY <1>4
  <2>2. \A i \in DOMAIN pool.byFee : pool.negFees[i] = Fee[pool.byFee[i]]
    BY <1>3, <1>4
  <2> QED
    BY <1>3, <1>4, <2>1, <2>2, Zenon
<1>7. \A i \in 1..Len(pool.negFees) - 1 : pool.negFees[i] >= pool.negFees[i + 1]
  <2> SUFFICES ASSUME NEW i \in 1..Len(pool.negFees) - 1
               PROVE  pool.negFees[i] >= pool.negFees[i + 1]
    OBVIOUS
  <2>1. i \in 1..Len(pool.byFee) /\ i + 1 \in 1..Len(pool.byFee) /\ i < i + 1
    BY <1>3, <1>4
  <2> QED
    BY <1>3, <2>1
<1> QED
  BY <1>1, <1>2, <1>3, <1>5, <1>6, <1>7

\* Until the first restart, the mempool lists exactly its transactions, best
\* paid first, beside their fees, and keeps to its size.
THEOREM NodePoolInOrder == Spec => []PoolInOrder
<1>1. Init => PoolInv
  BY PoolInvInit
<1>2. PoolInv /\ [Next]_vars => PoolInv'
  BY PoolInvStep
<1>3. PoolInv => PoolInOrder
  BY OrderedInOrder
<1> QED
  BY <1>1, <1>2, <1>3, PTL DEF Spec

-----------------------------------------------------------------------------
(* The vaults: what was withdrawn and is held is between what was deposited *)
(* and that with its interest.                                              *)

\* Rounding down keeps the order.
LEMMA QuotientOrder ==
  ASSUME NEW x \in Nat, NEW y \in Nat, NEW k \in Nat \ {0}, x <= y
  PROVE  x \div k \in Nat /\ y \div k \in Nat /\ x \div k <= y \div k
<1> DEFINE p == x \div k
           q == y \div k
<1>1. p \in Nat /\ q \in Nat /\ k * p <= x /\ y < k * q + k
  OBVIOUS
<1> HIDE DEF p, q
<1>2. CASE p > q
  <2>1. p = q + 1 + (p - q - 1) /\ p - q - 1 \in Nat
    BY <1>1, <1>2
  <2> DEFINE r == p - q - 1
  <2>2. k * p = k * q + k + k * r
    BY <1>1, <2>1
  <2>3. k * r \in Nat /\ k * q \in Nat /\ k * p \in Nat
    BY <1>1, <2>1
  <2> HIDE DEF r
  <2>4. FALSE
    BY <1>1, <2>2, <2>3
  <2> QED
    BY <2>4
<1> QED
  BY <1>1, <1>2 DEF p, q

LEMMA ProductOrder ==
  ASSUME NEW a \in Nat, NEW b \in Nat, NEW c \in Nat, NEW d \in Nat, a <= b, c <= d
  PROVE  a * c \in Nat /\ b * d \in Nat /\ a * c <= b * d
<1>1. PICK r \in Nat : b = a + r
  <2>1. b - a \in Nat /\ b = a + (b - a)
    OBVIOUS
  <2> QED
    BY <2>1
<1>2. PICK s \in Nat : d = c + s
  <2>1. d - c \in Nat /\ d = c + (d - c)
    OBVIOUS
  <2> QED
    BY <2>1
<1>3. (a + r) * (c + s) = a * c + a * s + r * c + r * s
  OBVIOUS
<1>4. a * c \in Nat /\ a * s \in Nat /\ r * c \in Nat /\ r * s \in Nat
  OBVIOUS
<1> QED
  BY <1>1, <1>2, <1>3, <1>4

\* The interest of an amount, or of more, over a time, or longer.
LEMMA InterestOrder ==
  ASSUME NEW m \in Nat, NEW n \in Nat, NEW apy \in Nat, NEW t \in Nat, NEW u \in Nat,
         m <= n, t <= u
  PROVE  /\ (((m * apy) \div 100) * t) \div Year \in Nat
         /\ (((m * apy) \div 100) * t) \div Year <= (((n * apy) \div 100) * u) \div Year
<1>1. m * apy \in Nat /\ n * apy \in Nat /\ m * apy <= n * apy
  BY ProductOrder
<1> DEFINE a == m * apy
           b == n * apy
           c == a \div 100
           d == b \div 100
<1> HIDE DEF a, b
<1>2. c \in Nat /\ d \in Nat /\ c <= d
  BY <1>1, QuotientOrder DEF a, b
<1> HIDE DEF c, d
<1>3. c * t \in Nat /\ d * u \in Nat /\ c * t <= d * u
  BY <1>2, ProductOrder
<1> DEFINE e == c * t
           f == d * u
<1> HIDE DEF e, f
<1>4. Year \in Nat \ {0}
  BY VaultAssumption
<1>5. e \div Year \in Nat /\ e \div Year <= f \div Year
  BY <1>3, <1>4, QuotientOrder DEF e, f
<1> QED
  BY <1>5 DEF a, b, c, d, e, f

\* A deposit, or what is left of one.
Earns(a, at) == a.amount \in Nat /\ a.strategy \in Strategies /\ a.entry \in Nat /\ a.entry <= at

LEMMA ValueOrder ==
  ASSUME NEW at \in Nat, NEW time \in Nat, at <= time, NEW a, NEW b, Earns(a, at), Earns(b, time),
         a.strategy = b.strategy, a.entry = b.entry, a.amount <= b.amount
  PROVE  /\ Accrued(a, at) \in Nat /\ Value(a, at) \in Nat /\ Value(a, at) = a.amount + Accrued(a, at)
         /\ Accrued(a, at) <= Accrued(b, time)
<1>1. /\ a.amount \in Nat /\ b.amount \in Nat /\ Apy[a.strategy] \in Nat
      /\ at - a.entry \in Nat /\ time - a.entry \in Nat /\ at - a.entry <= time - a.entry
  BY VaultAssumption DEF Earns
<1> DEFINE m == a.amount
           n == b.amount
           apy == Apy[a.strategy]
           t == at - a.entry
           u == time - a.entry
<1> HIDE DEF m, n, apy, t, u
<1>2. /\ (((m * apy) \div 100) * t) \div Year \in Nat
      /\ (((m * apy) \div 100) * t) \div Year <= (((n * apy) \div 100) * u) \div Year
  <2>1. m \in Nat /\ n \in Nat /\ apy \in Nat /\ t \in Nat /\ u \in Nat /\ m <= n /\ t <= u
    BY <1>1 DEF m, n, apy, t, u
  <2> QED
    BY <2>1, InterestOrder, ZenonT(60)
<1>3. Accrued(a, at) = (((m * apy) \div 100) * t) \div Year
  BY DEF Accrued, m, apy, t
<1>4. Accrued(b, time) = (((n * apy) \div 100) * u) \div Year
  BY Zenon DEF Accrued, n, apy, u
<1>5. Value(a, at) = a.amount + Accrued(a, at)
  BY DEF Value
<1> QED
  BY <1>1, <1>2, <1>3, <1>4, <1>5

LEMMA ValueType ==
  ASSUME NEW at \in Nat, NEW a, Earns(a, at)
  PROVE  Value(a, at) \in Nat /\ Accrued(a, at) \in Nat /\ Value(a, at) = a.amount + Accrued(a, at)
<1>1. at <= at /\ a.amount <= a.amount
  BY DEF Earns
<1> QED
  BY <1>1, ValueOrder

\* A sum over one place more.
LEMMA SumLast ==
  ASSUME NEW n \in Nat, NEW f, NEW g, \A i \in 1..n : g[i] = f[i],
         \A i \in 1..(n + 1) : g[i] \in Int
  PROVE  SumFunctionOnSet(g, 1..(n + 1)) = SumFunctionOnSet(f, 1..n) + g[n + 1]
<1>1. IsFiniteSet(1..n) /\ n + 1 \notin 1..n /\ 1..(n + 1) = (1..n) \cup {n + 1}
  BY FS_Interval
<1>2. \A i \in (1..n) \cup {n + 1} : g[i] \in Int
  BY <1>1
<1>3. SumFunctionOnSet(g, (1..n) \cup {n + 1}) = SumFunctionOnSet(g, 1..n) + g[n + 1]
  <2> DEFINE S == 1..n
             x == n + 1
  <2>1. IsFiniteSet(S) /\ x \notin S /\ \A i \in S \cup {x} : g[i] \in Int
    BY <1>1, <1>2
  <2> HIDE DEF S, x
  <2>2. SumFunctionOnSet(g, S \cup {x}) = SumFunctionOnSet(g, S) + g[x]
    BY <2>1, SumAdd
  <2> QED
    BY <2>2 DEF S, x
<1>4. SumFunctionOnSet(g, 1..n) = SumFunctionOnSet(f, 1..n)
  BY <1>1, SumSame
<1> QED
  BY <1>1, <1>3, <1>4

LEMMA UpTo ==
  ASSUME NEW n \in Nat
  PROVE  IsFiniteSet(1..n)
<1>1. 1 \in Int /\ n \in Int
  OBVIOUS
<1> QED
  BY <1>1, FS_Interval

\* What is taken from the allocations, the newest first, is what is paid out.
Newer(T, i) == {j \in T : j > i}

LEMMA NewerIs ==
  ASSUME NEW L \in Nat, NEW T \in SUBSET (1..L)
  PROVE  /\ Newer(T, 0) = T /\ Newer(T, L) = {}
         /\ \A i \in 0..L : Newer(T, i) \in SUBSET (1..L)
         /\ \A i \in 1..L : /\ i \in T => Newer(T, i - 1) = Newer(T, i) \cup {i} /\ i \notin Newer(T, i)
                            /\ i \notin T => Newer(T, i - 1) = Newer(T, i)
<1>1. \A j \in T : j \in 1..L /\ j \in Int /\ j > 0 /\ ~(j > L)
  OBVIOUS
<1>2. Newer(T, 0) = T /\ Newer(T, L) = {}
  BY <1>1 DEF Newer
<1>3. \A i \in 0..L : Newer(T, i) \in SUBSET (1..L)
  BY <1>1 DEF Newer
<1>4. ASSUME NEW i \in 1..L
      PROVE  /\ i \in T => Newer(T, i - 1) = Newer(T, i) \cup {i} /\ i \notin Newer(T, i)
             /\ i \notin T => Newer(T, i - 1) = Newer(T, i)
  <2>1. \A j \in Int : j > i - 1 <=> j > i \/ j = i
    OBVIOUS
  <2>2. \A j \in T : j > i - 1 <=> j > i \/ j = i
    BY <1>1, <2>1
  <2>3. ~(i > i)
    OBVIOUS
  <2> QED
    BY <2>2, <2>3 DEF Newer
<1> QED
  BY <1>2, <1>3, <1>4

Taking(take, L, T, val, actual) ==
  /\ \A i \in 1..L : val[i] \in Nat
  /\ actual \in Nat /\ actual <= SumFunctionOnSet(val, T)
  /\ \A i \in 1..L :
       take[i] = IF i \in T THEN Lesser(actual - Lesser(actual, SumFunctionOnSet(val, Newer(T, i))), val[i])
                 ELSE 0

LEMMA TakenAdds ==
  ASSUME NEW L \in Nat, NEW T \in SUBSET (1..L), NEW val, NEW actual, NEW take,
         Taking(take, L, T, val, actual)
  PROVE  /\ \A i \in 1..L : take[i] \in Nat /\ take[i] <= val[i]
         /\ SumFunctionOnSet(take, 1..L) = actual
<1> DEFINE after(i) == SumFunctionOnSet(val, Newer(T, i))
           rest(i) == Lesser(actual, after(i))
           G == {n \in 0..L : SumFunctionOnSet(take, 1..n) = actual - rest(n)}
<1>0. (\A i \in 1..L : val[i] \in Nat) /\ actual \in Nat /\ actual <= SumFunctionOnSet(val, T)
  BY DEF Taking
<1>1. \A i \in 0..L : IsFiniteSet(Newer(T, i)) /\ after(i) \in Nat
  <2> SUFFICES ASSUME NEW i \in 0..L
               PROVE  IsFiniteSet(Newer(T, i)) /\ after(i) \in Nat
    OBVIOUS
  <2>1. IsFiniteSet(1..L) /\ Newer(T, i) \in SUBSET (1..L)
    <3>1. IsFiniteSet(1..L)
      BY FS_Interval
    <3> QED
      BY <3>1, NewerIs
  <2>2. IsFiniteSet(Newer(T, i))
    BY <2>1, FS_Subset
  <2>3. \A j \in Newer(T, i) : val[j] \in Nat
    BY <1>0, <2>1
  <2> QED
    BY <2>2, <2>3, SumNat
<1>2. \A i \in 1..L : i - 1 \in 0..L /\ after(i - 1) = after(i) + (IF i \in T THEN val[i] ELSE 0)
  <2> SUFFICES ASSUME NEW i \in 1..L
               PROVE  i - 1 \in 0..L /\ after(i - 1) = after(i) + (IF i \in T THEN val[i] ELSE 0)
    OBVIOUS
  <2>1. i - 1 \in 0..L /\ i \in 0..L
    OBVIOUS
  <2>2. CASE i \in T
    <3>1. Newer(T, i - 1) = Newer(T, i) \cup {i} /\ i \notin Newer(T, i)
      BY <2>2, NewerIs
    <3>2. \A j \in Newer(T, i) \cup {i} : val[j] \in Int
      BY <1>0, <2>1, NewerIs
    <3>3. SumFunctionOnSet(val, Newer(T, i) \cup {i}) = after(i) + val[i]
      BY <1>1, <2>1, <3>1, <3>2, SumAdd
    <3> QED
      BY <2>1, <2>2, <3>1, <3>3
  <2>3. CASE i \notin T
    <3>1. Newer(T, i - 1) = Newer(T, i)
      BY <2>3, NewerIs
    <3>2. after(i - 1) = after(i) /\ after(i) \in Nat
      BY <1>1, <2>1, <3>1
    <3> HIDE DEF after
    <3> QED
      BY <2>1, <2>3, <3>2
  <2> QED
    BY <2>2, <2>3
<1>3. after(0) = SumFunctionOnSet(val, T) /\ after(L) = 0
  <2>1. Newer(T, 0) = T /\ Newer(T, L) = {}
    BY NewerIs
  <2> QED
    BY <2>1, SumEmpty
<1>4. \A i \in 1..L : take[i] = IF i \in T THEN Lesser(actual - rest(i), val[i]) ELSE 0
  BY DEF Taking
<1> HIDE DEF after
<1>5. \A i \in 0..L : rest(i) \in Nat /\ rest(i) <= actual
  BY <1>0, <1>1 DEF Lesser
<1>6. rest(0) = actual /\ rest(L) = 0
  <2> DEFINE a == after(0)
             b == after(L)
  <2>1. 0 \in 0..L /\ a \in Nat /\ actual <= a /\ b = 0
    BY <1>0, <1>1, <1>3
  <2> HIDE DEF a, b
  <2>2. Lesser(actual, a) = actual /\ Lesser(actual, b) = 0
    BY <1>0, <2>1 DEF Lesser
  <2> QED
    BY <2>2 DEF a, b
<1>7. \A i \in 1..L : /\ take[i] \in Nat /\ take[i] <= val[i] /\ i - 1 \in 0..L
                      /\ take[i] = rest(i - 1) - rest(i)
  <2> SUFFICES ASSUME NEW i \in 1..L
               PROVE  /\ take[i] \in Nat /\ take[i] <= val[i] /\ i - 1 \in 0..L
                      /\ take[i] = rest(i - 1) - rest(i)
    OBVIOUS
  <2>1. /\ after(i) \in Nat /\ val[i] \in Nat /\ i \in 0..L /\ i - 1 \in 0..L
        /\ after(i - 1) = after(i) + (IF i \in T THEN val[i] ELSE 0)
    BY <1>0, <1>1, <1>2
  <2> DEFINE a == after(i)
             b == after(i - 1)
             v == val[i]
  <2>2. take[i] = IF i \in T THEN Lesser(actual - Lesser(actual, a), v) ELSE 0
    BY <1>4
  <2>3. rest(i) = Lesser(actual, a) /\ rest(i - 1) = Lesser(actual, b)
    OBVIOUS
  <2>4. a \in Nat /\ v \in Nat /\ b = a + (IF i \in T THEN v ELSE 0)
    BY <2>1
  <2> HIDE DEF a, b, rest
  <2>5. CASE i \in T
    BY <1>0, <2>1, <2>2, <2>3, <2>4, <2>5 DEF Lesser
  <2>6. CASE i \notin T
    BY <1>0, <2>1, <2>2, <2>3, <2>4, <2>6 DEF Lesser
  <2> QED
    BY <2>5, <2>6
<1> HIDE DEF rest
<1>8. 0 \in G
  <2>1. 1..0 = {}
    OBVIOUS
  <2>2. SumFunctionOnSet(take, 1..0) = 0
    BY <2>1, SumEmpty
  <2>3. SumFunctionOnSet(take, 1..0) = actual - rest(0) /\ 0 \in 0..L
    BY <1>0, <1>6, <2>2
  <2> QED
    BY <2>3, Zenon
<1>9. \A n \in 0..(L - 1) : n \in G => n + 1 \in G
  <2> SUFFICES ASSUME NEW n \in 0..(L - 1), n \in G
               PROVE  n + 1 \in G
    OBVIOUS
  <2>1. n \in Nat /\ n + 1 \in 0..L /\ n + 1 \in 1..L /\ (n + 1) - 1 = n /\ n \in 0..L
    OBVIOUS
  <2>2. \A i \in 1..(n + 1) : i \in 1..L
    BY <2>1
  <2>3. \A i \in 1..(n + 1) : take[i] \in Int
    BY <1>7, <2>2
  <2>4. SumFunctionOnSet(take, 1..(n + 1)) = SumFunctionOnSet(take, 1..n) + take[n + 1]
    BY <2>1, <2>3, SumLast
  <2>5. take[n + 1] = rest(n) - rest(n + 1)
    BY <1>7, <2>1
  <2> DEFINE m == n + 1
             a == rest(n)
             b == rest(m)
             s == SumFunctionOnSet(take, 1..n)
             t == SumFunctionOnSet(take, 1..m)
  <2>6. a \in Int /\ b \in Int /\ s = actual - a /\ t = s + take[m] /\ take[m] = a - b /\ m \in 0..L
    BY <1>5, <2>1, <2>4, <2>5
  <2> HIDE DEF m, a, b, s, t
  <2>7. t = actual - b
    BY <1>0, <2>6
  <2>8. m \in G
    BY <2>6, <2>7, Zenon DEF t, b
  <2> QED
    BY <2>8 DEF m
<1> HIDE DEF G
<1>10. 0..L \subseteq G
  BY <1>8, <1>9, BoundedInduction
<1>11. SumFunctionOnSet(take, 1..L) = actual - rest(L)
  BY <1>10 DEF G
<1>12. actual - 0 = actual
  BY <1>0
<1> QED
  BY <1>6, <1>7, <1>11, <1>12, Zenon

\* The places of the allocations that still hold something, in order.
Leftovers == [amount : Nat, strategy : Strategies, entry : Nat]

KeepsNonempty(kept, m, all, n) ==
  /\ m \in Seq(1..n) /\ Len(kept) = Len(m)
  /\ \A j \in 1..Len(m) : kept[j] = all[m[j]] /\ all[m[j]].amount > 0
  /\ \A j, k \in 1..Len(m) : m[j] = m[k] => j = k
  /\ \A i \in 1..n : all[i].amount > 0 => \E j \in 1..Len(m) : m[j] = i

LEMMA KeepsOne ==
  ASSUME NEW n \in Nat, NEW all \in Seq(Leftovers), n + 1 <= Len(all),
         NEW kept \in Seq(Leftovers), NEW m, KeepsNonempty(kept, m, all, n),
         NEW next, next = IF all[n + 1].amount > 0 THEN Append(kept, all[n + 1]) ELSE kept
  PROVE  \E w : KeepsNonempty(next, w, all, n + 1)
<1>1. /\ m \in Seq(1..n) /\ Len(kept) = Len(m)
      /\ \A j \in 1..Len(m) : kept[j] = all[m[j]] /\ all[m[j]].amount > 0
      /\ \A j, k \in 1..Len(m) : m[j] = m[k] => j = k
      /\ \A i \in 1..n : all[i].amount > 0 => \E j \in 1..Len(m) : m[j] = i
  BY DEF KeepsNonempty
<1>2. Len(m) \in Nat /\ \A j \in 1..Len(m) : m[j] \in 1..n /\ m[j] \in 1..(n + 1)
  BY <1>1
<1>3. CASE all[n + 1].amount > 0
  <2> DEFINE w == Append(m, n + 1)
  <2>1. m \in Seq(1..(n + 1)) /\ n + 1 \in 1..(n + 1)
    <3>1. m = [j \in 1..Len(m) |-> m[j]]
      BY <1>1
    <3>2. m \in [1..Len(m) -> 1..(n + 1)]
      BY <1>2, <3>1
    <3> QED
      BY <1>2, <3>2
  <2>2. /\ w \in Seq(1..(n + 1)) /\ Len(w) = Len(m) + 1 /\ w[Len(m) + 1] = n + 1
        /\ \A j \in 1..Len(m) : w[j] = m[j]
    BY <2>1
  <2>3. /\ next = Append(kept, all[n + 1]) /\ Len(next) = Len(m) + 1
        /\ next[Len(m) + 1] = all[n + 1] /\ \A j \in 1..Len(m) : next[j] = kept[j]
    BY <1>1, <1>2, <1>3
  <2> HIDE DEF w
  <2>4. \A j \in 1..(Len(m) + 1) : next[j] = all[w[j]] /\ all[w[j]].amount > 0
    <3> SUFFICES ASSUME NEW j \in 1..(Len(m) + 1)
                 PROVE  next[j] = all[w[j]] /\ all[w[j]].amount > 0
      OBVIOUS
    <3>1. j \in 1..Len(m) \/ j = Len(m) + 1
      BY <1>2
    <3> QED
      BY <1>1, <1>3, <2>2, <2>3, <3>1
  <2>5. \A j, k \in 1..(Len(m) + 1) : w[j] = w[k] => j = k
    <3> SUFFICES ASSUME NEW j \in 1..(Len(m) + 1), NEW k \in 1..(Len(m) + 1), w[j] = w[k]
                 PROVE  j = k
      OBVIOUS
    <3>1. (j \in 1..Len(m) \/ j = Len(m) + 1) /\ (k \in 1..Len(m) \/ k = Len(m) + 1)
      BY <1>2
    <3>2. \A l \in 1..Len(m) : w[l] = m[l] /\ m[l] # n + 1
      BY <1>2, <2>2, SMTT(40)
    <3> QED
      BY <1>1, <2>2, <3>1, <3>2
  <2>6. \A i \in 1..(n + 1) : all[i].amount > 0 => \E j \in 1..(Len(m) + 1) : w[j] = i
    <3> SUFFICES ASSUME NEW i \in 1..(n + 1), all[i].amount > 0
                 PROVE  \E j \in 1..(Len(m) + 1) : w[j] = i
      OBVIOUS
    <3>1. CASE i = n + 1
      BY <1>2, <2>2, <3>1
    <3>2. CASE i # n + 1
      <4>1. i \in 1..n
        BY <3>2
      <4>2. PICK j \in 1..Len(m) : m[j] = i
        BY <1>1, <4>1
      <4> QED
        BY <1>2, <2>2, <4>2
    <3> QED
      BY <3>1, <3>2
  <2>7. KeepsNonempty(next, w, all, n + 1)
    BY <2>2, <2>3, <2>4, <2>5, <2>6 DEF KeepsNonempty
  <2> QED
    BY <2>7
<1>4. CASE ~(all[n + 1].amount > 0)
  <2>1. m \in Seq(1..(n + 1))
    <3>1. m = [j \in 1..Len(m) |-> m[j]]
      BY <1>1
    <3>2. m \in [1..Len(m) -> 1..(n + 1)]
      BY <1>2, <3>1
    <3> QED
      BY <1>2, <3>2
  <2>2. \A i \in 1..(n + 1) : all[i].amount > 0 => i \in 1..n
    BY <1>4
  <2>3. next = kept
    BY <1>4
  <2>4. KeepsNonempty(next, m, all, n + 1)
    BY <1>1, <2>1, <2>2, <2>3 DEF KeepsNonempty
  <2> QED
    BY <2>4
<1> QED
  BY <1>3, <1>4

\* The recursion by which they are kept.
Drops(g, all) ==
  g = [n \in 0..Len(all) |-> IF n = 0 THEN <<>>
                             ELSE IF all[n].amount > 0 THEN Append(g[n - 1], all[n])
                             ELSE g[n - 1]]

LEMMA NonemptyIs ==
  ASSUME NEW all \in Seq(Leftovers)
  PROVE  Nonempty(all) \in Seq(Leftovers) /\ \E m : KeepsNonempty(Nonempty(all), m, all, Len(all))
<1> DEFINE X == Seq(Leftovers)
           T == Leftovers
           F == [q \in X \X T |-> IF q[2].amount > 0 THEN Append(q[1], q[2]) ELSE q[1]]
           k == CHOOSE g : Drops(g, all)
           N == Len(all)
<1>0. N \in Nat /\ (\A n \in 1..N : all[n] \in T) /\ <<>> \in X
  OBVIOUS
<1>1. F \in [X \X T -> X]
  <2> SUFFICES ASSUME NEW q \in X \X T
               PROVE  (IF q[2].amount > 0 THEN Append(q[1], q[2]) ELSE q[1]) \in X
    OBVIOUS
  <2>1. q[1] \in X /\ q[2] \in T
    OBVIOUS
  <2> HIDE DEF T
  <2>2. Append(q[1], q[2]) \in X
    BY <2>1 DEF T
  <2> QED
    BY <2>1, <2>2
<1>2. \A s \in X : \A a \in T : F[<<s, a>>] = IF a.amount > 0 THEN Append(s, a) ELSE s
  <2> SUFFICES ASSUME NEW s \in X, NEW a \in T
               PROVE  F[<<s, a>>] = IF a.amount > 0 THEN Append(s, a) ELSE s
    OBVIOUS
  <2>1. <<s, a>> \in X \X T /\ <<s, a>>[1] = s /\ <<s, a>>[2] = a
    OBVIOUS
  <2> QED
    BY <2>1, Zenon
<1> HIDE DEF F, X, T
<1>3. ASSUME NEW g \in [0..Len(all) -> X], Folds(g, all, <<>>, F)
      PROVE  Drops(g, all)
  <2>1. \A n \in 0..Len(all) : g[n] = IF n = 0 THEN <<>>
                                      ELSE IF all[n].amount > 0 THEN Append(g[n - 1], all[n])
                                      ELSE g[n - 1]
    <3> SUFFICES ASSUME NEW n \in 0..Len(all)
                 PROVE  g[n] = IF n = 0 THEN <<>>
                               ELSE IF all[n].amount > 0 THEN Append(g[n - 1], all[n])
                               ELSE g[n - 1]
      OBVIOUS
    <3>1. CASE n = 0
      BY <1>3, <3>1 DEF Folds
    <3>2. CASE n # 0
      <4>1. n \in 1..Len(all) /\ n - 1 \in 0..Len(all)
        BY <1>0, <3>2
      <4>2. g[n] = F[<<g[n - 1], all[n]>>] /\ g[n - 1] \in X /\ all[n] \in T
        BY <1>0, <1>3, <4>1 DEF Folds
      <4> QED
        BY <1>2, <3>2, <4>2
    <3> QED
      BY <3>1, <3>2
  <2>2. g = [n \in 0..Len(all) |-> g[n]]
    OBVIOUS
  <2> QED
    BY <2>1, <2>2, Zenon DEF Drops
<1>4. Drops(k, all)
  <2>1. all \in Seq(T)
    BY DEF T
  <2>2. \E g \in [0..Len(all) -> X] : Folds(g, all, <<>>, F)
    BY <1>0, <1>1, <2>1, FoldExists
  <2> QED
    BY <1>3, <2>2
<1>5. Nonempty(all) = k[N]
  BY DEF Nonempty, Drops
<1> HIDE DEF k
<1>6. \A n \in 0..N : k[n] = IF n = 0 THEN <<>>
                             ELSE IF all[n].amount > 0 THEN Append(k[n - 1], all[n])
                             ELSE k[n - 1]
  BY <1>4, Zenon DEF Drops
<1> DEFINE G == {n \in 0..N : k[n] \in Seq(Leftovers) /\ \E m : KeepsNonempty(k[n], m, all, n)}
<1>7. 0 \in G
  <2>1. k[0] = <<>> /\ <<>> \in Seq(Leftovers) /\ <<>> \in Seq(1..0) /\ Len(<<>>) = 0
    BY <1>0, <1>6
  <2>2. KeepsNonempty(<<>>, <<>>, all, 0)
    BY <2>1 DEF KeepsNonempty
  <2> DEFINE q == <<>>
             x == k[0]
  <2>3. x \in Seq(Leftovers) /\ KeepsNonempty(x, q, all, 0) /\ 0 \in 0..N
    BY <1>0, <2>1, <2>2
  <2> HIDE DEF q, x
  <2>4. x \in Seq(Leftovers) /\ \E m : KeepsNonempty(x, m, all, 0)
    BY <2>3, Zenon
  <2> QED
    BY <2>3, <2>4 DEF x
<1>8. \A n \in 0..(N - 1) : n \in G => n + 1 \in G
  <2> SUFFICES ASSUME NEW n \in 0..(N - 1), n \in G
               PROVE  n + 1 \in G
    OBVIOUS
  <2>1. n \in Nat /\ n + 1 \in 0..N /\ n + 1 # 0 /\ (n + 1) - 1 = n /\ n + 1 <= N /\ n + 1 \in 1..N
    BY <1>0
  <2>2. k[n + 1] = IF all[n + 1].amount > 0 THEN Append(k[n], all[n + 1]) ELSE k[n]
    BY <1>6, <2>1
  <2>3. PICK m : KeepsNonempty(k[n], m, all, n)
    OBVIOUS
  <2>4. k[n] \in Seq(Leftovers) /\ all[n + 1] \in Leftovers
    BY <1>0, <2>1 DEF T
  <2>5. k[n + 1] \in Seq(Leftovers)
    BY <2>2, <2>4
  <2>6. \E w : KeepsNonempty(k[n + 1], w, all, n + 1)
    BY <2>1, <2>2, <2>3, <2>4, KeepsOne
  <2> QED
    BY <2>1, <2>5, <2>6
<1> HIDE DEF G
<1>9. 0..N \subseteq G
  BY <1>0, <1>7, <1>8, BoundedInduction
<1>10. k[N] \in Seq(Leftovers) /\ \E m : KeepsNonempty(k[N], m, all, N)
  BY <1>0, <1>9 DEF G
<1> QED
  BY <1>5, <1>10

VaultRecords ==
  [exists : BOOLEAN, allocations : Seq(Allocation), deposits : Nat, withdrawals : Nat,
   history : Seq(Deposited \cup Withdrawn)]

GivenIn(v) == [i \in DOMAIN v.history |-> v.history[i].amount]
DepositsIn(v) == {i \in DOMAIN v.history : v.history[i].kind = "deposit"}
HeldIn(v) == [i \in DOMAIN v.allocations |-> v.allocations[i].amount]
Grown(h, at) == IF h.kind = "deposit" THEN Value(h, at) ELSE 0

\* Each allocation is what is left of a deposit of its own, and w is what was
\* taken from each deposit: no more than it lost, or than it had become when it
\* was taken out.
Backs(v, e, w, at) ==
  /\ \A i \in 1..Len(v.allocations) : e[i] \in 1..Len(v.history)
  /\ \A i, j \in 1..Len(v.allocations) : e[i] = e[j] => i = j
  /\ \A d \in 1..Len(v.history) : w[d] \in Nat
  /\ \A i \in 1..Len(v.allocations) :
       /\ v.history[e[i]].kind = "deposit"
       /\ v.history[e[i]].strategy = v.allocations[i].strategy
       /\ v.history[e[i]].entry = v.allocations[i].entry
       /\ w[e[i]] + v.allocations[i].amount <= v.history[e[i]].amount
  /\ \A d \in 1..Len(v.history) :
       (\A i \in 1..Len(v.allocations) : e[i] # d) => w[d] <= Grown(v.history[d], at)
  /\ v.withdrawals = SumFunctionOnSet(w, 1..Len(v.history))

VaultOK(v, at) ==
  /\ v \in VaultRecords
  /\ \A i \in 1..Len(v.history) : v.history[i].kind = "deposit" => v.history[i].entry <= at
  /\ v.deposits = SumFunctionOnSet(GivenIn(v), DepositsIn(v))
  /\ v.deposits <= v.withdrawals + SumFunctionOnSet(HeldIn(v), 1..Len(v.allocations))
  /\ \E e, w : Backs(v, e, w, at)

LEMMA EntryType ==
  ASSUME NEW h \in Deposited \cup Withdrawn
  PROVE  /\ h.amount \in Nat \ {0}
         /\ h.kind = "deposit" => h.strategy \in Strategies /\ h.entry \in Nat
<1>1. CASE h \in Deposited
  BY <1>1 DEF Deposited
<1>2. CASE h \in Withdrawn
  BY <1>2 DEF Withdrawn
<1> QED
  BY <1>1, <1>2

\* A vault by its fields.
LEMMA VaultFields ==
  ASSUME NEW v \in VaultRecords
  PROVE  /\ v = [exists |-> v.exists, allocations |-> v.allocations, deposits |-> v.deposits,
                 withdrawals |-> v.withdrawals, history |-> v.history]
         /\ v.exists \in BOOLEAN /\ v.allocations \in Seq(Allocation) /\ v.deposits \in Nat
         /\ v.withdrawals \in Nat /\ v.history \in Seq(Deposited \cup Withdrawn)
         /\ Len(v.allocations) \in Nat /\ DOMAIN v.allocations = 1..Len(v.allocations)
         /\ Len(v.history) \in Nat /\ DOMAIN v.history = 1..Len(v.history)
         /\ \A i \in 1..Len(v.allocations) :
              /\ v.allocations[i] \in Allocation /\ v.allocations[i].amount \in Nat \ {0}
              /\ v.allocations[i].strategy \in Strategies /\ v.allocations[i].entry \in Nat
         /\ \A i \in 1..Len(v.history) :
              /\ v.history[i] \in Deposited \cup Withdrawn /\ v.history[i].amount \in Nat \ {0}
              /\ v.history[i].kind = "deposit" =>
                   v.history[i].strategy \in Strategies /\ v.history[i].entry \in Nat
<1>1. /\ v = [exists |-> v.exists, allocations |-> v.allocations, deposits |-> v.deposits,
              withdrawals |-> v.withdrawals, history |-> v.history]
      /\ v.exists \in BOOLEAN /\ v.allocations \in Seq(Allocation) /\ v.deposits \in Nat
      /\ v.withdrawals \in Nat /\ v.history \in Seq(Deposited \cup Withdrawn)
  BY DEF VaultRecords
<1>2. /\ Len(v.allocations) \in Nat /\ DOMAIN v.allocations = 1..Len(v.allocations)
      /\ Len(v.history) \in Nat /\ DOMAIN v.history = 1..Len(v.history)
  BY <1>1
<1>3. ASSUME NEW i \in 1..Len(v.allocations)
      PROVE  /\ v.allocations[i] \in Allocation /\ v.allocations[i].amount \in Nat \ {0}
             /\ v.allocations[i].strategy \in Strategies /\ v.allocations[i].entry \in Nat
  <2>1. v.allocations[i] \in Allocation
    BY <1>1
  <2> QED
    BY <2>1 DEF Allocation
<1>4. ASSUME NEW i \in 1..Len(v.history)
      PROVE  /\ v.history[i] \in Deposited \cup Withdrawn /\ v.history[i].amount \in Nat \ {0}
             /\ v.history[i].kind = "deposit" =>
                  v.history[i].strategy \in Strategies /\ v.history[i].entry \in Nat
  <2>1. v.history[i] \in Deposited \cup Withdrawn
    BY <1>1
  <2> QED
    BY <2>1, EntryType
<1> QED
  BY <1>1, <1>2, <1>3, <1>4

\* What a vault is made of.
VaultOf(v, a, b, c, d, h) ==
  /\ a \in BOOLEAN /\ b \in Seq(Allocation) /\ c \in Nat /\ d \in Nat /\ h \in Seq(Deposited \cup Withdrawn)
  /\ v = [exists |-> a, allocations |-> b, deposits |-> c, withdrawals |-> d, history |-> h]

LEMMA VaultRecord ==
  ASSUME NEW v, NEW a, NEW b, NEW c, NEW d, NEW h, VaultOf(v, a, b, c, d, h)
  PROVE  /\ v \in VaultRecords /\ v.exists = a /\ v.allocations = b /\ v.deposits = c
         /\ v.withdrawals = d /\ v.history = h
  BY DEF VaultRecords, VaultOf

\* What an allocation and a deposit have become.
LEMMA WorthOf ==
  ASSUME NEW v, NEW at \in Nat, NEW e, NEW w, VaultOK(v, at), Backs(v, e, w, at)
  PROVE  /\ \A d \in 1..Len(v.history) :
              /\ Grown(v.history[d], at) \in Nat
              /\ v.history[d].kind = "deposit" => Earns(v.history[d], at)
         /\ \A i \in 1..Len(v.allocations) :
              /\ Earns(v.allocations[i], at) /\ Value(v.allocations[i], at) \in Nat
              /\ w[e[i]] + Value(v.allocations[i], at) <= Grown(v.history[e[i]], at)
<1>1. v \in VaultRecords
  BY DEF VaultOK
<1>2. ASSUME NEW d \in 1..Len(v.history)
      PROVE  /\ Grown(v.history[d], at) \in Nat
             /\ v.history[d].kind = "deposit" => Earns(v.history[d], at)
  <2>1. v.history[d].kind = "deposit" => Earns(v.history[d], at)
    BY <1>1, VaultFields DEF VaultOK, Earns
  <2>2. v.history[d].kind = "deposit" => Value(v.history[d], at) \in Nat
    BY <2>1, ValueType
  <2> QED
    BY <2>1, <2>2 DEF Grown
<1>3. ASSUME NEW i \in 1..Len(v.allocations)
      PROVE  /\ Earns(v.allocations[i], at) /\ Value(v.allocations[i], at) \in Nat
             /\ w[e[i]] + Value(v.allocations[i], at) <= Grown(v.history[e[i]], at)
  <2> DEFINE a == v.allocations[i]
             h == v.history[e[i]]
  <2>1. /\ e[i] \in 1..Len(v.history) /\ w[e[i]] \in Nat
        /\ h.kind = "deposit" /\ h.strategy = a.strategy /\ h.entry = a.entry
        /\ w[e[i]] + a.amount <= h.amount
    BY DEF Backs
  <2>2. a.amount \in Nat /\ a.strategy \in Strategies /\ a.entry \in Nat
    BY <1>1, VaultFields
  <2>3. Earns(h, at)
    BY <1>2, <2>1
  <2> HIDE DEF a, h
  <2>4. Earns(a, at)
    BY <2>1, <2>2, <2>3 DEF Earns
  <2>5. a.amount <= h.amount /\ h.amount \in Nat
    BY <2>1, <2>2, <2>3 DEF Earns
  <2>6. /\ Accrued(a, at) \in Nat /\ Value(a, at) \in Nat /\ Value(a, at) = a.amount + Accrued(a, at)
        /\ Accrued(a, at) <= Accrued(h, at)
    <3>1. at <= at
      OBVIOUS
    <3> QED
      BY <2>1, <2>3, <2>4, <2>5, <3>1, ValueOrder
  <2>7. Value(h, at) = h.amount + Accrued(h, at) /\ Accrued(h, at) \in Nat
    BY <2>3, ValueType
  <2>8. Grown(h, at) = Value(h, at)
    BY <2>1 DEF Grown
  <2>9. w[e[i]] + Value(a, at) <= Grown(h, at)
    BY <2>1, <2>2, <2>5, <2>6, <2>7, <2>8, SMTT(40)
  <2> QED
    BY <2>4, <2>6, <2>9 DEF a, h
<1> QED
  BY <1>2, <1>3

LEMMA BackedAddsUp ==
  ASSUME NEW v, NEW at \in Nat, VaultOK(v, at)
  PROVE  VaultAddsUp(v, at)
<1> DEFINE L == Len(v.allocations)
           H == Len(v.history)
           worth == [i \in DOMAIN v.allocations |-> Value(v.allocations[i], at)]
           grown == [i \in DOMAIN v.history |->
                       IF v.history[i].kind = "deposit" THEN Value(v.history[i], at) ELSE 0]
<1>1. v \in VaultRecords
  BY DEF VaultOK
<1>2. L \in Nat /\ H \in Nat /\ DOMAIN v.allocations = 1..L /\ DOMAIN v.history = 1..H
      /\ v.withdrawals \in Nat
  BY <1>1, VaultFields
<1>3. PICK e, w : Backs(v, e, w, at)
  BY DEF VaultOK
<1>4. /\ \A i \in 1..L : e[i] \in 1..H
      /\ \A i, j \in 1..L : e[i] = e[j] => i = j
      /\ \A d \in 1..H : w[d] \in Nat
      /\ \A d \in 1..H : (\A i \in 1..L : e[i] # d) => w[d] <= Grown(v.history[d], at)
      /\ v.withdrawals = SumFunctionOnSet(w, 1..H)
  BY <1>3 DEF Backs
<1>5. /\ \A d \in 1..H : Grown(v.history[d], at) \in Nat
      /\ \A i \in 1..L : /\ Value(v.allocations[i], at) \in Nat
                         /\ w[e[i]] + Value(v.allocations[i], at) <= Grown(v.history[e[i]], at)
  BY <1>3, WorthOf
<1>6. /\ \A i \in 1..L : worth[i] \in Nat /\ w[e[i]] + worth[i] <= grown[e[i]]
      /\ \A d \in 1..H : grown[d] \in Nat /\ ((\A i \in 1..L : e[i] # d) => w[d] <= grown[d])
  BY <1>2, <1>4, <1>5 DEF Grown
<1>7. IsFiniteSet(1..L) /\ IsFiniteSet(1..H)
  <2> HIDE DEF L, H
  <2>1. 1 \in Int /\ L \in Int /\ H \in Int
    BY <1>2
  <2> QED
    BY <2>1, FS_Interval
<1> DEFINE I == {e[i] : i \in 1..L}
           g == [d \in 1..H |-> IF d \in I THEN worth[CHOOSE i \in 1..L : e[i] = d] ELSE 0]
           h == [d \in 1..H |-> w[d] + g[d]]
<1> HIDE DEF worth, grown, L, H
<1>8. \A i \in 1..L : g[e[i]] = worth[i]
  <2> SUFFICES ASSUME NEW i \in 1..L
               PROVE  g[e[i]] = worth[i]
    OBVIOUS
  <2>1. (CHOOSE j \in 1..L : e[j] = e[i]) = i
    BY <1>4
  <2>2. e[i] \in 1..H /\ e[i] \in I
    BY <1>4
  <2> QED
    BY <2>1, <2>2, Zenon
<1>9. \A d \in 1..H : d \notin I => g[d] = 0
  OBVIOUS
<1>10. I \in SUBSET (1..H)
  BY <1>4
<1> HIDE DEF g
<1>11. \A d \in 1..H : d \in I => \E i \in 1..L : d = e[i] /\ g[d] = worth[i]
  BY <1>8
<1>12. \A d \in 1..H : d \notin I => \A i \in 1..L : e[i] # d
  OBVIOUS
<1>13. \A d \in 1..H : g[d] \in Nat /\ w[d] + g[d] <= grown[d]
  BY <1>4, <1>6, <1>9, <1>11, <1>12
<1>14. SumFunctionOnSet(worth, 1..L) = SumFunctionOnSet(g, I)
  <2>1. \A i \in 1..L : worth[i] \in Int /\ g[e[i]] = worth[i]
    BY <1>6, <1>8
  <2> DEFINE S == 1..L
  <2>2. IsFiniteSet(S)
    BY <1>7
  <2>3. \A i, j \in S : e[i] = e[j] => i = j
    BY <1>4
  <2>4. \A i \in S : worth[i] \in Int /\ g[e[i]] = worth[i]
    BY <2>1
  <2> HIDE DEF S
  <2>5. SumFunctionOnSet(worth, S) = SumFunctionOnSet(g, {e[i] : i \in S})
    BY <2>2, <2>3, <2>4, SumImage
  <2> QED
    BY <2>5 DEF S
<1>15. SumFunctionOnSet(g, I) = SumFunctionOnSet(g, 1..H)
  <2>1. \A d \in 1..H : g[d] \in Int /\ g[d] = IF d \in I THEN g[d] ELSE 0
    BY <1>9, <1>13
  <2> DEFINE S == 1..H
  <2>2. IsFiniteSet(S) /\ I \in SUBSET S
    BY <1>7, <1>10
  <2>3. \A d \in S : g[d] \in Int
    BY <2>1
  <2>4. \A d \in S : g[d] = IF d \in I THEN g[d] ELSE 0
    BY <2>1
  <2> HIDE DEF I, S
  <2>5. SumFunctionOnSet(g, I) = SumFunctionOnSet(g, S)
    BY <2>2, <2>3, <2>4, SumFilter
  <2> QED
    BY <2>5 DEF S
<1>16. SumFunctionOnSet(h, 1..H) = SumFunctionOnSet(w, 1..H) + SumFunctionOnSet(g, 1..H)
  <2>1. \A d \in 1..H : w[d] \in Int /\ g[d] \in Int /\ h[d] = w[d] + g[d]
    BY <1>4, <1>13
  <2> HIDE DEF h
  <2> QED
    BY <1>7, <2>1, SumPlus
<1>17. SumFunctionOnSet(h, 1..H) <= SumFunctionOnSet(grown, 1..H)
  <2>1. \A d \in 1..H : h[d] \in Int /\ grown[d] \in Int /\ h[d] <= grown[d]
    BY <1>4, <1>6, <1>13
  <2> HIDE DEF h
  <2> QED
    BY <1>7, <2>1, SumAtMost
<1>18. v.withdrawals + SumFunction(worth) <= SumFunction(grown)
  <2>1. SumFunction(worth) = SumFunctionOnSet(worth, 1..L)
    BY <1>2, Zenon DEF SumFunction, worth
  <2>2. SumFunction(grown) = SumFunctionOnSet(grown, 1..H)
    BY <1>2, Zenon DEF SumFunction, grown
  <2> QED
    BY <1>4, <1>14, <1>15, <1>16, <1>17, <2>1, <2>2
<1>19. SumFunction(HeldIn(v)) = SumFunctionOnSet(HeldIn(v), 1..L)
  BY <1>2, Zenon DEF SumFunction, HeldIn
<1>20. v.deposits = SumFunctionOnSet(GivenIn(v), DepositsIn(v))
  BY DEF VaultOK
<1>21. v.deposits <= v.withdrawals + SumFunction(HeldIn(v))
  BY <1>19 DEF VaultOK, L
<1> QED
  BY <1>18, <1>20, <1>21, Zenon DEF VaultAddsUp, HeldIn, GivenIn, DepositsIn, worth, grown

\* Time only adds interest.
LEMMA VaultLater ==
  ASSUME NEW v, NEW at \in Nat, VaultOK(v, at), NEW time \in Nat, at <= time
  PROVE  VaultOK(v, time)
<1>1. v \in VaultRecords
  BY DEF VaultOK
<1>2. PICK e, w : Backs(v, e, w, at)
  BY DEF VaultOK
<1>3. \A i \in 1..Len(v.history) : v.history[i].kind = "deposit" =>
         v.history[i].entry \in Nat /\ v.history[i].entry <= at /\ v.history[i].entry <= time
  BY <1>1, VaultFields DEF VaultOK
<1>4. ASSUME NEW d \in 1..Len(v.history)
      PROVE  Grown(v.history[d], at) \in Nat /\ Grown(v.history[d], at) <= Grown(v.history[d], time)
             /\ Grown(v.history[d], time) \in Nat
  <2> DEFINE h == v.history[d]
  <2>1. CASE h.kind = "deposit"
    <3>1. Earns(h, at) /\ h.amount \in Nat
      BY <1>2, <2>1, WorthOf DEF Earns
    <3>2. Earns(h, time)
      BY <1>3, <2>1, <3>1 DEF Earns
    <3>3. Grown(h, at) = Value(h, at) /\ Grown(h, time) = Value(h, time)
      BY <2>1 DEF Grown
    <3> HIDE DEF h
    <3>4. h.amount <= h.amount
      BY <3>1
    <3>5. Accrued(h, at) <= Accrued(h, time)
      BY <3>1, <3>2, <3>4, ValueOrder
    <3>6. /\ Value(h, at) = h.amount + Accrued(h, at) /\ Accrued(h, at) \in Nat /\ Value(h, at) \in Nat
          /\ Value(h, time) = h.amount + Accrued(h, time) /\ Accrued(h, time) \in Nat
          /\ Value(h, time) \in Nat
      BY <3>1, <3>2, ValueType
    <3>7. Grown(h, at) \in Nat /\ Grown(h, at) <= Grown(h, time) /\ Grown(h, time) \in Nat
      BY <3>1, <3>3, <3>5, <3>6
    <3> QED
      BY <3>7 DEF h
  <2>2. CASE h.kind # "deposit"
    BY <2>2 DEF Grown
  <2> QED
    BY <2>1, <2>2
<1>5. \A d \in 1..Len(v.history) :
        (\A i \in 1..Len(v.allocations) : e[i] # d) => w[d] <= Grown(v.history[d], time)
  BY <1>2, <1>4 DEF Backs
<1>6. Backs(v, e, w, time)
  BY <1>2, <1>5 DEF Backs
<1> QED
  BY <1>3, <1>6 DEF VaultOK

LEMMA NewVaultOK ==
  ASSUME NEW at \in Nat, NEW b \in BOOLEAN, NEW v,
         v = [exists |-> b, allocations |-> <<>>, deposits |-> 0, withdrawals |-> 0, history |-> <<>>]
  PROVE  VaultOK(v, at)
<1>1. <<>> \in Seq(Allocation) /\ <<>> \in Seq(Deposited \cup Withdrawn) /\ 0 \in Nat /\ Len(<<>>) = 0
      /\ DOMAIN <<>> = {} /\ 1..0 = {}
  OBVIOUS
<1>2. /\ v \in VaultRecords /\ v.allocations = <<>> /\ v.deposits = 0 /\ v.withdrawals = 0
      /\ v.history = <<>>
  <2> DEFINE q == <<>>
             z == 0
  <2>1. VaultOf(v, b, q, z, z, q)
    BY <1>1 DEF VaultOf
  <2> HIDE DEF q, z
  <2>2. v \in VaultRecords /\ v.allocations = q /\ v.deposits = z /\ v.withdrawals = z /\ v.history = q
    BY <2>1, VaultRecord
  <2> QED
    BY <2>2 DEF q, z
<1>3. DepositsIn(v) = {}
  BY <1>1, <1>2 DEF DepositsIn
<1>4. \A f : SumFunctionOnSet(f, {}) = 0
  BY SumEmpty
<1>5. Backs(v, <<>>, <<>>, at)
  BY <1>1, <1>2, <1>4 DEF Backs
<1>6. /\ v.deposits = SumFunctionOnSet(GivenIn(v), DepositsIn(v))
      /\ v.deposits <= v.withdrawals + SumFunctionOnSet(HeldIn(v), 1..Len(v.allocations))
  <2>1. 1..Len(v.allocations) = {}
    BY <1>1, <1>2
  <2>2. SumFunctionOnSet(HeldIn(v), 1..Len(v.allocations)) = 0
    BY <1>4, <2>1
  <2>3. SumFunctionOnSet(GivenIn(v), DepositsIn(v)) = 0
    BY <1>3, <1>4
  <2>4. v.deposits = 0 /\ v.withdrawals = 0
    BY <1>2
  <2> QED
    BY <2>2, <2>3, <2>4
<1> QED
  BY <1>1, <1>2, <1>5, <1>6 DEF VaultOK

\* The entries of a deposit and of a withdrawal.
LEMMA HistoryGrows ==
  ASSUME NEW v, NEW at \in Nat, VaultOK(v, at), NEW x \in Deposited \cup Withdrawn,
         NEW u \in VaultRecords, u.history = Append(v.history, x)
  PROVE  /\ Len(u.history) = Len(v.history) + 1 /\ Len(v.history) \in Nat
         /\ u.history[Len(v.history) + 1] = x
         /\ \A d \in 1..Len(v.history) : u.history[d] = v.history[d]
         /\ \A d \in 1..Len(v.history) : d \in 1..Len(u.history)
         /\ SumFunctionOnSet(GivenIn(u), DepositsIn(u)) =
              v.deposits + (IF x.kind = "deposit" THEN x.amount ELSE 0)
<1>1. v \in VaultRecords /\ v.deposits = SumFunctionOnSet(GivenIn(v), DepositsIn(v))
  BY DEF VaultOK
<1>2. v.history \in Seq(Deposited \cup Withdrawn) /\ Len(v.history) \in Nat /\ x.amount \in Nat
  BY <1>1, VaultFields, EntryType
<1> DEFINE H == Len(v.history)
<1>3. /\ Len(u.history) = H + 1 /\ u.history[H + 1] = x
      /\ \A d \in 1..H : u.history[d] = v.history[d]
  BY <1>2
<1>4. /\ DOMAIN v.history = 1..H /\ DOMAIN u.history = 1..(H + 1)
      /\ \A d \in 1..H : v.history[d].amount \in Nat
  BY <1>1, <1>3, VaultFields
<1> HIDE DEF H
<1>5. /\ H \in Nat /\ H + 1 \notin 1..H /\ H + 1 \in 1..(H + 1) /\ 1..(H + 1) = (1..H) \cup {H + 1}
  BY <1>2 DEF H
<1> DEFINE f == GivenIn(v)
           g == GivenIn(u)
           D == DepositsIn(v)
<1>6. /\ \A d \in 1..H : f[d] = v.history[d].amount /\ g[d] = f[d] /\ f[d] \in Nat /\ g[d] \in Int
      /\ g[H + 1] = x.amount
  BY <1>3, <1>4, <1>5 DEF GivenIn
<1>7. D \in SUBSET (1..H)
  BY <1>4 DEF DepositsIn
<1>8. DepositsIn(u) = IF x.kind = "deposit" THEN D \cup {H + 1} ELSE D
  BY <1>3, <1>4, <1>5 DEF DepositsIn
<1> HIDE DEF f, g, D
<1>9. IsFiniteSet(D) /\ H + 1 \notin D
  <2>1. IsFiniteSet(1..H)
    BY <1>5, UpTo
  <2> QED
    BY <1>5, <1>7, <2>1, FS_Subset
<1>10. SumFunctionOnSet(g, D) = SumFunctionOnSet(f, D)
  <2>1. \A d \in D : f[d] = g[d]
    BY <1>6, <1>7
  <2> QED
    BY <1>9, <2>1, SumSame
<1>11. SumFunctionOnSet(g, D \cup {H + 1}) = SumFunctionOnSet(g, D) + g[H + 1]
  <2>1. \A d \in D \cup {H + 1} : g[d] \in Int
    BY <1>2, <1>6, <1>7
  <2> QED
    BY <1>9, <2>1, SumAdd
<1>12. SumFunctionOnSet(f, D) \in Nat /\ SumFunctionOnSet(f, D) = v.deposits
  <2>1. \A d \in D : f[d] \in Nat
    BY <1>6, <1>7
  <2> QED
    BY <1>1, <1>9, <2>1, SumNat DEF f, D
<1>13. SumFunctionOnSet(GivenIn(u), DepositsIn(u)) =
         v.deposits + (IF x.kind = "deposit" THEN x.amount ELSE 0)
  BY <1>2, <1>6, <1>8, <1>10, <1>11, <1>12 DEF g
<1> QED
  BY <1>2, <1>3, <1>5, <1>13 DEF H

\* A deposit, and the vault it leaves.
Putting(v, at, n, s, a, x, u) ==
  /\ at \in Nat /\ VaultOK(v, at) /\ n \in Nat \ {0} /\ s \in Strategies
  /\ a = [amount |-> n, strategy |-> s, entry |-> at]
  /\ x = [kind |-> "deposit", amount |-> n, strategy |-> s, entry |-> at]
  /\ u = [exists |-> v.exists, allocations |-> Append(v.allocations, a), deposits |-> v.deposits + n,
          withdrawals |-> v.withdrawals, history |-> Append(v.history, x)]

LEMMA DepositOK ==
  ASSUME NEW v, NEW at, NEW n, NEW s, NEW a, NEW x, NEW u, Putting(v, at, n, s, a, x, u)
  PROVE  VaultOK(u, at)
<1> SUFFICES ASSUME at \in Nat, VaultOK(v, at), n \in Nat \ {0}, s \in Strategies,
                    a = [amount |-> n, strategy |-> s, entry |-> at],
                    x = [kind |-> "deposit", amount |-> n, strategy |-> s, entry |-> at],
                    u = [exists |-> v.exists, allocations |-> Append(v.allocations, a),
                         deposits |-> v.deposits + n, withdrawals |-> v.withdrawals,
                         history |-> Append(v.history, x)]
             PROVE  VaultOK(u, at)
  BY Zenon DEF Putting
<1>0. /\ a \in Allocation /\ x \in Deposited
      /\ a.amount = n /\ a.strategy = s /\ a.entry = at
      /\ x.kind = "deposit" /\ x.amount = n /\ x.strategy = s /\ x.entry = at
  BY DEF Allocation, Deposited
<1>1. v \in VaultRecords /\ x \in Deposited \cup Withdrawn
  BY <1>0 DEF VaultOK
<1>2. /\ v.exists \in BOOLEAN /\ v.allocations \in Seq(Allocation) /\ v.deposits \in Nat
      /\ v.withdrawals \in Nat /\ v.history \in Seq(Deposited \cup Withdrawn)
      /\ Len(v.allocations) \in Nat /\ Len(v.history) \in Nat
      /\ \A i \in 1..Len(v.allocations) : v.allocations[i].amount \in Nat
      /\ DOMAIN v.allocations = 1..Len(v.allocations)
  BY <1>1, VaultFields
<1> DEFINE b == Append(v.allocations, a)
           h == Append(v.history, x)
           c == v.deposits + n
<1>3. b \in Seq(Allocation) /\ h \in Seq(Deposited \cup Withdrawn) /\ c \in Nat
  BY <1>0, <1>1, <1>2
<1>4. /\ u \in VaultRecords /\ u.allocations = b /\ u.deposits = c
      /\ u.withdrawals = v.withdrawals /\ u.history = h
  <2> HIDE DEF b, c, h
  <2>1. u = [exists |-> v.exists, allocations |-> b, deposits |-> c, withdrawals |-> v.withdrawals,
             history |-> h]
    BY DEF b, c, h
  <2> DEFINE o == v.exists
             d == v.withdrawals
  <2>2. VaultOf(u, o, b, c, d, h)
    BY <1>2, <1>3, <2>1 DEF VaultOf
  <2> HIDE DEF o, d
  <2>3. u \in VaultRecords /\ u.allocations = b /\ u.deposits = c /\ u.withdrawals = d /\ u.history = h
    BY <2>2, VaultRecord
  <2> QED
    BY <2>3 DEF d
<1> DEFINE L == Len(v.allocations)
           H == Len(v.history)
<1>5. /\ Len(u.allocations) = L + 1 /\ u.allocations[L + 1] = a /\ DOMAIN u.allocations = 1..(L + 1)
      /\ \A i \in 1..L : u.allocations[i] = v.allocations[i]
  BY <1>2, <1>4
<1>6. /\ Len(u.history) = H + 1 /\ u.history[H + 1] = x
      /\ \A d \in 1..H : u.history[d] = v.history[d]
      /\ SumFunctionOnSet(GivenIn(u), DepositsIn(u)) = v.deposits + x.amount
  <2>1. u.history = Append(v.history, x)
    BY <1>4
  <2> QED
    BY <1>0, <1>1, <1>4, <2>1, HistoryGrows
<1>7. \A i \in 1..Len(u.history) : u.history[i].kind = "deposit" => u.history[i].entry <= at
  <2> SUFFICES ASSUME NEW i \in 1..(H + 1), u.history[i].kind = "deposit"
               PROVE  u.history[i].entry <= at
    BY <1>6
  <2>1. CASE i = H + 1
    BY <1>0, <1>6, <2>1
  <2>2. CASE i # H + 1
    <3>1. i \in 1..H
      BY <1>2, <2>2
    <3> QED
      BY <1>6, <3>1 DEF VaultOK
  <2> QED
    BY <2>1, <2>2
<1>8. u.deposits = SumFunctionOnSet(GivenIn(u), DepositsIn(u))
  BY <1>0, <1>4, <1>6
<1>9. u.deposits <= u.withdrawals + SumFunctionOnSet(HeldIn(u), 1..Len(u.allocations))
  <2> DEFINE f == HeldIn(v)
             g == HeldIn(u)
  <2>1. /\ \A i \in 1..L : f[i] = v.allocations[i].amount /\ g[i] = f[i] /\ f[i] \in Nat /\ i \in 1..(L + 1)
        /\ g[L + 1] = n
    BY <1>0, <1>2, <1>5, SMTT(40) DEF HeldIn
  <2> HIDE DEF f, g
  <2>2. \A i \in 1..(L + 1) : g[i] \in Int
    <3> SUFFICES ASSUME NEW i \in 1..(L + 1)
                 PROVE  g[i] \in Int
      OBVIOUS
    <3>1. i \in 1..L \/ i = L + 1
      BY <1>2
    <3> QED
      BY <2>1, <3>1
  <2>3. SumFunctionOnSet(g, 1..(L + 1)) = SumFunctionOnSet(f, 1..L) + g[L + 1]
    BY <1>2, <2>1, <2>2, SumLast
  <2>4. SumFunctionOnSet(f, 1..L) \in Nat
    <3>1. IsFiniteSet(1..L)
      BY <1>2, UpTo
    <3>2. \A i \in 1..L : f[i] \in Nat
      BY <2>1
    <3> HIDE DEF L
    <3> QED
      BY <3>1, <3>2, SumNat
  <2>5. v.deposits <= v.withdrawals + SumFunctionOnSet(f, 1..L)
    BY DEF VaultOK, f
  <2>6. SumFunctionOnSet(g, 1..(L + 1)) = SumFunctionOnSet(HeldIn(u), 1..Len(u.allocations))
    BY <1>5 DEF g
  <2> HIDE DEF L
  <2> QED
    BY <1>2, <1>4, <2>1, <2>3, <2>4, <2>5, <2>6
<1>10. PICK e, w : Backs(v, e, w, at)
  BY DEF VaultOK
<1> DEFINE k == [i \in 1..(L + 1) |-> IF i = L + 1 THEN H + 1 ELSE e[i]]
           y == [d \in 1..(H + 1) |-> IF d = H + 1 THEN 0 ELSE w[d]]
<1>11. /\ \A i \in 1..L : e[i] \in 1..H
       /\ \A i, j \in 1..L : e[i] = e[j] => i = j
       /\ \A d \in 1..H : w[d] \in Nat
       /\ \A i \in 1..L :
            /\ v.history[e[i]].kind = "deposit"
            /\ v.history[e[i]].strategy = v.allocations[i].strategy
            /\ v.history[e[i]].entry = v.allocations[i].entry
            /\ w[e[i]] + v.allocations[i].amount <= v.history[e[i]].amount
       /\ \A d \in 1..H : (\A i \in 1..L : e[i] # d) => w[d] <= Grown(v.history[d], at)
       /\ v.withdrawals = SumFunctionOnSet(w, 1..H)
  BY <1>10 DEF Backs
<1>12. L \in Nat /\ H \in Nat
  BY <1>2
<1> HIDE DEF L, H, b, c, h
<1>13. /\ L + 1 \in 1..(L + 1) /\ H + 1 \in 1..(H + 1) /\ H + 1 \notin 1..H
       /\ \A i \in 1..(L + 1) : i \in 1..L \/ i = L + 1
       /\ \A i \in 1..(H + 1) : i \in 1..H \/ i = H + 1
       /\ \A i \in 1..L : i \in 1..(L + 1) /\ i # L + 1
       /\ \A i \in 1..H : i \in 1..(H + 1) /\ i # H + 1
  BY <1>12
<1>14. /\ k[L + 1] = H + 1 /\ \A i \in 1..L : k[i] = e[i]
       /\ y[H + 1] = 0 /\ \A d \in 1..H : y[d] = w[d]
  BY <1>13
<1> HIDE DEF k, y
<1>15. \A i \in 1..(L + 1) : k[i] \in 1..(H + 1)
  BY <1>11, <1>13, <1>14
<1>16. \A i, j \in 1..(L + 1) : k[i] = k[j] => i = j
  <2> SUFFICES ASSUME NEW i \in 1..(L + 1), NEW j \in 1..(L + 1), k[i] = k[j]
               PROVE  i = j
    OBVIOUS
  <2>1. (i \in 1..L \/ i = L + 1) /\ (j \in 1..L \/ j = L + 1)
    BY <1>13
  <2> QED
    BY <1>11, <1>13, <1>14, <2>1
<1>17. \A d \in 1..(H + 1) : y[d] \in Nat
  <2> SUFFICES ASSUME NEW d \in 1..(H + 1)
               PROVE  y[d] \in Nat
    OBVIOUS
  <2>1. CASE d \in 1..H
    BY <1>11, <1>14, <2>1
  <2>2. CASE d = H + 1
    BY <1>14, <2>2
  <2> QED
    BY <1>13, <2>1, <2>2
<1>18. ASSUME NEW i \in 1..(L + 1)
       PROVE  /\ u.history[k[i]].kind = "deposit"
              /\ u.history[k[i]].strategy = u.allocations[i].strategy
              /\ u.history[k[i]].entry = u.allocations[i].entry
              /\ y[k[i]] + u.allocations[i].amount <= u.history[k[i]].amount
  <2>1. CASE i = L + 1
    <3>1. u.history[k[i]] = x /\ u.allocations[i] = a /\ y[k[i]] = 0
      BY <1>5, <1>6, <1>14, <2>1 DEF L, H
    <3>2. 0 + n <= n
      OBVIOUS
    <3> QED
      BY <1>0, <3>1, <3>2, Zenon
  <2>2. CASE i \in 1..L
    <3>1. /\ k[i] = e[i] /\ e[i] \in 1..H /\ y[k[i]] = w[e[i]]
      BY <1>11, <1>14, <2>2
    <3>2. u.history[k[i]] = v.history[e[i]] /\ u.allocations[i] = v.allocations[i]
      BY <1>5, <1>6, <2>2, <3>1 DEF L, H
    <3> QED
      BY <1>11, <2>2, <3>1, <3>2
  <2> QED
    BY <1>13, <2>1, <2>2
<1>19. ASSUME NEW d \in 1..(H + 1), \A i \in 1..(L + 1) : k[i] # d
       PROVE  y[d] <= Grown(u.history[d], at)
  <2>1. d # H + 1
    BY <1>13, <1>14, <1>19
  <2>2. d \in 1..H /\ y[d] = w[d] /\ u.history[d] = v.history[d]
    BY <1>6, <1>13, <1>14, <2>1 DEF H
  <2>3. \A i \in 1..L : e[i] # d
    BY <1>13, <1>14, <1>19
  <2> QED
    BY <1>11, <2>2, <2>3
<1>20. u.withdrawals = SumFunctionOnSet(y, 1..(H + 1))
  <2>1. \A d \in 1..(H + 1) : y[d] \in Int
    BY <1>17
  <2>2. SumFunctionOnSet(y, 1..(H + 1)) = SumFunctionOnSet(w, 1..H) + y[H + 1]
    BY <1>12, <1>14, <2>1, SumLast, ZenonT(60)
  <2> QED
    BY <1>2, <1>4, <1>11, <1>14, <2>2
<1>21. Len(u.allocations) = L + 1 /\ Len(u.history) = H + 1
  BY <1>5, <1>6 DEF L, H
<1>22. Backs(u, k, y, at)
  <2> DEFINE M == Len(u.allocations)
             N == Len(u.history)
  <2>0. M = L + 1 /\ N = H + 1
    BY <1>21
  <2> HIDE DEF M, N
  <2>1. \A i \in 1..M : k[i] \in 1..N
    BY <1>15, <2>0
  <2>2. \A i, j \in 1..M : k[i] = k[j] => i = j
    BY <1>16, <2>0
  <2>3. \A d \in 1..N : y[d] \in Nat
    BY <1>17, <2>0
  <2>4. u.withdrawals = SumFunctionOnSet(y, 1..N)
    BY <1>20, <2>0
  <2>5. \A i \in 1..M : /\ u.history[k[i]].kind = "deposit"
                        /\ u.history[k[i]].strategy = u.allocations[i].strategy
                        /\ u.history[k[i]].entry = u.allocations[i].entry
                        /\ y[k[i]] + u.allocations[i].amount <= u.history[k[i]].amount
    BY <1>18, <2>0
  <2>6. \A d \in 1..N : (\A i \in 1..M : k[i] # d) => y[d] <= Grown(u.history[d], at)
    BY <1>19, <2>0
  <2> QED
    BY <2>1, <2>2, <2>3, <2>4, <2>5, <2>6, Zenon DEF Backs, M, N
<1> QED
  BY <1>4, <1>7, <1>8, <1>9, <1>22 DEF VaultOK

\* The allocations after a withdrawal, the empty ones with them.
LeftOf(amount, taken) == IF taken < amount THEN amount - taken ELSE 0
Reduced(all, take) ==
  [i \in DOMAIN all |-> [all[i] EXCEPT !.amount = LeftOf(all[i].amount, take[i])]]

LEMMA ReducedIs ==
  ASSUME NEW all \in Seq(Allocation), NEW take, \A i \in 1..Len(all) : take[i] \in Nat
  PROVE  /\ Reduced(all, take) \in Seq(Leftovers) /\ Len(Reduced(all, take)) = Len(all)
         /\ \A i \in 1..Len(all) :
              /\ Reduced(all, take)[i].amount = LeftOf(all[i].amount, take[i])
              /\ Reduced(all, take)[i].strategy = all[i].strategy
              /\ Reduced(all, take)[i].entry = all[i].entry
              /\ LeftOf(all[i].amount, take[i]) \in Nat
              /\ all[i].amount <= LeftOf(all[i].amount, take[i]) + take[i]
<1> DEFINE L == Len(all)
           r == Reduced(all, take)
<1>1. L \in Nat /\ DOMAIN all = 1..L /\ \A i \in 1..L : all[i] \in Allocation
  OBVIOUS
<1>2. ASSUME NEW i \in 1..L
      PROVE  /\ [all[i] EXCEPT !.amount = LeftOf(all[i].amount, take[i])] \in Leftovers
             /\ [all[i] EXCEPT !.amount = LeftOf(all[i].amount, take[i])].amount = LeftOf(all[i].amount, take[i])
             /\ [all[i] EXCEPT !.amount = LeftOf(all[i].amount, take[i])].strategy = all[i].strategy
             /\ [all[i] EXCEPT !.amount = LeftOf(all[i].amount, take[i])].entry = all[i].entry
             /\ LeftOf(all[i].amount, take[i]) \in Nat
             /\ all[i].amount <= LeftOf(all[i].amount, take[i]) + take[i]
  <2> DEFINE a == all[i]
             n == LeftOf(all[i].amount, take[i])
  <2>1. /\ a = [amount |-> a.amount, strategy |-> a.strategy, entry |-> a.entry]
        /\ a.amount \in Nat /\ a.strategy \in Strategies /\ a.entry \in Nat
    BY <1>1 DEF Allocation
  <2>2. take[i] \in Nat
    OBVIOUS
  <2>3. n \in Nat /\ a.amount <= n + take[i]
    BY <2>1, <2>2 DEF LeftOf
  <2> HIDE DEF a, n
  <2>4. [a EXCEPT !.amount = n] = [amount |-> n, strategy |-> a.strategy, entry |-> a.entry]
    BY <2>1
  <2>5. /\ [a EXCEPT !.amount = n] \in Leftovers /\ [a EXCEPT !.amount = n].amount = n
        /\ [a EXCEPT !.amount = n].strategy = a.strategy /\ [a EXCEPT !.amount = n].entry = a.entry
    BY <2>1, <2>3, <2>4 DEF Leftovers
  <2> QED
    BY <2>3, <2>5 DEF a, n
<1>3. r = [i \in 1..L |-> [all[i] EXCEPT !.amount = LeftOf(all[i].amount, take[i])]]
  BY <1>1, Zenon DEF Reduced
<1>4. \A i \in 1..L : r[i] = [all[i] EXCEPT !.amount = LeftOf(all[i].amount, take[i])]
  BY <1>3
<1>5. r \in [1..L -> Leftovers]
  <2>1. \A i \in 1..L : r[i] \in Leftovers
    BY <1>2, <1>4
  <2>2. r = [i \in 1..L |-> r[i]]
    BY <1>3
  <2> HIDE DEF r
  <2> QED
    BY <2>1, <2>2
<1> HIDE DEF r
<1>6. r \in Seq(Leftovers) /\ Len(r) = L
  BY <1>1, <1>5
<1> QED
  BY <1>2, <1>4, <1>6 DEF r

\* What is held after a withdrawal is at least what was held, less what is taken.
Holding(all, take, kept, f, g) ==
  /\ all \in Seq(Allocation) /\ \A i \in 1..Len(all) : take[i] \in Nat
  /\ kept = Nonempty(Reduced(all, take))
  /\ \A i \in 1..Len(all) : f[i] = all[i].amount
  /\ \A j \in 1..Len(kept) : g[j] = kept[j].amount

LEMMA WithdrawHolds ==
  ASSUME NEW all, NEW take, NEW kept, NEW f, NEW g, Holding(all, take, kept, f, g)
  PROVE  /\ kept \in Seq(Allocation)
         /\ SumFunctionOnSet(g, 1..Len(kept)) \in Nat
         /\ SumFunctionOnSet(f, 1..Len(all))
              <= SumFunctionOnSet(g, 1..Len(kept)) + SumFunctionOnSet(take, 1..Len(all))
<1> DEFINE r == Reduced(all, take)
           L == Len(all)
           M == Len(kept)
           left == [i \in 1..L |-> r[i].amount]
           both == [i \in 1..L |-> left[i] + take[i]]
<1>0. /\ all \in Seq(Allocation) /\ \A i \in 1..L : take[i] \in Nat
      /\ kept = Nonempty(r)
      /\ \A i \in 1..L : f[i] = all[i].amount
      /\ \A j \in 1..M : g[j] = kept[j].amount
  BY Zenon DEF Holding
<1>1. /\ r \in Seq(Leftovers) /\ Len(r) = L /\ L \in Nat
      /\ \A i \in 1..L : /\ r[i].amount = LeftOf(all[i].amount, take[i])
                         /\ LeftOf(all[i].amount, take[i]) \in Nat
                         /\ all[i].amount <= LeftOf(all[i].amount, take[i]) + take[i]
  BY <1>0, ReducedIs
<1>2. \A i \in 1..L : all[i].amount \in Nat /\ take[i] \in Nat
  <2> SUFFICES ASSUME NEW i \in 1..L
               PROVE  all[i].amount \in Nat /\ take[i] \in Nat
    OBVIOUS
  <2>1. all[i] \in Allocation /\ take[i] \in Nat
    BY <1>0
  <2>2. \A a \in Allocation : a.amount \in Nat
    BY DEF Allocation
  <2> QED
    BY <2>1, <2>2
<1> HIDE DEF r
<1>3. kept \in Seq(Leftovers) /\ \E m : KeepsNonempty(kept, m, r, Len(r))
  BY <1>0, <1>1, NonemptyIs
<1>4. PICK m : KeepsNonempty(kept, m, r, L)
  BY <1>1, <1>3
<1>5. /\ m \in Seq(1..L) /\ Len(kept) = Len(m)
      /\ \A j \in 1..Len(m) : kept[j] = r[m[j]] /\ r[m[j]].amount > 0
      /\ \A j, k \in 1..Len(m) : m[j] = m[k] => j = k
      /\ \A i \in 1..L : r[i].amount > 0 => \E j \in 1..Len(m) : m[j] = i
  BY <1>4 DEF KeepsNonempty
<1>6. M \in Nat /\ M = Len(m) /\ \A j \in 1..M : m[j] \in 1..L /\ kept[j].amount > 0
  BY <1>5
<1>7. kept \in Seq(Allocation)
  <2>1. \A j \in 1..M : kept[j] \in Allocation
    <3> SUFFICES ASSUME NEW j \in 1..M
                 PROVE  kept[j] \in Allocation
      OBVIOUS
    <3>1. kept[j] \in Leftovers /\ kept[j].amount > 0
      BY <1>3, <1>6
    <3> QED
      BY <3>1 DEF Leftovers, Allocation
  <2>2. kept = [j \in 1..M |-> kept[j]]
    BY <1>3
  <2>3. kept \in [1..M -> Allocation]
    BY <2>1, <2>2
  <2> QED
    BY <1>6, <2>3
<1>8. \A i \in 1..L : left[i] \in Nat /\ left[i] = r[i].amount
  BY <1>1
<1>9. \A i \in 1..L : both[i] = left[i] + take[i] /\ f[i] <= both[i]
  <2>1. \A i \in 1..L : both[i] = left[i] + take[i]
    OBVIOUS
  <2> HIDE DEF both, left, L
  <2>2. \A i \in 1..L : f[i] = all[i].amount /\ all[i].amount <= left[i] + take[i]
    BY <1>0, <1>1, <1>8
  <2> QED
    BY <2>1, <2>2
<1> HIDE DEF left, both, L, M
<1>10. IsFiniteSet(1..L) /\ IsFiniteSet(1..M)
  BY <1>1, <1>6, UpTo
<1> DEFINE I == {m[j] : j \in 1..M}
<1>11. I \in SUBSET (1..L)
  BY <1>6
<1>12. \A i \in 1..L : i \notin I => left[i] = 0
  <2> SUFFICES ASSUME NEW i \in 1..L, i \notin I
               PROVE  left[i] = 0
    OBVIOUS
  <2>1. ~(r[i].amount > 0)
    BY <1>5, <1>6
  <2> QED
    BY <1>8, <2>1
<1>13. \A j \in 1..M : g[j] \in Int /\ left[m[j]] = g[j]
  BY <1>0, <1>5, <1>6, <1>8
<1>14. SumFunctionOnSet(g, 1..M) = SumFunctionOnSet(left, I)
  <2> DEFINE S == 1..M
  <2>1. \A j, k \in S : m[j] = m[k] => j = k
    BY <1>5, <1>6
  <2>2. IsFiniteSet(S) /\ \A j \in S : g[j] \in Int /\ left[m[j]] = g[j]
    BY <1>10, <1>13
  <2> HIDE DEF S
  <2>3. SumFunctionOnSet(g, S) = SumFunctionOnSet(left, {m[j] : j \in S})
    BY <2>1, <2>2, SumImage
  <2> QED
    BY <2>3 DEF S
<1>15. SumFunctionOnSet(left, I) = SumFunctionOnSet(left, 1..L)
  <2> DEFINE S == 1..L
  <2>1. IsFiniteSet(S) /\ I \in SUBSET S /\ \A i \in S : left[i] \in Int
    BY <1>8, <1>10, <1>11
  <2>2. \A i \in S : left[i] = IF i \in I THEN left[i] ELSE 0
    BY <1>12
  <2> HIDE DEF I, S
  <2>3. SumFunctionOnSet(left, I) = SumFunctionOnSet(left, S)
    BY <2>1, <2>2, SumFilter
  <2> QED
    BY <2>3 DEF S
<1>16. SumFunctionOnSet(both, 1..L) = SumFunctionOnSet(left, 1..L) + SumFunctionOnSet(take, 1..L)
  <2>1. \A i \in 1..L : left[i] \in Int /\ take[i] \in Int /\ both[i] = left[i] + take[i]
    BY <1>2, <1>8, <1>9
  <2> QED
    BY <1>10, <2>1, SumPlus
<1>17. SumFunctionOnSet(f, 1..L) <= SumFunctionOnSet(both, 1..L)
  <2>1. \A i \in 1..L : f[i] \in Int /\ both[i] \in Int /\ f[i] <= both[i]
    BY <1>0, <1>2, <1>8, <1>9
  <2> QED
    BY <1>10, <2>1, SumAtMost
<1>18. SumFunctionOnSet(left, 1..L) \in Nat
  BY <1>8, <1>10, SumNat
<1> QED
  BY <1>7, <1>14, <1>15, <1>16, <1>17, <1>18 DEF L, M

\* Summands at places of their own among others.
Spread(L, H, e, f) ==
  /\ L \in Nat /\ H \in Nat /\ \A i \in 1..L : e[i] \in 1..H /\ f[i] \in Nat
  /\ \A i, j \in 1..L : e[i] = e[j] => i = j

LEMMA SumSpread ==
  ASSUME NEW L, NEW H, NEW e, NEW f, Spread(L, H, e, f)
  PROVE  \E g : /\ \A i \in 1..L : g[e[i]] = f[i]
                /\ \A d \in 1..H : (\A i \in 1..L : e[i] # d) => g[d] = 0
                /\ \A d \in 1..H : g[d] \in Nat
                /\ SumFunctionOnSet(g, 1..H) = SumFunctionOnSet(f, 1..L)
<1> DEFINE I == {e[i] : i \in 1..L}
           g == [d \in 1..H |-> IF d \in I THEN f[CHOOSE i \in 1..L : e[i] = d] ELSE 0]
<1>0. /\ L \in Nat /\ H \in Nat /\ \A i \in 1..L : e[i] \in 1..H /\ f[i] \in Nat
      /\ \A i, j \in 1..L : e[i] = e[j] => i = j
  BY DEF Spread
<1>1. IsFiniteSet(1..L) /\ IsFiniteSet(1..H)
  BY <1>0, UpTo
<1>2. \A i \in 1..L : g[e[i]] = f[i]
  <2> SUFFICES ASSUME NEW i \in 1..L
               PROVE  g[e[i]] = f[i]
    OBVIOUS
  <2>1. (CHOOSE j \in 1..L : e[j] = e[i]) = i
    BY <1>0
  <2>2. e[i] \in 1..H /\ e[i] \in I
    BY <1>0
  <2> QED
    BY <2>1, <2>2, Zenon
<1>3. \A d \in 1..H : d \notin I => g[d] = 0
  OBVIOUS
<1>4. I \in SUBSET (1..H)
  BY <1>0
<1>5. \A d \in 1..H : (\A i \in 1..L : e[i] # d) => d \notin I
  OBVIOUS
<1>6. \A d \in 1..H : d \in I => \E i \in 1..L : d = e[i]
  OBVIOUS
<1> HIDE DEF g, I
<1>7. \A d \in 1..H : g[d] \in Nat
  BY <1>0, <1>2, <1>3, <1>6
<1>8. SumFunctionOnSet(f, 1..L) = SumFunctionOnSet(g, I)
  <2> DEFINE S == 1..L
  <2>1. IsFiniteSet(S) /\ \A i \in S : f[i] \in Int /\ g[e[i]] = f[i]
    BY <1>0, <1>1, <1>2
  <2>2. \A i, j \in S : e[i] = e[j] => i = j
    BY <1>0
  <2> HIDE DEF S
  <2>3. SumFunctionOnSet(f, S) = SumFunctionOnSet(g, {e[i] : i \in S})
    BY <2>1, <2>2, SumImage
  <2> QED
    BY <2>3 DEF S, I
<1>9. SumFunctionOnSet(g, I) = SumFunctionOnSet(g, 1..H)
  <2> DEFINE S == 1..H
  <2>1. IsFiniteSet(S) /\ I \in SUBSET S /\ \A d \in S : g[d] \in Int
    BY <1>1, <1>4, <1>7
  <2>2. \A d \in S : g[d] = IF d \in I THEN g[d] ELSE 0
    BY <1>3
  <2> HIDE DEF S
  <2>3. SumFunctionOnSet(g, I) = SumFunctionOnSet(g, S)
    BY <2>1, <2>2, SumFilter
  <2> QED
    BY <2>3 DEF S
<1> QED
  BY <1>2, <1>3, <1>5, <1>7, <1>8, <1>9, Zenon

\* What is withdrawn is taken from deposits.
Paying(v, at, take, actual, u) ==
  /\ at \in Nat /\ VaultOK(v, at)
  /\ \A i \in 1..Len(v.allocations) : take[i] \in Nat /\ take[i] <= Value(v.allocations[i], at)
  /\ actual \in Nat /\ SumFunctionOnSet(take, 1..Len(v.allocations)) = actual
  /\ u.allocations = Nonempty(Reduced(v.allocations, take))
  /\ Len(u.history) = Len(v.history) + 1
  /\ \A d \in 1..Len(v.history) : u.history[d] = v.history[d]
  /\ u.history[Len(v.history) + 1].kind = "withdraw"
  /\ u.withdrawals = v.withdrawals + actual

LEMMA WithdrawBacks ==
  ASSUME NEW v, NEW at, NEW take, NEW actual, NEW u, Paying(v, at, take, actual, u)
  PROVE  \E k, y : Backs(u, k, y, at)
<1> DEFINE all == v.allocations
           r == Reduced(all, take)
           L == Len(all)
           H == Len(v.history)
           M == Len(u.allocations)
<1>0. /\ at \in Nat /\ VaultOK(v, at)
      /\ \A i \in 1..L : take[i] \in Nat /\ take[i] <= Value(all[i], at)
      /\ actual \in Nat /\ SumFunctionOnSet(take, 1..L) = actual
      /\ u.allocations = Nonempty(r)
      /\ Len(u.history) = H + 1
      /\ \A d \in 1..H : u.history[d] = v.history[d]
      /\ u.history[H + 1].kind = "withdraw"
      /\ u.withdrawals = v.withdrawals + actual
  BY Zenon DEF Paying
<1>1. v \in VaultRecords
  BY <1>0 DEF VaultOK
<1>2. /\ all \in Seq(Allocation) /\ L \in Nat /\ H \in Nat /\ v.withdrawals \in Nat
      /\ \A i \in 1..L : all[i].amount \in Nat
      /\ \A d \in 1..H : v.history[d].amount \in Nat
  BY <1>1, VaultFields
<1>3. /\ r \in Seq(Leftovers) /\ Len(r) = L
      /\ \A i \in 1..L : /\ r[i].amount = LeftOf(all[i].amount, take[i])
                         /\ r[i].strategy = all[i].strategy /\ r[i].entry = all[i].entry
  <2> HIDE DEF all
  <2>1. all \in Seq(Allocation) /\ \A i \in 1..Len(all) : take[i] \in Nat
    BY <1>0, <1>2
  <2> QED
    BY <2>1, ReducedIs
<1>4. PICK m : KeepsNonempty(u.allocations, m, r, L)
  <2> HIDE DEF r
  <2> QED
    BY <1>0, <1>3, NonemptyIs
<1>5. /\ m \in Seq(1..L) /\ M = Len(m)
      /\ \A j \in 1..M : u.allocations[j] = r[m[j]] /\ r[m[j]].amount > 0
      /\ \A j, k \in 1..M : m[j] = m[k] => j = k
      /\ \A i \in 1..L : r[i].amount > 0 => \E j \in 1..M : m[j] = i
  BY <1>4 DEF KeepsNonempty
<1>6. M \in Nat /\ \A j \in 1..M : m[j] \in 1..L
  BY <1>5
<1>7. PICK e, w : Backs(v, e, w, at)
  BY <1>0 DEF VaultOK
<1>8. /\ \A i \in 1..L : e[i] \in 1..H
      /\ \A i, j \in 1..L : e[i] = e[j] => i = j
      /\ \A d \in 1..H : w[d] \in Nat
      /\ \A i \in 1..L :
           /\ v.history[e[i]].kind = "deposit"
           /\ v.history[e[i]].strategy = all[i].strategy
           /\ v.history[e[i]].entry = all[i].entry
           /\ w[e[i]] + all[i].amount <= v.history[e[i]].amount
      /\ \A d \in 1..H : (\A i \in 1..L : e[i] # d) => w[d] <= Grown(v.history[d], at)
      /\ v.withdrawals = SumFunctionOnSet(w, 1..H)
  BY <1>7 DEF Backs
<1>9. \A i \in 1..L : /\ Value(all[i], at) \in Nat
                      /\ w[e[i]] + Value(all[i], at) <= Grown(v.history[e[i]], at)
                      /\ Grown(v.history[e[i]], at) \in Nat
  BY <1>0, <1>7, <1>8, WorthOf
<1>10. \A i \in 1..L : take[i] \in Nat /\ take[i] <= Value(all[i], at)
  BY <1>0, Zenon
<1>11. SumFunctionOnSet(take, 1..L) = actual
  BY <1>0, Zenon
<1>12. Len(u.history) = H + 1 /\ \A d \in 1..H : u.history[d] = v.history[d]
  BY <1>0, Zenon
<1>13. u.history[H + 1].kind = "withdraw" /\ M = Len(u.allocations)
  BY <1>0, Zenon
<1> HIDE DEF all, r, L, H, M
<1>14. PICK part : /\ \A i \in 1..L : part[e[i]] = take[i]
                   /\ \A d \in 1..H : (\A i \in 1..L : e[i] # d) => part[d] = 0
                   /\ \A d \in 1..H : part[d] \in Nat
                   /\ SumFunctionOnSet(part, 1..H) = actual
  <2>1. Spread(L, H, e, take)
    BY <1>2, <1>8, <1>10 DEF Spread
  <2> QED
    BY <1>11, <2>1, SumSpread
<1> DEFINE k == [j \in 1..M |-> e[m[j]]]
           sum == [d \in 1..H |-> w[d] + part[d]]
           y == [d \in 1..(H + 1) |-> IF d = H + 1 THEN 0 ELSE sum[d]]
<1>15. /\ H + 1 \notin 1..H /\ H + 1 \in 1..(H + 1)
       /\ \A d \in 1..(H + 1) : d \in 1..H \/ d = H + 1
       /\ \A d \in 1..H : d \in 1..(H + 1) /\ d # H + 1
  BY <1>2
<1>16. /\ \A j \in 1..M : k[j] = e[m[j]]
       /\ \A d \in 1..H : sum[d] = w[d] + part[d] /\ y[d] = sum[d]
       /\ y[H + 1] = 0
  BY <1>15
<1> HIDE DEF k, sum, y
<1>17. \A j \in 1..M : k[j] \in 1..H /\ k[j] \in 1..(H + 1)
  BY <1>6, <1>8, <1>15, <1>16
<1>18. \A i, j \in 1..M : k[i] = k[j] => i = j
  BY <1>5, <1>6, <1>8, <1>16
<1>19. \A d \in 1..(H + 1) : y[d] \in Nat
  <2> SUFFICES ASSUME NEW d \in 1..(H + 1)
               PROVE  y[d] \in Nat
    OBVIOUS
  <2>1. CASE d \in 1..H
    <3>1. w[d] \in Nat /\ part[d] \in Nat /\ y[d] = w[d] + part[d]
      BY <1>8, <1>14, <1>16, <2>1
    <3> QED
      BY <3>1
  <2>2. CASE d = H + 1
    BY <1>16, <2>2
  <2> QED
    BY <1>15, <2>1, <2>2
<1>20. ASSUME NEW j \in 1..M
       PROVE  /\ u.history[k[j]].kind = "deposit"
              /\ u.history[k[j]].strategy = u.allocations[j].strategy
              /\ u.history[k[j]].entry = u.allocations[j].entry
              /\ y[k[j]] + u.allocations[j].amount <= u.history[k[j]].amount
  <2> DEFINE i == m[j]
  <2>1. i \in 1..L /\ k[j] = e[i] /\ e[i] \in 1..H
    BY <1>6, <1>8, <1>16
  <2>2. u.history[k[j]] = v.history[e[i]] /\ u.allocations[j] = r[i] /\ r[i].amount > 0
    BY <1>5, <1>12, <2>1
  <2> HIDE DEF i
  <2>3. /\ r[i].amount = LeftOf(all[i].amount, take[i])
        /\ r[i].strategy = all[i].strategy /\ r[i].entry = all[i].entry
    BY <1>3, <2>1
  <2>4. /\ v.history[e[i]].kind = "deposit" /\ v.history[e[i]].strategy = all[i].strategy
        /\ v.history[e[i]].entry = all[i].entry
        /\ w[e[i]] + all[i].amount <= v.history[e[i]].amount
    BY <1>8, <2>1
  <2>5. y[k[j]] = w[e[i]] + take[i]
    BY <1>14, <1>16, <2>1
  <2>6. /\ all[i].amount \in Nat /\ take[i] \in Nat /\ w[e[i]] \in Nat /\ v.history[e[i]].amount \in Nat
    BY <1>2, <1>8, <1>10, <2>1
  <2>7. r[i].amount = all[i].amount - take[i]
    BY <2>2, <2>3, <2>6 DEF LeftOf
  <2>8. y[k[j]] + r[i].amount <= v.history[e[i]].amount
    BY <2>4, <2>5, <2>6, <2>7
  <2> QED
    BY <2>2, <2>3, <2>4, <2>8
<1>21. ASSUME NEW d \in 1..(H + 1), \A j \in 1..M : k[j] # d
       PROVE  y[d] <= Grown(u.history[d], at)
  <2>1. CASE d = H + 1
    BY <1>13, <1>16, <2>1 DEF Grown
  <2>2. CASE d \in 1..H /\ \A i \in 1..L : e[i] # d
    <3>1. y[d] = w[d] + 0 /\ w[d] \in Nat /\ w[d] <= Grown(v.history[d], at)
      BY <1>8, <1>14, <1>16, <2>2
    <3>2. u.history[d] = v.history[d]
      BY <1>12, <2>2
    <3> QED
      BY <3>1, <3>2
  <2>3. ASSUME NEW i \in 1..L, e[i] = d, d \in 1..H
        PROVE  y[d] <= Grown(u.history[d], at)
    <3>1. \A j \in 1..M : m[j] # i
      BY <1>16, <1>21, <2>3
    <3>2. ~(r[i].amount > 0)
      BY <1>5, <3>1
    <3>3. y[d] = w[d] + take[i] /\ u.history[d] = v.history[d]
      BY <1>12, <1>14, <1>16, <2>3
    <3>4. /\ w[d] \in Nat /\ take[i] \in Nat /\ take[i] <= Value(all[i], at) /\ Value(all[i], at) \in Nat
          /\ w[d] + Value(all[i], at) <= Grown(v.history[d], at) /\ Grown(v.history[d], at) \in Nat
      BY <1>8, <1>9, <1>10, <2>3
    <3>5. w[d] + take[i] <= Grown(v.history[d], at)
      BY <3>4
    <3> QED
      BY <3>3, <3>5
  <2> QED
    BY <1>15, <2>1, <2>2, <2>3
<1>22. u.withdrawals = SumFunctionOnSet(y, 1..(H + 1))
  <2>1. IsFiniteSet(1..H)
    BY <1>2, UpTo
  <2>2. \A d \in 1..H : w[d] \in Int /\ part[d] \in Int /\ sum[d] = w[d] + part[d]
    BY <1>8, <1>14, <1>16
  <2>3. SumFunctionOnSet(sum, 1..H) = SumFunctionOnSet(w, 1..H) + SumFunctionOnSet(part, 1..H)
    BY <2>1, <2>2, SumPlus
  <2>4. \A d \in 1..(H + 1) : y[d] \in Int
    BY <1>19
  <2>5. SumFunctionOnSet(y, 1..(H + 1)) = SumFunctionOnSet(sum, 1..H) + y[H + 1]
    <3>1. \A d \in 1..H : y[d] = sum[d]
      BY <1>16
    <3> QED
      BY <1>2, <2>4, <3>1, SumLast
  <2>6. u.withdrawals = v.withdrawals + actual
    BY <1>0
  <2>7. /\ y[H + 1] = 0 /\ v.withdrawals = SumFunctionOnSet(w, 1..H) /\ v.withdrawals \in Nat
        /\ SumFunctionOnSet(part, 1..H) = actual /\ actual \in Nat
    BY <1>0, <1>2, <1>8, <1>14, <1>16
  <2> QED
    BY <2>3, <2>5, <2>6, <2>7
<1>23. Backs(u, k, y, at)
  <2> DEFINE N == Len(u.history)
  <2>0. N = H + 1 /\ M = Len(u.allocations)
    BY <1>12, <1>13
  <2> HIDE DEF N
  <2>1. \A i \in 1..M : k[i] \in 1..N
    BY <1>17, <2>0
  <2>2. \A d \in 1..N : y[d] \in Nat
    BY <1>19, <2>0
  <2>3. u.withdrawals = SumFunctionOnSet(y, 1..N)
    BY <1>22, <2>0
  <2>4. \A i \in 1..M : /\ u.history[k[i]].kind = "deposit"
                        /\ u.history[k[i]].strategy = u.allocations[i].strategy
                        /\ u.history[k[i]].entry = u.allocations[i].entry
                        /\ y[k[i]] + u.allocations[i].amount <= u.history[k[i]].amount
    BY <1>20
  <2>5. \A d \in 1..N : (\A i \in 1..M : k[i] # d) => y[d] <= Grown(u.history[d], at)
    BY <1>21, <2>0
  <2> QED
    BY <1>18, <2>1, <2>2, <2>3, <2>4, <2>5, Zenon DEF Backs, M, N
<1> QED
  BY <1>23

\* A withdrawal, and the vault it leaves.
Leaving(v, at, take, actual, x, u) ==
  /\ at \in Nat /\ VaultOK(v, at)
  /\ \A i \in 1..Len(v.allocations) : take[i] \in Nat /\ take[i] <= Value(v.allocations[i], at)
  /\ actual \in Nat \ {0} /\ SumFunctionOnSet(take, 1..Len(v.allocations)) = actual
  /\ x = [kind |-> "withdraw", amount |-> actual]
  /\ u = [exists |-> v.exists, allocations |-> Nonempty(Reduced(v.allocations, take)),
          deposits |-> v.deposits, withdrawals |-> v.withdrawals + actual, history |-> Append(v.history, x)]

LEMMA WithdrawOK ==
  ASSUME NEW v, NEW at, NEW take, NEW actual, NEW x, NEW u, Leaving(v, at, take, actual, x, u)
  PROVE  VaultOK(u, at)
<1> SUFFICES ASSUME at \in Nat, VaultOK(v, at), actual \in Nat \ {0},
                    x = [kind |-> "withdraw", amount |-> actual],
                    u = [exists |-> v.exists, allocations |-> Nonempty(Reduced(v.allocations, take)),
                         deposits |-> v.deposits, withdrawals |-> v.withdrawals + actual,
                         history |-> Append(v.history, x)]
             PROVE  VaultOK(u, at)
  BY Zenon DEF Leaving
<1>20. /\ SumFunctionOnSet(take, 1..Len(v.allocations)) = actual
      /\ \A i \in 1..Len(v.allocations) : take[i] \in Nat /\ take[i] <= Value(v.allocations[i], at)
  BY Zenon DEF Leaving
<1> DEFINE kept == Nonempty(Reduced(v.allocations, take))
           h == Append(v.history, x)
           paidOut == v.withdrawals + actual
           H == Len(v.history)
<1>0. v \in VaultRecords /\ x \in Withdrawn /\ x.kind = "withdraw" /\ x.amount = actual
      /\ x \in Deposited \cup Withdrawn
  BY DEF VaultOK, Withdrawn
<1>1. /\ v.exists \in BOOLEAN /\ v.allocations \in Seq(Allocation) /\ v.deposits \in Nat
      /\ v.withdrawals \in Nat /\ v.history \in Seq(Deposited \cup Withdrawn)
      /\ Len(v.allocations) \in Nat /\ H \in Nat
      /\ DOMAIN v.allocations = 1..Len(v.allocations)
  BY <1>0, VaultFields
<1>2. \A i \in 1..Len(v.allocations) : take[i] \in Nat
  BY <1>20
<1> DEFINE f == HeldIn(v)
           g == [j \in DOMAIN kept |-> kept[j].amount]
<1>3. \A i \in 1..Len(v.allocations) : f[i] = v.allocations[i].amount
  BY <1>1 DEF HeldIn
<1>4. kept \in Seq(Allocation)
  <2> DEFINE c == [j \in 1..Len(kept) |-> kept[j].amount]
  <2>1. \A j \in 1..Len(kept) : c[j] = kept[j].amount
    OBVIOUS
  <2> DEFINE all == v.allocations
  <2>2. Holding(all, take, kept, f, c)
    BY <1>1, <1>2, <1>3, <2>1, Zenon DEF Holding
  <2> HIDE DEF c, f, kept, all
  <2> QED
    BY <2>2, WithdrawHolds
<1> HIDE DEF kept
<1>5. DOMAIN kept = 1..Len(kept) /\ \A j \in 1..Len(kept) : g[j] = kept[j].amount
  BY <1>4
<1>6. /\ SumFunctionOnSet(g, 1..Len(kept)) \in Nat
      /\ SumFunctionOnSet(f, 1..Len(v.allocations)) <= SumFunctionOnSet(g, 1..Len(kept)) + actual
  <2> DEFINE all == v.allocations
  <2>0. kept = Nonempty(Reduced(all, take))
    BY DEF kept
  <2>1. Holding(all, take, kept, f, g)
    BY <1>1, <1>2, <1>3, <1>5, <2>0, Zenon DEF Holding
  <2> HIDE DEF f, g, all
  <2>2. /\ SumFunctionOnSet(g, 1..Len(kept)) \in Nat
        /\ SumFunctionOnSet(f, 1..Len(all)) <= SumFunctionOnSet(g, 1..Len(kept)) + SumFunctionOnSet(take, 1..Len(all))
    BY <2>1, WithdrawHolds
  <2>3. SumFunctionOnSet(take, 1..Len(all)) = actual
    BY <1>20 DEF all
  <2> QED
    BY <2>2, <2>3 DEF all
<1>7. h \in Seq(Deposited \cup Withdrawn) /\ paidOut \in Nat
  BY <1>0, <1>1
<1>8. /\ u \in VaultRecords /\ u.allocations = kept /\ u.deposits = v.deposits
      /\ u.withdrawals = paidOut /\ u.history = h
  <2> HIDE DEF h, paidOut
  <2>1. u = [exists |-> v.exists, allocations |-> kept, deposits |-> v.deposits,
             withdrawals |-> paidOut, history |-> h]
    BY DEF h, paidOut, kept
  <2> DEFINE o == v.exists
             c == v.deposits
  <2>2. VaultOf(u, o, kept, c, paidOut, h)
    BY <1>1, <1>4, <1>7, <2>1 DEF VaultOf
  <2> HIDE DEF o, c
  <2>3. /\ u \in VaultRecords /\ u.allocations = kept /\ u.deposits = c
        /\ u.withdrawals = paidOut /\ u.history = h
    BY <2>2, VaultRecord
  <2> QED
    BY <2>3 DEF c
<1>9. /\ Len(u.history) = H + 1 /\ u.history[H + 1] = x
      /\ \A d \in 1..H : u.history[d] = v.history[d]
      /\ SumFunctionOnSet(GivenIn(u), DepositsIn(u)) = v.deposits + 0
  BY <1>0, <1>8, HistoryGrows
<1>10. \A i \in 1..Len(u.history) : u.history[i].kind = "deposit" => u.history[i].entry <= at
  <2> SUFFICES ASSUME NEW i \in 1..(H + 1), u.history[i].kind = "deposit"
               PROVE  u.history[i].entry <= at
    BY <1>9
  <2>1. i # H + 1
    BY <1>0, <1>9
  <2>2. i \in 1..H
    BY <1>1, <2>1
  <2> QED
    BY <1>9, <2>2 DEF VaultOK
<1>11. u.deposits = SumFunctionOnSet(GivenIn(u), DepositsIn(u))
  BY <1>1, <1>8, <1>9
<1>12. u.deposits <= u.withdrawals + SumFunctionOnSet(HeldIn(u), 1..Len(u.allocations))
  <2>1. HeldIn(u) = g
    BY <1>8, Zenon DEF HeldIn
  <2>2. v.deposits <= v.withdrawals + SumFunctionOnSet(f, 1..Len(v.allocations))
    BY DEF VaultOK
  <2>3. SumFunctionOnSet(f, 1..Len(v.allocations)) \in Nat
    <3>1. \A i \in 1..Len(v.allocations) : f[i] \in Nat
      <4>1. \A i \in 1..Len(v.allocations) : v.allocations[i] \in Allocation
        BY <1>1
      <4>2. \A a \in Allocation : a.amount \in Nat
        BY DEF Allocation
      <4> HIDE DEF f
      <4> QED
        BY <1>3, <4>1, <4>2
    <3>2. IsFiniteSet(1..Len(v.allocations))
      BY <1>1, UpTo
    <3> HIDE DEF f
    <3> QED
      BY <3>1, <3>2, SumNat
  <2> HIDE DEF f, g
  <2> QED
    BY <1>1, <1>6, <1>8, <2>1, <2>2, <2>3
<1>13. \E k, y : Backs(u, k, y, at)
  <2>1. u.allocations = Nonempty(Reduced(v.allocations, take)) /\ u.withdrawals = v.withdrawals + actual
    BY <1>8 DEF kept
  <2>2. u.history[Len(v.history) + 1].kind = "withdraw"
    BY <1>0, <1>9
  <2>3. Len(u.history) = Len(v.history) + 1 /\ \A d \in 1..Len(v.history) : u.history[d] = v.history[d]
    BY <1>9
  <2>4. Paying(v, at, take, actual, u)
    <3>1. at \in Nat /\ VaultOK(v, at) /\ actual \in Nat
      OBVIOUS
    <3> QED
      BY <1>20, <2>1, <2>2, <2>3, <3>1, Zenon DEF Paying
  <2> QED
    BY <2>4, WithdrawBacks
<1> QED
  BY <1>8, <1>10, <1>11, <1>12, <1>13 DEF VaultOK

VaultsOK(all, at) == all = [w \in Owners |-> all[w]] /\ \A w \in Owners : VaultOK(all[w], at)

VaultInv ==
  /\ ListInv /\ now \in Nat
  /\ VaultsOK(vaults, now) /\ VaultsOK(disk["vaults"], now)
  /\ Pending("vaults") \/ disk["vaults"] = vaults

LEMMA VaultInvInit ==
  ASSUME Init
  PROVE  VaultInv
<1>1. vaults = [w \in Owners |-> [NewVault EXCEPT !.exists = FALSE]] /\ disk = Image /\ now = 0
  BY DEF Init, VaultInit, TokenInit
<1>2. [NewVault EXCEPT !.exists = FALSE] =
        [exists |-> FALSE, allocations |-> <<>>, deposits |-> 0, withdrawals |-> 0, history |-> <<>>]
  <2> DEFINE b == TRUE
             o == FALSE
             q == <<>>
             z == 0
             p == [exists |-> b, allocations |-> q, deposits |-> z, withdrawals |-> z, history |-> q]
  <2>1. [NewVault EXCEPT !.exists = FALSE] = [p EXCEPT !.exists = o]
    BY Zenon DEF NewVault
  <2> HIDE DEF b, o, q, z
  <2>2. [p EXCEPT !.exists = o] = [exists |-> o, allocations |-> q, deposits |-> z, withdrawals |-> z, history |-> q]
    OBVIOUS
  <2> QED
    BY <2>1, <2>2 DEF o, q, z
<1>3. 0 \in Nat /\ FALSE \in BOOLEAN
  OBVIOUS
<1>4. VaultsOK(vaults, now)
  BY <1>1, <1>2, <1>3, NewVaultOK DEF VaultsOK
<1>5. Image["vaults"] = vaults
  BY Zenon DEF Image
<1> QED
  BY <1>1, <1>3, <1>4, <1>5, ListInit DEF VaultInv

\* One vault changes.
LEMMA OneVault ==
  ASSUME NEW at, VaultsOK(vaults, at), NEW w \in Owners, NEW v, VaultOK(v, at),
         vaults' = [vaults EXCEPT ![w] = v]
  PROVE  VaultsOK(vaults', at)
<1>1. \A o \in Owners : vaults'[o] = IF o = w THEN v ELSE vaults[o]
  BY DEF VaultsOK
<1>2. vaults' = [o \in Owners |-> vaults'[o]]
  BY DEF VaultsOK
<1> QED
  BY <1>1, <1>2 DEF VaultsOK

LEMMA CreateKeeps ==
  ASSUME NEW at \in Nat, VaultsOK(vaults, at), NEW w \in Owners, CreateVault(w)
  PROVE  VaultsOK(vaults', at)
<1>1. vaults' = [vaults EXCEPT ![w] = NewVault]
  BY DEF CreateVault
<1>2. VaultOK(NewVault, at)
  <2>1. NewVault = [exists |-> TRUE, allocations |-> <<>>, deposits |-> 0, withdrawals |-> 0, history |-> <<>>]
    BY DEF NewVault
  <2>2. TRUE \in BOOLEAN
    OBVIOUS
  <2> QED
    BY <2>1, <2>2, NewVaultOK
<1> QED
  BY <1>1, <1>2, OneVault

\* Several fields of one vault change.
LEMMA EditTwice ==
  ASSUME NEW D, NEW f, f = [o \in D |-> f[o]], NEW w \in D, NEW x, NEW y
  PROVE  /\ [f EXCEPT ![w] = x][w] = x
         /\ [[f EXCEPT ![w] = x] EXCEPT ![w] = y] = [f EXCEPT ![w] = y]
  OBVIOUS

\* The vault r of w in f takes the deposits c, the allocations b and the history h.
PutIn(D, f, w, r, b, c, h, g) ==
  /\ f = [o \in D |-> f[o]] /\ w \in D /\ f[w] = r
  /\ r = [exists |-> r.exists, allocations |-> r.allocations, deposits |-> r.deposits,
          withdrawals |-> r.withdrawals, history |-> r.history]
  /\ g = [f EXCEPT ![w].allocations = b, ![w].deposits = c, ![w].history = h]

LEMMA PutFields ==
  ASSUME NEW D, NEW f, NEW w, NEW r, NEW b, NEW c, NEW h, NEW new, PutIn(D, f, w, r, b, c, h, new)
  PROVE  new = [f EXCEPT ![w] = [exists |-> r.exists, allocations |-> b, deposits |-> c,
                                 withdrawals |-> r.withdrawals, history |-> h]]
<1>0. /\ f = [o \in D |-> f[o]] /\ w \in D /\ f[w] = r
      /\ r = [exists |-> r.exists, allocations |-> r.allocations, deposits |-> r.deposits,
              withdrawals |-> r.withdrawals, history |-> r.history]
      /\ new = [f EXCEPT ![w].allocations = b, ![w].deposits = c, ![w].history = h]
  BY Zenon DEF PutIn
<1> DEFINE x == [r EXCEPT !.allocations = b]
           y == [x EXCEPT !.deposits = c]
           z == [y EXCEPT !.history = h]
           g == [f EXCEPT ![w] = x]
           k == [g EXCEPT ![w] = y]
<1>1. z = [exists |-> r.exists, allocations |-> b, deposits |-> c, withdrawals |-> r.withdrawals, history |-> h]
  <2>1. x = [exists |-> r.exists, allocations |-> b, deposits |-> r.deposits,
             withdrawals |-> r.withdrawals, history |-> r.history]
    BY <1>0
  <2> HIDE DEF x
  <2>2. y = [exists |-> r.exists, allocations |-> b, deposits |-> c,
             withdrawals |-> r.withdrawals, history |-> r.history]
    BY <2>1
  <2> HIDE DEF y
  <2> QED
    BY <2>2
<1> HIDE DEF x, y, z
<1>2. g[w] = x /\ k = [f EXCEPT ![w] = y] /\ k[w] = y
  BY <1>0, EditTwice
<1>3. [k EXCEPT ![w] = z] = [f EXCEPT ![w] = z]
  BY <1>0, <1>2, EditTwice
<1>4. [f EXCEPT ![w].allocations = b, ![w].deposits = c, ![w].history = h] = [k EXCEPT ![w] = z]
  <2>1. g = [f EXCEPT ![w].allocations = b]
    BY <1>0 DEF x
  <2> HIDE DEF g
  <2>2. k = [g EXCEPT ![w].deposits = c]
    BY <1>2 DEF y
  <2> HIDE DEF k
  <2>3. [k EXCEPT ![w].history = h] = [k EXCEPT ![w] = z]
    BY <1>2 DEF z
  <2> QED
    BY <2>1, <2>2, <2>3, Zenon
<1> QED
  BY <1>0, <1>1, <1>3, <1>4

\* The vault r of w in f takes the withdrawals c, the allocations b and the history h.
TakenOut(D, f, w, r, b, c, h, g) ==
  /\ f = [o \in D |-> f[o]] /\ w \in D /\ f[w] = r
  /\ r = [exists |-> r.exists, allocations |-> r.allocations, deposits |-> r.deposits,
          withdrawals |-> r.withdrawals, history |-> r.history]
  /\ g = [f EXCEPT ![w].allocations = b, ![w].withdrawals = c, ![w].history = h]

LEMMA TakeFields ==
  ASSUME NEW D, NEW f, NEW w, NEW r, NEW b, NEW c, NEW h, NEW new, TakenOut(D, f, w, r, b, c, h, new)
  PROVE  new = [f EXCEPT ![w] = [exists |-> r.exists, allocations |-> b, deposits |-> r.deposits,
                                 withdrawals |-> c, history |-> h]]
<1>0. /\ f = [o \in D |-> f[o]] /\ w \in D /\ f[w] = r
      /\ r = [exists |-> r.exists, allocations |-> r.allocations, deposits |-> r.deposits,
              withdrawals |-> r.withdrawals, history |-> r.history]
      /\ new = [f EXCEPT ![w].allocations = b, ![w].withdrawals = c, ![w].history = h]
  BY Zenon DEF TakenOut
<1> DEFINE x == [r EXCEPT !.allocations = b]
           y == [x EXCEPT !.withdrawals = c]
           z == [y EXCEPT !.history = h]
           g == [f EXCEPT ![w] = x]
           k == [g EXCEPT ![w] = y]
<1>1. z = [exists |-> r.exists, allocations |-> b, deposits |-> r.deposits, withdrawals |-> c, history |-> h]
  <2>1. x = [exists |-> r.exists, allocations |-> b, deposits |-> r.deposits,
             withdrawals |-> r.withdrawals, history |-> r.history]
    BY <1>0
  <2> HIDE DEF x
  <2>2. y = [exists |-> r.exists, allocations |-> b, deposits |-> r.deposits,
             withdrawals |-> c, history |-> r.history]
    BY <2>1
  <2> HIDE DEF y
  <2> QED
    BY <2>2
<1> HIDE DEF x, y, z
<1>2. g[w] = x /\ k = [f EXCEPT ![w] = y] /\ k[w] = y
  BY <1>0, EditTwice
<1>3. [k EXCEPT ![w] = z] = [f EXCEPT ![w] = z]
  BY <1>0, <1>2, EditTwice
<1>4. [f EXCEPT ![w].allocations = b, ![w].withdrawals = c, ![w].history = h] = [k EXCEPT ![w] = z]
  <2>1. g = [f EXCEPT ![w].allocations = b]
    BY <1>0 DEF x
  <2> HIDE DEF g
  <2>2. k = [g EXCEPT ![w].withdrawals = c]
    BY <1>2 DEF y
  <2> HIDE DEF k
  <2>3. [k EXCEPT ![w].history = h] = [k EXCEPT ![w] = z]
    BY <1>2 DEF z
  <2> QED
    BY <2>1, <2>2, <2>3, Zenon
<1> QED
  BY <1>0, <1>1, <1>3, <1>4

LEMMA DepositKeeps ==
  ASSUME NEW at \in Nat, VaultsOK(vaults, at), NEW w \in Owners, NEW n \in VaultAmounts,
         NEW s \in Strategies, VaultDeposit(w, n, s, at)
  PROVE  VaultsOK(vaults', at)
<1> DEFINE v == vaults[w]
           a == [amount |-> n, strategy |-> s, entry |-> at]
           x == [kind |-> "deposit", amount |-> n, strategy |-> s, entry |-> at]
           b == Append(v.allocations, a)
           c == v.deposits + n
           h == Append(v.history, x)
           u == [exists |-> v.exists, allocations |-> b, deposits |-> c, withdrawals |-> v.withdrawals,
                 history |-> h]
<1>1. VaultOK(v, at) /\ vaults = [o \in Owners |-> vaults[o]]
  BY DEF VaultsOK
<1>2. v = [exists |-> v.exists, allocations |-> v.allocations, deposits |-> v.deposits,
           withdrawals |-> v.withdrawals, history |-> v.history]
  BY <1>1, VaultFields DEF VaultOK
<1>3. vaults' = [vaults EXCEPT ![w].allocations = b, ![w].deposits = c, ![w].history = h]
  BY <1>1, <1>2 DEF VaultDeposit
<1>4. VaultOK(u, at)
  <2>1. n \in Nat \ {0}
    BY VaultAssumption
  <2> HIDE DEF v
  <2>2. Putting(v, at, n, s, a, x, u)
    BY <1>1, <2>1, Zenon DEF Putting
  <2> HIDE DEF a, x, u
  <2> QED
    BY <2>2, DepositOK
<1> HIDE DEF b, c, h
<1>5. vaults' = [vaults EXCEPT ![w] = u]
  <2> HIDE DEF v
  <2>1. PutIn(Owners, vaults, w, v, b, c, h, vaults')
    BY <1>1, <1>2, <1>3, Zenon DEF PutIn, v
  <2>2. vaults' = [vaults EXCEPT ![w] = [exists |-> v.exists, allocations |-> b, deposits |-> c,
                                         withdrawals |-> v.withdrawals, history |-> h]]
    BY <2>1, PutFields
  <2> QED
    BY <2>2
<1> HIDE DEF u
<1> QED
  BY <1>4, <1>5, OneVault

LEMMA WithdrawKeeps ==
  ASSUME NEW at \in Nat, VaultsOK(vaults, at), NEW w \in Owners, NEW n \in VaultAmounts,
         NEW s, VaultWithdraw(w, n, s, at)
  PROVE  VaultsOK(vaults', at)
<1> DEFINE v         == vaults[w]
           all       == v.allocations
           targets   == {i \in DOMAIN all : s \in {AnyStrategy, all[i].strategy}}
           val       == [i \in DOMAIN all |-> Value(all[i], at)]
           actual    == Lesser(n, SumFunctionOnSet(val, targets))
           after(i)  == SumFunctionOnSet(val, {j \in targets : j > i})
           before(i) == Lesser(actual, after(i))
           take(i)   == IF i \in targets THEN Lesser(actual - before(i), Value(all[i], at)) ELSE 0
           left(i)   == IF take(i) < all[i].amount THEN all[i].amount - take(i) ELSE 0
           reduced   == [i \in DOMAIN all |-> [all[i] EXCEPT !.amount = left(i)]]
           taken     == [i \in DOMAIN all |-> take(i)]
           x         == [kind |-> "withdraw", amount |-> actual]
           kept      == Nonempty(reduced)
           c         == v.withdrawals + actual
           h         == Append(v.history, x)
           u         == [exists |-> v.exists, allocations |-> kept, deposits |-> v.deposits,
                         withdrawals |-> c, history |-> h]
<1>1. VaultOK(v, at) /\ vaults = [o \in Owners |-> vaults[o]] /\ v \in VaultRecords
  BY DEF VaultsOK, VaultOK
<1>2. /\ v = [exists |-> v.exists, allocations |-> v.allocations, deposits |-> v.deposits,
              withdrawals |-> v.withdrawals, history |-> v.history]
      /\ DOMAIN all = 1..Len(all) /\ Len(all) \in Nat
  BY <1>1, VaultFields
<1>3. actual > 0 /\ vaults' = [vaults EXCEPT
           ![w].allocations = kept, ![w].withdrawals = @ + actual, ![w].history = Append(@, x)]
  BY Zenon DEF VaultWithdraw
<1> HIDE DEF kept, actual, x, reduced
<1>4. vaults' = [vaults EXCEPT ![w].allocations = kept, ![w].withdrawals = c, ![w].history = h]
  BY <1>1, <1>2, <1>3
<1>5. vaults' = [vaults EXCEPT ![w] = u]
  <2> HIDE DEF c, h, v
  <2>1. TakenOut(Owners, vaults, w, v, kept, c, h, vaults')
    BY <1>1, <1>2, <1>4, Zenon DEF TakenOut, v
  <2>2. vaults' = [vaults EXCEPT ![w] = [exists |-> v.exists, allocations |-> kept, deposits |-> v.deposits,
                                         withdrawals |-> c, history |-> h]]
    BY <2>1, TakeFields
  <2> QED
    BY <2>2
<1>6. \A i \in 1..Len(all) : val[i] \in Nat /\ val[i] = Value(all[i], at)
  <2>1. PICK e, y : Backs(v, e, y, at)
    BY <1>1 DEF VaultOK
  <2>2. \A i \in 1..Len(all) : Value(all[i], at) \in Nat
    BY <1>1, <2>1, WorthOf
  <2> QED
    BY <1>2, <2>2
<1>7. targets \in SUBSET (1..Len(all)) /\ IsFiniteSet(targets)
  <2>1. targets \in SUBSET (1..Len(all)) /\ IsFiniteSet(1..Len(all))
    BY <1>2, UpTo
  <2> QED
    BY <2>1, FS_Subset
<1> HIDE DEF targets, val
<1>8. SumFunctionOnSet(val, targets) \in Nat
  BY <1>6, <1>7, SumNat
<1>9. actual \in Nat \ {0} /\ actual <= SumFunctionOnSet(val, targets)
  <2>1. n \in Nat
    BY VaultAssumption
  <2> DEFINE z == SumFunctionOnSet(val, targets)
  <2>2. z \in Nat /\ actual = Lesser(n, z) /\ actual > 0
    BY <1>3, <1>8 DEF actual
  <2> HIDE DEF z
  <2>3. actual \in Nat \ {0} /\ actual <= z
    BY <2>1, <2>2 DEF Lesser
  <2> QED
    BY <2>3 DEF z
<1>10. Taking(taken, Len(all), targets, val, actual)
  <2>1. \A i \in 1..Len(all) :
          taken[i] = IF i \in targets
                     THEN Lesser(actual - Lesser(actual, SumFunctionOnSet(val, {j \in targets : j > i})), val[i])
                     ELSE 0
    BY <1>2, <1>6, Zenon
  <2> HIDE DEF taken, all
  <2>2. \A i \in 1..Len(all) :
          taken[i] = IF i \in targets
                     THEN Lesser(actual - Lesser(actual, SumFunctionOnSet(val, Newer(targets, i))), val[i])
                     ELSE 0
    BY <2>1, Zenon DEF Newer
  <2>3. (\A i \in 1..Len(all) : val[i] \in Nat) /\ actual \in Nat /\ actual <= SumFunctionOnSet(val, targets)
    BY <1>6, <1>9
  <2> QED
    BY <2>2, <2>3, Zenon DEF Taking
<1>11. reduced = Reduced(all, taken)
  <2>1. \A i \in DOMAIN all : taken[i] = take(i)
    OBVIOUS
  <2> HIDE DEF take, taken
  <2>2. \A i \in DOMAIN all : left(i) = LeftOf(all[i].amount, taken[i])
    BY <2>1 DEF LeftOf
  <2> HIDE DEF left
  <2> QED
    BY <2>2, Zenon DEF Reduced, reduced
<1> HIDE DEF taken, all, v, after
<1>12. /\ \A i \in 1..Len(all) : taken[i] \in Nat /\ taken[i] <= val[i]
       /\ SumFunctionOnSet(taken, 1..Len(all)) = actual
  <2> DEFINE M == Len(all)
  <2>1. M \in Nat /\ targets \in SUBSET (1..M) /\ Taking(taken, M, targets, val, actual)
    BY <1>2, <1>7, <1>10
  <2> HIDE DEF M, before, take, left, c, h, u
  <2>2. /\ \A i \in 1..M : taken[i] \in Nat /\ taken[i] <= val[i]
        /\ SumFunctionOnSet(taken, 1..M) = actual
    BY <2>1, TakenAdds, ZenonT(60)
  <2> QED
    BY <2>2 DEF M
<1>13. VaultOK(u, at)
  <2>1. u = [exists |-> v.exists, allocations |-> Nonempty(Reduced(v.allocations, taken)),
             deposits |-> v.deposits, withdrawals |-> v.withdrawals + actual,
             history |-> Append(v.history, x)]
    BY <1>11 DEF kept, all
  <2>2. /\ \A i \in 1..Len(v.allocations) : taken[i] \in Nat /\ taken[i] <= Value(v.allocations[i], at)
        /\ SumFunctionOnSet(taken, 1..Len(v.allocations)) = actual
    BY <1>6, <1>12 DEF all
  <2>3. x = [kind |-> "withdraw", amount |-> actual]
    BY DEF x
  <2> HIDE DEF u
  <2>4. Leaving(v, at, taken, actual, x, u)
    BY <1>1, <1>9, <2>1, <2>2, <2>3, Zenon DEF Leaving
  <2> QED
    BY <2>4, WithdrawOK
<1> HIDE DEF u
<1> QED
  BY <1>5, <1>13, OneVault

LEMMA VaultInvStep ==
  ASSUME VaultInv, [Next]_vars
  PROVE  VaultInv'
<1>1. ListInv' /\ client \in Clients /\ StoreInv
  BY ListStep DEF VaultInv, ListInv, StoreInv
<1>2. CASE Calls
  <2>1. Idle /\ disk' = disk /\ now' = now
    BY <1>1, <1>2, CallFrame
  <2>2. disk["vaults"] = vaults
    BY <2>1, PendingIdle DEF VaultInv
  <2>3. CASE VaultOp
    <3>1. Pending("vaults")'
      BY <2>3, PendingCall DEF VaultOp, Call
    <3>2. PICK w \in Owners :
            \/ CreateVault(w)
            \/ \E n \in VaultAmounts, s \in Strategies : VaultDeposit(w, n, s, now)
            \/ \E n \in VaultAmounts, s \in Strategies \cup {AnyStrategy} : VaultWithdraw(w, n, s, now)
      BY <2>3 DEF VaultOp
    <3>3. now \in Nat /\ VaultsOK(vaults, now)
      BY DEF VaultInv
    <3>4. VaultsOK(vaults', now)
      BY <3>2, <3>3, CreateKeeps, DepositKeeps, WithdrawKeeps
    <3> QED
      BY <1>1, <2>1, <3>1, <3>4 DEF VaultInv
  <2>4. CASE vaults' = vaults
    BY <1>1, <2>1, <2>2, <2>4 DEF VaultInv
  <2> QED
    BY <1>2, <2>3, <2>4, CallsOfParts
<1>3. CASE Put
  <2>1. /\ vaults' = vaults /\ "vaults" \in Keys /\ now' = now
        /\ disk'["vaults"] = IF "vaults" = Head(writes) THEN Image["vaults"] ELSE disk["vaults"]
    BY <1>1, <1>3, PutOne, PutKeeps DEF memory, desks, Keys
  <2>2. Image["vaults"] = vaults
    BY Zenon DEF Image
  <2>3. Pending("vaults") => Pending("vaults")' \/ "vaults" = Head(writes)
    BY <1>1, <1>3, PendingPut
  <2> QED
    BY <1>1, <2>1, <2>2, <2>3 DEF VaultInv
<1>4. CASE Restart
  <2>1. vaults' = disk["vaults"] /\ disk' = disk /\ now' = now
    BY <1>4 DEF Restart
  <2> QED
    BY <1>1, <2>1 DEF VaultInv
<1>5. CASE Rests
  <2>1. now \in Nat /\ now' \in Nat /\ now <= now' /\ UNCHANGED <<vaults, disk, writes>>
    BY <1>5 DEF Rests, memory, desks, VaultInv
  <2>2. \A all : VaultsOK(all, now) => VaultsOK(all, now')
    BY <2>1, VaultLater DEF VaultsOK
  <2>3. VaultsOK(vaults', now') /\ VaultsOK(disk'["vaults"], now')
    BY <2>1, <2>2 DEF VaultInv
  <2> QED
    BY <1>1, <2>1, <2>3 DEF VaultInv, Pending
<1> QED
  BY <1>2, <1>3, <1>4, <1>5, StepKinds

-----------------------------------------------------------------------------
(* What the process itself keeps: the keys it has put, and its restarts.    *)

MiscInv == StoreInv /\ saved \subseteq Keys /\ torn \in BOOLEAN /\ restarts \in 0..MaxRestarts

LEMMA MiscInit ==
  ASSUME Init
  PROVE  MiscInv
<1>1. StoreInv
  BY ListInit DEF ListInv
<1>2. saved = {} /\ torn = FALSE /\ restarts = 0
  BY DEF Init
<1>3. restarts \in 0..MaxRestarts
  BY <1>2, NodeAssumption
<1>4. saved \subseteq Keys /\ torn \in BOOLEAN
  BY <1>2
<1> QED
  BY <1>1, <1>3, <1>4, Zenon DEF MiscInv

LEMMA MiscStep ==
  ASSUME MiscInv, ListInv, [Next]_vars
  PROVE  MiscInv'
<1>1. StoreInv' /\ client \in Clients /\ StoreInv
  BY ListStep DEF MiscInv, ListInv, StoreInv
<1>2. CASE Calls
  <2>1. UNCHANGED <<saved, torn, restarts>>
    BY <1>1, <1>2, CallFrame
  <2> QED
    BY <1>1, <2>1 DEF MiscInv
<1>3. CASE Put
  <2>1. saved' = saved \cup {Head(writes)} /\ UNCHANGED <<torn, restarts>>
    BY <1>3 DEF Put
  <2> QED
    BY <1>1, <1>3, <2>1, PutOne DEF MiscInv
<1>4. CASE Restart
  <2>1. restarts < MaxRestarts /\ restarts' = restarts + 1 /\ torn' = (torn \/ ~Idle) /\ saved' = saved
    BY <1>4 DEF Restart
  <2>2. torn' \in BOOLEAN
    BY <2>1, Zenon
  <2>3. restarts' \in 0..MaxRestarts
    BY <2>1, NodeAssumption DEF MiscInv
  <2> QED
    BY <1>1, <2>1, <2>2, <2>3 DEF MiscInv
<1>5. CASE Rests
  BY <1>1, <1>5 DEF Rests, MiscInv
<1> QED
  BY <1>2, <1>3, <1>4, <1>5, StepKinds

-----------------------------------------------------------------------------
(* The parts together: the types, what an answer means, and the books.      *)

NodeInv ==
  /\ TokenInv /\ BankInv /\ LendInv /\ VaultInv /\ AgentInv /\ OracleInv /\ MarketInv /\ PoolInv
  /\ MiscInv

LEMMA NodeInvInit ==
  ASSUME Init
  PROVE  NodeInv
  BY TokenInvInit, BankInvInit, LendInit, VaultInvInit, AgentInvInit, OracleInvInit, MarketInvInit,
     PoolInvInit, MiscInit DEF NodeInv

LEMMA NodeInvStep ==
  ASSUME NodeInv, [Next]_vars
  PROVE  NodeInv'
<1>1. TokenInv' /\ BankInv' /\ LendInv' /\ VaultInv'
  BY TokenInvStep, BankInvStep, LendStep, VaultInvStep DEF NodeInv
<1>2. AgentInv' /\ OracleInv' /\ MarketInv' /\ PoolInv'
  BY AgentInvStep, OracleInvStep, MarketInvStep, PoolInvStep DEF NodeInv
<1>3. MiscInv'
  BY MiscStep DEF NodeInv, TokenInv
<1> QED
  BY <1>1, <1>2, <1>3 DEF NodeInv

LEMMA NodeInvTypes ==
  ASSUME NodeInv
  PROVE  NodeTypeOK
<1>1. TokenTypeOK
  BY DEF NodeInv, TokenInv, TokenRecords, FaucetRecords, Held, Times, TokenTypeOK
<1>2. StakingTypeOK
  BY DEF NodeInv, BankInv, PayInv, StakingRecords, Positions, Position, StakingTypeOK
<1>3. MarketTypeOK
  <2>1. Booked(market) /\ market \in MarketRecords
    BY DEF NodeInv, MarketInv, Booked
  <2>2. market.settled \subseteq Bought
    BY <2>1, MarketFields DEF Booked, Bought
  <2> QED
    BY <2>1, <2>2, MarketFields DEF Booked, MarketTypeOK
<1>4. ChainTypeOK
  <2>1. pool \in PoolRecords /\ Blocks(ledger.chain, ledger.utxo) /\ feeMarket \in SUBSET Txs
    BY DEF NodeInv, PoolInv, PoolOK
  <2> QED
    BY <2>1, PoolFields DEF Blocks, ChainTypeOK
<1>5. LendingTypeOK
  BY DEF NodeInv, LendInv, Sound, LendingRecords, LendingTypeOK
<1>6. VaultTypeOK
  <2>1. \A w \in Owners : vaults[w] \in VaultRecords
    BY DEF NodeInv, VaultInv, VaultsOK, VaultOK
  <2> QED
    BY <2>1, VaultFields DEF VaultTypeOK
<1>7. RegistryTypeOK
  BY DEF NodeInv, AgentInv, RegistryRecords, Scores, ReputationEvents, RegistryTypeOK
<1>8. OracleTypeOK
  BY DEF NodeInv, OracleInv, OracleRecords, PricePoints, OracleTypeOK
<1>9. /\ client \in Clients /\ DOMAIN disk = Keys /\ saved \subseteq Keys /\ writes \in Seq(Keys)
      /\ payee \in Stakers \cup {Nobody} /\ paid \in [Stakers -> Nat]
      /\ torn \in BOOLEAN /\ restarts \in 0..MaxRestarts
  BY DEF NodeInv, MiscInv, StoreInv, BankInv, PayInv
<1> QED
  BY <1>1, <1>2, <1>3, <1>4, <1>5, <1>6, <1>7, <1>8, <1>9 DEF NodeTypeOK

\* Whatever the calls, the puts and the restarts, what the node has in memory and
\* on its lists of puts has the types of the ledgers it restores it into.
THEOREM NodeIsTyped == Spec => []NodeTypeOK
<1>1. Init => NodeInv
  BY NodeInvInit
<1>2. NodeInv /\ [Next]_vars => NodeInv'
  BY NodeInvStep
<1>3. NodeInv => NodeTypeOK
  BY NodeInvTypes
<1> QED
  BY <1>1, <1>2, <1>3, PTL DEF Spec

LEMMA NodeInvDurable ==
  ASSUME NodeInv
  PROVE  AnsweredIsDurable
<1> SUFFICES ASSUME Idle
             PROVE  /\ \A k \in {"balances", "minted", "burned", "positions", "lending", "vaults",
                                "agents", "oracle", "market"} : disk[k] = Image[k]
                    /\ \A o, s \in Agents : token.allowances[o][s] <= disk["allowances"][o][s]
                    /\ disk["faucet"].claims = faucet.claims /\ disk["meta"].total = staking.total
                    /\ registry.events # <<>> => disk["reputation"] = registry.events
  BY DEF AnsweredIsDurable
<1>1. \A k : ~Pending(k)
  BY PendingIdle
<1>2. disk["balances"] = Image["balances"] /\ disk["minted"] = Image["minted"] /\ disk["burned"] = Image["burned"]
  <2>1. /\ disk["balances"] = [held |-> token.balances, granted |-> token.granted]
        /\ disk["minted"] = token.minted /\ disk["burned"] = token.burned
    BY <1>1 DEF NodeInv, TokenInv
  <2> QED
    BY <2>1, Zenon DEF Image
<1>3. disk["positions"] = Image["positions"]
  <2>1. disk["positions"] = staking.pos
    BY DEF NodeInv, BankInv, PayInv, Idle
  <2> QED
    BY <2>1, Zenon DEF Image
<1>4. disk["lending"] = Image["lending"] /\ disk["vaults"] = Image["vaults"] /\ disk["agents"] = Image["agents"]
  <2>1. disk["lending"] = lending /\ disk["vaults"] = vaults /\ disk["agents"] = registry.score
    BY <1>1 DEF NodeInv, LendInv, VaultInv, AgentInv
  <2> QED
    BY <2>1, Zenon DEF Image
<1>5. disk["oracle"] = Image["oracle"] /\ disk["market"] = Image["market"]
  <2>1. disk["oracle"] = Forgetful(oracle) /\ disk["market"] = SavedMarket(market)
    BY <1>1 DEF NodeInv, OracleInv, MarketInv
  <2>2. Image["oracle"] = Forgetful(oracle) /\ Image["market"] = SavedMarket(market)
    BY Zenon DEF Image, Forgetful, SavedMarket, Untold
  <2> QED
    BY <2>1, <2>2
<1>6. /\ \A o, s \in Agents : token.allowances[o][s] <= disk["allowances"][o][s]
      /\ disk["faucet"].claims = faucet.claims
  BY <1>1 DEF NodeInv, TokenInv
<1>7. disk["meta"].total = staking.total
  BY <1>1 DEF NodeInv, BankInv
<1>8. registry.events # <<>> => disk["reputation"] = registry.events
  BY <1>1 DEF NodeInv, AgentInv
<1> QED
  BY <1>2, <1>3, <1>4, <1>5, <1>6, <1>7, <1>8

\* When no save is in progress, the disk has what the ledgers hold, so that a
\* kill loses nothing the node has answered, whatever was called and whatever
\* earlier kills cut short.
THEOREM NodeAnswersAreDurable == Spec => []AnsweredIsDurable
<1>1. Init => NodeInv
  BY NodeInvInit
<1>2. NodeInv /\ [Next]_vars => NodeInv'
  BY NodeInvStep
<1>3. NodeInv => AnsweredIsDurable
  BY NodeInvDurable
<1> QED
  BY <1>1, <1>2, <1>3, PTL DEF Spec

LEMMA NodeInvBooks ==
  ASSUME NodeInv
  PROVE  BooksAddUp
<1>1. SupplyAddsUp
  BY DEF NodeInv, TokenInv, Backed, Holdings, SupplyAddsUp
<1>2. RewardsFit
  <2>1. ~torn /\ Clean(staking.pos, paid) => SumFunctionOnSet(Earned(staking.pos), Stakers) <= staking.distributed
    BY DEF NodeInv, BankInv, Fits
  <2> QED
    BY <2>1 DEF RewardsFit, Clean, Earned
<1>3. BooksOfMarket
  <2>1. Booked(market)
    BY DEF NodeInv, MarketInv
  <2>2. \A l \in Listings : PurchasesOf(l, market.settled) = SettledOf(market, l)
    BY DEF PurchasesOf, SettledOf
  <2>3. market.volume = SumFunctionOnSet([p \in Purchases |-> Total(market.listing[p])], market.settled)
    BY <2>1 DEF Booked, Totals
  <2>4. \A l \in Listings :
          /\ market.calls[l] = Cardinality(PurchasesOf(l, market.settled))
          /\ market.revenue[l] = Cardinality(PurchasesOf(l, market.settled)) * Price[l]
    BY <2>1, <2>2 DEF Booked
  <2> QED
    BY <2>3, <2>4 DEF BooksOfMarket
<1>4. LoansCovered
  BY SoundKeepsLoans DEF NodeInv, LendInv, Sound, LoansCovered
<1>5. LoansAddUp
  BY DEF NodeInv, LendInv, Tallied, TakenIn, OwedIn, LoansAddUp
<1>6. VaultsAddUp
  <2>1. now \in Nat /\ \A w \in Owners : VaultOK(vaults[w], now)
    BY DEF NodeInv, VaultInv, VaultsOK
  <2> QED
    BY <2>1, BackedAddsUp DEF VaultsAddUp
<1>7. RecordsAgree
  <2>1. restarts = 0 => \A m \in Registered : registry.score[m] = ScoreAfter(m, registry.events)
    BY DEF NodeInv, AgentInv, Scored, Registered
  <2>2. oracle.lastValid # Unknown => \E i \in DOMAIN oracle.feed : oracle.feed[i].price = oracle.lastValid
    <3>1. Reported(oracle) /\ DOMAIN oracle.feed = 1..Len(oracle.feed)
      BY OracleFields DEF NodeInv, OracleInv
    <3> QED
      BY <3>1 DEF Reported
  <2> QED
    BY <2>1, <2>2 DEF RecordsAgree
<1> QED
  BY <1>1, <1>2, <1>3, <1>4, <1>5, <1>6, <1>7 DEF BooksAddUp

\* After any calls, kills and restores the node's figures agree with its records:
\* the supply with the balances, the rewards with what was distributed, sales,
\* loans and vaults with what was sold, lent and deposited.
THEOREM NodeBooksAddUp == Spec => []BooksAddUp
<1>1. Init => NodeInv
  BY NodeInvInit
<1>2. NodeInv /\ [Next]_vars => NodeInv'
  BY NodeInvStep
<1>3. NodeInv => BooksAddUp
  BY NodeInvBooks
<1> QED
  BY <1>1, <1>2, <1>3, PTL DEF Spec
=============================================================================
