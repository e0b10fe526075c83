--------------------------- MODULE EcosystemNode ---------------------------
(***************************************************************************)
(* EcosystemNode (ecosystem.py): the facade that keeps the ledgers in      *)
(* memory and saves them to the memory store after every call, one put per *)
(* key, in the order of the _persist_ methods.  A put is durable when it   *)
(* returns (MemoryStore has its details).  The process may be killed       *)
(* between any two puts; the next one restores what it finds.              *)
(*                                                                         *)
(* One client at a time calls the node, and waits for the answer.  The     *)
(* token with the faucet, the staking pool, the loans, the vaults, the     *)
(* registry, the oracle, the marketplace, and the chain with its pools     *)
(* share nothing but the store, so a behaviour exercises one of these,     *)
(* which Init chooses.                                                     *)
(***************************************************************************)
EXTENDS BaitToken, StakingPool, Marketplace, NodeChain, LendingEngine, Vault, AgentRegistry, PriceOracle

CONSTANTS Nobody,       \* no address
          MaxRestarts   \* a bound

ASSUME NodeAssumption == Nobody \notin Stakers /\ MaxRestarts \in Nat

Clients == {"token", "bank", "lending", "vaults", "agents", "oracle", "market", "chain"}

Keys == {"balances", "allowances", "minted", "burned", "faucet", "positions", "meta",
         "lending", "vaults", "agents", "reputation", "oracle", "market", "chain", "utxo", "pool"}

VARIABLES client,   \* what the behaviour exercises
          disk, saved,  \* the value under each key, and the keys ever put
          writes,   \* the puts of the call in progress that are still to come
          payee,    \* the agent to whom the call in progress will report a payout
          paid,     \* history: payouts of stake reported to each agent
          torn,     \* history: a kill cut a save short
          restarts

desks == <<lending, vaults, registry, oracle>>
memory == <<token, faucet, staking, market, ledger, feeMarket, pool, desks>>
vars == <<memory, now, client, disk, saved, writes, payee, paid, torn, restarts>>

TokenKeys == <<"balances", "allowances", "minted", "burned">>
ClaimKeys == <<"faucet", "balances", "allowances", "minted", "burned">>
AllTokenKeys == <<"balances", "allowances", "minted", "burned", "faucet">>
StakingKeys == <<"positions", "meta">>
AgentKeys == <<"agents", "reputation">>
ChainKeys == <<"chain", "utxo", "pool">>

\* What each key holds after its put.  txid, confirmations and rated of a
\* purchase are not written; neither are the fees beside by_fee, nor the last
\* valid price.  Vaults and agents are put one by one, but a call changes one.
Image ==
  [balances |-> [held |-> token.balances, granted |-> token.granted],
   allowances |-> token.allowances, minted |-> token.minted, burned |-> token.burned,
   faucet |-> faucet,
   positions |-> staking.pos,
   meta |-> [total |-> staking.total, distributed |-> staking.distributed],
   lending |-> lending, vaults |-> vaults,
   agents |-> registry.score, reputation |-> registry.events,
   oracle |-> [oracle EXCEPT !.lastValid = Unknown],
   market |-> [market EXCEPT !.txid = [p \in Purchases |-> None], !.rated = {}],
   chain |-> ledger.chain, utxo |-> ledger.utxo,
   pool |-> [pool EXCEPT !.negFees = <<>>, !.plain = TRUE, !.raised = FALSE]]

NodeTypeOK ==
  /\ TokenTypeOK /\ StakingTypeOK /\ MarketTypeOK /\ ChainTypeOK
  /\ LendingTypeOK /\ VaultTypeOK /\ RegistryTypeOK /\ OracleTypeOK
  /\ client \in Clients
  /\ DOMAIN disk = Keys /\ saved \subseteq Keys
  /\ writes \in Seq(Keys)
  /\ payee \in Stakers \cup {Nobody} /\ paid \in [Stakers -> Nat]
  /\ torn \in BOOLEAN /\ restarts \in 0..MaxRestarts

Init ==
  /\ TokenInit /\ StakingInit /\ MarketInit /\ ChainInit
  /\ LendingInit /\ VaultInit /\ RegistryInit /\ OracleInit
  /\ client \in Clients
  /\ disk = Image /\ saved = {} /\ writes = <<>>
  /\ payee = Nobody /\ paid = [a \in Stakers |-> 0]
  /\ torn = FALSE /\ restarts = 0

Idle == writes = <<>>

\* A call of the client changes the memory, then begins its puts.
Call(who, keys) ==
  /\ client = who /\ Idle
  /\ writes' = keys
  /\ UNCHANGED <<now, client, disk, saved, paid, torn, restarts>>

TokenOp ==
  /\ Call("token", TokenKeys)
  /\ \E a \in Agents, n \in Amounts :
       \/ Mint(a, n) \/ Burn(a, n)
       \/ \E b \in Agents : Transfer(a, b, n)
       \/ \E b \in Agents \ {a} : Approve(a, b, n)
       \/ \E s \in Agents, b \in Agents : TransferFrom(s, a, b, n)
  /\ UNCHANGED <<faucet, staking, market, ledger, feeMarket, pool, desks, payee>>

\* A call that fails saves nothing, whatever it changed.
TokenOpRefused ==
  /\ Call("token", <<>>)
  /\ \/ \E s \in Agents, a \in Agents, n \in Amounts :
          TransferFromRefused(s, a, n) /\ UNCHANGED faucet
     \/ \E a \in Agents : ClaimRefused(a)
  /\ UNCHANGED <<staking, market, ledger, feeMarket, pool, desks, payee>>

FaucetClaimTokenFirst ==
  /\ Call("token", AllTokenKeys)
  /\ \E a \in Agents : Claim(a)
  /\ UNCHANGED <<staking, market, ledger, feeMarket, pool, desks, payee>>

FaucetClaim ==
  /\ Call("token", ClaimKeys)
  /\ \E a \in Agents : Claim(a)
  /\ UNCHANGED <<staking, market, ledger, feeMarket, pool, desks, payee>>

StakingOp ==
  /\ Call("bank", StakingKeys)
  /\ \/ \E a \in Stakers, n \in Stakes : Stake(a, n)
     \/ \E a \in Stakers, percent \in Percents : Slash(a, percent)
     \/ (\E n \in Rewards : DistributeRewards(n)) /\ \E a \in Stakers : Effective(a) > 0
  /\ UNCHANGED <<token, faucet, market, ledger, feeMarket, pool, desks, payee>>

\* Nobody has a share: the rewards count as distributed, and nothing is saved.
RewardsToNobody ==
  /\ Call("bank", <<>>)
  /\ \A a \in Stakers : Effective(a) = 0
  /\ \E n \in Rewards : DistributeRewards(n)
  /\ UNCHANGED <<token, faucet, market, ledger, feeMarket, pool, desks, payee>>

UnstakeSavingMeta ==
  /\ Call("bank", <<"meta">>)
  /\ \E a \in Stakers : Unstake(a) /\ payee' = a
  /\ UNCHANGED <<token, faucet, market, ledger, feeMarket, pool, desks>>

UnstakeOp ==
  /\ Call("bank", StakingKeys)
  /\ \E a \in Stakers : Unstake(a) /\ payee' = a
  /\ UNCHANGED <<token, faucet, market, ledger, feeMarket, pool, desks>>

MarketOp ==
  /\ Call("market", <<"market">>)
  /\ \/ \E l \in Listings : ListService(l)
     \/ \E p \in Purchases, l \in Listings : PurchaseService(p, l)
     \/ \E p \in Purchases, x \in Txids : SettlePurchase(p, x)
     \/ \E p \in Purchases : RateService(p)
  /\ UNCHANGED <<token, faucet, staking, ledger, feeMarket, pool, desks, payee>>

core == <<token, faucet, staking, market, ledger, feeMarket, pool>>

LendingOp ==
  /\ Call("lending", <<"lending">>)
  /\ \E o \in Offers :
       \/ CreateOffer(o)
       \/ \E c \in Collaterals : Borrow(o, c)
       \/ \E n \in Repayments : Repay(o, n)
  /\ UNCHANGED <<core, vaults, registry, oracle, payee>>

LiquidateOp ==
  /\ Call("lending", IF Liquidatable = {} THEN <<>> ELSE <<"lending">>)
  /\ CheckLiquidations
  /\ UNCHANGED <<core, vaults, registry, oracle, payee>>

VaultOp ==
  /\ Call("vaults", <<"vaults">>)
  /\ \E w \in Owners :
       \/ CreateVault(w)
       \/ \E n \in VaultAmounts, s \in Strategies : VaultDeposit(w, n, s, now)
       \/ \E n \in VaultAmounts, s \in Strategies \cup {AnyStrategy} : VaultWithdraw(w, n, s, now)
  /\ UNCHANGED <<core, lending, registry, oracle, payee>>

RegisterOp ==
  /\ Call("agents", <<"agents">>)
  /\ \E m \in Members : Register(m)
  /\ UNCHANGED <<core, lending, vaults, oracle, payee>>

ReputationOp ==
  /\ Call("agents", AgentKeys)
  /\ \E m \in Members, delta \in Deltas : UpdateReputation(m, delta)
  /\ UNCHANGED <<core, lending, vaults, oracle, payee>>

OracleOp ==
  /\ Call("oracle", <<"oracle">>)
  /\ \E m \in Sources :
       \/ \E weight \in Weights : RegisterOracle(m, weight)
       \/ \E price \in Prices : SubmitPrice(m, price, now)
  /\ UNCHANGED <<core, lending, vaults, registry, payee>>

\* Asking for a price remembers the answer, and saves nothing.
GetPriceOp ==
  /\ Call("oracle", <<>>)
  /\ GetPrice(now)
  /\ UNCHANGED <<core, lending, vaults, registry, payee>>

\* A call that raises saves nothing.
Unless(refused, keys) == IF refused \/ pool'.raised THEN <<>> ELSE keys

PoolOp ==
  /\ \/ \E tx \in Txs : MempoolAdd(tx)
     \/ \E expired \in SUBSET pool.txs : PurgeExpired(expired)
  /\ Call("chain", Unless(FALSE, <<"pool">>))
  /\ UNCHANGED <<token, faucet, staking, market, ledger, feeMarket, desks, payee>>

SubmitTransaction ==
  /\ \E tx \in Txs :
       /\ AddTransaction(tx)
       /\ Call("chain", Unless(tx \in pool.txs, <<"pool">>))
  /\ UNCHANGED <<token, faucet, staking, market, desks, payee>>

MineOp ==
  /\ MineBlock
  /\ Call("chain", Unless(FALSE, ChainKeys))
  /\ UNCHANGED <<token, faucet, staking, market, desks, payee>>

\* persist_all, which shutdown, force_snapshot and compact_all begin with.
PersistAll ==
  /\ Call(client, CASE client = "token" -> AllTokenKeys
                    [] client = "bank" -> StakingKeys
                    [] client = "agents" -> AgentKeys
                    [] client \in {"lending", "vaults", "oracle", "market"} -> <<client>>
                    [] client = "chain" -> ChainKeys)
  /\ UNCHANGED <<memory, payee>>

\* The last put of a call ends it: its answer reaches the client.
Put ==
  /\ ~Idle
  /\ disk' = [disk EXCEPT ![Head(writes)] = Image[Head(writes)]]
  /\ saved' = saved \cup {Head(writes)}
  /\ writes' = Tail(writes)
  /\ IF payee # Nobody /\ Tail(writes) = <<>>
     THEN payee' = Nobody /\ paid' = [paid EXCEPT ![payee] = @ + 1]
     ELSE UNCHANGED <<payee, paid>>
  /\ UNCHANGED <<memory, now, client, torn, restarts>>

\* The process ends, killed or not, and another restores its state: every
\* _restore_ method leaves a fresh object where nothing was saved.  The events
\* of reputation are on disk and stay there, but are not restored.
Restart ==
  /\ restarts < MaxRestarts
  /\ restarts' = restarts + 1
  /\ torn' = (torn \/ ~Idle)
  /\ writes' = <<>> /\ payee' = Nobody
  /\ token' = [balances |-> disk.balances.held, granted |-> disk.balances.granted,
               allowances |-> disk.allowances, minted |-> disk.minted, burned |-> disk.burned]
  /\ faucet' = IF "faucet" \in saved THEN disk.faucet ELSE [disk.faucet EXCEPT !.start = now]
  /\ staking' = [pos |-> disk.positions, total |-> disk.meta.total,
                 distributed |-> disk.meta.distributed]
  /\ market' = disk.market
  /\ lending' = disk.lending /\ vaults' = disk.vaults
  /\ registry' = [score |-> disk.agents, events |-> <<>>]
  /\ oracle' = disk.oracle
  /\ ledger' = [chain |-> disk.chain, utxo |-> disk.utxo]
  /\ feeMarket' = {}
  /\ pool' = IF "pool" \in saved THEN disk.pool ELSE EmptyPool
  /\ UNCHANGED <<now, client, disk, saved, paid>>

Tick ==
  /\ client \in {"token", "vaults", "oracle"} /\ now < MaxTime
  /\ now' = now + 1
  /\ UNCHANGED <<memory, client, disk, saved, writes, payee, paid, torn, restarts>>

Next ==
  \/ TokenOp \/ TokenOpRefused \/ FaucetClaim
  \/ StakingOp \/ RewardsToNobody \/ UnstakeOp
  \/ LendingOp \/ LiquidateOp \/ VaultOp
  \/ RegisterOp \/ ReputationOp \/ OracleOp \/ GetPriceOp
  \/ MarketOp
  \/ PoolOp \/ SubmitTransaction \/ MineOp
  \/ PersistAll \/ Put \/ Restart \/ Tick

Spec == Init /\ [][Next]_vars

(***************************************************************************)
(* Properties.                                                             *)
(***************************************************************************)
\* Once a call has returned, what it did is on disk: a kill loses no answer.
\* An allowance alone may be lower in memory, spent by a transfer that failed.
AnsweredIsDurable ==
  LET image == Image
  IN  Idle =>
        /\ \A k \in {"balances", "minted", "burned", "positions", "lending", "vaults",
                    "agents", "oracle", "market"} : disk[k] = image[k]
        /\ \A o, s \in Agents : token.allowances[o][s] <= disk.allowances[o][s]
        /\ disk.faucet.claims = faucet.claims /\ disk.meta.total = staking.total
        /\ registry.events # <<>> => disk.reputation = registry.events

\* The balances add up to what was minted and not burned, as long as no kill
\* cuts a save short: the balances and the counters are separate keys.
SupplyAddsUp ==
  ~torn => Holdings = token.minted - token.burned /\ token.minted <= TotalSupply

\* Whenever the process is killed, no agent holds coins of more claims than
\* max_total_sats allows, or of two claims within the cooldown: the claim is
\* saved before the coins.
FaucetCapped ==
  \A a \in Agents :
    LET g == token.granted[a]
    IN  /\ Len(g) * FaucetAmount <= MaxTotal
        /\ \A i \in 1..Len(g) - 1 : g[i + 1] - g[i] >= Cooldown

\* Whenever the process is killed, an agent is told at most once that its
\* stake was paid out, also when it is slashed later.
PaidOutOnce ==
  \A a \in Stakers :
    /\ paid[a] <= 1
    /\ paid[a] = 1 => staking.pos[a].state \in {"withdrawn", "slashed"}

\* Members are credited no more than was distributed, unless one was slashed
\* after it had withdrawn (its cut leaves the total a second time) or a kill
\* came between positions and totals.
RewardsFit ==
  (~torn /\ \A a \in Stakers : staking.pos[a].state = "slashed" => paid[a] = 0) =>
    SumFunctionOnSet([a \in Stakers |-> staking.pos[a].reward], Stakers) <= staking.distributed

\* Whenever the process is killed, the counters of the marketplace are those of
\* its settled purchases: none is counted twice or forgotten.
BooksOfMarket ==
  /\ \A l \in Listings :
       LET n == Cardinality(PurchasesOf(l, market.settled))
       IN  market.calls[l] = n /\ market.revenue[l] = n * Price[l]
  /\ market.volume = SumFunctionOnSet([p \in Purchases |-> Total(market.listing[p])], market.settled)

\* Whenever the process is killed, every loan in force is covered at 150 %: none
\* is ever liquidated, since interest is not added to the principal.
LoansCovered ==
  /\ \A o \in Offers :
       lending.loans[o].state = "active" =>
         Covers(lending.loans[o].collateral, lending.loans[o].principal)
  /\ Liquidatable = {}

\* Whenever the process is killed, what was lent is the sum of the offers taken,
\* and no principal fell by more than was repaid.
LoansAddUp ==
  LET taken == {o \in Offers : lending.loans[o].state # "none"}
      owed  == [o \in Offers |-> lending.loans[o].principal]
  IN  /\ taken \cap lending.offers = {}
      /\ lending.lent = SumFunctionOnSet(OfferAmount, taken)
      /\ lending.lent - SumFunctionOnSet(owed, taken) <= lending.repaid

\* Whenever the process is killed, a vault has paid out and still holds at least
\* what was deposited, and at most that with the interest of every deposit left
\* alone since, whichever allocations the withdrawals were taken from.
VaultAddsUp(v, at) ==
  LET held  == [i \in DOMAIN v.allocations |-> v.allocations[i].amount]
      worth == [i \in DOMAIN v.allocations |-> Value(v.allocations[i], at)]
      given == [i \in DOMAIN v.history |-> v.history[i].amount]
      grown == [i \in DOMAIN v.history |->
                  IF v.history[i].kind = "deposit" THEN Value(v.history[i], at) ELSE 0]
      D     == {i \in DOMAIN v.history : v.history[i].kind = "deposit"}
  IN  /\ v.deposits = SumFunctionOnSet(given, D)
      /\ v.deposits <= v.withdrawals + SumFunction(held)
      /\ v.withdrawals + SumFunction(worth) <= SumFunction(grown)

VaultsAddUp == \A w \in Owners : VaultAddsUp(vaults[w], now)

\* Until the first restart, which forgets them, the events of reputation lead from
\* the initial score to the present one; the price that is remembered was reported.
RecordsAgree ==
  /\ restarts = 0 =>
       \A m \in Registered :
         registry.score[m] = ScoreAfter(m, registry.events)
  /\ oracle.lastValid # Unknown => \E i \in DOMAIN oracle.feed : oracle.feed[i].price = oracle.lastValid

\* The figures the node keeps agree with the records they come from, after any
\* order of calls, kills and restores, but for a kill that tore a save in two.
BooksAddUp ==
  /\ SupplyAddsUp /\ RewardsFit /\ BooksOfMarket
  /\ LoansCovered /\ LoansAddUp /\ VaultsAddUp /\ RecordsAgree

\* A purchase is rated at most once (refuted: rated is not saved).
RatedOnce == \A l \in Listings : market.ratings[l] <= market.calls[l]

\* Until the first restart, the mempool lists exactly its transactions, the best
\* paid first, beside their fees, and keeps to its size.
PoolInOrder ==
  restarts = 0 =>
    /\ Listed = pool.txs /\ Len(pool.byFee) = Cardinality(pool.txs) /\ ~pool.raised
    /\ Cardinality(pool.txs) <= MaxSize
    /\ pool.negFees = [i \in DOMAIN pool.byFee |-> Fee[pool.byFee[i]]]
    /\ \A i \in 1..Len(pool.negFees) - 1 : pool.negFees[i] >= pool.negFees[i + 1]

\* No coin is spent twice in the chain, whatever calls failed and however often
\* the node restarted, as long as no kill comes between the chain and its coins.
NoDoubleSpend ==
  ~torn =>
    \A i, j \in DOMAIN ledger.chain :
      \A t \in ledger.chain[i], u \in ledger.chain[j] :
        Spends[t] = Spends[u] => t = u /\ i = j
=============================================================================
