# Verification of b-AI-tcoin (BAIT)

TLA+ models, TLC runs and TLAPS proofs about the parts of this repository that
move or keep value: the Ethereum lock-and-mint bridge, the native BTC -> BAIT
swap executor and the gossip of its intents, the chain with external mining and
the blocks of peers, the Python bridge with the handoff of swaps to it, the
ledgers of a node with their saves and restarts, and the write-ahead-logged
store all of it is kept in. The lines each definition models are in
`PROJECT.json`.

## 1. The system

| Component | State | Operations | How it meets the others |
|---|---|---|---|
| **wBAIT** `contracts/src/WBAIT.sol` | balances, allowances, supply, pause flag, bridge address | mint, burn, burnFrom, transfer, approve, pause, one-time link | called by BridgeLock inside its transactions; by holders directly |
| **BridgeLock** `contracts/src/BridgeLock.sol` | lock requests, releases, confirmations, daily counters, operators, pending rotation, two totals, pause flag | request/confirm mint, initiate/confirm release, propose/execute/cancel rotation, pause | five operator daemons call it concurrently; the timelock owns it |
| **Swap executor** `native_processing/swap_executor.py`, `native_adapters.py`, `swap_service.py`, `swap_sync.py` | tables `orders`, `swap_settlements`, `swap_intents` | admit, process (find deposit, observe, confirm, submit, poll), mirror the status | Bitcoin Core by RPC, BAIT mempool and blocks in memory, peers by sync deltas |
| **Intent gossip** `baitcoin_core/network/p2p_real/`, `native_processing/swap_sync.py` | connections and their handshakes, log of intents, broadcasts still to run | connect, VERSION/VERACK, request and answer a sync, receive and relay an intent | asyncio tasks of each node; the log is the store of the swap service |
| **Chain** `baitcoin_core/blockchain/` | blocks, unspent outputs, fee market, blocks on disk | add transaction, mine, persist, rebuild | executor and API read it while the miner writes it; persists with four `put`s of the store |
| **Block sync** `baitcoin_core/network/block_sync.py` | headers, orphans | apply a peer's block, adopt a longer chain | writes the chain's lists |
| **External mining** `baitcoin_core/consensus/work_template.py`, `block_validation.py`, `mining_transport.py` | templates with their shares and admitted blocks, request times per client | issue work, submit work, submit a block | reads the chain, whose own miner moves the tip meanwhile |
| **Python bridge** `baitcoin_bridge/manager.py`, `relayer.py` | transfers (an event and a record each), signatures, totals, limits, jobs | lock, prove, mint, burn, release, refund, relay | relayer threads, the API, the handoff |
| **Handoff** `native_processing/bridge_handoff.py` | durable row per order | start a lock, submit signatures and mint | drives the Python bridge, whose state does not survive a restart |
| **Node** `baitcoin_core/ecosystem.py` | the ledgers below, in memory and in the store | every call of a ledger, then its `_persist_` methods; persist_all; restore | one call at a time; saves with one put per key |
| its **token** and **faucet** | balances, allowances, minted, burned; claims | mint, burn, transfer, approve, transfer_from; claim | the faucet mints |
| its **staking pool**, **lending**, **vaults** | positions; offers and loans; allocations | stake, unstake, rewards, slash; offer, borrow, repay, liquidate; deposit, withdraw | each of its own |
| its **marketplace**, **registry**, **oracle** | listings, purchases; scores; reported prices | list, buy, settle, rate; register, rate agents; report, ask | each of its own |
| its **chain and mempools** | blocks, unspent outputs, fee market, a second mempool | add, mine, purge | a transaction goes into both pools, a block comes out of one |
| **Memory store** `baitcoin_memory/store.py` | per namespace a snapshot and log segments; per process a cache, a counter, a lock | put, put_all, delete, get, get_all, force_snapshot, compact | everything that is saved goes through it |
| others | see `PROJECT.json` | contract engine, anchors, A2A exchange, daemons and HTTP API, Obscura, launcher, pipeline, FROST, vesting, dashboards, SDK, MCP, explorer | section 7 |

### What is hard, and what makes each part correct

* **BridgeLock with wBAIT.** Confirmations arrive one transaction at a time
  around midnights, pauses, direct burns and operator rotation. Correct means:
  one mint per L1 lock, an exact quorum, L1 custody equal to what is pending,
  outstanding or owed, a supply that never exceeds what is counted, bounded
  daily windows, and every burn paid.
* **Swap executor.** Every SQL statement commits by itself, workers go on with
  the row they read first, the payment enters the mempool before it is
  recorded, the process may die anywhere, and deposits appear, vanish and
  compete. Correct means: one payment per order, settled only if paid, a
  mirror that never runs ahead, no coin spent twice, final states that stay.
* **Intent gossip.** A sync and the broadcasts of new intents overlap, links
  break between a message and its answer, nodes restart with their log but
  without their broadcasts, two variants of one order compete. Correct means:
  neighbours with nothing more to say hold the same orders, and the talk ends.
* **Chain, block sync, external mining.** Memory and disk are written
  separately, peers' blocks bypass mempool, coins and persistence, a longer chain
  drops confirmed payments, templates outlive the tip they were made for.
  Correct means: a restart finds the chain, coins are those the chain leaves,
  no coin is spent twice by blocks of one's own, orphans are applied when they
  can be, transactions are not lost, work is credited once.
* **Python bridge and handoff.** The same transfer can be signed, minted or
  refunded from several entry points between two calls of one handoff, and the
  rows outlive the transfers. Correct means: a quorum decides, event, record,
  totals and rewards agree, limits hold over days, an order is locked once, its
  row never says more than happened, nothing is taken back.
* **Node.** A call changes memory and then saves with one to five puts; the
  process may be killed between any two. Correct means: what was answered is on
  disk, the figures agree with the records they come from, and neither the
  faucet nor a stake nor a coin pays twice, wherever the kill falls.
* **Memory store.** Readers take no lock, snapshots merge the cache, the log
  outlives the snapshot, segments are removed one by one and the process may
  die between any two of these. Correct means: only a write changes what a
  restart loads, every acknowledged write does, and no read is staler than the
  disk.

## 2. Plan

1. *Done:* BridgeLock + wBAIT with the abstract wrapped asset and its refinement;
   memory store; swap executor with its part of the chain.
2. *Done:* the chain with its persistence, peers' blocks and external mining; the
   Python bridge, composed with the handoff that drives it; the gossip of
   intents; the node with its eight ledgers.
3. *Left to model:* the order book and settlement of the A2A exchange, the
   competition of miner threads in `main_daemon.py`, blocks and transactions over
   the P2P connections, the storage effects of the contract engine.
4. *Done:* every invariant and every action property the runs check, and the
   refinement, are theorems; only the two liveness properties are not.
5. A module gets one passing run per question, and a violation run only for a
   sentence of the repository the code contradicts.

## 3. Modules

| Module | Role |
|---|---|
| `WBAIT` | the token: one action per external call, used as sub-steps by the bridge |
| `BridgeLock` | the bridge composed with the token; properties and fairness |
| `WrappedAsset`, `BridgeRefinement` | the abstract bridge and the refinement mapping |
| `BridgeDailyCap` | BridgeLock with a history variable: units minted per recipient and calendar day |
| `MemoryStore` | the store, statement by statement |
| `SwapExecutor` | executor, adapter, mirror and their part of the chain |
| `SwapGossip` | nodes, connections and messages that spread intents |
| `BaitChain` | chain, fee market, verification, persistence, peers' blocks, orphans |
| `WorkTemplates` | external mining, over `BaitChain` |
| `BridgeManager` | the Python bridge and its relayers |
| `BridgeHandoff` | the handoff with its rows, over `BridgeManager` |
| `BaitToken`, `StakingPool`, `Marketplace`, `NodeChain`, `LendingEngine`, `Vault`, `AgentRegistry`, `PriceOracle` | the ledgers of a node, one variable or a few each, an operator per call |
| `EcosystemNode` | the facade: calls, puts, kills, restores, composed from the eight ledgers |
| `MC*` | symmetry sets, values and initial states for TLC |
| `*Proofs` | theorems, each module beside the one it is about; those of `WorkTemplates` are in `BaitChainProofs`, of `BridgeDailyCap` in `BridgeLockProofs` |
| `SumTheorems` | lemmas about sums over finite sets, induction over intervals and sequences, and folds, for the proof modules |

### wBAIT and BridgeLock

A transaction is one action, because a revert undoes all of it; a call that
reverts is a disabled action. `ConfirmLockMint` therefore contains
`ExecuteLockMint` and the token's `Mint`, with the token's own requirements
(linked, not paused, below `MAX_SUPPLY`, no checked subtraction below zero) in
its guard. `consumedL1TxIds` and `usedL1TxIds` are written together and are one
variable. `lastMintDay` and time start on day 1, as block times do. OpenZeppelin
code is external and follows its documented behaviour; the full allowance
`MAX_UINT` is not reduced. Amounts stay far from 2^256, which `MAX_SUPPLY`
guarantees in the code.

### MemoryStore

One namespace (namespaces share only the cache's capacity). A log line is the
function it applies when replayed. The operation that holds the lock is a record
in `op`, a read in its own thread one in `read`; every file access and every
cache access is a step. `Crash` loses what is in memory. Replay of all segments
is one step; `fsync` is not modelled, so a line written is on disk. Which entry
is evicted and whether the snapshot's time interval has passed are
nondeterministic. The order in which `compact` removes segments is that of
`os.listdir`, hence any.

### SwapExecutor

`order`, `settlement` and `mirror` are the three tables. `pc[w]` and `local[w]`
are where a worker is and the locals it holds; one action per SQL statement or
read of chain or mempool:

| Code | Actions |
|---|---|
| `admit` | `Admit` (insert, or keep the row that is there) |
| `process`, reading | `Load`, `FindNothing`, `FindDeposit` |
| `_set_state` by `process` | `Diverge`, `Observe`, `Confirm` |
| `submit`, under its lock | `SubmitAgain`, `SubmitTx`, `RecordSubmission`, `RecordFails`, `SubmitRefused` |
| the update after it | `MarkSubmitted` |
| `status`, without a lock | `PollChain`, `PollMempool`, `PollAgain`, then `Settle` or `Lose` |
| `_sync_status`, `set_status` | `SyncNothing`, `SyncStart`, `SetStatus`, `SetStatusRefused` |
| miner, restart, Bitcoin | `MineBlock`, `PersistBlock`, `Crash`, `Bitcoin` |

The RPC calls of `find_deposit` are one snapshot. `BitcoinCoreReader` filters
by network, address and amount, so the later checks of the same fields in
`process` cannot fail and are left out. An intent that is refused at admission
(expired, stale parity attestation) is no step. Outputs and coins are numbers, in
the order the code sorts them by. A block takes any subset of the mempool, which
stands for weights and the nonce rule. A change output is smaller than its coin
and distinct from every other. Blocks of peers are not in this model.

### SwapGossip

`log[n]` is the sync log of a node's store, `conns` its connections with a queue
of messages towards each end, `casts[n]` the broadcast tasks that have not run.
The handlers `HandleVersion` ... `HandleIntent` take one message each, as the
read loop does; `Broadcast` is one task. An intent is what decides
`admit_intent`: its order, its maker's nonce, and whether it has expired. A
connection that breaks loses what is under way in both directions, and each end
drops it when it notices. `Crash` keeps the log and loses connections and
broadcasts.

### BaitChain and WorkTemplates

The code runs the chain in three ways and `mode` chooses one. The daemon
persists a block with four puts (`PersistStep`), may be killed between any two,
and rebuilds from what is there; an independent node persists nothing and takes
blocks of peers, in any order, late, twice or never; the mining service hands
out templates and takes shares and blocks. A block is a number, and what it says
is in `blocks`, for peers too. Transactions have one input and one output, the
only shape the verifier passes. `skipped` remembers which blocks were appended
without applying their transactions.

### BridgeManager and BridgeHandoff

A call of the manager is one step. `event` and `record` are the states of the
two objects the code keeps per transfer, `signers` the signatures the event
carries, `jobs` and `relayed` what relayers remember. `BridgeHandoff` composes
this with the durable `rows` and the `call` of `submit_proof_and_mint` in
progress, one signature per step, so relayers, refunds and mints fall between
them. Every write of a row may fail. `Restart` empties the manager and keeps rows.

### EcosystemNode and its ledgers

A ledger module has its state in one variable (a record) and an operator per
call. `EcosystemNode` makes an action of each: the call changes memory, and
`writes` becomes the puts still to come, in the order of the code's `_persist_`
methods (`TokenKeys`, `ClaimKeys`, `StakingKeys`, `AgentKeys`, `ChainKeys`).
`Put` does one; the last one ends the call. `Restart` may come between any two
and restores what the `_restore_` methods do: the first operation after it finds
exactly `disk`, less what `Image` does not save. A put is durable when it
returns, which is what `OnlyWritesChangeTheStore` and `WritesTakeEffect` of
`MemoryStore` say of it. The ledgers share nothing but the store, so a behaviour
exercises one of the eight (`client`), and Init chooses which.

Amounts are small integers and interest is computed as the code does, with its
two roundings (`Accrued`); shares of rewards round down; reputations of oracles
are whole numbers, which is what `int(weight)` leaves of them.

## 4. Runs

| Run | Distinct states | Instance | What it shows |
|---|---|---|---|
| `bridge_accounting` | 78 264 | 2 recipients, 2 requests, 2 L1 locks, amounts 0..1, 2-of-2 operators, one midnight, one timelock, token cap 2 | `AccountsBalance`: L1 custody is the sum of requests not minted, units outstanding and burns not paid, the supply is backed, no reservation is orphaned. `OneMintPerL1Tx`, and that the contracts implement `WrappedAsset` |
| `bridge_windows` | 39 216 | 3 requests, 3 L1 locks, 2-of-2 operators with a third to rotate in, 1 recipient | `ExactQuorum` through rotations half-way and a midnight; `AtMostTwoWindows`: a recipient receives at most 2 * RATE_LIMIT in a calendar day |
| `bridge_liveness` | 21 024 | 1 request, 1 release, 2-of-2 operators with a third, fairness | `EveryReleaseExecuted`: a burn is eventually paid through pauses and rotation |
| `memory_compaction` | 578 285 | 1 process that compacts, 2 keys, 2 values, 1 segment, cache of 1, 3 lines | `OnlyWritesChangeTheStore`: snapshots, failed snapshots, replay over a newer snapshot, eviction, compaction and crashes never change what a restart loads; `CacheCoherent` |
| `memory_threads` | 202 418 | 1 process and a reader thread, 2 keys, 3 segments of 1 line, cache of 1 | `WritesTakeEffect` although the reader leaves stale values in cache and snapshots |
| `swap_threads` | 786 609 | 2 workers, 1 order, 2 outputs, coins 1..3 (1 too short), no faults | `OnePaymentPerOrder`, `SettledIsPaid` although a late worker writes over what another has done |
| `swap_restart` | 616 734 | 1 worker, 2 orders that share 2 outputs and 1 coin, crashes and failed INSERTs | `NothingRunsAhead` (the mirror behind the row, the payment behind the confirmation), `NoCoinSpentTwice`, `FinalIsFinal` |
| `swap_paid_twice` | - | 1 order, 2 coins, faults | violated: the finding of section 6 |
| `chain` | 712 647 | 3 transactions (two compete for a coin, the third depends on the first), 4 blocks found by anyone, 4 orphans; one client, one share, one template | `RestartFindsTheChain`, `UtxoIsReplay`, `OrphanPoolSound`, `WorkSound`, `TransactionsAreKept`; `DoubleSpendNeedsAPeer`: the first double spend has its earlier spender in a block of a peer and its later one in a block of this node |
| `handoff` | 1 099 264 | 4 requests of 2 agents, two of them one request under two orders, 3 relayers with a quorum of 2, 2 transfers, one midnight | `TransfersAgree`, `LimitsHold`, `OneLockPerOrder`, `RowNeverAhead`, `NothingIsTakenBack` |
| `node` | 1 285 863 | 2 agents, one or two of everything, one restart | `AnsweredIsDurable`, `BooksAddUp`, `FaucetCapped`, `PaidOutOnce`, `PoolInOrder`, `NoDoubleSpend` |
| `gossip` | 407 022 | 3 nodes in a line, 3 intents of which two are variants of one order and one may expire, batches of 2, one fault | `QuietMeansSynced`, `GossipConverges` |

The states are modulo symmetry where the run has it. Some properties are
conjunctions of named parts, each of which the module states on its own:
`AccountsBalance` of `LockedDecomposition`, `SupplyBacked`, `NoOrphanReservation`;
`NothingRunsAhead` of `MirrorBehind`, `ConfirmedBeforePaid`; `RestartFindsTheChain`
of `DiskIsTheChain`, `MetadataFollows`; `OrphanPoolSound` of `NoOrphanFits`,
`OrphansBounded`; `TransactionsAreKept` of `MempoolLeavesForTheChain`,
`ConfirmedStays`; `TransfersAgree` of `RecordFollowsEvent`, `QuorumDecides`,
`TotalsFollow`, `PaidOncePerEvent`; `NothingIsTakenBack` of `FinalStays`,
`RowsAreKept`; `BooksAddUp` of `SupplyAddsUp`, `RewardsFit`, `BooksOfMarket`,
`LoansCovered`, `LoansAddUp`, `VaultsAddUp`, `RecordsAgree`.

### Bounds, and why they are enough

* **Bridge.** Two requests are what it takes for one to reset the other's
  reservation, three for two in one day and one in the next. `MaxTime` 2 with a
  day of length 1 has exactly one midnight; the counters are per day and only
  look at the present one, so a second midnight repeats the first. Two-of-two
  with a spare operator is the smallest quorum a rotation can disturb. The cap
  of 2 units is reached. `MaxReleases` only bounds what fairness speaks of;
  burns are bounded by the supply, which requests bound.
* **Memory.** A stale value needs two writes to one key, an eviction a second
  key with a cache of one. Three lines are two writes and one more that is
  glued, rotated or replayed; three segments let the log rotate twice.
  `MaxLines`, `MaxSegments` and the size of a segment are the bounds; a write
  that would pass them is not taken.
* **Swap.** A second worker is enough for a stale row. Two outputs let a
  deposit be replaced, and two orders that share both let the unique index
  reject one. One coin makes two orders compete for it; the three coins of
  `swap_threads` add a change output and one that is too short for the fee.
  Nothing grows without bound: an order is paid from finitely many coins.
* **Gossip.** Three nodes in a line is the least in which an intent has to be
  passed on; the third joins late with a variant of an order of its own, in
  `MCInit`, a state that is reachable from `Init`, so that the faults are spent
  where they matter. `Batch` 2 lets a log outgrow a batch. `Weak` and `MaxFaults`
  bound who may fail and how often: one fault. Deadlock is not checked, since
  everything may fall silent.
* **Chain.** Four blocks are two branches of two, or a branch that overtakes
  another by one with an orphan left. Four orphans are the least the eviction
  rule allows, and the pool reaches it. `MaxBlocks` stops the model, which is
  why deadlock is not checked. `MaxTime` 3 is past the life of a template and
  past a window of the request limit.
  `Unsound` {2, 3} says which blocks a peer may have found
  over transactions that do not verify: the second and the third are enough for
  one that extends the chain, one on a branch and one that comes as an orphan.
  The theorems are about every `Unsound` and every other bound.
* **Handoff.** Two transfers are a lock whose manager is lost and its repetition,
  or two locks of an agent at its limit; three relayers with a quorum of two let
  the third find the event ready. Relayers are symmetric; requests are not.
* **Node.** One restart between any two puts: a second meets a node that begins
  from `disk` like the first. Two agents are what transfers, shares and rates
  per agent need. Each client's own bounds are reached: the supply of 2, the
  faucet's limit of 2 claims, the pool of 2, the registry of 1, the history of 3
  that holds two deposits and a withdrawal over both.

### Fairness

Two specifications state any. `FairSpec` of `BridgeLock`: the operator daemons
retry a confirmation until it is accepted, and a confirmation is enabled again
after every pause: strong fairness on each request's and each release's
confirmations. The owner links the token and lifts pauses: weak fairness on
`LinkToken` and `UnpauseBridge`. Nothing else is fair; in particular nobody must
request, burn or pass time. The token's pause is not assumed to be lifted:
paying a release does not need it, and `AnyQuorumExecutes` assumes it explicitly.

`Fairness` of `SwapGossip`: the event loop of a node that has a message to handle,
a broadcast to run or, in its bootstrap loop, a seed to dial does some of that
work eventually: weak fairness on `EventLoop`, as asyncio runs its ready tasks.
Nobody must publish, crash, break a link or expire.

For the other modules nothing in the source schedules the steps
(`process_pending` has no caller), so no liveness is claimed.

## 5. Proofs

TLAPS checks these for every value of the constants that satisfies the named
assumptions of the modules, which only type the constants. Where a theorem needs
more it says so as a named hypothesis (`~Faults`, `Alone`, `OneProcess`,
`TakesTurns`), and the properties it restricts are those whose run has the same
restriction.

* **`BridgeLockProofs`.** `TypeCorrect`, one lemma per function. The type of
  `dailyReserved` is the interesting one: the code subtracts with a check, the
  model requires it in the guard, and the type shows the guard is there wherever
  it is needed. `OperatorTableCorrect` strengthens to: array and set agree,
  entries distinct, a pending candidate is a new address; a rotation replaces
  one entry by one that occurs nowhere else. `ExactQuorumCorrect` needs that an
  unexecuted request has fewer confirmations than the threshold and that the
  counter is the cardinality of the confirmers. `OneMintCorrect` relates the
  ledger of L1 transactions to the requests. `DailyWindowCorrect` follows the
  amounts from reserved to minted. `AccountsCorrect` states each account as a sum
  over the requests or the releases and moves one summand per step.
  `ImplementsCorrect` maps every step of the bridge to a step of `WrappedAsset` or
  to a stutter. (`OperatorTable` and `DailyWindowBounded` are proved and need no
  run.)
  `AtMostTwoWindowsCorrect`, about `BridgeDailyCap`, by `WindowHistory`: until
  the first request of the day, the counters include what was minted today;
  after it they miss at most one full window.
* **`SumTheorems`.** A sum does not change when no summand does, changes by one
  summand when one does, is split by a subset, is at most another when each
  summand is, and when each summand is the rounded share of a whole the sum is at
  most the whole (`SumFair`); a sum over the image of a set is one over the set
  (`SumImage`). Induction is over the set of subsets for which the claim holds,
  which the library's `FS_Induction` cannot be instantiated for; in the same way
  `SetInduction`, `BoundedInduction` and `SeqInduction` for numbers, intervals and
  sequences. A recursion over an interval exists, is typed and is unique
  (`RecursionExists`, `RecursionUnique`), hence the fold of a sequence, and that
  of a longer sequence continues it (`FoldExists`, `FoldUnique`).
* **`BridgeHandoffProofs`.** `HandoffTypeCorrect`, `TransfersCorrect`,
  `LimitsCorrect`, `OneLockCorrect`, `RowsCorrect` and
  `NothingTakenBackCorrect`. `HandoffInv` relates the row, the call in progress
  and the manager: a key belongs to one order (`KeysOnce`), a row names a lock
  made for it (`RowsNameLocks`), a call is at a point its row and its event
  allow (`CallFits`). To it come the totals as sums over the transfers (`Ledger`),
  what was paid per event (`PaidOncePerEvent`), and the locks of an agent and of a
  day as sets (`PendingFits`, `DaysFit`).
* **`MemoryStoreProofs`.** `MemoryTypeCorrect`. `OnlyWritesChangeTheStoreCorrect`
  (no process compacts, any number of processes) by `LogDecides`: a key some line
  settles is decided by the last such line, and a key no line settles is absent
  from the snapshot, the caches and every copy in progress; so no snapshot,
  however stale, changes what a restart loads. `WritesTakeEffectCorrect` for a
  store that one process uses (`OneProcess`), readers included: a write in
  progress still knows the newest line of its key (`NewestKnown`).
  `CacheCoherentCorrect` and `CompactionKeepsTheStore` where in addition nobody
  reads beside the process, and it does not compact or the log has one segment
  (`TakesTurns`), by `MemoryFaithful`: what is in memory is what a restart would load.
  Outside these hypotheses the properties are false (section 6).
* **`SwapExecutorProofs`.** `SwapTypeCorrect` carries along that a worker which
  is not idle has a full frame, that the state it loaded is an open one while it
  looks for a deposit, and that the walk of `_sync_status` stays on its path and
  below its target: without that, the next status would be undefined.
  `NoCoinSpentTwiceCorrect` with any faults: `submit` takes a coin that no block
  has spent and the mempool does not spend, and blocks come from the mempool.
  `OnePaymentCorrect` when the process lives and INSERTs succeed (`~Faults`), by
  `PayInv`: a transaction in the mempool or in a block is on record or is the
  one in flight, one worker at most is at the INSERT, and its order has nothing
  on record. The finding of section 6 is exactly the step that breaks its first
  part. `SettledCorrect`, also without faults, adds that a row beyond submission
  names a payment on record, and so does every copy a worker holds (`RowsPaid`,
  `FramesPaid`). `NothingAheadCorrect` and `FinalCorrect` with any faults for one worker
  (`Alone`), by `FitInv`: the copy in its frame is the row.
* **`BaitChainProofs`**, for any blocks, transactions, coins and peers, about
  `WorkTemplates` and so about the chain with external mining.
  `RestartCorrect` by `ChainInv`: how many puts of the last block are done decides
  what is on disk. `UtxoCorrect` by `Ledger`: the coins are the fold of the chain's
  blocks without the skipped ones; a reorganisation folds anew.
  `OrphansCorrect` by `OrphanInv`: after `_process_orphans` no orphan has its parent at
  the tip. It needs that the loop ends, hence that the pool is finite and shrinks.
  `DoubleSpendCorrect` by `SpendInv`: while no coin is spent twice, a coin unspent in
  the folded state is spent by no block that was applied. `KeptCorrect` is the
  action property. `WorkTypeCorrect` and `WorkCorrect` by `WorkInv`: the counters of
  the request limit are the cardinalities of what was admitted in the window, the
  templates outstanding fit their limit, a template's parent decides whether it
  is accepted, a share is credited to one client once.
  What the model folds over a sequence it writes as a recursive function; the
  lemmas about it are the inductions and folds of `SumTheorems`.
* **`EcosystemNodeProofs`**, for any agents, amounts, times and numbers of
  restarts. Every argument relates memory, disk and the puts still to come.
  `NodePaysOutOnce` by `PayInv`: a position that was paid is withdrawn or slashed
  both in memory and on disk, and while a payout is on its way the put of the
  positions is still to come or done, so a kill loses the answer with it, never
  only the record. `NodeCapsTheFaucet` by `GrantInv`: the coins granted, in memory
  and on disk, belong to claims that are on disk or ahead in `writes`: it is the
  order of `ClaimKeys` that makes this inductive. `NodeSpendsOnce` by `CoinInv`:
  on disk and in memory, an unspent coin is spent by no transaction of the
  chain, unless a kill separated the two puts. `NodeKeepsLoansCovered` by
  `LoanInv`: every active loan is covered in memory and on disk; a repayment can
  only lower its principal.

  `NodeIsTyped`, `NodeAnswersAreDurable` and `NodeBooksAddUp` follow from `NodeInv`,
  one conjunct per ledger, and `NodePoolInOrder` from its `PoolInv`. The conjuncts share
  one shape: a figure that is right is right in memory and on disk, and a key that
  is not `Pending` (that no put still to come will save) is on disk what it is in
  memory. At rest nothing is pending, which is `AnsweredIsDurable`; a put takes its
  key off the list and makes it equal; a restart takes over the side that was
  right as well. Only where two keys have to agree (balances and counters,
  positions and totals) does a kill between them hurt, and there the conjunct
  holds while `~torn`.
  - `TokenInv`: each coin moved leaves one balance and reaches another, so that one
    summand, or two, of `Holdings` change. `BankInv`: the shares, each rounded
    down, of what is distributed are at most all of it (`SumFair`), because the
    total is the sum over the positions in the pool (`Fits`); a slashed position
    that had been paid breaks that, so it is excluded there as in `RewardsFit`.
    `MarketInv`: a purchase counts once because settling puts it in `settled`.
    `LendInv`: a taken offer is no longer on offer. `AgentInv`: the score is
    what the list of events makes of the initial one. `OracleInv`: the median is
    one of the prices reported.
  - `VaultInv`: a withdrawal does not say from which deposits it is paid, so `Backs`
    names two functions that the code does not keep: the deposit each allocation is
    what is left of, and what has been taken from each deposit. What was taken
    and what is left are together at most the deposit's amount, or else the
    allocation was emptied and what was taken is at most what the deposit had become.
    From that, and since a value only grows with time, `VaultAddsUp` follows with
    both roundings. That the newest are taken from first, and that what is taken
    adds up to what is paid, is `TakenAdds`; that dropping the empty allocations
    drops no amount is `NonemptyIs` with `SumSpread`.
  - `PoolInv`: `_by_fee` is sorted, without repetition and lists exactly `_txs`; then the
    place that `bisect` finds keeps it so (`InsertAtIs`), and taking one entry
    and its fee away too (`Shortened`). After a restart the fees are missing and
    only `PoolOK` is left, which is why `PoolInOrder` ends there.

  `NodeAssumption`: the value that stands for no address is not an agent, and the
  number of restarts is any number. The agents, offers and purchases are finite
  sets, since the code sums over dictionaries.

* **`SwapGossipProofs`**, for any nodes and seeds, intents, batch size and number of
  faults. `GossipIsTyped` and `GossipQuietIsSynced` by `GossipInv`, which states for each
  direction of each live connection what is under way (`Kept`). `Half`: a node that is
  not ready still has its VERSION in the peer's queue, or a VERACK in its own with
  the peer's request behind it. `Owes`: each intent of its log that is promised
  (`Due`) the peer holds already (`Taken`), or will be asked for, or asks for, or has
  on its way in a batch or by itself, or it is among the broadcasts of a node that is
  ready. An intent that is logged while the node is not ready is covered by `Half`
  alone: the request must come behind the VERACK, or there would be a moment at
  which neither the answer nor a broadcast carries it, which is the mutant of
  `QuietMeansSynced`. What a batch makes of a log is `Absorbs`: longer, still of distinct
  orders and nonces, by items of the batch only, and every item taken. When the queues and
  the broadcasts are empty, `Taken` is all that is left of `Owes`.
  The argument does not need fairness, nor that two variants of an order agree.

Only model-checked: `EveryReleaseExecuted` and `GossipConverges`. They are liveness
under fairness, which is out of the prover's reach, as is `ENABLED`.

## 6. Findings

**An order paid twice** (`swap_paid_twice`). The transaction is in the mempool
before `swap_settlements` has its row; when the INSERT fails, or the process
dies after the block was mined, the next `submit` pays again.

The following were met while modelling. A module states the sentence, or says
what is promised instead, and TLC refutes the sentence in seconds; they have no run
of their own.

* *BridgeLock.* `AnyQuorumExecutes`: the first request of a new day sets
  `dailyReserved` to zero; a request from the day before then underflows in its
  last confirmation, for ever. `totalSupply == totalMinted`
  (`contracts/test/InvariantBridge.t.sol:57`) fails when a holder burns directly.
  "100,000 wBAIT/day/address cap" (`bridge/operator-onboarding.md:68`) fails
  across midnight, where `AtMostTwoWindows` is what holds; "2 cannot"
  (`bridge/operator-onboarding.md:67`) fails for the current operators, since the
  confirmation of a replaced one still counts.
* *Memory store.* `get` reads and caches without the lock, and a `put` in between
  is hidden from the process (`CacheCoherent` with a reader). Segments are removed
  in directory order: with a newer one gone first, a restart replays an older
  line over the newer snapshot (`OnlyWritesChangeTheStore` with compact and two
  segments). A line that was cut short swallows the next one, acknowledged or
  not. Two processes that write the same keys in one directory can revert each
  other's writes; the two stores the daemon opens on one directory
  (`main_daemon.py:116` and `PersistentState`) write disjoint keys and do not
  compact, and are covered by the theorem.
* *Python bridge.* `ReleasesLocked`: `release_bait` neither looks whether it was
  called before nor whether anything was minted. A handoff row whose transfer a
  restart lost stays as it is for ever.
  `relay_next` always takes the first event that wants signatures, also one it
  is refused for.
* *Chain.* `CoinbaseIsPaid`: the coinbase pays the fees of all selected
  transactions, also of those the verifier then drops. Transactions of a branch
  that lost are not returned to the mempool. A transaction that the chain has
  twice (`DoubleSpendNeedsAPeer` says how that begins) makes its coin a second
  time, which then anyone may spend again: of later double spends nothing can be
  said. With `MaxBlocks` 5 TLC reaches that state; the property speaks of the
  first one, and was checked with 5 blocks too.
* *Swap executor.* With two workers a settled row can go back to an earlier
  state and forward again; a block mined between the two scans of `status` sends
  a paid order to RECONCILING; after a crash an order may be settled while its
  block was never persisted.
* *Gossip.* What is logged behind an expired intent, or behind the first 50
  entries, never reaches a node that joins later, because `apply_deltas` stops at
  the first refusal and `from_seq` is always 0; what it accepted before the
  refusal is not passed on. Transactions are not sent on by the nodes that
  receive them, although `P2P_HANDSHAKE_SWAP_SYNC_PROTOCOL.md` says so.
* *Node.* `RatedOnce`: `rated`, like a purchase's txid and confirmations, is not
  saved. A kill between the put of the chain and that of its coins lets a coin be
  spent again, one between balances and counters makes the supply differ for
  good (`torn` in `NoDoubleSpend` and `SupplyAddsUp`). A position slashed after
  its withdrawal leaves the total twice, and the members left are credited more
  than was distributed. After a restart the list of negated fees is empty beside
  a full list of identifiers, the agent index has lost its default, and the fee
  market is empty (`PoolInOrder` holds until then). Equal fees are served newest
  first, although `mempool.py` says FIFO; the sum of fees is not lowered by an
  eviction; reputation events are not restored and the next one overwrites
  those saved.
* *Ledgers of the node.* "Liquidação automática de posições undercollateralized"
  (`lending/engine.py`) never happens: interest is not added to the principal,
  so a loan that was covered when it was taken stays covered (`LoansCovered`
  proves `Liquidatable = {}`). The oracle's "último preço válido" is kept in memory
  only: after a restart `get_price` answers null until fresh points arrive.
  `MIN_SOURCES` counts points, so one oracle is enough, and weights below 1 make
  the median an IndexError. `create_vault` for an agent that has a vault drops it
  with its deposits.

## 7. Not modelled

`PROJECT.json` lists every component with its reason. The larger ones:

* *A2A exchange:* order book, matching and settlement over PostgreSQL, whose
  correctness is mostly that of its SQL transactions.
* *Contract engine:* a stack machine whose behaviour is its programs; it halts by
  gas. A call that fails keeps the storage it wrote and the value it was
  credited, so there is no atomicity to state.
* *Bridge watcher and Merkle anchors:* hashing and polling of other chains.
* *Daemons and HTTP API:* wiring and generated answers. `main_daemon.py` also runs
  miner threads against each other; each of a round's threads mines a block, so
  `--blocks` counts rounds.
* *Blocks, transactions and headers over P2P:* what a received block does to the
  chain is in `BaitChain`, how it travels is not.

Inside the modelled components: events, logging and views; signatures and
hashes; quotes and parity attestations; the RPC client; rewards, weights and
difficulty of blocks; calls of a vault that nothing makes (`rebalance`,
`check_stop_loss`); the inbox that repeats what the sync store refuses; the file lock
of the memory store, which keeps the lines of two processes apart and is
therefore part of the step that writes a line.
