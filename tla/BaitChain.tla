----------------------------- MODULE BaitChain -----------------------------
(***************************************************************************)
(* A node's chain: chain.py, the fee market it mines from (fees.py), the   *)
(* verifier of transactions (tx_verifier.py) and the blocks of peers       *)
(* (block_sync.py).  The code runs it in three ways, and Init chooses one: *)
(* the daemon keeps its blocks in the memory store and may be killed       *)
(* between any two writes; an IndependentNode keeps nothing and is fed     *)
(* with blocks of peers in any order, late, twice, or never; the external  *)
(* mining service (WorkTemplates) hands out work on a chain in memory.     *)
(*                                                                         *)
(* The hash of a block is its number, in the order in which blocks are     *)
(* found anywhere; 0 is the genesis block, which every node makes itself.  *)
(* A coin is named by what created it: the number of the block whose       *)
(* coinbase it is, or the transaction (of one input and one output, the    *)
(* only shape the verifier passes, so all of one size).                    *)
(***************************************************************************)
EXTENDS Integers, Sequences, FiniteSets

CONSTANTS Txs,
          Spends,      \* the coin each transaction spends
          FeeRate, Agent, Nonce,
          WellFormed,  \* signed by the owner of its coin, no more out than in
          BlockSize,   \* BLOCK_MAX_WEIGHT, in transactions
          MaxOrphans,  \* max_orphan_pool
          MaxBlocks,   \* a bound: blocks found by anyone
          Unsound      \* a bound: which of them may be unsound

Ids == 0..MaxBlocks
Coins == Ids \cup Txs

ASSUME ChainAssumption ==
  /\ Txs \cap Ids = {}
  /\ MaxBlocks \in Nat /\ BlockSize \in Nat \ {0} /\ MaxOrphans \in Nat /\ MaxOrphans >= 4
  /\ Spends \in [Txs -> Coins] /\ FeeRate \in [Txs -> Nat] /\ Nonce \in [Txs -> Nat]
  /\ DOMAIN Agent = Txs /\ WellFormed \subseteq Txs

VARIABLES mode,     \* "daemon", "node" or "service"
          blocks,   \* what each block says, here and at the peers
          chain, utxo,
          mempool,  \* FeeMarket.entries
          orphans,  \* _orphan_pool, a dictionary in its order of insertion
          skipped,  \* history: blocks of the chain whose transactions were not applied
          disk,     \* namespace blockchain of the memory store
          puts      \* how many of the writes of _persist_block are done

vars == <<mode, blocks, chain, utxo, mempool, orphans, skipped, disk, puts>>

Blocks == [parent : Ids, height : Ids, txs : SUBSET Txs, paid : SUBSET Txs,
           local : BOOLEAN, sound : BOOLEAN]
Parent(b) == blocks[b].parent
Height(b) == IF b = 0 THEN 0 ELSE blocks[b].height
TxsOf(b) == IF b = 0 THEN {} ELSE blocks[b].txs
Tip == chain[Len(chain)]
TipHeight == Len(chain) - 1
InChain == {chain[i] : i \in DOMAIN chain}
ConfirmedTxs == UNION {TxsOf(b) : b \in InChain}
InMempool == {mempool[i] : i \in DOMAIN mempool}
AllPut == 4

TypeOK ==
  /\ mode \in {"daemon", "node", "service"}
  /\ blocks \in Seq(Blocks) /\ Len(blocks) <= MaxBlocks
  /\ chain \in Seq(Ids) /\ Len(chain) >= 1 /\ InChain \ {0} \subseteq DOMAIN blocks
  /\ utxo \subseteq Coins
  /\ mempool \in Seq(Txs)
  /\ \A i \in DOMAIN orphans : orphans[i].parent \in Ids /\ orphans[i].blocks \in Seq(DOMAIN blocks)
  /\ skipped \subseteq InChain
  /\ DOMAIN disk.block \subseteq Ids /\ \A h \in DOMAIN disk.block : disk.block[h] \in Ids
  /\ disk.height \in Ids /\ disk.tip \in Ids /\ disk.total \in Nat
  /\ puts \in 0..AllPut

Init ==
  /\ mode \in {"daemon", "node", "service"}
  /\ blocks = <<>>
  /\ chain = <<0>> /\ utxo = {0}
  /\ mempool = <<>> /\ orphans = <<>> /\ skipped = {}
  /\ disk = [block |-> [h \in {0} |-> 0], height |-> 0, tip |-> 0, total |-> 1]
  /\ puts = AllPut

\* A sequence without its elements outside S.
Kept(s, S) ==
  LET kept[n \in 0..Len(s)] ==
        IF n = 0 THEN <<>>
        ELSE IF s[n] \in S THEN Append(kept[n - 1], s[n]) ELSE kept[n - 1]
  IN  kept[Len(s)]

(***************************************************************************)
(* Chains, and the coins a chain leaves.                                   *)
(***************************************************************************)
\* The chain that ends in a block.
Branch ==
  LET to[b \in 0..Len(blocks)] == IF b = 0 THEN <<0>> ELSE Append(to[Parent(b)], b)
  IN  to

\* The coins left by the chain c, when those in plain only pay their coinbase.
Replay(c, plain) ==
  LET left[n \in 0..Len(c)] ==
        IF n = 0 THEN {}
        ELSE IF c[n] \in plain THEN left[n - 1] \cup {c[n]}
        ELSE (left[n - 1] \ {Spends[t] : t \in TxsOf(c[n])}) \cup {c[n]} \cup TxsOf(c[n])
  IN  left[Len(c)]

(***************************************************************************)
(* Transactions.                                                           *)
(***************************************************************************)
\* The entries stay sorted by rate, equal rates by age.
Insert(tx) ==
  LET first == {t \in Txs : FeeRate[t] >= FeeRate[tx]}
  IN  Kept(mempool, first) \o <<tx>> \o Kept(mempool, Txs \ first)

\* One may be sent before the coin it spends is confirmed, not before it is made.
AddTransaction(tx, validate) ==
  /\ puts = AllPut
  /\ Spends[tx] \in 0..Len(blocks) \cup InMempool \cup ConfirmedTxs
  /\ validate => tx \in WellFormed /\ Spends[tx] \in utxo
  /\ \A t \in InMempool : t # tx /\ Spends[t] # Spends[tx]
  /\ mempool' = Insert(tx)
  /\ UNCHANGED <<mode, blocks, chain, utxo, orphans, skipped, disk, puts>>

Selected == SubSeq(mempool, 1, IF BlockSize < Len(mempool) THEN BlockSize ELSE Len(mempool))

\* The verifier passes entry i, having passed those of seen before it.
Passes(i, seen) ==
  /\ mempool[i] \in WellFormed
  /\ Spends[mempool[i]] \in utxo
  /\ \A j \in seen : j < i =>
       /\ Spends[mempool[j]] # Spends[mempool[i]]
       /\ Agent[mempool[j]] = Agent[mempool[i]] => Nonce[mempool[j]] < Nonce[mempool[i]]

Verified ==
  {mempool[i] : i \in CHOOSE seen \in SUBSET DOMAIN Selected :
                        \A i \in DOMAIN Selected : i \in seen <=> Passes(i, seen)}

\* The coinbase is made of the selected, before the verifier drops some of them.
Template ==
  [parent |-> Tip, height |-> TipHeight + 1, txs |-> Verified,
   paid |-> {Selected[i] : i \in DOMAIN Selected}, local |-> TRUE, sound |-> TRUE]

MineBlockPruningSelected ==
  /\ puts = AllPut
  /\ Len(blocks) < MaxBlocks
  /\ blocks' = Append(blocks, Template)
  /\ chain' = Append(chain, Len(blocks'))
  /\ utxo' = (utxo \ {Spends[t] : t \in Verified}) \cup {Len(blocks')} \cup Verified
  /\ mempool' = Kept(mempool, Txs \ Template.paid)
  /\ puts' = IF mode = "daemon" THEN 0 ELSE AllPut
  /\ UNCHANGED <<mode, orphans, skipped, disk>>

MineBlockLeavingInputs ==
  /\ puts = AllPut
  /\ Len(blocks) < MaxBlocks
  /\ blocks' = Append(blocks, Template)
  /\ chain' = Append(chain, Len(blocks'))
  /\ utxo' = utxo \cup {Len(blocks')} \cup Verified
  /\ mempool' = Kept(mempool, Txs \ Verified)
  /\ puts' = IF mode = "daemon" THEN 0 ELSE AllPut
  /\ UNCHANGED <<mode, orphans, skipped, disk>>

\* A proof of work is found; an attempt that finds none changes nothing.
MineBlock ==
  /\ puts = AllPut
  /\ Len(blocks) < MaxBlocks
  /\ LET new == Len(blocks) + 1
         mined == Template.txs
     IN  /\ blocks' = Append(blocks, Template)
         /\ chain' = Append(chain, new)
         /\ utxo' = (utxo \ {Spends[t] : t \in mined}) \cup {new} \cup mined
         /\ mempool' = Kept(mempool, Txs \ mined)
  /\ puts' = IF mode = "daemon" THEN 0 ELSE AllPut
  /\ UNCHANGED <<mode, orphans, skipped, disk>>

(***************************************************************************)
(* The blocks on disk.  The miner's lock is held until the last write.     *)
(***************************************************************************)
Written ==
  CASE puts = 0 -> [disk EXCEPT !.block = [h \in DOMAIN @ \cup {TipHeight} |->
                                             IF h = TipHeight THEN Tip ELSE @[h]]]
    [] puts = 1 -> [disk EXCEPT !.height = TipHeight]
    [] puts = 2 -> [disk EXCEPT !.tip = Tip]
    [] puts = 3 -> [disk EXCEPT !.total = Len(chain)]

PersistBlock ==
  /\ puts < AllPut
  /\ disk' = Written
  /\ puts' = puts + 1
  /\ UNCHANGED <<mode, blocks, chain, utxo, mempool, orphans, skipped>>

RebuiltToMetadata ==
  LET upto[h \in Ids] ==
        IF h = 0 THEN <<0>>
        ELSE IF h <= disk.height /\ h \in DOMAIN disk.block
        THEN Append(upto[h - 1], disk.block[h])
        ELSE upto[h - 1]
  IN  upto[MaxBlocks]

\* By height; a block that does not follow the one before is left out.
Rebuilt ==
  LET upto[h \in Ids] ==
        IF h = 0 THEN <<0>>
        ELSE IF /\ h \in DOMAIN disk.block
                /\ Parent(disk.block[h]) = upto[h - 1][Len(upto[h - 1])]
        THEN Append(upto[h - 1], disk.block[h])
        ELSE upto[h - 1]
  IN  upto[MaxBlocks]

\* The process dies and starts again: the genesis block is written once more.
Restart ==
  /\ mode = "daemon"
  /\ chain' = Rebuilt
  /\ utxo' = Replay(Rebuilt, {})
  /\ mempool' = <<>>
  /\ disk' = [disk EXCEPT !.height = 0, !.tip = 0, !.total = 1]
  /\ puts' = AllPut
  /\ UNCHANGED <<mode, blocks, orphans, skipped>>

(***************************************************************************)
(* Blocks of peers.                                                        *)
(***************************************************************************)
\* A peer finds a block; its transactions are valid on the branch it extends.
\* The time of an unsound one is too far ahead, and what it holds never matters.
PeerMines(parent, sound) ==
  /\ mode = "node"
  /\ Len(blocks) < MaxBlocks /\ (sound \/ Len(blocks) + 1 \in Unsound)
  /\ LET left == Replay(Branch[parent], {})
     IN  \E txs \in SUBSET WellFormed :
           /\ {Spends[t] : t \in txs} \subseteq left
           /\ \A t, u \in txs : Spends[t] = Spends[u] => t = u
           /\ Cardinality(txs) <= BlockSize /\ (sound \/ txs = {})
           /\ blocks' = Append(blocks, [parent |-> parent, height |-> Height(parent) + 1, txs |-> txs,
                                        paid |-> txs, local |-> FALSE, sound |-> sound])
  /\ UNCHANGED <<mode, chain, utxo, mempool, orphans, skipped, disk, puts>>

WaitingFor(b) ==
  LET at == {i \in DOMAIN orphans : orphans[i].parent = b}
  IN  IF at = {} THEN <<>> ELSE orphans[CHOOSE i \in at : TRUE].blocks

SizeOf(pool) ==
  LET upto[i \in 0..Len(pool)] == IF i = 0 THEN 0 ELSE upto[i - 1] + Len(pool[i].blocks)
  IN  upto[Len(pool)]

PoolSize == SizeOf(orphans)

\* A full pool first drops its oldest keys, a quarter of its size of them.
Evicted ==
  IF PoolSize < MaxOrphans THEN orphans
  ELSE SubSeq(orphans, (MaxOrphans \div 4) + 1, Len(orphans))

AddToOrphanPool(b) ==
  orphans' = IF \E i \in DOMAIN Evicted : Evicted[i].parent = Parent(b)
             THEN [i \in DOMAIN Evicted |->
                     IF Evicted[i].parent = Parent(b)
                     THEN [Evicted[i] EXCEPT !.blocks = Append(@, b)] ELSE Evicted[i]]
             ELSE Append(Evicted, [parent |-> Parent(b), blocks |-> <<b>>])

\* Of the blocks that wait for a tip the first sound one is applied; the others
\* are too late then.
Fitting(b) == {i \in DOMAIN WaitingFor(b) : blocks[WaitingFor(b)[i]].sound}
Fit(b) == WaitingFor(b)[CHOOSE i \in Fitting(b) : \A j \in Fitting(b) : i <= j]

\* _process_orphans and validate_and_apply call each other.
Followers ==
  LET after[b \in Ids] ==
        IF Fitting(b) = {} THEN <<>> ELSE <<Fit(b)>> \o after[Fit(b)]
  IN  after

InPool == {orphans[i] : i \in DOMAIN orphans}

\* The chain becomes c, and then goes on with the orphans that follow it.
ApplyWithOrphans(c, coins, plain) ==
  LET more == Followers[c[Len(c)]]
      more_ids == {more[i] : i \in DOMAIN more}
  IN  /\ chain' = c \o more
      /\ utxo' = coins \cup more_ids
      /\ skipped' = plain \cup more_ids
      /\ orphans' = Kept(orphans, {o \in InPool : o.parent \notin more_ids \cup {c[Len(c)]}})

\* validate_and_apply: of the transactions only the coinbase is applied.
ApplyBlock(b) ==
  /\ mode = "node"
  /\ Height(b) = TipHeight + 1 /\ Parent(b) = Tip /\ blocks[b].sound
  /\ ApplyWithOrphans(Append(chain, b), utxo \cup {b}, skipped \cup {b})
  /\ UNCHANGED <<mode, blocks, mempool, disk, puts>>

\* Too high, or a fork at the next height.
PoolBlock(b) ==
  /\ mode = "node"
  /\ \/ Height(b) > TipHeight + 1
     \/ Height(b) = TipHeight + 1 /\ Parent(b) # Tip
  /\ AddToOrphanPool(b)
  /\ UNCHANGED <<mode, blocks, chain, utxo, mempool, skipped, disk, puts>>

ResolveKeepingCoins(b, k) ==
  LET candidate == SubSeq(Branch[b], k + 1, Height(b) + 1)
      new == SubSeq(chain, 1, k) \o candidate
  IN  /\ mode = "node"
      /\ k <= Len(chain) /\ chain[k] = Branch[b][k]
      /\ \A i \in DOMAIN candidate : blocks[candidate[i]].sound
      /\ Len(new) > Len(chain)
      /\ ApplyWithOrphans(new, utxo, {})
      /\ UNCHANGED <<mode, blocks, mempool, disk, puts>>

ResolveWithoutOrphans(b, k) ==
  LET candidate == SubSeq(Branch[b], k + 1, Height(b) + 1)
      new == SubSeq(chain, 1, k) \o candidate
  IN  /\ mode = "node"
      /\ k <= Len(chain) /\ chain[k] = Branch[b][k]
      /\ \A i \in DOMAIN candidate : blocks[candidate[i]].sound
      /\ Len(new) > Len(chain)
      /\ chain' = new /\ utxo' = Replay(new, {}) /\ skipped' = {}
      /\ UNCHANGED <<mode, blocks, mempool, orphans, disk, puts>>

\* resolve_longer_chain, with the blocks of the branch of b from height k on.
ResolveLongerChain(b, k) ==
  LET candidate == SubSeq(Branch[b], k + 1, Height(b) + 1)
      new == SubSeq(chain, 1, k) \o candidate
  IN  /\ mode = "node"
      /\ k <= Len(chain) /\ chain[k] = Branch[b][k]
      /\ \A i \in DOMAIN candidate : blocks[candidate[i]].sound
      /\ Len(new) > Len(chain)
      /\ ApplyWithOrphans(new, Replay(new, {}), {})
      /\ UNCHANGED <<mode, blocks, mempool, disk, puts>>

Next ==
  \/ \E tx \in Txs, validate \in BOOLEAN : AddTransaction(tx, validate)
  \/ MineBlock
  \/ PersistBlock
  \/ Restart
  \/ \E parent \in 0..Len(blocks), sound \in BOOLEAN : PeerMines(parent, sound)
  \/ \E b \in DOMAIN blocks : ApplyBlock(b) \/ PoolBlock(b)
  \/ \E b \in DOMAIN blocks : \E k \in 1..Height(b) : ResolveLongerChain(b, k)

Spec == Init /\ [][Next]_vars

(***************************************************************************)
(* Properties.                                                             *)
(***************************************************************************)
\* The daemon's process may die at any moment: what the next one rebuilds from
\* the store is the chain in memory, or lacks only the block being written,
\* also after a height was mined again (chain.py:92-114, 116-170).
DiskIsTheChain ==
  mode = "daemon" => Rebuilt = IF puts = 0 THEN SubSeq(chain, 1, TipHeight) ELSE chain

\* No write makes the metadata name a height or a hash whose block is not in
\* the store (chain.py:109-114: the block goes first).
MetadataFollows ==
  disk.height \in DOMAIN disk.block /\ disk.tip \in {disk.block[h] : h \in DOMAIN disk.block}

\* A process killed at any write leaves a store that names only blocks it has,
\* from which the next process gets its chain back (chain.py:91-114, 116-238).
RestartFindsTheChain == DiskIsTheChain /\ MetadataFollows

\* The coins the node mines and answers balances from are those its chain
\* leaves, but for the transactions of the blocks that were appended with
\* their coinbase only since the last switch (block_sync.py:213-219, 323-347).
UtxoIsReplay == utxo = Replay(chain, skipped)

\* No coin is spent by two transactions of the chain c.
SpentOnce(c) ==
  \A i, j \in DOMAIN c : \A t \in TxsOf(c[i]), u \in TxsOf(c[j]) :
    Spends[t] = Spends[u] => i = j /\ t = u

\* The first time the chain spends a coin twice, the earlier spender came in a
\* block of a peer and the later one was mined here; so without peers it never
\* does, and no block spends a coin twice by itself (chain.py:348-354, 372-375).
\* After that first time a transaction is in the chain twice and has made its
\* coin again, which then anyone may spend again.
DoubleSpendNeedsAPeer ==
  \A i, j \in DOMAIN chain : \A t \in TxsOf(chain[i]), u \in TxsOf(chain[j]) :
    i <= j /\ Spends[t] = Spends[u] /\ SpentOnce(SubSeq(chain, 1, j - 1)) =>
      IF i = j THEN t = u ELSE ~blocks[chain[i]].local /\ blocks[chain[j]].local

\* No block waits in the pool for the block that is the tip: what can be
\* applied has been (block_sync.py:384-404).
NoOrphanFits == WaitingFor(Tip) = <<>>

\* The orphan pool stays within its limit (block_sync.py:358-360).
OrphansBounded == PoolSize <= MaxOrphans

\* The pool of orphans holds what has to wait and no more than its limit, after
\* any order of arrivals and evictions (block_sync.py:349-404).
OrphanPoolSound == NoOrphanFits /\ OrphansBounded

\* "Only mutate the UTXO set and mempool after PoW succeeds ... instead of
\* silently losing a settlement" (chain.py:369-371): a transaction leaves the
\* mempool for a block of the chain, or because the process died.
MempoolLeavesForTheChain ==
  [][(\A t \in InMempool : t \in InMempool' \/ t \in ConfirmedTxs') \/ Restart]_vars

\* A confirmed transaction stays confirmed, but for a switch to a longer chain
\* and for a process killed before the first write (chain.py:92-114).
ConfirmedStays ==
  [][Len(chain') > Len(chain) \/ puts = 0 \/ ConfirmedTxs \subseteq ConfirmedTxs']_vars

\* A transaction gets from the mempool into the chain and stays there, but for
\* a crash or a switch to a longer chain (chain.py:369-385; block_sync.py:323).
TransactionsAreKept == MempoolLeavesForTheChain /\ ConfirmedStays

\* "coinbase exceeds reward plus fees" (block_validation.py:67-73): the
\* coinbase of a block of this chain is paid by the block's transactions.
CoinbaseIsPaid == \A b \in InChain \ {0} : blocks[b].paid \subseteq TxsOf(b)
=============================================================================
