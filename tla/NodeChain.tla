----------------------------- MODULE NodeChain -----------------------------
(***************************************************************************)
(* The two pools of transactions of an EcosystemNode and the blocks it     *)
(* mines: the fee market of its Blockchain, from which blocks are made     *)
(* (BaitChain has its details), and the standalone Mempool (mempool.py),   *)
(* which the node fills beside it, empties after a block, and saves.  A    *)
(* coin is the height whose coinbase it is, or the transaction that makes  *)
(* it; a block is the set of its transactions.  No two transactions of an  *)
(* agent are in one block, so their nonces play no part.                   *)
(***************************************************************************)
EXTENDS Integers, Sequences, FiniteSets, SequencesExt

CONSTANTS Txs, Spends, Fee, Sender,
          MaxSize,    \* MAX_SIZE of the mempool
          MaxHeight   \* a bound

Coins == 0..MaxHeight \cup Txs

ASSUME ChainAssumption ==
  /\ MaxSize \in Nat \ {0} /\ MaxHeight \in Nat
  /\ Spends \in [Txs -> Coins] /\ Fee \in [Txs -> Nat] /\ DOMAIN Sender = Txs
  /\ Txs \cap Nat = {}

VARIABLES ledger,     \* the Blockchain: chain and utxo_set
          feeMarket,  \* its FeeMarket
          pool        \* the Mempool

Listed == ToSet(pool.byFee)

ChainTypeOK ==
  /\ ledger.chain \in Seq(SUBSET Txs) /\ ledger.utxo \subseteq Coins
  /\ feeMarket \subseteq Txs
  /\ pool.txs \subseteq Txs /\ pool.byFee \in Seq(Txs) /\ pool.negFees \in Seq(Nat)
  /\ pool.byAgent \subseteq Txs /\ pool.plain \in BOOLEAN /\ pool.raised \in BOOLEAN

\* by_agent becomes a plain dictionary, which has no entry for new agents, when
\* it is restored; known holds its keys.  raised says that the last call failed.
EmptyPool == [txs |-> {}, byFee |-> <<>>, negFees |-> <<>>, byAgent |-> {}, known |-> {},
              plain |-> FALSE, raised |-> FALSE]

ChainInit ==
  /\ ledger = [chain |-> <<>>, utxo |-> {0}]
  /\ feeMarket = {}
  /\ pool = EmptyPool

(***************************************************************************)
(* The mempool.  A list of fees is kept beside the list of identifiers,    *)
(* for bisect.                                                             *)
(***************************************************************************)
EvictLeavingFee(p) ==
  IF p.byFee = <<>> THEN p
  ELSE LET lowest == Last(p.byFee)
       IN  [p EXCEPT !.byFee = Front(@), !.txs = @ \ {lowest}, !.byAgent = @ \ {lowest}]

\* _evict_lowest_fee; the new transaction may pay less than the one that leaves.
Evict(p) ==
  IF p.byFee = <<>> THEN p
  ELSE IF p.negFees = <<>> THEN [p EXCEPT !.byFee = Front(@), !.raised = TRUE]
  ELSE LET lowest == Last(p.byFee)
       IN  [p EXCEPT !.byFee = Front(@), !.negFees = Front(@), !.txs = @ \ {lowest},
                     !.byAgent = @ \ {lowest}]

\* Before the first entry that pays no more: of equal fees the newest comes first.
Place(p, tx) == Cardinality({i \in DOMAIN p.negFees : p.negFees[i] > Fee[tx]}) + 1

AddedTo(p, tx) ==
  IF p.raised THEN p
  ELSE IF p.plain /\ Sender[tx] \notin p.known
  THEN [p EXCEPT !.txs = @ \cup {tx}, !.raised = TRUE]
  ELSE [p EXCEPT !.txs = @ \cup {tx}, !.byAgent = @ \cup {tx}, !.known = @ \cup {Sender[tx]},
                 !.byFee = InsertAt(@, Place(p, tx), tx),
                 !.negFees = InsertAt(@, Place(p, tx), Fee[tx])]

Calm == [pool EXCEPT !.raised = FALSE]

Added(tx) ==
  AddedTo(IF Cardinality(pool.txs) >= MaxSize THEN Evict(Calm) ELSE Calm, tx)

\* One transaction leaves: an index beyond the fees, or an agent without an
\* entry, ends the call where it is.
Removed(p, tx) ==
  LET at == {i \in DOMAIN p.byFee : p.byFee[i] = tx}
      i  == CHOOSE i \in at : TRUE
      q  == [p EXCEPT !.txs = @ \ {tx}]
  IN  IF p.raised \/ tx \notin p.txs THEN p
      ELSE IF at # {} /\ i \notin DOMAIN p.negFees
      THEN [q EXCEPT !.byFee = RemoveAt(@, i), !.raised = TRUE]
      ELSE LET r == IF at = {} THEN q
                    ELSE [q EXCEPT !.byFee = RemoveAt(@, i), !.negFees = RemoveAt(@, i)]
           IN  [r EXCEPT !.raised = tx \notin r.byAgent, !.byAgent = @ \ {tx}]

RemovedAll(order) ==
  LET rest[n \in 0..Len(order)] == IF n = 0 THEN Calm ELSE Removed(rest[n - 1], order[n])
  IN  rest[Len(order)]

\* mempool_add, also the second half of add_transaction.
MempoolAdd(tx) ==
  /\ tx \notin pool.txs
  /\ pool' = Added(tx)

\* Which transactions are an hour old is a choice of the clock.
PurgeExpired(expired) ==
  /\ expired # {} /\ expired \subseteq pool.txs
  /\ \E order \in SetToSeqs(expired) : pool' = RemovedAll(order)

(***************************************************************************)
(* The chain.                                                              *)
(***************************************************************************)
\* A transaction is sent by the holder of the coin it spends, once it exists.
AddTransaction(tx) ==
  /\ Spends[tx] \in 0..Len(ledger.chain) \cup UNION ToSet(ledger.chain)
  /\ \A t \in feeMarket : t # tx /\ Spends[t] # Spends[tx]
  /\ feeMarket' = feeMarket \cup {tx}
  /\ pool' = IF tx \in pool.txs THEN Calm ELSE Added(tx)
  /\ UNCHANGED ledger

Mined == {t \in feeMarket : Spends[t] \in ledger.utxo}

MineBlockLeavingInputs ==
  /\ Len(ledger.chain) < MaxHeight
  /\ ledger' = [chain |-> Append(ledger.chain, Mined),
                utxo |-> ledger.utxo \cup {Len(ledger.chain) + 1} \cup Mined]
  /\ feeMarket' = feeMarket \ Mined
  /\ \E order \in SetToSeqs(Mined) : pool' = RemovedAll(order)

MineBlock ==
  /\ Len(ledger.chain) < MaxHeight
  /\ ledger' = [chain |-> Append(ledger.chain, Mined),
                utxo |-> (ledger.utxo \ {Spends[t] : t \in Mined})
                           \cup {Len(ledger.chain) + 1} \cup Mined]
  /\ feeMarket' = feeMarket \ Mined
  /\ \E order \in SetToSeqs(Mined) : pool' = RemovedAll(order)

=============================================================================
