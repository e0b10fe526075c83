----------------------------- MODULE SwapGossip -----------------------------
(***************************************************************************)
(* The gossip of swap intents between P2P nodes: P2PNode                   *)
(* (baitcoin_core/network/p2p_real/node.py) over the SwapSyncStore of each *)
(* node (native_processing/swap_sync.py).                                  *)
(*                                                                         *)
(* Every connection begins with VERSION and VERACK both ways; whoever      *)
(* handles a VERSION also asks for the intents the peer has logged, once,  *)
(* from the beginning and at most Batch of them.  From the VERACK on, an   *)
(* intent that is new is sent to every peer that is ready, by the node     *)
(* that publishes it and by every node it is new to.                       *)
(*                                                                         *)
(* Stores survive a crash; connections, handshakes and broadcasts that     *)
(* have not run yet do not.                                                *)
(***************************************************************************)
EXTENDS Naturals, FiniteSets, Sequences, SequencesExt

CONSTANTS
    Nodes,
    Seeds,         \* the nodes each node dials
    Intents,
    Order,         \* the order_id of an intent; two variants may share one
    Nonce,         \* its maker and the maker's nonce
    Home,          \* the node whose client publishes it
    MayExpire,     \* the intents whose expires_at may pass
    Batch,         \* SYNC_BATCH_SIZE
    Enough,        \* connections with which the bootstrap loop is content
    Weak,          \* nodes that crash, or whose own connections break
    MaxFaults      \* connections that break and nodes that crash

ASSUME GossipAssumption ==
    /\ Seeds \in [Nodes -> SUBSET Nodes]
    /\ \A n \in Nodes : n \notin Seeds[n]
    /\ Home \in [Intents -> Nodes]
    /\ MayExpire \subseteq Intents
    /\ {Batch, Enough} \subseteq Nat \ {0}
    /\ MaxFaults \in Nat

VARIABLES
    log,           \* swap_sync_log of each node: the intents it holds, in order
    casts,         \* broadcasts each event loop has yet to run
    conns,         \* the connections some node still has in _connections
    expired,       \* intents verify refuses from now on
    faults,
    untold         \* history: accepted from a batch that was then refused

vars == <<log, casts, conns, expired, faults, untold>>

Messages == [type : {"VERSION", "VERACK", "SYNC_REQUEST"}, items : {<<>>}]
              \cup [type : {"SYNC_RESPONSE", "INTENT"}, items : Seq(Intents)]
Message(type) == [type |-> type, items |-> <<>>]

Ends(c) == {c.from, c.to}
Peer(c, n) == CHOOSE m \in Ends(c) : m # n
HeldBy(n) == {c \in conns : n \in c.held}

GossipTypeOK ==
    /\ log \in [Nodes -> Seq(Intents)]
    /\ \A n \in Nodes : \A i, j \in 1..Len(log[n]) :
          Order[log[n][i]] = Order[log[n][j]] \/ Nonce[log[n][i]] = Nonce[log[n][j]] => i = j
    /\ casts \in [Nodes -> Seq(Intents)]
    /\ \A c \in conns :
          /\ c.to \in Seeds[c.from] /\ c.live \in BOOLEAN
          /\ c.held \in (SUBSET Ends(c)) \ {{}} /\ c.ready \subseteq c.held
          /\ c.in \in [Ends(c) -> Seq(Messages)]
          /\ ~c.live => \A n \in Ends(c) : c.in[n] = <<>>
    /\ \A n \in Nodes, m \in Nodes : Cardinality({c \in HeldBy(n) : c.from = n /\ c.to = m}) <= 1
    /\ expired \subseteq MayExpire
    /\ faults \in 0..MaxFaults
    /\ untold \in [Nodes -> SUBSET Intents]

Init ==
    /\ log = [n \in Nodes |-> <<>>]
    /\ casts = [n \in Nodes |-> <<>>]
    /\ conns = {}
    /\ expired = {}
    /\ faults = 0
    /\ untold = [n \in Nodes |-> {}]

-----------------------------------------------------------------------------
(* SwapSyncStore.  The inbox is left out: it refuses only what the store    *)
(* refuses for holding the order, or for the maker's nonce, already.        *)

Taken(l, i) == \E j \in ToSet(l) : Order[j] = Order[i] \/ Nonce[j] = Nonce[i]

AdmittedByDigest(l, i) == IF i \in ToSet(l) THEN l ELSE Append(l, i)

\* admit_intent, for an intent that verify accepts.
Admitted(l, i) == IF Taken(l, i) THEN l ELSE Append(l, i)

\* apply_deltas goes on to the first item that verify refuses.
Valid(items) ==
    LET Sound(k) == \A j \in 1..k : items[j] \notin expired
    IN  SubSeq(items, 1, Max({k \in 0..Len(items) : Sound(k)}))

Applied(l, items) ==
    LET upto[k \in 0..Len(items)] == IF k = 0 THEN l ELSE Admitted(upto[k - 1], items[k])
    IN  upto[Len(items)]

-----------------------------------------------------------------------------
(* Connections *)

Becomes(c, new) == conns' = (conns \ {c}) \cup {new}

\* What is written to a connection that is broken goes nowhere.
Sent(c, n, msgs) == IF c.live THEN [c EXCEPT !.in[n] = @ \o msgs] ELSE c

\* A connection that is cut loses what was under way in both directions.
Cut(c) == [c EXCEPT !.live = FALSE, !.in = [n \in Ends(c) |-> <<>>]]

\* connect_to_peer by start or by the bootstrap loop, and _accept_connection:
\* both ends register the connection and send VERSION.
Dial(n, m) ==
    /\ m \in Seeds[n]
    /\ Cardinality(HeldBy(n)) < Enough
    /\ \A c \in HeldBy(n) : ~(c.from = n /\ c.to = m)
    /\ conns' = conns \cup {[from |-> n, to |-> m, live |-> TRUE, held |-> {n, m}, ready |-> {},
                             in |-> [e \in {n, m} |-> <<Message("VERSION")>>]]}
    /\ UNCHANGED <<log, casts, expired, faults, untold>>

Break(c) ==
    /\ Ends(c) \cap Weak # {} /\ c.live /\ faults < MaxFaults
    /\ faults' = faults + 1
    /\ Becomes(c, Cut(c))
    /\ UNCHANGED <<log, casts, expired, untold>>

\* The read loop finds the end of the stream, or hears nothing for 120 s.
Disconnect(n, c) ==
    /\ ~c.live /\ n \in c.held
    /\ conns' = (conns \ {c}) \cup
                    (IF c.held = {n} THEN {} ELSE {[c EXCEPT !.held = @ \ {n}, !.ready = @ \ {n}]})
    /\ UNCHANGED <<log, casts, expired, faults, untold>>

-----------------------------------------------------------------------------
(* Handlers: node n takes the first message of connection c. *)

Receives(n, c, type) == n \in c.held /\ c.in[n] # <<>> /\ Head(c.in[n]).type = type
Items(n, c) == Head(c.in[n]).items
Taking(n, c) == [c EXCEPT !.in[n] = Tail(@)]

HandleVersionAskingFirst(n, c) ==
    /\ Receives(n, c, "VERSION")
    /\ Becomes(c, Sent([Taking(n, c) EXCEPT !.ready = @ \ {n}], Peer(c, n),
                       <<Message("SYNC_REQUEST"), Message("VERACK")>>))
    /\ UNCHANGED <<log, casts, expired, faults, untold>>

HandleVersion(n, c) ==
    /\ Receives(n, c, "VERSION")
    /\ Becomes(c, Sent([Taking(n, c) EXCEPT !.ready = @ \ {n}], Peer(c, n),
                       <<Message("VERACK"), Message("SYNC_REQUEST")>>))
    /\ UNCHANGED <<log, casts, expired, faults, untold>>

HandleVerack(n, c) ==
    /\ Receives(n, c, "VERACK")
    /\ Becomes(c, [Taking(n, c) EXCEPT !.ready = @ \cup {n}])
    /\ UNCHANGED <<log, casts, expired, faults, untold>>

Deltas(n) == SubSeq(log[n], 1, IF Len(log[n]) < Batch THEN Len(log[n]) ELSE Batch)

HandleSyncRequest(n, c) ==
    /\ Receives(n, c, "SYNC_REQUEST")
    /\ Becomes(c, Sent(Taking(n, c), Peer(c, n),
                       <<[type |-> "SYNC_RESPONSE", items |-> Deltas(n)]>>))
    /\ UNCHANGED <<log, casts, expired, faults, untold>>

\* Everything in the batch is broadcast when something of it was new, and
\* nothing when an item was refused.
HandleSyncResponse(n, c) ==
    /\ Receives(n, c, "SYNC_RESPONSE")
    /\ LET items == Items(n, c)
           whole == Valid(items) = items
       IN  /\ log' = [log EXCEPT ![n] = Applied(@, Valid(items))]
           /\ casts' = IF whole /\ log' # log THEN [casts EXCEPT ![n] = @ \o items] ELSE casts
           /\ untold' = IF whole THEN untold
                        ELSE [untold EXCEPT ![n] = @ \cup (ToSet(log'[n]) \ ToSet(log[n]))]
    /\ Becomes(c, Taking(n, c))
    /\ UNCHANGED <<expired, faults>>

HandleIntentRelayingAll(n, c) ==
    /\ Receives(n, c, "INTENT")
    /\ log' = [log EXCEPT ![n] = Applied(@, Valid(Items(n, c)))]
    /\ casts' = [casts EXCEPT ![n] = @ \o Valid(Items(n, c))]
    /\ Becomes(c, Taking(n, c))
    /\ UNCHANGED <<expired, faults, untold>>

\* The sender of a new intent is among the peers it is sent on to.
HandleIntent(n, c) ==
    /\ Receives(n, c, "INTENT")
    /\ log' = [log EXCEPT ![n] = Applied(@, Valid(Items(n, c)))]
    /\ casts' = IF log' # log THEN [casts EXCEPT ![n] = @ \o Items(n, c)] ELSE casts
    /\ Becomes(c, Taking(n, c))
    /\ UNCHANGED <<expired, faults, untold>>

Handle(n, c) ==
    \/ HandleVersion(n, c)
    \/ HandleVerack(n, c)
    \/ HandleSyncRequest(n, c)
    \/ HandleSyncResponse(n, c)
    \/ HandleIntent(n, c)

\* broadcast_swap_intent, when the event loop comes to it.
Broadcast(n) ==
    /\ casts[n] # <<>>
    /\ LET msg == [type |-> "INTENT", items |-> <<Head(casts[n])>>]
       IN  conns' = {IF n \in c.ready THEN Sent(c, Peer(c, n), <<msg>>) ELSE c : c \in conns}
    /\ casts' = [casts EXCEPT ![n] = Tail(@)]
    /\ UNCHANGED <<log, expired, faults, untold>>

-----------------------------------------------------------------------------
\* publish_intent; a duplicate or a conflict changes nothing.
Publish(i) ==
    LET n == Home[i]
    IN  /\ i \notin expired /\ ~Taken(log[n], i)
        /\ log' = [log EXCEPT ![n] = Append(@, i)]
        /\ casts' = [casts EXCEPT ![n] = Append(@, i)]
        /\ UNCHANGED <<conns, expired, faults, untold>>

Expire(i) ==
    /\ i \in MayExpire \ expired
    /\ expired' = expired \cup {i}
    /\ UNCHANGED <<log, casts, conns, faults, untold>>

\* A node is killed, perhaps between two items of a batch, and started again.
Crash(n) ==
    /\ n \in Weak
    /\ faults < MaxFaults
    /\ faults' = faults + 1
    /\ \/ UNCHANGED log
       \/ \E c \in HeldBy(n) :
             /\ Receives(n, c, "SYNC_RESPONSE")
             /\ \E k \in 1..(Len(Valid(Items(n, c))) - 1) :
                   log' = [log EXCEPT ![n] = Applied(@, SubSeq(Items(n, c), 1, k))]
    /\ casts' = [casts EXCEPT ![n] = <<>>]
    /\ conns' = {c \in {IF n \in c.held THEN [Cut(c) EXCEPT !.held = @ \ {n}, !.ready = @ \ {n}] ELSE c
                          : c \in conns} : c.held # {}}
    /\ UNCHANGED <<expired, untold>>

Next ==
    \/ \E n, m \in Nodes : Dial(n, m)
    \/ \E c \in conns : Break(c)
    \/ \E n \in Nodes, c \in conns : Disconnect(n, c) \/ Handle(n, c)
    \/ \E n \in Nodes : Broadcast(n) \/ Crash(n)
    \/ \E i \in Intents : Publish(i) \/ Expire(i)

\* What a node's event loop does by itself: it serves every connection, runs
\* what it has queued, notices dead connections at the latest by the read
\* timeout, and dials its seeds again every minute.
EventLoop(n) ==
    \/ \E m \in Nodes : Dial(n, m)
    \/ \E c \in HeldBy(n) : Disconnect(n, c) \/ Handle(n, c)
    \/ Broadcast(n)

\* As long as some event loop has work, one of them does some.  Nobody has to
\* publish, and nothing has to fail.
Fairness == WF_vars(\E n \in Nodes : EventLoop(n))

Spec == Init /\ [][Next]_vars /\ Fairness

-----------------------------------------------------------------------------
(* Properties *)

Quiet(c) ==
    /\ c.live /\ c.ready = Ends(c)
    /\ \A n \in Ends(c) : c.in[n] = <<>> /\ casts[n] = <<>>

(* Between two nodes that are ready and have nothing more to tell each      *)
(* other, no order is known to one and not to the other, whatever joined,   *)
(* broke or restarted when: the request that follows VERACK leaves no gap   *)
(* before the broadcasts.  Not promised, because the code does not do it:   *)
(* what is logged behind an intent that has expired, what is logged behind  *)
(* the first Batch entries, and what was accepted from a batch that was     *)
(* refused further on.                                                      *)
QuietMeansSynced ==
    \A c \in conns : Quiet(c) =>
       \A n \in Ends(c) : \A k \in 1..Len(log[n]) :
          /\ \A j \in 1..k : log[n][j] \notin expired
          /\ k <= Batch
          /\ log[n][k] \notin untold[n]
          => Taken(log[Peer(c, n)], log[n][k])

(* In the end the nodes are silent for good, because an intent is sent on   *)
(* only by a node to which it is new, though also back to its sender; and   *)
(* every order known to one node is then known to all, unless an intent has *)
(* expired or some log has outgrown a batch.                                *)
Silent == \A n \in Nodes : casts[n] = <<>> /\ \A c \in HeldBy(n) : c.in[n] = <<>>
Agreed ==
    \/ expired # {} \/ \E n \in Nodes : Len(log[n]) > Batch
    \/ \A n, m \in Nodes : \A i \in ToSet(log[n]) : Taken(log[m], i)
GossipConverges == <>[](Silent /\ Agreed)
=============================================================================
