---------------------------- MODULE MCSwapGossip ----------------------------
(* Three nodes in a line: the middle one dials the first, the last dials   *)
(* the middle one.  Two intents are variants of one order.                 *)
EXTENDS SwapGossip, TLC

CONSTANTS n1, n2, n3, a, a2, b

MCSeeds == [n \in Nodes |-> (n1 :> {} @@ n2 :> {n1} @@ n3 :> {n2})[n]]
MCOrder == [i \in Intents |-> (a :> 1 @@ a2 :> 1 @@ b :> 2)[i]]
MCNonce == [i \in Intents |-> (a :> 1 @@ a2 :> 2 @@ b :> 3)[i]]
MCHome == [i \in Intents |-> (a :> n1 @@ a2 :> n3 @@ b :> n1)[i]]

\* A state of Spec to begin in: the first two nodes have done their handshake
\* with nothing to tell, and the third has published before it joined.
MCInit ==
    /\ log = [n \in Nodes |-> IF n = n3 THEN <<a2>> ELSE <<>>] /\ casts = [n \in Nodes |-> <<>>]
    /\ conns = {[from |-> n2, to |-> n1, live |-> TRUE, held |-> {n1, n2}, ready |-> {n1, n2},
                 in |-> (n1 :> <<>> @@ n2 :> <<>>)]}
    /\ expired = {} /\ faults = 0 /\ untold = [n \in Nodes |-> {}]
MCSpec == MCInit /\ [][Next]_vars /\ Fairness
=============================================================================
