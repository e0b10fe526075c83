-------------------------- MODULE MCBridgeHandoff --------------------------
EXTENDS BridgeHandoff, TLC

CONSTANTS q1, q2, q3, q4, b1, r1, r2, r3

\* q1 and q2 are one request under two orders, q3 is another of the same agent,
\* q4 one of another agent.
MCAgent == [q \in Requests |-> IF q = q4 THEN "b" ELSE "a"]
MCKey == (q1 :> "k1") @@ (q2 :> "k1") @@ (q3 :> "k2") @@ (q4 :> "k3")
MCAmount == (q1 :> 1) @@ (q2 :> 1) @@ (q3 :> 2) @@ (q4 :> 1) @@ (b1 :> 2)
Symm == Permutations(Relayers)
=============================================================================
