-------------------------- MODULE MCEcosystemNode --------------------------
(* A small node for TLC. *)
EXTENDS EcosystemNode

CONSTANTS a1, a2, l1, p1, p2, x1, o1, o2, hodl, lend, t1, t2, t3

MCOfferAmount == [o \in Offers |-> IF o = o1 THEN 2 ELSE 5]
MCApy == [s \in Strategies |-> IF s = hodl THEN 0 ELSE 75]
MCDeltas == {-70, 30}
MCPrice == [l \in Listings |-> 40]
MCSpends == [t \in Txs |-> IF t = t3 THEN t1 ELSE 0]
MCFee == [t \in Txs |-> IF t = t2 THEN 2 ELSE 1]
MCSender == [t \in Txs |-> IF t = t2 THEN a2 ELSE a1]
=============================================================================
