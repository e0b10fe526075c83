-------------------------- MODULE MCBridgeDailyCap --------------------------
(* TLC instances of BridgeDailyCap, with the symmetries of MCBridgeLock. *)
EXTENDS BridgeDailyCap, TLC

Symmetry == Permutations(OperatorAddrs) \cup Permutations(RequestIds)
                \cup Permutations(L1TxIds)
=============================================================================
