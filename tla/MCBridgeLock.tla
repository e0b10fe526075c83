---------------------------- MODULE MCBridgeLock ----------------------------
(* TLC instances of the bridge.  Addresses and identifiers are model values. *)
EXTENDS BridgeRefinement, TLC

\* Requests, L1 transactions and operators are interchangeable: Init chooses
\* every operator table and no definition names a particular one.  Used only
\* where no liveness is checked.
Symmetry == Permutations(OperatorAddrs) \cup Permutations(RequestIds)
                \cup Permutations(L1TxIds)
=============================================================================
