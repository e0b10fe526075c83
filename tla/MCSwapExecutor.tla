--------------------------- MODULE MCSwapExecutor ---------------------------
EXTENDS SwapExecutor, TLC

\* Every output pays the address and the amount both orders ask for.
Shared == [d \in Outpoints |-> Orders]

Symmetry == Permutations(Orders) \cup Permutations(Workers)
=============================================================================
