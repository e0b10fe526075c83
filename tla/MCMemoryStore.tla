--------------------------- MODULE MCMemoryStore ---------------------------
(* TLC instances of the memory store.                                      *)
EXTENDS MemoryStore, TLC

Symmetry == Permutations(Keys) \cup Permutations(Vals)
=============================================================================
