--------------------------- MODULE MCMemoryBudget ---------------------------
EXTENDS MemoryOwners, TLC

(* Threads are interchangeable where they share the budget, but for the one   *)
(* that may own it.                                                          *)
Symmetry == Permutations(Threads \ {Owner})
=============================================================================
