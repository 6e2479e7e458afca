-------------------------- MODULE MCHandleRegistry --------------------------
EXTENDS HandleRegistry, TLC

(* Threads are interchangeable, and so are payloads. *)
Symmetry == Permutations(Threads) \cup Permutations(Payloads)
=============================================================================
