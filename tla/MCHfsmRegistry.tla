--------------------------- MODULE MCHfsmRegistry ---------------------------
EXTENDS HfsmRegistry, TLC

(* Threads are interchangeable, and so are definitions. *)
Symmetry == Permutations(Callers) \cup Permutations(Payloads)
=============================================================================
