-------------------------- MODULE MCContextServices --------------------------
EXTENDS ContextServices, TLC

(* Threads are interchangeable, and so are definitions. *)
Symmetry == Permutations(Callers) \cup Permutations(Payloads)
=============================================================================
