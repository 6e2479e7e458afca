--------------------------- MODULE MCTimerManager ---------------------------
EXTENDS TimerManager, TLC

(* Dispatch ids are interchangeable, and so are scope ids. *)
Symmetry == Permutations(Dispatches) \cup Permutations(Ids)
=============================================================================
