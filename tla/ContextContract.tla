--------------------------- MODULE ContextContract ---------------------------
(***************************************************************************)
(* What a KernelContext promises its resources, without threads, locks or   *)
(* passes: it takes resources over while it is open, seals the set once,    *)
(* gives each of them up exactly once and only when none of them has work   *)
(* in flight, and is closed when all are gone.                              *)
(***************************************************************************)
EXTENDS Naturals, Sequences

CONSTANT Resources

VARIABLES
    stage,  \* "open", "sealed" or "closed"
    owned,  \* the resources taken over, in order
    gone,   \* how many of them were destroyed, from the last one on
    busy    \* the resources with work in flight

contractVars == <<stage, owned, gone, busy>>

Init ==
    /\ stage = "open"
    /\ owned = <<>>
    /\ gone = 0
    /\ busy = Resources

TakeOver(r) ==
    /\ stage = "open"
    /\ owned' = Append(owned, r)
    /\ UNCHANGED <<stage, gone, busy>>

Seal ==
    /\ stage = "open"
    /\ stage' = "sealed"
    /\ UNCHANGED <<owned, gone, busy>>

Settle(r) ==
    /\ busy' = busy \ {r}
    /\ UNCHANGED <<stage, owned, gone>>

Destroy ==
    /\ stage = "sealed"
    /\ gone < Len(owned)
    /\ \A i \in DOMAIN owned : owned[i] \notin busy
    /\ gone' = gone + 1
    /\ UNCHANGED <<stage, owned, busy>>

Finish ==
    /\ stage = "sealed"
    /\ gone = Len(owned)
    /\ stage' = "closed"
    /\ UNCHANGED <<owned, gone, busy>>

Next ==
    \/ \E r \in Resources : TakeOver(r) \/ Settle(r)
    \/ Seal \/ Destroy \/ Finish

Spec == Init /\ [][Next]_contractVars
=============================================================================
