----------------------------- MODULE JobLifecycle -----------------------------
(***************************************************************************)
(* What a job system promises about its jobs, without threads, locks or     *)
(* queues.  A job is queued, runs at most once and ends in one of three     *)
(* states it never leaves; a queued job may be cancelled instead of run.    *)
(* Stopping cancels every queued job at once, and nothing starts after it.  *)
(* At most width jobs run at the same time.                                 *)
(***************************************************************************)
EXTENDS Naturals, FiniteSets

CONSTANT JobIds

VARIABLES
    open,  \* the system starts jobs
    fate,  \* the state of each job, "none" before it is submitted
    width  \* how many jobs may run, fixed with the configuration

lifecycleVars == <<open, fate, width>>

Ends == {"Succeeded", "Failed", "Cancelled"}
Busy == {j \in JobIds : fate[j] = "Running"}

Init ==
    /\ open = TRUE
    /\ fate = [j \in JobIds |-> "none"]
    /\ width \in Nat \ {0}

Move(j, from, to) == fate[j] = from /\ fate' = [fate EXCEPT ![j] = to]

Submit(j) == open /\ Move(j, "none", "Queued") /\ UNCHANGED <<open, width>>
Start(j)  == open /\ Cardinality(Busy) < width /\ Move(j, "Queued", "Running") /\ UNCHANGED <<open, width>>
Finish(j) == \E e \in Ends : Move(j, "Running", e) /\ UNCHANGED <<open, width>>
Cancel(j) == Move(j, "Queued", "Cancelled") /\ UNCHANGED <<open, width>>

Stop ==
    /\ open' = FALSE
    /\ fate' = [j \in JobIds |-> IF fate[j] = "Queued" THEN "Cancelled" ELSE fate[j]]
    /\ UNCHANGED width

Next == Stop \/ \E j \in JobIds : Submit(j) \/ Start(j) \/ Finish(j) \/ Cancel(j)

Spec == Init /\ [][Next]_lifecycleVars
=============================================================================
