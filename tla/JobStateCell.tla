----------------------------- MODULE JobStateCell -----------------------------
(***************************************************************************)
(* The atomic state of a job, crates/lumio-job/src/state.rs: one cell per    *)
(* job, changed by compare_exchange only.  cas_start and cas_complete are    *)
(* one exchange; cas_cancel reads the cell first and begins again when it    *)
(* lost the exchange against another thread.                                 *)
(***************************************************************************)
EXTENDS Naturals, FiniteSets

CONSTANTS
    Callers,    \* threads that share the cells
    MaxCells    \* bound of the model on the number of cells

ASSUME MaxCellsAssumption == MaxCells \in Nat \ {0}

Cells == 1 .. MaxCells

VARIABLES
    cell,       \* the AtomicU8 of each job, "none" before it is built
    inCall,     \* where in cas_cancel a thread is
    job,        \* the job it wants to cancel
    current,    \* the state it has read
    ends        \* history: how many callers were told that they ended the job

callVars == <<inCall, job, current>>
cellVars == <<cell, callVars, ends>>

EndStates == {"Succeeded", "Failed", "Cancelled"}

CellInit ==
    /\ cell = [j \in Cells |-> "none"]
    /\ inCall = [t \in Callers |-> "idle"]
    /\ job = [t \in Callers |-> 0]
    /\ current = [t \in Callers |-> "none"]
    /\ ends = [j \in Cells |-> 0]

Idle(t) == inCall[t] = "idle"

Queued(t, j) ==
    /\ Idle(t) /\ cell[j] = "none"
    /\ cell' = [cell EXCEPT ![j] = "Queued"]
    /\ UNCHANGED <<callVars, ends>>

Exchange_Blind(j, expected, new) ==
    expected # new /\ cell' = [cell EXCEPT ![j] = new]

(* compare_exchange that succeeds. *)
Exchange(j, expected, new) ==
    cell[j] = expected /\ cell' = [cell EXCEPT ![j] = new]

Ended(j) == ends' = [ends EXCEPT ![j] = @ + 1]

CasStart(t, j) ==
    /\ Idle(t)
    /\ Exchange(j, "Queued", "Running")
    /\ UNCHANGED <<callVars, ends>>

CasComplete(t, j, to) ==
    /\ Idle(t)
    /\ to \in {"Succeeded", "Failed"}
    /\ Exchange(j, "Running", to)
    /\ Ended(j)
    /\ UNCHANGED callVars

CasCancel(t, j) ==
    /\ Idle(t) /\ cell[j] # "none"
    /\ inCall' = [inCall EXCEPT ![t] = "load"]
    /\ job' = [job EXCEPT ![t] = j]
    /\ UNCHANGED <<cell, current, ends>>

(* Its locals die with the call. *)
Return(t) ==
    /\ inCall' = [inCall EXCEPT ![t] = "idle"]
    /\ job' = [job EXCEPT ![t] = 0]
    /\ current' = [current EXCEPT ![t] = "none"]

(* A job that has ended is answered Err. *)
CancelLoad(t) ==
    /\ inCall[t] = "load"
    /\ LET state == cell[job[t]]
       IN  IF state \in {"Queued", "Running"}
           THEN /\ current' = [current EXCEPT ![t] = state]
                /\ inCall' = [inCall EXCEPT ![t] = "swap"]
                /\ UNCHANGED job
           ELSE Return(t)
    /\ UNCHANGED <<cell, ends>>

CancelSwap(t) ==
    /\ inCall[t] = "swap"
    /\ Exchange(job[t], current[t], "Cancelled")
    /\ Ended(job[t])
    /\ Return(t)

CancelLost_KeepsCurrent(t) ==
    /\ inCall[t] = "swap"
    /\ cell[job[t]] # current[t]
    /\ UNCHANGED cellVars

(* The exchange failed: another turn of the loop, with a fresh read.         *)
CancelLost(t) ==
    /\ inCall[t] = "swap"
    /\ cell[job[t]] # current[t]
    /\ inCall' = [inCall EXCEPT ![t] = "load"]
    /\ current' = [current EXCEPT ![t] = "none"]
    /\ UNCHANGED <<cell, job, ends>>

CancelStep(t) == CancelLoad(t) \/ CancelSwap(t) \/ CancelLost(t)

CellStep(t) ==
    \/ \E j \in Cells :
          \/ Queued(t, j) \/ CasStart(t, j) \/ CasCancel(t, j)
          \/ \E to \in EndStates : CasComplete(t, j, to)
    \/ CancelStep(t)
=============================================================================
