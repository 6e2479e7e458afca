----------------------------- MODULE JobOutcomes -----------------------------
(***************************************************************************)
(* State cells and a completion batch, put together the way                  *)
(* tests/job_state_machine.rs does: threads start, complete and cancel jobs  *)
(* through their cells; whoever finds a job ended may publish it, again or   *)
(* late; and any thread drains and releases.                                 *)
(***************************************************************************)
EXTENDS JobStateCell, CompletionBatch

VARIABLES
    published,  \* history: successful publications of each job
    delivered,  \* history: the completions drained, in their order
    freed       \* history: successful releases of each job

historyVars == <<published, delivered, freed>>
outcomeVars == <<cellVars, batchVars, historyVars>>

OutcomesInit ==
    /\ CellInit /\ BatchInit
    /\ published = [j \in Cells |-> 0]
    /\ delivered = <<>>
    /\ freed = [j \in Cells |-> 0]

(* publish of the snapshot of a cell. *)
PublishOutcome(t, j) ==
    /\ Idle(t)
    /\ Publish(j, cell[j])
    /\ published' = [published EXCEPT ![j] = @ + 1]
    /\ UNCHANGED <<cellVars, delivered, freed>>

DrainOutcomes(t) ==
    /\ Idle(t)
    /\ \E n \in 1 .. Len(batch) :
          /\ DrainBatch(n)
          /\ delivered' = delivered \o SubSeq(batch, 1, n)
    /\ UNCHANGED <<cellVars, published, freed>>

ReleaseOutcome(t, j) ==
    /\ Idle(t)
    /\ ReleaseLease(j)
    /\ freed' = [freed EXCEPT ![j] = @ + 1]
    /\ UNCHANGED <<cellVars, published, delivered>>

OutcomesNext ==
    \E t \in Callers :
        \/ CellStep(t) /\ UNCHANGED <<batchVars, historyVars>>
        \/ \E j \in Cells : PublishOutcome(t, j) \/ ReleaseOutcome(t, j)
        \/ DrainOutcomes(t)

(* A thread inside cas_cancel is scheduled; it may call nothing else.        *)
OutcomesSpec ==
    /\ OutcomesInit /\ [][OutcomesNext]_outcomeVars
    /\ \A t \in Callers : WF_outcomeVars(CancelStep(t) /\ UNCHANGED <<batchVars, historyVars>>)

-----------------------------------------------------------------------------
(* Properties *)

(* The cells keep the promise the job system keeps: a job runs at most once  *)
(* and ends once, though cas_cancel swaps what it read earlier (state.rs:54).*)
CellLifecycle == INSTANCE JobLifecycle
    WITH JobIds <- Cells, open <- TRUE, fate <- cell, width <- MaxCells
CellsImplementLifecycle == CellLifecycle!Spec

(* cas_cancel returns: each lost exchange means the job has moved on, and it *)
(* can do so only twice.                                                     *)
CancelReturns == \A t \in Callers : inCall[t] = "load" ~> inCall[t] = "idle"

Heard(j) == {i \in DOMAIN delivered : delivered[i].id = j}

(* The host hears of a job at most once, only when it has ended, and hears   *)
(* the end that exactly one caller was told to have caused; it can release it*)
(* once, after it has heard.  This holds for releases the window has         *)
(* forgotten, too (completion.rs:40), and the buffer never remembers more    *)
(* than twice its capacity.                                                  *)
OutcomesOnce ==
    /\ \A j \in Cells :
          /\ ends[j] = IF cell[j] \in EndStates THEN 1 ELSE 0
          /\ published[j] <= ends[j]
          /\ Cardinality(Heard(j)) <= published[j] /\ freed[j] <= Cardinality(Heard(j))
    /\ \A c \in Range(delivered) \cup Range(batch) : c.state = cell[c.id]
    /\ Cardinality(DOMAIN leases) + Len(released) <= 2 * Capacity
=============================================================================
