--------------------------- MODULE SpatialResource ---------------------------
(***************************************************************************)
(* SpatialResource of crates/lumio-spatial/src/resource.rs: threads query   *)
(* and update an index behind a read-write lock while one closer at a time  *)
(* (KernelContext::close) cancels, quiesces and destroys it.  Each load,    *)
(* store, lock and unlock that another thread can tell apart is one step.   *)
(***************************************************************************)
EXTENDS Naturals, FiniteSets

CONSTANT Threads

Kinds == {"query", "upsert"}

VARIABLES
    closing,    \* SpatialResource.closing
    destroyed,  \* SpatialResource.destroyed
    index,      \* is there still a SpatialContext in the lock
    op,         \* per thread: the operation and how far it has come
    answer,     \* history: per thread, what its last operation returned
    closer      \* how far KernelContext::close has come with this resource

vars == <<closing, destroyed, index, op, answer, closer>>

Idle == [kind |-> "none", at |-> "idle"]

Init ==
    /\ closing = FALSE
    /\ destroyed = FALSE
    /\ index = TRUE
    /\ op = [t \in Threads |-> Idle]
    /\ answer = [t \in Threads |-> "none"]
    /\ closer = "open"

(* The threads that hold the lock, and in which mode. *)
Holds(t) == op[t].at \in {"locked", "using"}

LockFree_Ignored == TRUE

LockFree == \A t \in Threads : ~Holds(t)

WriterFree == \A t \in Threads : Holds(t) => op[t].kind = "query"

Goes(t, to) == op' = [op EXCEPT ![t].at = to]

Leaves(t, result) ==
    /\ op' = [op EXCEPT ![t] = Idle]
    /\ answer' = [answer EXCEPT ![t] = result]

Refused(gone) == IF gone THEN "ContextDestroyed" ELSE "ContextClosing"

LiveAtFirst_Skipped == TRUE

(* ensure_live, before the lock.  Its two loads are one step: closing alone  *)
(* decides whether it passes, since destroyed is stored after it.             *)
LiveAtFirst == ~destroyed /\ ~closing

Begin(t, k) ==
    /\ op[t] = Idle
    /\ LiveAtFirst
    /\ op' = [op EXCEPT ![t] = [kind |-> k, at |-> "checked"]]
    /\ UNCHANGED <<closing, destroyed, index, answer, closer>>

BeginRefused(t) ==
    /\ op[t] = Idle
    /\ ~LiveAtFirst
    /\ answer' = [answer EXCEPT ![t] = Refused(destroyed)]
    /\ UNCHANGED <<closing, destroyed, index, op, closer>>

(* inner.read() or inner.write(). *)
TakeLock(t) ==
    /\ op[t].at = "checked"
    /\ IF op[t].kind = "query" THEN WriterFree ELSE LockFree
    /\ Goes(t, "locked")
    /\ UNCHANGED <<closing, destroyed, index, answer, closer>>

LiveUnderLock_Skipped == TRUE

(* ensure_live, once more under the lock. *)
LiveUnderLock == ~destroyed /\ ~closing

Recheck(t) ==
    /\ op[t].at = "locked"
    /\ IF LiveUnderLock
       THEN Goes(t, "using") /\ UNCHANGED answer
       ELSE Leaves(t, Refused(destroyed))
    /\ UNCHANGED <<closing, destroyed, index, closer>>

(* The query or the update, and the unlock. *)
Use(t) ==
    /\ op[t].at = "using"
    /\ Leaves(t, IF index THEN "done" ELSE "ContextDestroyed")
    /\ UNCHANGED <<closing, destroyed, index, closer>>

-----------------------------------------------------------------------------
CancelRequested ==
    /\ closer = "open"
    /\ closing' = TRUE
    /\ closer' = "cancelled"
    /\ UNCHANGED <<destroyed, index, op, answer>>

(* quiesce: try_write sees nobody.  A pass that finds the lock held reports  *)
(* Pending and changes nothing.                                              *)
Quiesce ==
    /\ closer = "cancelled"
    /\ LockFree
    /\ closing' = TRUE
    /\ closer' = "quiesced"
    /\ UNCHANGED <<destroyed, index, op, answer>>

(* destroy: the index is taken under the lock, the flag is stored after it.  *)
TakeIndex ==
    /\ closer = "quiesced"
    /\ LockFree
    /\ closing' = TRUE
    /\ index' = FALSE
    /\ closer' = "taken"
    /\ UNCHANGED <<destroyed, op, answer>>

(* destroy finds the lock held; the context keeps the failure for good.      *)
DestroyRefused ==
    /\ closer = "quiesced"
    /\ ~LockFree
    /\ closer' = "refused"
    /\ UNCHANGED <<closing, destroyed, index, op, answer>>

MarkDestroyed ==
    /\ closer = "taken"
    /\ destroyed' = TRUE
    /\ closer' = "destroyed"
    /\ UNCHANGED <<closing, index, op, answer>>

Step(t) == TakeLock(t) \/ Recheck(t) \/ Use(t)

CloserStep == Quiesce \/ TakeIndex \/ DestroyRefused \/ MarkDestroyed

Next ==
    \/ \E t \in Threads : \E k \in Kinds : Begin(t, k)
    \/ \E t \in Threads : BeginRefused(t) \/ Step(t)
    \/ CancelRequested
    \/ CloserStep

Spec == Init /\ [][Next]_vars

-----------------------------------------------------------------------------
(* Properties *)

(* Types. *)
TypeInv ==
    /\ closing \in BOOLEAN /\ destroyed \in BOOLEAN /\ index \in BOOLEAN
    /\ op \in [Threads -> [kind : Kinds \cup {"none"},
                           at : {"idle", "checked", "locked", "using"}]]
    /\ answer \in [Threads -> {"none", "done", "ContextClosing", "ContextDestroyed"}]
    /\ closer \in {"open", "cancelled", "quiesced", "taken", "refused", "destroyed"}

(* Once quiesce has answered Quiesced nobody works on the index, and nobody  *)
(* ever will: the second check under the lock turns every late comer away.   *)
QuiescedIsIdle ==
    closer \notin {"open", "cancelled"} => \A t \in Threads : op[t].at # "using"

(* An update has the index for itself, and an operation that passed both     *)
(* checks finds the index in place (its ok_or never answers).                *)
UsersHaveTheIndex ==
    \A t \in Threads : op[t].at = "using" =>
        /\ index
        /\ op[t].kind = "upsert" => \A u \in Threads \ {t} : ~Holds(u)

(* A caller is told ContextDestroyed only after the index is really gone,    *)
(* and ContextClosing only after close has begun.                            *)
RefusalsAreTrue ==
    \A t \in Threads :
        /\ answer[t] = "ContextDestroyed" => ~index /\ destroyed
        /\ answer[t] = "ContextClosing" => closing

(* A close that has begun ends: the operations that are still under way when *)
(* closing is set are finitely many, and no later one touches the lock.      *)
CloseEnds == closer = "cancelled" ~> closer \in {"refused", "destroyed"}

(* What docs/specs/kernel-context-lifecycle.md:27 says of close: stop new    *)
(* operations, see the running ones end, then destroy really takes and       *)
(* frees the index.                                                          *)
ClosedFreesIndex == closer \in {"refused", "destroyed"} => ~index
=============================================================================
