--------------------------- MODULE KernelContext ---------------------------
(***************************************************************************)
(* The lifecycle of one KernelContext (crates/lumio-kernel/src/context).    *)
(*                                                                         *)
(* Threads of the host register resources and poll close concurrently.      *)
(* A registration holds the admission mutex from the gate check to the push *)
(* onto the registry.  A close pass holds the close_progress mutex (taken   *)
(* with try_lock) from the first line to the last, takes admission only to  *)
(* freeze the resource set, and then drives the callbacks of the frozen     *)
(* resources one after the other.  Every step below is one lock operation,  *)
(* one access to the atomic phase, or one resource callback, so the steps   *)
(* of different threads interleave wherever the code lets them.             *)
(*                                                                         *)
(* Resources are the implementors of the ContextResource trait.  They are   *)
(* modelled by the contract of that port: work in flight ends some time     *)
(* after cancel_requested, quiesce reports whether it has.  A resource in   *)
(* Faulty may fail or panic in any callback.                                *)
(***************************************************************************)
EXTENDS Naturals, Sequences, FiniteSets

CONSTANTS
    Threads,         \* host threads
    Resources,       \* objects implementing ContextResource
    Faulty,          \* the resources whose callbacks may fail or panic
    MaxHandles,      \* config.limits.max_handles
    ConfigDeadline,  \* config.quiesce_deadline: "none" or "set"
    NoThread         \* the owner of a free mutex

ASSUME ThreadsAssumption   == NoThread \notin Threads
ASSUME FaultyAssumption    == Faulty \subseteq Resources
ASSUME MaxHandlesAssumption == MaxHandles \in Nat
ASSUME DeadlineAssumption  == ConfigDeadline \in {"none", "set"}

VARIABLES
    phase,      \* ContextStateGate.phase
    admission,  \* owner of KernelContext.admission
    items,      \* ResourceRegistry.items
    lock,       \* owner of KernelContext.close_progress
    started, cancelled, resources, quiesced, destroyRemaining,
    report, failure,                    \* the fields of CloseProgress
    pc, arg, index, outcome,  \* the call each thread is in
    alive,      \* the last Arc<KernelContext> has not been dropped
    activity,   \* what each resource is doing
    registered, \* history: every resource ever pushed, in order
    log         \* history: the cancel and destroy callbacks, in order

gateVars     == <<phase, admission, items>>
progressVars == <<started, cancelled, resources, quiesced, destroyRemaining,
                  report, failure>>
callVars     == <<arg, index, outcome>>
historyVars  == <<registered, log>>
vars == <<gateVars, lock, progressVars, pc, callVars, alive, activity, historyVars>>

Phases == {"Running", "Quiescing", "Closed"}
Failures == {"PanicBoundary", "InternalInvariant"}
RegisterSteps == {"reg_lock", "reg_gate", "reg_push"}
CloseSteps == {"close_check", "close_admission", "close_begin", "close_snapshot",
               "cancel", "quiesce", "destroy", "mark"}
Outcomes == {"none", "Ok", "CapacityExceeded", "ContextClosing", "ContextDestroyed",
             "Quiescing", "TimedOut", "Closed"} \cup Failures

Init ==
    /\ phase = "Running"
    /\ admission = NoThread
    /\ items = <<>>
    /\ lock = NoThread
    /\ started = FALSE
    /\ cancelled = 0
    /\ resources = <<>>
    /\ quiesced = {}
    /\ destroyRemaining = 0
    /\ report = FALSE
    /\ failure = "none"
    /\ pc = [t \in Threads |-> "idle"]
    /\ arg = [t \in Threads |-> "none"]
    /\ index = [t \in Threads |-> 1]
    /\ outcome = [t \in Threads |-> "none"]
    /\ alive = TRUE
    /\ activity = [r \in Resources |-> "open"]
    /\ registered = <<>>
    /\ log = <<>>

(* Thread t moves to step p of its call. *)
Goto(t, p) == pc' = [pc EXCEPT ![t] = p]

(* Thread t's call returns o; its locals are gone. *)
Return(t, o) ==
    /\ pc' = [pc EXCEPT ![t] = "idle"]
    /\ arg' = [arg EXCEPT ![t] = "none"]
    /\ index' = [index EXCEPT ![t] = 1]
    /\ outcome' = [outcome EXCEPT ![t] = o]

(* What try_admit answers in the current phase. *)
Admits == phase = "Running"
Refusal == IF phase = "Quiescing" THEN "ContextClosing" ELSE "ContextDestroyed"

-----------------------------------------------------------------------------
(* register_resource *)

(* The name() callback runs before any lock is taken. *)
CallRegister(t, r) ==
    /\ alive
    /\ pc[t] = "idle"
    /\ arg' = [arg EXCEPT ![t] = r]
    /\ outcome' = [outcome EXCEPT ![t] = "none"]
    /\ Goto(t, "reg_lock")
    /\ UNCHANGED <<gateVars, lock, progressVars, index, alive, activity, historyVars>>

RegisterLock(t) ==
    /\ pc[t] = "reg_lock"
    /\ admission = NoThread
    /\ admission' = t
    /\ Goto(t, "reg_gate")
    /\ UNCHANGED <<phase, items, lock, progressVars, callVars, alive, activity,
                   historyVars>>

(* Mutant: the guard is dropped once the gate has answered. *)
RegisterGate_DropsGuard(t) ==
    /\ pc[t] = "reg_gate"
    /\ admission' = NoThread
    /\ IF Admits THEN Goto(t, "reg_push") /\ UNCHANGED callVars ELSE Return(t, Refusal)
    /\ UNCHANGED <<phase, items, lock, progressVars, alive, activity, historyVars>>

(* A refused caller drops the guard on its way out. *)
RegisterGate(t) ==
    /\ pc[t] = "reg_gate"
    /\ \/ /\ Admits
          /\ Goto(t, "reg_push")
          /\ UNCHANGED <<admission, callVars>>
       \/ /\ ~Admits
          /\ admission' = NoThread
          /\ Return(t, Refusal)
    /\ UNCHANGED <<phase, items, lock, progressVars, alive, activity, historyVars>>

RegisterPush(t) ==
    /\ pc[t] = "reg_push"
    /\ admission' = NoThread
    /\ \/ /\ Len(items) >= MaxHandles
          /\ Return(t, "CapacityExceeded")
          /\ UNCHANGED <<items, registered>>
       \/ /\ Len(items) < MaxHandles
          /\ items' = Append(items, arg[t])
          /\ registered' = Append(registered, arg[t])
          /\ Return(t, "Ok")
    /\ UNCHANGED <<phase, lock, progressVars, alive, activity, log>>

-----------------------------------------------------------------------------
(* close *)

(* try_lock: a pass that finds another one running returns at once. *)
EnterClose(t, d) ==
    /\ \/ /\ lock # NoThread
          /\ Return(t, "ContextClosing")
          /\ UNCHANGED lock
       \/ /\ lock = NoThread
          /\ lock' = t
          /\ arg' = [arg EXCEPT ![t] = d]
          /\ UNCHANGED index
          /\ outcome' = [outcome EXCEPT ![t] = "none"]
          /\ Goto(t, "close_check")
    /\ UNCHANGED <<gateVars, progressVars, activity, historyVars>>

CallClose(t, d) ==
    /\ alive
    /\ pc[t] = "idle"
    /\ EnterClose(t, d)
    /\ UNCHANGED alive

(* Drop runs one last pass; no other call can be in progress or follow. *)
DropContext(t) ==
    /\ alive
    /\ \A u \in Threads : pc[u] = "idle"
    /\ alive' = FALSE
    /\ EnterClose(t, "none")

CloseReturn(t, o) ==
    /\ lock' = NoThread
    /\ Return(t, o)

(* Mutant: a remembered failure is not consulted. *)
CloseCheck_ForgetsFailure(t) ==
    /\ pc[t] = "close_check"
    /\ \/ report /\ CloseReturn(t, "Closed")
       \/ /\ ~report
          /\ Goto(t, IF started THEN "cancel" ELSE "close_admission")
          /\ UNCHANGED <<lock, callVars>>
    /\ UNCHANGED <<gateVars, progressVars, alive, activity, historyVars>>

(* A finished or failed close answers from the cache. *)
CloseCheck(t) ==
    /\ pc[t] = "close_check"
    /\ \/ /\ report
          /\ CloseReturn(t, "Closed")
       \/ /\ ~report
          /\ failure # "none"
          /\ CloseReturn(t, failure)
       \/ /\ ~report
          /\ failure = "none"
          /\ Goto(t, IF started THEN "cancel" ELSE "close_admission")
          /\ UNCHANGED <<lock, callVars>>
    /\ UNCHANGED <<gateVars, progressVars, alive, activity, historyVars>>

CloseAdmission(t) ==
    /\ pc[t] = "close_admission"
    /\ admission = NoThread
    /\ admission' = t
    /\ Goto(t, "close_begin")
    /\ UNCHANGED <<phase, items, lock, progressVars, callVars, alive, activity,
                   historyVars>>

(* begin_close: compare_exchange(RUNNING, QUIESCING). *)
CloseBegin(t) ==
    /\ pc[t] = "close_begin"
    /\ phase' = IF phase = "Running" THEN "Quiescing" ELSE phase
    /\ Goto(t, "close_snapshot")
    /\ UNCHANGED <<admission, items, lock, progressVars, callVars, alive, activity,
                   historyVars>>

(* Mutant: destroy_remaining keeps its default. *)
CloseSnapshot_ForgetsRemaining(t) ==
    /\ pc[t] = "close_snapshot"
    /\ resources' = items
    /\ quiesced' = {}
    /\ started' = TRUE
    /\ admission' = NoThread
    /\ Goto(t, "cancel")
    /\ UNCHANGED <<phase, items, lock, cancelled, destroyRemaining, report, failure,
                   callVars, alive, activity, historyVars>>

(* Freeze the resource set and release admission. *)
CloseSnapshot(t) ==
    /\ pc[t] = "close_snapshot"
    /\ resources' = items
    /\ quiesced' = {}
    /\ destroyRemaining' = Len(items)
    /\ started' = TRUE
    /\ admission' = NoThread
    /\ Goto(t, "cancel")
    /\ UNCHANGED <<phase, items, lock, cancelled, report, failure, callVars, alive,
                   activity, historyVars>>

(* A callback failed: remember it for every later pass and return it. *)
Fail(t, f) ==
    /\ failure' = f
    /\ CloseReturn(t, f)

(* One turn of the cancellation loop.  A faulty resource may panic in it. *)
CloseCancel(t) ==
    /\ pc[t] = "cancel"
    /\ cancelled < Len(resources)
    /\ LET at == cancelled + 1
           r  == resources[at]
       IN  /\ log' = Append(log, <<"cancel", at>>)
           /\ \/ /\ cancelled' = at
                 /\ activity' = [activity EXCEPT ![r] = IF @ = "open" THEN "stopping" ELSE @]
                 /\ UNCHANGED <<lock, failure, pc, callVars>>
              \/ /\ r \in Faulty
                 /\ Fail(t, "PanicBoundary")
                 /\ UNCHANGED <<cancelled, activity>>
    /\ UNCHANGED <<gateVars, started, resources, quiesced, destroyRemaining, report,
                   alive, registered>>

CloseCancelled(t) ==
    /\ pc[t] = "cancel"
    /\ cancelled >= Len(resources)
    /\ index' = [index EXCEPT ![t] = 1]
    /\ Goto(t, "quiesce")
    /\ UNCHANGED <<gateVars, lock, progressVars, arg, outcome, alive, activity,
                   historyVars>>

(* The deadline of this pass: the caller's, or the configured one for NONE. *)
Effective(t) == IF arg[t] = "none" THEN ConfigDeadline ELSE arg[t]

NextResource(t) == index' = [index EXCEPT ![t] = @ + 1]

(* One turn of the quiesce loop: a resource that has quiesced is not asked  *)
(* again, TimedOut ends the pass, any other failure is remembered.          *)
CloseQuiesce(t) ==
    /\ pc[t] = "quiesce"
    /\ index[t] <= Len(resources)
    /\ LET r == resources[index[t]]
       IN  \/ /\ \/ index[t] \in quiesced /\ UNCHANGED quiesced
                 \/ /\ index[t] \notin quiesced
                    /\ quiesced' = IF activity[r] \in {"quiet", "destroyed"}
                                   THEN quiesced \cup {index[t]} ELSE quiesced
              /\ NextResource(t)
              /\ UNCHANGED <<lock, failure, pc, arg, outcome>>
           \/ /\ index[t] \notin quiesced
              /\ activity[r] \in {"open", "stopping"}
              /\ Effective(t) = "set"
              /\ CloseReturn(t, "TimedOut")
              /\ UNCHANGED <<quiesced, failure>>
           \/ /\ index[t] \notin quiesced
              /\ r \in Faulty
              /\ \E f \in Failures : Fail(t, f)
              /\ UNCHANGED quiesced
    /\ UNCHANGED <<gateVars, started, cancelled, resources, destroyRemaining, report,
                   alive, activity, historyVars>>

(* Mutant: the deadline is looked at before the resources are. *)
CloseJudge_DeadlineFirst(t) ==
    /\ pc[t] = "quiesce"
    /\ index[t] > Len(resources)
    /\ \/ Effective(t) = "set" /\ CloseReturn(t, "TimedOut")
       \/ Effective(t) = "none" /\ quiesced # DOMAIN resources /\ CloseReturn(t, "Quiescing")
       \/ /\ Effective(t) = "none"
          /\ quiesced = DOMAIN resources
          /\ Goto(t, "destroy")
          /\ UNCHANGED <<lock, callVars>>
    /\ UNCHANGED <<gateVars, progressVars, alive, activity, historyVars>>

(* Every resource was asked; the clock decides between Quiescing and TimedOut. *)
CloseJudge(t) ==
    /\ pc[t] = "quiesce"
    /\ index[t] > Len(resources)
    /\ \/ /\ quiesced # DOMAIN resources
          /\ \/ CloseReturn(t, "Quiescing")
             \/ Effective(t) = "set" /\ CloseReturn(t, "TimedOut")
       \/ /\ quiesced = DOMAIN resources
          /\ Goto(t, "destroy")
          /\ UNCHANGED <<lock, callVars>>
    /\ UNCHANGED <<gateVars, progressVars, alive, activity, historyVars>>

(* Mutant: a failed destructor is retried by the next pass. *)
CloseDestroy_Retries(t) ==
    /\ pc[t] = "destroy"
    /\ destroyRemaining # 0
    /\ log' = Append(log, <<"destroy", destroyRemaining>>)
    /\ \/ /\ destroyRemaining' = destroyRemaining - 1
          /\ activity' = [activity EXCEPT ![resources[destroyRemaining]] = "destroyed"]
          /\ UNCHANGED <<lock, pc, callVars>>
       \/ /\ resources[destroyRemaining] \in Faulty
          /\ CloseReturn(t, "TimedOut")
          /\ UNCHANGED <<destroyRemaining, activity>>
    /\ UNCHANGED <<gateVars, started, cancelled, resources, quiesced, report, failure,
                   alive, registered>>

(* Mutant: a failed destructor is skipped and the rest is destroyed. *)
CloseDestroy_SkipsFailed(t) ==
    /\ pc[t] = "destroy"
    /\ destroyRemaining # 0
    /\ log' = Append(log, <<"destroy", destroyRemaining>>)
    /\ destroyRemaining' = destroyRemaining - 1
    /\ activity' = [activity EXCEPT ![resources[destroyRemaining]] =
                       IF resources[destroyRemaining] \in Faulty THEN @ ELSE "destroyed"]
    /\ UNCHANGED <<gateVars, lock, started, cancelled, resources, quiesced, report, failure,
                   pc, callVars, alive, registered>>

(* One turn of the destroy loop, from the last resource to the first. *)
CloseDestroy(t) ==
    /\ pc[t] = "destroy"
    /\ destroyRemaining # 0
    /\ LET r == resources[destroyRemaining]
       IN  /\ log' = Append(log, <<"destroy", destroyRemaining>>)
           /\ \/ /\ destroyRemaining' = destroyRemaining - 1
                 /\ activity' = [activity EXCEPT ![r] = "destroyed"]
                 /\ UNCHANGED <<lock, failure, pc, callVars>>
              \/ /\ r \in Faulty
                 /\ \E f \in Failures : Fail(t, f)
                 /\ UNCHANGED <<destroyRemaining, activity>>
    /\ UNCHANGED <<gateVars, started, cancelled, resources, quiesced, report, alive,
                   registered>>

(* resources.clear() on the registry and on the frozen copy. *)
CloseClear(t) ==
    /\ pc[t] = "destroy"
    /\ destroyRemaining = 0
    /\ items' = <<>>
    /\ resources' = <<>>
    /\ Goto(t, "mark")
    /\ UNCHANGED <<phase, admission, lock, started, cancelled, quiesced,
                   destroyRemaining, report, failure, callVars, alive, activity,
                   historyVars>>

(* mark_closed, then the report is cached and returned. *)
CloseMark(t) ==
    /\ pc[t] = "mark"
    /\ phase' = "Closed"
    /\ report' = TRUE
    /\ CloseReturn(t, "Closed")
    /\ UNCHANGED <<admission, items, started, cancelled, resources, quiesced,
                   destroyRemaining, failure, alive, activity, historyVars>>

-----------------------------------------------------------------------------
(* A resource that was told to stop finishes the work it had in flight; an  *)
(* idle one may be quiet before anyone asks. *)
Drain(r) ==
    /\ activity[r] = "stopping"
    /\ activity' = [activity EXCEPT ![r] = "quiet"]
    /\ UNCHANGED <<gateVars, lock, progressVars, pc, callVars, alive, historyVars>>

RegisterStep(t) == RegisterLock(t) \/ RegisterGate(t) \/ RegisterPush(t)

CloseStep(t) ==
    \/ CloseCheck(t) \/ CloseAdmission(t) \/ CloseBegin(t) \/ CloseSnapshot(t)
    \/ CloseCancel(t) \/ CloseCancelled(t) \/ CloseQuiesce(t) \/ CloseJudge(t)
    \/ CloseDestroy(t) \/ CloseClear(t) \/ CloseMark(t)

Next ==
    \/ \E t \in Threads :
          \/ \E r \in Resources : CallRegister(t, r)
          \/ \E d \in {"none", "set"} : CallClose(t, d)
          \/ DropContext(t)
          \/ RegisterStep(t)
          \/ CloseStep(t)
    \/ \E r \in Resources : Drain(r)

Spec == Init /\ [][Next]_vars

(* Calls run to their end, cancelled resources finish their work, and the   *)
(* host keeps polling close, as the doc comment of close requires of it.    *)
Fairness ==
    /\ \A t \in Threads : WF_vars(RegisterStep(t)) /\ WF_vars(CloseStep(t))
    /\ \A r \in Resources : WF_vars(Drain(r))
    /\ WF_vars(\E t \in Threads, d \in {"none", "set"} : CallClose(t, d))

FairSpec == Spec /\ Fairness

-----------------------------------------------------------------------------
CallTypes ==
    /\ pc \in [Threads -> {"idle"} \cup RegisterSteps \cup CloseSteps]
    /\ arg \in [Threads -> Resources \cup {"none", "set"}]
    /\ index \in [Threads -> Nat]
    /\ outcome \in [Threads -> Outcomes]

(* The variables range over their types; the registry never outgrows its    *)
(* limit, which the length check under admission enforces.                  *)
TypeInv ==
    /\ phase \in Phases
    /\ admission \in Threads \cup {NoThread}
    /\ lock \in Threads \cup {NoThread}
    /\ items \in Seq(Resources) /\ Len(items) <= MaxHandles
    /\ resources \in Seq(Resources)
    /\ registered \in Seq(Resources)
    /\ started \in BOOLEAN
    /\ cancelled \in Nat
    /\ quiesced \subseteq Nat
    /\ destroyRemaining \in Nat
    /\ report \in BOOLEAN
    /\ failure \in Failures \cup {"none"}
    /\ CallTypes
    /\ alive \in BOOLEAN
    /\ activity \in [Resources -> {"open", "stopping", "quiet", "destroyed"}]
    /\ log \in Seq({"cancel", "destroy"} \X Nat)

(* The admission guard makes admit and close linearizable: while a thread   *)
(* that passed the gate still has its resource to push, no other thread can *)
(* leave Running (admit_work is taken by register_resource and by close).   *)
AdmissionCoversPublication ==
    \A t \in Threads : pc[t] = "reg_push" => phase = "Running"

(* The set that close froze is the set of all resources ever registered,    *)
(* until it is emptied after the last destroy: no registration that was     *)
(* answered Ok is forgotten by the shutdown.                                *)
FrozenSetIsComplete ==
    (started /\ items # <<>>) => resources = registered

(* The callbacks in the order close owes them: cancel every resource in     *)
(* registration order, then destroy every resource in reverse order.        *)
Owed(n) == [k \in 1 .. 2 * n |-> IF k <= n THEN <<"cancel", k>>
                                            ELSE <<"destroy", 2 * n + 1 - k>>]

(* Over all passes, retries, time-outs and failures each callback runs at   *)
(* most once and in the owed order (a failed one is never repeated).        *)
CallbacksInOrder ==
    /\ Len(log) <= 2 * Len(registered)
    /\ \A k \in DOMAIN log : log[k] = Owed(Len(registered))[k]

Destroying == Len(log) > Len(registered)

(* No resource is destroyed while any registered resource still has work in *)
(* flight: one that is Pending blocks the destruction of all the others.    *)
NoDestroyBeforeQuiescence ==
    Destroying => \A i \in DOMAIN registered : activity[registered[i]] \in {"quiet", "destroyed"}

(* Closed, as a phase or as the answer of a pass, means that every resource *)
(* was destroyed and no callback failed.                                    *)
ClosedMeansReclaimed ==
    (phase = "Closed" \/ \E t \in Threads : outcome[t] = "Closed") =>
        /\ failure = "none"
        /\ Len(log) = 2 * Len(registered)
        /\ \A i \in DOMAIN registered : activity[registered[i]] = "destroyed"

(* A pass that answers Quiescing or TimedOut has destroyed nothing, and     *)
(* neither has any pass before it.                                          *)
PendingKeepsResources ==
    [][\A t \in Threads :
          (pc[t] \in CloseSteps /\ pc'[t] = "idle" /\ outcome'[t] \in {"Quiescing", "TimedOut"})
             => ~Destroying]_vars

(* A failed close stays failed: later passes repeat the failure, run no     *)
(* callback and never report Closed.                                        *)
FailureIsFinal ==
    [][failure # "none" => UNCHANGED <<failure, phase, log>>]_vars

(* The contract of the context, under the mapping below. *)
Contract == INSTANCE ContextContract WITH
    stage <- CASE phase = "Running" -> "open"
               [] phase = "Quiescing" -> "sealed"
               [] phase = "Closed" -> "closed",
    owned <- registered,
    gone  <- IF started THEN Len(registered) - destroyRemaining ELSE 0,
    busy  <- {r \in Resources : activity[r] \in {"open", "stopping"}}

(* The fine-grained close implements the contract. *)
ImplementsContract == Contract!Spec

(* The host stops registering at some point (registrations that always     *)
(* find the admission mutex first could keep a closing thread waiting).     *)
RegistrationsEnd ==
    <>[][\A t \in Threads : pc[t] = "idle" => pc'[t] # "reg_lock"]_vars

(* A host that keeps polling gets an end: the context closes, or a callback *)
(* failed, or the host dropped the context.  Pending resources, time-outs   *)
(* and passes that find another one running only delay it.                  *)
CloseSettles ==
    RegistrationsEnd => <>(phase = "Closed" \/ failure # "none" \/ ~alive)
=============================================================================
