------------------------------ MODULE JobSystem ------------------------------
(***************************************************************************)
(* The job system of crates/lumio-job/src/worker.rs.                        *)
(*                                                                         *)
(* Host threads submit, cancel and pump jobs, drain completions and take    *)
(* results; workers run the loop of worker_loop; the owner creates the      *)
(* system and may stop it; the closer drives the system's callbacks the     *)
(* way KernelContext::close does.  The scheduler mutex is modelled by the   *)
(* grain: each critical section is one step, and everything the code does   *)
(* between two of them (kernel execution, notification, dropping a Work,    *)
(* reading whether a thread has finished) is a step of its own.             *)
(*                                                                         *)
(* A kernel is any code that returns: its answer, and whether a deadline    *)
(* had passed when it was asked, are free choices.                          *)
(***************************************************************************)
EXTENDS Naturals, Sequences, FiniteSets, Functions

CONSTANTS
    Hosts,          \* host threads
    Workers,        \* worker threads
    Owner,          \* the thread that creates the system
    Closer,         \* the thread that drives close of the context
    NoThread,       \* the owner of a free mutex
    MaxJobs,        \* bound of the model on the number of jobs submitted
    Configs,        \* configurations, see ConfigsAssumption
    ByteLimit,      \* limit of the context's MemoryBudget
    Sizes           \* bytes of input and output a request may reserve

ASSUME ThreadsAssumption ==
    /\ NoThread \notin Hosts \cup Workers \cup {Owner, Closer}
    /\ Hosts \cap Workers = {} /\ Owner \notin Hosts \cup Workers
    /\ Closer \notin Hosts \cup Workers \cup {Owner}
    /\ IsFiniteSet(Hosts) /\ IsFiniteSet(Workers)
ASSUME LimitsAssumption ==
    /\ MaxJobs \in Nat /\ ByteLimit \in Nat
    /\ Sizes \subseteq Nat
(* queue is queue_capacity, live min(max_handles, max_completion_items), and *)
(* without workers the system is pumped by its callers.                      *)
ASSUME ConfigsAssumption ==
    Configs \subseteq [queue : Nat \ {0}, live : Nat, workers : SUBSET Workers]

Threads == Hosts \cup Workers \cup {Owner, Closer}
JobIds  == 1 .. MaxJobs

VARIABLES
    config,                           \* JobSystemConfig and limits, fixed by create
    phase, admission,                 \* of the KernelContext
    sys,                              \* how far create and close have come
    accepting, table, queue, ready, running, \* SchedulerState
    state, token, bytes,              \* of each job; they outlive its record
    charged,                          \* MemoryBudget.charged
    results,                          \* JobResults the host has not dropped
    doomed,                           \* records taken out by destroy
    nextId,                           \* NEXT_JOB
    pc, work, answer,                 \* position and Work of each thread
    stage, seen,                      \* the callback a stopping thread is in
    notices,                          \* history: pushes of each job to ready
    refused                           \* history: destroy answered ContextClosing

contextVars   == <<phase, admission>>
schedulerVars == <<accepting, table, queue, ready, running>>
jobVars       == <<state, token, bytes>>
ledgerVars    == <<charged, results, doomed>>
threadVars    == <<pc, work, answer>>
closeVars     == <<stage, seen>>
vars == <<config, contextVars, sys, schedulerVars, jobVars, ledgerVars, nextId, threadVars,
          closeVars, notices, refused>>

(* Workers and pumping hosts share one limit. *)
MaxRunning == IF config.workers = {} THEN 1 ELSE Cardinality(config.workers)

Terminal == {"Succeeded", "Failed", "Cancelled"}
JobStates == {"none", "Queued", "Running"} \cup Terminal
Executing == {"begin", "kernel", "publish"}

Init ==
    /\ config \in Configs
    /\ phase = "Running" /\ admission = NoThread
    /\ sys = "absent"
    /\ accepting = TRUE /\ table = {} /\ queue = <<>> /\ ready = {} /\ running = 0
    /\ state = [j \in JobIds |-> "none"]
    /\ token = [j \in JobIds |-> FALSE]
    /\ bytes = [j \in JobIds |-> 0]
    /\ charged = 0 /\ results = {} /\ doomed = {}
    /\ nextId = 1
    /\ pc = [t \in Threads |-> IF t \in Workers THEN "unborn" ELSE "idle"]
    /\ work = [t \in Threads |-> 0]
    /\ answer = [t \in Threads |-> "none"]
    /\ stage = [t \in {Owner, Closer} |-> "none"] /\ seen = 0
    /\ notices = [j \in JobIds |-> 0]
    /\ refused = FALSE

Goto(t, p) == pc' = [pc EXCEPT ![t] = p]

(* ready.push_back for every job of S. *)
Announce(S) ==
    /\ ready' = ready \cup S
    /\ notices' = [j \in JobIds |-> IF j \in S THEN notices[j] + 1 ELSE notices[j]]

(* Threads blocked on the condition variable. *)
Waiting == {w \in Workers : pc[w] = "waiting"}

(* pc after thread t has moved to p and woken the workers of W. *)
WakeAndGoto(W, t, p) ==
    pc' = [u \in Threads |-> IF u = t THEN p ELSE IF u \in W THEN "check" ELSE pc[u]]

WakeAll_Lost(t, p) == WakeAndGoto({}, t, p)

(* notify_all. *)
WakeAll(t, p) == WakeAndGoto(Waiting, t, p)

-----------------------------------------------------------------------------
(* create *)

Create ==
    /\ sys = "absent"
    /\ phase = "Running"
    /\ sys' = "spawning"
    /\ UNCHANGED <<config, contextVars, schedulerVars, jobVars, ledgerVars, nextId, threadVars,
                   closeVars, notices, refused>>

Spawn(w) ==
    /\ sys = "spawning"
    /\ w \in config.workers /\ pc[w] = "unborn"
    /\ Goto(w, "check")
    /\ UNCHANGED <<config, contextVars, sys, schedulerVars, jobVars, ledgerVars, nextId, work,
                   answer, closeVars, notices, refused>>

CreateFails_KeepsWorkers ==
    /\ sys = "spawning"
    /\ (\E w \in config.workers : pc[w] = "unborn") \/ admission = NoThread
    /\ sys' = "failed"
    /\ UNCHANGED <<config, contextVars, schedulerVars, jobVars, ledgerVars, nextId, threadVars,
                   closeVars, notices, refused>>

(* A thread that cannot be started stops the workers that were already       *)
(* spawned, and so does a registration that is refused: it lost against      *)
(* close, or the context's registry is full.                                 *)
CreateFails ==
    /\ sys = "spawning"
    /\ (\E w \in config.workers : pc[w] = "unborn") \/ admission = NoThread
    /\ sys' = "failed"
    /\ stage' = [stage EXCEPT ![Owner] = "create"]
    /\ Goto(Owner, "stop")
    /\ UNCHANGED <<config, contextVars, schedulerVars, jobVars, ledgerVars, nextId, work, answer,
                   seen, notices, refused>>

Register ==
    /\ sys = "spawning"
    /\ \A w \in config.workers : pc[w] # "unborn"
    /\ phase = "Running" /\ admission = NoThread
    /\ sys' = "live"
    /\ UNCHANGED <<config, contextVars, schedulerVars, jobVars, ledgerVars, nextId, threadVars,
                   closeVars, notices, refused>>

-----------------------------------------------------------------------------
(* submit_input *)

SubmitAdmit_CheckOnly(h) ==
    /\ sys \in {"live", "destroyed"}
    /\ pc[h] = "idle"
    /\ phase = "Running" /\ admission = NoThread
    /\ Goto(h, "submit")
    /\ UNCHANGED <<config, contextVars, sys, schedulerVars, jobVars, ledgerVars, nextId, work, answer,
                   closeVars, notices, refused>>

(* admit_work: the gate is checked under the mutex that close takes too. *)
SubmitAdmit(h) ==
    /\ sys \in {"live", "destroyed"}
    /\ pc[h] = "idle"
    /\ phase = "Running" /\ admission = NoThread
    /\ admission' = h
    /\ Goto(h, "submit")
    /\ UNCHANGED <<config, phase, sys, schedulerVars, jobVars, ledgerVars, nextId, work, answer,
                   closeVars, notices, refused>>

(* Refused: stopped, a limit reached, or an operation nobody registered. *)
SubmitRefused(h) ==
    /\ pc[h] = "submit"
    /\ admission' = NoThread
    /\ Goto(h, "idle")
    /\ UNCHANGED <<config, phase, sys, schedulerVars, jobVars, ledgerVars, nextId, work, answer,
                   closeVars, notices, refused>>

HasRoom_OffByOne == Len(queue) <= config.queue /\ Cardinality(table) < config.live

HasRoom == Len(queue) < config.queue /\ Cardinality(table) < config.live

(* The whole publication under the scheduler mutex: limits, reservation,     *)
(* job id, record and queue entry.                                           *)
SubmitPublish(h) ==
    /\ pc[h] = "submit"
    /\ accepting
    /\ HasRoom
    /\ nextId <= MaxJobs
    /\ \E b \in Sizes :
          /\ charged + b <= ByteLimit
          /\ charged' = charged + b
          /\ bytes' = [bytes EXCEPT ![nextId] = b]
    /\ nextId' = nextId + 1
    /\ table' = table \cup {nextId}
    /\ state' = [state EXCEPT ![nextId] = "Queued"]
    /\ queue' = Append(queue, nextId)
    /\ Goto(h, "notify")
    /\ UNCHANGED <<config, contextVars, sys, accepting, ready, running, token, results, doomed,
                   work, answer, closeVars, notices, refused>>

(* notify_one, then the admission guard is dropped. *)
SubmitNotify(h) ==
    /\ pc[h] = "notify"
    /\ admission' = NoThread
    /\ \/ Waiting = {} /\ Goto(h, "idle")
       \/ \E w \in Waiting : WakeAndGoto({w}, h, "idle")
    /\ UNCHANGED <<config, phase, sys, schedulerVars, jobVars, ledgerVars, nextId, work, answer,
                   closeVars, notices, refused>>

-----------------------------------------------------------------------------
(* take_work, worker_loop, pump_one and execute *)

Blocked  == ~accepting \/ running >= MaxRunning
Runnable == {i \in DOMAIN queue : queue[i] \in table /\ state[queue[i]] = "Queued"}

(* Take the first entry that still is a queued job, dropping those before it. *)
TakeWork(t) ==
    /\ ~Blocked
    /\ \E i \in Runnable :
          /\ \A k \in Runnable : i <= k
          /\ queue' = SubSeq(queue, i + 1, Len(queue))
          /\ state' = [state EXCEPT ![queue[i]] = "Running"]
          /\ work' = [work EXCEPT ![t] = queue[i]]
    /\ running' = running + 1
    /\ Goto(t, "begin")
    /\ UNCHANGED <<config, contextVars, sys, accepting, table, ready, token, bytes, ledgerVars,
                   nextId, answer, closeVars, notices, refused>>

FindsNoWork ==
    \/ Blocked /\ UNCHANGED queue
    \/ ~Blocked /\ Runnable = {} /\ queue' = <<>>

WorkerTake(w) == pc[w] = "check" /\ accepting /\ TakeWork(w)

(* Wait on the condition variable, or leave when the system was stopped. *)
WorkerRest(w) ==
    /\ pc[w] = "check"
    /\ \/ ~accepting /\ Goto(w, "exited") /\ UNCHANGED queue
       \/ accepting /\ FindsNoWork /\ Goto(w, "waiting")
    /\ UNCHANGED <<config, contextVars, sys, accepting, table, ready, running, jobVars, ledgerVars,
                   nextId, work, answer, closeVars, notices, refused>>

(* A condition variable may also wake a thread without being notified. *)
WorkerSpurious(w) ==
    /\ pc[w] = "waiting"
    /\ Goto(w, "check")
    /\ UNCHANGED <<config, contextVars, sys, schedulerVars, jobVars, ledgerVars, nextId, work,
                   answer, closeVars, notices, refused>>

Pump(h) ==
    /\ sys \in {"live", "destroyed"}
    /\ pc[h] = "idle"
    /\ TakeWork(h)

(* check_cancelled before the kernel is called: a set token or an expired    *)
(* deadline ends the job without running it.                                 *)
ExecuteBegin(t) ==
    /\ pc[t] = "begin"
    /\ \/ ~token[work[t]] /\ Goto(t, "kernel") /\ UNCHANGED answer
       \/ answer' = [answer EXCEPT ![t] = "Cancelled"] /\ Goto(t, "publish")
    /\ UNCHANGED <<config, contextVars, sys, schedulerVars, jobVars, ledgerVars, nextId, work,
                   closeVars, notices, refused>>

(* The kernel returns; a panic or a bad length counts as a failure. *)
ExecuteKernel(t) ==
    /\ pc[t] = "kernel"
    /\ \E e \in Terminal : answer' = [answer EXCEPT ![t] = e]
    /\ Goto(t, "publish")
    /\ UNCHANGED <<config, contextVars, sys, schedulerVars, jobVars, ledgerVars, nextId, work,
                   closeVars, notices, refused>>

(* The critical section that records the outcome of a job that has a record. *)
ExecutePublish(t) ==
    /\ pc[t] = "publish"
    /\ IF work[t] \in table
       THEN state' = [state EXCEPT ![work[t]] = answer[t]] /\ Announce({work[t]})
       ELSE UNCHANGED <<state, ready, notices>>
    /\ running' = running - 1
    /\ answer' = [answer EXCEPT ![t] = "none"]
    /\ Goto(t, "finish")
    /\ UNCHANGED <<config, contextVars, sys, accepting, table, queue, token, bytes, ledgerVars,
                   nextId, work, closeVars, refused>>

ExecuteFinish_Silent(t) ==
    /\ pc[t] = "finish"
    /\ work' = [work EXCEPT ![t] = 0]
    /\ Goto(t, IF t \in Workers THEN "check" ELSE "idle")
    /\ UNCHANGED <<config, contextVars, sys, schedulerVars, jobVars, ledgerVars, nextId, answer,
                   closeVars, notices, refused>>

(* notify_all, and only now is the Work with its input dropped. *)
ExecuteFinish(t) ==
    /\ pc[t] = "finish"
    /\ work' = [work EXCEPT ![t] = 0]
    /\ WakeAll(t, IF t \in Workers THEN "check" ELSE "idle")
    /\ UNCHANGED <<config, contextVars, sys, schedulerVars, jobVars, ledgerVars, nextId, answer,
                   closeVars, notices, refused>>

-----------------------------------------------------------------------------
(* cancel, drain_completions, take_result and dropping a JobResult *)

Callable(h) == sys \in {"live", "destroyed"} /\ pc[h] = "idle"

Unqueue_Skipped(j) == j \in JobIds /\ UNCHANGED queue

(* queue.retain keeps the entries of the other jobs, in their order. *)
Retained(q, j) ==
    LET kept[n \in 0 .. Len(q)] ==
            IF n = 0 THEN <<>>
            ELSE IF q[n] = j THEN kept[n - 1] ELSE Append(kept[n - 1], q[n])
    IN  kept[Len(q)]

Unqueue(j) == queue' = Retained(queue, j)

Cancel(h, j) ==
    /\ Callable(h)
    /\ j \in table /\ state[j] \in {"Queued", "Running"}
    /\ token' = [token EXCEPT ![j] = TRUE]
    /\ \/ state[j] = "Running" /\ UNCHANGED <<state, queue, ready, notices>>
       \/ /\ state[j] = "Queued"
          /\ state' = [state EXCEPT ![j] = "Cancelled"]
          /\ Unqueue(j)
          /\ Announce({j})
    /\ UNCHANGED <<config, contextVars, sys, accepting, table, running, bytes, ledgerVars, nextId,
                   threadVars, closeVars, refused>>

(* The lowest ids come out first, as many as the caller has room for. *)
Drain(h) ==
    /\ Callable(h)
    /\ \E S \in SUBSET ready :
          /\ S # {}
          /\ \A j \in S, k \in ready \ S : j < k
          /\ ready' = ready \ S
    /\ UNCHANGED <<config, contextVars, sys, accepting, table, queue, running, jobVars, ledgerVars,
                   nextId, threadVars, closeVars, notices, refused>>

Reapable_WhenRequested(j) == j \in table /\ (state[j] \in Terminal \/ token[j])

Reapable(j) == j \in table /\ state[j] \in Terminal

TakeResult(h, j) ==
    /\ Callable(h)
    /\ Reapable(j)
    /\ table' = table \ {j}
    /\ ready' = ready \ {j}
    /\ results' = results \cup {j}
    /\ UNCHANGED <<config, contextVars, sys, accepting, queue, running, jobVars, charged, doomed,
                   nextId, threadVars, closeVars, notices, refused>>

Release_Forgotten(b) == b \in Nat /\ UNCHANGED charged

(* MemoryBudget.release saturates at zero. *)
Release(b) == charged' = IF charged >= b THEN charged - b ELSE 0

DropResult(h, j) ==
    /\ pc[h] = "idle"
    /\ j \in results
    /\ results' = results \ {j}
    /\ Release(bytes[j])
    /\ UNCHANGED <<config, contextVars, sys, schedulerVars, jobVars, doomed, nextId, threadVars,
                   closeVars, notices, refused>>

-----------------------------------------------------------------------------
(* stop, quiesce and destroy *)

(* cancel_requested called by the owner of the system, or Drop of it. *)
OwnerStop ==
    /\ sys \in {"live", "destroyed"}
    /\ pc[Owner] = "idle"
    /\ stage' = [stage EXCEPT ![Owner] = "cancel"]
    /\ Goto(Owner, "stop")
    /\ UNCHANGED <<config, contextVars, sys, schedulerVars, jobVars, ledgerVars, nextId, work,
                   answer, seen, notices, refused>>

(* A pass of close over the system, if it was registered by then.  The       *)
(* first pass cancels, and every pass asks whether the system is quiet.      *)
ClosePass ==
    /\ pc[Closer] = "idle"
    /\ ~refused /\ sys # "destroyed"
    /\ \/ /\ phase = "Running" /\ admission = NoThread
          /\ phase' = "Quiescing"
          /\ IF sys = "live"
             THEN /\ stage' = [stage EXCEPT ![Closer] = "cancel"]
                  /\ Goto(Closer, "stop")
             ELSE UNCHANGED <<stage, pc>>
       \/ /\ phase = "Quiescing" /\ sys = "live"
          /\ stage' = [stage EXCEPT ![Closer] = "quiesce"]
          /\ Goto(Closer, "stop")
          /\ UNCHANGED phase
    /\ UNCHANGED <<config, admission, sys, schedulerVars, jobVars, ledgerVars, nextId, work, answer,
                   seen, notices, refused>>

Dropped_Unfinished == {j \in table : state[j] \notin Terminal}

(* The jobs stop cancels. *)
Dropped == {j \in table : j \in Range(queue)}

(* Refuse new work, set every token and cancel what is queued. *)
Stop(t) ==
    /\ pc[t] = "stop"
    /\ accepting' = FALSE
    /\ token' = [j \in JobIds |-> token[j] \/ j \in table]
    /\ state' = [j \in JobIds |-> IF j \in Dropped THEN "Cancelled" ELSE state[j]]
    /\ Announce(Dropped)
    /\ queue' = <<>>
    /\ Goto(t, "stop_notify")
    /\ UNCHANGED <<config, contextVars, sys, table, running, bytes, ledgerVars, nextId, work, answer,
                   closeVars, refused>>

(* notify_all, then whatever the callback still has to do. *)
StopNotify(t) ==
    /\ pc[t] = "stop_notify"
    /\ WakeAll(t,
          IF stage[t] \in {"quiesce", "destroy"} THEN "read_running"
          ELSE IF t = Closer THEN "stop" ELSE "idle")
    /\ stage' = [stage EXCEPT ![t] = IF @ = "cancel" /\ t = Closer THEN "quiesce" ELSE @]
    /\ UNCHANGED <<config, contextVars, sys, schedulerVars, jobVars, ledgerVars, nextId, work,
                   answer, seen, notices, refused>>

ReadRunning ==
    /\ pc[Closer] = "read_running"
    /\ seen' = running
    /\ Goto(Closer, "read_workers")
    /\ UNCHANGED <<config, contextVars, sys, schedulerVars, jobVars, ledgerVars, nextId, work,
                   answer, stage, notices, refused>>

Quiet_ForgetsThreads ==
    seen = 0 /\ (stage[Closer] = "destroy" => \A w \in config.workers : pc[w] = "exited")

Quiet == seen = 0 /\ \A w \in config.workers : pc[w] = "exited"

(* quiesce counts the threads that have not finished.  Pending ends the pass; *)
(* Quiesced lets it go on to destroy, which asks once more before it acts.    *)
ReadWorkers ==
    /\ pc[Closer] = "read_workers"
    /\ IF Quiet
       THEN /\ Goto(Closer, IF stage[Closer] = "quiesce" THEN "stop" ELSE "clear")
            /\ stage' = [stage EXCEPT ![Closer] = "destroy"]
            /\ UNCHANGED refused
       ELSE /\ Goto(Closer, "idle")
            /\ refused' = (stage[Closer] = "destroy")
            /\ UNCHANGED stage
    /\ UNCHANGED <<config, contextVars, sys, schedulerVars, jobVars, ledgerVars, nextId, work,
                   answer, seen, notices>>

(* Join the finished threads and empty the scheduler. *)
DestroyClear ==
    /\ pc[Closer] = "clear"
    /\ queue' = <<>>
    /\ ready' = {}
    /\ table' = {}
    /\ doomed' = table
    /\ Goto(Closer, "drop_old")
    /\ UNCHANGED <<config, contextVars, sys, accepting, running, jobVars, charged, results, nextId,
                   work, answer, closeVars, notices, refused>>

(* The records die outside the lock and give their bytes back. *)
DestroyDrop ==
    /\ pc[Closer] = "drop_old"
    /\ Release(SumFunctionOnSet(bytes, doomed))
    /\ doomed' = {}
    /\ sys' = "destroyed"
    /\ Goto(Closer, "idle")
    /\ UNCHANGED <<config, contextVars, schedulerVars, jobVars, results, nextId, work, answer,
                   closeVars, notices, refused>>

-----------------------------------------------------------------------------
Creation == Create \/ CreateFails \/ Register \/ \E w \in Workers : Spawn(w)

HostCall(h) ==
    \/ SubmitAdmit(h) \/ Pump(h) \/ Drain(h)
    \/ \E j \in JobIds : Cancel(h, j) \/ TakeResult(h, j) \/ DropResult(h, j)

SubmitStep(h) == SubmitPublish(h) \/ SubmitRefused(h) \/ SubmitNotify(h)

ExecuteStep(t) ==
    ExecuteBegin(t) \/ ExecuteKernel(t) \/ ExecutePublish(t) \/ ExecuteFinish(t)

WorkerStep(w) == WorkerTake(w) \/ WorkerRest(w)

StopStep(t) == Stop(t) \/ StopNotify(t)
CloseStep   == StopStep(Closer) \/ ReadRunning \/ ReadWorkers \/ DestroyClear \/ DestroyDrop

Next ==
    \/ Creation
    \/ \E h \in Hosts : HostCall(h) \/ SubmitStep(h) \/ ExecuteStep(h)
    \/ \E w \in Workers : WorkerStep(w) \/ WorkerSpurious(w) \/ ExecuteStep(w)
    \/ OwnerStop \/ StopStep(Owner)
    \/ ClosePass \/ CloseStep

Spec == Init /\ [][Next]_vars

(* Calls that have begun run to their end, kernels return, workers are       *)
(* scheduled and the host keeps polling close once it has begun.             *)
Fairness ==
    /\ \A h \in Hosts : WF_vars(SubmitStep(h)) /\ WF_vars(ExecuteStep(h))
    /\ \A w \in Workers : WF_vars(WorkerStep(w)) /\ WF_vars(ExecuteStep(w))
    /\ WF_vars(StopStep(Owner)) /\ WF_vars(CloseStep)
    /\ WF_vars(phase = "Quiescing" /\ ClosePass)

FairSpec == Spec /\ Fairness

-----------------------------------------------------------------------------
(* Properties *)

PCs == {"unborn", "idle", "check", "waiting", "exited", "submit", "notify", "finish", "stop",
        "stop_notify", "read_running", "read_workers", "clear", "drop_old"} \cup Executing

(* Types, and the limits the configuration sets on the jobs queued, the       *)
(* records, the jobs running and the bytes charged (submit_input, take_work).*)
TypeInv ==
    /\ config \in Configs
    /\ phase \in {"Running", "Quiescing"}
    /\ admission \in Hosts \cup {NoThread}
    /\ sys \in {"absent", "spawning", "live", "failed", "destroyed"}
    /\ accepting \in BOOLEAN
    /\ table \subseteq JobIds /\ ready \subseteq JobIds
    /\ results \subseteq JobIds /\ doomed \subseteq JobIds
    /\ queue \in Seq(JobIds) /\ Len(queue) <= config.queue
    /\ Cardinality(table) <= config.live
    /\ running \in 0 .. MaxRunning /\ seen \in 0 .. MaxRunning
    /\ state \in [JobIds -> JobStates] /\ token \in [JobIds -> BOOLEAN]
    /\ bytes \in [JobIds -> Sizes \cup {0}] /\ charged \in 0 .. ByteLimit
    /\ nextId \in 1 .. MaxJobs + 1
    /\ pc \in [Threads -> PCs]
    /\ work \in [Threads -> JobIds \cup {0}]
    /\ answer \in [Threads -> Terminal \cup {"none"}]
    /\ stage \in [{Owner, Closer} -> {"none", "create", "cancel", "quiesce", "destroy"}]
    /\ notices \in [JobIds -> Nat]
    /\ refused \in BOOLEAN

Holders == {t \in Threads : pc[t] \in Executing}

(* The parts of SchedulerState agree: the queue holds each queued job of the *)
(* table once and nothing else, ready holds ended jobs of the table (so the  *)
(* lookup of drain_completions cannot fail), and running counts the threads  *)
(* that execute.                                                             *)
SchedulerConsistent ==
    /\ Range(queue) = {j \in table : state[j] = "Queued"}
    /\ Len(queue) = Cardinality(Range(queue))
    /\ ready \subseteq {j \in table : state[j] \in Terminal}
    /\ running = Cardinality(Holders)

(* A job that runs is held by exactly one thread, and keeps its record, and  *)
(* with it the reservation of its input, until that thread publishes: a       *)
(* cancellation request, a stop or a destroy in between does not release it. *)
LeaseHeld ==
    /\ \A t \in Holders : work[t] \in table /\ state[work[t]] = "Running"
    /\ \A t, u \in Holders : work[t] = work[u] => t = u
    /\ \A j \in JobIds : state[j] = "Running" => \E t \in Holders : work[t] = j

(* Each job is announced to drain_completions exactly once, when it ends,     *)
(* whichever of execute, cancel and stop ends it.                            *)
AnnouncedOnce ==
    \A j \in JobIds : notices[j] = IF state[j] \in Terminal THEN 1 ELSE 0

(* The budget holds exactly the reservations of the records and of the       *)
(* results that exist: none is lost when close overtakes the host, and none  *)
(* is given back twice.  A Work may outlive its job's reservation only in the *)
(* tail of execute, after the outcome is published (worker.rs:225): input     *)
(* that is not charged is never more than one job's per thread that returns.  *)
LedgerExact ==
    LET reserved == table \cup results \cup doomed
    IN  /\ charged = SumFunctionOnSet(bytes, reserved)
        /\ \A t \in Threads : work[t] \in JobIds \ reserved => pc[t] = "finish"

(* Once quiesce has answered Quiesced no kernel runs, no job can start and    *)
(* every worker has left; destroy, which asks again, is never refused (a      *)
(* refusal would leave the context in a failed close for good).               *)
QuiescedIsFinal ==
    /\ stage[Closer] = "destroy" =>
          Holders = {} /\ ~accepting /\ \A w \in config.workers : pc[w] = "exited"
    /\ ~refused

(* Close cannot overtake an admitted submission: until the job is published   *)
(* and the guard is dropped, only the owner can have stopped the system.      *)
SubmissionFencesClose ==
    \A h \in Hosts : pc[h] \in {"submit", "notify"} =>
        phase = "Running" /\ (accepting \/ stage[Owner] = "cancel")

(* The system keeps the promise of JobLifecycle. *)
Lifecycle == INSTANCE JobLifecycle WITH open <- accepting, fate <- state, width <- MaxRunning
ImplementsLifecycle == Lifecycle!Spec

(* No wake-up is lost: with workers, every submitted job ends. *)
SubmittedEnds ==
    \A j \in JobIds : state[j] = "Queued" ~> state[j] \in Terminal

(* Polling close reaches destruction once kernels return, whatever workers   *)
(* and pumping hosts were doing when it began.                               *)
CloseCompletes == (phase = "Quiescing" /\ sys = "live") ~> sys = "destroyed"

(* A create that fails leaves no worker behind. *)
FailedCreateLeavesNoWorker ==
    sys = "failed" ~> \A w \in Workers : pc[w] \in {"unborn", "exited"}
=============================================================================
