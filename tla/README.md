# LumioNativeCore: specifications and proofs

TLA+ models of the Rust workspace under `src/crates`, the TLC configurations that
check them on small instances, and the theorems about them that TLAPS checks for
every value of the constants.

## 1. The system

A host program embeds the library. It creates a `KernelContext`, builds
capabilities on it (a job system, timers, state-machine definitions, spatial
indexes, codecs, diagnostics) and finally drives the context to `Closed`.
There is no hidden background thread except the workers of a `JobSystem`; the
interleavings come from host threads calling the same objects, from those
workers, and from `close` running against both.

| Component | State it keeps | Operations | What makes it correct |
|---|---|---|---|
| KernelContext (`lumio-kernel/src/context`) | atomic phase, admission mutex, resource registry, close progress | `admit_work`, `register_resource`, `close`, `Drop` | the closed set misses nothing; nothing is destroyed while something is pending; every callback at most once and in order; failures stick; polling ends |
| JobSystem (`lumio-job/src/worker.rs`) | job table, run queue, ready list, running count, cancel tokens, byte reservations | `submit_input`, `cancel`, `pump_one`, worker loop, `drain_completions`, `take_result`, `quiesce`, `destroy` | one terminal result per job; at most `max_running` at once; a cancelled queued job never runs; close leaves no job running; reserved bytes are returned |
| JobStateMachine, CompletionBatch, BoundedJobQueue (`lumio-job/src/{state,completion,queue}.rs`) | an atomic state; leases with a high-water mark; a bounded channel | `cas_*`; `publish`, `drain`, `release`; `try_push` | single winner of every transition; a completion is published and released once |
| Handles (`lumio-kernel/src/handle`) | slots with generations, free stack, retired slots | `insert`, `get`, `remove`, `retire_all` | a stale handle never reaches a later payload; a slot whose generation is used up is never issued again |
| Memory (`lumio-kernel/src/memory`) | byte counter; buffers in a handle arena; a list of scratch chunks | `try_reserve`, `release`; `allocate`, `release`, `release_all`; `alloc`, `reset` | reservations never exceed the limit; what an owner keeps is charged, once |
| Capabilities, errors (`lumio-kernel/src/{capability,error}`) | static sets, counters | snapshots, validation | sequential look-ups |
| TimerManager (`lumio-timer/src`) | slots, scopes, timers, delivery queues | `schedule_*`, `cancel`, `advance`, `drain`, `teardown_scope`, slot operations, `shutdown` | no firing is lost, duplicated or delivered to a dead owner; budgets hold; a rejected advance changes nothing |
| HFSM (`lumio-hfsm/src`) | compiled definitions in a registry; host snapshots; scratch of a batch | `create`, `compile`, `evaluate_batch`, `required_guards` | legal configurations, bounded plans, all-or-nothing batches |
| Spatial (`lumio-spatial/src`) | a tree and a map of the same objects behind a read-write lock, closing and destroyed flags | `upsert`, batch query, `quiesce`, `destroy` | no query sees a freed index; a query answers what the stored boxes say; close ends |
| Codec, diagnostics (`lumio-codec/src`, `lumio-diagnostics/src`) | workspace bytes; a bounded record queue and its counters | `reserve`, `try_record`, `drain`, `destroy` | what arrives after destroy is bounded; no record is lost between queue and counters |
| Platform, test-support, xtask | clocks; fixtures; build checks | | no state worth a model |

How they interact: every capability resource is registered with the context,
which calls `cancel_requested`, `quiesce` and `destroy` on it; new work takes the
context's admission guard; jobs reserve bytes from the context's budget; workers
only hold a weak reference to the context.

What is hard: registration against close, two close passes at once, passes that
time out and are retried, callbacks that fail half way; submission and
cancellation against workers, completion against cancellation and stop, bytes
returned while they are still used; generations and counters at their limits;
budgeted timer advances and late completions.


## 2. Plan and order of the modules

Written, most important first:

1. `KernelContext` (+ `ContextContract`, `KernelContextProofs`): registration
   against the concurrent, retried, budgeted close; every other component is
   torn down by it.
2. `JobSystem` (+ `JobLifecycle`, `JobSystemProofs`): the only component with threads
   of its own.
3. `HandleArena`, `HandleRegistry` (+ `HandleSpace`, `HandleRegistryProofs`):
   generations, used by the capabilities.
4. `SpatialResource` (+ `SpatialResourceProofs`): the flag-then-lock pattern and a
   quiesce that only tries the lock; `SpatialService` puts the index behind it.
5. `TimerManager` (+ `TimerContract`, `TimerManagerProofs`): the largest sequential
   state machine.
6. `MemoryBudget` (+ `MemoryLedger`, `MemoryBudgetProofs`): the lock-free counter;
   `MemoryOwners` adds the two types that own one.
7. `HfsmRegistry`: an arena behind flags and a mutex; `ContextServices` puts the
   codec resource and the diagnostics recorder beside it, under one close. Their proofs
   are the second section of `HandleRegistryProofs`, since they rest on the arena's.
8. `HfsmDefinition`, `HfsmEvaluate`, `HfsmMachine`, `HfsmBatch` (+ `HfsmMachineProofs`): the
   compiler's checks, the evaluator, a host that runs a machine, and batches.
9. `JobStateCell`, `CompletionBatch`, `JobOutcomes`: the standalone state cell and
   completion buffer, and the two put together. Their proofs are the second section of
   `JobSystemProofs`.
10. `SumLemmas`: sums over finite sets, for the proofs that count bytes, timers, query
    results and actions.

`HandleArena` holds the arena's operators and is extended by `HandleRegistry`,
`HfsmRegistry` and `MemoryOwners`. Each of `KernelContext`, `JobSystem`, `HandleRegistry`,
`TimerManager`, `MemoryBudget` and `JobOutcomes` instantiates its abstract
specification under a refinement mapping; `JobSystem` and the state cells of
`JobOutcomes` implement the same one, `JobLifecycle`. `JobSystem` carries the part of
the context it depends on (the phase and the admission guard) and drives its
callbacks the way `KernelContext` does.

Left open: a composition of the context with a job system and a second resource, so
that the job system's callbacks run under the real close instead of the closer of
`JobSystem`.

## 3. How the models correspond to the code

The grain is the same everywhere: one critical section, one atomic operation, or
one call into foreign code is one step; what the code does between two of them
may be interleaved with anything. PROJECT.json gives the lines of each definition.

**KernelContext.** `phase` is the atomic phase, `admission` the owner of the admission
mutex, `resources`/`items` the registry and the set the first close froze,
`started`, `failure` and the cursors the fields of the close progress. A call of
`register_resource` is CallRegister, RegisterLock, RegisterGate, RegisterPush; a call
of `close` is EnterClose and then one step per lock and per callback (CloseCancel,
CloseQuiesce, CloseDestroy). Whether the deadline has passed when the code looks is a
free choice. A resource is the least a callback may be: quiesce is Pending until its
work has drained, and a faulty one may also answer an error. `DropContext` is the last
reference going away.

**JobSystem.** `table`, `queue`, `ready`, `running` and `accepting` are SchedulerState;
`state`, `token` and `bytes` are what a job's record, its cancel token and its
reservations say and outlive the record. `pc` and `work` are the positions of host
and worker threads in submit, execute, the worker loop and the callbacks. `config` is the
configuration the system was created with: the lengths of queue and table, and the
workers, none of which is pump mode. `notices` and
`refused` are history. Cancel takes a job out of the run queue with retain, which is
`Retained`. Workers wait on the condition variable (WorkerRest), are woken
by notifications or spuriously.

**HandleArena, HandleRegistry.** An arena is a record of slots, free stack and live
count; `Inserted`, `Removed`, `Drained` are its mutations, generations included. The
registry adds the callers: threads that look up, hold a guard, and give it back.

**SpatialResource.** `closing` and `destroyed` are the two flags, the lock is given by
the threads that hold it; BeginRefused/Begin is the check before the lock, Recheck
the one under it. `SpatialService` refines what happens under the lock: `tree` and
`objects` are the fields of the rstar adapter, Upsert is the write, CountPass and
FillPass are the two passes of a batch query with the early returns of the first.
A box is the set of cells it covers and one that validate refuses is empty. Hits
are counted and not listed, so the final sort and copy have no state of their own.
`stored` and `broken` are history: the boxes of accepted upserts, and whether
InternalInvariant was ever answered.

**TimerManager.** One step per call, as every operation takes `&mut self`. Slots are
sequences with their queues, timers a sequence of generation and record; `Advance`
is the whole catch-up: due ticks, order, rejections, retirements and the next due
ticks. The loops that end the timers of a scope, of a full queue or of a drain add up
to one `TimersRetired`, one `ScopesRetired` and one `Invalidated` for the set of timers they
end. Time is a tick counter; u64::MAX is `MaxTick`.

**MemoryBudget.** `call[t]` is a thread inside the compare-exchange loop of `try_reserve` or
`release`, with the value it last read. compare_exchange_weak may also fail for no
reason. `MemoryOwners` decides at the start who has the budget: the threads, or one
of NativeBufferOwner (an arena whose payloads are lengths) and CallScratch (a list
of chunks). An owner is used through `&mut self`, so one thread drives it; `stage` says
which answer of the budget it waits for.

**HfsmRegistry.** CreateBegin is the check before compiling, CreateInsert the insertion
under the lock; the callbacks of close are separate steps between them. Only the
finding of section 7 runs on it alone.

**ContextServices.** It extends `HfsmRegistry` by the two other resources that answer
quiesce with Quiesced at once: `codec` and `scratch` are CodecResource, `closed`, `records`
and `counted` DiagnosticsResource and its recorder. Each call checks in one step and
acts in a later one; destroy of each resource falls between. `late`, `popped` and
`refusals` are history. `wrapped` says whether the recorder was given to a DiagnosticsResource, which
offers no drain, or kept by the host.

**HfsmDefinition, HfsmEvaluate, HfsmMachine.** A definition is a record of functions over
`States`; `Graph` adds the chains the code finds with its cursor loops. `Compiles` is the
conjunction of compile's checks, `MaxPlanActions` the bound it computes. `Start`,
`Stop` and `Event` take a snapshot and answer a plan or a rejection, in the code's
order of checks. Action records of one state in one phase are one entry with a
count. `HfsmMachine` is the host: it keeps the snapshot of the last plan, may
destroy and rebuild its machine in a new epoch, which docs/specs/hfsm-semantics.md:126
asks of it. `HfsmBatch` is evaluate_batch: Staged is the loop over shared vectors with
reject's truncation, Delivered the check of the caller's buffers and the copy. It has
no state of its own; its property holds the batch against the plans its items would
get alone, from every state of the host.

**JobStateCell, CompletionBatch, JobOutcomes.** A cell is the atomic of one job;
cas_cancel is CasCancel, CancelLoad, and CancelSwap or CancelLost, which goes back to the
load. The buffer's methods run under its mutex and are one step each. `JobOutcomes`
lets threads publish the snapshot of any cell at any time, repeatedly and late, counts
what each caller was told, and keeps what was drained in `delivered`.

## 4. The runs

| Run | Bounds | What it shows |
|---|---|---|
| `kernel_context` | 3 threads, 1 healthy and 1 faulty resource, 2 registrations | The set close freezes is complete, callbacks keep their order, Closed means reclaimed, failures are final, the contract is implemented, and a polled close settles. Three threads let a registration race with two passes; two resources make order, partial failure and a retry with one of them pending possible. |
| `job_system` | 2 hosts, 2 jobs, 2 bytes; three configurations: 2 workers with room for everything, 2 workers with a table of 1, pump mode with a queue of 1 | Ownership of a job by one thread, one notice per job, exact bytes, every limit met and given back, nothing running after Quiesced. Two of each kind make every pair of racing calls happen. |
| `job_system_liveness` | 1 host, 2 jobs; two configurations: 1 worker with room for everything, 2 workers with a table of 1 | Submitted jobs end, close completes, a failed create leaves no worker, whether the second worker cannot be spawned or the registration is refused. A host and a worker compete for one running slot in the first; two workers have their starts, wake-ups and ends interleaved in the second. |
| `job_outcomes` | 2 threads, 3 jobs, buffer and window of 2 | Start, completion and cancellation race on a cell; three jobs push a release out of the window before it is published again. |
| `handle_registry` | 2 slots, 3 generations, 2 readers, every key | Reuse, exhaustion and retirement of both slots. |
| `spatial_resource` | 3 threads, 3 objects with room for 2, boxes over 2 cells, 4 batches (one malformed, one too long), at most 2 hits | Readers that overlap for ever, a writer, and a closer; moved objects, full index, buffers too small, and passes that must agree. |
| `timer_manager` | 2 timers, 2 scopes, 2 slots, queues of 2, 3 pending, 2 ticks, 3 generations | A catch-up over two ticks over two slots; both limits bind separately; each index is reused once while an old firing waits. |
| `memory_budget` | 3 threads, limit 3, sizes to 3; or an owner with 2 handles of 2 generations, lengths 1 and 2 | Crossing loops, a true refusal, a contended one; an insertion that fails after its reservation, with the limit reached and with the handles used up. |
| `context_services` | 2 threads, 1 slot of 3 generations, 2 definitions, 2 records, 3 counted | Creates, leases, reserves and records across the callbacks of three resources; what is late is bounded, and no record and no refusal of a full queue is lost or counted twice. |
| `hfsm_machine` | 3 states, 1 event, at most 2 transitions, 1 guard, counters to 5, 2 epochs; batches of two | All forests of three states up to renaming, and five malformed ones that must not compile. Exit counts vary over definitions of one transition. Counters to 5 allow a start, a re-entry and a restart, and then the overflow. Enough for bubbling, guard fall-through, shadowing, every relation of source and target, and an activation left and entered again. A batch pairs each item the host could ask for with one that starts a second machine. |
| `spatial_destroy_refused`, `hfsm_destroy_leaves_orphan` | 2 threads | The two findings of section 7. |

Deadlock is checked except where the system really stops: a context that has been
dropped (`kernel_context`), a destroyed job system whose jobs were all submitted and
reaped (`job_system*`), jobs that are all published and released (`job_outcomes`),
services that are all destroyed (`context_services`, and the registry of
`hfsm_destroy_leaves_orphan`), and a machine whose u64 counters are used up in its last
epoch (`hfsm_machine`).

Symmetry is used for threads, hosts, workers, payloads, scopes and dispatch ids, in
runs without liveness properties only; resources of `kernel_context` differ (one is
faulty) and that run checks liveness, so it uses none.

`MaxJobs`, `MaxCells`, `MaxHandles`, `MaxSchedules`, `MaxFirings`, `MaxRecords` and `MaxEpoch` bound the model and not
the code. `MaxTick`, `MaxSequence`, `MaxGeneration`, `MaxU64` and `MaxCounter` stand for the end of an integer type: the
behaviour at the bound is the one the code has at the type's maximum.

## 5. Fairness

- `KernelContext`: weak fairness of each step of a call that has begun (host threads
  are scheduled and locks are fair enough for a thread that alone competes for them
  again and again), of the draining of cancelled resources (what a resource promises
  with Pending), and of calling close (its documentation tells the host to poll).
- `JobSystem`: weak fairness of the steps of submit and execute (kernels return), of
  workers, of stop and of the callbacks of close once it has begun. Nobody has to
  submit, pump, cancel or reap.
- `SpatialService`: weak fairness of an operation that has begun and of a closer that
  polls. Beginning an operation is not fair, and may also happen for ever.
- `JobOutcomes`: weak fairness of a thread inside cas_cancel (it is scheduled). Nobody has
  to call anything.
- The other specifications claim no liveness.

## 6. What is proved

For every value of the constants that meets the named assumptions:

- `KernelContextProofs`. `IInv` says what each program counter knows: which locks a
  thread holds, that one pass at most is inside the critical part of close, and that
  the cursors, the length of `log` and the activity of each resource agree
  (`PassPosition`, `Frozen`). It is needed because each property relates `log` to
  resources only through the cursors of the pass that is under way. From it:
  TypeInv, AdmissionCoversPublication, FrozenSetIsComplete, CallbacksInOrder,
  NoDestroyBeforeQuiescence, ClosedMeansReclaimed, FailureIsFinal, that a pass that
  answers Quiescing or TimedOut has destroyed nothing (PendingKeepsResources), and
  the refinement of `ContextContract`.
- `HandleRegistryProofs`. `IInv` is TypeInv with the free list naming empty slots once
  each, every slot being counted as free, occupied or worn out, the generation of a slot
  telling which of its handles were issued, and guards resolving. From it: TypeInv, SlotsAccounted,
  GuardsResolve, and the refinement of `HandleSpace`, in which a handle is a name that
  is never given twice. A second section proves `ContextServices`, from the same lemmas
  about the arena. `ServicesInv` adds to the arena's part that a handle in a caller's
  hands either names the payload it was created for or is spent (`Shelved`,
  `CallsTyped`), and that what arrived late and what is still under way are together
  no more than the threads (`Bounded`, `RecordsBounded`): a call is exchanged for its
  late effect in one step, and after destroy no new call passes its check. From it:
  LeasesAreRightful, LateEffectsBounded, RecordsAccounted, each a theorem of the
  specification the run checks. That there are finitely many threads is assumed
  (`ServicesAssumption`).
- `SpatialResourceProofs`. `IInv` adds that the flags follow the closer, writers are
  alone, holders have an operation, and refusals are true. From it: QuiescedIsIdle,
  UsersHaveTheIndex, RefusalsAreTrue. `ServiceInv` adds, for `SpatialService`, that tree, map and
  stored boxes agree whenever nobody updates, and that a batch between its two passes
  holds the lock, which is why the sizes it counted are still true when it fills the
  buffer. From it: AnswersMatchIndex, and that `SpatialService` takes only the steps of
  `SpatialResource`. That ids and boxes are finitely many, as machine words are, is assumed.
- `MemoryBudgetProofs`. `IInv` is TypeInv with each call being a legal one. From it: the
  counter stays within the limit, and the loops implement `MemoryLedger`, whose calls
  take effect at one moment. `OwnersInv` adds, for `MemoryOwners`, that the free list of the
  arena names empty slots once each and that, while the owner waits for the budget, what
  is charged differs from what it keeps by exactly the bytes under way (`Owed`): a
  release that saturates would otherwise hide bytes given back twice. From it:
  OwnersCharged, and that an owner takes only the steps of `MemoryBudget`. That an owner may
  give back any number of bytes up to the limit (`0 .. Limit \subseteq Sizes`) is assumed.
- `SumLemmas`. A sum over a finite set does not depend on the order in which it is
  taken. Induction over data is out of the prover's reach as a theorem to cite; a
  smallest counterexample is not: the subsets of a finite set are well-founded, so the
  set of subsets for which a law fails has a smallest member, and the law holds for what
  is left when one element is taken out of it. LeastNatural is the same for numbers.
- `JobSystemProofs`. `IInv` says of every thread where it can be and which job is its own
  (`Places`, `Works`), who holds the admission guard (`Gate`), how far the owner and the
  closer have come and that what a pass of close has read stays true (`Stopping`,
  `Reads`), that ids are issued in order and each reservation has one holder (`Jobs`), that
  queue and ready list name jobs of the table once each (`Lists`), that `running` counts
  the threads that execute (`Held`), and that the budget holds the sum of the reserved
  bytes (`Charged`). The properties alone are not inductive: that a worker may finish a
  job rests on its record still being there, which rests on destroy having waited for
  `running` to be zero after admission had stopped, which `Reads` carries from the read to
  the step that relies on it. From it: TypeInv, SchedulerConsistent, LeaseHeld,
  AnnouncedOnce, QuiescedIsFinal, SubmissionFencesClose, LedgerExact, and the refinement
  of `JobLifecycle`.

  The second section is about `JobOutcomes`. `CellsIInv` says that ids rise through `delivered` and on through the batch
  and stay within the high-water mark (`Ordered`), so that a job that was published
  cannot be published again though its lease is gone; that each published state is the
  end of its job (`Truthful`); and that a lease is of a job in the batch or, once drained, in
  `delivered` (`Leased`). A cell that has ended never changes, though CancelSwap writes over
  a state it read earlier. From it: OutcomesOnce, and the refinement of `JobLifecycle` by
  the cells.
- `TimerManagerProofs`. `IInv` is made of the types, which include every limit, and of:
  a live timer stands in its present scope and on a slot that kept its dispatch id
  (`TimersStand`); a handle given out is of the timer at its index or of an earlier
  generation (`HandlesPast`); the free list names the other indices once (`FreeList`);
  counters count (`Counted`, `QueuesWithin`); entries differ in index, generation or due
  tick, and none is due later than the committed tick (`Entries`); valid entries can be
  delivered (`Delivers`). `Entries` is what makes `pending` the number of entries as a set:
  what an advance queues is due after the tick before it, and what waits already is not.
  Cancel, teardown, destroy, drain and advance all end a set of timers; what that does
  to the parts of `IInv` is proved once, for the predicate `Retires`. That an advance stays
  within the limits follows from the last firing it accepted, which still found room. From
  it: TypeInv, BooksBalance, HandlesNameTheirTimer, ValidEntriesDeliver.
  The refinement of `TimerContract` (`ContractHolds`) needs one more invariant, `Names`: a
  sequence number is that of one handle, and a timer and its entries bear the number of
  their handle. The contract knows timers by number only, so this is what lets an index
  and a generation stand for it. Slot, scope and cancel calls and the shutdown are
  Withdraw. For the advance: `KeptFirst` shows that what is queued for a timer is an
  initial part of what it is owed, and that a timer is ended exactly if the rest found no
  room (the first firing turned away); `NextDueIsOnly` that the next due tick the code
  computes with a division is the one multiple of the interval in the interval after the
  advance; `LaterIs` that a timer which stays is the timer the contract asks for. For the
  drain: the order of the entries, which ties on the index, is that of the contract, since
  no two entries agree in number and due tick.

- `HfsmMachineProofs`. `IInv` says that the definition is one compile accepts, that the
  snapshot is legal (its path leads along parents from a top-level state to a leaf, and
  its numbers rise and are in the past of the counter), that it is of the host's epoch
  while it runs, and that what has ended is of an earlier epoch, or of an earlier number
  and not on the path (`Over`). A step preserves it because every plan keeps a first part
  of the path and goes on along the path through the target (`Rejoins`): the kept part ends
  above the target (`KeptIs`), and two paths that share an ancestor agree as far as that
  ancestor (`RoutesAgree`). From it: SnapshotsStayLegal; StaleIsRefused; PlansExplainTheStep,
  which adds that the candidate selected is the first, leaf outwards, that is not passed
  over (`Bubbled`); PlansFitTheBound, which compares two sums, what the plan exits and
  enters state by state (`Weight`, `Stretch`) and what compile added up for source and
  target; and BatchIsItemwise, since each turn of the loop appends the parts of its plan or
  nothing (`EvaluatedIs`), and a concatenation is cut where it was joined. The models use
  functions recursive over numbers. What they compute is proved like the sums are: the
  steps up to the length are a set that has 0 and with each number the next (`Upwards`), so
  such a function exists (`Recursion`) and keeps what its step keeps (`RecursionStays`).
  Assumed are finitely many states, that a host can only write down definitions of the
  types of definition.rs (`DefinitionsAssumption`), that no limit is zero where it matters
  (`BatchAssumption`, ids.rs:96), that the ends of the counters are numbers, and that no
  scope is not a scope.

Some of these are proved and no longer model-checked, since a property some run
checks implies them or catches the same mistakes: the type invariants of
`KernelContext`, `HandleRegistry` and `TimerManager`, AdmissionCoversPublication (FrozenSetIsComplete is
what it is for), NoDestroyBeforeQuiescence (the guard of Destroy in
`ContextContract`), GuardsResolve (`held` in `HandleSpace`), UsersHaveTheIndex.

Only model-checked: all liveness (CloseSettles, SubmittedEnds, CloseCompletes,
FailedCreateLeavesNoWorker, CloseEnds, CancelReturns), since the prover handles
neither fairness nor ENABLED, and the two findings of section 7, which are
counterexamples. Every invariant and every refinement that a passing run checks is
also a theorem.

## 7. Findings

- `spatial_destroy_refused`: a query that passed its first check before the context began
  to close may take the lock between a Quiesced answer and destroy; destroy only tries
  the lock, fails, and the context records a failure that is final.
- `hfsm_destroy_leaves_orphan`: a create that straddles destroy inserts its definition
  into the emptied arena and answers with a handle, where the specification of the
  crate says the arena is emptied and every operation answers ContextDestroyed.

Noticed, without a run: `advance` compares the firings of the whole catch-up with its
budget before it looks at any queue (`manager.rs:526`), so a catch-up whose firings would
mostly be turned away is refused as a whole. The input of a job lives until its
`Work` is dropped, after the outcome is published (`worker.rs:225`), so a fast
`take_result` and drop give the bytes back while the input still exists; LedgerExact
bounds this by one job per thread that is returning. Codec scratch and diagnostic
records may also arrive after destroy, as the definitions of the second finding do;
LateEffectsBounded says how many. A DiagnosticsResource keeps its records and offers no
way to drain them once the recorder has been moved into it.

## 8. What is not modelled

- The trace and the diagnostics list of the timer manager: capped logs nobody reads back.
- Panics: a poisoned mutex and a generation overflow that the code answers with a panic
  stop the caller; the models have no step for them.
- Recursive read locking of the spatial lock by one thread, which no code path does.
- A release of more bytes than are reserved: `release` saturates at zero there, and
  its callers, who give back a reservation they hold, never ask for it. In `MemoryBudget`
  the thread that releases is the one that reserved; the loops do not know who calls
  them, and `JobSystem` has results dropped by any host.
- Fingerprints of the HFSM compiler, and ids or priorities declared twice in a
  definition.
- `SpatialContext::remove`, which `SpatialResource` does not offer, and the geometry of
  boxes beyond which of them meet.
- The call-scoped views of caller memory in `memory/buffer.rs` and provenance: borrowed
  slices and a plain record.
- The bounded queue and the cancellation flag of the job crate, an adapter of the
  standard channel and a sticky flag (`token` in `JobSystem`).
- Bounds, checksum and the compression stubs of the codec, and what a diagnostic record
  holds.
- Capabilities and errors, the platform clock, test support and build tasks: look-ups,
  arithmetic and fixtures without a state machine.
