---------------------------- MODULE TimerManager ----------------------------
(***************************************************************************)
(* TimerManager of crates/lumio-timer/src/manager.rs.  One thread owns it,  *)
(* so every call is one step; a call that answers an error changes nothing  *)
(* and is no step.  Ticks, schedule sequences and generations are the       *)
(* machine integers of the code with smaller limits: arithmetic past        *)
(* MaxTick overflows as it does past u64::MAX.  Indices count from one.     *)
(***************************************************************************)
EXTENDS Naturals, Sequences, FiniteSets, Functions

CONSTANTS
    Ids,            \* scope ids
    Kinds,          \* ScopeKind
    Dispatches,     \* DispatchId
    Intervals,      \* the intervals callers ask for, at least the minimal one
    MaxTick, MaxSequence, MaxGeneration,      \* u64::MAX, u64::MAX, u32::MAX
    MaxActive, MaxSchedules, Depth,           \* TimerLimits
    MaxScopes, MaxSlots, MaxTimers, MaxPending, MaxFirings, \* TimerBudget
    NoTimer,        \* record: None
    NoDispatch      \* dispatch_id: None

OneShot == 0        \* interval: None

ScopeTokens == [id : Ids, kind : Kinds, generation : 1 .. MaxGeneration]

Records == [scope : ScopeTokens, due : 1 .. MaxTick, interval : Intervals \cup {OneShot},
            seq : 1 .. MaxSequence, slot : 1 .. MaxSlots, dispatch : Dispatches, queued : BOOLEAN]

ASSUME TimerAssumption ==
    /\ Kinds # {}
    /\ MaxTick \in Nat /\ MaxSequence \in Nat /\ MaxGeneration \in Nat
    /\ Intervals \subseteq 1 .. MaxTick
    /\ \A n \in {MaxActive, MaxSchedules, Depth, MaxScopes, MaxSlots, MaxTimers,
                 MaxPending, MaxFirings, MaxSequence, MaxGeneration} : n \in Nat /\ n # 0
    /\ NoTimer \notin Records
    /\ NoDispatch \notin Dispatches

VARIABLES
    running,     \* until shutdown
    tick,        \* committed_tick
    schedules,   \* schedules_this_tick
    sequence,    \* next_sequence
    scopes,      \* ScopeRecords; generation 0 is an id never registered
    timers,      \* TimerSlots
    free,        \* timer_free, the next index to reuse last
    live,        \* live
    slots,       \* SlotRecords
    pending,     \* pending
    dispatches,  \* dispatch_table
    issued,      \* history: the sequence of the timer each handle was first returned for
    drained      \* history: what the last drain delivered, in order

host == <<issued, drained>>
vars == <<running, tick, schedules, sequence, scopes, timers, free, live, slots, pending,
          dispatches, issued, drained>>

Init ==
    /\ running = TRUE
    /\ tick = 0 /\ schedules = 0 /\ sequence = 1
    /\ scopes = [id \in Ids |-> [kind |-> CHOOSE k \in Kinds : TRUE, generation |-> 0,
                                 active |-> 0, alive |-> FALSE]]
    /\ timers = <<>> /\ free = <<>> /\ live = 0
    /\ slots = <<>> /\ pending = 0
    /\ dispatches = {}
    /\ issued = <<>> /\ drained = <<>>

-----------------------------------------------------------------------------
(* Callback slots and dispatch ids *)

CreateSlot ==
    /\ running
    /\ Len(slots) < MaxSlots
    /\ slots' = Append(slots, [state |-> "Unbound", dispatch |-> NoDispatch, queue |-> <<>>])
    /\ UNCHANGED <<running, tick, schedules, sequence, scopes, timers, free, live, pending,
                   dispatches, host>>

CanRegister(d) == d \in dispatches \/ Cardinality(dispatches) < MaxSlots

TryRegisterDispatch(d) ==
    /\ running
    /\ CanRegister(d)
    /\ dispatches' = dispatches \cup {d}
    /\ UNCHANGED <<running, tick, schedules, sequence, scopes, timers, free, live, slots,
                   pending, host>>

RemoveDispatch(d) ==
    /\ dispatches' = dispatches \ {d}
    /\ UNCHANGED <<running, tick, schedules, sequence, scopes, timers, free, live, slots,
                   pending, host>>

(* bind_slot registers the id and arms the slot; arm_slot only arms it.      *)
Arm(c, d) ==
    /\ running
    /\ c \in DOMAIN slots
    /\ \/ slots[c].state = "Unbound"
       \/ slots[c].state = "Armed" /\ slots[c].dispatch = d
    /\ slots' = [slots EXCEPT ![c].state = "Armed", ![c].dispatch = d]
    /\ UNCHANGED <<running, tick, schedules, sequence, scopes, timers, free, live, pending, host>>

BindSlot(c, d) == CanRegister(d) /\ Arm(c, d) /\ dispatches' = dispatches \cup {d}

ArmSlot(c, d) == d \in dispatches /\ Arm(c, d) /\ UNCHANGED dispatches

Items == UNION {Range(slots[c].queue) : c \in DOMAIN slots}

Invalidated_Nothing(L) == slots

(* The slots with the queue entries of L marked invalid. *)
Invalidated(L) ==
    LET Mark(item) == [item EXCEPT !.valid = item.valid /\ item \notin L]
    IN  [c \in DOMAIN slots |->
            [slots[c] EXCEPT !.queue = [i \in DOMAIN slots[c].queue |-> Mark(slots[c].queue[i])]]]

CloseSlot(c) ==
    /\ running
    /\ c \in DOMAIN slots
    /\ slots[c].state = "Armed"
    /\ slots' = [slots EXCEPT ![c].state = "Closed",
                              ![c].queue = Invalidated(Items)[c].queue]
    /\ UNCHANGED <<running, tick, schedules, sequence, scopes, timers, free, live, pending,
                   dispatches, host>>

-----------------------------------------------------------------------------
(* Timers *)

Occupied == {i \in DOMAIN timers : timers[i].record # NoTimer}

Resolves_ByIndex(h) == h.index \in Occupied

(* get_timer *)
Resolves(h) ==
    /\ h.index \in Occupied
    /\ timers[h.index].generation = h.generation

HandleOf(i) == [index |-> i, generation |-> timers[i].generation]

(* bump_generation panics past the last generation, and the process ends.    *)
CanRetire(S) == \A i \in S : timers[i].generation < MaxGeneration

TimersRetired_KeepsGeneration(S) ==
    [i \in DOMAIN timers |-> IF i \in S THEN [timers[i] EXCEPT !.record = NoTimer] ELSE timers[i]]

TimersRetired(S) ==
    [i \in DOMAIN timers |->
        IF i \in S THEN [generation |-> timers[i].generation + 1, record |-> NoTimer]
                   ELSE timers[i]]

Minus(a, b) == IF a < b THEN 0 ELSE a - b

ActiveWithout(id, S) ==
    Minus(scopes[id].active, Cardinality({i \in S : timers[i].record.scope.id = id}))

ScopesRetired(S) == [id \in Ids |-> [scopes[id] EXCEPT !.active = ActiveWithout(id, S)]]

(* The elements of S in ascending order; exactly one sequence. *)
Ascending(S) ==
    {q \in [1 .. Cardinality(S) -> S] :
        /\ \A i, k \in DOMAIN q : i < k => q[i] < q[k]
        /\ \A s \in S : \E i \in DOMAIN q : q[i] = s}

ScopeResolves(sc) ==
    /\ scopes[sc.id].alive
    /\ scopes[sc.id].generation = sc.generation
    /\ scopes[sc.id].kind = sc.kind

WithinBudget(sc) ==
    /\ schedules < MaxSchedules
    /\ scopes[sc.id].active < MaxActive
    /\ free # <<>> \/ Len(timers) < MaxTimers
    /\ sequence < MaxSequence

(* Index and generation of the next timer. *)
NextHandle ==
    IF free # <<>> THEN HandleOf(free[Len(free)])
                   ELSE [index |-> Len(timers) + 1, generation |-> 1]

Schedule(sc, due, interval, c) ==
    /\ running
    /\ ScopeResolves(sc)
    /\ c \in DOMAIN slots /\ slots[c].state = "Armed"
    /\ due > tick
    /\ WithinBudget(sc)
    /\ LET slot == [generation |-> NextHandle.generation,
                    record |-> [scope |-> sc, due |-> due, interval |-> interval, seq |-> sequence,
                                slot |-> c, dispatch |-> slots[c].dispatch, queued |-> FALSE]]
       IN  timers' = IF free # <<>> THEN [timers EXCEPT ![NextHandle.index] = slot]
                                    ELSE Append(timers, slot)
    /\ free' = IF free # <<>> THEN SubSeq(free, 1, Len(free) - 1) ELSE free
    /\ sequence' = sequence + 1
    /\ schedules' = schedules + 1
    /\ live' = live + 1
    /\ scopes' = [scopes EXCEPT ![sc.id].active = @ + 1]
    /\ issued' = [h \in DOMAIN issued \cup {NextHandle} |->
                    IF h \in DOMAIN issued THEN issued[h] ELSE sequence]
    /\ UNCHANGED <<running, tick, slots, pending, dispatches, drained>>

(* The queued firings of a timer. *)
Queued(h) == {item \in Items : item.index = h.index /\ item.generation = h.generation}

Cancel(h) ==
    /\ running
    /\ Resolves(h)
    /\ CanRetire({h.index})
    /\ slots' = Invalidated(Queued(h))
    /\ timers' = TimersRetired({h.index})
    /\ scopes' = ScopesRetired({h.index})
    /\ free' = Append(free, h.index)
    /\ live' = live - 1
    /\ UNCHANGED <<running, tick, schedules, sequence, pending, dispatches, host>>

-----------------------------------------------------------------------------
(* Scopes *)

Registered == {id \in Ids : scopes[id].generation # 0}

(* A living scope of the same kind is simply returned. *)
RegisterScope(id, k) ==
    /\ running
    /\ ~scopes[id].alive
    /\ id \notin Registered => Cardinality(Registered) < MaxScopes
    /\ scopes[id].generation < MaxGeneration
    /\ scopes' = [scopes EXCEPT ![id] = [kind |-> k, generation |-> @.generation + 1,
                                         active |-> 0, alive |-> TRUE]]
    /\ UNCHANGED <<running, tick, schedules, sequence, timers, free, live, slots, pending,
                   dispatches, host>>

TimersOf(id) == {i \in Occupied : timers[i].record.scope.id = id}

(* retire_scope_timers *)
RetireScopeTimers(id) ==
    /\ CanRetire(TimersOf(id))
    /\ slots' = Invalidated({item \in Items : item.scope.id = id})
    /\ timers' = TimersRetired(TimersOf(id))
    /\ \E q \in Ascending(TimersOf(id)) : free' = free \o q
    /\ live' = live - Cardinality(TimersOf(id))
    /\ UNCHANGED <<running, tick, schedules, sequence, pending, dispatches, host>>

TeardownScope(id) ==
    /\ running
    /\ scopes[id].alive
    /\ scopes[id].generation < MaxGeneration
    /\ RetireScopeTimers(id)
    /\ scopes' = [ScopesRetired(TimersOf(id)) EXCEPT ![id].generation = @ + 1]

DestroyScope(id) ==
    /\ running
    /\ scopes[id].alive
    /\ RetireScopeTimers(id)
    /\ scopes' = [ScopesRetired(TimersOf(id)) EXCEPT ![id].alive = FALSE]

-----------------------------------------------------------------------------
(* Advance *)

(* The timers that fire up to tick to. *)
Firing(to) == {i \in Occupied : ~timers[i].record.queued /\ timers[i].record.due <= to}

(* When timer record r fires up to tick to. *)
DueTicks(r, to) ==
    IF r.interval = OneShot THEN {r.due}
    ELSE {d \in r.due .. to : (d - r.due) % r.interval = 0}

Firings(to) ==
    UNION {{[index |-> i, generation |-> timers[i].generation, due |-> d,
             seq |-> timers[i].record.seq, dispatch |-> timers[i].record.dispatch] :
                d \in DueTicks(timers[i].record, to)} : i \in Firing(to)}

Before_SequenceFirst(f, g) ==
    \/ f.seq < g.seq
    \/ f.seq = g.seq /\ f.due < g.due

(* The order of advance and of drain. *)
Before(f, g) ==
    \/ f.due < g.due
    \/ f.due = g.due /\ f.seq < g.seq
    \/ f.due = g.due /\ f.seq = g.seq /\ f.index < g.index

Sorted(F) ==
    {q \in [1 .. Cardinality(F) -> F] :
        /\ \A i, k \in DOMAIN q : i < k => Before(q[i], q[k])
        /\ \A f \in F : \E i \in DOMAIN q : q[i] = f}

SlotOf(f) == timers[f.index].record.slot

HasRoom_OffByOne(c, m, n) ==
    /\ pending + m < MaxPending
    /\ slots[c].state = "Armed"
    /\ Len(slots[c].queue) + n <= Depth

(* Is there room for one more firing of slot c after m others, n of them its? *)
HasRoom(c, m, n) ==
    /\ pending + m < MaxPending
    /\ slots[c].state = "Armed"
    /\ Len(slots[c].queue) + n < Depth

(* K is the set of positions of q whose firing is queued: those that find    *)
(* their timer alive and room in their queue.  q determines it.              *)
Accepts(q, K) ==
    \A k \in DOMAIN q :
        k \in K <=>
            /\ \A i \in 1 .. k - 1 : q[i].index = q[k].index => i \in K
            /\ HasRoom(SlotOf(q[k]), Cardinality({i \in K : i < k}),
                       Cardinality({i \in K : i < k /\ SlotOf(q[i]) = SlotOf(q[k])}))

(* The positions whose firing is turned away, which ends its timer. *)
TurnedAway(q, K) ==
    {k \in DOMAIN q \ K : \A i \in 1 .. k - 1 : q[i].index = q[k].index => i \in K}

Item(f) ==
    [index |-> f.index, generation |-> f.generation, due |-> f.due, seq |-> f.seq,
     dispatch |-> f.dispatch, scope |-> timers[f.index].record.scope, valid |-> TRUE]

(* The positions queued on each slot, in order; exactly one function. *)
Arrivals(q, K) ==
    LET On(c) == Ascending({k \in K : SlotOf(q[k]) = c})
    IN  {a \in [DOMAIN slots -> UNION {On(c) : c \in DOMAIN slots}] :
            \A c \in DOMAIN slots : a[c] \in On(c)}

(* The next due tick of a repeating timer lies beyond the last tick. *)
NextDue(r, to) == r.due + ((to - r.due) \div r.interval + 1) * r.interval

Exhausted(i, to) ==
    timers[i].record.interval # OneShot /\ NextDue(timers[i].record, to) > MaxTick

Moved(i, to) ==
    IF timers[i].record.interval = OneShot
    THEN [timers[i] EXCEPT !.record.queued = TRUE]
    ELSE [timers[i] EXCEPT !.record.due = NextDue(timers[i].record, to)]

Advance(to) ==
    /\ running
    /\ to > tick
    /\ Cardinality(Firings(to)) <= MaxFirings
    /\ \E q \in Sorted(Firings(to)) : \E K \in SUBSET DOMAIN q :
        LET away == {q[k].index : k \in TurnedAway(q, K)}
            over == {i \in Firing(to) \ away : Exhausted(i, to)}
            gone == away \cup over
        IN  /\ Accepts(q, K)
            /\ CanRetire(gone)
            /\ timers' = [i \in DOMAIN timers |->
                             IF i \in Firing(to) \ gone THEN Moved(i, to) ELSE TimersRetired(gone)[i]]
            /\ scopes' = ScopesRetired(gone)
            /\ live' = live - Cardinality(gone)
            /\ \E r \in Ascending(TurnedAway(q, K)) : \E e \in Ascending(over) :
                    free' = free \o [i \in DOMAIN r |-> q[r[i]].index] \o e
            /\ \E a \in Arrivals(q, K) :
                    slots' = [c \in DOMAIN slots |->
                        [slots[c] EXCEPT !.queue = @ \o [i \in DOMAIN a[c] |-> Item(q[a[c][i]])]]]
            /\ pending' = pending + Cardinality(K)
    /\ tick' = to
    /\ schedules' = 0
    /\ UNCHANGED <<running, sequence, dispatches, host>>

-----------------------------------------------------------------------------
(* Drain *)

(* The slot whose queue holds item. *)
HolderOf(item) == CHOOSE c \in DOMAIN slots : item \in Range(slots[c].queue)

(* An item is late, or its dispatch id is gone, or it is delivered. *)
Late(item) ==
    \/ ~running
    \/ ~item.valid
    \/ slots[HolderOf(item)].state = "Closed"
    \/ ~ScopeResolves(item.scope)

Deliverable(item) ==
    /\ ~Late(item)
    /\ slots[HolderOf(item)].dispatch = item.dispatch
    /\ item.dispatch \in dispatches

(* A drained item ends its timer when it was refused, and when the timer     *)
(* fires only once.                                                          *)
Ends(item) ==
    /\ Resolves(item)
    /\ ~Deliverable(item) \/ timers[item.index].record.interval = OneShot

EndsFirst_Again(q) == {k \in DOMAIN q : Ends(q[k])}

(* The first item of q that ends each timer. *)
EndsFirst(q) ==
    {k \in DOMAIN q : Ends(q[k]) /\ \A i \in 1 .. k - 1 : Ends(q[i]) => q[i].index # q[k].index}

Drain ==
    /\ \E q \in Sorted(Items) :
        LET gone == {q[k].index : k \in EndsFirst(q)}
        IN  /\ CanRetire(gone)
            /\ timers' = TimersRetired(gone)
            /\ scopes' = ScopesRetired(gone)
            /\ live' = live - Cardinality(gone)
            /\ \E e \in Ascending(EndsFirst(q)) : free' = free \o [i \in DOMAIN e |-> q[e[i]].index]
            /\ \E e \in Ascending({k \in DOMAIN q : Deliverable(q[k])}) :
                    drained' = [i \in DOMAIN e |-> [due |-> q[e[i]].due, seq |-> q[e[i]].seq]]
    /\ slots' = [c \in DOMAIN slots |-> [slots[c] EXCEPT !.queue = <<>>]]
    /\ pending' = 0
    /\ UNCHANGED <<running, tick, schedules, sequence, dispatches, issued>>

Shutdown ==
    /\ running
    /\ running' = FALSE
    /\ slots' = Invalidated(Items)
    /\ timers' = [i \in DOMAIN timers |-> [timers[i] EXCEPT !.record = NoTimer]]
    /\ scopes' = [id \in Ids |-> [scopes[id] EXCEPT !.active = 0]]
    /\ live' = 0
    /\ UNCHANGED <<tick, schedules, sequence, free, pending, dispatches, host>>

SlotCall ==
    \/ CreateSlot
    \/ \E d \in Dispatches : TryRegisterDispatch(d) \/ RemoveDispatch(d)
    \/ \E c \in 1 .. MaxSlots : CloseSlot(c) \/ \E d \in Dispatches : BindSlot(c, d) \/ ArmSlot(c, d)

ScopeCall ==
    \E id \in Ids : TeardownScope(id) \/ DestroyScope(id) \/ \E k \in Kinds : RegisterScope(id, k)

TimerCall ==
    \/ \E sc \in ScopeTokens, due \in 1 .. MaxTick, interval \in Intervals \cup {OneShot},
          c \in 1 .. MaxSlots : Schedule(sc, due, interval, c)
    \/ \E h \in DOMAIN issued : Cancel(h)

Next ==
    \/ SlotCall
    \/ ScopeCall
    \/ TimerCall
    \/ \E to \in 1 .. MaxTick : Advance(to)
    \/ Drain
    \/ Shutdown

Spec == Init /\ [][Next]_vars

-----------------------------------------------------------------------------
(* Properties *)

(* Types. *)
TypeInv ==
    /\ running \in BOOLEAN
    /\ tick \in 0 .. MaxTick /\ schedules \in 0 .. MaxSchedules /\ sequence \in 1 .. MaxSequence
    /\ scopes \in [Ids -> [kind : Kinds, generation : 0 .. MaxGeneration, active : 0 .. MaxActive,
                           alive : BOOLEAN]]
    /\ DOMAIN timers = 1 .. Len(timers) /\ Len(timers) <= MaxTimers
    /\ \A i \in DOMAIN timers :
        /\ timers[i].generation \in 1 .. MaxGeneration
        /\ timers[i].record \in Records \cup {NoTimer}
    /\ free \in Seq(DOMAIN timers)
    /\ live \in 0 .. MaxTimers
    /\ DOMAIN slots = 1 .. Len(slots) /\ Len(slots) <= MaxSlots
    /\ \A c \in DOMAIN slots :
        /\ slots[c].state \in {"Unbound", "Armed", "Closed"}
        /\ slots[c].dispatch \in Dispatches \cup {NoDispatch}
        /\ Len(slots[c].queue) <= Depth
    /\ pending \in 0 .. MaxPending
    /\ dispatches \subseteq Dispatches /\ Cardinality(dispatches) <= MaxSlots

(* The counters the limits are enforced with are true: live and active count *)
(* the records, the free list holds every other slot once, and pending       *)
(* counts the queue entries, the invalid ones included; so the limits hold.  *)
BooksBalance ==
    /\ live = Cardinality(Occupied)
    /\ running => \A id \in Ids : scopes[id].active = Cardinality(TimersOf(id))
    /\ \A i, k \in DOMAIN free : free[i] = free[k] => i = k
    /\ running => Range(free) = DOMAIN timers \ Occupied
    /\ pending = Cardinality(Items) /\ pending <= MaxPending
    /\ \A c \in DOMAIN slots : Len(slots[c].queue) <= Depth

(* A handle that resolves still means the timer it was first returned for.    *)
HandlesNameTheirTimer ==
    \A h \in DOMAIN issued : Resolves(h) => timers[h.index].record.seq = issued[h]

(* An entry that is still valid can be delivered: its scope is the present   *)
(* one, its slot is open and bound to the dispatch id it was queued for.     *)
ValidEntriesDeliver ==
    \A c \in DOMAIN slots : \A item \in Range(slots[c].queue) :
        item.valid => /\ ScopeResolves(item.scope)
                      /\ slots[c].state = "Armed"
                      /\ slots[c].dispatch = item.dispatch

(* The manager keeps the promise of TimerContract: no firing is lost,        *)
(* repeated, out of order, or delivered after its timer was taken back, and  *)
(* a late completion never ends a timer that reuses the slot.                *)
Contract == INSTANCE TimerContract WITH
    next  <- sequence,
    armed <- {[seq |-> timers[i].record.seq, due |-> timers[i].record.due,
               every |-> timers[i].record.interval, queued |-> timers[i].record.queued] : i \in Occupied},
    queue <- {[seq |-> item.seq, due |-> item.due, doomed |-> ~item.valid] : item \in Items}

ImplementsContract == Contract!Spec
=============================================================================
