--------------------------- MODULE HandleRegistry ---------------------------
(***************************************************************************)
(* TypedHandleRegistry of crates/lumio-kernel/src/handle/registry.rs: a     *)
(* HandleArena behind a read-write lock, with guards (guard.rs) that keep   *)
(* the read lock while a payload is in use.  Each lookup and each update is *)
(* one critical section and one step; an update waits for every guard.      *)
(***************************************************************************)
EXTENDS HandleArena

CONSTANTS
    Threads,
    NoHandle    \* the guard of a thread that holds none

ASSUME NoHandleAssumption == NoHandle \notin Handles

VARIABLES
    arena,   \* TypedHandleRegistry.arena
    guard,   \* the handle of the HandleGuard each thread holds
    issued,  \* history: the handles insert has returned
    answer   \* history: what the last operation answered

vars == <<arena, guard, issued, answer>>

Reply(h, result, payload) ==
    answer' = [handle |-> h, result |-> result, payload |-> payload]

Init ==
    /\ arena = NewArena
    /\ guard = [t \in Threads |-> NoHandle]
    /\ issued = {}
    /\ answer = [handle |-> {}, result |-> "none", payload |-> NoPayload]

Guardless(t) == guard[t] = NoHandle

(* No reader holds the lock. *)
WriteLockFree == \A t \in Threads : Guardless(t)

Insert(v) ==
    /\ WriteLockFree
    /\ CanInsert(arena)
    /\ arena' = Inserted(arena, v)
    /\ issued' = issued \cup {HandleOf(arena, NextSlot(arena))}
    /\ Reply({HandleOf(arena, NextSlot(arena))}, "Ok", v)
    /\ UNCHANGED guard

InsertFull(v) ==
    /\ WriteLockFree
    /\ ~CanInsert(arena)
    /\ Reply({}, "CapacityExceeded", v)
    /\ UNCHANGED <<arena, guard, issued>>

(* get and borrow: the read lock stays with the guard. *)
Borrow(t, h) ==
    /\ Guardless(t)
    /\ Resolves(arena, h)
    /\ guard' = [guard EXCEPT ![t] = h]
    /\ Reply({h}, "Ok", arena.value[h.slot])
    /\ UNCHANGED <<arena, issued>>

(* A failed lookup of borrow or remove.  A context mismatch is found before  *)
(* any lock is taken.                                                        *)
LookupFails(t, h) ==
    /\ Guardless(t)
    /\ ~Resolves(arena, h)
    /\ Reply({h}, Failure(arena, h), NoPayload)
    /\ UNCHANGED <<arena, guard, issued>>

DropGuard(t) ==
    /\ ~Guardless(t)
    /\ guard' = [guard EXCEPT ![t] = NoHandle]
    /\ UNCHANGED <<arena, issued, answer>>

Remove(h) ==
    /\ WriteLockFree
    /\ Resolves(arena, h)
    /\ arena' = Removed(arena, h.slot)
    /\ Reply({h}, "Ok", arena.value[h.slot])
    /\ UNCHANGED <<guard, issued>>

RetireAll ==
    /\ WriteLockFree
    /\ arena' \in Drained(arena)
    /\ Reply({}, "Ok", NoPayload)
    /\ UNCHANGED <<guard, issued>>

Next ==
    \/ \E v \in Payloads : Insert(v) \/ InsertFull(v)
    \/ \E h \in Handles : Remove(h) \/ \E t \in Threads : Borrow(t, h) \/ LookupFails(t, h)
    \/ \E t \in Threads : DropGuard(t)
    \/ RetireAll

Spec == Init /\ [][Next]_vars

-----------------------------------------------------------------------------
(* Properties *)

(* Types. *)
TypeInv ==
    /\ arena \in Arenas
    /\ guard \in [Threads -> Handles \cup {NoHandle}]
    /\ issued \subseteq Handles
    /\ answer \in [handle : {{}} \cup {{h} : h \in Handles},
                   result : {"none", "Ok", "CapacityExceeded", "WrongContext",
                             "InvalidHandle", "AlreadyReleased"},
                   payload : Payloads \cup {NoPayload}]

(* Slots that are neither occupied nor free: retired for good. *)
Lost(a) == Slots \ (Range(a.free) \cup Occupied(a))

(* Every slot is in exactly one place: occupied, once on the free list, or   *)
(* retired after its last generation; so len, which is computed by           *)
(* subtraction, counts the occupied slots and never underflows.              *)
SlotsAccounted ==
    /\ \A i, k \in DOMAIN arena.free : arena.free[i] = arena.free[k] => i = k
    /\ Range(arena.free) \cap Occupied(arena) = {}
    /\ \A s \in Lost(arena) : Worn(arena, s)
    /\ arena.retired = Cardinality(Lost(arena))
    /\ ArenaLen(arena) = Cardinality(Occupied(arena))

(* A guard's handle keeps resolving, so that dereferencing it cannot panic   *)
(* (guard.rs expects the slot to stay occupied while the guard lives).       *)
GuardsResolve == \A t \in Threads : ~Guardless(t) => Resolves(arena, guard[t])

(* The slot table keeps the promise of HandleSpace: no handle is ever issued *)
(* twice, a spent handle never resolves, and no slot leaks.                  *)
LiveHandles == {HandleOf(arena, s) : s \in Occupied(arena)}

Space == INSTANCE HandleSpace WITH
    live  <- [h \in LiveHandles |-> arena.value[h.slot]],
    spent <- issued \ LiveHandles,
    held  <- [t \in Threads |-> IF Guardless(t) THEN {} ELSE {guard[t]}]

ImplementsSpace == Space!Spec
=============================================================================
