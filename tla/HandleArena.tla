----------------------------- MODULE HandleArena -----------------------------
(***************************************************************************)
(* The slot table of crates/lumio-kernel/src/handle/arena.rs as operators   *)
(* on a record: the generation and payload of each slot, the free list      *)
(* (its top is the last element) and the number of retired slots.           *)
(***************************************************************************)
EXTENDS Naturals, Sequences, FiniteSets, Functions

CONSTANTS
    Capacity,       \* number of slots
    MaxGeneration,  \* u32::MAX in the code
    Payloads,
    NoPayload,      \* the payload of an empty slot
    Home,           \* the context of the arena
    Elsewhere       \* any other context

ASSUME ArenaAssumption ==
    /\ Capacity \in Nat /\ MaxGeneration \in Nat /\ MaxGeneration # 0
    /\ NoPayload \notin Payloads
    /\ Home # Elsewhere

Slots == 0 .. Capacity - 1

Arenas == [generation : [Slots -> 1 .. MaxGeneration],
           value : [Slots -> Payloads \cup {NoPayload}],
           free : Seq(Slots),
           retired : Nat]

(* Handle::from_key is public, so a caller may present any key.  One slot    *)
(* number and one generation out of range stand for all of them.             *)
Handles == [context : {Home, Elsewhere}, slot : 0 .. Capacity,
            generation : 1 .. MaxGeneration + 1]

NewArena ==
    [generation |-> [s \in Slots |-> 1],
     value |-> [s \in Slots |-> NoPayload],
     free |-> [i \in 1 .. Capacity |-> Capacity - i],
     retired |-> 0]

Occupied(a) == {s \in Slots : a.value[s] # NoPayload}

(* The handle that names slot s at its present generation. *)
HandleOf(a, s) == [context |-> Home, slot |-> s, generation |-> a.generation[s]]

Resolves_IgnoresGeneration(a, h) ==
    /\ h.context = Home
    /\ h.slot \in Slots
    /\ a.value[h.slot] # NoPayload

(* The checks of get and remove, in their order. *)
Resolves(a, h) ==
    /\ h.context = Home
    /\ h.slot \in Slots
    /\ a.value[h.slot] # NoPayload
    /\ a.generation[h.slot] = h.generation

Failure(a, h) ==
    CASE h.context # Home -> "WrongContext"
      [] h.context = Home /\ h.slot \in Slots /\ a.value[h.slot] = NoPayload -> "AlreadyReleased"
      [] OTHER -> "InvalidHandle"

CanInsert(a) == a.free # <<>>

NextSlot(a) == a.free[Len(a.free)]

Inserted(a, v) ==
    [a EXCEPT !.value[NextSlot(a)] = v,
              !.free = SubSeq(a.free, 1, Len(a.free) - 1)]

(* A slot whose generation cannot grow is retired instead of freed. *)
Worn(a, s) == a.generation[s] = MaxGeneration

Removed_Uncounted(a, s) ==
    IF Worn(a, s)
    THEN [a EXCEPT !.value[s] = NoPayload]
    ELSE [a EXCEPT !.value[s] = NoPayload, !.generation[s] = @ + 1, !.free = Append(@, s)]

Removed(a, s) ==
    IF Worn(a, s)
    THEN [a EXCEPT !.value[s] = NoPayload, !.retired = @ + 1]
    ELSE [a EXCEPT !.value[s] = NoPayload, !.generation[s] = @ + 1, !.free = Append(@, s)]

(* The slots of S in ascending order. *)
Ascending(S) ==
    {q \in [1 .. Cardinality(S) -> S] :
        /\ \A i, k \in DOMAIN q : i < k => q[i] < q[k]
        /\ \A s \in S : \E i \in DOMAIN q : q[i] = s}

(* drain_occupied: what remove does, over all occupied slots.  There is      *)
(* exactly one ascending order, so the set has one element.                  *)
Drained(a) ==
    LET worn == {s \in Occupied(a) : Worn(a, s)}
    IN  {[generation |-> [s \in Slots |-> IF s \in Occupied(a) \ worn
                                          THEN a.generation[s] + 1 ELSE a.generation[s]],
          value |-> [s \in Slots |-> NoPayload],
          free |-> a.free \o q,
          retired |-> a.retired + Cardinality(worn)] : q \in Ascending(Occupied(a) \ worn)}

ArenaLen(a) == Capacity - Len(a.free) - a.retired
=============================================================================
