------------------------ MODULE HandleRegistryProofs ------------------------
(***************************************************************************)
(* The safety of HandleRegistry for any capacity, any width of the          *)
(* generation and any set of threads and payloads, and of ContextServices,  *)
(* which keeps definitions in such an arena.                                *)
(***************************************************************************)
EXTENDS HandleRegistry, ContextServices, FiniteSetTheorems, SequenceTheorems, TLAPS

(* The free list names each free slot once, and only empty slots. *)
FreeList(a) ==
    /\ \A i, k \in DOMAIN a.free : a.free[i] = a.free[k] => i = k
    /\ Range(a.free) \cap Occupied(a) = {}

(* Retired slots are worn out, and every slot is counted once. *)
Counted(a) ==
    /\ \A s \in Lost(a) : Worn(a, s)
    /\ a.retired = Cardinality(Lost(a))
    /\ Len(a.free) + Cardinality(Occupied(a)) + a.retired = Capacity

(* The generation of a slot tells which of its handles are in H, those that   *)
(* were issued: all up to it, and the current one unless the slot is free.    *)
Past(a, H) ==
    /\ \A h \in H : /\ h.context = Home /\ h.slot \in Slots
                    /\ h.generation <= a.generation[h.slot]
    /\ \A s \in Slots \ Range(a.free) : HandleOf(a, s) \in H
    /\ \A s \in Range(a.free) : HandleOf(a, s) \notin H

IssuedPast == Past(arena, issued)

IInv ==
    /\ TypeInv
    /\ FreeList(arena) /\ Counted(arena)
    /\ IssuedPast
    /\ GuardsResolve

-----------------------------------------------------------------------------
(* Lemmas about the slot table *)

(* Sets of slots are finite. *)
LEMMA SlotsFinite ==
    ASSUME NEW S \in SUBSET Slots
    PROVE  IsFiniteSet(S) /\ Cardinality(S) \in Nat
<1>1. Capacity - 1 \in Int  BY ArenaAssumption
<1>2. IsFiniteSet(Slots)  BY <1>1, FS_Interval DEF Slots
<1> QED  BY <1>2, FS_Subset, FS_CardinalityType

(* The new arena is well formed. *)
LEMMA NewArenaTyped == NewArena \in Arenas
<1>1. NewArena.free \in Seq(Slots)
  <2>1. NewArena.free \in [1 .. Capacity -> Slots]  BY ArenaAssumption DEF NewArena, Slots
  <2> QED  BY <2>1, ArenaAssumption, SeqDef
<1>2. NewArena.generation \in [Slots -> 1 .. MaxGeneration]  BY ArenaAssumption DEF NewArena
<1> QED  BY <1>1, <1>2 DEF NewArena, Arenas

(* Every slot of the new arena is free. *)
LEMMA NewArenaWellFormed == FreeList(NewArena) /\ Counted(NewArena) /\ Range(NewArena.free) = Slots
<1>1. /\ DOMAIN NewArena.free = 1 .. Capacity
      /\ \A i \in 1 .. Capacity : NewArena.free[i] = Capacity - i
  BY DEF NewArena
<1>2. Range(NewArena.free) = Slots
  <2>1. ASSUME NEW s \in Slots PROVE s \in Range(NewArena.free)
    <3>1. Capacity - s \in 1 .. Capacity /\ Capacity - (Capacity - s) = s
      BY ArenaAssumption DEF Slots
    <3> QED  BY <1>1, <3>1 DEF Range
  <2>2. ASSUME NEW i \in 1 .. Capacity PROVE NewArena.free[i] \in Slots
    BY <1>1, ArenaAssumption DEF Slots
  <2> QED  BY <1>1, <2>1, <2>2 DEF Range
<1>3. Occupied(NewArena) = {}  BY DEF Occupied, NewArena
<1>4. Lost(NewArena) = {}  BY <1>2 DEF Lost
<1>5. Len(NewArena.free) = Capacity
  BY <1>1, NewArenaTyped, LenProperties, ArenaAssumption DEF Arenas
<1>6. FreeList(NewArena)
  BY <1>1, <1>3, ArenaAssumption DEF FreeList
<1>7. NewArena.retired = 0  BY DEF NewArena
<1>8. Counted(NewArena)
  BY <1>3, <1>4, <1>5, <1>7, FS_EmptySet, ArenaAssumption DEF Counted
<1> QED  BY <1>2, <1>6, <1>8

(* What popping the free list and filling the slot does. *)
LEMMA InsertedFacts ==
    ASSUME NEW a \in Arenas, FreeList(a), CanInsert(a), NEW v \in Payloads
    PROVE  LET b == Inserted(a, v)
               s == NextSlot(a)
           IN  /\ b \in Arenas
               /\ s \in Range(a.free) /\ s \in Slots
               /\ b.generation = a.generation /\ b.retired = a.retired
               /\ b.value = [a.value EXCEPT ![s] = v]
               /\ Len(b.free) = Len(a.free) - 1
               /\ Range(b.free) = Range(a.free) \ {s}
               /\ Occupied(b) = Occupied(a) \cup {s}
               /\ Lost(b) = Lost(a)
               /\ FreeList(b)
<1> DEFINE b == Inserted(a, v)
           s == NextSlot(a)
           n == Len(a.free)
<1>1. /\ a.free \in Seq(Slots) /\ n \in Nat /\ n # 0
      /\ DOMAIN a.free = 1 .. n
  BY LenProperties, EmptySeq DEF Arenas, CanInsert
<1>2. s \in Slots /\ s = a.free[n] /\ s \in Range(a.free)
  BY <1>1, ElementOfSeq DEF NextSlot, Range
<1>3. /\ b.free \in Seq(Slots) /\ Len(b.free) = n - 1 /\ DOMAIN b.free = 1 .. n - 1
      /\ \A i \in 1 .. n - 1 : b.free[i] = a.free[i]
  <2>1. b.free = SubSeq(a.free, 1, n - 1)  BY DEF Inserted, Arenas
  <2>2. \A i \in 1 .. n - 1 : a.free[i] \in Slots  BY <1>1, ElementOfSeq
  <2>3. /\ SubSeq(a.free, 1, n - 1) \in Seq(Slots)
        /\ Len(SubSeq(a.free, 1, n - 1)) = IF 1 <= n - 1 THEN n - 1 - 1 + 1 ELSE 0
        /\ \A i \in 1 .. n - 1 - 1 + 1 : SubSeq(a.free, 1, n - 1)[i] = a.free[1 + i - 1]
    BY <1>1, <2>2, SubSeqProperties
  <2>4. Len(b.free) = n - 1  BY <1>1, <2>1, <2>3
  <2>5. DOMAIN b.free = 1 .. n - 1  BY <2>1, <2>3, <2>4, LenProperties
  <2> QED  BY <1>1, <2>1, <2>3, <2>4, <2>5
<1>4. /\ b.value = [a.value EXCEPT ![s] = v]
      /\ b.generation = a.generation /\ b.retired = a.retired
  BY DEF Inserted, Arenas
<1>5. b \in Arenas
  BY <1>2, <1>3, <1>4 DEF Inserted, Arenas
<1>6. Range(b.free) = Range(a.free) \ {s}
  <2>1. \A i \in 1 .. n - 1 : a.free[i] # s  BY <1>1, <1>2 DEF FreeList
  <2>2. \A i \in 1 .. n : i = n \/ i \in 1 .. n - 1  BY <1>1
  <2>3. \A i \in 1 .. n - 1 : i \in 1 .. n  BY <1>1
  <2> QED  BY <1>1, <1>2, <1>3, <2>1, <2>2, <2>3 DEF Range
<1>7. Occupied(b) = Occupied(a) \cup {s}
  BY <1>2, <1>4, ArenaAssumption DEF Occupied, Arenas
<1>8. Lost(b) = Lost(a)  BY <1>2, <1>6, <1>7 DEF Lost
<1>9. FreeList(b)
  <2>1. \A i, k \in DOMAIN b.free : b.free[i] = b.free[k] => i = k
    BY <1>1, <1>3 DEF FreeList
  <2> QED  BY <2>1, <1>6, <1>7 DEF FreeList
<1> QED  BY <1>1, <1>2, <1>3, <1>4, <1>5, <1>6, <1>7, <1>8, <1>9

(* Filling a slot keeps the count. *)
LEMMA InsertedCounted ==
    ASSUME NEW a \in Arenas, FreeList(a), Counted(a), CanInsert(a), NEW v \in Payloads
    PROVE  Counted(Inserted(a, v))
<1> DEFINE b == Inserted(a, v)
           s == NextSlot(a)
<1>1. /\ s \in Range(a.free) /\ s \in Slots
      /\ b.generation = a.generation /\ b.retired = a.retired
      /\ Len(b.free) = Len(a.free) - 1
      /\ Occupied(b) = Occupied(a) \cup {s}
      /\ Lost(b) = Lost(a)
  BY InsertedFacts
<1>2. s \notin Occupied(a)  BY <1>1 DEF FreeList
<1>3. IsFiniteSet(Occupied(a)) /\ Cardinality(Occupied(a)) \in Nat  BY SlotsFinite DEF Occupied
<1>4. Cardinality(Occupied(b)) = Cardinality(Occupied(a)) + 1  BY <1>1, <1>2, <1>3, FS_AddElement
<1>5. Len(a.free) \in Nat /\ a.retired \in Nat  BY LenProperties DEF Arenas
<1>6. Len(a.free) + Cardinality(Occupied(a)) + a.retired = Capacity  BY DEF Counted
<1>7. Len(b.free) + Cardinality(Occupied(b)) + b.retired = Capacity
  <2> HIDE DEF b
  <2> QED  BY <1>1, <1>3, <1>4, <1>5, <1>6
<1> QED  BY <1>1, <1>7 DEF Counted, Worn

(* What emptying an occupied slot does. *)
LEMMA RemovedFacts ==
    ASSUME NEW a \in Arenas, FreeList(a), NEW s \in Occupied(a)
    PROVE  LET b == Removed(a, s)
           IN  /\ b \in Arenas
               /\ \A q \in Slots \ {s} : b.generation[q] = a.generation[q] /\ b.value[q] = a.value[q]
               /\ Occupied(b) = Occupied(a) \ {s}
               /\ Worn(a, s) => /\ b.generation = a.generation
                                /\ b.retired = a.retired + 1
                                /\ b.free = a.free
                                /\ Lost(b) = Lost(a) \cup {s}
               /\ ~Worn(a, s) => /\ b.generation[s] = a.generation[s] + 1
                                 /\ b.retired = a.retired
                                 /\ Len(b.free) = Len(a.free) + 1
                                 /\ Range(b.free) = Range(a.free) \cup {s}
                                 /\ Lost(b) = Lost(a)
               /\ FreeList(b)
<1> DEFINE b == Removed(a, s)
           n == Len(a.free)
<1>1. /\ a.free \in Seq(Slots) /\ n \in Nat /\ DOMAIN a.free = 1 .. n
      /\ a.retired \in Nat /\ s \in Slots
      /\ a.generation \in [Slots -> 1 .. MaxGeneration]
      /\ a.value \in [Slots -> Payloads \cup {NoPayload}]
  BY LenProperties DEF Arenas, Occupied
<1>2. b.value = [a.value EXCEPT ![s] = NoPayload]  BY <1>1 DEF Removed, Arenas
<1>3. Occupied(b) = Occupied(a) \ {s}  BY <1>1, <1>2 DEF Occupied
<1>4. s \notin Range(a.free)  BY DEF FreeList
<1>5. CASE Worn(a, s)
  <2>1. b.generation = a.generation /\ b.retired = a.retired + 1 /\ b.free = a.free
    BY <1>5 DEF Removed, Arenas
  <2>2. b \in Arenas
    <3>1. b = [generation |-> a.generation, value |-> [a.value EXCEPT ![s] = NoPayload],
               free |-> a.free, retired |-> a.retired + 1]
      BY <1>5 DEF Removed, Arenas
    <3>2. a.retired + 1 \in Nat  BY <1>1
    <3> QED  BY <1>1, <3>1, <3>2 DEF Arenas
  <2>3. Lost(b) = Lost(a) \cup {s}  BY <1>1, <1>3, <1>4, <2>1 DEF Lost
  <2>4. FreeList(b)  BY <1>3, <2>1 DEF FreeList
  <2> QED  BY <1>1, <1>2, <1>3, <1>5, <2>1, <2>2, <2>3, <2>4
<1>6. CASE ~Worn(a, s)
  <2>1. /\ b.generation = [a.generation EXCEPT ![s] = a.generation[s] + 1]
        /\ b.retired = a.retired /\ b.free = Append(a.free, s)
    BY <1>1, <1>6 DEF Removed, Arenas
  <2>2. /\ b.free \in Seq(Slots) /\ Len(b.free) = n + 1
        /\ \A i \in 1 .. n : b.free[i] = a.free[i]
        /\ b.free[n + 1] = s
    BY <1>1, <2>1, AppendProperties
  <2>3. DOMAIN b.free = 1 .. n + 1  BY <2>2, LenProperties
  <2>4. a.generation[s] + 1 \in 1 .. MaxGeneration
    BY <1>1, <1>6, ArenaAssumption DEF Worn
  <2>5. b \in Arenas  BY <1>1, <1>2, <1>6, <2>1, <2>2, <2>4 DEF Removed, Arenas
  <2>6. Range(b.free) = Range(a.free) \cup {s}
    <3>1. \A i \in 1 .. n + 1 : i = n + 1 \/ i \in 1 .. n  BY <1>1
    <3>2. \A i \in 1 .. n : i \in 1 .. n + 1  BY <1>1
    <3>3. n + 1 \in 1 .. n + 1  BY <1>1
    <3> QED  BY <1>1, <2>2, <2>3, <3>1, <3>2, <3>3 DEF Range
  <2>7. Lost(b) = Lost(a)  BY <1>3, <2>6 DEF Lost, Occupied
  <2>8. FreeList(b)
    <3>1. \A i \in 1 .. n : a.free[i] # s  BY <1>1, <1>4 DEF Range
    <3>2. \A i \in 1 .. n + 1 : i = n + 1 \/ i \in 1 .. n  BY <1>1
    <3>3. \A i, k \in DOMAIN b.free : b.free[i] = b.free[k] => i = k
      BY <1>1, <2>2, <2>3, <3>1, <3>2 DEF FreeList
    <3> QED  BY <1>3, <2>6, <3>3 DEF FreeList
  <2> QED  BY <1>1, <1>2, <1>3, <1>6, <2>1, <2>2, <2>5, <2>6, <2>7, <2>8
<1> QED  BY <1>5, <1>6

(* Emptying a slot keeps the count. *)
LEMMA RemovedCounted ==
    ASSUME NEW a \in Arenas, FreeList(a), Counted(a), NEW s \in Occupied(a)
    PROVE  Counted(Removed(a, s))
<1> DEFINE b == Removed(a, s)
<1>1. /\ b \in Arenas
      /\ \A q \in Slots \ {s} : b.generation[q] = a.generation[q]
      /\ Occupied(b) = Occupied(a) \ {s}
      /\ Worn(a, s) => /\ b.generation = a.generation
                       /\ b.retired = a.retired + 1
                       /\ b.free = a.free
                       /\ Lost(b) = Lost(a) \cup {s}
      /\ ~Worn(a, s) => /\ b.retired = a.retired
                        /\ Len(b.free) = Len(a.free) + 1
                        /\ Lost(b) = Lost(a)
  BY RemovedFacts
<1>2. /\ IsFiniteSet(Occupied(a)) /\ Cardinality(Occupied(a)) \in Nat
      /\ IsFiniteSet(Lost(a)) /\ Cardinality(Lost(a)) \in Nat
      /\ s \notin Lost(a)
  BY SlotsFinite DEF Occupied, Lost
<1>3. Cardinality(Occupied(b)) = Cardinality(Occupied(a)) - 1  BY <1>1, <1>2, FS_RemoveElement
<1>4. Len(a.free) \in Nat /\ a.retired \in Nat  BY LenProperties DEF Arenas
<1>5. Len(b.free) + Cardinality(Occupied(b)) + b.retired = Capacity
  BY <1>1, <1>2, <1>3, <1>4 DEF Counted
<1>6. b.retired = Cardinality(Lost(b))
  BY <1>1, <1>2, FS_AddElement DEF Counted
<1>7. \A q \in Lost(b) : Worn(b, q)
  BY <1>1, <1>2 DEF Counted, Worn, Lost
<1> QED  BY <1>5, <1>6, <1>7 DEF Counted

(* What emptying every occupied slot does. *)
LEMMA DrainedFacts ==
    ASSUME NEW a \in Arenas, FreeList(a), NEW b \in Drained(a)
    PROVE  LET worn == {s \in Occupied(a) : Worn(a, s)}
           IN  /\ b \in Arenas
               /\ \A s \in Slots : b.generation[s] =
                     IF s \in Occupied(a) \ worn THEN a.generation[s] + 1 ELSE a.generation[s]
               /\ b.retired = a.retired + Cardinality(worn)
               /\ Len(b.free) = Len(a.free) + Cardinality(Occupied(a) \ worn)
               /\ Range(b.free) = Range(a.free) \cup (Occupied(a) \ worn)
               /\ Occupied(b) = {}
               /\ Lost(b) = Lost(a) \cup worn
               /\ FreeList(b)
<1> DEFINE worn == {s \in Occupied(a) : Worn(a, s)}
           D == Occupied(a) \ worn
           n == Len(a.free)
           m == Cardinality(D)
<1>0. PICK q \in Ascending(D) :
        b = [generation |-> [s \in Slots |-> IF s \in D THEN a.generation[s] + 1
                                             ELSE a.generation[s]],
             value |-> [s \in Slots |-> NoPayload],
             free |-> a.free \o q,
             retired |-> a.retired + Cardinality(worn)]
  BY DEF Drained
<1>1. /\ a.free \in Seq(Slots) /\ n \in Nat /\ DOMAIN a.free = 1 .. n
      /\ a.retired \in Nat
      /\ a.generation \in [Slots -> 1 .. MaxGeneration]
  BY LenProperties DEF Arenas
<1>2. D \subseteq Slots /\ worn \subseteq Slots  BY DEF Occupied
<1>3. m \in Nat /\ Cardinality(worn) \in Nat  BY <1>2, SlotsFinite
<1>4. /\ q \in [1 .. m -> D]
      /\ \A i, k \in 1 .. m : i < k => q[i] < q[k]
      /\ \A s \in D : \E i \in 1 .. m : q[i] = s
  BY DEF Ascending
<1>5. q \in Seq(Slots) /\ Len(q) = m
  <2>1. q \in [1 .. m -> Slots]  BY <1>2, <1>4
  <2>2. q \in Seq(Slots)  BY <1>3, <2>1, SeqDef
  <2> QED  BY <1>3, <2>1, <2>2, LenProperties
<1>6. b.free = a.free \o q  BY <1>0
<1>7. /\ b.free \in Seq(Slots) /\ Len(b.free) = n + m
      /\ \A i \in 1 .. n + m : b.free[i] = IF i <= n THEN a.free[i] ELSE q[i - n]
      /\ DOMAIN b.free = 1 .. n + m
  <2>1. /\ b.free \in Seq(Slots) /\ Len(b.free) = n + m
        /\ \A i \in 1 .. n + m : b.free[i] = IF i <= n THEN a.free[i] ELSE q[i - n]
    <3>1. /\ a.free \o q \in Seq(Slots) /\ Len(a.free \o q) = n + m
          /\ \A i \in 1 .. n + m : (a.free \o q)[i] = IF i <= n THEN a.free[i] ELSE q[i - n]
      <4> HIDE DEF m
      <4> QED  BY <1>1, <1>5, ConcatProperties
    <3> QED  BY <1>6, <3>1
  <2> QED  BY <2>1, LenProperties
<1>8. Range(b.free) = Range(a.free) \cup D
  <2>1. ASSUME NEW i \in 1 .. n + m PROVE b.free[i] \in Range(a.free) \cup D
    <3>1. CASE i <= n
      <4>1. i \in 1 .. n  BY <1>1, <1>3, <3>1
      <4> QED  BY <1>1, <1>7, <3>1, <4>1 DEF Range
    <3>2. CASE ~(i <= n)
      <4>1. i - n \in 1 .. m  BY <1>1, <1>3, <3>2
      <4> QED  BY <1>4, <1>7, <3>2, <4>1
    <3> QED  BY <3>1, <3>2
  <2>2. ASSUME NEW s \in Range(a.free) PROVE s \in Range(b.free)
    <3>1. PICK i \in 1 .. n : a.free[i] = s  BY <1>1 DEF Range
    <3>2. i \in 1 .. n + m /\ i <= n  BY <1>1, <1>3
    <3> QED  BY <1>7, <3>1, <3>2 DEF Range
  <2>3. ASSUME NEW s \in D PROVE s \in Range(b.free)
    <3>1. PICK i \in 1 .. m : q[i] = s  BY <1>4
    <3>2. n + i \in 1 .. n + m /\ ~(n + i <= n) /\ (n + i) - n = i  BY <1>1, <1>3
    <3> QED  BY <1>7, <3>1, <3>2 DEF Range
  <2> QED  BY <1>7, <2>1, <2>2, <2>3 DEF Range
<1>9. /\ b.generation = [s \in Slots |-> IF s \in D THEN a.generation[s] + 1 ELSE a.generation[s]]
      /\ b.value = [s \in Slots |-> NoPayload]
      /\ b.retired = a.retired + Cardinality(worn)
  BY <1>0
<1>10. Occupied(b) = {}  BY <1>9 DEF Occupied
<1>11. b \in Arenas
  <2>1. \A s \in D : a.generation[s] + 1 \in 1 .. MaxGeneration
    BY <1>1, <1>2, ArenaAssumption DEF Worn
  <2>2. b.generation \in [Slots -> 1 .. MaxGeneration]  BY <1>1, <1>9, <2>1
  <2>3. b.retired \in Nat  BY <1>1, <1>3, <1>9
  <2> HIDE DEF D, worn
  <2> QED  BY <1>0, <1>7, <1>9, <2>2, <2>3 DEF Arenas
<1>12. Lost(b) = Lost(a) \cup worn
  BY <1>8, <1>10, <1>2 DEF Lost, FreeList
<1>13. FreeList(b)
  <2>1. ASSUME NEW i \in 1 .. n + m, NEW k \in 1 .. n + m, b.free[i] = b.free[k], i < k
        PROVE  FALSE
    <3>1. CASE k <= n
      <4>1. i \in 1 .. n /\ k \in 1 .. n /\ i # k /\ i <= n  BY <1>1, <1>3, <2>1, <3>1
      <4> QED  BY <1>1, <1>7, <2>1, <3>1, <4>1 DEF FreeList
    <3>2. CASE i <= n /\ ~(k <= n)
      <4>1. i \in 1 .. n /\ k - n \in 1 .. m  BY <1>1, <1>3, <3>2
      <4>2. a.free[i] \in Range(a.free) /\ q[k - n] \in Occupied(a)
        BY <1>1, <1>4, <4>1 DEF Range
      <4> QED  BY <1>7, <2>1, <3>2, <4>2 DEF FreeList
    <3>3. CASE ~(i <= n)
      <4>1. i - n \in 1 .. m /\ k - n \in 1 .. m /\ i - n < k - n /\ ~(k <= n)
        BY <1>1, <1>3, <2>1, <3>3
      <4>2. q[i - n] < q[k - n] /\ q[i - n] \in Slots /\ q[k - n] \in Slots
        BY <1>2, <1>4, <4>1
      <4>3. b.free[i] = q[i - n] /\ b.free[k] = q[k - n]
        <5>1. ~(i <= n) /\ ~(k <= n)  BY <3>3, <4>1
        <5> QED  BY <1>7, <5>1
      <4>4. q[i - n] = q[k - n]  BY <2>1, <4>3
      <4> QED  BY <4>2, <4>4, ArenaAssumption DEF Slots
    <3> QED  BY <1>1, <1>3, <2>1, <3>1, <3>2, <3>3
  <2>2. \A i, k \in DOMAIN b.free : b.free[i] = b.free[k] => i = k
    <3>1. SUFFICES ASSUME NEW i \in 1 .. n + m, NEW k \in 1 .. n + m, b.free[i] = b.free[k]
                   PROVE  i = k
      BY <1>7
    <3>2. i \in Int /\ k \in Int  BY <1>1, <1>3
    <3>3. ~(i < k) /\ ~(k < i)  BY <2>1, <3>1
    <3> QED  BY <3>2, <3>3
  <2> QED  BY <1>10, <2>2 DEF FreeList
<1> QED  BY <1>7, <1>8, <1>9, <1>10, <1>11, <1>12, <1>13

(* Emptying every slot keeps the count. *)
LEMMA DrainedCounted ==
    ASSUME NEW a \in Arenas, FreeList(a), Counted(a), NEW b \in Drained(a)
    PROVE  Counted(b)
<1> DEFINE worn == {s \in Occupied(a) : Worn(a, s)}
           D == Occupied(a) \ worn
<1>1. /\ \A s \in Slots : b.generation[s] =
            IF s \in D THEN a.generation[s] + 1 ELSE a.generation[s]
      /\ b.retired = a.retired + Cardinality(worn)
      /\ Len(b.free) = Len(a.free) + Cardinality(D)
      /\ Occupied(b) = {}
      /\ Lost(b) = Lost(a) \cup worn
  BY DrainedFacts
<1>2. /\ IsFiniteSet(D) /\ Cardinality(D) \in Nat
      /\ IsFiniteSet(worn) /\ Cardinality(worn) \in Nat
      /\ IsFiniteSet(Lost(a)) /\ Cardinality(Lost(a)) \in Nat
  <2>1. D \subseteq Slots /\ worn \subseteq Slots /\ Lost(a) \subseteq Slots
    BY DEF Occupied, Lost
  <2> QED  BY <2>1, SlotsFinite
<1>3. Lost(a) \cap worn = {} /\ D \cap worn = {} /\ D \cup worn = Occupied(a)
  BY DEF Lost
<1>4. Cardinality(Occupied(a)) = Cardinality(D) + Cardinality(worn)
  BY <1>2, <1>3, FS_Union, FS_EmptySet
<1>5. Cardinality(Lost(b)) = Cardinality(Lost(a)) + Cardinality(worn)
  <2>1. Cardinality(Lost(a) \cup worn) =
          Cardinality(Lost(a)) + Cardinality(worn) - Cardinality(Lost(a) \cap worn)
    BY <1>2, FS_Union
  <2>2. Cardinality(Lost(a) \cap worn) = 0  BY <1>3, FS_EmptySet
  <2> HIDE DEF worn
  <2> QED  BY <1>1, <1>2, <2>1, <2>2
<1>6. Len(a.free) \in Nat /\ a.retired \in Nat  BY LenProperties DEF Arenas
<1>7. /\ Len(a.free) + Cardinality(Occupied(a)) + a.retired = Capacity
      /\ a.retired = Cardinality(Lost(a))
      /\ \A s \in Lost(a) : Worn(a, s)
  BY DEF Counted
<1>8. Len(b.free) + Cardinality(Occupied(b)) + b.retired = Capacity
  <2>1. Cardinality(Occupied(b)) = 0  BY <1>1, FS_EmptySet
  <2> QED  BY <1>1, <1>2, <1>4, <1>6, <1>7, <2>1
<1>9. b.retired = Cardinality(Lost(b))  BY <1>1, <1>2, <1>5, <1>6, <1>7
<1>10. \A s \in Lost(b) : Worn(b, s)
  BY <1>1, <1>7 DEF Worn, Lost
<1> QED  BY <1>8, <1>9, <1>10 DEF Counted

(* The current handle of a slot is one a caller may present. *)
LEMMA HandleTyped ==
    ASSUME NEW a \in Arenas, NEW s \in Slots
    PROVE  /\ HandleOf(a, s) \in Handles
           /\ HandleOf(a, s).context = Home /\ HandleOf(a, s).slot = s
           /\ HandleOf(a, s).generation = a.generation[s]
<1>1. a.generation[s] \in 1 .. MaxGeneration + 1 /\ s \in 0 .. Capacity
  BY ArenaAssumption DEF Arenas, Slots
<1> QED  BY <1>1 DEF HandleOf, Handles

(* A handle that resolves is the current handle of its slot. *)
LEMMA ResolvedIsCurrent ==
    ASSUME NEW a \in Arenas, NEW h \in Handles, Resolves(a, h)
    PROVE  h.slot \in Occupied(a) /\ h = HandleOf(a, h.slot)
BY DEF Resolves, Occupied, HandleOf, Handles

(* What each update does to the handles that were issued. *)
LEMMA PastInserted ==
    ASSUME NEW a \in Arenas, FreeList(a), CanInsert(a), NEW v \in Payloads,
           NEW H \in SUBSET Handles, Past(a, H)
    PROVE  Past(Inserted(a, v), H \cup {HandleOf(a, NextSlot(a))})
<1> DEFINE s == NextSlot(a)
           h == HandleOf(a, s)
           b == Inserted(a, v)
<1>1. /\ b \in Arenas
      /\ s \in Range(a.free) /\ s \in Slots
      /\ b.generation = a.generation
      /\ Range(b.free) = Range(a.free) \ {s}
  BY InsertedFacts
<1> HIDE DEF b, s
<1>2. \A q \in Slots : HandleOf(b, q) = HandleOf(a, q)
  BY <1>1 DEF HandleOf
<1>3. h.context = Home /\ h.slot = s /\ h.generation = a.generation[s]
  BY <1>1, HandleTyped
<1>4. a.generation[s] \in Nat  BY <1>1 DEF Arenas
<1>5. \A k \in H \cup {h} : /\ k.context = Home /\ k.slot \in Slots
                            /\ k.generation <= b.generation[k.slot]
  BY <1>1, <1>3, <1>4 DEF Past
<1>6. \A q \in Slots \ Range(b.free) : HandleOf(b, q) \in H \cup {h}
  BY <1>1, <1>2 DEF Past
<1>7. ASSUME NEW q \in Range(b.free) PROVE HandleOf(b, q) \notin H \cup {h}
  <2>1. q \in Range(a.free) /\ q # s  BY <1>1
  <2>2. q \in Slots  BY <2>1, LenProperties, ElementOfSeq DEF Arenas, Range
  <2>3. HandleOf(a, q) # h  BY <1>3, <2>1, <2>2, HandleTyped
  <2> QED  BY <1>2, <2>1, <2>2, <2>3 DEF Past
<1>8. Past(b, H \cup {h})  BY <1>5, <1>6, <1>7 DEF Past
<1> QED  BY <1>8 DEF b, s

LEMMA PastRemoved ==
    ASSUME NEW a \in Arenas, FreeList(a), NEW s \in Occupied(a),
           NEW H \in SUBSET Handles, Past(a, H)
    PROVE  Past(Removed(a, s), H)
<1> DEFINE b == Removed(a, s)
<1>1. /\ b \in Arenas /\ s \in Slots
      /\ \A q \in Slots \ {s} : b.generation[q] = a.generation[q]
      /\ Worn(a, s) => b.generation = a.generation /\ b.free = a.free
      /\ ~Worn(a, s) => /\ b.generation[s] = a.generation[s] + 1
                        /\ Range(b.free) = Range(a.free) \cup {s}
  BY RemovedFacts DEF Occupied
<1> HIDE DEF b
<1>2. \A q \in Slots : a.generation[q] \in Nat  BY DEF Arenas
<1>3. CASE Worn(a, s)
  <2>1. \A q : HandleOf(b, q) = HandleOf(a, q)  BY <1>1, <1>3 DEF HandleOf
  <2> QED  BY <1>1, <1>3, <2>1 DEF Past, b
<1>4. CASE ~Worn(a, s)
  <2>1. \A q \in Slots \ {s} : HandleOf(b, q) = HandleOf(a, q)
    BY <1>1 DEF HandleOf
  <2>2. ASSUME NEW k \in H
        PROVE  /\ k.context = Home /\ k.slot \in Slots
               /\ k.generation <= b.generation[k.slot]
    <3>1. /\ k.context = Home /\ k.slot \in Slots
          /\ k.generation <= a.generation[k.slot]
      BY DEF Past
    <3>2. k.generation \in Nat  BY ArenaAssumption DEF Handles
    <3>3. CASE k.slot = s
      BY <1>1, <1>2, <1>4, <3>1, <3>2, <3>3
    <3>4. CASE k.slot # s  BY <1>1, <3>1, <3>4
    <3> QED  BY <3>1, <3>3, <3>4
  <2>3. \A q \in Slots \ Range(b.free) : HandleOf(b, q) \in H
    BY <1>1, <1>4, <2>1 DEF Past
  <2>4. ASSUME NEW q \in Range(b.free) PROVE HandleOf(b, q) \notin H
    <3>1. q \in Slots  BY <1>1, LenProperties, ElementOfSeq DEF Arenas, Range
    <3>2. CASE q = s
      <4>1. HandleOf(b, s).generation = a.generation[s] + 1 /\ HandleOf(b, s).slot = s
        BY <1>1, <1>4 DEF HandleOf
      <4>2. \A k \in H : k.slot = s => k.generation <= a.generation[s]  BY DEF Past
      <4> QED  BY <1>1, <1>2, <3>2, <4>1, <4>2
    <3>3. CASE q # s
      BY <1>1, <1>4, <2>1, <3>1, <3>3 DEF Past
    <3> QED  BY <3>2, <3>3
  <2> QED  BY <2>2, <2>3, <2>4 DEF Past, b
<1> QED  BY <1>3, <1>4

LEMMA PastDrained ==
    ASSUME NEW a \in Arenas, FreeList(a), NEW b \in Drained(a),
           NEW H \in SUBSET Handles, Past(a, H)
    PROVE  Past(b, H)
<1> DEFINE worn == {s \in Occupied(a) : Worn(a, s)}
           D == Occupied(a) \ worn
<1>1. /\ b \in Arenas
      /\ \A s \in Slots : b.generation[s] =
            IF s \in D THEN a.generation[s] + 1 ELSE a.generation[s]
      /\ Range(b.free) = Range(a.free) \cup D
  BY DrainedFacts
<1> HIDE DEF D, worn
<1>2. \A q \in Slots : a.generation[q] \in Nat  BY DEF Arenas
<1>3. ASSUME NEW k \in H
      PROVE  /\ k.context = Home /\ k.slot \in Slots
             /\ k.generation <= b.generation[k.slot]
  <2>1. /\ k.context = Home /\ k.slot \in Slots
        /\ k.generation <= a.generation[k.slot]
    BY DEF Past
  <2>2. k.generation \in Nat  BY ArenaAssumption DEF Handles
  <2> QED  BY <1>1, <1>2, <2>1, <2>2
<1>4. ASSUME NEW q \in Slots \ Range(b.free) PROVE HandleOf(b, q) \in H
  <2>1. q \notin D /\ q \notin Range(a.free)  BY <1>1
  <2>2. HandleOf(b, q) = HandleOf(a, q)  BY <1>1, <2>1 DEF HandleOf
  <2> QED  BY <2>1, <2>2 DEF Past
<1>5. ASSUME NEW q \in Range(b.free) PROVE HandleOf(b, q) \notin H
  <2>1. q \in Slots  BY <1>1, LenProperties, ElementOfSeq DEF Arenas, Range
  <2>2. CASE q \in D
    <3>1. HandleOf(b, q).generation = a.generation[q] + 1 /\ HandleOf(b, q).slot = q
      BY <1>1, <2>1, <2>2 DEF HandleOf
    <3>2. \A k \in H : k.slot = q => k.generation <= a.generation[q]  BY DEF Past
    <3> QED  BY <1>2, <2>1, <3>1, <3>2
  <2>3. CASE q \notin D
    <3>1. HandleOf(b, q) = HandleOf(a, q)  BY <1>1, <2>1, <2>3 DEF HandleOf
    <3> QED  BY <1>1, <2>3, <3>1 DEF Past
  <2> QED  BY <2>2, <2>3
<1> QED  BY <1>3, <1>4, <1>5 DEF Past

-----------------------------------------------------------------------------
(* The inductive invariant *)

Results == {"none", "Ok", "CapacityExceeded", "WrongContext", "InvalidHandle", "AlreadyReleased"}

AnswerType == [handle : {{}} \cup {{h} : h \in Handles}, result : Results,
               payload : Payloads \cup {NoPayload}]

(* Replies are well typed. *)
LEMMA ReplyTyped ==
    ASSUME NEW H \in {{}} \cup {{h} : h \in Handles}, NEW r \in Results,
           NEW v \in Payloads \cup {NoPayload}, Reply(H, r, v)
    PROVE  answer' \in AnswerType
BY DEF Reply, AnswerType

LEMMA InitInv == Init => IInv
<1> SUFFICES ASSUME Init PROVE IInv  OBVIOUS
<1>1. arena \in Arenas  BY NewArenaTyped DEF Init
<1>2. FreeList(arena) /\ Counted(arena) /\ Range(arena.free) = Slots
  BY NewArenaWellFormed DEF Init
<1>3. TypeInv  BY <1>1 DEF TypeInv, Init
<1>4. IssuedPast  BY <1>2 DEF IssuedPast, Past, Init
<1>5. GuardsResolve  BY DEF GuardsResolve, Guardless, Init
<1> QED  BY <1>2, <1>3, <1>4, <1>5 DEF IInv

LEMMA InsertInv ==
    ASSUME IInv, NEW v \in Payloads, Insert(v)
    PROVE  IInv'
<1> DEFINE s == NextSlot(arena)
           h == HandleOf(arena, s)
<1>0. arena \in Arenas /\ FreeList(arena) /\ Counted(arena) /\ CanInsert(arena)
  BY DEF IInv, TypeInv, Insert
<1>1. arena' = Inserted(arena, v) /\ issued' = issued \cup {h} /\ guard' = guard
  BY DEF Insert
<1>2. /\ arena' \in Arenas
      /\ s \in Range(arena.free) /\ s \in Slots
      /\ arena'.generation = arena.generation
      /\ Range(arena'.free) = Range(arena.free) \ {s}
      /\ FreeList(arena')
  BY <1>0, <1>1, InsertedFacts
<1>3. Counted(arena')  BY <1>0, <1>1, InsertedCounted
<1>4. h \in Handles  BY <1>0, <1>2, HandleTyped
<1>5. answer' \in AnswerType
  BY <1>4, ReplyTyped DEF Insert, Results
<1>6. TypeInv'
  BY <1>1, <1>2, <1>4, <1>5 DEF IInv, TypeInv, AnswerType, Results
<1>7. IssuedPast'
  BY <1>0, <1>1, PastInserted DEF IInv, TypeInv, IssuedPast
<1>8. GuardsResolve'
  BY <1>1 DEF Insert, WriteLockFree, GuardsResolve, Guardless
<1> QED  BY <1>2, <1>3, <1>6, <1>7, <1>8 DEF IInv

LEMMA RemoveInv ==
    ASSUME IInv, NEW h \in Handles, Remove(h)
    PROVE  IInv'
<1> DEFINE s == h.slot
<1>0. arena \in Arenas /\ FreeList(arena) /\ Counted(arena)
  BY DEF IInv, TypeInv
<1>1. arena' = Removed(arena, s) /\ issued' = issued /\ guard' = guard
  BY DEF Remove
<1>2. s \in Occupied(arena) /\ s \in Slots /\ h = HandleOf(arena, s)
  BY <1>0, ResolvedIsCurrent DEF Remove, Occupied
<1>3. /\ arena' \in Arenas
      /\ \A q \in Slots \ {s} : arena'.generation[q] = arena.generation[q]
      /\ Worn(arena, s) => arena'.generation = arena.generation /\ arena'.free = arena.free
      /\ ~Worn(arena, s) => /\ arena'.generation[s] = arena.generation[s] + 1
                            /\ Range(arena'.free) = Range(arena.free) \cup {s}
      /\ FreeList(arena')
  BY <1>0, <1>1, <1>2, RemovedFacts
<1>4. Counted(arena')  BY <1>0, <1>1, <1>2, RemovedCounted
<1>5. answer' \in AnswerType
  <2>1. arena.value[s] \in Payloads \cup {NoPayload}  BY <1>0, <1>2 DEF Arenas
  <2> QED  BY <2>1, ReplyTyped DEF Remove, Results
<1>6. TypeInv'
  BY <1>1, <1>3, <1>5 DEF IInv, TypeInv, AnswerType, Results
<1>7. IssuedPast'
  BY <1>0, <1>1, <1>2, PastRemoved DEF IInv, TypeInv, IssuedPast
<1>8. GuardsResolve'
  BY <1>1 DEF Remove, WriteLockFree, GuardsResolve, Guardless
<1> QED  BY <1>3, <1>4, <1>6, <1>7, <1>8 DEF IInv

LEMMA RetireAllInv ==
    ASSUME IInv, RetireAll
    PROVE  IInv'
<1> DEFINE worn == {s \in Occupied(arena) : Worn(arena, s)}
           D == Occupied(arena) \ worn
<1>0. arena \in Arenas /\ FreeList(arena) /\ Counted(arena)
  BY DEF IInv, TypeInv
<1>1. arena' \in Drained(arena) /\ issued' = issued /\ guard' = guard
  BY DEF RetireAll
<1>2. /\ arena' \in Arenas
      /\ \A s \in Slots : arena'.generation[s] =
            IF s \in D THEN arena.generation[s] + 1 ELSE arena.generation[s]
      /\ Range(arena'.free) = Range(arena.free) \cup D
      /\ FreeList(arena')
  BY <1>0, <1>1, DrainedFacts
<1>3. Counted(arena')  BY <1>0, <1>1, DrainedCounted
<1>4. answer' \in AnswerType  BY ReplyTyped DEF RetireAll, Results
<1>5. TypeInv'
  BY <1>1, <1>2, <1>4 DEF IInv, TypeInv, AnswerType, Results
<1>6. IssuedPast'
  BY <1>0, <1>1, PastDrained DEF IInv, TypeInv, IssuedPast
<1>7. GuardsResolve'
  BY <1>1 DEF RetireAll, WriteLockFree, GuardsResolve, Guardless
<1> QED  BY <1>2, <1>3, <1>5, <1>6, <1>7 DEF IInv

(* Operations that leave the arena and the issued handles alone. *)
LEMMA ReadInv ==
    ASSUME IInv, UNCHANGED <<arena, issued>>, answer' \in AnswerType,
           guard' \in [Threads -> Handles \cup {NoHandle}],
           \A t \in Threads : guard'[t] # NoHandle => Resolves(arena, guard'[t])
    PROVE  IInv'
<1>1. TypeInv'  BY DEF IInv, TypeInv, AnswerType, Results
<1>2. GuardsResolve'  BY DEF GuardsResolve, Guardless
<1> QED  BY <1>1, <1>2 DEF IInv, FreeList, Counted, IssuedPast, Past, Occupied, Lost, Worn, HandleOf

(* Every step preserves the invariant. *)
LEMMA NextInv == IInv /\ [Next]_vars => IInv'
<1> SUFFICES ASSUME IInv, [Next]_vars PROVE IInv'  OBVIOUS
<1>0. /\ answer \in AnswerType /\ arena \in Arenas
      /\ guard \in [Threads -> Handles \cup {NoHandle}]
      /\ \A t \in Threads : guard[t] # NoHandle => Resolves(arena, guard[t])
  BY DEF IInv, TypeInv, AnswerType, Results, GuardsResolve, Guardless
<1>1. ASSUME NEW v \in Payloads, Insert(v) PROVE IInv'  BY <1>1, InsertInv
<1>2. ASSUME NEW v \in Payloads, InsertFull(v) PROVE IInv'
  <2>1. answer' \in AnswerType  BY <1>2, ReplyTyped DEF InsertFull, Results
  <2> QED  BY <1>0, <1>2, <2>1, ReadInv DEF InsertFull
<1>3. ASSUME NEW h \in Handles, Remove(h) PROVE IInv'  BY <1>3, RemoveInv
<1>4. ASSUME NEW h \in Handles, NEW t \in Threads, Borrow(t, h) PROVE IInv'
  <2>1. arena.value[h.slot] \in Payloads \cup {NoPayload}
    BY <1>0, <1>4 DEF Borrow, Resolves, Arenas
  <2>2. answer' \in AnswerType  BY <1>4, <2>1, ReplyTyped DEF Borrow, Results
  <2>3. /\ guard' \in [Threads -> Handles \cup {NoHandle}]
        /\ \A u \in Threads : guard'[u] # NoHandle => Resolves(arena, guard'[u])
    BY <1>0, <1>4 DEF Borrow
  <2> QED  BY <1>4, <2>2, <2>3, ReadInv DEF Borrow
<1>5. ASSUME NEW h \in Handles, NEW t \in Threads, LookupFails(t, h) PROVE IInv'
  <2>1. Failure(arena, h) \in Results  BY DEF Failure, Results
  <2>2. answer' \in AnswerType  BY <1>5, <2>1, ReplyTyped DEF LookupFails
  <2> QED  BY <1>0, <1>5, <2>2, ReadInv DEF LookupFails
<1>6. ASSUME NEW t \in Threads, DropGuard(t) PROVE IInv'
  <2>1. /\ guard' \in [Threads -> Handles \cup {NoHandle}]
        /\ \A u \in Threads : guard'[u] # NoHandle => Resolves(arena, guard'[u])
    BY <1>0, <1>6 DEF DropGuard
  <2> QED  BY <1>0, <1>6, <2>1, ReadInv DEF DropGuard
<1>7. CASE RetireAll  BY <1>7, RetireAllInv
<1>8. CASE UNCHANGED vars  BY <1>0, <1>8, ReadInv DEF vars
<1> QED  BY <1>1, <1>2, <1>3, <1>4, <1>5, <1>6, <1>7, <1>8 DEF Next

(* IInv is an invariant of every behaviour. *)
THEOREM Inductive == Spec => []IInv
BY InitInv, NextInv, PTL DEF Spec

-----------------------------------------------------------------------------
(* Safety *)

(* The registry keeps its types. *)
THEOREM TypesHold == Spec => []TypeInv
<1>1. IInv => TypeInv  BY DEF IInv
<1> QED  BY <1>1, Inductive, PTL

(* Every slot is occupied, free once or retired, and len counts right. *)
THEOREM SlotsAccountedHolds == Spec => []SlotsAccounted
<1>1. IInv => SlotsAccounted
  <2> SUFFICES ASSUME IInv PROVE SlotsAccounted  OBVIOUS
  <2>1. /\ arena \in Arenas /\ FreeList(arena) /\ Counted(arena)
    BY DEF IInv, TypeInv
  <2>2. Len(arena.free) \in Nat /\ arena.retired \in Nat /\ Cardinality(Occupied(arena)) \in Nat
    BY <2>1, LenProperties, SlotsFinite DEF Arenas, Occupied
  <2>3. Len(arena.free) + Cardinality(Occupied(arena)) + arena.retired = Capacity
    BY <2>1 DEF Counted
  <2>4. ArenaLen(arena) = Cardinality(Occupied(arena))
    BY <2>2, <2>3 DEF ArenaLen
  <2> QED  BY <2>1, <2>4 DEF SlotsAccounted, FreeList, Counted
<1> QED  BY <1>1, Inductive, PTL

(* A guard's payload stays in its slot while the guard lives. *)
THEOREM GuardsHold == Spec => []GuardsResolve
<1>1. IInv => GuardsResolve  BY DEF IInv
<1> QED  BY <1>1, Inductive, PTL

-----------------------------------------------------------------------------
(* Refinement *)

LiveMap == [h \in LiveHandles |-> arena.value[h.slot]]
SpentMap == issued \ LiveHandles
HeldMap == [t \in Threads |-> IF Guardless(t) THEN {} ELSE {guard[t]}]

(* The handles in use are those of the occupied slots, and were issued. *)
LEMMA LiveFacts ==
    ASSUME IInv
    PROVE  /\ LiveHandles \subseteq issued
           /\ LiveHandles \subseteq Handles
           /\ \A h \in LiveHandles : h.slot \in Occupied(arena) /\ h = HandleOf(arena, h.slot)
           /\ \A h \in Handles : Resolves(arena, h) <=> h \in LiveHandles
           /\ \A s \in Occupied(arena) : HandleOf(arena, s) \in LiveHandles
<1>0. arena \in Arenas /\ FreeList(arena)  BY DEF IInv, TypeInv
<1>1. \A s \in Occupied(arena) : s \in Slots /\ s \notin Range(arena.free)
  BY <1>0 DEF FreeList, Occupied
<1>2. LiveHandles \subseteq issued  BY <1>1 DEF LiveHandles, IInv, IssuedPast, Past, Past
<1>3. \A s \in Occupied(arena) :
         HandleOf(arena, s) \in Handles /\ HandleOf(arena, s).slot = s
  BY <1>0, <1>1, HandleTyped
<1>4. \A h \in LiveHandles : h \in Handles /\ h.slot \in Occupied(arena)
                            /\ h = HandleOf(arena, h.slot)
  BY <1>3 DEF LiveHandles
<1>5. ASSUME NEW h \in Handles, Resolves(arena, h) PROVE h \in LiveHandles
  BY <1>0, <1>5, ResolvedIsCurrent DEF LiveHandles
<1>6. ASSUME NEW h \in LiveHandles PROVE Resolves(arena, h)
  <2>1. h.slot \in Occupied(arena) /\ h = HandleOf(arena, h.slot)  BY <1>4
  <2>2. /\ HandleOf(arena, h.slot).context = Home
        /\ HandleOf(arena, h.slot).generation = arena.generation[h.slot]
    BY DEF HandleOf
  <2>3. h.context = Home /\ h.generation = arena.generation[h.slot]  BY <2>1, <2>2
  <2> QED  BY <2>1, <2>3 DEF Resolves, Occupied
<1> QED  BY <1>2, <1>4, <1>5, <1>6 DEF LiveHandles

LEMMA InitRefines == Init => Space!Init
<1> SUFFICES ASSUME Init PROVE Space!Init  OBVIOUS
<1>1. LiveHandles = {}  BY DEF Init, NewArena, LiveHandles, Occupied
<1>2. LiveMap = [h \in {} |-> NoPayload]  BY <1>1 DEF LiveMap
<1>3. SpentMap = {}  BY DEF Init, SpentMap
<1>4. HeldMap = [t \in Threads |-> {}]  BY DEF Init, HeldMap, Guardless
<1> QED  BY <1>2, <1>3, <1>4 DEF Space!Init, Init, LiveMap, SpentMap, HeldMap

LEMMA InsertRefines ==
    ASSUME IInv, NEW v \in Payloads, Insert(v)
    PROVE  Space!Insert(v)
<1> DEFINE s == NextSlot(arena)
           h == HandleOf(arena, s)
<1>0. arena \in Arenas /\ FreeList(arena) /\ CanInsert(arena)
  BY DEF IInv, TypeInv, Insert
<1>1. arena' = Inserted(arena, v) /\ issued' = issued \cup {h} /\ guard' = guard
  BY DEF Insert
<1>2. /\ s \in Range(arena.free) /\ s \in Slots
      /\ arena'.generation = arena.generation
      /\ arena'.value = [arena.value EXCEPT ![s] = v]
      /\ Occupied(arena') = Occupied(arena) \cup {s}
  BY <1>0, <1>1, InsertedFacts
<1>3. h \notin issued  BY <1>2 DEF IInv, IssuedPast, Past
<1>4. h \notin LiveHandles  BY <1>3, LiveFacts
<1>5. h.slot = s /\ h.context = Home /\ h.generation = arena.generation[s]
  BY <1>0, <1>2, HandleTyped
<1>6. h \in Space!Issuable
  BY <1>0, <1>2, <1>5 DEF Space!Issuable, HandleOf, Arenas
<1>7. LiveHandles' = LiveHandles \cup {h}
  BY <1>2 DEF LiveHandles, HandleOf
<1>8. ASSUME NEW k \in LiveHandles PROVE arena'.value[k.slot] = arena.value[k.slot]
  <2>1. k.slot \in Occupied(arena) /\ k.slot \in Slots  BY LiveFacts DEF Occupied
  <2>2. k.slot # s  BY <1>0, <1>2, <2>1 DEF FreeList
  <2> QED  BY <1>0, <1>2, <2>1, <2>2 DEF Arenas
<1>9. arena'.value[h.slot] = v  BY <1>0, <1>2, <1>5 DEF Arenas
<1>10. DOMAIN LiveMap = LiveHandles  BY DEF LiveMap
<1>11. LiveMap' = [k \in DOMAIN LiveMap \cup {h} |-> IF k = h THEN v ELSE LiveMap[k]]
  <2> HIDE DEF h
  <2> QED  BY <1>4, <1>7, <1>8, <1>9 DEF LiveMap
<1>12. SpentMap' = SpentMap
  <2> HIDE DEF h
  <2> QED  BY <1>1, <1>3, <1>7 DEF SpentMap
<1>13. HeldMap' = HeldMap  BY <1>1 DEF HeldMap, Guardless
<1>14. h \in Space!Issuable \ (DOMAIN LiveMap \cup SpentMap)
  BY <1>3, <1>4, <1>6, <1>10 DEF SpentMap
<1>15. Space!Reply({h}, "Ok", v)  BY DEF Insert, Reply, Space!Reply
<1> HIDE DEF h
<1> QED  BY <1>11, <1>12, <1>13, <1>14, <1>15 DEF Space!Insert, LiveMap, SpentMap, HeldMap

LEMMA InsertFullRefines ==
    ASSUME IInv, NEW v \in Payloads, InsertFull(v)
    PROVE  Space!Refuse(v)
<1>0. arena \in Arenas /\ Counted(arena) /\ arena.free = <<>>
  BY DEF IInv, TypeInv, InsertFull, CanInsert
<1>1. Range(arena.free) = {}  BY <1>0 DEF Range
<1>2. ASSUME NEW s \in Slots PROVE Space!Unavailable(s)
  <2>1. HandleOf(arena, s).slot = s /\ HandleOf(arena, s).generation = arena.generation[s]
    BY DEF HandleOf
  <2>2. CASE s \in Occupied(arena)
    <3>1. HandleOf(arena, s) \in LiveHandles  BY <2>2, LiveFacts
    <3> QED  BY <2>1, <3>1 DEF Space!Unavailable
  <2>3. CASE s \notin Occupied(arena)
    <3>1. s \in Lost(arena)  BY <1>1, <2>3 DEF Lost
    <3>2. arena.generation[s] = MaxGeneration  BY <1>0, <3>1 DEF Counted, Worn
    <3>3. HandleOf(arena, s) \in issued  BY <1>1 DEF IInv, IssuedPast, Past
    <3>4. HandleOf(arena, s) \notin LiveHandles  BY <2>1, <2>3, LiveFacts
    <3> QED  BY <2>1, <3>2, <3>3, <3>4 DEF Space!Unavailable
  <2> QED  BY <2>2, <2>3
<1>3. Space!Reply({}, "CapacityExceeded", v)  BY DEF InsertFull, Reply, Space!Reply
<1>4. LiveMap' = LiveMap /\ SpentMap' = SpentMap /\ HeldMap' = HeldMap
  BY DEF InsertFull, LiveMap, SpentMap, HeldMap, LiveHandles, Occupied, HandleOf, Guardless
<1> QED  BY <1>2, <1>3, <1>4 DEF Space!Refuse, LiveMap, SpentMap, HeldMap

LEMMA LookupFailsRefines ==
    ASSUME IInv, NEW h \in Handles, NEW t \in Threads, LookupFails(t, h)
    PROVE  Space!Fail(h)
<1>1. h \notin LiveHandles  BY LiveFacts DEF LookupFails
<1>2. /\ Failure(arena, h) \in Space!Failures
      /\ Failure(arena, h) = "WrongContext" <=> h.context # Home
  BY DEF Failure, Space!Failures
<1>3. Space!Reply({h}, Failure(arena, h), NoPayload)  BY DEF LookupFails, Reply, Space!Reply
<1>4. LiveMap' = LiveMap /\ SpentMap' = SpentMap /\ HeldMap' = HeldMap
  BY DEF LookupFails, LiveMap, SpentMap, HeldMap, LiveHandles, Occupied, HandleOf, Guardless
<1> QED  BY <1>1, <1>2, <1>3, <1>4 DEF Space!Fail, LiveMap, SpentMap, HeldMap

LEMMA BorrowRefines ==
    ASSUME IInv, NEW h \in Handles, NEW t \in Threads, Borrow(t, h)
    PROVE  Space!Borrow(t, h)
<1>1. h \in LiveHandles  BY LiveFacts DEF Borrow
<1>2. LiveMap[h] = arena.value[h.slot]  BY <1>1 DEF LiveMap
<1>3. Space!Reply({h}, "Ok", LiveMap[h])  BY <1>2 DEF Borrow, Reply, Space!Reply
<1>4. LiveMap' = LiveMap /\ SpentMap' = SpentMap
  BY DEF Borrow, LiveMap, SpentMap, LiveHandles, Occupied, HandleOf
<1>5. h # NoHandle  BY NoHandleAssumption
<1>6. HeldMap' = [HeldMap EXCEPT ![t] = {h}]
  BY <1>5 DEF Borrow, HeldMap, Guardless, IInv, TypeInv
<1> QED  BY <1>1, <1>3, <1>4, <1>6 DEF Space!Borrow, LiveMap, SpentMap, HeldMap

LEMMA DropGuardRefines ==
    ASSUME IInv, NEW t \in Threads, DropGuard(t)
    PROVE  Space!LetGo(t)
<1>1. LiveMap' = LiveMap /\ SpentMap' = SpentMap /\ answer' = answer
  BY DEF DropGuard, LiveMap, SpentMap, LiveHandles, Occupied, HandleOf
<1>2. HeldMap' = [HeldMap EXCEPT ![t] = {}]
  BY DEF DropGuard, HeldMap, Guardless, IInv, TypeInv
<1> QED  BY <1>1, <1>2 DEF Space!LetGo, LiveMap, SpentMap, HeldMap

LEMMA RemoveRefines ==
    ASSUME IInv, NEW h \in Handles, Remove(h)
    PROVE  Space!Remove(h)
<1>0. arena \in Arenas /\ FreeList(arena)  BY DEF IInv, TypeInv
<1>1. h \in LiveHandles  BY LiveFacts DEF Remove
<1>2. h.slot \in Occupied(arena) /\ h = HandleOf(arena, h.slot)  BY <1>1, LiveFacts
<1>3. arena' = Removed(arena, h.slot) /\ issued' = issued /\ guard' = guard
  BY DEF Remove
<1>4. /\ \A q \in Slots \ {h.slot} : /\ arena'.generation[q] = arena.generation[q]
                                     /\ arena'.value[q] = arena.value[q]
      /\ Occupied(arena') = Occupied(arena) \ {h.slot}
  BY <1>0, <1>2, <1>3, RemovedFacts
<1>5. \A q \in Occupied(arena) \ {h.slot} : HandleOf(arena', q) = HandleOf(arena, q)
  BY <1>4 DEF HandleOf, Occupied
<1>6. \A q \in Occupied(arena) : HandleOf(arena, q).slot = q  BY DEF HandleOf
<1>7. LiveHandles' = LiveHandles \ {h}
  <2>1. LiveHandles' = {HandleOf(arena, q) : q \in Occupied(arena) \ {h.slot}}
    BY <1>4, <1>5 DEF LiveHandles
  <2> QED  BY <1>2, <1>6, <2>1 DEF LiveHandles
<1>8. \A k \in LiveHandles \ {h} : k.slot \in Slots \ {h.slot}
  BY <1>2, LiveFacts DEF Occupied
<1>9. LiveMap' = [k \in DOMAIN LiveMap \ {h} |-> LiveMap[k]]
  BY <1>4, <1>7, <1>8 DEF LiveMap
<1>10. SpentMap' = SpentMap \cup {h}
  <2>1. h \in issued  BY <1>1, LiveFacts
  <2> QED  BY <1>3, <1>7, <2>1 DEF SpentMap
<1>11. HeldMap' = HeldMap /\ \A t \in Threads : HeldMap[t] \cap {h} = {}
  BY <1>3 DEF HeldMap, Guardless, Remove, WriteLockFree
<1>12. LiveMap[h] = arena.value[h.slot] /\ h \in DOMAIN LiveMap  BY <1>1 DEF LiveMap
<1>13. Space!Reply({h}, "Ok", LiveMap[h])  BY <1>12 DEF Remove, Reply, Space!Reply
<1> QED
  BY <1>9, <1>10, <1>11, <1>12, <1>13 DEF Space!Remove, Space!Release, LiveMap, SpentMap, HeldMap

LEMMA RetireAllRefines ==
    ASSUME IInv, RetireAll
    PROVE  Space!RetireAll
<1>0. arena \in Arenas /\ FreeList(arena)  BY DEF IInv, TypeInv
<1>1. arena' \in Drained(arena) /\ issued' = issued /\ guard' = guard  BY DEF RetireAll
<1>2. Occupied(arena') = {}  BY <1>0, <1>1, DrainedFacts
<1>3. LiveHandles' = {}  BY <1>2 DEF LiveHandles
<1>4. DOMAIN LiveMap = LiveHandles /\ LiveMap' = [k \in {} |-> LiveMap[k]]
  BY <1>3 DEF LiveMap
<1>5. LiveMap' = [k \in DOMAIN LiveMap \ DOMAIN LiveMap |-> LiveMap[k]]  BY <1>4
<1>6. SpentMap' = SpentMap \cup DOMAIN LiveMap
  BY <1>1, <1>3, <1>4, LiveFacts DEF SpentMap
<1>7. HeldMap' = HeldMap /\ \A t \in Threads : HeldMap[t] \cap DOMAIN LiveMap = {}
  BY <1>1 DEF HeldMap, Guardless, RetireAll, WriteLockFree
<1>8. Space!Reply({}, "Ok", NoPayload)  BY DEF RetireAll, Reply, Space!Reply
<1> QED
  BY <1>5, <1>6, <1>7, <1>8 DEF Space!RetireAll, Space!Release, LiveMap, SpentMap, HeldMap

LEMMA NextRefines == IInv /\ [Next]_vars => [Space!Next]_(Space!spaceVars)
<1> SUFFICES ASSUME IInv, [Next]_vars PROVE [Space!Next]_(Space!spaceVars)  OBVIOUS
<1>1. ASSUME NEW v \in Payloads, Insert(v) PROVE Space!Next
  BY <1>1, InsertRefines DEF Space!Next
<1>2. ASSUME NEW v \in Payloads, InsertFull(v) PROVE Space!Next
  BY <1>2, InsertFullRefines DEF Space!Next
<1>3. ASSUME NEW h \in Handles, Remove(h) PROVE Space!Next
  BY <1>3, RemoveRefines DEF Space!Next
<1>4. ASSUME NEW h \in Handles, NEW t \in Threads, Borrow(t, h) PROVE Space!Next
  BY <1>4, BorrowRefines DEF Space!Next
<1>5. ASSUME NEW h \in Handles, NEW t \in Threads, LookupFails(t, h) PROVE Space!Next
  BY <1>5, LookupFailsRefines DEF Space!Next
<1>6. ASSUME NEW t \in Threads, DropGuard(t) PROVE Space!Next
  BY <1>6, DropGuardRefines DEF Space!Next
<1>7. CASE RetireAll  BY <1>7, RetireAllRefines DEF Space!Next
<1>8. CASE UNCHANGED vars
  BY <1>8 DEF vars, Space!spaceVars, LiveHandles, Occupied, HandleOf, Guardless
<1> QED  BY <1>1, <1>2, <1>3, <1>4, <1>5, <1>6, <1>7, <1>8 DEF Next

(* The slot table behind its lock implements HandleSpace: a handle is issued *)
(* once, a released one never resolves again, and no slot leaks.             *)
THEOREM Refinement == Spec => ImplementsSpace
BY InitRefines, NextRefines, Inductive, PTL DEF Spec, ImplementsSpace, Space!Spec

-----------------------------------------------------------------------------
(***************************************************************************)
(* The other user of an arena: the registry of state-machine definitions,    *)
(* with the codec and the recorder that close beside it (ContextServices).   *)
(* Both put the operators of HandleArena to work, and the lemmas about those   *)
(* serve both.                                                               *)
(***************************************************************************)
-----------------------------------------------------------------------------
(* The invariant of the services *)

(* The resources that count their late effects. *)
Counting == {"hfsm", "codec", "diagnostics"}

Doing(kind) == {t \in Callers : op[t].kind = kind}

(* A handle that can never resolve again. *)
Spent(a, h) ==
    h.slot \in Slots /\ (h.generation < a.generation[h.slot] \/ h.slot \in Lost(a))

(* The arena holds, under each current handle, what the handle was made for.  *)
Shelved ==
    /\ definitions \in Arenas /\ FreeList(definitions)
    /\ DOMAIN named \subseteq Handles /\ Past(definitions, DOMAIN named)
    /\ \A s \in Occupied(definitions) : named[HandleOf(definitions, s)] = definitions.value[s]
    /\ closer \in {"destroying", "destroyed"} => destroyed

CallsTyped ==
    /\ op = [t \in Callers |-> op[t]]
    /\ \A t \in Callers :
        /\ op[t].kind = "create" => op[t].payload \in Payloads
        /\ op[t].kind \in {"lease", "release"} =>
              op[t].handle \in DOMAIN named /\ (closer = "destroyed" => Spent(definitions, op[t].handle))
        /\ op[t].kind = "count" => op[t].counter \in {"accepted", "full"}

(* While a resource lives nothing is late; afterwards the calls under way and *)
(* those that were late already are at most as many as there are threads.     *)
Bounded(r, kind, over) ==
    /\ ~over => late[r] = 0
    /\ over => late[r] + Cardinality(Doing(kind)) <= Cardinality(Callers)

DefinitionsBounded ==
    /\ Bounded("hfsm", "create", closer = "destroyed")
    /\ closer = "destroyed" => Cardinality(Occupied(definitions)) <= late["hfsm"]

ScratchBounded ==
    /\ Bounded("codec", "reserve", codec = "destroyed")
    /\ codec = "destroyed" => (scratch => late["codec"] > 0)

RecordsBounded ==
    /\ Bounded("diagnostics", "record", closed)
    /\ records \in Nat /\ popped \in Nat /\ counted \in [accepted : Nat, full : Nat]
    /\ refusals \in Nat
    /\ records + popped = counted.accepted + Cardinality(Uncounted("accepted"))
    /\ refusals = counted.full + Cardinality(Uncounted("full"))
    /\ records <= RecordCapacity

ServicesInv ==
    /\ late \in [Counting -> Nat]
    /\ Shelved
    /\ CallsTyped
    /\ DefinitionsBounded
    /\ ScratchBounded
    /\ RecordsBounded
    /\ LeasesAreRightful

LEMMA SpentIsGone ==
    ASSUME NEW a \in Arenas, NEW h \in Handles, Spent(a, h) PROVE ~Resolves(a, h)
<1>1. h.generation \in Nat /\ a.generation[h.slot] \in Nat
  BY ArenaAssumption DEF Spent, Arenas, Handles
<1> QED  BY <1>1 DEF Spent, Resolves, Lost, Occupied

(* Sets of threads. *)
LEMMA ThreadSets ==
    ASSUME IsFiniteSet(Callers), NEW S \in SUBSET Callers
    PROVE  /\ IsFiniteSet(S) /\ Cardinality(S) \in Nat /\ Cardinality(S) <= Cardinality(Callers)
           /\ Cardinality(Callers) \in Nat
           /\ \A T \in SUBSET S : Cardinality(T) <= Cardinality(S)
           /\ \A t \in S : Cardinality(S \ {t}) = Cardinality(S) - 1
           /\ \A t \in Callers \ S : Cardinality(S \cup {t}) = Cardinality(S) + 1
<1>1. IsFiniteSet(S) /\ Cardinality(S) <= Cardinality(Callers)
      /\ \A T \in SUBSET S : Cardinality(T) <= Cardinality(S)
  BY FS_Subset
<1> QED  BY <1>1, FS_CardinalityType, FS_RemoveElement, FS_AddElement

(* What the step of one thread does to the sets of those under way. *)
LEMMA CallMoves ==
    ASSUME CallsTyped, NEW t \in Callers, NEW c, op' = [op EXCEPT ![t] = c]
    PROVE  /\ op' = [u \in Callers |-> op'[u]]
           /\ op'[t] = c /\ \A u \in Callers \ {t} : op'[u] = op[u]
           /\ \A k : Doing(k)' = IF c.kind = k THEN Doing(k) \cup {t} ELSE Doing(k) \ {t}
<1>1. op' = [u \in Callers |-> IF u = t THEN c ELSE op[u]]
  BY DEF CallsTyped
<1> QED  BY <1>1 DEF Doing

LEMMA BoundedKept ==
    ASSUME IsFiniteSet(Callers), late \in [Counting -> Nat],
           NEW r \in Counting, NEW k, NEW over \in BOOLEAN,
           Bounded(r, k, over), late'[r] = late[r], over => Doing(k)' \subseteq Doing(k)
    PROVE  Bounded(r, k, over)'
<1>1. CASE over
  <2>1. Doing(k) \subseteq Callers /\ Doing(k)' \subseteq Callers
    BY DEF Doing
  <2>2. Cardinality(Doing(k)') <= Cardinality(Doing(k)) /\ Cardinality(Doing(k)') \in Nat
        /\ Cardinality(Doing(k)) \in Nat /\ Cardinality(Callers) \in Nat
    BY <1>1, <2>1, ThreadSets
  <2> QED  BY <1>1, <2>2 DEF Bounded
<1>2. CASE ~over
  BY <1>2 DEF Bounded
<1> QED  BY <1>1, <1>2

(* One call less under way, and one effect more at most. *)
LEMMA BoundedSpent ==
    ASSUME IsFiniteSet(Callers), late \in [Counting -> Nat],
           NEW r \in Counting, NEW k, NEW over \in BOOLEAN,
           Bounded(r, k, over), late'[r] = late[r] \/ (over /\ late'[r] = late[r] + 1),
           NEW t \in Doing(k), Doing(k)' = Doing(k) \ {t}
    PROVE  Bounded(r, k, over)'
<1>1. Doing(k) \subseteq Callers
  BY DEF Doing
<1>2. Cardinality(Doing(k)') = Cardinality(Doing(k)) - 1
      /\ Cardinality(Doing(k)) \in Nat /\ Cardinality(Callers) \in Nat
  BY <1>1, ThreadSets
<1> QED  BY <1>2 DEF Bounded

LEMMA CallEnds ==
    ASSUME CallsTyped, NEW t \in Callers, op' = [op EXCEPT ![t] = [kind |-> "none"]]
    PROVE  /\ op' = [u \in Callers |-> op'[u]]
           /\ op'[t].kind = "none" /\ \A u \in Callers \ {t} : op'[u] = op[u]
           /\ \A k : k # "none" => Doing(k)' = Doing(k) \ {t}
<1> DEFINE c == [kind |-> "none"]
<1>1. c.kind = "none" /\ op' = [op EXCEPT ![t] = c]
  OBVIOUS
<1> HIDE DEF c
<1> QED  BY <1>1, CallMoves

LEMMA ServicesInitInv ==
    ASSUME IsFiniteSet(Callers), RecordCapacity \in Nat, ServicesInit
    PROVE  ServicesInv
<1>0. RegistryInit
  BY DEF ServicesInit
<1>1. definitions = NewArena /\ named = <<>> /\ closer = "open"
      /\ op = [t \in Callers |-> [kind |-> "none"]]
  BY <1>0 DEF RegistryInit, NoOp
<1>2. definitions \in Arenas /\ FreeList(definitions) /\ Range(definitions.free) = Slots /\ Occupied(definitions) = {}
  BY <1>1, NewArenaTyped, NewArenaWellFormed DEF FreeList, Occupied
<1>3. DOMAIN named = {}
  BY <1>1
<1>4. Shelved
  BY <1>1, <1>2, <1>3 DEF Shelved, Past
<1>5. CallsTyped
  BY <1>1 DEF CallsTyped
<1>6. late = [r \in Counting |-> 0] /\ codec = "live" /\ closed = FALSE /\ records = 0 /\ popped = 0 /\ refusals = 0
      /\ counted = [accepted |-> 0, full |-> 0]
  BY DEF ServicesInit, Resources, Counting
<1>7. \A k : Uncounted(k) = {} /\ Cardinality(Uncounted(k)) = 0
  BY <1>1, FS_EmptySet DEF Uncounted
<1>8. DefinitionsBounded /\ ScratchBounded /\ RecordsBounded /\ late \in [Counting -> Nat]
  BY <1>1, <1>6, <1>7 DEF DefinitionsBounded, ScratchBounded, RecordsBounded, Bounded, Counting
<1>9. LeasesAreRightful
  BY <1>0 DEF RegistryInit, LeasesAreRightful
<1> QED  BY <1>4, <1>5, <1>8, <1>9 DEF ServicesInv

(* A call that is admitted, or ends, and does nothing else but answer.        *)
LEMMA CallKeeps ==
    ASSUME IsFiniteSet(Callers), ServicesInv, NEW t \in Callers, NEW c,
           op' = [op EXCEPT ![t] = c], op[t].kind # "count", c.kind # "count",
           c.kind = "create" => c.payload \in Payloads /\ closer # "destroyed",
           c.kind \in {"lease", "release"} => c.handle \in DOMAIN named /\ closer # "destroyed",
           c.kind = "reserve" => codec # "destroyed",
           c.kind = "record" => ~closed,
           UNCHANGED <<destroyed, definitions, closer, named, codec, scratch, closed,
                       records, counted, popped, refusals, late>>,
           LeasesAreRightful'
    PROVE  ServicesInv'
<1>1. /\ op' = [u \in Callers |-> op'[u]]
      /\ op'[t] = c /\ \A u \in Callers \ {t} : op'[u] = op[u]
      /\ \A k : Doing(k)' = IF c.kind = k THEN Doing(k) \cup {t} ELSE Doing(k) \ {t}
  BY CallMoves DEF ServicesInv
<1>2. Shelved' /\ late' \in [Counting -> Nat]
  BY DEF ServicesInv, Shelved
<1>3. CallsTyped'
  BY <1>1 DEF ServicesInv, CallsTyped
<1>4. DefinitionsBounded'
  <2>1. closer = "destroyed" => Doing("create")' \subseteq Doing("create")
    BY <1>1
  <2> QED  BY <2>1, BoundedKept DEF ServicesInv, DefinitionsBounded, Bounded, Counting
<1>5. ScratchBounded'
  <2>1. codec = "destroyed" => Doing("reserve")' \subseteq Doing("reserve")
    BY <1>1
  <2> QED  BY <2>1, BoundedKept DEF ServicesInv, ScratchBounded, Bounded, Counting
<1>6. RecordsBounded'
  <2>1. closed => Doing("record")' \subseteq Doing("record")
    BY <1>1
  <2>2. \A k : Uncounted(k)' = Uncounted(k)
    BY <1>1 DEF Uncounted
  <2>3. Bounded("diagnostics", "record", closed)'
    BY <2>1, BoundedKept DEF ServicesInv, RecordsBounded, Bounded, Counting
  <2> QED  BY <2>2, <2>3 DEF ServicesInv, RecordsBounded
<1> QED  BY <1>2, <1>3, <1>4, <1>5, <1>6 DEF ServicesInv

LEMMA EndKeeps ==
    ASSUME IsFiniteSet(Callers), ServicesInv, NEW t \in Callers, op[t].kind # "count",
           op' = [op EXCEPT ![t] = [kind |-> "none"]],
           UNCHANGED <<destroyed, definitions, closer, named, codec, scratch, closed,
                       records, counted, popped, refusals, late>>,
           LeasesAreRightful'
    PROVE  ServicesInv'
<1> DEFINE c == [kind |-> "none"]
<1>1. c.kind = "none" /\ op' = [op EXCEPT ![t] = c]
  OBVIOUS
<1> HIDE DEF c
<1> QED  BY <1>1, CallKeeps

(* A handle that resolves is of the definition in its slot, and no such handle *)
(* is left once the arena has been emptied.                                   *)
LEMMA LookupIsRightful ==
    ASSUME ServicesInv, NEW t \in Callers, op[t].kind \in {"lease", "release"},
           Resolves(definitions, op[t].handle)
    PROVE  /\ op[t].handle.slot \in Occupied(definitions)
           /\ op[t].handle = HandleOf(definitions, op[t].handle.slot)
           /\ named[op[t].handle] = definitions.value[op[t].handle.slot]
           /\ closer # "destroyed"
<1>1. op[t].handle \in Handles /\ definitions \in Arenas
  BY DEF ServicesInv, Shelved, CallsTyped
<1>2. op[t].handle.slot \in Occupied(definitions) /\ op[t].handle = HandleOf(definitions, op[t].handle.slot)
  BY <1>1, ResolvedIsCurrent
<1>3. closer # "destroyed"
  BY <1>1, SpentIsGone DEF ServicesInv, CallsTyped
<1> QED  BY <1>2, <1>3 DEF ServicesInv, Shelved

LEMMA CreateBeginKeeps ==
    ASSUME IsFiniteSet(Callers), ServicesInv, NEW t \in Callers, NEW v \in Payloads,
           CreateBegin(t, v), UNCHANGED <<codec, scratch, closed, records, counted, popped, refusals, late>>
    PROVE  ServicesInv'
<1> DEFINE c == [kind |-> "create", payload |-> v]
<1>1. /\ op[t].kind = "none" /\ closer # "destroyed"
      /\ op' = [op EXCEPT ![t] = c]
      /\ UNCHANGED <<destroyed, definitions, closer, named, reply>>
  BY DEF CreateBegin, MayCreate, NoOp, ServicesInv, Shelved
<1>2. LeasesAreRightful'
  BY <1>1 DEF ServicesInv, LeasesAreRightful
<1>3. c.kind = "create" /\ c.payload = v
  OBVIOUS
<1> HIDE DEF c
<1> QED  BY <1>1, <1>2, <1>3, CallKeeps

LEMMA BeginKeeps ==
    ASSUME IsFiniteSet(Callers), ServicesInv, NEW t \in Callers, NEW k \in {"lease", "release"},
           NEW h \in DOMAIN named, Begin(t, k, h),
           UNCHANGED <<codec, scratch, closed, records, counted, popped, refusals, late>>
    PROVE  ServicesInv'
<1> DEFINE c == [kind |-> k, handle |-> h]
<1>1. /\ op[t].kind = "none" /\ closer # "destroyed"
      /\ op' = [op EXCEPT ![t] = c]
      /\ UNCHANGED <<destroyed, definitions, closer, named, reply>>
  BY DEF Begin, NoOp, ServicesInv, Shelved
<1>2. LeasesAreRightful'
  BY <1>1 DEF ServicesInv, LeasesAreRightful
<1>3. c.kind = k /\ c.handle = h
  OBVIOUS
<1> HIDE DEF c
<1> QED  BY <1>1, <1>2, <1>3, CallKeeps

LEMMA LeaseKeeps ==
    ASSUME IsFiniteSet(Callers), ServicesInv, NEW t \in Callers, Lease(t),
           UNCHANGED <<codec, scratch, closed, records, counted, popped, refusals, late>>
    PROVE  ServicesInv'
<1>1. /\ op[t].kind = "lease"
      /\ op' = [op EXCEPT ![t] = [kind |-> "none"]]
      /\ UNCHANGED <<destroyed, definitions, closer, named>>
  BY DEF Lease, NoOp
<1>2. CASE Resolves(definitions, op[t].handle)
  <2>1. reply' = [kind |-> "lease", payload |-> definitions.value[op[t].handle.slot],
                   expected |-> named[op[t].handle], closer |-> closer]
    BY <1>2 DEF Lease, Succeeds
  <2>2. LeasesAreRightful'
    BY <1>1, <1>2, <2>1, LookupIsRightful DEF LeasesAreRightful
  <2> QED  BY <1>1, <2>2, EndKeeps
<1>3. CASE ~Resolves(definitions, op[t].handle)
  <2>1. reply' = reply
    BY <1>3 DEF Lease
  <2>2. LeasesAreRightful'
    BY <2>1 DEF ServicesInv, LeasesAreRightful
  <2> QED  BY <1>1, <2>2, EndKeeps
<1> QED  BY <1>2, <1>3

(* What holds of the codec and the recorder when only the registry moves.     *)
LEMMA OthersKept ==
    ASSUME IsFiniteSet(Callers), ServicesInv, NEW t \in Callers, op[t].kind # "count",
           op' = [op EXCEPT ![t] = [kind |-> "none"]],
           UNCHANGED <<codec, scratch, closed, records, counted, popped, refusals>>,
           late' \in [Counting -> Nat],
           late'["codec"] = late["codec"] /\ late'["diagnostics"] = late["diagnostics"]
    PROVE  ScratchBounded' /\ RecordsBounded'
<1>1. /\ op' = [u \in Callers |-> op'[u]]
      /\ op'[t].kind = "none" /\ \A u \in Callers \ {t} : op'[u] = op[u]
      /\ \A k : k # "none" => Doing(k)' = Doing(k) \ {t}
  BY CallEnds DEF ServicesInv
<1>2. ScratchBounded'
  <2>1. codec = "destroyed" => Doing("reserve")' \subseteq Doing("reserve")
    BY <1>1
  <2> QED  BY <2>1, BoundedKept DEF ServicesInv, ScratchBounded, Bounded, Counting
<1>3. RecordsBounded'
  <2>1. closed => Doing("record")' \subseteq Doing("record")
    BY <1>1
  <2>2. \A k : Uncounted(k)' = Uncounted(k)
    BY <1>1 DEF Uncounted
  <2>3. Bounded("diagnostics", "record", closed)'
    BY <2>1, BoundedKept DEF ServicesInv, RecordsBounded, Bounded, Counting
  <2> QED  BY <2>2, <2>3 DEF ServicesInv, RecordsBounded
<1> QED  BY <1>2, <1>3

LEMMA ReleaseKeeps ==
    ASSUME IsFiniteSet(Callers), ServicesInv, NEW t \in Callers, Release(t),
           Affects("hfsm", closer = "destroyed" /\ Occupied(definitions) # Occupied(definitions')),
           UNCHANGED <<codec, scratch, closed, records, counted, popped, refusals>>
    PROVE  ServicesInv'
<1>1. /\ op[t].kind = "release"
      /\ op' = [op EXCEPT ![t] = [kind |-> "none"]]
      /\ UNCHANGED <<destroyed, closer, named>>
  BY DEF Release, NoOp
<1>2. CASE ~Resolves(definitions, op[t].handle)
  <2>1. UNCHANGED <<definitions, reply>>
    BY <1>2 DEF Release
  <2>2. late' = late
    BY <2>1 DEF Affects, ServicesInv
  <2>3. LeasesAreRightful'
    BY <2>1 DEF ServicesInv, LeasesAreRightful
  <2> QED  BY <1>1, <2>1, <2>2, <2>3, EndKeeps
<1>3. CASE Resolves(definitions, op[t].handle)
  <2> DEFINE h == op[t].handle
             s == op[t].handle.slot
  <2>1. s \in Occupied(definitions) /\ h = HandleOf(definitions, s) /\ named[h] = definitions.value[s]
        /\ closer # "destroyed"
    BY <1>1, <1>3, LookupIsRightful
  <2>2. definitions' = Removed(definitions, s)
        /\ reply' = [kind |-> "release", payload |-> definitions.value[s], expected |-> named[h],
                      closer |-> closer]
    BY <1>3 DEF Release, Succeeds
  <2>3. late' = late
    BY <2>1 DEF Affects, ServicesInv
  <2>4. LeasesAreRightful'
    BY <2>1, <2>2 DEF LeasesAreRightful
  <2>5. /\ definitions \in Arenas /\ FreeList(definitions) /\ DOMAIN named \in SUBSET Handles
        /\ Past(definitions, DOMAIN named)
    BY DEF ServicesInv, Shelved
  <2>6. /\ definitions' \in Arenas
        /\ \A q \in Slots \ {s} : definitions'.generation[q] = definitions.generation[q]
                                  /\ definitions'.value[q] = definitions.value[q]
        /\ Occupied(definitions') = Occupied(definitions) \ {s}
        /\ FreeList(definitions')
    BY <2>1, <2>2, <2>5, RemovedFacts
  <2>7. Past(definitions', DOMAIN named)
    BY <2>1, <2>2, <2>5, PastRemoved
  <2>8. \A q \in Occupied(definitions') : named'[HandleOf(definitions', q)] = definitions'.value[q]
    <3> SUFFICES ASSUME NEW q \in Occupied(definitions) \ {s}
                 PROVE  named[HandleOf(definitions', q)] = definitions'.value[q]
      BY <1>1, <2>6
    <3>1. q \in Slots \ {s}
      BY DEF Occupied
    <3>2. HandleOf(definitions', q) = HandleOf(definitions, q) /\ definitions'.value[q] = definitions.value[q]
      BY <2>6, <3>1 DEF HandleOf
    <3> QED  BY <3>2 DEF ServicesInv, Shelved
  <2>9. Shelved'
    BY <1>1, <2>5, <2>6, <2>7, <2>8 DEF ServicesInv, Shelved
  <2>10. CallsTyped'
    BY <1>1, <2>1, CallEnds DEF ServicesInv, CallsTyped
  <2>11. DefinitionsBounded'
    BY <1>1, <2>1, <2>3 DEF ServicesInv, DefinitionsBounded, Bounded
  <2>12. ScratchBounded' /\ RecordsBounded'
    BY <1>1, <2>3, OthersKept DEF ServicesInv
  <2> QED  BY <2>3, <2>4, <2>9, <2>10, <2>11, <2>12 DEF ServicesInv
<1> QED  BY <1>2, <1>3

LEMMA CreateInsertKeeps ==
    ASSUME IsFiniteSet(Callers), ServicesInv, NEW t \in Callers, CreateInsert(t),
           Affects("hfsm", closer = "destroyed" /\ Occupied(definitions) # Occupied(definitions')),
           UNCHANGED <<codec, scratch, closed, records, counted, popped, refusals>>
    PROVE  ServicesInv'
<1>1. /\ op[t].kind = "create" /\ op[t].payload \in Payloads
      /\ op' = [op EXCEPT ![t] = [kind |-> "none"]]
      /\ UNCHANGED <<destroyed, closer>>
  BY DEF CreateInsert, NoOp, ServicesInv, CallsTyped
<1>2. CASE ~CanInsert(definitions)
  <2>1. UNCHANGED <<definitions, named, reply>>
    BY <1>2 DEF CreateInsert
  <2>2. late' = late
    BY <2>1 DEF Affects, ServicesInv
  <2>3. LeasesAreRightful'
    BY <2>1 DEF ServicesInv, LeasesAreRightful
  <2> QED  BY <1>1, <2>1, <2>2, <2>3, EndKeeps
<1>3. CASE CanInsert(definitions)
  <2> DEFINE v == op[t].payload
             s == NextSlot(definitions)
             h == HandleOf(definitions, s)
  <2>1. /\ definitions' = Inserted(definitions, v)
        /\ named' = [k \in DOMAIN named \cup {h} |-> IF k = h THEN v ELSE named[k]]
        /\ reply' = [kind |-> "create", payload |-> v, expected |-> v, closer |-> closer]
    BY <1>3 DEF CreateInsert, Succeeds, Known
  <2>2. LeasesAreRightful'
    BY <2>1 DEF LeasesAreRightful
  <2>3. /\ definitions \in Arenas /\ FreeList(definitions) /\ DOMAIN named \in SUBSET Handles
        /\ Past(definitions, DOMAIN named)
    BY DEF ServicesInv, Shelved
  <2>4. /\ definitions' \in Arenas
        /\ s \in Range(definitions.free) /\ s \in Slots
        /\ definitions'.generation = definitions.generation
        /\ definitions'.value = [definitions.value EXCEPT ![s] = v]
        /\ Occupied(definitions') = Occupied(definitions) \cup {s}
        /\ Lost(definitions') = Lost(definitions)
        /\ FreeList(definitions')
    BY <1>1, <1>3, <2>1, <2>3, InsertedFacts
  <2>5. h \in Handles /\ h.slot = s
    BY <2>3, <2>4, HandleTyped
  <2>6. s \notin Occupied(definitions)
    BY <2>3, <2>4 DEF FreeList
  <2>7. DOMAIN named' = DOMAIN named \cup {h} /\ Past(definitions', DOMAIN named')
    BY <1>1, <1>3, <2>1, <2>3, PastInserted
  <2>8. \A q \in Occupied(definitions') : named'[HandleOf(definitions', q)] = definitions'.value[q]
    <3>1. \A q : HandleOf(definitions', q) = HandleOf(definitions, q)
      BY <2>4 DEF HandleOf
    <3>2. named'[h] = v /\ definitions'.value[s] = v
      BY <2>1, <2>3, <2>4 DEF Arenas
    <3>3. ASSUME NEW q \in Occupied(definitions) PROVE named'[HandleOf(definitions, q)] = definitions'.value[q]
      <4>1. q # s /\ q \in Slots /\ q \notin Range(definitions.free)
        BY <2>3, <2>6 DEF FreeList, Occupied
      <4>2. HandleOf(definitions, q) # h /\ HandleOf(definitions, q) \in DOMAIN named
        BY <2>3, <2>5, <4>1, HandleTyped DEF Past
      <4>3. named[HandleOf(definitions, q)] = definitions.value[q]
        BY DEF ServicesInv, Shelved
      <4>4. definitions'.value[q] = definitions.value[q]
        BY <2>3, <2>4, <4>1 DEF Arenas
      <4> HIDE DEF h
      <4> QED  BY <2>1, <4>2, <4>3, <4>4
    <3> QED  BY <2>4, <3>1, <3>2, <3>3
  <2>9. Shelved'
    BY <1>1, <2>3, <2>4, <2>5, <2>7, <2>8 DEF ServicesInv, Shelved
  <2>10. \A g : Spent(definitions', g) <=> Spent(definitions, g)
    BY <2>4 DEF Spent
  <2>11. /\ op' = [u \in Callers |-> op'[u]]
         /\ op'[t].kind = "none" /\ \A u \in Callers \ {t} : op'[u] = op[u]
         /\ \A k : k # "none" => Doing(k)' = Doing(k) \ {t}
    BY <1>1, CallEnds DEF ServicesInv
  <2> HIDE DEF h, s, v
  <2>12. CallsTyped'
    <3> SUFFICES ASSUME NEW u \in Callers
                 PROVE  /\ op'[u].kind = "create" => op'[u].payload \in Payloads
                        /\ op'[u].kind \in {"lease", "release"} =>
                              op'[u].handle \in DOMAIN named'
                              /\ (closer' = "destroyed" => Spent(definitions', op'[u].handle))
                        /\ op'[u].kind = "count" => op'[u].counter \in {"accepted", "full"}
      BY <2>11 DEF CallsTyped
    <3>1. CASE u = t
      BY <2>11, <3>1
    <3>2. CASE u # t
      BY <1>1, <2>7, <2>10, <2>11, <3>2 DEF ServicesInv, CallsTyped
    <3> QED  BY <3>1, <3>2
  <2>13. late' = [late EXCEPT !["hfsm"] = IF closer = "destroyed" THEN @ + 1 ELSE @]
    BY <2>4, <2>6 DEF Affects
  <2>14. /\ late \in [Counting -> Nat] /\ late' \in [Counting -> Nat]
         /\ late'["hfsm"] = IF closer = "destroyed" THEN late["hfsm"] + 1 ELSE late["hfsm"]
         /\ late'["codec"] = late["codec"] /\ late'["diagnostics"] = late["diagnostics"]
    BY <2>13 DEF ServicesInv, Counting
  <2>15. DefinitionsBounded'
    <3>1. t \in Doing("create") /\ Doing("create")' = Doing("create") \ {t}
      BY <1>1, <2>11 DEF Doing
    <3>2. Bounded("hfsm", "create", closer = "destroyed")
      BY DEF ServicesInv, DefinitionsBounded
    <3>3. Bounded("hfsm", "create", closer = "destroyed")'
      <4> DEFINE over == closer = "destroyed"
      <4>1. late'["hfsm"] = late["hfsm"] \/ (over /\ late'["hfsm"] = late["hfsm"] + 1)
        BY <2>14
      <4>2. over \in BOOLEAN /\ "hfsm" \in Counting
        BY DEF Counting
      <4> QED  BY <1>1, <2>14, <3>1, <3>2, <4>1, <4>2, BoundedSpent DEF Bounded
    <3>4. Cardinality(Occupied(definitions')) = Cardinality(Occupied(definitions)) + 1
          /\ Cardinality(Occupied(definitions)) \in Nat
      <4>1. IsFiniteSet(Occupied(definitions)) /\ Cardinality(Occupied(definitions)) \in Nat
        BY SlotsFinite DEF Occupied
      <4> QED  BY <2>4, <2>6, <4>1, FS_AddElement
    <3> QED  BY <1>1, <2>14, <3>3, <3>4 DEF ServicesInv, DefinitionsBounded, Counting
  <2>16. ScratchBounded' /\ RecordsBounded'
    BY <1>1, <2>14, OthersKept
  <2> QED  BY <2>2, <2>9, <2>12, <2>14, <2>15, <2>16 DEF ServicesInv
<1> QED  BY <1>2, <1>3

(* Emptying the arena ends every handle that was issued before. *)
LEMMA DrainedSpends ==
    ASSUME NEW a \in Arenas, FreeList(a), NEW b \in Drained(a),
           NEW H \in SUBSET Handles, Past(a, H), NEW h \in H
    PROVE  Spent(b, h)
<1> DEFINE worn == {s \in Occupied(a) : Worn(a, s)}
           s == h.slot
<1>1. /\ \A q \in Slots : b.generation[q] =
            IF q \in Occupied(a) \ worn THEN a.generation[q] + 1 ELSE a.generation[q]
      /\ Lost(b) = Lost(a) \cup worn
  BY DrainedFacts
<1>2. s \in Slots /\ h.context = Home /\ h.generation <= a.generation[s]
      /\ h.generation \in Nat /\ a.generation[s] \in Nat
  BY ArenaAssumption DEF Past, Handles, Arenas
<1>3. CASE s \in Occupied(a) \ worn
  <2> HIDE DEF worn, s
  <2>1. b.generation[s] = a.generation[s] + 1
    BY <1>1, <1>2, <1>3
  <2> QED  BY <1>2, <2>1 DEF Spent, s
<1>4. CASE s \in worn
  BY <1>1, <1>2, <1>4 DEF Spent
<1>5. CASE s \notin Occupied(a) /\ s \notin Range(a.free)
  BY <1>1, <1>2, <1>5 DEF Spent, Lost
<1>6. CASE s \notin Occupied(a) /\ s \in Range(a.free)
  <2>1. h # HandleOf(a, s)
    BY <1>6 DEF Past
  <2>2. h.generation # a.generation[s]
    BY <1>2, <2>1 DEF HandleOf, Handles
  <2>3. b.generation[s] = a.generation[s]
    BY <1>1, <1>2, <1>6
  <2> QED  BY <1>2, <2>2, <2>3 DEF Spent
<1> QED  BY <1>3, <1>4, <1>5, <1>6

LEMMA RetireAllKeeps ==
    ASSUME IsFiniteSet(Callers), ServicesInv, RetireDefinitions,
           UNCHANGED <<codec, scratch, closed, records, counted, popped, refusals, late>>
    PROVE  ServicesInv'
<1>1. /\ closer = "destroying" /\ closer' = "destroyed" /\ definitions' \in Drained(definitions)
      /\ UNCHANGED <<destroyed, op, named, reply>>
  BY DEF RetireDefinitions
<1>2. /\ definitions \in Arenas /\ FreeList(definitions) /\ DOMAIN named \in SUBSET Handles
      /\ Past(definitions, DOMAIN named) /\ destroyed
  BY <1>1 DEF ServicesInv, Shelved
<1>3. definitions' \in Arenas /\ FreeList(definitions') /\ Occupied(definitions') = {}
  BY <1>1, <1>2, DrainedFacts
<1>4. Past(definitions', DOMAIN named)
  BY <1>1, <1>2, PastDrained
<1>5. Shelved'
  BY <1>1, <1>2, <1>3, <1>4 DEF Shelved
<1>6. \A h \in DOMAIN named : Spent(definitions', h)
  BY <1>1, <1>2, DrainedSpends
<1>7. CallsTyped'
  BY <1>1, <1>6 DEF ServicesInv, CallsTyped
<1>8. \A k : Doing(k)' = Doing(k)
  BY <1>1 DEF Doing
<1>9. DefinitionsBounded'
  <2>1. Cardinality(Doing("create")) <= Cardinality(Callers) /\ Cardinality(Doing("create")) \in Nat
    BY ThreadSets DEF Doing
  <2>2. late'["hfsm"] = 0
    BY <1>1 DEF ServicesInv, DefinitionsBounded, Bounded
  <2>3. Cardinality(Occupied(definitions')) = 0
    BY <1>3, FS_EmptySet
  <2> QED  BY <1>1, <1>8, <2>1, <2>2, <2>3 DEF DefinitionsBounded, Bounded
<1>10. ScratchBounded' /\ RecordsBounded'
  BY <1>1, <1>8 DEF ServicesInv, ScratchBounded, RecordsBounded, Bounded, Uncounted
<1>11. LeasesAreRightful'
  BY <1>1 DEF ServicesInv, LeasesAreRightful
<1> QED  BY <1>5, <1>7, <1>9, <1>10, <1>11 DEF ServicesInv

(* The steps of close that end no call and no definition. *)
LEMMA FlagsKeep ==
    ASSUME ServicesInv, CancelRequested \/ MarkDestroyed,
           UNCHANGED <<codec, scratch, closed, records, counted, popped, refusals, late>>
    PROVE  ServicesInv'
<1>1. /\ closer # "destroyed" /\ closer' # "destroyed"
      /\ closer' = "destroying" => destroyed'
      /\ UNCHANGED <<op, definitions, named, reply>>
  BY DEF CancelRequested, MarkDestroyed
<1>2. Shelved' /\ CallsTyped'
  BY <1>1 DEF ServicesInv, Shelved, CallsTyped
<1>3. DefinitionsBounded' /\ ScratchBounded' /\ RecordsBounded'
  BY <1>1 DEF ServicesInv, DefinitionsBounded, ScratchBounded, RecordsBounded, Bounded, Uncounted, Doing
<1>4. LeasesAreRightful'
  BY <1>1 DEF ServicesInv, LeasesAreRightful
<1> QED  BY <1>2, <1>3, <1>4 DEF ServicesInv

LEMMA ReserveKeeps ==
    ASSUME IsFiniteSet(Callers), ServicesInv, NEW t \in Callers, Reserve(t)
    PROVE  ServicesInv'
<1>1. /\ op[t].kind = "reserve" /\ op' = [op EXCEPT ![t] = [kind |-> "none"]]
      /\ scratch' = TRUE
      /\ late' = [late EXCEPT !["codec"] = IF codec = "destroyed" THEN @ + 1 ELSE @]
      /\ UNCHANGED <<destroyed, definitions, closer, named, reply, codec, closed, records, counted, popped, refusals>>
  BY DEF Reserve, Returns, NoOp, Affects, recordVars
<1>2. /\ op' = [u \in Callers |-> op'[u]]
      /\ op'[t].kind = "none" /\ \A u \in Callers \ {t} : op'[u] = op[u]
      /\ \A k : k # "none" => Doing(k)' = Doing(k) \ {t}
  BY <1>1, CallEnds DEF ServicesInv
<1>3. /\ late \in [Counting -> Nat] /\ late' \in [Counting -> Nat]
      /\ late'["codec"] = IF codec = "destroyed" THEN late["codec"] + 1 ELSE late["codec"]
      /\ late'["hfsm"] = late["hfsm"] /\ late'["diagnostics"] = late["diagnostics"]
  BY <1>1 DEF ServicesInv, Counting
<1>4. Shelved' /\ CallsTyped'
  BY <1>1, <1>2 DEF ServicesInv, Shelved, CallsTyped
<1>5. DefinitionsBounded'
  <2>1. Doing("create")' \subseteq Doing("create")
    BY <1>2
  <2> QED  BY <1>1, <1>3, <2>1, BoundedKept
           DEF ServicesInv, DefinitionsBounded, Bounded, Counting
<1>6. ScratchBounded'
  <2> DEFINE over == codec = "destroyed"
  <2>1. t \in Doing("reserve") /\ Doing("reserve")' = Doing("reserve") \ {t}
    BY <1>1, <1>2 DEF Doing
  <2>2. late'["codec"] = late["codec"] \/ (over /\ late'["codec"] = late["codec"] + 1)
    BY <1>3
  <2>3. over \in BOOLEAN /\ "codec" \in Counting
    BY DEF Counting
  <2>4. Bounded("codec", "reserve", codec = "destroyed")'
    BY <1>1, <1>3, <2>1, <2>2, <2>3, BoundedSpent DEF ServicesInv, ScratchBounded, Bounded
  <2> QED  BY <1>1, <1>3, <2>4 DEF ServicesInv, ScratchBounded, Counting
<1>7. RecordsBounded'
  <2>1. Doing("record")' \subseteq Doing("record") /\ \A k : Uncounted(k)' = Uncounted(k)
    BY <1>1, <1>2 DEF Uncounted
  <2>2. Bounded("diagnostics", "record", closed)'
    BY <1>1, <1>3, <2>1, BoundedKept DEF ServicesInv, RecordsBounded, Bounded, Counting
  <2> QED  BY <1>1, <2>1, <2>2 DEF ServicesInv, RecordsBounded
<1>8. LeasesAreRightful'
  BY <1>1 DEF ServicesInv, LeasesAreRightful
<1> QED  BY <1>3, <1>4, <1>5, <1>6, <1>7, <1>8 DEF ServicesInv

LEMMA TryPushKeeps ==
    ASSUME IsFiniteSet(Callers), RecordCapacity \in Nat, ServicesInv, NEW t \in Callers,
           TryPush(t)
    PROVE  ServicesInv'
<1> DEFINE fits == records < RecordCapacity
           c == [kind |-> "count", counter |-> IF fits THEN "accepted" ELSE "full"]
<1>1. /\ op[t].kind = "record" /\ op' = [op EXCEPT ![t] = c]
      /\ records' = IF fits THEN records + 1 ELSE records
      /\ late' = [late EXCEPT !["diagnostics"] = IF closed /\ fits THEN @ + 1 ELSE @]
      /\ refusals' = IF fits THEN refusals ELSE refusals + 1
      /\ UNCHANGED <<destroyed, definitions, closer, named, reply, codec, scratch, closed, counted, popped>>
  BY DEF TryPush, HasPlace, Affects, codecVars
<1>2. c.kind = "count" /\ c.counter = IF fits THEN "accepted" ELSE "full"
  OBVIOUS
<1> HIDE DEF c
<1>3. /\ op' = [u \in Callers |-> op'[u]]
      /\ op'[t] = c /\ \A u \in Callers \ {t} : op'[u] = op[u]
      /\ \A k : Doing(k)' = IF c.kind = k THEN Doing(k) \cup {t} ELSE Doing(k) \ {t}
  BY <1>1, CallMoves DEF ServicesInv
<1>4. /\ late \in [Counting -> Nat] /\ late' \in [Counting -> Nat]
      /\ late'["diagnostics"] = IF closed /\ fits THEN late["diagnostics"] + 1 ELSE late["diagnostics"]
      /\ late'["hfsm"] = late["hfsm"] /\ late'["codec"] = late["codec"]
  BY <1>1 DEF ServicesInv, Counting
<1>5. Shelved' /\ CallsTyped'
  BY <1>1, <1>2, <1>3 DEF ServicesInv, Shelved, CallsTyped
<1>6. DefinitionsBounded'
  <2>1. Doing("create")' \subseteq Doing("create")
    BY <1>2, <1>3
  <2> QED  BY <1>1, <1>4, <2>1, BoundedKept
           DEF ServicesInv, DefinitionsBounded, Bounded, Counting
<1>7. ScratchBounded'
  <2>1. Doing("reserve")' \subseteq Doing("reserve")
    BY <1>2, <1>3
  <2> QED  BY <1>1, <1>4, <2>1, BoundedKept
           DEF ServicesInv, ScratchBounded, Bounded, Counting
<1>8. RecordsBounded'
  <2>1. t \in Doing("record") /\ Doing("record")' = Doing("record") \ {t}
    BY <1>1, <1>2, <1>3 DEF Doing
  <2>2. late'["diagnostics"] = late["diagnostics"]
        \/ (closed /\ late'["diagnostics"] = late["diagnostics"] + 1)
    BY <1>4
  <2>3. Bounded("diagnostics", "record", closed)'
    <3>1. CASE closed
      BY <1>1, <1>4, <2>1, <2>2, <3>1, BoundedSpent DEF ServicesInv, RecordsBounded, Bounded, Counting
    <3>2. CASE ~closed
      BY <1>1, <1>4, <3>2 DEF ServicesInv, RecordsBounded, Bounded
    <3> QED  BY <3>1, <3>2
  <2>4. \A k : /\ Uncounted(k) \subseteq Callers /\ t \notin Uncounted(k)
               /\ Cardinality(Uncounted(k)) \in Nat
    BY <1>1, ThreadSets DEF Uncounted
  <2>5. \A k : Uncounted(k)' = IF k = c.counter THEN Uncounted(k) \cup {t} ELSE Uncounted(k)
    BY <1>2, <1>3, <2>4 DEF Uncounted
  <2>6. \A k : Cardinality(Uncounted(k)') = IF k = c.counter THEN Cardinality(Uncounted(k)) + 1
                                                            ELSE Cardinality(Uncounted(k))
    BY <2>4, <2>5, ThreadSets
  <2>7. CASE fits
    BY <1>1, <1>2, <2>3, <2>4, <2>6, <2>7 DEF ServicesInv, RecordsBounded
  <2>8. CASE ~fits
    BY <1>1, <1>2, <2>3, <2>4, <2>6, <2>8 DEF ServicesInv, RecordsBounded
  <2> QED  BY <2>7, <2>8
<1>9. LeasesAreRightful'
  BY <1>1 DEF ServicesInv, LeasesAreRightful
<1> QED  BY <1>4, <1>5, <1>6, <1>7, <1>8, <1>9 DEF ServicesInv

LEMMA CountKeeps ==
    ASSUME IsFiniteSet(Callers), ServicesInv, NEW t \in Callers, Count(t)
    PROVE  ServicesInv'
<1>1. /\ op[t].kind = "count" /\ op' = [op EXCEPT ![t] = [kind |-> "none"]]
      /\ counted' = [counted EXCEPT ![op[t].counter] = @ + 1]
      /\ UNCHANGED <<destroyed, definitions, closer, named, reply, codec, scratch, closed, records, popped, refusals, late>>
  BY DEF Count, Returns, NoOp, codecVars
<1>2. /\ op' = [u \in Callers |-> op'[u]]
      /\ op'[t].kind = "none" /\ \A u \in Callers \ {t} : op'[u] = op[u]
      /\ \A k : k # "none" => Doing(k)' = Doing(k) \ {t}
  BY <1>1, CallEnds DEF ServicesInv
<1>3. Shelved' /\ CallsTyped' /\ late' \in [Counting -> Nat]
  BY <1>1, <1>2 DEF ServicesInv, Shelved, CallsTyped
<1>4. DefinitionsBounded'
  <2>1. Doing("create")' \subseteq Doing("create")
    BY <1>2
  <2> QED  BY <1>1, <2>1, BoundedKept DEF ServicesInv, DefinitionsBounded, Bounded, Counting
<1>5. ScratchBounded'
  <2>1. Doing("reserve")' \subseteq Doing("reserve")
    BY <1>2
  <2> QED  BY <1>1, <2>1, BoundedKept DEF ServicesInv, ScratchBounded, Bounded, Counting
<1>6. RecordsBounded'
  <2>1. Doing("record")' \subseteq Doing("record")
    BY <1>2
  <2>2. Bounded("diagnostics", "record", closed)'
    BY <1>1, <2>1, BoundedKept DEF ServicesInv, RecordsBounded, Bounded, Counting
  <2>3. \A k : Uncounted(k) \subseteq Callers /\ Cardinality(Uncounted(k)) \in Nat
    BY ThreadSets DEF Uncounted
  <2>4. op[t].counter \in {"accepted", "full"} /\ counted \in [accepted : Nat, full : Nat]
    BY <1>1 DEF ServicesInv, CallsTyped, RecordsBounded
  <2>5. /\ t \in Uncounted(op[t].counter)
        /\ \A k : Uncounted(k)' = IF k = op[t].counter THEN Uncounted(k) \ {t} ELSE Uncounted(k)
    BY <1>1, <1>2 DEF Uncounted
  <2>6. \A k : Cardinality(Uncounted(k)') =
                 IF k = op[t].counter THEN Cardinality(Uncounted(k)) - 1 ELSE Cardinality(Uncounted(k))
    BY <2>3, <2>5, ThreadSets
  <2>7. CASE op[t].counter = "accepted"
    <3>1. /\ counted' \in [accepted : Nat, full : Nat]
          /\ counted'.accepted = counted.accepted + 1 /\ counted'.full = counted.full
      BY <1>1, <2>4, <2>7
    <3> QED  BY <1>1, <2>2, <2>3, <2>4, <2>6, <2>7, <3>1 DEF ServicesInv, RecordsBounded
  <2>8. CASE op[t].counter = "full"
    <3>1. /\ counted' \in [accepted : Nat, full : Nat]
          /\ counted'.accepted = counted.accepted /\ counted'.full = counted.full + 1
      BY <1>1, <2>4, <2>8
    <3> QED  BY <1>1, <2>2, <2>3, <2>4, <2>6, <2>8, <3>1 DEF ServicesInv, RecordsBounded
  <2> QED  BY <2>4, <2>7, <2>8
<1>7. LeasesAreRightful'
  BY <1>1 DEF ServicesInv, LeasesAreRightful
<1> QED  BY <1>3, <1>4, <1>5, <1>6, <1>7 DEF ServicesInv

(* What a host and the closer do between calls. *)
LEMMA QuietKeeps ==
    ASSUME IsFiniteSet(Callers), RecordCapacity \in Nat, ServicesInv,
           \/ \E t \in Callers : Pop(t)
           \/ CodecMark \/ CodecClear \/ DiagnosticsDestroy
           \/ UNCHANGED allVars
    PROVE  ServicesInv'
<1>1. UNCHANGED <<destroyed, definitions, closer, named, reply, op, counted, late>>
  BY DEF Pop, CodecMark, CodecClear, DiagnosticsDestroy,
         allVars, registryVars, serviceVars, codecVars, recordVars
<1>2. Shelved' /\ CallsTyped' /\ late' \in [Counting -> Nat] /\ LeasesAreRightful'
  BY <1>1 DEF ServicesInv, Shelved, CallsTyped, LeasesAreRightful
<1>3. \A k : Uncounted(k)' = Uncounted(k) /\ Doing(k)' = Doing(k)
  BY <1>1 DEF Uncounted, Doing
<1>4. DefinitionsBounded'
  BY <1>1, <1>3 DEF ServicesInv, DefinitionsBounded, Bounded
<1>5. \A k : Cardinality(Doing(k)) <= Cardinality(Callers) /\ Cardinality(Doing(k)) \in Nat
  BY ThreadSets DEF Doing
<1>6. ScratchBounded'
  <2>1. CASE CodecClear
    <3>1. codec # "destroyed" /\ scratch' = FALSE
      BY <2>1 DEF CodecClear
    <3>2. late["codec"] = 0
      BY <3>1 DEF ServicesInv, ScratchBounded, Bounded
    <3> QED  BY <1>1, <1>3, <1>5, <3>1, <3>2 DEF ScratchBounded, Bounded
  <2>2. CASE CodecMark
    <3>1. codec = "live" /\ codec' = "marked"
      BY <2>2 DEF CodecMark
    <3> QED  BY <1>1, <1>3, <3>1 DEF ServicesInv, ScratchBounded, Bounded
  <2>3. CASE UNCHANGED <<codec, scratch>>
    BY <1>1, <1>3, <2>3 DEF ServicesInv, ScratchBounded, Bounded
  <2> QED  BY <2>1, <2>2, <2>3 DEF Pop, DiagnosticsDestroy, allVars,
                   serviceVars, codecVars
<1>7. RecordsBounded'
  <2>1. CASE DiagnosticsDestroy
    <3>1. ~closed /\ UNCHANGED <<records, popped, refusals>>
      BY <2>1 DEF DiagnosticsDestroy
    <3>2. late["diagnostics"] = 0
      BY <3>1 DEF ServicesInv, RecordsBounded, Bounded
    <3> QED  BY <1>1, <1>3, <1>5, <3>1, <3>2 DEF ServicesInv, RecordsBounded, Bounded
  <2>2. ASSUME NEW t \in Callers, Pop(t) PROVE RecordsBounded'
    <3>1. records > 0 /\ records' = records - 1 /\ popped' = popped + 1
          /\ UNCHANGED <<closed, refusals>>
      BY <2>2 DEF Pop
    <3>2. \A k : Cardinality(Uncounted(k)) \in Nat
      BY ThreadSets DEF Uncounted
    <3>3. Bounded("diagnostics", "record", closed)'
      BY <1>1, <1>3, <3>1 DEF ServicesInv, RecordsBounded, Bounded
    <3> QED  BY <1>1, <1>3, <3>1, <3>2, <3>3 DEF ServicesInv, RecordsBounded
  <2>3. CASE UNCHANGED <<closed, records, popped, refusals>>
    BY <1>1, <1>3, <2>3 DEF ServicesInv, RecordsBounded, Bounded
  <2> QED  BY <2>1, <2>2, <2>3 DEF CodecMark, CodecClear, allVars,
                   serviceVars, recordVars
<1> QED  BY <1>2, <1>4, <1>6, <1>7 DEF ServicesInv

LEMMA RegistryStepKeeps ==
    ASSUME IsFiniteSet(Callers), ServicesInv, RegistryStep
    PROVE  ServicesInv'
<1>1. /\ RegistryNext
      /\ Affects("hfsm", closer = "destroyed" /\ Occupied(definitions) # Occupied(definitions'))
      /\ UNCHANGED <<codec, scratch, wrapped, closed, records, counted, popped, refusals>>
  BY DEF RegistryStep, codecVars, recordVars
<1>2. definitions' = definitions \/ closer # "destroyed" => late' = late
  BY <1>1 DEF Affects, ServicesInv
<1>3. ASSUME NEW t \in Callers, NEW v \in Payloads, CreateBegin(t, v) PROVE ServicesInv'
  <2>1. definitions' = definitions
    BY <1>3 DEF CreateBegin
  <2> QED  BY <1>1, <1>2, <1>3, <2>1, CreateBeginKeeps
<1>4. ASSUME NEW t \in Callers, NEW k \in {"lease", "release"}, NEW h \in DOMAIN named,
             Begin(t, k, h)
      PROVE  ServicesInv'
  <2>1. definitions' = definitions
    BY <1>4 DEF Begin
  <2> QED  BY <1>1, <1>2, <1>4, <2>1, BeginKeeps
<1>5. ASSUME NEW t \in Callers, Lease(t) PROVE ServicesInv'
  <2>1. definitions' = definitions
    BY <1>5 DEF Lease
  <2> QED  BY <1>1, <1>2, <1>5, <2>1, LeaseKeeps
<1>6. ASSUME NEW t \in Callers, CreateInsert(t) \/ Release(t) PROVE ServicesInv'
  BY <1>1, <1>6, CreateInsertKeeps, ReleaseKeeps
<1>7. CASE RetireDefinitions
  <2>1. closer # "destroyed"
    BY <1>7 DEF RetireDefinitions
  <2> QED  BY <1>1, <1>2, <1>7, <2>1, RetireAllKeeps
<1>8. CASE CancelRequested \/ MarkDestroyed
  <2>1. definitions' = definitions
    BY <1>8 DEF CancelRequested, MarkDestroyed
  <2> QED  BY <1>1, <1>2, <1>8, <2>1, FlagsKeep
<1> QED  BY <1>1, <1>3, <1>4, <1>5, <1>6, <1>7, <1>8, Zenon DEF RegistryNext, Known

LEMMA AdmitsKeep ==
    ASSUME IsFiniteSet(Callers), ServicesInv, NEW t \in Callers,
           ReserveBegin(t) \/ RecordBegin(t)
    PROVE  ServicesInv'
<1>1. /\ op[t].kind = "none"
      /\ UNCHANGED <<destroyed, definitions, closer, named, reply, codec, scratch, closed,
                     records, counted, popped, refusals, late>>
  BY DEF ReserveBegin, RecordBegin, Enters, NoOp,
         serviceVars, codecVars, recordVars
<1>2. LeasesAreRightful'
  BY <1>1 DEF ServicesInv, LeasesAreRightful
<1>3. PICK k \in {"reserve", "record"} :
         /\ op' = [op EXCEPT ![t] = [kind |-> k]]
         /\ k = "reserve" => codec # "destroyed"
         /\ k = "record" => ~closed
  BY DEF ReserveBegin, RecordBegin, Enters, MayReserve
<1> DEFINE c == [kind |-> k]
<1>4. c.kind = k /\ op' = [op EXCEPT ![t] = c]
  BY <1>3
<1> HIDE DEF c
<1> QED  BY <1>1, <1>2, <1>3, <1>4, CallKeeps

(* The resources of a context keep their promises to one another, for any     *)
(* number of threads, any capacity and any width of the generation.           *)
THEOREM ServicesInductive == ServicesSpec => []ServicesInv
<1>0. IsFiniteSet(Callers) /\ RecordCapacity \in Nat
  BY ServicesAssumption
<1>1. ServicesInit => ServicesInv
  BY <1>0, ServicesInitInv
<1>2. ServicesInv /\ [ServicesNext]_allVars => ServicesInv'
  <2> SUFFICES ASSUME ServicesInv, [ServicesNext]_allVars PROVE ServicesInv'
    OBVIOUS
  <2>1. CASE RegistryStep
    BY <1>0, <2>1, RegistryStepKeeps
  <2>2. ASSUME NEW t \in Callers,
               \/ ReserveBegin(t) \/ Reserve(t) \/ RecordBegin(t)
               \/ TryPush(t) \/ Count(t)
        PROVE  ServicesInv'
    BY <1>0, <2>2, AdmitsKeep, ReserveKeeps, TryPushKeeps, CountKeeps
  <2>3. CASE \/ \E t \in Callers : Pop(t)
             \/ CodecMark \/ CodecClear \/ DiagnosticsDestroy
             \/ UNCHANGED allVars
    BY <1>0, <2>3, QuietKeeps
  <2> QED  BY <2>1, <2>2, <2>3, Zenon DEF ServicesNext
<1> QED  BY <1>1, <1>2, PTL DEF ServicesSpec

(* A definition is leased and released only under the handle that was made    *)
(* for it, and never once destroy has emptied the arena.                      *)
THEOREM LeasesHold == ServicesSpec => []LeasesAreRightful
<1>1. ServicesInv => LeasesAreRightful
  BY DEF ServicesInv
<1> QED  BY <1>1, ServicesInductive, PTL

(* What arrives after destroy comes from calls that had passed their check:   *)
(* each thread can be late once, with each resource.                          *)
THEOREM LateEffectsHold == ServicesSpec => []LateEffectsBounded
<1>1. ASSUME ServicesInv PROVE LateEffectsBounded
  <2>1. \A k : UnderWay(k) = Cardinality(Doing(k))
    BY Zenon DEF UnderWay, Doing
  <2>2. DefinitionsBounded /\ ScratchBounded /\ RecordsBounded
    BY <1>1 DEF ServicesInv
  <2> QED  BY <2>1, <2>2
           DEF LateEffectsBounded, DefinitionsBounded, ScratchBounded, RecordsBounded, Bounded
<1> QED  BY <1>1, ServicesInductive, PTL

(* Records that were queued, and records a full queue turned away, are        *)
(* counted or about to be counted, and the queue keeps to its capacity.       *)
THEOREM RecordsHold == ServicesSpec => []RecordsAccounted
<1>1. ASSUME ServicesInv PROVE RecordsAccounted
  <2>1. RecordsBounded
    BY <1>1 DEF ServicesInv
  <2> QED  BY <2>1 DEF RecordsAccounted, RecordsBounded, Uncounted
<1> QED  BY <1>1, ServicesInductive, PTL
=============================================================================
