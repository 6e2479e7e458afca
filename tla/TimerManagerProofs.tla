------------------------- MODULE TimerManagerProofs -------------------------
(***************************************************************************)
(* The safety of TimerManager for any limits, any scopes and any slots: the  *)
(* books that the limits are enforced with, the handles, and the entries     *)
(* that wait for a drain; and that the manager implements TimerContract.     *)
(***************************************************************************)
EXTENDS TimerManager, SumLemmas, SequenceTheorems

TimerSlots == [generation : 1 .. MaxGeneration, record : Records \cup {NoTimer}]

QueueItems == [index : Nat, generation : Nat, due : Nat, seq : Nat, dispatch : Dispatches,
               scope : ScopeTokens, valid : BOOLEAN]

SlotRecords == [state : {"Unbound", "Armed", "Closed"}, dispatch : Dispatches \cup {NoDispatch},
                queue : Seq(QueueItems)]

ScopeRecords == [kind : Kinds, generation : 0 .. MaxGeneration, active : 0 .. MaxActive,
                 alive : BOOLEAN]

Types ==
    /\ running \in BOOLEAN
    /\ tick \in 0 .. MaxTick /\ schedules \in 0 .. MaxSchedules /\ sequence \in 1 .. MaxSequence
    /\ scopes \in [Ids -> ScopeRecords]
    /\ timers \in Seq(TimerSlots) /\ Len(timers) <= MaxTimers
    /\ free \in Seq(1 .. Len(timers))
    /\ slots \in Seq(SlotRecords) /\ Len(slots) <= MaxSlots
    /\ \A c \in 1 .. Len(slots) : slots[c].state = "Unbound" \/ slots[c].dispatch \in Dispatches
    /\ dispatches \subseteq Dispatches
    /\ IsFiniteSet(dispatches) /\ Cardinality(dispatches) <= MaxSlots

(* After shutdown there are no timers, and no call makes one.                *)
Stopped == running \/ Occupied = {}

(* A timer that is left was scheduled in the present scope, on a slot that    *)
(* has kept its dispatch id, and fires after the committed tick.             *)
TimersStand ==
    \A i \in Occupied :
        LET r == timers[i].record
        IN  /\ ScopeResolves(r.scope)
            /\ r.slot \in DOMAIN slots
            /\ slots[r.slot].state # "Unbound" /\ slots[r.slot].dispatch = r.dispatch
            /\ r.queued \/ r.due > tick

(* Every handle given out is of the past of its index, or of the timer there. *)
HandlesPast ==
    \A h \in DOMAIN issued :
        /\ h.index \in DOMAIN timers /\ h.generation \in Nat
        /\ running =>
              \/ h.generation < timers[h.index].generation
              \/ /\ h.generation = timers[h.index].generation /\ h.index \in Occupied
                 /\ timers[h.index].record.seq = issued[h]

(* Each index that is not in use waits for reuse once. *)
FreeList ==
    /\ \A i, k \in 1 .. Len(free) : free[i] = free[k] => i = k
    /\ running => {free[i] : i \in 1 .. Len(free)} = DOMAIN timers \ Occupied

Counted ==
    /\ live = Cardinality(Occupied)
    /\ running => \A id \in Ids : scopes[id].active = Cardinality(TimersOf(id))

(* The places of all queues. *)
Places == UNION {{<<c, i>> : i \in 1 .. Len(slots[c].queue)} : c \in DOMAIN slots}

ItemAt(p) == slots[p[1]].queue[p[2]]

(* What identifies a firing. *)
Key(f) == <<f.index, f.generation, f.due>>

(* Every entry has its own key, and its due tick has passed. *)
Entries ==
    /\ \A p, q \in Places : Key(ItemAt(p)) = Key(ItemAt(q)) => p = q
    /\ \A p \in Places : ItemAt(p).due <= tick

QueuesWithin ==
    /\ pending = Cardinality(Places) /\ pending <= MaxPending
    /\ \A c \in DOMAIN slots : Len(slots[c].queue) <= Depth

Delivers ==
    \A p \in Places :
        ItemAt(p).valid => /\ ScopeResolves(ItemAt(p).scope)
                           /\ slots[p[1]].state = "Armed"
                           /\ slots[p[1]].dispatch = ItemAt(p).dispatch

IInv ==
    /\ Types /\ Stopped /\ TimersStand /\ HandlesPast /\ FreeList /\ Counted
    /\ Entries /\ QueuesWithin /\ Delivers

-----------------------------------------------------------------------------
(* Sequences and sets *)

(* s lists the elements of S, each of them once. *)
Lists(s, S) ==
    /\ s \in Seq(S)
    /\ \A i, k \in 1 .. Len(s) : s[i] = s[k] => i = k
    /\ {s[i] : i \in 1 .. Len(s)} = S

LEMMA AscendingLists ==
    ASSUME NEW S \in SUBSET Nat, IsFiniteSet(S), NEW q \in Ascending(S)
    PROVE  /\ Lists(q, S) /\ Len(q) = Cardinality(S) /\ Len(q) \in Nat
           /\ \A i, k \in 1 .. Len(q) : i < k => q[i] < q[k]
<1>1. Cardinality(S) \in Nat
  BY FS_CardinalityType
<1> DEFINE n == Cardinality(S)
<1>2. /\ q \in [1 .. n -> S]
      /\ \A i, k \in 1 .. n : i < k => q[i] < q[k]
      /\ \A s \in S : \E i \in 1 .. n : q[i] = s
  BY DEF Ascending
<1> HIDE DEF n
<1>3. n \in Nat
  BY <1>1 DEF n
<1>4. q \in Seq(S) /\ Len(q) = n
  BY <1>2, <1>3
<1>5. \A i, k \in 1 .. n : q[i] = q[k] => i = k
  <2> SUFFICES ASSUME NEW i \in 1 .. n, NEW k \in 1 .. n, q[i] = q[k] PROVE i = k
    OBVIOUS
  <2>1. q[i] \in Nat
    BY <1>2
  <2>2. ~ (i < k) /\ ~ (k < i)
    BY <1>2, <2>1
  <2> QED  BY <1>3, <2>2
<1>6. {q[i] : i \in 1 .. n} = S
  BY <1>2
<1> QED  BY <1>2, <1>3, <1>4, <1>5, <1>6 DEF Lists, n

(* f takes the elements of K one to one to those of S. *)
Pairs(f, K, S) ==
    /\ \A k \in K : f[k] \in S
    /\ \A k, l \in K : f[k] = f[l] => k = l
    /\ \A s \in S : \E k \in K : f[k] = s

(* Reading such a function along a list. *)
LEMMA ListsImage ==
    ASSUME NEW K, NEW e, Lists(e, K), NEW f, NEW S, Pairs(f, K, S)
    PROVE  Lists([i \in 1 .. Len(e) |-> f[e[i]]], S) /\ Len([i \in 1 .. Len(e) |-> f[e[i]]]) = Len(e)
<1> DEFINE n == Len(e)
<1> DEFINE r == [i \in 1 .. n |-> f[e[i]]]
<1> USE DEF Pairs
<1>1. /\ e \in Seq(K) /\ n \in Nat
      /\ \A i, k \in 1 .. n : e[i] = e[k] => i = k
      /\ {e[i] : i \in 1 .. n} = K
  BY DEF Lists
<1>2. \A i \in 1 .. n : e[i] \in K
  BY <1>1
<1>3. \A i \in 1 .. n : r[i] = f[e[i]] /\ r[i] \in S
  BY <1>2
<1>4. r \in [1 .. n -> S]
  BY <1>3
<1> HIDE DEF n, r
<1>5. r \in Seq(S) /\ Len(r) = n
  BY <1>1, <1>4
<1>6. \A i, k \in 1 .. n : r[i] = r[k] => i = k
  BY <1>1, <1>2, <1>3
<1>7. {r[i] : i \in 1 .. n} = S
  <2>1. ASSUME NEW s \in S PROVE \E i \in 1 .. n : r[i] = s
    <3>1. PICK k \in K : f[k] = s
      OBVIOUS
    <3>2. PICK i \in 1 .. n : e[i] = k
      BY <1>1
    <3> QED  BY <1>3, <3>1, <3>2
  <2> QED  BY <1>3, <2>1
<1>8. Lists(r, S) /\ Len(r) = n
  BY <1>5, <1>6, <1>7 DEF Lists
<1> QED  BY <1>8 DEF r, n

(* Two lists of disjoint sets, one after the other. *)
LEMMA ListsConcat ==
    ASSUME NEW S, NEW T, NEW s, NEW t, Lists(s, S), Lists(t, T), S \cap T = {}
    PROVE  Lists(s \o t, S \cup T)
<1> DEFINE U == S \cup T
<1> DEFINE m == Len(s)
<1> DEFINE n == Len(t)
<1>1. /\ s \in Seq(U) /\ t \in Seq(U) /\ m \in Nat /\ n \in Nat
      /\ \A i \in 1 .. m : s[i] \in S
      /\ \A i \in 1 .. n : t[i] \in T
      /\ \A i, k \in 1 .. m : s[i] = s[k] => i = k
      /\ \A i, k \in 1 .. n : t[i] = t[k] => i = k
      /\ S = {s[i] : i \in 1 .. m} /\ T = {t[i] : i \in 1 .. n}
  <2>1. s \in Seq(U) /\ t \in Seq(U)
    BY SeqMonotonic DEF Lists
  <2>2. s \in Seq(S) /\ t \in Seq(T) /\ S = {s[i] : i \in 1 .. m} /\ T = {t[i] : i \in 1 .. n}
    BY DEF Lists
  <2>3. m \in Nat /\ n \in Nat
    BY <2>2
  <2>4. /\ \A i, k \in 1 .. m : s[i] = s[k] => i = k
        /\ \A i, k \in 1 .. n : t[i] = t[k] => i = k
    BY DEF Lists
  <2>5. (\A i \in 1 .. m : s[i] \in S) /\ (\A i \in 1 .. n : t[i] \in T)
    BY <2>2
  <2> HIDE DEF U, m, n
  <2> QED  BY <2>1, <2>2, <2>3, <2>4, <2>5
<1> DEFINE r == s \o t
<1> HIDE DEF U
<1>2. /\ r \in Seq(U) /\ Len(r) = m + n
      /\ \A i \in 1 .. m + n : r[i] = IF i <= m THEN s[i] ELSE t[i - m]
  BY <1>1, ConcatProperties
<1> HIDE DEF r, m, n
<1>3. \A i \in 1 .. m + n : IF i <= m THEN i \in 1 .. m ELSE i - m \in 1 .. n
  BY <1>1
<1>4. \A i, k \in 1 .. m + n : r[i] = r[k] => i = k
  <2> SUFFICES ASSUME NEW i \in 1 .. m + n, NEW k \in 1 .. m + n, r[i] = r[k] PROVE i = k
    OBVIOUS
  <2>1. CASE i <= m /\ k <= m
    BY <1>1, <1>2, <1>3, <2>1
  <2>2. CASE ~ (i <= m) /\ ~ (k <= m)
    <3>1. i - m = k - m
      BY <1>1, <1>2, <1>3, <2>2
    <3> QED  BY <1>1, <3>1
  <2>3. CASE i <= m /\ ~ (k <= m)
    BY <1>1, <1>2, <1>3, <2>3
  <2>4. CASE ~ (i <= m) /\ k <= m
    BY <1>1, <1>2, <1>3, <2>4
  <2> QED  BY <2>1, <2>2, <2>3, <2>4
<1>5. {r[i] : i \in 1 .. m + n} = U
  <2>1. \A i \in 1 .. m + n : r[i] \in U
    BY <1>1, <1>2, <1>3 DEF U
  <2>2. ASSUME NEW x \in S PROVE \E i \in 1 .. m + n : r[i] = x
    <3>1. PICK i \in 1 .. m : s[i] = x
      BY <1>1
    <3>2. i \in 1 .. m + n /\ i <= m
      BY <1>1
    <3> QED  BY <1>2, <3>1, <3>2
  <2>3. ASSUME NEW x \in T PROVE \E i \in 1 .. m + n : r[i] = x
    <3>1. PICK i \in 1 .. n : t[i] = x
      BY <1>1
    <3>2. m + i \in 1 .. m + n /\ ~ (m + i <= m) /\ (m + i) - m = i
      BY <1>1
    <3> QED  BY <1>2, <3>1, <3>2
  <2> QED  BY <2>1, <2>2, <2>3 DEF U
<1>6. Lists(r, U)
  BY <1>2, <1>4, <1>5 DEF Lists
<1> QED  BY <1>6 DEF r, U

LEMMA ListsOne == ASSUME NEW x PROVE Lists(<<x>>, {x})
BY DEF Lists

LEMMA ListsNone == Lists(<<>>, {})
BY DEF Lists

-----------------------------------------------------------------------------
(* Timers *)

LEMMA Limits ==
    /\ MaxTick \in Nat /\ MaxSequence \in Nat \ {0} /\ MaxGeneration \in Nat \ {0}
    /\ MaxActive \in Nat \ {0} /\ MaxSchedules \in Nat \ {0} /\ Depth \in Nat \ {0}
    /\ MaxScopes \in Nat \ {0} /\ MaxSlots \in Nat \ {0} /\ MaxTimers \in Nat \ {0}
    /\ MaxPending \in Nat \ {0}
    /\ \A v \in Intervals : v \in 1 .. MaxTick
    /\ NoTimer \notin Records /\ NoDispatch \notin Dispatches
BY TimerAssumption

LEMMA TimersTyped ==
    ASSUME Types
    PROVE  /\ Len(timers) \in Nat /\ DOMAIN timers = 1 .. Len(timers)
           /\ \A i \in 1 .. Len(timers) :
                 timers[i] \in TimerSlots /\ timers[i].generation \in 1 .. MaxGeneration
           /\ \A i \in Occupied : i \in 1 .. Len(timers) /\ timers[i].record \in Records
<1>1. timers \in Seq(TimerSlots)
  BY DEF Types
<1>2. Len(timers) \in Nat /\ DOMAIN timers = 1 .. Len(timers) /\ \A i \in 1 .. Len(timers) : timers[i] \in TimerSlots
  BY <1>1
<1> QED  BY <1>2 DEF TimerSlots, Occupied

LEMMA OccupiedFinite ==
    ASSUME Types, NEW S \in SUBSET Occupied
    PROVE  /\ IsFiniteSet(S) /\ Cardinality(S) \in Nat /\ S \in SUBSET Nat
           /\ IsFiniteSet(Occupied) /\ Cardinality(Occupied) \in 0 .. MaxTimers
<1> DEFINE n == Len(timers)
<1>1. n \in Nat /\ Occupied \subseteq 1 .. n /\ n <= MaxTimers
  BY TimersTyped DEF Types
<1>2. IsFiniteSet(1 .. n) /\ Cardinality(1 .. n) = n
  <2> HIDE DEF n
  <2>1. 1 \in Int /\ n \in Int
    BY <1>1
  <2>2. IsFiniteSet(1 .. n) /\ Cardinality(1 .. n) = IF 1 > n THEN 0 ELSE n - 1 + 1
    BY <2>1, FS_Interval
  <2> QED  BY <1>1, <2>2
<1> HIDE DEF n
<1>3. IsFiniteSet(Occupied) /\ Cardinality(Occupied) <= n
  BY <1>1, <1>2, FS_Subset
<1>4. IsFiniteSet(S)
  BY <1>3, FS_Subset
<1>5. Cardinality(S) \in Nat /\ Cardinality(Occupied) \in Nat
  BY <1>3, <1>4, FS_CardinalityType
<1>6. S \in SUBSET Nat
  BY <1>1
<1> QED  BY <1>1, <1>3, <1>4, <1>5, <1>6, Limits

(* The timers of S are retired, and their indices are freed in the order of s. *)
Retires(S, s) ==
    /\ S \subseteq Occupied /\ Lists(s, S)
    /\ timers' \in Seq(TimerSlots) /\ Len(timers') = Len(timers)
    /\ \A i \in S : /\ timers'[i].generation = timers[i].generation + 1
                    /\ timers'[i].record = NoTimer
    /\ \A i \in 1 .. Len(timers) : i \notin S =>
          /\ timers'[i].generation = timers[i].generation
          /\ (timers'[i].record = NoTimer) <=> (timers[i].record = NoTimer)
          /\ i \in Occupied => /\ timers'[i].record.seq = timers[i].record.seq
                               /\ timers'[i].record.scope = timers[i].record.scope
                               /\ timers'[i].record.slot = timers[i].record.slot
                               /\ timers'[i].record.dispatch = timers[i].record.dispatch
    /\ \A id \in Ids : scopes'[id].active = ActiveWithout(id, S)
    /\ live' = live - Cardinality(S)
    /\ free' = free \o s
    /\ UNCHANGED <<running, issued>>

LEMMA RetiresOccupied ==
    ASSUME Types, NEW S, NEW s, Retires(S, s)
    PROVE  /\ DOMAIN timers' = DOMAIN timers /\ Occupied' = Occupied \ S
           /\ \A id \in Ids : TimersOf(id)' = TimersOf(id) \ S
<1>1. DOMAIN timers = 1 .. Len(timers) /\ DOMAIN timers' = 1 .. Len(timers)
  BY TimersTyped DEF Retires
<1>2. Occupied' = Occupied \ S
  <2>1. \A i \in 1 .. Len(timers) : (timers'[i].record = NoTimer) <=> (timers[i].record = NoTimer \/ i \in S)
    BY DEF Retires
  <2> QED  BY <1>1, <2>1 DEF Occupied
<1>3. ASSUME NEW id \in Ids PROVE TimersOf(id)' = TimersOf(id) \ S
  <2>1. \A i \in Occupied : i \in 1 .. Len(timers)
    BY TimersTyped
  <2>2. \A i \in Occupied : i \notin S => timers'[i].record.scope = timers[i].record.scope
    BY <2>1 DEF Retires
  <2> QED  BY <1>2, <2>2 DEF TimersOf
<1> QED  BY <1>1, <1>2, <1>3

LEMMA RetiresKeepsHandles ==
    ASSUME Types, Stopped, HandlesPast, NEW S, NEW s, Retires(S, s)
    PROVE  Stopped' /\ HandlesPast'
<1>1. DOMAIN timers' = DOMAIN timers /\ Occupied' = Occupied \ S
  BY RetiresOccupied
<1>2. Stopped'
  BY <1>1 DEF Stopped, Retires
<1>3. HandlesPast'
  <2> SUFFICES ASSUME NEW h \in DOMAIN issued, running
               PROVE  \/ h.generation < timers'[h.index].generation
                      \/ /\ h.generation = timers'[h.index].generation /\ h.index \in Occupied'
                         /\ timers'[h.index].record.seq = issued[h]
    BY <1>1 DEF HandlesPast, Retires
  <2>1. /\ h.index \in 1 .. Len(timers)
        /\ \/ h.generation < timers[h.index].generation
           \/ /\ h.generation = timers[h.index].generation /\ h.index \in Occupied
              /\ timers[h.index].record.seq = issued[h]
    BY TimersTyped DEF HandlesPast
  <2>2. timers[h.index].generation \in Nat /\ h.generation \in Nat
    BY <2>1, TimersTyped, Limits DEF HandlesPast
  <2>3. CASE h.index \in S
    <3>1. timers'[h.index].generation = timers[h.index].generation + 1
      BY <2>3 DEF Retires
    <3>2. CASE h.generation = timers[h.index].generation
      BY <2>2, <3>1, <3>2
    <3>3. CASE h.generation < timers[h.index].generation
      BY <2>2, <3>1, <3>3
    <3> QED  BY <2>1, <3>2, <3>3
  <2>4. CASE h.index \notin S
    <3>1. /\ timers'[h.index].generation = timers[h.index].generation
          /\ h.index \in Occupied => timers'[h.index].record.seq = timers[h.index].record.seq
      BY <2>1, <2>4 DEF Retires
    <3> QED  BY <1>1, <2>1, <2>4, <3>1
  <2> QED  BY <2>3, <2>4
<1> QED  BY <1>2, <1>3

LEMMA RetiresKeepsFree ==
    ASSUME Types, Stopped, FreeList, NEW S, NEW s, Retires(S, s)
    PROVE  FreeList' /\ free' \in Seq(1 .. Len(timers'))
<1> DEFINE F == {free[i] : i \in 1 .. Len(free)}
<1> DEFINE n == Len(timers)
<1>1. DOMAIN timers' = DOMAIN timers /\ Occupied' = Occupied \ S /\ DOMAIN timers = 1 .. n
      /\ n = Len(timers') /\ UNCHANGED running /\ free' = free \o s
  BY RetiresOccupied, TimersTyped DEF Retires
<1>2. free \in Seq(1 .. n)
  BY DEF Types
<1>3. Lists(free, F)
  <2>1. \A i \in 1 .. Len(free) : free[i] \in F
    OBVIOUS
  <2>2. Len(free) \in Nat /\ free \in [1 .. Len(free) -> 1 .. n]
    BY <1>2
  <2>3. free \in [1 .. Len(free) -> F]
    BY <2>1, <2>2
  <2>4. free \in Seq(F)
    BY <2>2, <2>3
  <2> QED  BY <2>4 DEF Lists, FreeList
<1>4. F \cap S = {}
  <2>1. CASE running
    BY <2>1 DEF FreeList, Retires
  <2>2. CASE ~ running
    BY <2>2 DEF Stopped, Retires
  <2> QED  BY <2>1, <2>2
<1>5. Lists(free \o s, F \cup S)
  <2>1. Lists(s, S)
    BY DEF Retires
  <2> HIDE DEF F
  <2> QED  BY <1>3, <1>4, <2>1, ListsConcat
<1>6. S \subseteq 1 .. n /\ Occupied \subseteq 1 .. n
  BY TimersTyped DEF Retires
<1>7. F \subseteq 1 .. n
  <2>1. \A i \in 1 .. Len(free) : free[i] \in 1 .. n
    BY <1>2
  <2> QED  BY <2>1
<1>8. running => F = 1 .. n \ Occupied
  BY <1>1 DEF FreeList
<1> HIDE DEF F, n
<1>9. free' \in Seq(1 .. n)
  <2>1. free' \in Seq(F \cup S) /\ F \cup S \subseteq 1 .. n
    BY <1>1, <1>5, <1>6, <1>7 DEF Lists
  <2> QED  BY <2>1, SeqMonotonic
<1>10. FreeList'
  <2>1. /\ \A i, k \in 1 .. Len(free') : free'[i] = free'[k] => i = k
        /\ {free'[i] : i \in 1 .. Len(free')} = F \cup S
    BY <1>1, <1>5 DEF Lists
  <2>2. running => F \cup S = 1 .. n \ (Occupied \ S)
    BY <1>6, <1>8 DEF Retires
  <2> QED  BY <1>1, <2>1, <2>2 DEF FreeList
<1> QED  BY <1>1, <1>9, <1>10

LEMMA RetiresKeepsCounts ==
    ASSUME Types, Counted, NEW S, NEW s, Retires(S, s)
    PROVE  /\ Counted'
           /\ \A id \in Ids : ActiveWithout(id, S) \in 0 .. MaxActive
<1>1. Occupied' = Occupied \ S /\ \A id \in Ids : TimersOf(id)' = TimersOf(id) \ S
  BY RetiresOccupied
<1>2. IsFiniteSet(Occupied) /\ S \subseteq Occupied
  BY OccupiedFinite DEF Retires
<1>3. live' = Cardinality(Occupied')
  <2>1. Occupied \cap S = S
    BY <1>2
  <2>2. Cardinality(Occupied \ S) = Cardinality(Occupied) - Cardinality(S)
    BY <1>2, <2>1, FS_Difference
  <2> QED  BY <1>1, <2>2 DEF Counted, Retires
<1>4. ASSUME NEW id \in Ids
      PROVE  /\ ActiveWithout(id, S) \in 0 .. MaxActive
             /\ running => ActiveWithout(id, S) = Cardinality(TimersOf(id) \ S)
  <2> DEFINE T == TimersOf(id)
  <2> DEFINE U == {i \in S : timers[i].record.scope.id = id}
  <2>1. T \subseteq Occupied /\ U = T \cap S
    BY <1>2 DEF TimersOf
  <2>2. scopes[id].active \in 0 .. MaxActive
    BY DEF Types, ScopeRecords
  <2>3. ActiveWithout(id, S) = Minus(scopes[id].active, Cardinality(U))
    BY DEF ActiveWithout
  <2>4. running => scopes[id].active = Cardinality(T)
    BY DEF Counted
  <2> HIDE DEF T, U
  <2>5. IsFiniteSet(T)
    BY <1>2, <2>1, FS_Subset
  <2>6. IsFiniteSet(U) /\ Cardinality(U) <= Cardinality(T) /\ Cardinality(T \ S) = Cardinality(T) - Cardinality(U)
    BY <2>1, <2>5, FS_Intersection, FS_Difference
  <2>7. Cardinality(U) \in Nat /\ Cardinality(T) \in Nat
    BY <2>5, <2>6, FS_CardinalityType
  <2>8. ActiveWithout(id, S) \in 0 .. MaxActive
    BY <2>2, <2>3, <2>7, Limits DEF Minus
  <2>9. running => ActiveWithout(id, S) = Cardinality(T \ S)
    BY <2>3, <2>4, <2>6, <2>7 DEF Minus
  <2> QED  BY <2>8, <2>9 DEF T
<1>5. \A id \in Ids : scopes'[id].active = ActiveWithout(id, S) /\ UNCHANGED running
  BY DEF Retires
<1> QED  BY <1>1, <1>3, <1>4, <1>5 DEF Counted

(* TimersRetired, ScopesRetired: what they leave alone. *)
LEMMA TimersRetiredFacts ==
    ASSUME Types, NEW S \in SUBSET Occupied, CanRetire(S)
    PROVE  /\ TimersRetired(S) \in Seq(TimerSlots) /\ Len(TimersRetired(S)) = Len(timers)
           /\ \A i \in S : TimersRetired(S)[i] = [generation |-> timers[i].generation + 1, record |-> NoTimer]
           /\ \A i \in 1 .. Len(timers) : i \notin S => TimersRetired(S)[i] = timers[i]
<1> DEFINE n == Len(timers)
<1> DEFINE T == TimersRetired(S)
<1>1. n \in Nat /\ DOMAIN timers = 1 .. n
  BY TimersTyped
<1>2. \A i \in 1 .. n : T[i] = IF i \in S THEN [generation |-> timers[i].generation + 1, record |-> NoTimer]
                                         ELSE timers[i]
  BY <1>1 DEF TimersRetired
<1>3. ASSUME NEW i \in 1 .. n PROVE T[i] \in TimerSlots
  <2>1. timers[i] \in TimerSlots /\ timers[i].generation \in 1 .. MaxGeneration
    BY TimersTyped
  <2>2. CASE i \in S
    <3>1. timers[i].generation < MaxGeneration
      BY <2>2 DEF CanRetire
    <3>2. timers[i].generation + 1 \in 1 .. MaxGeneration
      BY <2>1, <3>1, Limits
    <3>3. T[i] = [generation |-> timers[i].generation + 1, record |-> NoTimer]
      BY <1>2, <2>2
    <3> HIDE DEF T
    <3> QED  BY <3>2, <3>3 DEF TimerSlots
  <2> QED  BY <1>2, <2>1, <2>2
<1>4. T \in [1 .. n -> TimerSlots]
  BY <1>1, <1>3 DEF TimersRetired
<1>5. \A i \in S : i \in 1 .. n
  BY TimersTyped
<1> HIDE DEF T, n
<1>6. T \in Seq(TimerSlots) /\ Len(T) = n
  BY <1>1, <1>4
<1> QED  BY <1>2, <1>5, <1>6 DEF T, n

LEMMA PlainRetires ==
    ASSUME Types, NEW S \in SUBSET Occupied, NEW s, CanRetire(S), Lists(s, S),
           timers' = TimersRetired(S),
           \A id \in Ids : scopes'[id].active = ActiveWithout(id, S),
           live' = live - Cardinality(S), free' = free \o s, UNCHANGED <<running, issued>>
    PROVE  Retires(S, s)
<1>1. /\ timers' \in Seq(TimerSlots) /\ Len(timers') = Len(timers)
      /\ \A i \in S : timers'[i] = [generation |-> timers[i].generation + 1, record |-> NoTimer]
      /\ \A i \in 1 .. Len(timers) : i \notin S => timers'[i] = timers[i]
  BY TimersRetiredFacts
<1>2. ASSUME NEW i \in S PROVE timers'[i].generation = timers[i].generation + 1 /\ timers'[i].record = NoTimer
  <2>1. timers'[i] = [generation |-> timers[i].generation + 1, record |-> NoTimer]
    BY <1>1
  <2> QED  BY <2>1
<1> QED  BY <1>1, <1>2 DEF Retires


LEMMA ActiveWithin ==
    ASSUME Types, NEW S \in SUBSET Occupied
    PROVE  \A id \in Ids : ActiveWithout(id, S) \in 0 .. MaxActive
<1> SUFFICES ASSUME NEW id \in Ids PROVE ActiveWithout(id, S) \in 0 .. MaxActive
  OBVIOUS
<1> DEFINE U == {i \in S : timers[i].record.scope.id = id}
<1>1. scopes[id].active \in 0 .. MaxActive
  BY DEF Types, ScopeRecords
<1>2. ActiveWithout(id, S) = Minus(scopes[id].active, Cardinality(U))
  BY DEF ActiveWithout
<1>3. U \in SUBSET Occupied
  OBVIOUS
<1> HIDE DEF U
<1>4. Cardinality(U) \in Nat
  BY <1>3, OccupiedFinite
<1> QED  BY <1>1, <1>2, <1>4, Limits DEF Minus
(* The scopes, with timers taken off their counts. *)
LEMMA ScopesRetiredFacts ==
    ASSUME Types, NEW S, \A id \in Ids : ActiveWithout(id, S) \in 0 .. MaxActive
    PROVE  /\ ScopesRetired(S) \in [Ids -> ScopeRecords]
           /\ \A id \in Ids : /\ ScopesRetired(S)[id].active = ActiveWithout(id, S)
                              /\ ScopesRetired(S)[id].kind = scopes[id].kind
                              /\ ScopesRetired(S)[id].generation = scopes[id].generation
                              /\ ScopesRetired(S)[id].alive = scopes[id].alive
<1>1. \A id \in Ids : scopes[id] \in ScopeRecords
  BY DEF Types
<1>2. \A id \in Ids : ScopesRetired(S)[id] = [scopes[id] EXCEPT !.active = ActiveWithout(id, S)]
  BY DEF ScopesRetired
<1>3. ASSUME NEW id \in Ids
      PROVE  /\ ScopesRetired(S)[id] \in ScopeRecords
             /\ ScopesRetired(S)[id].active = ActiveWithout(id, S)
             /\ ScopesRetired(S)[id].kind = scopes[id].kind
             /\ ScopesRetired(S)[id].generation = scopes[id].generation
             /\ ScopesRetired(S)[id].alive = scopes[id].alive
  BY <1>1, <1>2 DEF ScopeRecords
<1>4. ScopesRetired(S) \in [Ids -> ScopeRecords]
  BY <1>3 DEF ScopesRetired
<1> QED  BY <1>3, <1>4

-----------------------------------------------------------------------------
(* Slots and their queues *)

LEMMA SlotsTyped ==
    ASSUME Types
    PROVE  /\ Len(slots) \in Nat /\ DOMAIN slots = 1 .. Len(slots)
           /\ \A c \in 1 .. Len(slots) :
                 /\ slots[c] \in SlotRecords
                 /\ slots[c].queue \in Seq(QueueItems) /\ Len(slots[c].queue) \in Nat
                 /\ DOMAIN slots[c].queue = 1 .. Len(slots[c].queue)
                 /\ \A i \in 1 .. Len(slots[c].queue) : slots[c].queue[i] \in QueueItems
<1>1. slots \in Seq(SlotRecords)
  BY DEF Types
<1>2. Len(slots) \in Nat /\ DOMAIN slots = 1 .. Len(slots) /\ \A c \in 1 .. Len(slots) : slots[c] \in SlotRecords
  BY <1>1
<1>3. \A c \in 1 .. Len(slots) : slots[c].queue \in Seq(QueueItems)
  BY <1>2 DEF SlotRecords
<1>4. ASSUME NEW c \in 1 .. Len(slots)
      PROVE  /\ Len(slots[c].queue) \in Nat /\ DOMAIN slots[c].queue = 1 .. Len(slots[c].queue)
             /\ \A i \in 1 .. Len(slots[c].queue) : slots[c].queue[i] \in QueueItems
  <2> DEFINE q == slots[c].queue
  <2>1. q \in Seq(QueueItems)
    BY <1>3
  <2> HIDE DEF q
  <2>2. Len(q) \in Nat /\ DOMAIN q = 1 .. Len(q) /\ \A i \in 1 .. Len(q) : q[i] \in QueueItems
    BY <2>1
  <2> QED  BY <2>2 DEF q
<1> QED  BY <1>2, <1>3, <1>4

LEMMA PlaceIsPair ==
    \A p : p \in Places <=> \E c \in DOMAIN slots : \E i \in 1 .. Len(slots[c].queue) : p = <<c, i>>
BY DEF Places

LEMMA ItemAtPair == \A c, i : ItemAt(<<c, i>>) = slots[c].queue[i]
BY DEF ItemAt

(* Entry b stands where entry a stood, and may have lost its validity. *)
Marked(a, b) ==
    /\ Key(b) = Key(a) /\ b.due = a.due /\ b.seq = a.seq
    /\ b.scope = a.scope /\ b.dispatch = a.dispatch
    /\ b.valid => a.valid

(* The queues keep their places, and what is new is empty. *)
Marks ==
    /\ DOMAIN slots \subseteq DOMAIN slots'
    /\ \A c \in DOMAIN slots' : c \notin DOMAIN slots => slots'[c].queue = <<>>
    /\ \A c \in DOMAIN slots :
          /\ Len(slots'[c].queue) = Len(slots[c].queue)
          /\ \A i \in 1 .. Len(slots[c].queue) : Marked(slots[c].queue[i], slots'[c].queue[i])

LEMMA MarksPlaces ==
    ASSUME Marks
    PROVE  /\ Places' = Places
           /\ \A p \in Places : Marked(ItemAt(p), ItemAt(p)')
<1>1. Places' = Places
  <2>1. Places' = UNION {{<<c, i>> : i \in 1 .. Len(slots'[c].queue)} : c \in DOMAIN slots'}
    BY DEF Places
  <2>2. \A c \in DOMAIN slots' : c \notin DOMAIN slots => 1 .. Len(slots'[c].queue) = {}
    BY DEF Marks
  <2>3. \A c \in DOMAIN slots : c \in DOMAIN slots' /\ 1 .. Len(slots'[c].queue) = 1 .. Len(slots[c].queue)
    BY DEF Marks
  <2>4. ASSUME NEW p \in Places' PROVE p \in Places
    <3>1. PICK c \in DOMAIN slots' : \E i \in 1 .. Len(slots'[c].queue) : p = <<c, i>>
      BY <2>1
    <3>2. c \in DOMAIN slots /\ \E i \in 1 .. Len(slots[c].queue) : p = <<c, i>>
      BY <2>2, <2>3, <3>1
    <3> QED  BY <3>2 DEF Places
  <2>5. ASSUME NEW p \in Places PROVE p \in Places'
    <3>1. PICK c \in DOMAIN slots : \E i \in 1 .. Len(slots[c].queue) : p = <<c, i>>
      BY PlaceIsPair
    <3>2. c \in DOMAIN slots' /\ \E i \in 1 .. Len(slots'[c].queue) : p = <<c, i>>
      BY <2>3, <3>1
    <3> QED  BY <2>1, <3>2
  <2> QED  BY <2>4, <2>5
<1>2. ASSUME NEW p \in Places PROVE Marked(ItemAt(p), ItemAt(p)')
  <2>1. PICK c \in DOMAIN slots : \E i \in 1 .. Len(slots[c].queue) : p = <<c, i>>
    BY PlaceIsPair
  <2>2. PICK i \in 1 .. Len(slots[c].queue) : p = <<c, i>>
    BY <2>1
  <2>3. ItemAt(p) = slots[c].queue[i] /\ ItemAt(p)' = slots'[c].queue[i]
    BY <2>2 DEF ItemAt
  <2> QED  BY <2>3 DEF Marks
<1> QED  BY <1>1, <1>2

LEMMA MarksKeep ==
    ASSUME Entries, QueuesWithin, Marks, UNCHANGED <<tick, pending>>
    PROVE  Entries' /\ QueuesWithin'
<1>1. Places' = Places /\ \A p \in Places : Marked(ItemAt(p), ItemAt(p)')
  BY MarksPlaces
<1>2. \A p \in Places : Key(ItemAt(p)') = Key(ItemAt(p)) /\ ItemAt(p)'.due = ItemAt(p).due
  BY <1>1 DEF Marked
<1>3. Entries'
  <2>1. \A p, q \in Places : Key(ItemAt(p)') = Key(ItemAt(q)') => p = q
    BY <1>2 DEF Entries
  <2>2. \A p \in Places : ItemAt(p)'.due <= tick
    BY <1>2 DEF Entries
  <2>3. \A p : Key(ItemAt(p))' = Key(ItemAt(p)') /\ (ItemAt(p).due)' = ItemAt(p)'.due
    BY DEF Key
  <2> QED  BY <1>1, <2>1, <2>2, <2>3 DEF Entries
<1>4. QueuesWithin'
  <2>1. ASSUME NEW c \in DOMAIN slots' PROVE Len(slots'[c].queue) <= Depth
    <3>1. CASE c \in DOMAIN slots
      BY <3>1 DEF QueuesWithin, Marks
    <3>2. CASE c \notin DOMAIN slots
      <4>1. Len(slots'[c].queue) = 0
        BY <3>2 DEF Marks
      <4> QED  BY <4>1, Limits
    <3> QED  BY <3>1, <3>2
  <2>2. pending' = Cardinality(Places') /\ pending' <= MaxPending
    BY <1>1 DEF QueuesWithin
  <2> QED  BY <2>1, <2>2 DEF QueuesWithin
<1> QED  BY <1>3, <1>4

LEMMA UnmovedMarks == ASSUME UNCHANGED slots PROVE Marks
BY DEF Marks, Marked

(* Invalidated marks the entries of L. *)
LEMMA InvalidatedFacts ==
    ASSUME Types, NEW L
    PROVE  LET I == Invalidated(L)
           IN  /\ I \in Seq(SlotRecords) /\ Len(I) = Len(slots) /\ DOMAIN I = DOMAIN slots
               /\ \A c \in DOMAIN slots :
                     /\ I[c].state = slots[c].state /\ I[c].dispatch = slots[c].dispatch
                     /\ I[c].queue \in Seq(QueueItems)
                     /\ Len(I[c].queue) = Len(slots[c].queue)
                     /\ \A i \in 1 .. Len(slots[c].queue) :
                           /\ Marked(slots[c].queue[i], I[c].queue[i])
                           /\ I[c].queue[i].valid => slots[c].queue[i] \notin L
<1> DEFINE I == Invalidated(L)
<1> DEFINE n == Len(slots)
<1> DEFINE Mark(a) == [a EXCEPT !.valid = a.valid /\ a \notin L]
<1> DEFINE Q(c) == [i \in 1 .. Len(slots[c].queue) |-> Mark(slots[c].queue[i])]
<1>1. n \in Nat /\ DOMAIN slots = 1 .. n
  BY SlotsTyped
<1>2. ASSUME NEW c \in 1 .. n PROVE I[c] = [slots[c] EXCEPT !.queue = Q(c)]
  <2>1. DOMAIN slots[c].queue = 1 .. Len(slots[c].queue)
    BY SlotsTyped
  <2>2. I[c] = [slots[c] EXCEPT !.queue = [i \in DOMAIN slots[c].queue |-> Mark(slots[c].queue[i])]]
    BY <1>1 DEF Invalidated
  <2> HIDE DEF I, Mark
  <2> QED  BY <2>1, <2>2
<1>3. DOMAIN I = 1 .. n /\ I = [c \in 1 .. n |-> I[c]]
  BY <1>1 DEF Invalidated
<1>4. ASSUME NEW a \in QueueItems
      PROVE  /\ Mark(a) \in QueueItems /\ Marked(a, Mark(a))
             /\ Mark(a).valid => a \notin L
  <2>1. (a.valid /\ a \notin L) \in BOOLEAN
    OBVIOUS
  <2> QED  BY <2>1 DEF QueueItems, Marked, Key
<1>5. ASSUME NEW c \in 1 .. n
      PROVE  /\ I[c] \in SlotRecords
             /\ I[c].state = slots[c].state /\ I[c].dispatch = slots[c].dispatch
             /\ I[c].queue \in Seq(QueueItems)
             /\ Len(I[c].queue) = Len(slots[c].queue)
             /\ \A i \in 1 .. Len(slots[c].queue) :
                   /\ Marked(slots[c].queue[i], I[c].queue[i])
                   /\ I[c].queue[i].valid => slots[c].queue[i] \notin L
  <2> DEFINE m == Len(slots[c].queue)
  <2>1. slots[c] \in SlotRecords /\ m \in Nat /\ \A i \in 1 .. m : slots[c].queue[i] \in QueueItems
    BY SlotsTyped
  <2>2. I[c].queue = Q(c) /\ I[c].state = slots[c].state /\ I[c].dispatch = slots[c].dispatch
    BY <1>2, <2>1 DEF SlotRecords
  <2>3. \A i \in 1 .. m : Q(c)[i] = Mark(slots[c].queue[i])
    OBVIOUS
  <2>4. ASSUME NEW i \in 1 .. m
        PROVE  /\ Q(c)[i] \in QueueItems /\ Marked(slots[c].queue[i], Q(c)[i])
               /\ Q(c)[i].valid => slots[c].queue[i] \notin L
    <3> HIDE DEF Mark
    <3> QED  BY <1>4, <2>1, <2>3
  <2>5. Q(c) \in Seq(QueueItems) /\ Len(Q(c)) = m
    <3>1. \A i \in 1 .. m : Mark(slots[c].queue[i]) \in QueueItems
      BY <1>4, <2>1
    <3> HIDE DEF Mark
    <3> QED  BY <2>1, <3>1
  <2>6. I[c] \in SlotRecords
    <3> HIDE DEF Q
    <3> QED  BY <1>2, <2>1, <2>5 DEF SlotRecords
  <2> HIDE DEF Q, Mark, I
  <2> QED  BY <2>2, <2>4, <2>5, <2>6
<1>6. I \in Seq(SlotRecords) /\ Len(I) = n
  <2> HIDE DEF I, n
  <2>1. I \in [1 .. n -> SlotRecords]
    BY <1>3, <1>5
  <2> QED  BY <1>1, <2>1
<1> HIDE DEF I, n
<1>7. /\ I \in Seq(SlotRecords) /\ Len(I) = Len(slots) /\ DOMAIN I = DOMAIN slots
      /\ \A c \in DOMAIN slots :
            /\ I[c].state = slots[c].state /\ I[c].dispatch = slots[c].dispatch
            /\ I[c].queue \in Seq(QueueItems)
            /\ Len(I[c].queue) = Len(slots[c].queue)
            /\ \A i \in 1 .. Len(slots[c].queue) :
                  /\ Marked(slots[c].queue[i], I[c].queue[i])
                  /\ I[c].queue[i].valid => slots[c].queue[i] \notin L
  BY <1>1, <1>3, <1>5, <1>6 DEF n
<1> QED  BY <1>7 DEF I

(* What an entry at a place is an element of. *)
LEMMA PlacesHoldItems ==
    ASSUME Types
    PROVE  /\ \A p \in Places : ItemAt(p) \in Items /\ ItemAt(p) \in QueueItems
           /\ \A item \in Items : \E p \in Places : ItemAt(p) = item
<1>1. /\ DOMAIN slots = 1 .. Len(slots)
      /\ \A c \in 1 .. Len(slots) : DOMAIN slots[c].queue = 1 .. Len(slots[c].queue)
      /\ \A c \in 1 .. Len(slots) : \A i \in 1 .. Len(slots[c].queue) : slots[c].queue[i] \in QueueItems
  BY SlotsTyped
<1>2. \A c \in DOMAIN slots : Range(slots[c].queue) = {slots[c].queue[i] : i \in 1 .. Len(slots[c].queue)}
  BY <1>1 DEF Range
<1>3. ASSUME NEW p \in Places PROVE ItemAt(p) \in Items /\ ItemAt(p) \in QueueItems
  <2>1. PICK c \in DOMAIN slots : \E i \in 1 .. Len(slots[c].queue) : p = <<c, i>>
    BY PlaceIsPair
  <2>2. PICK i \in 1 .. Len(slots[c].queue) : p = <<c, i>>
    BY <2>1
  <2>3. ItemAt(p) = slots[c].queue[i]
    BY <2>2 DEF ItemAt
  <2>4. ItemAt(p) \in Range(slots[c].queue)
    BY <1>2, <2>3
  <2> QED  BY <1>1, <2>3, <2>4 DEF Items
<1>4. ASSUME NEW item \in Items PROVE \E p \in Places : ItemAt(p) = item
  <2>1. PICK c \in DOMAIN slots : item \in Range(slots[c].queue)
    BY DEF Items
  <2>2. PICK i \in 1 .. Len(slots[c].queue) : item = slots[c].queue[i]
    BY <1>2, <2>1
  <2>3. <<c, i>> \in Places /\ ItemAt(<<c, i>>) = item
    BY <2>2, PlaceIsPair DEF ItemAt
  <2> QED  BY <2>3
<1> QED  BY <1>3, <1>4

-----------------------------------------------------------------------------
(* What a call leaves true *)

LEMMA UntouchedTimers ==
    ASSUME Stopped, HandlesPast, FreeList, Counted,
           UNCHANGED <<running, timers, scopes, free, live, issued>>
    PROVE  Stopped' /\ HandlesPast' /\ FreeList' /\ Counted'
<1>1. Occupied' = Occupied /\ \A id \in Ids : TimersOf(id)' = TimersOf(id)
  BY DEF Occupied, TimersOf
<1>2. Stopped'
  BY <1>1 DEF Stopped
<1>3. HandlesPast'
  BY <1>1 DEF HandlesPast
<1>4. FreeList'
  BY <1>1 DEF FreeList
<1>5. Counted'
  BY <1>1 DEF Counted
<1> QED  BY <1>2, <1>3, <1>4, <1>5

(* A slot stays bound to its dispatch id. *)
SlotsStayBound ==
    \A c \in DOMAIN slots :
        /\ c \in DOMAIN slots'
        /\ slots[c].state # "Unbound" => /\ slots'[c].state # "Unbound"
                                         /\ slots'[c].dispatch = slots[c].dispatch

(* The timers that are left are old ones whose scope is still present. *)
TimersStay ==
    \A i \in Occupied' :
        /\ i \in Occupied
        /\ timers'[i].record.scope = timers[i].record.scope
        /\ timers'[i].record.slot = timers[i].record.slot
        /\ timers'[i].record.dispatch = timers[i].record.dispatch
        /\ timers'[i].record.queued \/ timers'[i].record.due > tick'
        /\ ScopeResolves(timers[i].record.scope)'

LEMMA TimersKeepStanding ==
    ASSUME TimersStand, SlotsStayBound, TimersStay
    PROVE  TimersStand'
<1> SUFFICES ASSUME NEW i \in Occupied'
             PROVE  /\ ScopeResolves(timers[i].record.scope)'
                    /\ timers'[i].record.slot \in DOMAIN slots'
                    /\ slots'[timers'[i].record.slot].state # "Unbound"
                    /\ slots'[timers'[i].record.slot].dispatch = timers'[i].record.dispatch
                    /\ timers'[i].record.queued \/ timers'[i].record.due > tick'
  BY DEF TimersStand
<1> DEFINE r == timers[i].record
<1>1. /\ i \in Occupied
      /\ timers'[i].record.scope = r.scope /\ timers'[i].record.slot = r.slot
      /\ timers'[i].record.dispatch = r.dispatch
      /\ timers'[i].record.queued \/ timers'[i].record.due > tick'
  BY DEF TimersStay
<1>2. ScopeResolves(timers[i].record.scope)'
  BY DEF TimersStay
<1>3. r.slot \in DOMAIN slots /\ slots[r.slot].state # "Unbound" /\ slots[r.slot].dispatch = r.dispatch
  BY <1>1 DEF TimersStand
<1>4. /\ r.slot \in DOMAIN slots'
      /\ slots'[r.slot].state # "Unbound" /\ slots'[r.slot].dispatch = r.dispatch
  BY <1>3 DEF SlotsStayBound
<1> QED  BY <1>1, <1>2, <1>4

(* An entry that is still valid still has its scope and its slot. *)
ValidEntriesStay ==
    \A p \in Places :
        ItemAt(p)'.valid /\ ItemAt(p).valid =>
            /\ ScopeResolves(ItemAt(p).scope) => ScopeResolves(ItemAt(p).scope)'
            /\ slots'[p[1]].state = slots[p[1]].state
            /\ slots'[p[1]].dispatch = slots[p[1]].dispatch

LEMMA EntriesKeepDelivering ==
    ASSUME Delivers, Marks, ValidEntriesStay
    PROVE  Delivers'
<1>1. Places' = Places /\ \A p \in Places : Marked(ItemAt(p), ItemAt(p)')
  BY MarksPlaces
<1> SUFFICES ASSUME NEW p \in Places, ItemAt(p)'.valid
             PROVE  /\ ScopeResolves(ItemAt(p).scope)'
                    /\ slots'[p[1]].state = "Armed"
                    /\ slots'[p[1]].dispatch = ItemAt(p)'.dispatch
  BY <1>1 DEF Delivers
<1>2. ItemAt(p).valid /\ ItemAt(p)'.scope = ItemAt(p).scope /\ ItemAt(p)'.dispatch = ItemAt(p).dispatch
  BY <1>1 DEF Marked
<1>3. /\ ScopeResolves(ItemAt(p).scope) /\ slots[p[1]].state = "Armed"
      /\ slots[p[1]].dispatch = ItemAt(p).dispatch
  BY <1>2 DEF Delivers
<1>4. ScopeResolves(ItemAt(p).scope)' /\ slots'[p[1]].state = "Armed" /\ slots'[p[1]].dispatch = ItemAt(p).dispatch
  BY <1>2, <1>3 DEF ValidEntriesStay
<1> QED  BY <1>2, <1>4
-----------------------------------------------------------------------------
(* The calls about slots and dispatch ids *)

(* A call that leaves the timers, the scopes, and every entry alone. *)
LEMMA SlotCallKeeps ==
    ASSUME IInv, Types', Marks, SlotsStayBound,
           UNCHANGED <<running, tick, timers, scopes, free, live, issued, pending>>,
           \A p \in Places : ItemAt(p)'.valid /\ ItemAt(p).valid =>
              /\ slots'[p[1]].state = slots[p[1]].state
              /\ slots'[p[1]].dispatch = slots[p[1]].dispatch
    PROVE  IInv'
<1>1. Stopped' /\ HandlesPast' /\ FreeList' /\ Counted'
  BY UntouchedTimers DEF IInv
<1>2. Entries' /\ QueuesWithin'
  BY MarksKeep DEF IInv
<1>3. TimersStay
  <2>1. Occupied' = Occupied
    BY DEF Occupied
  <2>2. TimersStand
    BY DEF IInv
  <2> SUFFICES ASSUME NEW i \in Occupied
               PROVE  /\ timers[i].record.queued \/ timers[i].record.due > tick
                      /\ ScopeResolves(timers[i].record.scope)'
    BY <2>1 DEF TimersStay
  <2>3. ScopeResolves(timers[i].record.scope)
    BY <2>2 DEF TimersStand
  <2>4. timers[i].record.queued \/ timers[i].record.due > tick
    BY <2>2 DEF TimersStand
  <2> QED  BY <2>3, <2>4 DEF ScopeResolves
<1>4. TimersStand'
  BY <1>3, TimersKeepStanding DEF IInv
<1>5. ValidEntriesStay
  <2>1. \A p \in Places : ItemAt(p)'.scope = ItemAt(p).scope
    BY MarksPlaces DEF Marked
  <2>2. ASSUME NEW p \in Places, ScopeResolves(ItemAt(p).scope) PROVE ScopeResolves(ItemAt(p).scope)'
    BY <2>1, <2>2 DEF ScopeResolves
  <2> QED  BY <2>2 DEF ValidEntriesStay
<1>6. Delivers'
  BY <1>5, EntriesKeepDelivering DEF IInv
<1> QED  BY <1>1, <1>2, <1>4, <1>6 DEF IInv

LEMMA CreateSlotKeeps ==
    ASSUME IInv, CreateSlot
    PROVE  IInv' /\ Marks
<1> DEFINE n == Len(slots)
<1> DEFINE new == [state |-> "Unbound", dispatch |-> NoDispatch, queue |-> <<>>]
<1>1. /\ slots' = Append(slots, new) /\ Len(slots) < MaxSlots
      /\ UNCHANGED <<running, tick, schedules, sequence, scopes, timers, free, live, pending,
                     dispatches, host>>
  BY DEF CreateSlot
<1>2. slots \in Seq(SlotRecords) /\ n \in Nat /\ DOMAIN slots = 1 .. n
  BY SlotsTyped DEF IInv, Types
<1>3. new \in SlotRecords /\ new.queue = <<>>
  BY DEF SlotRecords
<1>4. /\ slots' \in Seq(SlotRecords) /\ Len(slots') = n + 1 /\ DOMAIN slots' = 1 .. n + 1
      /\ \A c \in 1 .. n : slots'[c] = slots[c]
      /\ slots'[n + 1] = new
  <2> HIDE DEF new
  <2> QED  BY <1>1, <1>2, <1>3
<1> HIDE DEF n
<1>5. Marks /\ SlotsStayBound
  <2>1. \A c \in DOMAIN slots' : c \notin DOMAIN slots => c = n + 1
    BY <1>2, <1>4
  <2>2. DOMAIN slots \subseteq DOMAIN slots'
    BY <1>2, <1>4
  <2>3. \A c \in DOMAIN slots : slots'[c] = slots[c]
    BY <1>2, <1>4
  <2> QED  BY <1>3, <1>4, <2>1, <2>2, <2>3 DEF Marks, Marked, SlotsStayBound
<1>6. Types'
  <2>1. Len(slots') <= MaxSlots
    BY <1>1, <1>2, <1>4, Limits DEF n
  <2>2. ASSUME NEW c \in 1 .. Len(slots') PROVE slots'[c].state = "Unbound" \/ slots'[c].dispatch \in Dispatches
    <3>1. CASE c = n + 1
      BY <1>4, <3>1
    <3>2. CASE c \in 1 .. n
      BY <1>4, <3>2 DEF IInv, Types, n
    <3> QED  BY <1>2, <1>4, <3>1, <3>2
  <2> QED  BY <1>1, <1>4, <2>1, <2>2 DEF IInv, Types
<1>7. ASSUME NEW p \in Places PROVE slots'[p[1]] = slots[p[1]]
  <2>1. PICK c \in DOMAIN slots : \E i \in 1 .. Len(slots[c].queue) : p = <<c, i>>
    BY PlaceIsPair
  <2>2. p[1] = c
    BY <2>1
  <2> QED  BY <1>2, <1>4, <2>2
<1> QED  BY <1>1, <1>5, <1>6, <1>7, SlotCallKeeps DEF host

LEMMA RegisterDispatchKeeps ==
    ASSUME IInv, NEW d \in Dispatches, CanRegister(d), dispatches' = dispatches \cup {d}
    PROVE  /\ dispatches' \subseteq Dispatches
           /\ IsFiniteSet(dispatches') /\ Cardinality(dispatches') <= MaxSlots
<1>1. dispatches \subseteq Dispatches /\ IsFiniteSet(dispatches) /\ Cardinality(dispatches) <= MaxSlots
  BY DEF IInv, Types
<1>2. CASE d \in dispatches
  <2>1. dispatches' = dispatches
    BY <1>2
  <2> QED  BY <1>1, <2>1
<1>3. CASE d \notin dispatches
  <2>1. Cardinality(dispatches) < MaxSlots
    BY <1>3 DEF CanRegister
  <2>2. IsFiniteSet(dispatches') /\ Cardinality(dispatches') = Cardinality(dispatches) + 1
    BY <1>1, <1>3, FS_AddElement
  <2>3. Cardinality(dispatches) \in Nat
    BY <1>1, FS_CardinalityType
  <2> QED  BY <1>1, <2>1, <2>2, <2>3, Limits
<1> QED  BY <1>2, <1>3

LEMMA DispatchKeeps ==
    ASSUME IInv, dispatches' \subseteq Dispatches,
           IsFiniteSet(dispatches'), Cardinality(dispatches') <= MaxSlots,
           UNCHANGED <<running, tick, schedules, sequence, scopes, timers, free, live, slots,
                       pending, host>>
    PROVE  IInv'
<1>1. Types'
  BY DEF IInv, Types
<1>2. Marks /\ SlotsStayBound
  BY UnmovedMarks DEF SlotsStayBound
<1> QED  BY <1>1, <1>2, SlotCallKeeps DEF host

LEMMA TryRegisterDispatchKeeps ==
    ASSUME IInv, NEW d \in Dispatches, TryRegisterDispatch(d)
    PROVE  IInv'
<1>1. CanRegister(d) /\ dispatches' = dispatches \cup {d}
  BY DEF TryRegisterDispatch
<1>2. /\ dispatches' \subseteq Dispatches
      /\ IsFiniteSet(dispatches') /\ Cardinality(dispatches') <= MaxSlots
  BY <1>1, RegisterDispatchKeeps
<1> QED  BY <1>2, DispatchKeeps DEF TryRegisterDispatch

LEMMA RemoveDispatchKeeps ==
    ASSUME IInv, NEW d \in Dispatches, RemoveDispatch(d)
    PROVE  IInv'
<1>1. dispatches \subseteq Dispatches /\ IsFiniteSet(dispatches) /\ Cardinality(dispatches) <= MaxSlots
  BY DEF IInv, Types
<1>2. dispatches' \subseteq dispatches
  BY DEF RemoveDispatch
<1>3. IsFiniteSet(dispatches') /\ Cardinality(dispatches') <= Cardinality(dispatches)
  BY <1>1, <1>2, FS_Subset
<1>4. Cardinality(dispatches') <= MaxSlots
  <2>1. Cardinality(dispatches') \in Nat /\ Cardinality(dispatches) \in Nat
    BY <1>1, <1>3, FS_CardinalityType
  <2> QED  BY <1>1, <1>3, <2>1, Limits
<1> QED  BY <1>1, <1>2, <1>3, <1>4, DispatchKeeps DEF RemoveDispatch

LEMMA ArmKeeps ==
    ASSUME IInv, NEW c, NEW d \in Dispatches, Arm(c, d),
           dispatches' \subseteq Dispatches,
           IsFiniteSet(dispatches'), Cardinality(dispatches') <= MaxSlots
    PROVE  IInv' /\ Marks
<1> DEFINE n == Len(slots)
<1>1. /\ slots \in Seq(SlotRecords) /\ n \in Nat /\ DOMAIN slots = 1 .. n /\ n <= MaxSlots
      /\ \A b \in 1 .. n : slots[b] \in SlotRecords
  BY SlotsTyped DEF IInv, Types
<1>2. /\ c \in 1 .. n
      /\ slots[c].state = "Unbound" \/ (slots[c].state = "Armed" /\ slots[c].dispatch = d)
      /\ slots' = [slots EXCEPT ![c].state = "Armed", ![c].dispatch = d]
      /\ UNCHANGED <<running, tick, schedules, sequence, scopes, timers, free, live, pending, host>>
  <2>1. c \in DOMAIN slots
    BY DEF Arm
  <2>2. slots' = [slots EXCEPT ![c].state = "Armed", ![c].dispatch = d]
    BY Zenon DEF Arm
  <2>3. slots[c].state = "Unbound" \/ (slots[c].state = "Armed" /\ slots[c].dispatch = d)
    BY DEF Arm
  <2>4. UNCHANGED <<running, tick, schedules, sequence, scopes, timers, free, live, pending, host>>
    BY DEF Arm
  <2>5. c \in 1 .. n
    BY <1>1, <2>1
  <2> QED  BY <2>2, <2>3, <2>4, <2>5
<1>3. /\ slots'[c].state = "Armed" /\ slots'[c].dispatch = d /\ slots'[c].queue = slots[c].queue
      /\ slots'[c] \in SlotRecords
      /\ \A b \in 1 .. n : b # c => slots'[b] = slots[b]
      /\ DOMAIN slots' = 1 .. n
  <2>1. slots[c] \in SlotRecords
    BY <1>1, <1>2
  <2> QED  BY <1>1, <1>2, <2>1 DEF SlotRecords
<1>4. slots' \in Seq(SlotRecords) /\ Len(slots') = n
  <2>1. slots' = [b \in 1 .. n |-> slots'[b]]
    BY <1>1, <1>2
  <2>2. \A b \in 1 .. n : slots'[b] \in SlotRecords
    BY <1>1, <1>3
  <2> QED  BY <1>1, <2>1, <2>2
<1>5. Types'
  <2>1. \A b \in 1 .. n : slots'[b].state = "Unbound" \/ slots'[b].dispatch \in Dispatches
    <3> SUFFICES ASSUME NEW b \in 1 .. n
                 PROVE  slots'[b].state = "Unbound" \/ slots'[b].dispatch \in Dispatches
      OBVIOUS
    <3>1. CASE b = c
      BY <1>3, <3>1
    <3>2. CASE b # c
      BY <1>3, <3>2 DEF IInv, Types
    <3> QED  BY <3>1, <3>2
  <2> HIDE DEF n
  <2> QED  BY <1>1, <1>2, <1>4, <2>1 DEF IInv, Types
<1>6. Marks
  <2>1. \A b \in 1 .. n : slots'[b].queue = slots[b].queue
    BY <1>3
  <2> QED  BY <1>1, <1>3, <2>1 DEF Marks, Marked
<1>7. SlotsStayBound
  <2>1. ASSUME NEW b \in 1 .. n, slots[b].state # "Unbound"
        PROVE  slots'[b].state # "Unbound" /\ slots'[b].dispatch = slots[b].dispatch
    <3>1. CASE b = c
      BY <1>2, <1>3, <2>1, <3>1
    <3>2. CASE b # c
      BY <1>3, <2>1, <3>2
    <3> QED  BY <3>1, <3>2
  <2> QED  BY <1>1, <1>3, <2>1 DEF SlotsStayBound
<1>8. ASSUME NEW p \in Places, ItemAt(p)'.valid, ItemAt(p).valid
      PROVE  slots'[p[1]].state = slots[p[1]].state /\ slots'[p[1]].dispatch = slots[p[1]].dispatch
  <2>1. slots[p[1]].state = "Armed"
    BY <1>8 DEF IInv, Delivers
  <2>2. PICK b \in DOMAIN slots : \E i \in 1 .. Len(slots[b].queue) : p = <<b, i>>
    BY PlaceIsPair
  <2>3. p[1] = b
    BY <2>2
  <2>4. CASE b = c
    BY <1>2, <1>3, <2>1, <2>3, <2>4
  <2>5. CASE b # c
    BY <1>1, <1>3, <2>3, <2>5
  <2> QED  BY <2>4, <2>5
<1> QED  BY <1>2, <1>5, <1>6, <1>7, <1>8, SlotCallKeeps DEF host

LEMMA BindSlotKeeps ==
    ASSUME IInv, NEW c, NEW d \in Dispatches, BindSlot(c, d)
    PROVE  IInv' /\ Marks
<1>1. CanRegister(d) /\ dispatches' = dispatches \cup {d} /\ Arm(c, d)
  BY DEF BindSlot
<1>2. /\ dispatches' \subseteq Dispatches
      /\ IsFiniteSet(dispatches') /\ Cardinality(dispatches') <= MaxSlots
  BY <1>1, RegisterDispatchKeeps
<1> QED  BY <1>1, <1>2, ArmKeeps

LEMMA ArmSlotKeeps ==
    ASSUME IInv, NEW c, NEW d \in Dispatches, ArmSlot(c, d)
    PROVE  IInv' /\ Marks
<1>1. Arm(c, d) /\ UNCHANGED dispatches
  BY DEF ArmSlot
<1>2. /\ dispatches' \subseteq Dispatches
      /\ IsFiniteSet(dispatches') /\ Cardinality(dispatches') <= MaxSlots
  BY <1>1 DEF IInv, Types
<1> QED  BY <1>1, <1>2, ArmKeeps

LEMMA CloseSlotKeeps ==
    ASSUME IInv, NEW c, CloseSlot(c)
    PROVE  IInv' /\ Marks
<1> DEFINE n == Len(slots)
<1> DEFINE I == Invalidated(Items)
<1>1. /\ slots \in Seq(SlotRecords) /\ n \in Nat /\ DOMAIN slots = 1 .. n /\ n <= MaxSlots
      /\ \A b \in 1 .. n : slots[b] \in SlotRecords
  BY SlotsTyped DEF IInv, Types
<1>2. /\ c \in 1 .. n /\ slots[c].state = "Armed"
      /\ slots' = [slots EXCEPT ![c].state = "Closed", ![c].queue = I[c].queue]
      /\ UNCHANGED <<running, tick, schedules, sequence, scopes, timers, free, live, pending,
                     dispatches, host>>
  BY <1>1 DEF CloseSlot
<1>3. /\ I[c].queue \in Seq(QueueItems)
      /\ Len(I[c].queue) = Len(slots[c].queue)
      /\ \A i \in 1 .. Len(slots[c].queue) :
            /\ Marked(slots[c].queue[i], I[c].queue[i])
            /\ I[c].queue[i].valid => slots[c].queue[i] \notin Items
  BY <1>1, <1>2, InvalidatedFacts DEF IInv
<1> HIDE DEF I
<1>4. /\ slots'[c].state = "Closed" /\ slots'[c].dispatch = slots[c].dispatch
      /\ slots'[c].queue = I[c].queue
      /\ slots'[c] \in SlotRecords
      /\ \A b \in 1 .. n : b # c => slots'[b] = slots[b]
      /\ DOMAIN slots' = 1 .. n
  <2>1. slots[c] \in SlotRecords
    BY <1>1, <1>2
  <2> QED  BY <1>1, <1>2, <1>3, <2>1 DEF SlotRecords
<1>5. slots' \in Seq(SlotRecords) /\ Len(slots') = n
  <2>1. slots' = [b \in 1 .. n |-> slots'[b]]
    BY <1>1, <1>2
  <2>2. \A b \in 1 .. n : slots'[b] \in SlotRecords
    BY <1>1, <1>4
  <2> QED  BY <1>1, <2>1, <2>2
<1>6. Types'
  <2>1. \A b \in 1 .. n : slots'[b].state = "Unbound" \/ slots'[b].dispatch \in Dispatches
    <3> SUFFICES ASSUME NEW b \in 1 .. n
                 PROVE  slots'[b].state = "Unbound" \/ slots'[b].dispatch \in Dispatches
      OBVIOUS
    <3>1. CASE b = c
      <4>1. slots[c].dispatch \in Dispatches
        BY <1>2 DEF IInv, Types
      <4> QED  BY <1>4, <3>1, <4>1
    <3>2. CASE b # c
      BY <1>4, <3>2 DEF IInv, Types
    <3> QED  BY <3>1, <3>2
  <2> HIDE DEF n
  <2> QED  BY <1>1, <1>2, <1>5, <2>1 DEF IInv, Types
<1>7. Marks
  <2>1. ASSUME NEW b \in 1 .. n
        PROVE  /\ Len(slots'[b].queue) = Len(slots[b].queue)
               /\ \A i \in 1 .. Len(slots[b].queue) : Marked(slots[b].queue[i], slots'[b].queue[i])
    <3>1. CASE b = c
      BY <1>3, <1>4, <3>1
    <3>2. CASE b # c
      BY <1>4, <3>2 DEF Marked
    <3> QED  BY <3>1, <3>2
  <2> QED  BY <1>1, <1>4, <2>1 DEF Marks
<1>8. SlotsStayBound
  <2>1. ASSUME NEW b \in 1 .. n, slots[b].state # "Unbound"
        PROVE  slots'[b].state # "Unbound" /\ slots'[b].dispatch = slots[b].dispatch
    <3>1. CASE b = c
      BY <1>2, <1>4, <2>1, <3>1
    <3>2. CASE b # c
      BY <1>4, <2>1, <3>2
    <3> QED  BY <3>1, <3>2
  <2> QED  BY <1>1, <1>4, <2>1 DEF SlotsStayBound
<1>9. ASSUME NEW p \in Places, ItemAt(p)'.valid
      PROVE  slots'[p[1]].state = slots[p[1]].state /\ slots'[p[1]].dispatch = slots[p[1]].dispatch
  <2>1. PICK b \in DOMAIN slots : \E i \in 1 .. Len(slots[b].queue) : p = <<b, i>>
    BY PlaceIsPair
  <2>2. PICK i \in 1 .. Len(slots[b].queue) : p = <<b, i>>
    BY <2>1
  <2>3. ItemAt(p) = slots[b].queue[i] /\ ItemAt(p)' = slots'[b].queue[i] /\ p[1] = b
    BY <2>2 DEF ItemAt
  <2>4. ItemAt(p) \in Items
    BY PlacesHoldItems DEF IInv
  <2>5. b # c
    BY <1>3, <1>4, <1>9, <2>3, <2>4
  <2> QED  BY <1>1, <1>4, <2>3, <2>5
<1> QED  BY <1>2, <1>6, <1>7, <1>8, <1>9, SlotCallKeeps DEF host
-----------------------------------------------------------------------------
(* The calls that take timers back *)

(* The timers of S are retired, the entries of L invalidated, and only the   *)
(* scopes of G changed in more than their counts.                            *)
TakesBack(S, s, L, G) ==
    /\ S \subseteq Occupied /\ CanRetire(S) /\ Lists(s, S)
    /\ timers' = TimersRetired(S)
    /\ slots' = Invalidated(L)
    /\ live' = live - Cardinality(S)
    /\ free' = free \o s
    /\ DOMAIN scopes' = Ids /\ scopes' = [id \in Ids |-> scopes'[id]]
    /\ \A id \in Ids :
          /\ scopes'[id] \in [kind : Kinds, generation : 0 .. MaxGeneration, active : Nat, alive : BOOLEAN]
          /\ scopes'[id].active = ActiveWithout(id, S)
          /\ id \notin G => /\ scopes'[id].kind = scopes[id].kind
                            /\ scopes'[id].generation = scopes[id].generation
                            /\ scopes'[id].alive = scopes[id].alive
    /\ \A i \in Occupied : timers[i].record.scope.id \in G => i \in S
    /\ \A item \in Items : item.scope.id \in G => item \in L
    /\ UNCHANGED <<running, tick, schedules, sequence, pending, dispatches, host>>

(* Invalidating changes no slot and no place. *)
LEMMA InvalidatedMarks ==
    ASSUME Types, NEW L, slots' = Invalidated(L)
    PROVE  /\ slots' \in Seq(SlotRecords) /\ Len(slots') = Len(slots) /\ Marks /\ SlotsStayBound
           /\ \A c \in 1 .. Len(slots') : slots'[c].state = "Unbound" \/ slots'[c].dispatch \in Dispatches
           /\ \A p \in Places : /\ slots'[p[1]].state = slots[p[1]].state
                                /\ slots'[p[1]].dispatch = slots[p[1]].dispatch
                                /\ ItemAt(p)'.valid => ItemAt(p) \notin L
<1>1. /\ slots' \in Seq(SlotRecords) /\ Len(slots') = Len(slots) /\ DOMAIN slots' = DOMAIN slots
      /\ \A c \in DOMAIN slots :
            /\ slots'[c].state = slots[c].state /\ slots'[c].dispatch = slots[c].dispatch
            /\ Len(slots'[c].queue) = Len(slots[c].queue)
            /\ \A i \in 1 .. Len(slots[c].queue) :
                  /\ Marked(slots[c].queue[i], slots'[c].queue[i])
                  /\ slots'[c].queue[i].valid => slots[c].queue[i] \notin L
  BY InvalidatedFacts
<1>2. Marks /\ SlotsStayBound
  BY <1>1 DEF Marks, SlotsStayBound
<1>3. \A c \in 1 .. Len(slots') : slots'[c].state = "Unbound" \/ slots'[c].dispatch \in Dispatches
  BY <1>1, SlotsTyped DEF Types
<1>4. ASSUME NEW p \in Places
      PROVE  /\ slots'[p[1]].state = slots[p[1]].state
             /\ slots'[p[1]].dispatch = slots[p[1]].dispatch
             /\ ItemAt(p)'.valid => ItemAt(p) \notin L
  <2>1. PICK c \in DOMAIN slots : \E i \in 1 .. Len(slots[c].queue) : p = <<c, i>>
    BY PlaceIsPair
  <2>2. PICK i \in 1 .. Len(slots[c].queue) : p = <<c, i>>
    BY <2>1
  <2>3. ItemAt(p) = slots[c].queue[i] /\ ItemAt(p)' = slots'[c].queue[i] /\ p[1] = c
    BY <2>2 DEF ItemAt
  <2> QED  BY <1>1, <2>3
<1> QED  BY <1>1, <1>2, <1>3, <1>4

LEMMA TakesBackKeeps ==
    ASSUME IInv, NEW S, NEW s, NEW L, NEW G, TakesBack(S, s, L, G)
    PROVE  IInv'
<1>1. /\ Types /\ Stopped /\ TimersStand /\ HandlesPast /\ FreeList /\ Counted
      /\ Entries /\ QueuesWithin /\ Delivers
  BY DEF IInv
<1>2. S \in SUBSET Occupied /\ CanRetire(S) /\ timers' = TimersRetired(S)
  BY DEF TakesBack
<1>3. /\ timers' \in Seq(TimerSlots) /\ Len(timers') = Len(timers)
      /\ \A i \in S : timers'[i] = [generation |-> timers[i].generation + 1, record |-> NoTimer]
      /\ \A i \in 1 .. Len(timers) : i \notin S => timers'[i] = timers[i]
  BY <1>1, <1>2, TimersRetiredFacts
<1>4. Retires(S, s)
  <2>1. Lists(s, S)
    BY DEF TakesBack
  <2>2. \A id \in Ids : scopes'[id].active = ActiveWithout(id, S)
    BY DEF TakesBack
  <2>3. live' = live - Cardinality(S) /\ free' = free \o s /\ UNCHANGED <<running, issued>>
    BY DEF TakesBack, host
  <2> QED  BY <1>1, <1>2, <2>1, <2>2, <2>3, PlainRetires
<1>5. Occupied' = Occupied \ S /\ DOMAIN timers' = DOMAIN timers
  BY <1>1, <1>4, RetiresOccupied
<1>6. Stopped' /\ HandlesPast'
  BY <1>1, <1>4, RetiresKeepsHandles
<1>7. FreeList' /\ free' \in Seq(1 .. Len(timers'))
  BY <1>1, <1>4, RetiresKeepsFree
<1>8. Counted' /\ \A id \in Ids : ActiveWithout(id, S) \in 0 .. MaxActive
  BY <1>1, <1>4, RetiresKeepsCounts
<1>9. /\ slots' \in Seq(SlotRecords) /\ Len(slots') = Len(slots) /\ Marks /\ SlotsStayBound
      /\ \A c \in 1 .. Len(slots') : slots'[c].state = "Unbound" \/ slots'[c].dispatch \in Dispatches
      /\ \A p \in Places : /\ slots'[p[1]].state = slots[p[1]].state
                           /\ slots'[p[1]].dispatch = slots[p[1]].dispatch
                           /\ ItemAt(p)'.valid => ItemAt(p) \notin L
  <2>1. slots' = Invalidated(L)
    BY DEF TakesBack
  <2> QED  BY <1>1, <2>1, InvalidatedMarks
<1>10. Types'
  <2>1. ASSUME NEW id \in Ids PROVE scopes'[id] \in ScopeRecords
    <3>1. /\ scopes'[id] \in [kind : Kinds, generation : 0 .. MaxGeneration, active : Nat, alive : BOOLEAN]
          /\ scopes'[id].active = ActiveWithout(id, S)
      BY DEF TakesBack
    <3> QED  BY <1>8, <3>1 DEF ScopeRecords
  <2>2. scopes' = [id \in Ids |-> scopes'[id]]
    BY DEF TakesBack
  <2>3. scopes' \in [Ids -> ScopeRecords]
    BY <2>1, <2>2
  <2>4. UNCHANGED <<running, tick, schedules, sequence, dispatches>>
    BY DEF TakesBack
  <2> QED  BY <1>1, <1>3, <1>7, <1>9, <2>3, <2>4 DEF Types
<1>11. \A sc \in ScopeTokens : ScopeResolves(sc) /\ sc.id \notin G =>
          /\ scopes'[sc.id].alive
          /\ scopes'[sc.id].generation = sc.generation
          /\ scopes'[sc.id].kind = sc.kind
  BY DEF TakesBack, ScopeResolves, ScopeTokens
<1>12. Entries' /\ QueuesWithin'
  <2>1. UNCHANGED <<tick, pending>>
    BY DEF TakesBack
  <2> QED  BY <1>1, <1>9, <2>1, MarksKeep
<1>13. TimersStand'
  <2>1. ASSUME NEW i \in Occupied'
        PROVE  /\ i \in Occupied /\ timers'[i] = timers[i]
               /\ timers[i].record.queued \/ timers[i].record.due > tick'
               /\ ScopeResolves(timers[i].record.scope)'
    <3>1. i \in Occupied /\ i \notin S
      BY <1>5
    <3>2. i \in 1 .. Len(timers) /\ timers[i].record \in Records
      BY <1>1, <3>1, TimersTyped
    <3>3. timers'[i] = timers[i]
      BY <1>3, <3>1, <3>2
    <3>4. ScopeResolves(timers[i].record.scope) /\ (timers[i].record.queued \/ timers[i].record.due > tick)
      BY <1>1, <3>1 DEF TimersStand
    <3>5. timers[i].record.scope.id \notin G
      BY <3>1 DEF TakesBack
    <3>6. timers[i].record.scope \in ScopeTokens
      BY <3>2 DEF Records
    <3>7. ScopeResolves(timers[i].record.scope)'
      BY <1>11, <3>3, <3>4, <3>5, <3>6 DEF ScopeResolves
    <3>8. tick' = tick
      BY DEF TakesBack
    <3> QED  BY <3>1, <3>3, <3>4, <3>7, <3>8
  <2>2. TimersStay
    BY <2>1 DEF TimersStay
  <2> QED  BY <1>1, <1>9, <2>2, TimersKeepStanding
<1>14. Delivers'
  <2>1. ASSUME NEW p \in Places, ItemAt(p)'.valid, ScopeResolves(ItemAt(p).scope)
        PROVE  ScopeResolves(ItemAt(p).scope)'
    <3>1. ItemAt(p) \in Items /\ ItemAt(p) \in QueueItems
      BY <1>1, PlacesHoldItems
    <3>2. ItemAt(p).scope.id \notin G
      BY <1>9, <2>1, <3>1 DEF TakesBack
    <3>3. ItemAt(p).scope \in ScopeTokens
      BY <3>1 DEF QueueItems
    <3>4. ItemAt(p)'.scope = ItemAt(p).scope
      BY <1>9, MarksPlaces DEF Marked
    <3> QED  BY <1>11, <2>1, <3>2, <3>3, <3>4 DEF ScopeResolves
  <2>2. ValidEntriesStay
    BY <1>9, <2>1 DEF ValidEntriesStay
  <2> QED  BY <1>1, <1>9, <2>2, EntriesKeepDelivering
<1> QED  BY <1>6, <1>7, <1>8, <1>10, <1>12, <1>13, <1>14 DEF IInv

LEMMA CancelKeeps ==
    ASSUME IInv, NEW h, Cancel(h)
    PROVE  IInv'
<1> DEFINE S == {h.index}
<1>1. /\ S \in SUBSET Occupied /\ CanRetire(S) /\ timers' = TimersRetired(S)
      /\ slots' = Invalidated(Queued(h)) /\ scopes' = ScopesRetired(S)
      /\ free' = Append(free, h.index) /\ live' = live - 1
      /\ UNCHANGED <<running, tick, schedules, sequence, pending, dispatches, host>>
  BY DEF Cancel, Resolves
<1>2. Types /\ Lists(<<h.index>>, S)
  BY ListsOne DEF IInv
<1>3. free' = free \o <<h.index>>
  <2>1. h.index \in 1 .. Len(timers) /\ free \in Seq(1 .. Len(timers))
    BY <1>1, <1>2, TimersTyped DEF Types
  <2> QED  BY <1>1, <2>1, AppendIsConcat
<1>4. Cardinality(S) = 1
  BY FS_Singleton
<1>5. \A id \in Ids : ActiveWithout(id, S) \in 0 .. MaxActive
  BY <1>1, <1>2, ActiveWithin
<1> HIDE DEF S
<1>6. /\ scopes' \in [Ids -> ScopeRecords]
      /\ \A id \in Ids : /\ scopes'[id].active = ActiveWithout(id, S)
                         /\ scopes'[id].kind = scopes[id].kind
                         /\ scopes'[id].generation = scopes[id].generation
                         /\ scopes'[id].alive = scopes[id].alive
  BY <1>1, <1>2, <1>5, ScopesRetiredFacts
<1>7. TakesBack(S, <<h.index>>, Queued(h), {})
  <2>1. \A id \in Ids : scopes'[id] \in [kind : Kinds, generation : 0 .. MaxGeneration, active : Nat, alive : BOOLEAN]
    BY <1>6, Limits DEF ScopeRecords
  <2>2. DOMAIN scopes' = Ids /\ scopes' = [id \in Ids |-> scopes'[id]]
    BY <1>6
  <2> QED  BY <1>1, <1>2, <1>3, <1>4, <1>6, <2>1, <2>2 DEF TakesBack
<1> QED  BY <1>7, TakesBackKeeps

(* What both ends of a scope do to its timers. *)
LEMMA RetireScopeTimersFacts ==
    ASSUME Types, NEW id \in Ids, RetireScopeTimers(id)
    PROVE  /\ TimersOf(id) \in SUBSET Occupied /\ CanRetire(TimersOf(id))
           /\ timers' = TimersRetired(TimersOf(id))
           /\ slots' = Invalidated({item \in Items : item.scope.id = id})
           /\ live' = live - Cardinality(TimersOf(id))
           /\ \E s : Lists(s, TimersOf(id)) /\ free' = free \o s
           /\ UNCHANGED <<running, tick, schedules, sequence, pending, dispatches, host>>
           /\ \A i \in Ids : ActiveWithout(i, TimersOf(id)) \in 0 .. MaxActive
<1>1. /\ CanRetire(TimersOf(id))
      /\ timers' = TimersRetired(TimersOf(id))
      /\ slots' = Invalidated({item \in Items : item.scope.id = id})
      /\ live' = live - Cardinality(TimersOf(id))
      /\ \E q \in Ascending(TimersOf(id)) : free' = free \o q
      /\ UNCHANGED <<running, tick, schedules, sequence, pending, dispatches, host>>
  BY DEF RetireScopeTimers
<1>2. TimersOf(id) \in SUBSET Occupied
  BY DEF TimersOf
<1> DEFINE S == TimersOf(id)
<1> HIDE DEF S
<1>3. S \in SUBSET Nat /\ IsFiniteSet(S)
  BY <1>2, OccupiedFinite DEF S
<1>4. PICK q \in Ascending(S) : free' = free \o q
  BY <1>1 DEF S
<1>5. Lists(q, S)
  BY <1>3, <1>4, AscendingLists
<1>6. \A i \in Ids : ActiveWithout(i, S) \in 0 .. MaxActive
  BY <1>2, ActiveWithin DEF S
<1> QED  BY <1>1, <1>2, <1>4, <1>5, <1>6 DEF S

LEMMA TeardownScopeKeeps ==
    ASSUME IInv, NEW id \in Ids, TeardownScope(id)
    PROVE  IInv'
<1> DEFINE S == TimersOf(id)
<1> DEFINE L == {item \in Items : item.scope.id = id}
<1>1. /\ Types /\ RetireScopeTimers(id) /\ scopes[id].generation < MaxGeneration
      /\ scopes' = [ScopesRetired(S) EXCEPT ![id].generation = @ + 1]
  BY DEF TeardownScope, IInv
<1>2. /\ S \in SUBSET Occupied /\ CanRetire(S)
      /\ timers' = TimersRetired(S) /\ slots' = Invalidated(L)
      /\ live' = live - Cardinality(S)
      /\ \E s : Lists(s, S) /\ free' = free \o s
      /\ UNCHANGED <<running, tick, schedules, sequence, pending, dispatches, host>>
      /\ \A i \in Ids : ActiveWithout(i, S) \in 0 .. MaxActive
  BY <1>1, RetireScopeTimersFacts
<1>3. PICK s : Lists(s, S) /\ free' = free \o s
  BY <1>2
<1>4. (\A i \in Occupied : timers[i].record.scope.id \in {id} => i \in S)
      /\ (\A item \in Items : item.scope.id \in {id} => item \in L)
  BY DEF TimersOf
<1> HIDE DEF S, L
<1>5. /\ ScopesRetired(S) \in [Ids -> ScopeRecords]
      /\ \A i \in Ids : /\ ScopesRetired(S)[i].active = ActiveWithout(i, S)
                        /\ ScopesRetired(S)[i].kind = scopes[i].kind
                        /\ ScopesRetired(S)[i].generation = scopes[i].generation
                        /\ ScopesRetired(S)[i].alive = scopes[i].alive
  BY <1>1, <1>2, ScopesRetiredFacts
<1>6. DOMAIN scopes' = Ids /\ scopes' = [i \in Ids |-> scopes'[i]]
  BY <1>1, <1>5
<1>7. ASSUME NEW i \in Ids
      PROVE  /\ scopes'[i] \in [kind : Kinds, generation : 0 .. MaxGeneration, active : Nat, alive : BOOLEAN]
             /\ scopes'[i].active = ActiveWithout(i, S)
             /\ i \notin {id} => /\ scopes'[i].kind = scopes[i].kind
                                 /\ scopes'[i].generation = scopes[i].generation
                                 /\ scopes'[i].alive = scopes[i].alive
  <2>1. ScopesRetired(S)[i] \in ScopeRecords
    BY <1>5
  <2>2. CASE i = id
    <3>1. scopes'[i] = [ScopesRetired(S)[i] EXCEPT !.generation = @ + 1]
      BY <1>1, <1>5, <2>2
    <3>2. ScopesRetired(S)[i].generation + 1 \in 0 .. MaxGeneration
      BY <1>1, <1>5, <2>1, <2>2, Limits DEF ScopeRecords
    <3> QED  BY <1>5, <2>1, <2>2, <3>1, <3>2, Limits DEF ScopeRecords
  <2>3. CASE i # id
    <3>1. scopes'[i] = ScopesRetired(S)[i]
      BY <1>1, <1>5, <2>3
    <3> QED  BY <1>5, <2>1, <3>1, Limits DEF ScopeRecords
  <2> QED  BY <2>2, <2>3
<1>8. TakesBack(S, s, L, {id})
  BY <1>2, <1>3, <1>4, <1>6, <1>7 DEF TakesBack
<1> QED  BY <1>8, TakesBackKeeps

LEMMA DestroyScopeKeeps ==
    ASSUME IInv, NEW id \in Ids, DestroyScope(id)
    PROVE  IInv'
<1> DEFINE S == TimersOf(id)
<1> DEFINE L == {item \in Items : item.scope.id = id}
<1>1. /\ Types /\ RetireScopeTimers(id)
      /\ scopes' = [ScopesRetired(S) EXCEPT ![id].alive = FALSE]
  BY DEF DestroyScope, IInv
<1>2. /\ S \in SUBSET Occupied /\ CanRetire(S)
      /\ timers' = TimersRetired(S) /\ slots' = Invalidated(L)
      /\ live' = live - Cardinality(S)
      /\ \E s : Lists(s, S) /\ free' = free \o s
      /\ UNCHANGED <<running, tick, schedules, sequence, pending, dispatches, host>>
      /\ \A i \in Ids : ActiveWithout(i, S) \in 0 .. MaxActive
  BY <1>1, RetireScopeTimersFacts
<1>3. PICK s : Lists(s, S) /\ free' = free \o s
  BY <1>2
<1>4. (\A i \in Occupied : timers[i].record.scope.id \in {id} => i \in S)
      /\ (\A item \in Items : item.scope.id \in {id} => item \in L)
  BY DEF TimersOf
<1> HIDE DEF S, L
<1>5. /\ ScopesRetired(S) \in [Ids -> ScopeRecords]
      /\ \A i \in Ids : /\ ScopesRetired(S)[i].active = ActiveWithout(i, S)
                        /\ ScopesRetired(S)[i].kind = scopes[i].kind
                        /\ ScopesRetired(S)[i].generation = scopes[i].generation
                        /\ ScopesRetired(S)[i].alive = scopes[i].alive
  BY <1>1, <1>2, ScopesRetiredFacts
<1>6. DOMAIN scopes' = Ids /\ scopes' = [i \in Ids |-> scopes'[i]]
  BY <1>1, <1>5
<1>7. ASSUME NEW i \in Ids
      PROVE  /\ scopes'[i] \in [kind : Kinds, generation : 0 .. MaxGeneration, active : Nat, alive : BOOLEAN]
             /\ scopes'[i].active = ActiveWithout(i, S)
             /\ i \notin {id} => /\ scopes'[i].kind = scopes[i].kind
                                 /\ scopes'[i].generation = scopes[i].generation
                                 /\ scopes'[i].alive = scopes[i].alive
  <2>1. ScopesRetired(S)[i] \in ScopeRecords
    BY <1>5
  <2>2. CASE i = id
    <3> DEFINE r == ScopesRetired(S)[i]
    <3>1. scopes'[i] = [r EXCEPT !.alive = FALSE]
      BY <1>1, <1>5, <2>2
    <3>2. r \in ScopeRecords /\ r.active = ActiveWithout(i, S)
      BY <1>5, <2>1
    <3>3. r.active \in Nat
      BY <3>2, Limits DEF ScopeRecords
    <3> HIDE DEF r
    <3>4. scopes'[i] = [kind |-> r.kind, generation |-> r.generation, active |-> r.active, alive |-> FALSE]
      BY <3>1, <3>2 DEF ScopeRecords
    <3>5. r.kind \in Kinds /\ r.generation \in 0 .. MaxGeneration
      BY <3>2 DEF ScopeRecords
    <3> QED  BY <2>2, <3>2, <3>3, <3>4, <3>5
  <2>3. CASE i # id
    <3>1. scopes'[i] = ScopesRetired(S)[i]
      BY <1>1, <1>5, <2>3
    <3> QED  BY <1>5, <2>1, <3>1, Limits DEF ScopeRecords
  <2> QED  BY <2>2, <2>3
<1>8. TakesBack(S, s, L, {id})
  BY <1>2, <1>3, <1>4, <1>6, <1>7 DEF TakesBack
<1> QED  BY <1>8, TakesBackKeeps
-----------------------------------------------------------------------------
(* Registration and shutdown *)

LEMMA RegisterScopeKeeps ==
    ASSUME IInv, NEW id \in Ids, NEW k \in Kinds, RegisterScope(id, k)
    PROVE  IInv'
<1>1. /\ Types /\ Stopped /\ TimersStand /\ HandlesPast /\ FreeList /\ Counted
      /\ Entries /\ QueuesWithin /\ Delivers
  BY DEF IInv
<1>2. /\ running /\ ~ scopes[id].alive
      /\ scopes[id].generation < MaxGeneration
      /\ scopes' = [scopes EXCEPT ![id] = [kind |-> k, generation |-> scopes[id].generation + 1,
                                           active |-> 0, alive |-> TRUE]]
      /\ UNCHANGED <<running, tick, schedules, sequence, timers, free, live, slots, pending,
                     dispatches, host>>
  BY DEF RegisterScope
<1>3. scopes \in [Ids -> ScopeRecords]
  BY <1>1 DEF Types
<1>4. /\ scopes'[id] = [kind |-> k, generation |-> scopes[id].generation + 1, active |-> 0, alive |-> TRUE]
      /\ \A i \in Ids : i # id => scopes'[i] = scopes[i]
  BY <1>2, <1>3
<1>5. scopes' \in [Ids -> ScopeRecords]
  <2>1. scopes[id].generation \in 0 .. MaxGeneration
    BY <1>3 DEF ScopeRecords
  <2>2. scopes[id].generation + 1 \in 0 .. MaxGeneration /\ 0 \in 0 .. MaxActive /\ TRUE \in BOOLEAN
    BY <1>2, <2>1, Limits
  <2>3. [kind |-> k, generation |-> scopes[id].generation + 1, active |-> 0, alive |-> TRUE] \in ScopeRecords
    BY <2>2 DEF ScopeRecords
  <2> QED  BY <1>2, <1>3, <2>3
<1>6. Types'
  BY <1>1, <1>2, <1>5 DEF Types
<1>7. Marks /\ SlotsStayBound
  BY <1>2, UnmovedMarks DEF SlotsStayBound
<1>8. Entries' /\ QueuesWithin'
  BY <1>1, <1>2, <1>7, MarksKeep
<1>9. Occupied' = Occupied /\ \A i \in Ids : TimersOf(i)' = TimersOf(i)
  BY <1>2 DEF Occupied, TimersOf
<1>10. Stopped' /\ HandlesPast' /\ FreeList'
  <2>1. Stopped'
    BY <1>2 DEF Stopped
  <2>2. HandlesPast'
    BY <1>1, <1>2, <1>9 DEF HandlesPast, host
  <2>3. FreeList'
    BY <1>1, <1>2, <1>9 DEF FreeList
  <2> QED  BY <2>1, <2>2, <2>3
<1>11. \A sc \in ScopeTokens : ScopeResolves(sc) => sc.id # id /\ scopes'[sc.id] = scopes[sc.id]
  BY <1>2, <1>4 DEF ScopeResolves, ScopeTokens
<1>12. \A i \in Occupied : timers[i].record.scope \in ScopeTokens /\ ScopeResolves(timers[i].record.scope)
  BY <1>1, TimersTyped DEF TimersStand, Records
<1>13. Counted'
  <2>1. TimersOf(id) = {}
    BY <1>11, <1>12 DEF TimersOf
  <2>2. Cardinality(TimersOf(id)) = 0
    BY <2>1, FS_EmptySet
  <2>3. \A i \in Ids : scopes'[i].active = Cardinality(TimersOf(i))
    BY <1>1, <1>2, <1>4, <2>2 DEF Counted
  <2> QED  BY <1>1, <1>2, <1>9, <2>3 DEF Counted
<1>14. TimersStand'
  <2>1. ASSUME NEW i \in Occupied
        PROVE  /\ timers[i].record.queued \/ timers[i].record.due > tick
               /\ ScopeResolves(timers[i].record.scope)'
    BY <1>1, <1>2, <1>11, <1>12 DEF TimersStand, ScopeResolves
  <2>2. TimersStay
    BY <1>2, <1>9, <2>1 DEF TimersStay
  <2> QED  BY <1>1, <1>7, <2>2, TimersKeepStanding
<1>15. Delivers'
  <2>1. ASSUME NEW p \in Places, ScopeResolves(ItemAt(p).scope)
        PROVE  ScopeResolves(ItemAt(p).scope)'
    <3>1. ItemAt(p).scope \in ScopeTokens
      BY <1>1, PlacesHoldItems DEF QueueItems
    <3>2. ItemAt(p)' = ItemAt(p)
      BY <1>2 DEF ItemAt
    <3> QED  BY <1>11, <2>1, <3>1, <3>2 DEF ScopeResolves
  <2>2. ValidEntriesStay
    BY <1>2, <2>1 DEF ValidEntriesStay
  <2> QED  BY <1>1, <1>7, <2>2, EntriesKeepDelivering
<1> QED  BY <1>6, <1>8, <1>10, <1>13, <1>14, <1>15 DEF IInv

LEMMA ShutdownKeeps ==
    ASSUME IInv, Shutdown
    PROVE  IInv'
<1> DEFINE n == Len(timers)
<1>1. /\ Types /\ HandlesPast /\ FreeList /\ Entries /\ QueuesWithin
  BY DEF IInv
<1>2. /\ running' = FALSE
      /\ slots' = Invalidated(Items)
      /\ timers' = [i \in DOMAIN timers |-> [timers[i] EXCEPT !.record = NoTimer]]
      /\ scopes' = [id \in Ids |-> [scopes[id] EXCEPT !.active = 0]]
      /\ live' = 0
      /\ UNCHANGED <<tick, schedules, sequence, free, pending, dispatches, host>>
  BY DEF Shutdown
<1>3. n \in Nat /\ DOMAIN timers = 1 .. n /\ \A i \in 1 .. n : timers[i] \in TimerSlots
  BY <1>1, TimersTyped
<1>4. timers' \in Seq(TimerSlots) /\ Len(timers') = n /\ DOMAIN timers' = 1 .. n
      /\ \A i \in 1 .. n : timers'[i].record = NoTimer
  <2>1. \A i \in 1 .. n : timers'[i] = [timers[i] EXCEPT !.record = NoTimer]
    BY <1>2, <1>3
  <2>2. ASSUME NEW i \in 1 .. n PROVE timers'[i] \in TimerSlots /\ timers'[i].record = NoTimer
    BY <1>3, <2>1 DEF TimerSlots
  <2> HIDE DEF n
  <2>3. timers' \in [1 .. n -> TimerSlots]
    BY <1>2, <1>3, <2>2
  <2> QED  BY <1>3, <2>2, <2>3
<1>5. Occupied' = {}
  BY <1>4 DEF Occupied
<1>6. /\ slots' \in Seq(SlotRecords) /\ Len(slots') = Len(slots) /\ Marks
      /\ \A c \in 1 .. Len(slots') : slots'[c].state = "Unbound" \/ slots'[c].dispatch \in Dispatches
      /\ \A p \in Places : ItemAt(p)'.valid => ItemAt(p) \notin Items
  BY <1>1, <1>2, InvalidatedMarks
<1>7. scopes' \in [Ids -> ScopeRecords]
  <2>1. ASSUME NEW id \in Ids PROVE [scopes[id] EXCEPT !.active = 0] \in ScopeRecords
    <3>1. scopes[id] \in ScopeRecords
      BY <1>1 DEF Types
    <3> QED  BY <3>1, Limits DEF ScopeRecords
  <2> QED  BY <1>2, <2>1
<1>8. Types'
  <2>1. free' \in Seq(1 .. Len(timers'))
    BY <1>1, <1>2, <1>4 DEF Types
  <2>2. running' \in BOOLEAN /\ Len(timers') <= MaxTimers /\ Len(slots') <= MaxSlots
    BY <1>1, <1>2, <1>4, <1>6 DEF Types
  <2> QED  BY <1>1, <1>2, <1>4, <1>6, <1>7, <2>1, <2>2 DEF Types
<1>9. Stopped' /\ TimersStand'
  BY <1>5 DEF Stopped, TimersStand
<1>10. HandlesPast'
  BY <1>1, <1>2, <1>3, <1>4 DEF HandlesPast, host
<1>11. FreeList'
  BY <1>1, <1>2 DEF FreeList
<1>12. Counted'
  BY <1>2, <1>5, FS_EmptySet DEF Counted
<1>13. Entries' /\ QueuesWithin'
  BY <1>1, <1>2, <1>6, MarksKeep
<1>14. Delivers'
  <2>1. Places' = Places /\ \A p \in Places : ItemAt(p) \in Items
    BY <1>1, <1>6, MarksPlaces, PlacesHoldItems
  <2> QED  BY <1>6, <2>1 DEF Delivers
<1> QED  BY <1>8, <1>9, <1>10, <1>11, <1>12, <1>13, <1>14 DEF IInv

(* Nothing has happened yet. *)
LEMMA InitHolds == Init => IInv
<1> SUFFICES ASSUME Init PROVE IInv
  OBVIOUS
<1>1. /\ running = TRUE /\ tick = 0 /\ schedules = 0 /\ sequence = 1
      /\ timers = <<>> /\ free = <<>> /\ live = 0 /\ slots = <<>> /\ pending = 0
      /\ dispatches = {} /\ issued = <<>>
  BY DEF Init
<1>2. DOMAIN timers = {} /\ DOMAIN slots = {} /\ DOMAIN issued = {} /\ Len(timers) = 0 /\ Len(slots) = 0
  BY <1>1
<1>3. Occupied = {} /\ Places = {}
  BY <1>2 DEF Occupied, Places
<1>4. scopes \in [Ids -> ScopeRecords] /\ \A id \in Ids : scopes[id].active = 0
  <2> DEFINE kind == CHOOSE k \in Kinds : TRUE
  <2>1. kind \in Kinds
    BY TimerAssumption
  <2> HIDE DEF kind
  <2>2. scopes = [id \in Ids |-> [kind |-> kind, generation |-> 0, active |-> 0, alive |-> FALSE]]
    BY DEF Init, kind
  <2>3. [kind |-> kind, generation |-> 0, active |-> 0, alive |-> FALSE] \in ScopeRecords
    BY <2>1, Limits DEF ScopeRecords
  <2> QED  BY <2>2, <2>3
<1>5. Types
  <2>1. running \in BOOLEAN /\ tick \in 0 .. MaxTick /\ schedules \in 0 .. MaxSchedules /\ sequence \in 1 .. MaxSequence
    BY <1>1, Limits
  <2>2. timers \in Seq(TimerSlots) /\ free \in Seq(1 .. Len(timers)) /\ slots \in Seq(SlotRecords)
    BY <1>1
  <2>3. Len(timers) <= MaxTimers /\ Len(slots) <= MaxSlots
    BY <1>2, Limits
  <2>4. IsFiniteSet(dispatches) /\ Cardinality(dispatches) <= MaxSlots /\ dispatches \subseteq Dispatches
    BY <1>1, FS_EmptySet, Limits
  <2> QED  BY <1>2, <1>4, <2>1, <2>2, <2>3, <2>4 DEF Types
<1>6. Stopped /\ TimersStand /\ HandlesPast
  BY <1>1, <1>2, <1>3 DEF Stopped, TimersStand, HandlesPast
<1>7. FreeList
  <2>1. 1 .. Len(free) = {}
    BY <1>1
  <2> QED  BY <1>2, <2>1 DEF FreeList
<1>8. Counted
  <2>1. \A id \in Ids : TimersOf(id) = {}
    BY <1>3 DEF TimersOf
  <2> QED  BY <1>1, <1>3, <1>4, <2>1, FS_EmptySet DEF Counted
<1>9. Entries /\ Delivers
  BY <1>3 DEF Entries, Delivers
<1>10. QueuesWithin
  BY <1>1, <1>2, <1>3, FS_EmptySet, Limits DEF QueuesWithin
<1> QED  BY <1>5, <1>6, <1>7, <1>8, <1>9, <1>10 DEF IInv
-----------------------------------------------------------------------------
(* Schedule *)

(* A slot that was not in use takes a timer. *)
Occupies(n, g, r) ==
    /\ timers' \in Seq(TimerSlots) /\ Len(timers') <= MaxTimers
    /\ n \in 1 .. Len(timers') /\ n \notin Occupied
    /\ \A i \in 1 .. Len(timers) : i \in 1 .. Len(timers') /\ (i # n => timers'[i] = timers[i])
    /\ \A i \in 1 .. Len(timers') : i = n \/ i \in 1 .. Len(timers)
    /\ timers'[n] = [generation |-> g, record |-> r]
    /\ n \in 1 .. Len(timers) => g = timers[n].generation
    /\ g \in Nat /\ r \in Records
    /\ FreeList' /\ free' \in Seq(1 .. Len(timers'))

LEMMA Reuses ==
    ASSUME IInv, NEW r \in Records, free # <<>>, NEW n, NEW g,
           n = free[Len(free)], g = timers[n].generation, UNCHANGED running, running,
           timers' = [timers EXCEPT ![n] = [generation |-> g, record |-> r]],
           free' = SubSeq(free, 1, Len(free) - 1)
    PROVE  Occupies(n, g, r)
<1> DEFINE m == Len(free)
<1> DEFINE l == Len(timers)
<1>1. /\ Types /\ FreeList /\ free \in Seq(1 .. l) /\ timers \in Seq(TimerSlots)
  BY DEF IInv, Types
<1>2. m \in Nat \ {0} /\ free \in [1 .. m -> 1 .. l] /\ l \in Nat /\ DOMAIN timers = 1 .. l
      /\ l <= MaxTimers
  BY <1>1, TimersTyped DEF Types
<1>3. m \in 1 .. m /\ n \in 1 .. l
  BY <1>2
<1>4. /\ \A i, k \in 1 .. m : free[i] = free[k] => i = k
      /\ {free[i] : i \in 1 .. m} = 1 .. l \ Occupied
  BY <1>1, <1>2 DEF FreeList
<1> HIDE DEF m, l
<1>5. n \notin Occupied
  BY <1>3, <1>4 DEF m
<1>6. g \in 1 .. MaxGeneration /\ g \in Nat
  BY <1>1, <1>3, TimersTyped, Limits DEF l
<1>7. [generation |-> g, record |-> r] \in TimerSlots
  BY <1>6 DEF TimerSlots
<1>8. /\ timers' \in Seq(TimerSlots) /\ Len(timers') = l /\ DOMAIN timers' = 1 .. l
      /\ timers'[n] = [generation |-> g, record |-> r]
      /\ \A i \in 1 .. l : i # n => timers'[i] = timers[i]
  BY <1>1, <1>2, <1>3, <1>7 DEF l
<1>9. free' \in Seq(1 .. l) /\ Len(free') = m - 1 /\ \A i \in 1 .. m - 1 : free'[i] = free[i]
  BY <1>1, <1>2 DEF m
<1>10. Occupied' = Occupied \cup {n}
  <2>1. r # NoTimer
    BY Limits
  <2>2. timers'[n].record = r
    BY <1>8
  <2>3. \A i \in 1 .. l : (timers'[i].record # NoTimer) <=> (timers[i].record # NoTimer \/ i = n)
    BY <1>8, <2>1, <2>2
  <2> QED  BY <1>2, <1>3, <1>8, <2>3 DEF Occupied
<1>11. {free'[i] : i \in 1 .. m - 1} = 1 .. l \ Occupied'
  <2>1. ASSUME NEW i \in 1 .. m - 1 PROVE free'[i] \in 1 .. l \ Occupied'
    <3>1. i \in 1 .. m /\ i # m
      BY <1>2
    <3>2. free[i] \in 1 .. l \ Occupied /\ free[i] # free[m]
      BY <1>3, <1>4, <3>1
    <3> QED  BY <1>9, <1>10, <3>2 DEF m
  <2>2. ASSUME NEW x \in 1 .. l \ Occupied' PROVE \E i \in 1 .. m - 1 : free'[i] = x
    <3>1. x \in 1 .. l \ Occupied /\ x # n
      BY <1>10
    <3>2. PICK i \in 1 .. m : free[i] = x
      BY <1>4, <3>1
    <3>3. i # m
      BY <3>1, <3>2 DEF m
    <3>4. i \in 1 .. m - 1
      BY <1>2, <3>3
    <3> QED  BY <1>9, <3>2, <3>4
  <2> QED  BY <2>1, <2>2
<1>12. \A i, k \in 1 .. m - 1 : free'[i] = free'[k] => i = k
  BY <1>2, <1>4, <1>9
<1>13. FreeList'
  BY <1>8, <1>9, <1>11, <1>12 DEF FreeList
<1>14. free' \in Seq(1 .. Len(timers'))
  BY <1>8, <1>9
<1> QED  BY <1>2, <1>3, <1>5, <1>6, <1>8, <1>13, <1>14 DEF Occupies, l

LEMMA Extends ==
    ASSUME IInv, NEW r \in Records, free = <<>>, Len(timers) < MaxTimers,
           UNCHANGED <<running, free>>, running,
           timers' = Append(timers, [generation |-> 1, record |-> r])
    PROVE  Occupies(Len(timers) + 1, 1, r)
<1> DEFINE l == Len(timers)
<1>1. Types /\ FreeList /\ timers \in Seq(TimerSlots) /\ l \in Nat /\ DOMAIN timers = 1 .. l
  BY TimersTyped DEF IInv, Types
<1>2. [generation |-> 1, record |-> r] \in TimerSlots
  BY Limits DEF TimerSlots
<1>3. /\ timers' \in Seq(TimerSlots) /\ Len(timers') = l + 1 /\ DOMAIN timers' = 1 .. l + 1
      /\ timers'[l + 1] = [generation |-> 1, record |-> r]
      /\ \A i \in 1 .. l : timers'[i] = timers[i]
  <2> DEFINE e == [generation |-> 1, record |-> r]
  <2>1. e \in TimerSlots /\ timers' = Append(timers, e)
    BY <1>2
  <2> HIDE DEF e
  <2>2. /\ timers' \in Seq(TimerSlots) /\ Len(timers') = l + 1
        /\ timers'[l + 1] = e /\ \A i \in 1 .. l : timers'[i] = timers[i]
    BY <1>1, <2>1, AppendProperties
  <2>3. DOMAIN timers' = 1 .. l + 1
    BY <2>2
  <2> QED  BY <2>2, <2>3 DEF e
<1> HIDE DEF l
<1>4. Occupied \subseteq 1 .. l
  BY <1>1, TimersTyped DEF l
<1>5. 1 .. Len(free) = {} /\ 1 .. Len(free') = {} /\ free' \in Seq(1 .. l + 1)
  OBVIOUS
<1>6. Occupied = 1 .. l
  <2>1. {free[i] : i \in 1 .. Len(free)} = (1 .. l) \ Occupied
    BY <1>1 DEF FreeList
  <2>2. {free[i] : i \in 1 .. Len(free)} = {}
    BY <1>5
  <2> QED  BY <1>4, <2>1, <2>2
<1>7. Occupied' = 1 .. l + 1
  <2>1. timers'[l + 1].record # NoTimer
    BY <1>3, Limits
  <2>2. \A i \in 1 .. l : timers'[i].record # NoTimer
    BY <1>3, <1>6 DEF Occupied
  <2>3. \A i \in 1 .. l + 1 : i \in 1 .. l \/ i = l + 1
    BY <1>1
  <2>4. \A i \in 1 .. l + 1 : timers'[i].record # NoTimer
    BY <2>1, <2>2, <2>3
  <2> QED  BY <1>3, <2>4 DEF Occupied
<1>8. FreeList'
  BY <1>3, <1>5, <1>7 DEF FreeList
<1>9. /\ l + 1 \in 1 .. l + 1 /\ l + 1 \notin Occupied /\ l + 1 \notin 1 .. l /\ l + 1 <= MaxTimers
      /\ \A i \in 1 .. l : i \in 1 .. l + 1
      /\ \A i \in 1 .. l + 1 : i = l + 1 \/ i \in 1 .. l
  BY <1>1, <1>6, Limits DEF l
<1> QED  BY <1>3, <1>5, <1>8, <1>9 DEF Occupies, l

LEMMA OccupiesFacts ==
    ASSUME Types, NEW n, NEW g, NEW r, Occupies(n, g, r)
    PROVE  /\ Occupied' = Occupied \cup {n} /\ n \in DOMAIN timers' /\ timers'[n].record = r
           /\ timers'[n].generation = g
           /\ \A i \in Occupied : i # n /\ timers'[i] = timers[i] /\ i \in DOMAIN timers'
           /\ DOMAIN timers \subseteq DOMAIN timers'
<1> DEFINE l == Len(timers)
<1> DEFINE k == Len(timers')
<1>1. DOMAIN timers = 1 .. l /\ DOMAIN timers' = 1 .. k
  <2>1. timers' \in Seq(TimerSlots)
    BY DEF Occupies
  <2> QED  BY <2>1, TimersTyped
<1>2. timers'[n] = [generation |-> g, record |-> r] /\ r # NoTimer /\ n \in 1 .. k /\ n \notin Occupied
  BY Limits DEF Occupies
<1>3. timers'[n].record = r /\ timers'[n].generation = g
  BY <1>2
<1>4. \A i \in 1 .. l : i \in 1 .. k /\ (i # n => timers'[i] = timers[i])
  BY DEF Occupies
<1>5. \A i \in 1 .. k : i = n \/ i \in 1 .. l
  BY DEF Occupies
<1> HIDE DEF l, k
<1>6. Occupied' = Occupied \cup {n}
  BY <1>1, <1>2, <1>3, <1>4, <1>5 DEF Occupied
<1>7. \A i \in Occupied : i # n /\ i \in 1 .. l
  BY <1>1, <1>2 DEF Occupied
<1> QED  BY <1>1, <1>2, <1>3, <1>4, <1>6, <1>7

(* The record of a timer that is being scheduled. *)
NewRecord(sc, due, interval, c) ==
    [scope |-> sc, due |-> due, interval |-> interval, seq |-> sequence,
     slot |-> c, dispatch |-> slots[c].dispatch, queued |-> FALSE]

LEMMA ScheduleOccupies ==
    ASSUME IInv, NEW sc \in ScopeTokens, NEW due \in 1 .. MaxTick,
           NEW interval \in Intervals \cup {OneShot}, NEW c \in 1 .. MaxSlots,
           Schedule(sc, due, interval, c)
    PROVE  Occupies(NextHandle.index, NextHandle.generation, NewRecord(sc, due, interval, c))
<1> DEFINE r == NewRecord(sc, due, interval, c)
<1> DEFINE n == NextHandle.index
<1> DEFINE g == NextHandle.generation
<1>1. Types
  BY DEF IInv
<1>2. /\ running /\ c \in DOMAIN slots /\ slots[c].state = "Armed" /\ WithinBudget(sc)
      /\ timers' = IF free # <<>> THEN [timers EXCEPT ![n] = [generation |-> g, record |-> r]]
                                  ELSE Append(timers, [generation |-> g, record |-> r])
      /\ free' = IF free # <<>> THEN SubSeq(free, 1, Len(free) - 1) ELSE free
      /\ UNCHANGED running
  BY DEF Schedule, NewRecord
<1>4. free # <<>> \/ Len(timers) < MaxTimers
  BY <1>2 DEF WithinBudget
<1>5. r \in Records
  <2>1. slots[c].dispatch \in Dispatches
    BY <1>1, <1>2, SlotsTyped DEF Types
  <2>2. sequence \in 1 .. MaxSequence /\ FALSE \in BOOLEAN
    BY <1>1 DEF Types
  <2> QED  BY <2>1, <2>2 DEF Records, NewRecord
<1>6. Occupies(n, g, r)
  <2> HIDE DEF r
  <2>1. CASE free # <<>>
    <3>1. NextHandle = [index |-> free[Len(free)], generation |-> timers[free[Len(free)]].generation]
      BY <2>1 DEF NextHandle, HandleOf
    <3>2. n = free[Len(free)] /\ g = timers[n].generation
      BY <3>1
    <3>3. timers' = [timers EXCEPT ![n] = [generation |-> g, record |-> r]] /\ free' = SubSeq(free, 1, Len(free) - 1)
          /\ UNCHANGED running /\ running
      BY <1>2, <2>1
    <3> HIDE DEF n, g
    <3> QED  BY <1>5, <2>1, <3>2, <3>3, Reuses
  <2>2. CASE free = <<>>
    <3>1. n = Len(timers) + 1 /\ g = 1
      BY <2>2 DEF NextHandle
    <3>2. timers' = Append(timers, [generation |-> 1, record |-> r]) /\ UNCHANGED <<running, free>> /\ running
      BY <1>2, <2>2, <3>1
    <3>3. Len(timers) < MaxTimers
      BY <1>4, <2>2
    <3> HIDE DEF n, g
    <3> QED  BY <1>5, <2>2, <3>1, <3>2, <3>3, Extends
  <2> QED  BY <2>1, <2>2
<1> QED  BY <1>6

(* The handle of the next timer was never given out. *)
LEMMA FreshHandle ==
    ASSUME IInv, running, NEW r, Occupies(NextHandle.index, NextHandle.generation, r)
    PROVE  \A h \in DOMAIN issued :
              h # NextHandle /\ (h.index = NextHandle.index => h.generation < NextHandle.generation)
<1> SUFFICES ASSUME NEW h \in DOMAIN issued
             PROVE  h # NextHandle /\ (h.index = NextHandle.index => h.generation < NextHandle.generation)
  OBVIOUS
<1> DEFINE n == NextHandle.index
<1> DEFINE g == NextHandle.generation
<1>1. /\ h.index \in 1 .. Len(timers) /\ h.generation \in Nat
      /\ h.generation < timers[h.index].generation \/ h.index \in Occupied
  BY TimersTyped DEF IInv, HandlesPast
<1>2. n \notin Occupied /\ g \in Nat /\ (n \in 1 .. Len(timers) => g = timers[n].generation)
  BY DEF Occupies
<1>3. n = NextHandle.index /\ g = NextHandle.generation
  OBVIOUS
<1> HIDE DEF n, g
<1>4. h.index = n => h.generation < g
  BY <1>1, <1>2
<1>5. h.index = n /\ h.generation = g => FALSE
  BY <1>1, <1>2, <1>4
<1> QED  BY <1>3, <1>4, <1>5

LEMMA ScheduleKeeps ==
    ASSUME IInv, NEW sc \in ScopeTokens, NEW due \in 1 .. MaxTick,
           NEW interval \in Intervals \cup {OneShot}, NEW c \in 1 .. MaxSlots,
           Schedule(sc, due, interval, c)
    PROVE  IInv'
<1> DEFINE r == NewRecord(sc, due, interval, c)
<1> DEFINE n == NextHandle.index
<1> DEFINE g == NextHandle.generation
<1>1. /\ Types /\ Stopped /\ TimersStand /\ HandlesPast /\ FreeList /\ Counted
      /\ Entries /\ QueuesWithin /\ Delivers
  BY DEF IInv
<1>2. /\ running /\ ScopeResolves(sc)
      /\ c \in DOMAIN slots /\ slots[c].state = "Armed"
      /\ due > tick
      /\ WithinBudget(sc)
      /\ sequence' = sequence + 1 /\ schedules' = schedules + 1 /\ live' = live + 1
      /\ scopes' = [scopes EXCEPT ![sc.id].active = scopes[sc.id].active + 1]
      /\ UNCHANGED <<running, tick, slots, pending, dispatches, drained>>
  BY DEF Schedule
<1>3. issued' = [h \in DOMAIN issued \cup {NextHandle} |-> IF h \in DOMAIN issued THEN issued[h] ELSE sequence]
  BY DEF Schedule
<1>4. /\ schedules < MaxSchedules /\ scopes[sc.id].active < MaxActive
      /\ free # <<>> \/ Len(timers) < MaxTimers
      /\ sequence < MaxSequence
  BY <1>2 DEF WithinBudget
<1>6. Occupies(n, g, r)
  BY ScheduleOccupies
<1>7. NextHandle.index = n /\ NextHandle.generation = g
  OBVIOUS
<1>8. r.scope = sc /\ r.due = due /\ r.slot = c /\ r.dispatch = slots[c].dispatch /\ r.seq = sequence /\ r.queued = FALSE
  BY DEF NewRecord
<1> HIDE DEF r, n, g
<1>9. /\ Occupied' = Occupied \cup {n} /\ n \in DOMAIN timers' /\ timers'[n].record = r
      /\ timers'[n].generation = g
      /\ \A i \in Occupied : i # n /\ timers'[i] = timers[i] /\ i \in DOMAIN timers'
      /\ DOMAIN timers \subseteq DOMAIN timers'
  BY <1>1, <1>6, OccupiesFacts
<1>10. n \notin Occupied /\ DOMAIN timers = 1 .. Len(timers)
  BY <1>1, <1>6, TimersTyped DEF Occupies
<1>11. sc.id \in Ids
  BY DEF ScopeTokens
<1>12. /\ scopes' \in [Ids -> ScopeRecords]
       /\ scopes'[sc.id].active = scopes[sc.id].active + 1
       /\ \A id \in Ids : /\ scopes'[id].kind = scopes[id].kind
                          /\ scopes'[id].generation = scopes[id].generation
                          /\ scopes'[id].alive = scopes[id].alive
                          /\ id # sc.id => scopes'[id].active = scopes[id].active
  <2>1. \A id \in Ids : scopes[id] \in ScopeRecords
    BY <1>1 DEF Types
  <2>2. scopes[sc.id].active + 1 \in 0 .. MaxActive
    BY <1>4, <1>11, <2>1, Limits DEF ScopeRecords
  <2>3. scopes'[sc.id] = [scopes[sc.id] EXCEPT !.active = scopes[sc.id].active + 1]
        /\ \A id \in Ids : id # sc.id => scopes'[id] = scopes[id]
    BY <1>1, <1>2, <1>11 DEF Types
  <2>4. /\ scopes'[sc.id] \in ScopeRecords
        /\ scopes'[sc.id].active = scopes[sc.id].active + 1
        /\ scopes'[sc.id].kind = scopes[sc.id].kind
        /\ scopes'[sc.id].generation = scopes[sc.id].generation
        /\ scopes'[sc.id].alive = scopes[sc.id].alive
    BY <1>11, <2>1, <2>2, <2>3 DEF ScopeRecords
  <2>5. \A id \in Ids : scopes'[id] \in ScopeRecords
    BY <2>1, <2>3, <2>4
  <2>6. scopes' = [id \in Ids |-> scopes'[id]]
    BY <1>1, <1>2 DEF Types
  <2>7. scopes' \in [Ids -> ScopeRecords]
    BY <2>5, <2>6
  <2> QED  BY <2>3, <2>4, <2>7
<1>13. Types'
  <2>1. sequence' \in 1 .. MaxSequence /\ schedules' \in 0 .. MaxSchedules
    <3>1. sequence \in 1 .. MaxSequence /\ schedules \in 0 .. MaxSchedules
      BY <1>1 DEF Types
    <3>2. sequence' = sequence + 1 /\ schedules' = schedules + 1
      BY <1>2
    <3>3. sequence < MaxSequence /\ schedules < MaxSchedules
      BY <1>4
    <3> QED  BY <3>1, <3>2, <3>3, Limits
  <2>2. timers' \in Seq(TimerSlots) /\ Len(timers') <= MaxTimers /\ free' \in Seq(1 .. Len(timers'))
    BY <1>6 DEF Occupies
  <2> QED  BY <1>1, <1>2, <1>12, <2>1, <2>2 DEF Types
<1>14. Stopped' /\ FreeList'
  BY <1>2, <1>6 DEF Stopped, Occupies
<1>15. Marks /\ SlotsStayBound
  BY <1>2, UnmovedMarks DEF SlotsStayBound
<1>16. Entries' /\ QueuesWithin'
  BY <1>1, <1>2, <1>15, MarksKeep
<1>17. \A s \in ScopeTokens : ScopeResolves(s) =>
          /\ scopes'[s.id].alive
          /\ scopes'[s.id].generation = s.generation
          /\ scopes'[s.id].kind = s.kind
  BY <1>12 DEF ScopeResolves, ScopeTokens
<1>18. TimersStand'
  <2> SUFFICES ASSUME NEW i \in Occupied'
               PROVE  LET t == timers'[i].record
                      IN  /\ ScopeResolves(timers[i].record.scope)'
                          /\ t.slot \in DOMAIN slots
                          /\ slots[t.slot].state # "Unbound" /\ slots[t.slot].dispatch = t.dispatch
                          /\ t.queued \/ t.due > tick
    BY <1>2 DEF TimersStand
  <2>1. CASE i = n
    <3>1. timers'[i].record = r
      BY <1>9, <2>1
    <3>2. ScopeResolves(timers[i].record.scope)'
      BY <1>2, <1>8, <1>17, <3>1 DEF ScopeResolves
    <3> QED  BY <1>2, <1>8, <3>1, <3>2
  <2>2. CASE i # n
    <3>1. i \in Occupied /\ timers'[i] = timers[i]
      BY <1>9, <2>2
    <3>2. timers[i].record.scope \in ScopeTokens
      BY <1>1, <3>1, TimersTyped DEF Records
    <3>3. ScopeResolves(timers[i].record.scope)
      BY <1>1, <3>1 DEF TimersStand
    <3>4. ScopeResolves(timers[i].record.scope)'
      BY <1>17, <3>1, <3>2, <3>3 DEF ScopeResolves
    <3> QED  BY <1>1, <3>1, <3>4 DEF TimersStand
  <2> QED  BY <2>1, <2>2
<1>19. HandlesPast'
  <2>1. ASSUME NEW h \in DOMAIN issued
        PROVE  /\ h.index \in DOMAIN timers' /\ h.generation \in Nat
               /\ \/ h.generation < timers'[h.index].generation
                  \/ /\ h.generation = timers'[h.index].generation /\ h.index \in Occupied'
                     /\ timers'[h.index].record.seq = issued[h]
               /\ h # NextHandle
    <3>1. /\ h.index \in DOMAIN timers /\ h.generation \in Nat
          /\ \/ h.generation < timers[h.index].generation
             \/ /\ h.generation = timers[h.index].generation /\ h.index \in Occupied
                /\ timers[h.index].record.seq = issued[h]
      BY <1>1, <1>2 DEF HandlesPast
    <3>2. CASE h.index = n
      <4>1. g = timers[n].generation
        BY <1>6, <1>10, <3>1, <3>2 DEF Occupies
      <4>2. h.generation < g
        BY <1>10, <3>1, <3>2, <4>1
      <4>3. g \in Nat
        BY <1>6 DEF Occupies
      <4> QED  BY <1>7, <1>9, <3>1, <3>2, <4>2, <4>3
    <3>3. CASE h.index # n
      <4>1. timers'[h.index] = timers[h.index]
        BY <1>6, <1>10, <3>1, <3>3 DEF Occupies
      <4> QED  BY <1>7, <1>9, <3>1, <3>3, <4>1
    <3> QED  BY <3>2, <3>3
  <2>2. \A h \in DOMAIN issued : issued'[h] = issued[h]
    BY <1>3
  <2>3. issued'[NextHandle] = sequence /\ DOMAIN issued' = DOMAIN issued \cup {NextHandle}
    BY <1>3, <2>1
  <2>4. NextHandle.index \in DOMAIN timers' /\ NextHandle.generation \in Nat
    BY <1>6, <1>7, <1>9 DEF Occupies
  <2>5. /\ NextHandle.generation = timers'[NextHandle.index].generation /\ NextHandle.index \in Occupied'
        /\ timers'[NextHandle.index].record.seq = issued'[NextHandle]
    BY <1>7, <1>8, <1>9, <2>3
  <2> QED  BY <2>1, <2>2, <2>3, <2>4, <2>5 DEF HandlesPast
<1>20. Counted'
  <2>1. IsFiniteSet(Occupied)
    BY <1>1, OccupiedFinite
  <2>2. live' = Cardinality(Occupied')
    BY <1>1, <1>2, <1>9, <1>10, <2>1, FS_AddElement DEF Counted
  <2>3. ASSUME NEW id \in Ids PROVE scopes'[id].active = Cardinality(TimersOf(id)')
    <3>1. TimersOf(id) \in SUBSET Occupied /\ IsFiniteSet(TimersOf(id))
      BY <1>1, OccupiedFinite DEF TimersOf
    <3>2. scopes[id].active = Cardinality(TimersOf(id))
      BY <1>1, <1>2 DEF Counted
    <3>3. CASE id = sc.id
      <4>1. TimersOf(id)' = TimersOf(id) \cup {n}
        BY <1>8, <1>9, <3>3 DEF TimersOf
      <4>2. n \notin TimersOf(id)
        BY <1>10, <3>1
      <4>3. Cardinality(TimersOf(id) \cup {n}) = Cardinality(TimersOf(id)) + 1
        BY <3>1, <4>2, FS_AddElement
      <4> QED  BY <1>12, <3>2, <3>3, <4>1, <4>3
    <3>4. CASE id # sc.id
      <4>1. TimersOf(id)' = TimersOf(id)
        BY <1>8, <1>9, <3>4 DEF TimersOf
      <4> QED  BY <1>12, <3>2, <3>4, <4>1
    <3> QED  BY <3>3, <3>4
  <2> QED  BY <2>2, <2>3 DEF Counted
<1>21. Delivers'
  <2>1. ASSUME NEW p \in Places, ScopeResolves(ItemAt(p).scope)
        PROVE  ScopeResolves(ItemAt(p).scope)'
    <3>1. ItemAt(p).scope \in ScopeTokens
      BY <1>1, PlacesHoldItems DEF QueueItems
    <3>2. ItemAt(p)' = ItemAt(p)
      BY <1>2 DEF ItemAt
    <3> QED  BY <1>17, <2>1, <3>1, <3>2 DEF ScopeResolves
  <2>2. ValidEntriesStay
    BY <1>2, <2>1 DEF ValidEntriesStay
  <2> QED  BY <1>1, <1>15, <2>2, EntriesKeepDelivering
<1> QED  BY <1>13, <1>14, <1>16, <1>18, <1>19, <1>20, <1>21 DEF IInv
-----------------------------------------------------------------------------
(* Drain *)

(* f takes the elements of A to all of B. *)
LEMMA OntoFinite ==
    ASSUME NEW A, NEW B, NEW f, IsFiniteSet(A),
           \A a \in A : f[a] \in B, \A b \in B : \E a \in A : f[a] = b
    PROVE  /\ IsFiniteSet(B) /\ Cardinality(B) <= Cardinality(A)
           /\ (\A a, b \in A : f[a] = f[b] => a = b) => Cardinality(B) = Cardinality(A)
<1> DEFINE g == [a \in A |-> f[a]]
<1>1. g \in [A -> B] /\ \A a \in A : g[a] = f[a]
  OBVIOUS
<1> HIDE DEF g
<1>2. g \in Surjection(A, B)
  BY <1>1 DEF Surjection
<1>3. IsFiniteSet(B) /\ Cardinality(B) <= Cardinality(A) /\ (Cardinality(B) = Cardinality(A) <=> g \in Injection(A, B))
  BY <1>2, FS_Surjection
<1>4. (\A a, b \in A : f[a] = f[b] => a = b) => g \in Injection(A, B)
  BY <1>1 DEF Injection, IsInjective
<1> QED  BY <1>3, <1>4

LEMMA IntervalFinite ==
    ASSUME NEW n \in Nat
    PROVE  IsFiniteSet(1 .. n) /\ Cardinality(1 .. n) = n
<1>1. 1 \in Int /\ n \in Int
  OBVIOUS
<1>2. IsFiniteSet(1 .. n) /\ Cardinality(1 .. n) = IF 1 > n THEN 0 ELSE n - 1 + 1
  BY <1>1, FS_Interval
<1> QED  BY <1>2

LEMMA PlacesFinite ==
    ASSUME Types, QueuesWithin
    PROVE  /\ IsFiniteSet(Places) /\ Cardinality(Places) \in Nat
           /\ IsFiniteSet(Items) /\ Cardinality(Items) \in Nat /\ Cardinality(Items) <= Cardinality(Places)
<1> DEFINE C == 1 .. Len(slots)
<1> DEFINE D == 1 .. Depth
<1>1. IsFiniteSet(C) /\ IsFiniteSet(D)
  BY SlotsTyped, Limits, IntervalFinite
<1>2. ASSUME NEW p \in Places PROVE p \in C \X D
  <2>1. PICK c \in DOMAIN slots : \E i \in 1 .. Len(slots[c].queue) : p = <<c, i>>
    BY PlaceIsPair
  <2>2. PICK i \in 1 .. Len(slots[c].queue) : p = <<c, i>>
    BY <2>1
  <2>3. Len(slots[c].queue) <= Depth /\ Len(slots[c].queue) \in Nat /\ c \in C
    BY SlotsTyped DEF QueuesWithin
  <2>4. i \in D
    BY <2>3, Limits
  <2> QED  BY <2>2, <2>3, <2>4
<1>3. IsFiniteSet(C \X D)
  BY <1>1, FS_Product
<1>4. IsFiniteSet(Places)
  BY <1>2, <1>3, FS_Subset
<1> DEFINE f == [p \in Places |-> ItemAt(p)]
<1>5. (\A p \in Places : f[p] \in Items) /\ (\A item \in Items : \E p \in Places : f[p] = item)
  BY PlacesHoldItems
<1> HIDE DEF f
<1>6. IsFiniteSet(Items) /\ Cardinality(Items) <= Cardinality(Places)
  BY <1>4, <1>5, OntoFinite
<1> QED  BY <1>4, <1>6, FS_CardinalityType

LEMMA SortedFacts ==
    ASSUME NEW F, IsFiniteSet(F), NEW q \in Sorted(F)
    PROVE  /\ Cardinality(F) \in Nat /\ DOMAIN q = 1 .. Cardinality(F)
           /\ \A k \in DOMAIN q : q[k] \in F
           /\ \A i, k \in DOMAIN q : i < k => Before(q[i], q[k])
           /\ \A f \in F : \E i \in DOMAIN q : q[i] = f
           /\ DOMAIN q \in SUBSET Nat /\ IsFiniteSet(DOMAIN q)
<1> DEFINE n == Cardinality(F)
<1>1. n \in Nat
  BY FS_CardinalityType
<1>2. q \in [1 .. n -> F]
  BY DEF Sorted
<1>3. /\ \A i, k \in DOMAIN q : i < k => Before(q[i], q[k])
      /\ \A f \in F : \E i \in DOMAIN q : q[i] = f
  BY DEF Sorted
<1> HIDE DEF n
<1>4. DOMAIN q = 1 .. n /\ \A k \in DOMAIN q : q[k] \in F
  BY <1>2
<1>5. IsFiniteSet(1 .. n) /\ 1 .. n \subseteq Nat
  BY <1>1, IntervalFinite
<1> QED  BY <1>1, <1>3, <1>4, <1>5 DEF n

(* A list of positions, read along q, lists what q holds there. *)
LEMMA PositionsList ==
    ASSUME NEW q, NEW K \in SUBSET Nat, IsFiniteSet(K), NEW e \in Ascending(K), NEW S,
           S = {q[k].index : k \in K}, \A k, l \in K : q[k].index = q[l].index => k = l
    PROVE  Lists([i \in DOMAIN e |-> q[e[i]].index], S)
<1> DEFINE f == [k \in K |-> q[k].index]
<1>1. Lists(e, K) /\ Len(e) \in Nat
  BY AscendingLists
<1>2. Pairs(f, K, S)
  BY DEF Pairs
<1>3. e \in Seq(K) /\ DOMAIN e = 1 .. Len(e) /\ \A i \in 1 .. Len(e) : e[i] \in K
  BY <1>1 DEF Lists
<1>4. [i \in DOMAIN e |-> q[e[i]].index] = [i \in 1 .. Len(e) |-> f[e[i]]]
  BY <1>3
<1> HIDE DEF f
<1>5. Lists([i \in 1 .. Len(e) |-> f[e[i]]], S)
  BY <1>1, <1>2, ListsImage
<1> QED  BY <1>4, <1>5

(* Taking timers off the counts changes no scope. *)
LEMMA ScopesKeepResolving ==
    ASSUME Types, NEW S, \A id \in Ids : ActiveWithout(id, S) \in 0 .. MaxActive,
           scopes' = ScopesRetired(S)
    PROVE  /\ scopes' \in [Ids -> ScopeRecords]
           /\ \A id \in Ids : scopes'[id].active = ActiveWithout(id, S)
           /\ \A sc \in ScopeTokens : ScopeResolves(sc) =>
                 /\ scopes'[sc.id].alive
                 /\ scopes'[sc.id].generation = sc.generation
                 /\ scopes'[sc.id].kind = sc.kind
<1>1. /\ scopes' \in [Ids -> ScopeRecords]
      /\ \A id \in Ids : /\ scopes'[id].active = ActiveWithout(id, S)
                         /\ scopes'[id].kind = scopes[id].kind
                         /\ scopes'[id].generation = scopes[id].generation
                         /\ scopes'[id].alive = scopes[id].alive
  BY ScopesRetiredFacts
<1>2. \A sc \in ScopeTokens : sc.id \in Ids
  BY DEF ScopeTokens
<1> QED  BY <1>1, <1>2 DEF ScopeResolves

LEMMA DrainKeeps ==
    ASSUME IInv, Drain
    PROVE  IInv' /\ Places' = {}
<1>1. /\ Types /\ Stopped /\ TimersStand /\ HandlesPast /\ FreeList /\ Counted
      /\ Entries /\ QueuesWithin /\ Delivers
  BY DEF IInv
<1>2. PICK q \in Sorted(Items) :
        /\ CanRetire({q[k].index : k \in EndsFirst(q)})
        /\ timers' = TimersRetired({q[k].index : k \in EndsFirst(q)})
        /\ scopes' = ScopesRetired({q[k].index : k \in EndsFirst(q)})
        /\ live' = live - Cardinality({q[k].index : k \in EndsFirst(q)})
        /\ \E e \in Ascending(EndsFirst(q)) : free' = free \o [i \in DOMAIN e |-> q[e[i]].index]
  BY DEF Drain
<1>3. /\ slots' = [c \in DOMAIN slots |-> [slots[c] EXCEPT !.queue = <<>>]]
      /\ pending' = 0
      /\ UNCHANGED <<running, tick, schedules, sequence, dispatches, issued>>
  BY DEF Drain
<1> DEFINE S == {q[k].index : k \in EndsFirst(q)}
<1> DEFINE K == EndsFirst(q)
<1>4. DOMAIN q \in SUBSET Nat /\ IsFiniteSet(DOMAIN q)
  BY <1>1, PlacesFinite, SortedFacts
<1>5. K \in SUBSET DOMAIN q
  BY DEF EndsFirst
<1>6. K \in SUBSET Nat /\ IsFiniteSet(K)
  <2> HIDE DEF K
  <2> QED  BY <1>4, <1>5, FS_Subset
<1>7. ASSUME NEW k \in K, NEW l \in K, q[k].index = q[l].index PROVE k = l
  <2>1. k \in Nat /\ l \in Nat
    BY <1>6
  <2>2. ~ (k < l)
    <3> SUFFICES ASSUME k < l PROVE FALSE
      OBVIOUS
    <3>1. k \in 1 .. l - 1
      <4>1. k \in DOMAIN q /\ 1 <= k
        BY <1>1, <1>5, PlacesFinite, SortedFacts
      <4> QED  BY <2>1, <4>1
    <3>2. Ends(q[k])
      BY DEF EndsFirst
    <3> QED  BY <1>7, <3>1, <3>2 DEF EndsFirst
  <2>3. ~ (l < k)
    <3> SUFFICES ASSUME l < k PROVE FALSE
      OBVIOUS
    <3>1. l \in 1 .. k - 1
      <4>1. l \in DOMAIN q /\ 1 <= l
        BY <1>1, <1>5, PlacesFinite, SortedFacts
      <4> QED  BY <2>1, <4>1
    <3>2. Ends(q[l])
      BY DEF EndsFirst
    <3> QED  BY <1>7, <3>1, <3>2 DEF EndsFirst
  <2> QED  BY <2>1, <2>2, <2>3
<1>8. S \in SUBSET Occupied
  BY DEF EndsFirst, Ends, Resolves
<1>9. \E s : Lists(s, S) /\ free' = free \o s
  <2>1. PICK e \in Ascending(K) : free' = free \o [i \in DOMAIN e |-> q[e[i]].index]
    BY <1>2
  <2>2. S = {q[k].index : k \in K}
    OBVIOUS
  <2>3. \A k, l \in K : q[k].index = q[l].index => k = l
    BY <1>7
  <2> HIDE DEF S, K
  <2>4. Lists([i \in DOMAIN e |-> q[e[i]].index], S)
    BY <1>6, <2>2, <2>3, PositionsList
  <2> QED  BY <2>1, <2>4
<1>10. PICK s : Lists(s, S) /\ free' = free \o s
  BY <1>9
<1>11. /\ CanRetire(S) /\ timers' = TimersRetired(S) /\ scopes' = ScopesRetired(S)
       /\ live' = live - Cardinality(S)
  BY <1>2
<1> HIDE DEF S, K
<1>12. \A id \in Ids : ActiveWithout(id, S) \in 0 .. MaxActive
  BY <1>1, <1>8, ActiveWithin
<1>13. /\ scopes' \in [Ids -> ScopeRecords]
       /\ \A id \in Ids : scopes'[id].active = ActiveWithout(id, S)
       /\ \A sc \in ScopeTokens : ScopeResolves(sc) =>
             /\ scopes'[sc.id].alive
             /\ scopes'[sc.id].generation = sc.generation
             /\ scopes'[sc.id].kind = sc.kind
  BY <1>1, <1>11, <1>12, ScopesKeepResolving
<1>14. Retires(S, s)
  BY <1>1, <1>3, <1>8, <1>10, <1>11, <1>13, PlainRetires
<1>15. /\ timers' \in Seq(TimerSlots) /\ Len(timers') = Len(timers)
       /\ \A i \in 1 .. Len(timers) : i \notin S => timers'[i] = timers[i]
  BY <1>1, <1>8, <1>11, TimersRetiredFacts
<1>16. Occupied' = Occupied \ S
  BY <1>1, <1>14, RetiresOccupied
<1>17. Stopped' /\ HandlesPast'
  BY <1>1, <1>14, RetiresKeepsHandles
<1>18. FreeList' /\ free' \in Seq(1 .. Len(timers'))
  BY <1>1, <1>14, RetiresKeepsFree
<1>19. Counted'
  BY <1>1, <1>14, RetiresKeepsCounts
<1>20. /\ slots' \in Seq(SlotRecords) /\ Len(slots') = Len(slots) /\ DOMAIN slots' = DOMAIN slots
       /\ DOMAIN slots = 1 .. Len(slots)
       /\ \A c \in DOMAIN slots : /\ slots'[c].state = slots[c].state
                                  /\ slots'[c].dispatch = slots[c].dispatch
                                  /\ Len(slots'[c].queue) = 0
  <2> DEFINE n == Len(slots)
  <2>1. n \in Nat /\ DOMAIN slots = 1 .. n /\ \A c \in 1 .. n : slots[c] \in SlotRecords
    BY <1>1, SlotsTyped
  <2> HIDE DEF n
  <2>2. ASSUME NEW c \in 1 .. n
        PROVE  /\ slots'[c] \in SlotRecords /\ slots'[c].state = slots[c].state
               /\ slots'[c].dispatch = slots[c].dispatch /\ Len(slots'[c].queue) = 0
    <3>1. slots'[c] = [slots[c] EXCEPT !.queue = <<>>]
      BY <1>3, <2>1
    <3>2. slots[c] \in SlotRecords /\ <<>> \in Seq(QueueItems)
      BY <2>1
    <3>3. /\ slots'[c] \in SlotRecords /\ slots'[c].state = slots[c].state
          /\ slots'[c].dispatch = slots[c].dispatch /\ slots'[c].queue = <<>>
      BY <3>1, <3>2 DEF SlotRecords
    <3> QED  BY <3>3
  <2>3. slots' \in [1 .. n -> SlotRecords]
    BY <1>3, <2>1, <2>2
  <2>4. slots' \in Seq(SlotRecords) /\ Len(slots') = n /\ DOMAIN slots' = 1 .. n
    BY <2>1, <2>3
  <2> QED  BY <2>1, <2>2, <2>4 DEF n
<1>21. Places' = {}
  <2>1. \A c \in DOMAIN slots' : 1 .. Len(slots'[c].queue) = {}
    BY <1>20
  <2> QED  BY <2>1 DEF Places
<1>22. Types'
  <2>1. \A c \in 1 .. Len(slots') : slots'[c].state = "Unbound" \/ slots'[c].dispatch \in Dispatches
    BY <1>1, <1>20 DEF Types
  <2> QED  BY <1>1, <1>3, <1>13, <1>15, <1>18, <1>20, <2>1 DEF Types
<1>23. TimersStand'
  <2>1. SlotsStayBound
    BY <1>20 DEF SlotsStayBound
  <2>2. ASSUME NEW i \in Occupied'
        PROVE  /\ i \in Occupied /\ timers'[i] = timers[i]
               /\ timers[i].record.queued \/ timers[i].record.due > tick'
               /\ ScopeResolves(timers[i].record.scope)'
    <3>1. i \in Occupied /\ i \notin S
      BY <1>16
    <3>2. i \in 1 .. Len(timers) /\ timers[i].record \in Records
      BY <1>1, <3>1, TimersTyped
    <3>3. timers'[i] = timers[i]
      BY <1>15, <3>1, <3>2
    <3>4. ScopeResolves(timers[i].record.scope) /\ (timers[i].record.queued \/ timers[i].record.due > tick)
      BY <1>1, <3>1 DEF TimersStand
    <3>5. timers[i].record.scope \in ScopeTokens
      BY <3>2 DEF Records
    <3>6. ScopeResolves(timers[i].record.scope)'
      BY <1>13, <3>3, <3>4, <3>5 DEF ScopeResolves
    <3> QED  BY <1>3, <3>1, <3>3, <3>4, <3>6
  <2>3. TimersStay
    BY <2>2 DEF TimersStay
  <2> QED  BY <1>1, <2>1, <2>3, TimersKeepStanding
<1>24. Entries' /\ Delivers'
  BY <1>21 DEF Entries, Delivers
<1>25. QueuesWithin'
  BY <1>3, <1>20, <1>21, FS_EmptySet, Limits DEF QueuesWithin
<1> QED  BY <1>17, <1>18, <1>19, <1>21, <1>22, <1>23, <1>24, <1>25 DEF IInv
-----------------------------------------------------------------------------
(* Advance: what fires *)

LEMMA DivisionExceeds ==
    ASSUME NEW x \in Nat, NEW v \in Nat \ {0}
    PROVE  x \div v \in Nat /\ x < (x \div v + 1) * v
OBVIOUS

(* A set of positions has a last one. *)
LEMMA LastPosition ==
    ASSUME NEW n \in Nat, NEW S \in SUBSET (1 .. n), S # {}
    PROVE  \E m \in S : \A k \in S : k <= m
<1> DEFINE B == {u \in Nat : \A k \in S : k <= u}
<1>1. B \subseteq Nat /\ n \in B
  OBVIOUS
<1>2. PICK m \in B : \A u \in B : m <= u
  <2> HIDE DEF B
  <2> QED  BY <1>1, LeastNatural
<1>3. m \in Nat /\ \A k \in S : k <= m
  OBVIOUS
<1>4. m \in S
  <2> SUFFICES ASSUME m \notin S PROVE FALSE
    OBVIOUS
  <2>1. PICK k \in S : TRUE
    OBVIOUS
  <2>2. \A i \in S : i <= m - 1
    BY <1>3
  <2>3. m - 1 \in Nat
    BY <1>3, <2>1, <2>2
  <2>4. m - 1 \in B
    BY <2>2, <2>3
  <2> QED  BY <1>2, <1>3, <2>4
<1> QED  BY <1>3, <1>4

(* A timer that fires was waiting for a tick after the committed one. *)
LEMMA FiringFacts ==
    ASSUME Types, TimersStand, NEW to \in 1 .. MaxTick, NEW i \in Firing(to)
    PROVE  /\ i \in Occupied /\ i \in 1 .. Len(timers) /\ timers[i].record \in Records
           /\ timers[i].generation \in 1 .. MaxGeneration
           /\ tick < timers[i].record.due /\ timers[i].record.due <= to
           /\ \A d \in DueTicks(timers[i].record, to) : d \in 1 .. MaxTick /\ tick < d /\ d <= to
<1> DEFINE r == timers[i].record
<1>1. i \in Occupied /\ ~ r.queued /\ r.due <= to
  BY DEF Firing
<1>2. i \in 1 .. Len(timers) /\ r \in Records /\ timers[i].generation \in 1 .. MaxGeneration
  BY <1>1, TimersTyped
<1>3. tick < r.due /\ tick \in Nat
  <2>1. r.due > tick
    BY <1>1 DEF TimersStand
  <2>2. r.due \in 1 .. MaxTick /\ tick \in 0 .. MaxTick
    BY <1>2 DEF Records, Types
  <2> QED  BY <2>1, <2>2
<1>4. r.due \in 1 .. MaxTick
  BY <1>2 DEF Records
<1> HIDE DEF r
<1>5. \A d \in DueTicks(r, to) : d \in r.due .. to
  <2>1. r.due \in r.due .. to
    BY <1>1, <1>4
  <2> QED  BY <2>1 DEF DueTicks
<1>6. ASSUME NEW d \in DueTicks(r, to) PROVE d \in 1 .. MaxTick /\ tick < d /\ d <= to
  <2>1. d \in r.due .. to
    BY <1>5
  <2> QED  BY <1>3, <1>4, <2>1, Limits
<1> QED  BY <1>1, <1>2, <1>3, <1>6 DEF r

(* The firing of timer i at tick d. *)
FiringAt(i, d) ==
    [index |-> i, generation |-> timers[i].generation, due |-> d,
     seq |-> timers[i].record.seq, dispatch |-> timers[i].record.dispatch]

LEMMA FiringsAre ==
    ASSUME NEW to
    PROVE  \A f : f \in Firings(to) <=>
              \E i \in Firing(to) : \E d \in DueTicks(timers[i].record, to) : f = FiringAt(i, d)
BY DEF Firings, FiringAt

LEMMA FiringsTyped ==
    ASSUME Types, TimersStand, NEW to \in 1 .. MaxTick, NEW f \in Firings(to)
    PROVE  /\ f.index \in Firing(to) /\ f.due \in DueTicks(timers[f.index].record, to)
           /\ f = FiringAt(f.index, f.due)
           /\ f.generation = timers[f.index].generation
           /\ f.seq = timers[f.index].record.seq /\ f.dispatch = timers[f.index].record.dispatch
           /\ f.index \in Nat /\ f.due \in Nat /\ f.seq \in Nat
           /\ tick < f.due /\ f.due <= to
<1>1. PICK i \in Firing(to) : \E d \in DueTicks(timers[i].record, to) : f = FiringAt(i, d)
  BY FiringsAre
<1>2. PICK d \in DueTicks(timers[i].record, to) : f = FiringAt(i, d)
  BY <1>1
<1>3. /\ f.index = i /\ f.due = d /\ f.generation = timers[i].generation
      /\ f.seq = timers[i].record.seq /\ f.dispatch = timers[i].record.dispatch
  BY <1>2 DEF FiringAt
<1>4. /\ i \in 1 .. Len(timers) /\ timers[i].record \in Records
      /\ d \in 1 .. MaxTick /\ tick < d /\ d <= to
  BY FiringFacts
<1>5. timers[i].record.seq \in Nat
  BY <1>4, Limits DEF Records
<1> QED  BY <1>2, <1>3, <1>4, <1>5

LEMMA FiringsFinite ==
    ASSUME Types, TimersStand, NEW to \in 1 .. MaxTick
    PROVE  IsFiniteSet(Firings(to))
<1> DEFINE A == 1 .. Len(timers)
<1> DEFINE D == 1 .. MaxTick
<1> DEFINE P == {p \in A \X D : p[1] \in Firing(to) /\ p[2] \in DueTicks(timers[p[1]].record, to)}
<1> DEFINE f == [p \in P |-> FiringAt(p[1], p[2])]
<1>1. IsFiniteSet(A) /\ IsFiniteSet(D)
  BY TimersTyped, Limits, IntervalFinite
<1>2. IsFiniteSet(A \X D)
  BY <1>1, FS_Product
<1>3. IsFiniteSet(P)
  BY <1>2, FS_Subset
<1>4. \A p \in P : f[p] \in Firings(to)
  BY FiringsAre
<1>5. ASSUME NEW g \in Firings(to) PROVE \E p \in P : f[p] = g
  <2>1. g.index \in Firing(to) /\ g.due \in DueTicks(timers[g.index].record, to) /\ g = FiringAt(g.index, g.due)
    BY FiringsTyped
  <2>2. g.index \in A /\ g.due \in D
    BY <2>1, FiringFacts
  <2>3. <<g.index, g.due>> \in P
    BY <2>1, <2>2
  <2> QED  BY <2>1, <2>3
<1> HIDE DEF P, f
<1> QED  BY <1>3, <1>4, <1>5, OntoFinite

(* q sets the firings up to tick to in order, and K accepts what has room. *)
Fires(to, q, K) ==
    /\ running /\ to \in 1 .. MaxTick /\ to > tick
    /\ q \in Sorted(Firings(to)) /\ K \in SUBSET DOMAIN q /\ Accepts(q, K)

LEMMA FiringPositions ==
    ASSUME IInv, NEW to, NEW q, NEW K, Fires(to, q, K)
    PROVE  /\ Cardinality(Firings(to)) \in Nat /\ DOMAIN q = 1 .. Cardinality(Firings(to))
           /\ DOMAIN q \in SUBSET Nat /\ IsFiniteSet(DOMAIN q)
           /\ \A k \in DOMAIN q :
                 /\ q[k].index \in Firing(to) /\ q[k].index \in Occupied
                 /\ q[k].due \in DueTicks(timers[q[k].index].record, to)
                 /\ q[k].generation = timers[q[k].index].generation
                 /\ q[k].seq = timers[q[k].index].record.seq
                 /\ q[k].dispatch = timers[q[k].index].record.dispatch
                 /\ q[k].index \in Nat /\ q[k].due \in Nat /\ tick < q[k].due /\ q[k].due <= to
           /\ \A k, l \in DOMAIN q : q[k].index = q[l].index /\ q[k].due = q[l].due => k = l
           /\ \A k, l \in DOMAIN q : k < l => Before(q[k], q[l])
           /\ \A i \in Firing(to) : \A d \in DueTicks(timers[i].record, to) :
                 \E k \in DOMAIN q : q[k] = FiringAt(i, d)
<1> DEFINE F == Firings(to)
<1>1. Types /\ TimersStand /\ to \in 1 .. MaxTick
  BY DEF IInv, Fires
<1>2. IsFiniteSet(F) /\ q \in Sorted(F)
  BY <1>1, FiringsFinite DEF Fires
<1>3. /\ Cardinality(F) \in Nat /\ DOMAIN q = 1 .. Cardinality(F)
      /\ \A k \in DOMAIN q : q[k] \in F
      /\ \A i, k \in DOMAIN q : i < k => Before(q[i], q[k])
      /\ \A f \in F : \E i \in DOMAIN q : q[i] = f
      /\ DOMAIN q \in SUBSET Nat /\ IsFiniteSet(DOMAIN q)
  <2> HIDE DEF F
  <2> QED  BY <1>2, SortedFacts
<1>4. ASSUME NEW k \in DOMAIN q
      PROVE  /\ q[k].index \in Firing(to) /\ q[k].index \in Occupied
             /\ q[k].due \in DueTicks(timers[q[k].index].record, to)
             /\ q[k] = FiringAt(q[k].index, q[k].due)
             /\ q[k].generation = timers[q[k].index].generation
             /\ q[k].seq = timers[q[k].index].record.seq
             /\ q[k].dispatch = timers[q[k].index].record.dispatch
             /\ q[k].index \in Nat /\ q[k].due \in Nat /\ q[k].seq \in Nat
             /\ tick < q[k].due /\ q[k].due <= to
  <2>1. q[k] \in Firings(to)
    BY <1>3
  <2>2. q[k].index \in Firing(to)
    BY <1>1, <2>1, FiringsTyped
  <2>3. q[k].index \in Occupied
    BY <2>2 DEF Firing
  <2> QED  BY <1>1, <2>1, <2>2, <2>3, FiringsTyped
<1>5. ASSUME NEW k \in DOMAIN q, NEW l \in DOMAIN q, q[k].index = q[l].index, q[k].due = q[l].due
      PROVE  k = l
  <2>1. q[k] = q[l]
    BY <1>4, <1>5
  <2>2. ~ Before(q[k], q[k])
    BY <1>4 DEF Before
  <2>3. ~ (k < l) /\ ~ (l < k)
    BY <1>3, <2>1, <2>2
  <2>4. k \in Nat /\ l \in Nat
    BY <1>3
  <2> QED  BY <2>3, <2>4
<1>6. ASSUME NEW i \in Firing(to), NEW d \in DueTicks(timers[i].record, to)
      PROVE  \E k \in DOMAIN q : q[k] = FiringAt(i, d)
  BY <1>3, FiringsAre
<1> QED  BY <1>3, <1>4, <1>5, <1>6
-----------------------------------------------------------------------------
(* Advance: the timers that fire *)

Away(q, K) == {q[k].index : k \in TurnedAway(q, K)}

Over(to, q, K) == {i \in Firing(to) \ Away(q, K) : Exhausted(i, to)}

Gone(to, q, K) == Away(q, K) \cup Over(to, q, K)

(* What Advance does to the timers and the books about them. *)
AdvancesTimers(to, q, K) ==
    /\ CanRetire(Gone(to, q, K))
    /\ timers' = [i \in DOMAIN timers |->
                     IF i \in Firing(to) \ Gone(to, q, K) THEN Moved(i, to)
                                                          ELSE TimersRetired(Gone(to, q, K))[i]]
    /\ scopes' = ScopesRetired(Gone(to, q, K))
    /\ live' = live - Cardinality(Gone(to, q, K))
    /\ \E r \in Ascending(TurnedAway(q, K)) : \E e \in Ascending(Over(to, q, K)) :
            free' = free \o [i \in DOMAIN r |-> q[r[i]].index] \o e
    /\ tick' = to /\ UNCHANGED <<running, issued>>

LEMMA GoneFacts ==
    ASSUME IInv, NEW to, NEW q, NEW K, Fires(to, q, K)
    PROVE  /\ TurnedAway(q, K) \in SUBSET Nat /\ IsFiniteSet(TurnedAway(q, K))
           /\ \A k, l \in TurnedAway(q, K) : q[k].index = q[l].index => k = l
           /\ Away(q, K) \in SUBSET Firing(to) /\ Gone(to, q, K) \in SUBSET Occupied
           /\ Over(to, q, K) \in SUBSET Nat /\ IsFiniteSet(Over(to, q, K))
           /\ Away(q, K) \cap Over(to, q, K) = {}
           /\ Firing(to) \in SUBSET Occupied
<1> DEFINE T == TurnedAway(q, K)
<1>1. /\ DOMAIN q \in SUBSET Nat /\ IsFiniteSet(DOMAIN q)
      /\ DOMAIN q = 1 .. Cardinality(Firings(to))
      /\ \A k \in DOMAIN q : q[k].index \in Firing(to)
  BY FiringPositions
<1>2. T \in SUBSET DOMAIN q /\ \A k \in T : k \notin K
  BY DEF TurnedAway
<1>3. T \in SUBSET Nat /\ IsFiniteSet(T)
  <2> HIDE DEF T
  <2> QED  BY <1>1, <1>2, FS_Subset
<1>4. ASSUME NEW k \in T, NEW l \in T, q[k].index = q[l].index PROVE k = l
  <2>1. k \in Nat /\ l \in Nat /\ 1 <= k /\ 1 <= l
    BY <1>1, <1>2
  <2>2. ~ (k < l)
    <3> SUFFICES ASSUME k < l PROVE FALSE
      OBVIOUS
    <3>1. k \in 1 .. l - 1
      BY <2>1
    <3>2. k \in K
      BY <1>4, <3>1 DEF TurnedAway
    <3> QED  BY <1>2, <3>2
  <2>3. ~ (l < k)
    <3> SUFFICES ASSUME l < k PROVE FALSE
      OBVIOUS
    <3>1. l \in 1 .. k - 1
      BY <2>1
    <3>2. l \in K
      BY <1>4, <3>1 DEF TurnedAway
    <3> QED  BY <1>2, <3>2
  <2> QED  BY <2>1, <2>2, <2>3
<1>5. Firing(to) \in SUBSET Occupied
  BY DEF Firing
<1>6. Away(q, K) \in SUBSET Firing(to)
  BY <1>1, <1>2 DEF Away
<1>7. Over(to, q, K) \in SUBSET Occupied /\ Away(q, K) \cap Over(to, q, K) = {}
  BY <1>5 DEF Over
<1>8. Over(to, q, K) \in SUBSET Nat /\ IsFiniteSet(Over(to, q, K))
  BY <1>7, OccupiedFinite DEF IInv
<1>9. Gone(to, q, K) \in SUBSET Occupied
  BY <1>5, <1>6, <1>7 DEF Gone
<1> QED  BY <1>3, <1>4, <1>5, <1>6, <1>7, <1>8, <1>9

(* A timer that has fired and stays is the same timer, later. *)
LEMMA MovedFacts ==
    ASSUME Types, TimersStand, NEW to \in 1 .. MaxTick, NEW i \in Firing(to), ~ Exhausted(i, to)
    PROVE  /\ Moved(i, to) \in TimerSlots
           /\ Moved(i, to).generation = timers[i].generation
           /\ Moved(i, to).record # NoTimer /\ timers[i].record # NoTimer
           /\ Moved(i, to).record.seq = timers[i].record.seq
           /\ Moved(i, to).record.scope = timers[i].record.scope
           /\ Moved(i, to).record.slot = timers[i].record.slot
           /\ Moved(i, to).record.dispatch = timers[i].record.dispatch
           /\ Moved(i, to).record.interval = timers[i].record.interval
           /\ Moved(i, to).record.queued \/ Moved(i, to).record.due > to
           /\ timers[i].record.interval = OneShot =>
                 Moved(i, to).record.due = timers[i].record.due /\ Moved(i, to).record.queued
           /\ timers[i].record.interval # OneShot =>
                 /\ Moved(i, to).record.due = NextDue(timers[i].record, to)
                 /\ Moved(i, to).record.queued = timers[i].record.queued
<1> DEFINE r == timers[i].record
<1> DEFINE m == Moved(i, to)
<1>1. r \in Records /\ timers[i] \in TimerSlots /\ r.due <= to
  BY FiringFacts, TimersTyped
<1>2. CASE r.interval = OneShot
  <2>1. m = [timers[i] EXCEPT !.record.queued = TRUE]
    BY <1>2 DEF Moved
  <2>2. m = [timers[i] EXCEPT !.record = [r EXCEPT !.queued = TRUE]]
    BY <2>1
  <2> DEFINE s == [r EXCEPT !.queued = TRUE]
  <2>3. /\ s \in Records /\ s.seq = r.seq /\ s.scope = r.scope /\ s.slot = r.slot /\ s.dispatch = r.dispatch
        /\ s.queued /\ s.interval = r.interval /\ s.due = r.due
    BY <1>1 DEF Records
  <2> HIDE DEF s, r
  <2>4. m \in TimerSlots /\ m.generation = timers[i].generation /\ m.record = s
    BY <1>1, <2>2, <2>3 DEF TimerSlots, s
  <2> QED  BY <1>1, <1>2, <2>3, <2>4, Limits DEF r
<1>3. CASE r.interval # OneShot
  <2> DEFINE d == NextDue(r, to)
  <2> DEFINE s == [r EXCEPT !.due = d]
  <2>1. m = [timers[i] EXCEPT !.record.due = d]
    BY <1>3 DEF Moved
  <2>2. m = [timers[i] EXCEPT !.record = s]
    BY <2>1
  <2>3. d \in 1 .. MaxTick /\ d > to
    <3> DEFINE v == r.interval
    <3> DEFINE x == to - r.due
    <3>1. v \in 1 .. MaxTick
      BY <1>1, <1>3, Limits DEF Records
    <3>2. r.due \in 1 .. MaxTick /\ r.due <= to
      BY <1>1 DEF Records
    <3>3. x \in Nat /\ v \in Nat \ {0}
      BY <3>1, <3>2, Limits
    <3> DEFINE y == (x \div v + 1) * v
    <3>4. x < y /\ y \in Nat
      <4> HIDE DEF x, v
      <4>1. x \div v \in Nat /\ x < (x \div v + 1) * v
        BY <3>3, DivisionExceeds
      <4>2. x \div v + 1 \in Nat
        BY <4>1
      <4> DEFINE z == x \div v + 1
      <4> HIDE DEF z
      <4>3. z * v \in Nat
        BY <3>3, <4>2 DEF z
      <4> QED  BY <4>1, <4>3 DEF z
    <3>5. d = r.due + y
      BY DEF NextDue
    <3>6. d <= MaxTick \/ ~ (d \in Nat)
      <4>1. ~ (d > MaxTick)
        BY <1>3 DEF Exhausted
      <4> HIDE DEF d
      <4> QED  BY <4>1, Limits
    <3>7. x = to - r.due
      OBVIOUS
    <3> HIDE DEF y, x, d, r
    <3> QED  BY <3>2, <3>3, <3>4, <3>5, <3>6, <3>7, Limits
  <2> HIDE DEF d
  <2>4. /\ s \in Records /\ s.seq = r.seq /\ s.scope = r.scope /\ s.slot = r.slot /\ s.dispatch = r.dispatch
        /\ s.due = d /\ s.interval = r.interval /\ s.queued = r.queued
    BY <1>1, <2>3 DEF Records
  <2> HIDE DEF s, r
  <2>5. m \in TimerSlots /\ m.generation = timers[i].generation /\ m.record = s
    BY <1>1, <2>2, <2>4 DEF TimerSlots, s
  <2>6. d = NextDue(r, to)
    BY DEF d
  <2> QED  BY <1>1, <1>3, <2>3, <2>4, <2>5, <2>6, Limits DEF r
<1> QED  BY <1>2, <1>3

(* The timers after an advance, one by one. *)
LEMMA AdvancedTimers ==
    ASSUME IInv, NEW to, NEW q, NEW K, Fires(to, q, K), AdvancesTimers(to, q, K)
    PROVE  /\ timers' \in Seq(TimerSlots) /\ Len(timers') = Len(timers)
           /\ \A i \in Gone(to, q, K) :
                 /\ timers'[i].generation = timers[i].generation + 1
                 /\ timers'[i].record = NoTimer
           /\ \A i \in Firing(to) \ Gone(to, q, K) : timers'[i] = Moved(i, to) /\ ~ Exhausted(i, to)
           /\ \A i \in 1 .. Len(timers) : i \notin Firing(to) => timers'[i] = timers[i] /\ i \notin Gone(to, q, K)
<1> DEFINE G == Gone(to, q, K)
<1> DEFINE n == Len(timers)
<1> DEFINE R == TimersRetired(G)
<1>1. Types /\ TimersStand /\ to \in 1 .. MaxTick
  BY DEF IInv, Fires
<1>2. G \in SUBSET Occupied /\ Firing(to) \in SUBSET Occupied /\ G \subseteq Firing(to)
  BY GoneFacts DEF Gone, Over
<1>3. \A i \in Firing(to) \ G : ~ Exhausted(i, to)
  BY DEF Gone, Over
<1>4. n \in Nat /\ DOMAIN timers = 1 .. n /\ \A i \in Occupied : i \in 1 .. n
  BY <1>1, TimersTyped
<1>5. CanRetire(G) /\ timers' = [i \in 1 .. n |-> IF i \in Firing(to) \ G THEN Moved(i, to) ELSE R[i]]
  BY <1>4 DEF AdvancesTimers
<1> HIDE DEF G
<1>6. /\ R \in Seq(TimerSlots) /\ Len(R) = n
      /\ \A i \in G : R[i] = [generation |-> timers[i].generation + 1, record |-> NoTimer]
      /\ \A i \in 1 .. n : i \notin G => R[i] = timers[i]
  BY <1>1, <1>2, <1>5, TimersRetiredFacts
<1> HIDE DEF n, R
<1>7. \A i \in 1 .. n : R[i] \in TimerSlots
  BY <1>4, <1>6
<1>8. \A i \in Firing(to) \ G : Moved(i, to) \in TimerSlots
  BY <1>1, <1>3, MovedFacts
<1>9. timers' \in [1 .. n -> TimerSlots]
  BY <1>5, <1>7, <1>8
<1>10. timers' \in Seq(TimerSlots) /\ Len(timers') = n
  BY <1>4, <1>9
<1>11. ASSUME NEW i \in G PROVE timers'[i].generation = timers[i].generation + 1 /\ timers'[i].record = NoTimer
  <2>1. timers'[i] = R[i]
    BY <1>2, <1>4, <1>5
  <2>2. timers'[i] = [generation |-> timers[i].generation + 1, record |-> NoTimer]
    BY <1>6, <2>1
  <2> QED  BY <2>2
<1>12. \A i \in Firing(to) \ G : timers'[i] = Moved(i, to)
  BY <1>2, <1>4, <1>5
<1>13. \A i \in 1 .. n : i \notin Firing(to) => timers'[i] = timers[i] /\ i \notin G
  BY <1>2, <1>5, <1>6
<1> QED  BY <1>3, <1>10, <1>11, <1>12, <1>13 DEF n, G

LEMMA AdvanceRetires ==
    ASSUME IInv, NEW to, NEW q, NEW K, Fires(to, q, K), AdvancesTimers(to, q, K)
    PROVE  \E s : Retires(Gone(to, q, K), s)
<1> DEFINE G == Gone(to, q, K)
<1> DEFINE A == Away(q, K)
<1> DEFINE O == Over(to, q, K)
<1> DEFINE T == TurnedAway(q, K)
<1>1. Types /\ TimersStand /\ to \in 1 .. MaxTick
  BY DEF IInv, Fires
<1>2. /\ T \in SUBSET Nat /\ IsFiniteSet(T)
      /\ \A k, l \in T : q[k].index = q[l].index => k = l
      /\ G \in SUBSET Occupied /\ A \in SUBSET Firing(to)
      /\ O \in SUBSET Nat /\ IsFiniteSet(O)
      /\ A \cap O = {} /\ G = A \cup O /\ A = {q[k].index : k \in T}
      /\ Firing(to) \in SUBSET Occupied
  BY GoneFacts DEF Gone, Away
<1>3. /\ timers' \in Seq(TimerSlots) /\ Len(timers') = Len(timers)
      /\ \A i \in G : timers'[i].generation = timers[i].generation + 1 /\ timers'[i].record = NoTimer
      /\ \A i \in Firing(to) \ G : timers'[i] = Moved(i, to) /\ ~ Exhausted(i, to)
      /\ \A i \in 1 .. Len(timers) : i \notin Firing(to) => timers'[i] = timers[i] /\ i \notin G
  BY AdvancedTimers
<1>4. /\ scopes' = ScopesRetired(G) /\ live' = live - Cardinality(G)
      /\ UNCHANGED <<running, issued>>
  BY DEF AdvancesTimers
<1>5. PICK r \in Ascending(T), e \in Ascending(O) : free' = (free \o [i \in DOMAIN r |-> q[r[i]].index]) \o e
  BY DEF AdvancesTimers
<1> DEFINE u == [i \in DOMAIN r |-> q[r[i]].index]
<1> HIDE DEF T, A, O, G
<1>6. Lists(u, A)
  <2> HIDE DEF u
  <2>1. Lists([i \in DOMAIN r |-> q[r[i]].index], A)
    BY <1>2, PositionsList
  <2> QED  BY <2>1 DEF u
<1>7. Lists(e, O)
  BY <1>2, AscendingLists
<1> HIDE DEF u
<1>8. Lists(u \o e, G)
  BY <1>2, <1>6, <1>7, ListsConcat
<1>9. free' = free \o (u \o e)
  <2> DEFINE N == 1 .. Len(timers)
  <2>1. \A i \in Occupied : i \in N
    BY <1>1, TimersTyped
  <2>2. A \subseteq N /\ O \subseteq N
    BY <1>2, <2>1
  <2>3. free \in Seq(N) /\ u \in Seq(A) /\ e \in Seq(O)
    BY <1>1, <1>6, <1>7 DEF Types, Lists
  <2> HIDE DEF N
  <2>4. u \in Seq(N) /\ e \in Seq(N)
    BY <2>2, <2>3, SeqMonotonic
  <2>5. (free \o u) \o e = free \o (u \o e)
    BY <2>3, <2>4, ConcatAssociative
  <2> QED  BY <1>5, <2>5 DEF u
<1>10. ASSUME NEW i \in 1 .. Len(timers), i \notin G
       PROVE  /\ timers'[i].generation = timers[i].generation
              /\ (timers'[i].record = NoTimer) <=> (timers[i].record = NoTimer)
              /\ i \in Occupied => /\ timers'[i].record.seq = timers[i].record.seq
                                   /\ timers'[i].record.scope = timers[i].record.scope
                                   /\ timers'[i].record.slot = timers[i].record.slot
                                   /\ timers'[i].record.dispatch = timers[i].record.dispatch
  <2>1. CASE i \in Firing(to)
    <3>1. timers'[i] = Moved(i, to) /\ ~ Exhausted(i, to)
      BY <1>3, <1>10, <2>1
    <3> QED  BY <1>1, <2>1, <3>1, MovedFacts
  <2>2. CASE i \notin Firing(to)
    BY <1>3, <2>2
  <2> QED  BY <2>1, <2>2
<1>11. \A id \in Ids : scopes'[id].active = ActiveWithout(id, G)
  BY <1>1, <1>2, <1>4, ActiveWithin, ScopesKeepResolving
<1>12. Retires(G, u \o e)
  BY <1>2, <1>3, <1>4, <1>8, <1>9, <1>10, <1>11 DEF Retires
<1> QED  BY <1>12 DEF G
-----------------------------------------------------------------------------
(* Advance: the entries that arrive *)

(* The accepted positions whose timer is on slot c. *)
At(q, K, c) == {k \in K : SlotOf(q[k]) = c}

LEMMA AcceptedFacts ==
    ASSUME IInv, NEW to, NEW q, NEW K, Fires(to, q, K)
    PROVE  /\ K \in SUBSET Nat /\ IsFiniteSet(K) /\ K \in SUBSET (1 .. Cardinality(Firings(to)))
           /\ \A k \in K :
                 /\ k \in DOMAIN q
                 /\ SlotOf(q[k]) \in DOMAIN slots
                 /\ slots[SlotOf(q[k])].state = "Armed"
                 /\ slots[SlotOf(q[k])].dispatch = q[k].dispatch
                 /\ ScopeResolves(timers[q[k].index].record.scope)
                 /\ pending + Cardinality({i \in K : i < k}) < MaxPending
                 /\ Len(slots[SlotOf(q[k])].queue) + Cardinality({i \in At(q, K, SlotOf(q[k])) : i < k}) < Depth
<1>1. /\ DOMAIN q \in SUBSET Nat /\ IsFiniteSet(DOMAIN q)
      /\ DOMAIN q = 1 .. Cardinality(Firings(to))
      /\ \A k \in DOMAIN q : /\ q[k].index \in Occupied
                             /\ q[k].dispatch = timers[q[k].index].record.dispatch
  BY FiringPositions
<1>2. K \in SUBSET DOMAIN q /\ Accepts(q, K) /\ TimersStand
  BY DEF Fires, IInv
<1>3. K \in SUBSET Nat /\ IsFiniteSet(K) /\ K \in SUBSET (1 .. Cardinality(Firings(to)))
  <2>1. IsFiniteSet(K)
    BY <1>1, <1>2, FS_Subset
  <2> QED  BY <1>1, <1>2, <2>1
<1>4. ASSUME NEW k \in K
      PROVE  /\ k \in DOMAIN q
             /\ SlotOf(q[k]) \in DOMAIN slots
             /\ slots[SlotOf(q[k])].state = "Armed"
             /\ slots[SlotOf(q[k])].dispatch = q[k].dispatch
             /\ ScopeResolves(timers[q[k].index].record.scope)
             /\ pending + Cardinality({i \in K : i < k}) < MaxPending
             /\ Len(slots[SlotOf(q[k])].queue) + Cardinality({i \in At(q, K, SlotOf(q[k])) : i < k}) < Depth
  <2>1. k \in DOMAIN q /\ q[k].index \in Occupied /\ q[k].dispatch = timers[q[k].index].record.dispatch
    BY <1>1, <1>2
  <2>2. HasRoom(SlotOf(q[k]), Cardinality({i \in K : i < k}),
                Cardinality({i \in K : i < k /\ SlotOf(q[i]) = SlotOf(q[k])}))
    BY <1>2, <2>1 DEF Accepts
  <2>3. {i \in K : i < k /\ SlotOf(q[i]) = SlotOf(q[k])} = {i \in At(q, K, SlotOf(q[k])) : i < k}
    BY DEF At
  <2>4. /\ SlotOf(q[k]) \in DOMAIN slots
        /\ slots[SlotOf(q[k])].dispatch = q[k].dispatch
        /\ ScopeResolves(timers[q[k].index].record.scope)
    BY <1>2, <2>1 DEF TimersStand, SlotOf
  <2>5. /\ slots[SlotOf(q[k])].state = "Armed"
        /\ pending + Cardinality({i \in K : i < k}) < MaxPending
        /\ Len(slots[SlotOf(q[k])].queue) + Cardinality({i \in K : i < k /\ SlotOf(q[i]) = SlotOf(q[k])}) < Depth
    BY <2>2 DEF HasRoom
  <2> QED  BY <2>1, <2>3, <2>4, <2>5
<1> QED  BY <1>3, <1>4

(* A firing is accepted for an armed slot and a present scope. *)
Accepted(q, k) ==
    /\ slots[SlotOf(q[k])].state = "Armed"
    /\ slots[SlotOf(q[k])].dispatch = q[k].dispatch
    /\ ScopeResolves(timers[q[k].index].record.scope)

LEMMA AcceptedMay ==
    ASSUME IInv, NEW to, NEW q, NEW K, Fires(to, q, K), NEW k \in K
    PROVE  Accepted(q, k)
BY AcceptedFacts DEF Accepted

(* A set of positions is as large as what precedes its last one, and one.   *)
LEMMA UpToTheLast ==
    ASSUME NEW n \in Nat, NEW S \in SUBSET (1 .. n), S # {}
    PROVE  \E m \in S : Cardinality(S) = Cardinality({k \in S : k < m}) + 1
<1>1. PICK m \in S : \A k \in S : k <= m
  BY LastPosition
<1> DEFINE B == {k \in S : k < m}
<1>2. S = B \cup {m} /\ m \notin B
  <2>1. m \in Nat /\ \A k \in S : k \in Nat
    OBVIOUS
  <2>2. ~ (m < m) /\ \A k \in S : k < m \/ k = m
    BY <1>1, <2>1
  <2> QED  BY <2>2
<1>3. IsFiniteSet(S)
  BY IntervalFinite, FS_Subset
<1>4. IsFiniteSet(B)
  <2>1. B \subseteq S
    OBVIOUS
  <2> HIDE DEF B
  <2> QED  BY <1>3, <2>1, FS_Subset
<1>5. Cardinality(B \cup {m}) = Cardinality(B) + 1
  <2> HIDE DEF B
  <2> QED  BY <1>2, <1>4, FS_AddElement
<1> QED  BY <1>2, <1>5

LEMMA RoomForAll ==
    ASSUME IInv, NEW to, NEW q, NEW K, Fires(to, q, K)
    PROVE  /\ pending + Cardinality(K) <= MaxPending
           /\ \A c \in DOMAIN slots :
                 /\ IsFiniteSet(At(q, K, c)) /\ At(q, K, c) \in SUBSET Nat
                 /\ Cardinality(At(q, K, c)) \in Nat
                 /\ Len(slots[c].queue) + Cardinality(At(q, K, c)) <= Depth
<1> DEFINE n == Cardinality(Firings(to))
<1>1. n \in Nat
  BY FiringPositions
<1>2. /\ K \in SUBSET Nat /\ IsFiniteSet(K) /\ K \in SUBSET (1 .. n)
      /\ \A k \in K :
            /\ pending + Cardinality({i \in K : i < k}) < MaxPending
            /\ Len(slots[SlotOf(q[k])].queue) + Cardinality({i \in At(q, K, SlotOf(q[k])) : i < k}) < Depth
  BY AcceptedFacts
<1>3. pending = Cardinality(Places) /\ pending <= MaxPending /\ pending \in Nat
      /\ \A c \in DOMAIN slots : Len(slots[c].queue) <= Depth
  BY PlacesFinite DEF IInv, QueuesWithin
<1> HIDE DEF n
<1>4. pending + Cardinality(K) <= MaxPending
  <2>1. CASE K = {}
    BY <1>3, <2>1, FS_EmptySet
  <2>2. CASE K # {}
    <3>1. PICK m \in K : Cardinality(K) = Cardinality({k \in K : k < m}) + 1
      BY <1>1, <1>2, <2>2, UpToTheLast
    <3> DEFINE B == {k \in K : k < m}
    <3>2. B \subseteq K
      OBVIOUS
    <3>3. pending + Cardinality(B) < MaxPending /\ Cardinality(K) = Cardinality(B) + 1
      BY <1>2, <3>1
    <3> HIDE DEF B
    <3>4. IsFiniteSet(B)
      BY <1>2, <3>2, FS_Subset
    <3>5. Cardinality(B) \in Nat
      BY <3>4, FS_CardinalityType
    <3> QED  BY <1>3, <3>3, <3>5, Limits
  <2> QED  BY <2>1, <2>2
<1>5. ASSUME NEW c \in DOMAIN slots
      PROVE  /\ IsFiniteSet(At(q, K, c)) /\ At(q, K, c) \in SUBSET Nat
             /\ Cardinality(At(q, K, c)) \in Nat
             /\ Len(slots[c].queue) + Cardinality(At(q, K, c)) <= Depth
  <2> DEFINE S == At(q, K, c)
  <2> DEFINE l == Len(slots[c].queue)
  <2>1. S \subseteq K /\ \A k \in S : SlotOf(q[k]) = c
    BY DEF At
  <2>2. l \in Nat /\ l <= Depth
    BY <1>3, SlotsTyped DEF IInv
  <2>3. \A k \in S : l + Cardinality({i \in S : i < k}) < Depth
    BY <1>2, <2>1
  <2> HIDE DEF S, l
  <2>4. IsFiniteSet(S) /\ S \in SUBSET Nat /\ S \in SUBSET (1 .. n)
    <3>1. IsFiniteSet(S)
      BY <1>2, <2>1, FS_Subset
    <3> QED  BY <1>2, <2>1, <3>1
  <2>5. Cardinality(S) \in Nat
    BY <2>4, FS_CardinalityType
  <2>6. l + Cardinality(S) <= Depth
    <3>1. CASE S = {}
      BY <2>2, <3>1, FS_EmptySet
    <3>2. CASE S # {}
      <4>1. PICK m \in S : Cardinality(S) = Cardinality({k \in S : k < m}) + 1
        BY <1>1, <2>4, <3>2, UpToTheLast
      <4> DEFINE B == {k \in S : k < m}
      <4>2. l + Cardinality(B) < Depth /\ Cardinality(S) = Cardinality(B) + 1
        BY <2>3, <4>1
      <4>3. B \subseteq S
        OBVIOUS
      <4> HIDE DEF B
      <4>4. IsFiniteSet(B)
        BY <2>4, <4>3, FS_Subset
      <4>5. Cardinality(B) \in Nat
        BY <4>4, FS_CardinalityType
      <4> QED  BY <2>2, <4>2, <4>5, Limits
    <3> QED  BY <3>1, <3>2
  <2> QED  BY <2>4, <2>5, <2>6 DEF S, l
<1> QED  BY <1>4, <1>5

(* What Advance does to the queues. *)
AdvancesSlots(q, K, a) ==
    /\ a \in Arrivals(q, K)
    /\ slots' = [c \in DOMAIN slots |->
                    [slots[c] EXCEPT !.queue =
                        slots[c].queue \o [i \in DOMAIN a[c] |-> Item(q[a[c][i]])]]]
    /\ pending' = pending + Cardinality(K)

LEMMA ItemsTyped ==
    ASSUME IInv, NEW to, NEW q, NEW K, Fires(to, q, K), NEW k \in K
    PROVE  /\ Item(q[k]) \in QueueItems
           /\ Key(Item(q[k])) = <<q[k].index, q[k].generation, q[k].due>>
           /\ Item(q[k]).due = q[k].due /\ Item(q[k]).dispatch = q[k].dispatch
           /\ Item(q[k]).scope = timers[q[k].index].record.scope
<1>1. k \in DOMAIN q
  BY AcceptedFacts
<1>2. /\ q[k].index \in Occupied /\ q[k].index \in Nat /\ q[k].due \in Nat
      /\ q[k].generation = timers[q[k].index].generation
      /\ q[k].seq = timers[q[k].index].record.seq
      /\ q[k].dispatch = timers[q[k].index].record.dispatch
  BY <1>1, FiringPositions
<1>3. /\ timers[q[k].index].record \in Records
      /\ timers[q[k].index].generation \in 1 .. MaxGeneration
  BY <1>2, TimersTyped DEF IInv
<1>4. /\ q[k].seq \in Nat /\ q[k].generation \in Nat /\ q[k].dispatch \in Dispatches
      /\ timers[q[k].index].record.scope \in ScopeTokens
  BY <1>2, <1>3, Limits DEF Records
<1>5. TRUE \in BOOLEAN
  OBVIOUS
<1> QED  BY <1>2, <1>4, <1>5 DEF Item, QueueItems, Key

Arrives(to, q, K, a, c) == Fires(to, q, K) /\ AdvancesSlots(q, K, a) /\ c \in DOMAIN slots

(* The queue of slot c, before and after. *)
Grows(q, K, a, c) ==
    /\ Lists(a[c], At(q, K, c)) /\ Len(a[c]) = Cardinality(At(q, K, c)) /\ Len(a[c]) \in Nat
    /\ slots'[c] \in SlotRecords
    /\ slots'[c].state = slots[c].state /\ slots'[c].dispatch = slots[c].dispatch
    /\ Len(slots'[c].queue) = Len(slots[c].queue) + Len(a[c])
    /\ \A i \in 1 .. Len(slots[c].queue) : slots'[c].queue[i] = slots[c].queue[i]
    /\ \A i \in 1 .. Len(a[c]) :
          /\ a[c][i] \in At(q, K, c)
          /\ slots'[c].queue[Len(slots[c].queue) + i] = Item(q[a[c][i]])

LEMMA QueueExtends ==
    ASSUME IInv, NEW to, NEW q, NEW K, NEW a, NEW c, Arrives(to, q, K, a, c)
    PROVE  Grows(q, K, a, c)
<1> DEFINE S == At(q, K, c)
<1> DEFINE e == a[c]
<1> DEFINE old == slots[c].queue
<1> DEFINE u == [i \in DOMAIN e |-> Item(q[e[i]])]
<1> USE DEF Arrives
<1>1. S \in SUBSET Nat /\ IsFiniteSet(S)
  BY RoomForAll
<1>2. e \in Ascending(S)
  BY DEF AdvancesSlots, Arrivals, At
<1>3. slots[c] \in SlotRecords /\ old \in Seq(QueueItems)
  BY SlotsTyped DEF IInv
<1>4. slots'[c] = [slots[c] EXCEPT !.queue = old \o u]
  BY DEF AdvancesSlots
<1>5. S \subseteq K
  BY DEF At
<1> HIDE DEF S, e, old
<1>6. Lists(e, S) /\ Len(e) = Cardinality(S) /\ Len(e) \in Nat
  BY <1>1, <1>2, AscendingLists
<1>7. e \in Seq(S) /\ DOMAIN e = 1 .. Len(e) /\ \A i \in 1 .. Len(e) : e[i] \in S
  BY <1>6 DEF Lists
<1>8. \A i \in 1 .. Len(e) : u[i] = Item(q[e[i]]) /\ u[i] \in QueueItems
  BY <1>5, <1>7, ItemsTyped
<1>9. u \in Seq(QueueItems) /\ Len(u) = Len(e)
  <2>1. u \in [1 .. Len(e) -> QueueItems]
    BY <1>7, <1>8
  <2> HIDE DEF u
  <2> QED  BY <1>6, <2>1
<1> HIDE DEF u
<1>10. /\ old \o u \in Seq(QueueItems) /\ Len(old \o u) = Len(old) + Len(u)
       /\ \A i \in 1 .. Len(old) + Len(u) : (old \o u)[i] = IF i <= Len(old) THEN old[i] ELSE u[i - Len(old)]
  BY <1>3, <1>9, ConcatProperties
<1> DEFINE w == old \o u
<1>11. w \in Seq(QueueItems) /\ Len(w) = Len(old) + Len(e)
       /\ \A i \in 1 .. Len(old) + Len(e) : w[i] = IF i <= Len(old) THEN old[i] ELSE u[i - Len(old)]
  BY <1>9, <1>10
<1> HIDE DEF w
<1>12. /\ slots'[c] \in SlotRecords /\ slots'[c].queue = w
       /\ slots'[c].state = slots[c].state /\ slots'[c].dispatch = slots[c].dispatch
  BY <1>3, <1>4, <1>11 DEF SlotRecords, w
<1>13. Len(old) \in Nat
  BY <1>3
<1>14. \A i \in 1 .. Len(old) : w[i] = old[i]
  BY <1>6, <1>11, <1>13
<1>15. ASSUME NEW i \in 1 .. Len(e) PROVE w[Len(old) + i] = Item(q[e[i]])
  <2>1. Len(old) + i \in 1 .. Len(old) + Len(e) /\ ~ (Len(old) + i <= Len(old)) /\ (Len(old) + i) - Len(old) = i
    BY <1>6, <1>13
  <2> QED  BY <1>8, <1>11, <2>1
<1> QED  BY <1>6, <1>7, <1>11, <1>12, <1>14, <1>15 DEF e, old, S, Grows
(* The position whose firing is queued at place p. *)
PositionAt(a, p) == a[p[1]][p[2] - Len(slots[p[1]].queue)]

LEMMA PlacesAfter ==
    ASSUME IInv, NEW to, NEW q, NEW K, NEW a, Fires(to, q, K), AdvancesSlots(q, K, a)
    PROVE  /\ Places \subseteq Places' /\ DOMAIN slots' = DOMAIN slots
           /\ \A p \in Places : /\ ItemAt(p)' = ItemAt(p)
                                /\ slots'[p[1]].state = slots[p[1]].state
                                /\ slots'[p[1]].dispatch = slots[p[1]].dispatch
           /\ \A p \in Places' \ Places :
                 /\ PositionAt(a, p) \in K
                 /\ p[1] = SlotOf(q[PositionAt(a, p)]) /\ p[1] \in DOMAIN slots
                 /\ ItemAt(p)' = Item(q[PositionAt(a, p)])
                 /\ slots'[p[1]].state = slots[p[1]].state
                 /\ slots'[p[1]].dispatch = slots[p[1]].dispatch
           /\ \A p, r \in Places' \ Places : PositionAt(a, p) = PositionAt(a, r) => p = r
           /\ \A k \in K : \E p \in Places' \ Places : PositionAt(a, p) = k
<1> DEFINE L(c) == Len(slots[c].queue)
<1>1. /\ DOMAIN slots' = DOMAIN slots
      /\ \A c \in DOMAIN slots : L(c) \in Nat
  BY SlotsTyped DEF AdvancesSlots, IInv
<1>2. ASSUME NEW c \in DOMAIN slots
      PROVE  /\ Lists(a[c], At(q, K, c)) /\ Len(a[c]) \in Nat
             /\ slots'[c].state = slots[c].state /\ slots'[c].dispatch = slots[c].dispatch
             /\ Len(slots'[c].queue) = L(c) + Len(a[c])
             /\ \A i \in 1 .. L(c) : slots'[c].queue[i] = slots[c].queue[i]
             /\ \A i \in 1 .. Len(a[c]) :
                   /\ a[c][i] \in At(q, K, c)
                   /\ slots'[c].queue[L(c) + i] = Item(q[a[c][i]])
  <2>1. Arrives(to, q, K, a, c)
    BY DEF Arrives
  <2>2. Grows(q, K, a, c)
    BY <2>1, QueueExtends
  <2> QED  BY <2>2 DEF Grows
<1>3. ASSUME NEW p
      PROVE  /\ p \in Places <=> \E c \in DOMAIN slots : \E i \in 1 .. L(c) : p = <<c, i>>
             /\ p \in Places' <=> \E c \in DOMAIN slots : \E i \in 1 .. L(c) + Len(a[c]) : p = <<c, i>>
  <2>1. p \in Places' <=> \E c \in DOMAIN slots' : \E i \in 1 .. Len(slots'[c].queue) : p = <<c, i>>
    BY DEF Places
  <2> QED  BY <1>1, <1>2, <2>1, PlaceIsPair
<1>4. \A c, i : ItemAt(<<c, i>>)' = slots'[c].queue[i] /\ ItemAt(<<c, i>>) = slots[c].queue[i]
  BY DEF ItemAt
<1>5. \A c, i : PositionAt(a, <<c, i>>) = a[c][i - L(c)]
  BY DEF PositionAt
<1> HIDE DEF L
<1>6. Places \subseteq Places'
  <2> SUFFICES ASSUME NEW p \in Places PROVE p \in Places'
    OBVIOUS
  <2>1. PICK c \in DOMAIN slots : \E i \in 1 .. L(c) : p = <<c, i>>
    BY <1>3
  <2>2. \A i \in 1 .. L(c) : i \in 1 .. L(c) + Len(a[c])
    BY <1>1, <1>2
  <2> QED  BY <1>3, <2>1, <2>2
<1>7. ASSUME NEW p \in Places
      PROVE  /\ ItemAt(p)' = ItemAt(p)
             /\ slots'[p[1]].state = slots[p[1]].state
             /\ slots'[p[1]].dispatch = slots[p[1]].dispatch
  <2>1. PICK c \in DOMAIN slots : \E i \in 1 .. L(c) : p = <<c, i>>
    BY <1>3
  <2>2. PICK i \in 1 .. L(c) : p = <<c, i>>
    BY <2>1
  <2>3. p[1] = c
    BY <2>2
  <2> QED  BY <1>2, <1>4, <2>2, <2>3
<1>8. ASSUME NEW p \in Places' \ Places
      PROVE  \E c \in DOMAIN slots : \E j \in 1 .. Len(a[c]) :
                /\ p = <<c, L(c) + j>> /\ p[1] = c
                /\ PositionAt(a, p) = a[c][j] /\ a[c][j] \in At(q, K, c)
                /\ ItemAt(p)' = Item(q[a[c][j]])
  <2>1. PICK c \in DOMAIN slots : \E i \in 1 .. L(c) + Len(a[c]) : p = <<c, i>>
    BY <1>3
  <2>2. PICK i \in 1 .. L(c) + Len(a[c]) : p = <<c, i>>
    BY <2>1
  <2>3. i \notin 1 .. L(c)
    BY <1>3, <2>2
  <2>4. i - L(c) \in 1 .. Len(a[c]) /\ L(c) + (i - L(c)) = i
    BY <1>1, <1>2, <2>3
  <2> DEFINE j == i - L(c)
  <2>5. j \in 1 .. Len(a[c]) /\ L(c) + j = i
    BY <2>4
  <2>6. PositionAt(a, p) = a[c][j]
    BY <1>5, <2>2
  <2> HIDE DEF j
  <2>7. a[c][j] \in At(q, K, c) /\ slots'[c].queue[L(c) + j] = Item(q[a[c][j]])
    BY <1>2, <2>5
  <2>8. ItemAt(p)' = Item(q[a[c][j]])
    BY <1>4, <2>2, <2>5, <2>7
  <2>9. p = <<c, L(c) + j>> /\ p[1] = c
    BY <2>2, <2>5
  <2> QED  BY <2>5, <2>6, <2>7, <2>8, <2>9
<1>9. \A c \in DOMAIN slots : \A k \in At(q, K, c) : k \in K /\ SlotOf(q[k]) = c
  BY DEF At
<1>10. ASSUME NEW p \in Places' \ Places
       PROVE  /\ PositionAt(a, p) \in K
              /\ p[1] = SlotOf(q[PositionAt(a, p)]) /\ p[1] \in DOMAIN slots
              /\ ItemAt(p)' = Item(q[PositionAt(a, p)])
              /\ slots'[p[1]].state = slots[p[1]].state
              /\ slots'[p[1]].dispatch = slots[p[1]].dispatch
  BY <1>2, <1>8, <1>9
<1>11. ASSUME NEW p \in Places' \ Places, NEW r \in Places' \ Places,
              PositionAt(a, p) = PositionAt(a, r)
       PROVE  p = r
  <2>1. PICK c \in DOMAIN slots : \E j \in 1 .. Len(a[c]) : p = <<c, L(c) + j>> /\ p[1] = c /\ PositionAt(a, p) = a[c][j]
    BY <1>8
  <2>2. PICK j \in 1 .. Len(a[c]) : p = <<c, L(c) + j>> /\ PositionAt(a, p) = a[c][j]
    BY <2>1
  <2>3. PICK d \in DOMAIN slots : \E l \in 1 .. Len(a[d]) : r = <<d, L(d) + l>> /\ r[1] = d /\ PositionAt(a, r) = a[d][l]
    BY <1>8
  <2>4. PICK l \in 1 .. Len(a[d]) : r = <<d, L(d) + l>> /\ PositionAt(a, r) = a[d][l]
    BY <2>3
  <2>5. c = d
    BY <1>10, <1>11, <2>1, <2>3
  <2>6. a[c][j] = a[c][l] /\ l \in 1 .. Len(a[c])
    BY <1>11, <2>2, <2>4, <2>5
  <2>7. j = l
    BY <1>2, <2>6 DEF Lists
  <2> QED  BY <2>2, <2>4, <2>5, <2>7
<1>12. ASSUME NEW k \in K PROVE \E p \in Places' \ Places : PositionAt(a, p) = k
  <2>1. SlotOf(q[k]) \in DOMAIN slots
    BY AcceptedFacts
  <2> DEFINE c == SlotOf(q[k])
  <2>2. k \in At(q, K, c) /\ c \in DOMAIN slots
    BY <2>1 DEF At
  <2> HIDE DEF c
  <2>3. Lists(a[c], At(q, K, c)) /\ Len(a[c]) \in Nat /\ L(c) \in Nat
    BY <1>1, <1>2, <2>2
  <2>4. PICK j \in 1 .. Len(a[c]) : a[c][j] = k
    BY <2>2, <2>3 DEF Lists
  <2>5. L(c) + j \in 1 .. L(c) + Len(a[c]) /\ L(c) + j \notin 1 .. L(c) /\ (L(c) + j) - L(c) = j
    BY <2>3
  <2> DEFINE p == <<c, L(c) + j>>
  <2>6. p \in Places'
    BY <1>3, <2>2, <2>5
  <2>7. p \notin Places
    <3>1. ASSUME NEW d, NEW i \in 1 .. L(d), p = <<d, i>> PROVE FALSE
      <4>1. d = c /\ i = L(c) + j
        BY <3>1
      <4> QED  BY <2>5, <4>1
    <3> QED  BY <1>3, <3>1
  <2>8. PositionAt(a, p) = k
    BY <1>5, <2>4, <2>5
  <2> QED  BY <2>6, <2>7, <2>8
<1> QED  BY <1>1, <1>6, <1>7, <1>10, <1>11, <1>12

LEMMA AdvanceKeepsQueues ==
    ASSUME IInv, NEW to, NEW q, NEW K, NEW a, Fires(to, q, K), AdvancesSlots(q, K, a), tick' = to
    PROVE  /\ Entries' /\ QueuesWithin' /\ SlotsStayBound
           /\ slots' \in Seq(SlotRecords) /\ Len(slots') = Len(slots)
           /\ \A c \in 1 .. Len(slots') : slots'[c].state = "Unbound" \/ slots'[c].dispatch \in Dispatches
<1> DEFINE P == Places
<1> DEFINE N == Places' \ Places
<1>1. Types /\ Entries /\ QueuesWithin
  BY DEF IInv
<1>2. /\ P \subseteq Places' /\ DOMAIN slots' = DOMAIN slots
      /\ \A p \in P : ItemAt(p)' = ItemAt(p)
      /\ \A p \in N : PositionAt(a, p) \in K /\ ItemAt(p)' = Item(q[PositionAt(a, p)])
      /\ \A p, r \in N : PositionAt(a, p) = PositionAt(a, r) => p = r
      /\ \A k \in K : \E p \in N : PositionAt(a, p) = k
  BY PlacesAfter
<1>3. ASSUME NEW c \in DOMAIN slots
      PROVE  /\ slots'[c] \in SlotRecords
             /\ slots'[c].state = slots[c].state /\ slots'[c].dispatch = slots[c].dispatch
             /\ Len(slots'[c].queue) = Len(slots[c].queue) + Cardinality(At(q, K, c))
  <2>1. /\ Len(a[c]) = Cardinality(At(q, K, c))
        /\ slots'[c] \in SlotRecords
        /\ slots'[c].state = slots[c].state /\ slots'[c].dispatch = slots[c].dispatch
        /\ Len(slots'[c].queue) = Len(slots[c].queue) + Len(a[c])
    <3>1. Arrives(to, q, K, a, c)
      BY DEF Arrives
    <3>2. Grows(q, K, a, c)
      BY <3>1, QueueExtends
    <3> QED  BY <3>2 DEF Grows
  <2> QED  BY <2>1
<1>4. /\ slots' \in Seq(SlotRecords) /\ Len(slots') = Len(slots) /\ DOMAIN slots = 1 .. Len(slots)
  <2> DEFINE n == Len(slots)
  <2>1. n \in Nat /\ DOMAIN slots = 1 .. n
    BY <1>1, SlotsTyped
  <2> HIDE DEF n
  <2>2. slots' = [c \in 1 .. n |-> slots'[c]]
    BY <2>1 DEF AdvancesSlots
  <2>3. slots' \in [1 .. n -> SlotRecords]
    BY <1>3, <2>1, <2>2
  <2>4. slots' \in Seq(SlotRecords) /\ Len(slots') = n
    BY <2>1, <2>3
  <2> QED  BY <2>1, <2>4 DEF n
<1>5. \A c \in 1 .. Len(slots') : slots'[c].state = "Unbound" \/ slots'[c].dispatch \in Dispatches
  BY <1>1, <1>3, <1>4 DEF Types
<1>6. SlotsStayBound
  BY <1>2, <1>3 DEF SlotsStayBound
<1>7. \A k \in K : k \in DOMAIN q /\ tick < q[k].due /\ q[k].due <= to /\ q[k].due \in Nat
                   /\ Item(q[k]).due = q[k].due
                   /\ Key(Item(q[k])) = <<q[k].index, q[k].generation, q[k].due>>
  BY AcceptedFacts, FiringPositions, ItemsTyped
<1>8. \A p \in P : ItemAt(p).due <= tick /\ ItemAt(p).due \in Nat
  BY <1>1, PlacesHoldItems DEF Entries, QueueItems
<1>9. tick \in Nat /\ to \in Nat /\ tick < to
  BY <1>1, Limits DEF Types, Fires
<1>10. Entries'
  <2>1. \A p, r \in P : Key(ItemAt(p)') = Key(ItemAt(r)') => p = r
    BY <1>1, <1>2 DEF Entries
  <2>2. ASSUME NEW p \in P, NEW r \in N, Key(ItemAt(p)') = Key(ItemAt(r)') PROVE FALSE
    <3> DEFINE k == PositionAt(a, r)
    <3>1. k \in K /\ ItemAt(r)' = Item(q[k]) /\ ItemAt(p)' = ItemAt(p)
      BY <1>2
    <3> HIDE DEF k
    <3>2. Key(Item(q[k])) = <<q[k].index, q[k].generation, q[k].due>>
      BY <1>7, <3>1
    <3>3. Key(ItemAt(p)) = <<ItemAt(p).index, ItemAt(p).generation, ItemAt(p).due>>
      BY DEF Key
    <3>4. ItemAt(p).due = q[k].due
      BY <2>2, <3>1, <3>2, <3>3
    <3>5. ItemAt(p).due <= tick /\ tick < q[k].due /\ q[k].due \in Nat
      BY <1>7, <1>8, <3>1
    <3> QED  BY <1>9, <3>4, <3>5
  <2>3. ASSUME NEW p \in N, NEW r \in N, Key(ItemAt(p)') = Key(ItemAt(r)') PROVE p = r
    <3> DEFINE k == PositionAt(a, p)
    <3> DEFINE l == PositionAt(a, r)
    <3>1. k \in K /\ ItemAt(p)' = Item(q[k]) /\ l \in K /\ ItemAt(r)' = Item(q[l])
      BY <1>2
    <3>2. k = l => p = r
      BY <1>2
    <3> HIDE DEF k, l
    <3>3. /\ k \in DOMAIN q /\ Key(Item(q[k])) = <<q[k].index, q[k].generation, q[k].due>>
          /\ l \in DOMAIN q /\ Key(Item(q[l])) = <<q[l].index, q[l].generation, q[l].due>>
      BY <1>7, <3>1
    <3>4. q[k].index = q[l].index /\ q[k].due = q[l].due
      BY <2>3, <3>1, <3>3
    <3>5. k = l
      BY <3>3, <3>4, FiringPositions
    <3> QED  BY <3>2, <3>5
  <2>4. \A p \in P \cup N : ItemAt(p)'.due <= to
    <3>1. \A p \in P : ItemAt(p)'.due <= to
      BY <1>2, <1>8, <1>9
    <3>2. \A p \in N : ItemAt(p)'.due <= to
      BY <1>2, <1>7
    <3> QED  BY <3>1, <3>2
  <2>5. Places' = P \cup N
    BY <1>2
  <2> HIDE DEF P, N
  <2>6. \A p, r \in Places' : Key(ItemAt(p)') = Key(ItemAt(r)') => p = r
    <3> SUFFICES ASSUME NEW p \in P \cup N, NEW r \in P \cup N, Key(ItemAt(p)') = Key(ItemAt(r)') PROVE p = r
      BY <2>5
    <3>1. CASE p \in P /\ r \in P
      BY <2>1, <3>1
    <3>2. CASE p \in P /\ r \in N
      BY <2>2, <3>2
    <3>3. CASE p \in N /\ r \in P
      BY <2>2, <3>3
    <3>4. CASE p \in N /\ r \in N
      BY <2>3, <3>4
    <3> QED  BY <3>1, <3>2, <3>3, <3>4
  <2>7. \A p : Key(ItemAt(p))' = Key(ItemAt(p)')
    BY DEF Key
  <2>8. \A p \in Places' : ItemAt(p)'.due <= tick'
    BY <2>4, <2>5
  <2> QED  BY <2>6, <2>7, <2>8 DEF Entries
<1>11. \A c \in DOMAIN slots' : Len(slots'[c].queue) <= Depth
  BY <1>2, <1>3, RoomForAll
<1>12. pending' = Cardinality(Places') /\ pending' <= MaxPending
  <2>1. /\ IsFiniteSet(P) /\ pending = Cardinality(P)
    BY <1>1, PlacesFinite DEF QueuesWithin
  <2>2. pending' = pending + Cardinality(K) /\ pending + Cardinality(K) <= MaxPending
    BY RoomForAll DEF AdvancesSlots
  <2>3. IsFiniteSet(Places')
    <3> DEFINE C == 1 .. Len(slots)
    <3> DEFINE D == 1 .. Depth
    <3>1. IsFiniteSet(C) /\ IsFiniteSet(D)
      BY <1>1, SlotsTyped, Limits, IntervalFinite
    <3>2. IsFiniteSet(C \X D)
      BY <3>1, FS_Product
    <3>3. ASSUME NEW p \in Places' PROVE p \in C \X D
      <4>1. PICK c \in DOMAIN slots' : \E i \in 1 .. Len(slots'[c].queue) : p = <<c, i>>
        BY DEF Places
      <4>2. PICK i \in 1 .. Len(slots'[c].queue) : p = <<c, i>>
        BY <4>1
      <4>3. Len(slots'[c].queue) <= Depth /\ Len(slots'[c].queue) \in Nat
        <5>1. slots'[c].queue \in Seq(QueueItems)
          BY <1>2, <1>3 DEF SlotRecords
        <5> QED  BY <1>11, <5>1
      <4>4. i \in D /\ c \in C
        BY <1>2, <1>4, <4>3, Limits
      <4> QED  BY <4>2, <4>4
    <3> QED  BY <3>2, <3>3, FS_Subset
  <2>4. IsFiniteSet(N)
    BY <2>3, FS_Subset
  <2> DEFINE f == [p \in N |-> PositionAt(a, p)]
  <2>5. /\ \A p \in N : f[p] \in K
        /\ \A k \in K : \E p \in N : f[p] = k
        /\ \A p, r \in N : f[p] = f[r] => p = r
    BY <1>2
  <2>6. Places' = P \cup N /\ P \cap N = {}
    BY <1>2
  <2> HIDE DEF f, N, P
  <2>7. Cardinality(K) = Cardinality(N)
    BY <2>4, <2>5, OntoFinite
  <2>8. Cardinality(P \cup N) = Cardinality(P) + Cardinality(N)
    <3>1. Cardinality(P \cup N) = Cardinality(P) + Cardinality(N) - Cardinality(P \cap N)
      BY <2>1, <2>4, FS_Union
    <3>2. Cardinality(P) \in Nat /\ Cardinality(N) \in Nat /\ Cardinality(P \cap N) = 0
      BY <2>1, <2>4, <2>6, FS_CardinalityType, FS_EmptySet
    <3> QED  BY <3>1, <3>2
  <2> QED  BY <2>1, <2>2, <2>6, <2>7, <2>8
<1>13. QueuesWithin'
  BY <1>11, <1>12 DEF QueuesWithin
<1> QED  BY <1>4, <1>5, <1>6, <1>10, <1>13
LEMMA AdvanceParts ==
    ASSUME NEW to \in 1 .. MaxTick, Advance(to)
    PROVE  /\ \E q, K, a : Fires(to, q, K) /\ AdvancesTimers(to, q, K) /\ AdvancesSlots(q, K, a)
           /\ tick' = to /\ schedules' = 0
           /\ UNCHANGED <<running, sequence, dispatches, host>>
<1>1. /\ running /\ to > tick /\ tick' = to /\ schedules' = 0
      /\ UNCHANGED <<running, sequence, dispatches, host>>
  BY DEF Advance
<1>2. PICK q \in Sorted(Firings(to)) : \E K \in SUBSET DOMAIN q :
        /\ Accepts(q, K)
        /\ CanRetire(Gone(to, q, K))
        /\ timers' = [i \in DOMAIN timers |->
                         IF i \in Firing(to) \ Gone(to, q, K) THEN Moved(i, to)
                                                              ELSE TimersRetired(Gone(to, q, K))[i]]
        /\ scopes' = ScopesRetired(Gone(to, q, K))
        /\ live' = live - Cardinality(Gone(to, q, K))
        /\ \E r \in Ascending(TurnedAway(q, K)) : \E e \in Ascending(Over(to, q, K)) :
                free' = free \o [i \in DOMAIN r |-> q[r[i]].index] \o e
        /\ \E a \in Arrivals(q, K) :
                slots' = [c \in DOMAIN slots |->
                    [slots[c] EXCEPT !.queue = slots[c].queue \o [i \in DOMAIN a[c] |-> Item(q[a[c][i]])]]]
        /\ pending' = pending + Cardinality(K)
  BY Zenon DEF Advance, Gone, Over, Away
<1>3. PICK K \in SUBSET DOMAIN q :
        /\ Accepts(q, K)
        /\ CanRetire(Gone(to, q, K))
        /\ timers' = [i \in DOMAIN timers |->
                         IF i \in Firing(to) \ Gone(to, q, K) THEN Moved(i, to)
                                                              ELSE TimersRetired(Gone(to, q, K))[i]]
        /\ scopes' = ScopesRetired(Gone(to, q, K))
        /\ live' = live - Cardinality(Gone(to, q, K))
        /\ \E r \in Ascending(TurnedAway(q, K)) : \E e \in Ascending(Over(to, q, K)) :
                free' = free \o [i \in DOMAIN r |-> q[r[i]].index] \o e
        /\ \E a \in Arrivals(q, K) :
                slots' = [c \in DOMAIN slots |->
                    [slots[c] EXCEPT !.queue = slots[c].queue \o [i \in DOMAIN a[c] |-> Item(q[a[c][i]])]]]
        /\ pending' = pending + Cardinality(K)
  BY <1>2, Zenon
<1>4. Fires(to, q, K)
  BY <1>1, <1>3 DEF Fires
<1>5. AdvancesTimers(to, q, K)
  BY <1>1, <1>3, Zenon DEF AdvancesTimers, host
<1>6. \E a : AdvancesSlots(q, K, a)
  BY <1>3, Zenon DEF AdvancesSlots
<1> QED  BY <1>1, <1>4, <1>5, <1>6

LEMMA AdvanceKeeps ==
    ASSUME IInv, NEW to \in 1 .. MaxTick, Advance(to)
    PROVE  IInv'
<1>1. /\ Types /\ Stopped /\ TimersStand /\ HandlesPast /\ FreeList /\ Counted /\ Delivers
  BY DEF IInv
<1>2. /\ \E q, K, a : Fires(to, q, K) /\ AdvancesTimers(to, q, K) /\ AdvancesSlots(q, K, a)
      /\ tick' = to /\ schedules' = 0
      /\ UNCHANGED <<running, sequence, dispatches, host>>
  BY AdvanceParts
<1>3. PICK q, K, a : Fires(to, q, K) /\ AdvancesTimers(to, q, K) /\ AdvancesSlots(q, K, a)
  BY <1>2
<1> DEFINE G == Gone(to, q, K)
<1>4. PICK s : Retires(G, s)
  BY <1>3, AdvanceRetires
<1>5. G \in SUBSET Occupied /\ Firing(to) \in SUBSET Occupied
  BY <1>3, GoneFacts
<1>6. /\ timers' \in Seq(TimerSlots) /\ Len(timers') = Len(timers)
      /\ \A i \in Firing(to) \ G : timers'[i] = Moved(i, to) /\ ~ Exhausted(i, to)
      /\ \A i \in 1 .. Len(timers) : i \notin Firing(to) => timers'[i] = timers[i] /\ i \notin G
  BY <1>3, AdvancedTimers
<1>7. scopes' = ScopesRetired(G)
  BY <1>3 DEF AdvancesTimers
<1> HIDE DEF G
<1>8. Occupied' = Occupied \ G
  BY <1>1, <1>4, RetiresOccupied
<1>9. Stopped' /\ HandlesPast'
  BY <1>1, <1>4, RetiresKeepsHandles
<1>10. FreeList' /\ free' \in Seq(1 .. Len(timers'))
  BY <1>1, <1>4, RetiresKeepsFree
<1>11. Counted'
  BY <1>1, <1>4, RetiresKeepsCounts
<1>12. \A id \in Ids : ActiveWithout(id, G) \in 0 .. MaxActive
  BY <1>1, <1>5, ActiveWithin
<1>13. /\ scopes' \in [Ids -> ScopeRecords]
       /\ \A sc \in ScopeTokens : ScopeResolves(sc) =>
             /\ scopes'[sc.id].alive
             /\ scopes'[sc.id].generation = sc.generation
             /\ scopes'[sc.id].kind = sc.kind
  BY <1>1, <1>7, <1>12, ScopesKeepResolving
<1>14. /\ Entries' /\ QueuesWithin' /\ SlotsStayBound
       /\ slots' \in Seq(SlotRecords) /\ Len(slots') = Len(slots)
       /\ \A c \in 1 .. Len(slots') : slots'[c].state = "Unbound" \/ slots'[c].dispatch \in Dispatches
  BY <1>2, <1>3, AdvanceKeepsQueues
<1>15. Types'
  <2>1. tick' \in 0 .. MaxTick /\ schedules' \in 0 .. MaxSchedules
    BY <1>2, Limits
  <2>2. UNCHANGED <<running, sequence, dispatches>>
    BY <1>2
  <2> QED  BY <1>1, <1>6, <1>10, <1>13, <1>14, <2>1, <2>2 DEF Types
<1>16. TimersStand'
  <2>1. ASSUME NEW i \in Occupied'
        PROVE  /\ i \in Occupied
               /\ timers'[i].record.scope = timers[i].record.scope
               /\ timers'[i].record.slot = timers[i].record.slot
               /\ timers'[i].record.dispatch = timers[i].record.dispatch
               /\ timers'[i].record.queued \/ timers'[i].record.due > tick'
               /\ ScopeResolves(timers[i].record.scope)'
    <3>1. i \in Occupied /\ i \notin G
      BY <1>8
    <3>2. i \in 1 .. Len(timers) /\ timers[i].record \in Records
      BY <1>1, <3>1, TimersTyped
    <3>3. /\ timers'[i].record.scope = timers[i].record.scope
          /\ timers'[i].record.slot = timers[i].record.slot
          /\ timers'[i].record.dispatch = timers[i].record.dispatch
      BY <1>4, <3>1, <3>2 DEF Retires
    <3>4. timers'[i].record.queued \/ timers'[i].record.due > tick'
      <4>1. CASE i \in Firing(to)
        <5>1. timers'[i] = Moved(i, to) /\ ~ Exhausted(i, to)
          BY <1>6, <3>1, <4>1
        <5>2. Moved(i, to).record.queued \/ Moved(i, to).record.due > to
          BY <1>1, <4>1, <5>1, MovedFacts
        <5> QED  BY <1>2, <5>1, <5>2
      <4>2. CASE i \notin Firing(to)
        <5>1. timers'[i] = timers[i]
          BY <1>6, <3>2, <4>2
        <5>2. timers[i].record.queued \/ ~ (timers[i].record.due <= to)
          BY <3>1, <4>2 DEF Firing
        <5>3. timers[i].record.due \in Nat /\ to \in Nat
          BY <3>2, Limits DEF Records
        <5> QED  BY <1>2, <5>1, <5>2, <5>3
      <4> QED  BY <4>1, <4>2
    <3>5. ScopeResolves(timers[i].record.scope) /\ timers[i].record.scope \in ScopeTokens
      BY <1>1, <3>1, <3>2 DEF TimersStand, Records
    <3>6. ScopeResolves(timers[i].record.scope)'
      BY <1>13, <3>3, <3>5 DEF ScopeResolves
    <3> QED  BY <3>1, <3>3, <3>4, <3>6
  <2>2. TimersStay
    BY <2>1 DEF TimersStay
  <2> QED  BY <1>1, <1>14, <2>2, TimersKeepStanding
<1>17. Delivers'
  <2>1. /\ \A p \in Places : /\ ItemAt(p)' = ItemAt(p)
                             /\ slots'[p[1]].state = slots[p[1]].state
                             /\ slots'[p[1]].dispatch = slots[p[1]].dispatch
        /\ \A p \in Places' \ Places :
              /\ PositionAt(a, p) \in K
              /\ p[1] = SlotOf(q[PositionAt(a, p)])
              /\ ItemAt(p)' = Item(q[PositionAt(a, p)])
              /\ slots'[p[1]].state = slots[p[1]].state
              /\ slots'[p[1]].dispatch = slots[p[1]].dispatch
    BY <1>3, PlacesAfter
  <2>2. ASSUME NEW p \in Places, ItemAt(p)'.valid
        PROVE  /\ ScopeResolves(ItemAt(p).scope)'
               /\ slots'[p[1]].state = "Armed" /\ slots'[p[1]].dispatch = ItemAt(p)'.dispatch
    <3>1. ItemAt(p)' = ItemAt(p) /\ slots'[p[1]].state = slots[p[1]].state /\ slots'[p[1]].dispatch = slots[p[1]].dispatch
      BY <2>1
    <3>2. ItemAt(p).scope \in ScopeTokens
      BY <1>1, PlacesHoldItems DEF QueueItems
    <3>3. ScopeResolves(ItemAt(p).scope) /\ slots[p[1]].state = "Armed" /\ slots[p[1]].dispatch = ItemAt(p).dispatch
      BY <1>1, <2>2, <3>1 DEF Delivers
    <3>4. ScopeResolves(ItemAt(p).scope)'
      BY <1>13, <3>1, <3>2, <3>3 DEF ScopeResolves
    <3> QED  BY <3>1, <3>3, <3>4
  <2>3. ASSUME NEW p \in Places' \ Places
        PROVE  /\ ScopeResolves(ItemAt(p).scope)'
               /\ slots'[p[1]].state = "Armed" /\ slots'[p[1]].dispatch = ItemAt(p)'.dispatch
    <3> DEFINE k == PositionAt(a, p)
    <3>1. /\ k \in K /\ p[1] = SlotOf(q[k]) /\ ItemAt(p)' = Item(q[k])
          /\ slots'[p[1]].state = slots[p[1]].state /\ slots'[p[1]].dispatch = slots[p[1]].dispatch
      BY <2>1
    <3> HIDE DEF k
    <3>2. /\ slots[SlotOf(q[k])].state = "Armed"
          /\ slots[SlotOf(q[k])].dispatch = q[k].dispatch
          /\ ScopeResolves(timers[q[k].index].record.scope)
      BY <1>3, <3>1, AcceptedMay DEF Accepted
    <3>3. /\ Item(q[k]) \in QueueItems
          /\ Item(q[k]).dispatch = q[k].dispatch
          /\ Item(q[k]).scope = timers[q[k].index].record.scope
      BY <1>3, <3>1, ItemsTyped
    <3>4. Item(q[k]).scope \in ScopeTokens
      BY <3>3 DEF QueueItems
    <3> DEFINE sc == timers[q[k].index].record.scope
    <3>5. sc \in ScopeTokens /\ ScopeResolves(sc) /\ ItemAt(p)'.scope = sc
      BY <3>1, <3>2, <3>3, <3>4
    <3> HIDE DEF sc
    <3>6. /\ scopes'[sc.id].alive
          /\ scopes'[sc.id].generation = sc.generation
          /\ scopes'[sc.id].kind = sc.kind
      BY <1>13, <3>5
    <3>7. ScopeResolves(ItemAt(p).scope)'
      BY <3>5, <3>6 DEF ScopeResolves
    <3> QED  BY <3>1, <3>2, <3>3, <3>7
  <2> QED  BY <2>2, <2>3 DEF Delivers
<1> QED  BY <1>9, <1>10, <1>11, <1>14, <1>15, <1>16, <1>17 DEF IInv

-----------------------------------------------------------------------------
(* The theorems *)

LEMMA StepHolds == IInv /\ [Next]_vars => IInv'
<1> SUFFICES ASSUME IInv, [Next]_vars PROVE IInv'
  OBVIOUS
<1>1. ASSUME NEW d \in Dispatches, TryRegisterDispatch(d) \/ RemoveDispatch(d) PROVE IInv'
  BY <1>1, TryRegisterDispatchKeeps, RemoveDispatchKeeps
<1>2. CASE CreateSlot
  BY <1>2, CreateSlotKeeps
<1>3. ASSUME NEW c \in 1 .. MaxSlots, CloseSlot(c) PROVE IInv'
  BY <1>3, CloseSlotKeeps
<1>4. ASSUME NEW c \in 1 .. MaxSlots, NEW d \in Dispatches, BindSlot(c, d) \/ ArmSlot(c, d) PROVE IInv'
  BY <1>4, BindSlotKeeps, ArmSlotKeeps
<1>5. CASE SlotCall
  BY <1>1, <1>2, <1>3, <1>4, <1>5 DEF SlotCall
<1>6. ASSUME NEW id \in Ids, TeardownScope(id) \/ DestroyScope(id) PROVE IInv'
  BY <1>6, TeardownScopeKeeps, DestroyScopeKeeps
<1>7. ASSUME NEW id \in Ids, NEW k \in Kinds, RegisterScope(id, k) PROVE IInv'
  BY <1>7, RegisterScopeKeeps
<1>8. CASE ScopeCall
  BY <1>6, <1>7, <1>8 DEF ScopeCall
<1>9. ASSUME NEW sc \in ScopeTokens, NEW due \in 1 .. MaxTick, NEW interval \in Intervals \cup {OneShot},
             NEW c \in 1 .. MaxSlots, Schedule(sc, due, interval, c)
      PROVE  IInv'
  BY <1>9, ScheduleKeeps
<1>10. ASSUME NEW h \in DOMAIN issued, Cancel(h) PROVE IInv'
  BY <1>10, CancelKeeps
<1>11. CASE TimerCall
  BY <1>9, <1>10, <1>11 DEF TimerCall
<1>12. ASSUME NEW to \in 1 .. MaxTick, Advance(to) PROVE IInv'
  BY <1>12, AdvanceKeeps
<1>13. CASE Drain
  BY <1>13, DrainKeeps
<1>14. CASE Shutdown
  BY <1>14, ShutdownKeeps
<1>15. CASE UNCHANGED vars
  <2>1. UNCHANGED <<running, tick, schedules, sequence, scopes, timers, free, live, slots,
                    pending, dispatches, host>>
    BY <1>15 DEF vars, host
  <2>2. /\ dispatches' \subseteq Dispatches
        /\ IsFiniteSet(dispatches') /\ Cardinality(dispatches') <= MaxSlots
    BY <2>1 DEF IInv, Types
  <2> QED  BY <2>1, <2>2, DispatchKeeps
<1> QED  BY <1>5, <1>8, <1>11, <1>12, <1>13, <1>14, <1>15 DEF Next

(* Every reachable state of the manager satisfies the invariant above. *)
THEOREM Inductive == Spec => []IInv
<1>1. Init => IInv
  BY InitHolds
<1>2. IInv /\ [Next]_vars => IInv'
  BY StepHolds
<1> QED  BY <1>1, <1>2, PTL DEF Spec
(* Every variable keeps to its type and to its limit. *)
THEOREM ManagerTypes == Spec => []TypeInv
<1>1. IInv => TypeInv
  <2> SUFFICES ASSUME IInv PROVE TypeInv
    OBVIOUS
  <2>1. Types /\ Counted /\ QueuesWithin
    BY DEF IInv
  <2>2. /\ Len(timers) \in Nat /\ DOMAIN timers = 1 .. Len(timers) /\ Len(timers) <= MaxTimers
        /\ \A i \in DOMAIN timers : timers[i] \in TimerSlots
    BY <2>1, TimersTyped DEF Types
  <2>3. \A i \in DOMAIN timers :
           timers[i].generation \in 1 .. MaxGeneration /\ timers[i].record \in Records \cup {NoTimer}
    BY <2>2 DEF TimerSlots
  <2>4. free \in Seq(DOMAIN timers)
    BY <2>1, <2>2 DEF Types
  <2>5. live \in 0 .. MaxTimers
    <3>1. Occupied \in SUBSET Occupied
      OBVIOUS
    <3> QED  BY <2>1, <3>1, OccupiedFinite DEF Counted
  <2>6. /\ DOMAIN slots = 1 .. Len(slots) /\ Len(slots) <= MaxSlots
        /\ \A c \in DOMAIN slots : slots[c] \in SlotRecords /\ Len(slots[c].queue) <= Depth
    BY <2>1, SlotsTyped DEF Types, QueuesWithin
  <2>7. \A c \in DOMAIN slots :
           /\ slots[c].state \in {"Unbound", "Armed", "Closed"}
           /\ slots[c].dispatch \in Dispatches \cup {NoDispatch}
    BY <2>6 DEF SlotRecords
  <2>8. pending \in 0 .. MaxPending
    <3>1. pending = Cardinality(Places) /\ pending <= MaxPending /\ Cardinality(Places) \in Nat
      BY <2>1, PlacesFinite DEF QueuesWithin
    <3> QED  BY <3>1, Limits
  <2>9. scopes \in [Ids -> [kind : Kinds, generation : 0 .. MaxGeneration, active : 0 .. MaxActive,
                            alive : BOOLEAN]]
    BY <2>1 DEF Types, ScopeRecords
  <2> QED  BY <2>1, <2>2, <2>3, <2>4, <2>5, <2>6, <2>7, <2>8, <2>9 DEF Types, TypeInv
<1> QED  BY <1>1, Inductive, PTL

(* The counters that the limits are enforced with are true: live, active and *)
(* pending count what they are said to count, and the free list holds every  *)
(* index that is not in use, once.                                           *)
THEOREM BooksAreTrue == Spec => []BooksBalance
<1>1. IInv => BooksBalance
  <2> SUFFICES ASSUME IInv PROVE BooksBalance
    OBVIOUS
  <2>1. Types /\ FreeList /\ Counted /\ Entries /\ QueuesWithin
    BY DEF IInv
  <2>2. DOMAIN free = 1 .. Len(free)
    BY <2>1 DEF Types
  <2>3. \A i, k \in DOMAIN free : free[i] = free[k] => i = k
    BY <2>1, <2>2 DEF FreeList
  <2>4. running => Range(free) = DOMAIN timers \ Occupied
    <3>1. Range(free) = {free[i] : i \in 1 .. Len(free)}
      BY <2>2 DEF Range
    <3> QED  BY <2>1, <3>1 DEF FreeList
  <2>5. pending = Cardinality(Items) /\ pending <= MaxPending
    <3> DEFINE f == [p \in Places |-> ItemAt(p)]
    <3>1. IsFiniteSet(Places) /\ pending = Cardinality(Places) /\ pending <= MaxPending
      BY <2>1, PlacesFinite DEF QueuesWithin
    <3>2. (\A p \in Places : f[p] \in Items) /\ (\A item \in Items : \E p \in Places : f[p] = item)
      BY <2>1, PlacesHoldItems
    <3>3. \A p, q \in Places : f[p] = f[q] => p = q
      <4> SUFFICES ASSUME NEW p \in Places, NEW q \in Places, ItemAt(p) = ItemAt(q) PROVE p = q
        OBVIOUS
      <4>1. Key(ItemAt(p)) = Key(ItemAt(q))
        OBVIOUS
      <4> QED  BY <2>1, <4>1 DEF Entries
    <3> HIDE DEF f
    <3>4. Cardinality(Items) = Cardinality(Places)
      BY <3>1, <3>2, <3>3, OntoFinite
    <3> QED  BY <3>1, <3>4
  <2>6. \A c \in DOMAIN slots : Len(slots[c].queue) <= Depth
    BY <2>1 DEF QueuesWithin
  <2> QED  BY <2>1, <2>3, <2>4, <2>5, <2>6 DEF BooksBalance, Counted
<1> QED  BY <1>1, Inductive, PTL

(* A handle never reaches a timer other than the one it was returned for,    *)
(* however often its slot is reused.                                         *)
THEOREM HandlesAreExact == Spec => []HandlesNameTheirTimer
<1>1. IInv => HandlesNameTheirTimer
  <2> SUFFICES ASSUME IInv, NEW h \in DOMAIN issued, Resolves(h)
               PROVE  timers[h.index].record.seq = issued[h]
    BY DEF HandlesNameTheirTimer
  <2>1. Stopped /\ HandlesPast
    BY DEF IInv
  <2>2. h.index \in Occupied /\ timers[h.index].generation = h.generation
    BY DEF Resolves
  <2>3. running /\ h.generation \in Nat
    BY <2>1, <2>2 DEF Stopped, HandlesPast
  <2>4. ~ (h.generation < timers[h.index].generation)
    BY <2>2, <2>3
  <2> QED  BY <2>1, <2>3, <2>4 DEF HandlesPast
<1> QED  BY <1>1, Inductive, PTL

(* What a close, a cancellation or the end of a scope leaves valid in the    *)
(* queues can still be delivered.                                            *)
THEOREM ValidEntriesCount == Spec => []ValidEntriesDeliver
<1>1. IInv => ValidEntriesDeliver
  <2> SUFFICES ASSUME IInv, NEW c \in DOMAIN slots, NEW item \in Range(slots[c].queue), item.valid
               PROVE  /\ ScopeResolves(item.scope)
                      /\ slots[c].state = "Armed" /\ slots[c].dispatch = item.dispatch
    BY DEF ValidEntriesDeliver
  <2>1. Types /\ Delivers
    BY DEF IInv
  <2>2. DOMAIN slots[c].queue = 1 .. Len(slots[c].queue)
    BY <2>1, SlotsTyped
  <2>3. PICK i \in 1 .. Len(slots[c].queue) : item = slots[c].queue[i]
    BY <2>2 DEF Range
  <2> DEFINE p == <<c, i>>
  <2>4. p \in Places /\ ItemAt(p) = item /\ p[1] = c
    BY <2>3, PlaceIsPair DEF ItemAt
  <2> HIDE DEF p
  <2> QED  BY <2>1, <2>4 DEF Delivers
<1> QED  BY <1>1, Inductive, PTL

-----------------------------------------------------------------------------
(* The names of timers *)

HandleOfItem(item) == [index |-> item.index, generation |-> item.generation]

(* A sequence number names one handle; a timer and its entries bear the name  *)
(* of their handle, and an entry bears the scope of its timer.                *)
Names ==
    /\ \A h \in DOMAIN issued : issued[h] \in Nat /\ issued[h] < sequence
    /\ \A g, h \in DOMAIN issued : issued[g] = issued[h] => g = h
    /\ \A i \in Occupied :
          HandleOf(i) \in DOMAIN issued /\ issued[HandleOf(i)] = timers[i].record.seq
    /\ \A p \in Places :
          /\ HandleOfItem(ItemAt(p)) \in DOMAIN issued
          /\ issued[HandleOfItem(ItemAt(p))] = ItemAt(p).seq
          /\ Resolves(ItemAt(p)) => ItemAt(p).scope = timers[ItemAt(p).index].record.scope

(* Entry b is of the timer that entry a is of. *)
SameTimer(a, b) ==
    b.index = a.index /\ b.generation = a.generation /\ b.seq = a.seq /\ b.scope = a.scope

(* The timers that are left keep their names. *)
NamesStay ==
    \A i \in Occupied' :
        /\ i \in Occupied
        /\ timers'[i].generation = timers[i].generation
        /\ timers'[i].record.seq = timers[i].record.seq
        /\ timers'[i].record.scope = timers[i].record.scope

(* An entry of timer i. *)
IsOf(b, i) ==
    /\ b.index = i /\ b.generation = timers[i].generation
    /\ b.seq = timers[i].record.seq /\ b.scope = timers[i].record.scope

LEMMA NamesKeep ==
    ASSUME Names, NamesStay, UNCHANGED <<sequence, issued>>,
           \A p \in Places' : \/ \E r \in Places : SameTimer(ItemAt(r), ItemAt(p)')
                              \/ \E i \in Occupied : IsOf(ItemAt(p)', i)
    PROVE  Names'
<1>1. ASSUME NEW i \in Occupied'
      PROVE  HandleOf(i)' \in DOMAIN issued /\ issued[HandleOf(i)'] = timers'[i].record.seq
  <2>1. i \in Occupied /\ HandleOf(i)' = HandleOf(i) /\ timers'[i].record.seq = timers[i].record.seq
    BY DEF NamesStay, HandleOf
  <2> QED  BY <2>1 DEF Names
<1>2. ASSUME NEW p \in Places'
      PROVE  /\ HandleOfItem(ItemAt(p)') \in DOMAIN issued
             /\ issued[HandleOfItem(ItemAt(p)')] = ItemAt(p)'.seq
             /\ Resolves(ItemAt(p))' => ItemAt(p)'.scope = timers'[ItemAt(p)'.index].record.scope
  <2> DEFINE b == ItemAt(p)'
  <2>1. Resolves(ItemAt(p))' <=> b.index \in Occupied' /\ timers'[b.index].generation = b.generation
    BY DEF Resolves
  <2> HIDE DEF b
  <2>2. CASE \E r \in Places : SameTimer(ItemAt(r), b)
    <3>1. PICK r \in Places : SameTimer(ItemAt(r), b)
      BY <2>2
    <3> DEFINE a == ItemAt(r)
    <3>2. /\ HandleOfItem(a) \in DOMAIN issued /\ issued[HandleOfItem(a)] = a.seq
          /\ Resolves(a) => a.scope = timers[a.index].record.scope
      BY DEF Names
    <3>3. b.index = a.index /\ b.generation = a.generation /\ b.seq = a.seq /\ b.scope = a.scope
      BY <3>1 DEF SameTimer
    <3> HIDE DEF a
    <3>4. HandleOfItem(b) = HandleOfItem(a)
      BY <3>3 DEF HandleOfItem
    <3>5. ASSUME b.index \in Occupied', timers'[b.index].generation = b.generation
          PROVE  b.scope = timers'[b.index].record.scope
      <4>1. /\ b.index \in Occupied /\ timers'[b.index].generation = timers[b.index].generation
            /\ timers'[b.index].record.scope = timers[b.index].record.scope
        BY <3>5 DEF NamesStay
      <4>2. Resolves(a)
        BY <3>3, <3>5, <4>1 DEF Resolves
      <4> QED  BY <3>2, <3>3, <4>1, <4>2
    <3> QED  BY <2>1, <3>2, <3>3, <3>4, <3>5 DEF b
  <2>3. CASE \E i \in Occupied : IsOf(b, i)
    <3>1. PICK i \in Occupied : IsOf(b, i)
      BY <2>3
    <3>2. /\ b.index = i /\ b.generation = timers[i].generation
          /\ b.seq = timers[i].record.seq /\ b.scope = timers[i].record.scope
      BY <3>1 DEF IsOf
    <3>3. HandleOfItem(b) = HandleOf(i)
      BY <3>2 DEF HandleOfItem, HandleOf
    <3>4. b.index \in Occupied' => timers'[i].record.scope = timers[i].record.scope
      BY <3>2 DEF NamesStay
    <3> QED  BY <2>1, <3>2, <3>3, <3>4 DEF b, Names
  <2> QED  BY <2>2, <2>3 DEF b
<1>3. /\ \A h \in DOMAIN issued' : issued'[h] \in Nat /\ issued'[h] < sequence'
      /\ \A g, h \in DOMAIN issued' : issued'[g] = issued'[h] => g = h
  BY DEF Names
<1>4. \A i \in Occupied' : HandleOf(i)' \in DOMAIN issued' /\ issued'[HandleOf(i)'] = timers'[i].record.seq
  BY <1>1
<1>5. \A p \in Places' :
          /\ HandleOfItem(ItemAt(p))' \in DOMAIN issued'
          /\ issued'[HandleOfItem(ItemAt(p))'] = ItemAt(p)'.seq
          /\ Resolves(ItemAt(p))' => ItemAt(p)'.scope = timers'[ItemAt(p)'.index].record.scope
  <2>1. \A p : HandleOfItem(ItemAt(p))' = HandleOfItem(ItemAt(p)')
    BY DEF HandleOfItem
  <2> QED  BY <1>2, <2>1
<1> QED  BY <1>3, <1>4, <1>5, Zenon DEF Names

-----------------------------------------------------------------------------
(* The contract, in the manager's terms *)

(* Timer i as the contract knows it. *)
TimerAt(i) ==
    [seq |-> timers[i].record.seq, due |-> timers[i].record.due,
     every |-> timers[i].record.interval, queued |-> timers[i].record.queued]

(* Entry item as the contract knows it. *)
FiringOf(item) == [seq |-> item.seq, due |-> item.due, doomed |-> ~item.valid]

Armed == {TimerAt(i) : i \in Occupied}

Queue == {FiringOf(item) : item \in Items}

LEMMA EntriesOfSlots ==
    ASSUME NEW s \in Seq(SlotRecords), NEW item
    PROVE  item \in UNION {Range(s[c].queue) : c \in DOMAIN s} <=>
              \E c \in DOMAIN s : \E i \in 1 .. Len(s[c].queue) : item = s[c].queue[i]
<1>1. \A c \in DOMAIN s : s[c].queue \in Seq(QueueItems)
  <2>1. \A c \in DOMAIN s : s[c] \in SlotRecords
    OBVIOUS
  <2> QED  BY <2>1 DEF SlotRecords
<1>2. \A c \in DOMAIN s : DOMAIN s[c].queue = 1 .. Len(s[c].queue)
  BY <1>1
<1>3. \A c \in DOMAIN s : item \in Range(s[c].queue) <=> \E i \in 1 .. Len(s[c].queue) : item = s[c].queue[i]
  BY <1>2 DEF Range
<1> QED  BY <1>3

(* The abstract queue, place by place. *)
LEMMA QueueByPlace ==
    /\ Types => \A f : f \in Queue <=> \E p \in Places : f = FiringOf(ItemAt(p))
    /\ Types' => \A f : f \in Queue' <=> \E p \in Places' : f = FiringOf(ItemAt(p)')
<1>1. ASSUME Types, NEW f PROVE f \in Queue <=> \E p \in Places : f = FiringOf(ItemAt(p))
  BY <1>1, PlacesHoldItems DEF Queue
<1>2. ASSUME Types', NEW f PROVE f \in Queue' <=> \E p \in Places' : f = FiringOf(ItemAt(p)')
  <2>1. \A item : item \in Items' <=>
           \E c \in DOMAIN slots' : \E i \in 1 .. Len(slots'[c].queue) : item = slots'[c].queue[i]
    <3>1. slots' \in Seq(SlotRecords)
      BY <1>2 DEF Types
    <3> QED  BY <3>1, EntriesOfSlots DEF Items
  <2>2. \A p : p \in Places' <=> \E c \in DOMAIN slots' : \E i \in 1 .. Len(slots'[c].queue) : p = <<c, i>>
    BY DEF Places
  <2>3. \A c, i : ItemAt(<<c, i>>)' = slots'[c].queue[i]
    BY DEF ItemAt
  <2>4. \A item : item \in Items' <=> \E p \in Places' : item = ItemAt(p)'
    <3>1. ASSUME NEW item \in Items' PROVE \E p \in Places' : item = ItemAt(p)'
      <4>1. PICK c \in DOMAIN slots' : \E i \in 1 .. Len(slots'[c].queue) : item = slots'[c].queue[i]
        BY <2>1
      <4>2. PICK i \in 1 .. Len(slots'[c].queue) : item = slots'[c].queue[i]
        BY <4>1
      <4>3. <<c, i>> \in Places' /\ item = ItemAt(<<c, i>>)'
        BY <2>2, <2>3, <4>2
      <4> QED  BY <4>3
    <3>2. ASSUME NEW p \in Places' PROVE ItemAt(p)' \in Items'
      <4>1. PICK c \in DOMAIN slots' : \E i \in 1 .. Len(slots'[c].queue) : p = <<c, i>>
        BY <2>2
      <4>2. PICK i \in 1 .. Len(slots'[c].queue) : p = <<c, i>>
        BY <4>1
      <4>3. ItemAt(p)' = slots'[c].queue[i]
        BY <2>3, <4>2
      <4> QED  BY <2>1, <4>3
    <3> QED  BY <3>1, <3>2
  <2>5. Queue' = {FiringOf(item) : item \in Items'}
    BY DEF Queue, FiringOf
  <2> QED  BY <2>4, <2>5
<1> QED  BY <1>1, <1>2

(* Timers and entries are known apart by their names. *)
LEMMA NamesTellApart ==
    ASSUME Types, Entries, Names
    PROVE  /\ \A i, k \in Occupied : timers[i].record.seq = timers[k].record.seq => i = k
           /\ \A p, r \in Places :
                 ItemAt(p).seq = ItemAt(r).seq => /\ ItemAt(p).index = ItemAt(r).index
                                                  /\ ItemAt(p).generation = ItemAt(r).generation
           /\ \A p, r \in Places :
                 ItemAt(p).seq = ItemAt(r).seq /\ ItemAt(p).due = ItemAt(r).due => p = r
           /\ \A p \in Places : \A i \in Occupied :
                 ItemAt(p).seq = timers[i].record.seq =>
                    /\ ItemAt(p).index = i /\ ItemAt(p).generation = timers[i].generation
                    /\ Resolves(ItemAt(p)) /\ ItemAt(p).scope = timers[i].record.scope
<1>1. ASSUME NEW i \in Occupied, NEW k \in Occupied, timers[i].record.seq = timers[k].record.seq
      PROVE  i = k
  <2>1. HandleOf(i) = HandleOf(k)
    BY <1>1 DEF Names
  <2> QED  BY <2>1 DEF HandleOf
<1>2. ASSUME NEW p \in Places, NEW r \in Places, ItemAt(p).seq = ItemAt(r).seq
      PROVE  ItemAt(p).index = ItemAt(r).index /\ ItemAt(p).generation = ItemAt(r).generation
  <2>1. HandleOfItem(ItemAt(p)) = HandleOfItem(ItemAt(r))
    BY <1>2 DEF Names
  <2> QED  BY <2>1 DEF HandleOfItem
<1>3. ASSUME NEW p \in Places, NEW r \in Places, ItemAt(p).seq = ItemAt(r).seq, ItemAt(p).due = ItemAt(r).due
      PROVE  p = r
  <2>1. Key(ItemAt(p)) = Key(ItemAt(r))
    BY <1>2, <1>3 DEF Key
  <2> QED  BY <2>1 DEF Entries
<1>4. ASSUME NEW p \in Places, NEW i \in Occupied, ItemAt(p).seq = timers[i].record.seq
      PROVE  /\ ItemAt(p).index = i /\ ItemAt(p).generation = timers[i].generation
             /\ Resolves(ItemAt(p)) /\ ItemAt(p).scope = timers[i].record.scope
  <2>1. HandleOfItem(ItemAt(p)) = HandleOf(i)
    BY <1>4 DEF Names
  <2>2. ItemAt(p).index = i /\ ItemAt(p).generation = timers[i].generation
    BY <2>1 DEF HandleOfItem, HandleOf
  <2>3. Resolves(ItemAt(p))
    BY <2>2 DEF Resolves
  <2> QED  BY <2>2, <2>3 DEF Names
<1> QED  BY <1>1, <1>2, <1>3, <1>4

LEMMA DoomedIs ==
    ASSUME NEW x, NEW y, NEW v
    PROVE  Contract!Doomed([seq |-> x, due |-> y, doomed |-> v]) = [seq |-> x, due |-> y, doomed |-> TRUE]
<1> DEFINE r == [seq |-> x, due |-> y, doomed |-> v]
<1> DEFINE s == [seq |-> x, due |-> y, doomed |-> TRUE]
<1>1. Contract!Doomed(r) = [a \in DOMAIN r |-> IF a = "doomed" THEN TRUE ELSE r[a]]
  BY DEF Contract!Doomed
<1>2. DOMAIN r = {"seq", "due", "doomed"} /\ s = [a \in {"seq", "due", "doomed"} |-> s[a]]
  OBVIOUS
<1>3. s.doomed = TRUE /\ s.seq = x /\ s.due = y /\ r.seq = x /\ r.due = y
  OBVIOUS
<1> QED  BY <1>1, <1>2, <1>3

(* What cancel, teardown, destroy, close and shutdown have in common: timers  *)
(* leave, and no entry of theirs stays valid.                                *)
LEMMA WithdrawStep ==
    ASSUME Types, Types', Entries, Names, Marks, UNCHANGED <<tick, sequence, drained>>,
           \A i \in Occupied' : i \in Occupied /\ timers'[i].record = timers[i].record,
           \A i \in Occupied : i \notin Occupied' =>
              \A p \in Places : Resolves(ItemAt(p)) /\ ItemAt(p).index = i => ~ ItemAt(p)'.valid
    PROVE  Contract!Withdraw
<1> DEFINE gone == {TimerAt(i) : i \in Occupied \ Occupied'}
           closed == {FiringOf(ItemAt(p)) : p \in {r \in Places : ~ ItemAt(r)'.valid}}
           late == closed \cup {f \in Queue : \E t \in gone : t.seq = f.seq}
<1>1. Places' = Places /\ \A p \in Places : Marked(ItemAt(p), ItemAt(p)')
  BY MarksPlaces
<1>2. /\ \A f : f \in Queue <=> \E p \in Places : f = FiringOf(ItemAt(p))
      /\ \A f : f \in Queue' <=> \E p \in Places : f = FiringOf(ItemAt(p)')
  BY <1>1, QueueByPlace
<1>3. /\ \A i : TimerAt(i).seq = timers[i].record.seq
      /\ \A item : FiringOf(item).seq = item.seq /\ FiringOf(item).due = item.due
  BY DEF TimerAt, FiringOf
<1>4. \A i \in Occupied' : i \in Occupied /\ TimerAt(i)' = TimerAt(i)
  BY DEF TimerAt
<1>5. /\ \A i, k \in Occupied : timers[i].record.seq = timers[k].record.seq => i = k
      /\ \A p, r \in Places :
            ItemAt(p).seq = ItemAt(r).seq /\ ItemAt(p).due = ItemAt(r).due => p = r
      /\ \A p \in Places : \A i \in Occupied :
            ItemAt(p).seq = timers[i].record.seq => Resolves(ItemAt(p)) /\ ItemAt(p).index = i
  BY NamesTellApart
<1>6. late = closed
  <2> SUFFICES ASSUME NEW f \in Queue, NEW t \in gone, t.seq = f.seq PROVE f \in closed
    OBVIOUS
  <2>1. PICK p \in Places : f = FiringOf(ItemAt(p))
    BY <1>2
  <2>2. PICK i \in Occupied \ Occupied' : t = TimerAt(i)
    OBVIOUS
  <2>3. ItemAt(p).seq = timers[i].record.seq
    BY <1>3, <2>1, <2>2
  <2>4. ~ ItemAt(p)'.valid
    BY <1>5, <2>2, <2>3
  <2> QED  BY <2>1, <2>4
<1>7. gone \in SUBSET Armed /\ closed \in SUBSET Queue
  BY <1>2 DEF Armed
<1>8. Armed' = Armed \ gone
  <2>1. Armed' = {TimerAt(i) : i \in Occupied'}
    <3>1. Armed' = {TimerAt(i)' : i \in Occupied'}
      BY DEF Armed, TimerAt
    <3> QED  BY <1>4, <3>1
  <2>2. ASSUME NEW i \in Occupied', TimerAt(i) \in gone PROVE FALSE
    <3>1. PICK k \in Occupied \ Occupied' : TimerAt(i) = TimerAt(k)
      BY <2>2
    <3>2. i = k
      BY <1>3, <1>4, <1>5, <3>1
    <3> QED  BY <3>1, <3>2
  <2>3. \A i \in Occupied : i \in Occupied' \/ TimerAt(i) \in gone
    OBVIOUS
  <2> HIDE DEF gone
  <2> QED  BY <1>4, <2>1, <2>2, <2>3 DEF Armed
<1>9. \A p \in Places : FiringOf(ItemAt(p)) \in closed <=> ~ ItemAt(p)'.valid
  <2> SUFFICES ASSUME NEW p \in Places, FiringOf(ItemAt(p)) \in closed PROVE ~ ItemAt(p)'.valid
    OBVIOUS
  <2>1. PICK r \in Places : ~ ItemAt(r)'.valid /\ FiringOf(ItemAt(p)) = FiringOf(ItemAt(r))
    OBVIOUS
  <2>2. p = r
    BY <1>3, <1>5, <2>1
  <2> QED  BY <2>1, <2>2
<1>10. ASSUME NEW p \in Places
       PROVE  /\ ItemAt(p)'.valid => FiringOf(ItemAt(p)') = FiringOf(ItemAt(p))
              /\ ~ ItemAt(p)'.valid => FiringOf(ItemAt(p)') = Contract!Doomed(FiringOf(ItemAt(p)))
  <2>1. Marked(ItemAt(p), ItemAt(p)')
    BY <1>1
  <2>2. /\ ItemAt(p)'.seq = ItemAt(p).seq /\ ItemAt(p)'.due = ItemAt(p).due
        /\ ItemAt(p)'.valid => ItemAt(p).valid
    BY <2>1 DEF Marked
  <2> DEFINE a == ItemAt(p)
             b == ItemAt(p)'
  <2>3. FiringOf(b) = [seq |-> a.seq, due |-> a.due, doomed |-> ~ b.valid]
    BY <2>2, Zenon DEF FiringOf
  <2>4. FiringOf(a) = [seq |-> a.seq, due |-> a.due, doomed |-> ~ a.valid]
    BY Zenon DEF FiringOf
  <2> HIDE DEF a, b
  <2>5. CASE b.valid
    <3>1. (~ b.valid) = (~ a.valid)
      BY <2>2, <2>5, Zenon DEF a, b
    <3>2. FiringOf(b) = FiringOf(a)
      BY <2>3, <2>4, <3>1, Zenon
    <3> QED  BY <2>5, <3>2 DEF a, b
  <2>6. CASE ~ b.valid
    <3>1. (~ b.valid) = TRUE
      BY <2>6, Zenon
    <3>2. FiringOf(b) = [seq |-> a.seq, due |-> a.due, doomed |-> TRUE]
      BY <2>3, <3>1, Zenon
    <3>3. Contract!Doomed(FiringOf(a)) = [seq |-> a.seq, due |-> a.due, doomed |-> TRUE]
      BY <2>4, DoomedIs, Zenon
    <3> QED  BY <2>6, <3>2, <3>3 DEF a, b
  <2> QED  BY <2>5, <2>6, Zenon DEF a, b
<1>11. Queue' = (Queue \ closed) \cup {Contract!Doomed(f) : f \in closed}
  <2>1. ASSUME NEW f \in Queue' PROVE f \in (Queue \ closed) \cup {Contract!Doomed(g) : g \in closed}
    <3>1. PICK p \in Places : f = FiringOf(ItemAt(p)')
      BY <1>2
    <3> HIDE DEF closed
    <3> QED  BY <1>2, <1>9, <1>10, <3>1
  <2>2. ASSUME NEW f \in Queue \ closed PROVE f \in Queue'
    <3>1. PICK p \in Places : f = FiringOf(ItemAt(p))
      BY <1>2
    <3> HIDE DEF closed
    <3> QED  BY <1>2, <1>9, <1>10, <3>1
  <2>3. ASSUME NEW f \in closed PROVE Contract!Doomed(f) \in Queue'
    <3>1. PICK p \in Places : f = FiringOf(ItemAt(p)) /\ ~ ItemAt(p)'.valid
      OBVIOUS
    <3> QED  BY <1>2, <1>10, <3>1
  <2> HIDE DEF closed
  <2> QED  BY <2>1, <2>2, <2>3
<1>12. \E G \in SUBSET Armed, C \in SUBSET Queue :
          LET L == C \cup {f \in Queue : \E t \in G : t.seq = f.seq}
          IN  /\ Armed' = Armed \ G
              /\ Queue' = (Queue \ L) \cup {Contract!Doomed(f) : f \in L}
  <2>1. /\ Armed' = Armed \ gone
        /\ Queue' = (Queue \ late) \cup {Contract!Doomed(f) : f \in late}
    <3> HIDE DEF closed, late, gone
    <3> QED  BY <1>6, <1>8, <1>11
  <2>2. late = closed \cup {f \in Queue : \E t \in gone : t.seq = f.seq}
    OBVIOUS
  <2> HIDE DEF closed, late, gone
  <2> QED  BY <1>7, <2>1, <2>2
<1>13. UNCHANGED <<tick, sequence, drained>>
  OBVIOUS
<1> QED  BY <1>12, <1>13, Zenon DEF Contract!Withdraw, Armed, Queue, TimerAt, FiringOf

(* As above, when the names are kept too. *)
LEMMA MarksWithdraw ==
    ASSUME Types, Types', Entries, Names, Marks, UNCHANGED <<tick, sequence, issued, drained>>,
           \A i \in Occupied' : i \in Occupied /\ timers'[i] = timers[i],
           \A i \in Occupied : i \notin Occupied' =>
              \A p \in Places : Resolves(ItemAt(p)) /\ ItemAt(p).index = i => ~ ItemAt(p)'.valid
    PROVE  Names' /\ Contract!Withdraw
<1>1. Places' = Places /\ \A p \in Places : Marked(ItemAt(p), ItemAt(p)')
  BY MarksPlaces
<1>2. \A p \in Places' : SameTimer(ItemAt(p), ItemAt(p)')
  BY <1>1 DEF Marked, Key, SameTimer
<1>3. NamesStay
  BY DEF NamesStay
<1>4. Names'
  BY <1>1, <1>2, <1>3, NamesKeep
<1>5. \A i \in Occupied' : i \in Occupied /\ timers'[i].record = timers[i].record
  OBVIOUS
<1> QED  BY <1>4, <1>5, WithdrawStep

(* A call that leaves the timers alone. *)
LEMMA UntouchedWithdraw ==
    ASSUME IInv, IInv', Names, Marks, UNCHANGED <<tick, sequence, timers, issued, drained>>
    PROVE  Names' /\ Contract!Withdraw
<1>1. Types /\ Types' /\ Entries
  BY DEF IInv
<1>2. Occupied' = Occupied
  BY DEF Occupied
<1> QED  BY <1>1, <1>2, MarksWithdraw

(* A call that takes timers back, and their entries. *)
LEMMA TakenBack ==
    ASSUME IInv, IInv', Names, NEW S \in SUBSET Occupied, NEW L, CanRetire(S),
           timers' = TimersRetired(S), slots' = Invalidated(L),
           UNCHANGED <<tick, sequence, issued, drained>>,
           \A p \in Places : Resolves(ItemAt(p)) /\ ItemAt(p).index \in S => ItemAt(p) \in L
    PROVE  Names' /\ Contract!Withdraw
<1>1. Types /\ Types' /\ Entries
  BY DEF IInv
<1>2. /\ timers' \in Seq(TimerSlots) /\ Len(timers') = Len(timers)
      /\ \A i \in S : timers'[i] = [generation |-> timers[i].generation + 1, record |-> NoTimer]
      /\ \A i \in 1 .. Len(timers) : i \notin S => timers'[i] = timers[i]
  BY <1>1, TimersRetiredFacts
<1>3. DOMAIN timers = 1 .. Len(timers) /\ DOMAIN timers' = 1 .. Len(timers)
  BY <1>1, <1>2, TimersTyped
<1>4. \A i \in S : timers'[i].record = NoTimer
  <2> SUFFICES ASSUME NEW i \in S PROVE timers'[i].record = NoTimer
    OBVIOUS
  <2>1. timers'[i] = [generation |-> timers[i].generation + 1, record |-> NoTimer]
    BY <1>2
  <2> QED  BY <2>1
<1>5. \A i \in Occupied' : i \in 1 .. Len(timers) /\ i \notin S
  BY <1>3, <1>4 DEF Occupied
<1>6. \A i \in Occupied' : i \in Occupied /\ timers'[i] = timers[i]
  BY <1>2, <1>3, <1>5 DEF Occupied
<1>7. \A i \in Occupied : i \notin Occupied' => i \in S
  BY <1>2, <1>3 DEF Occupied
<1>8. Marks /\ \A p \in Places : ItemAt(p)'.valid => ItemAt(p) \notin L
  BY <1>1, InvalidatedMarks
<1>9. \A i \in Occupied : i \notin Occupied' =>
         \A p \in Places : Resolves(ItemAt(p)) /\ ItemAt(p).index = i => ~ ItemAt(p)'.valid
  BY <1>7, <1>8
<1> QED  BY <1>1, <1>6, <1>8, <1>9, MarksWithdraw

-----------------------------------------------------------------------------
(* The calls that withdraw *)

LEMMA SlotCallRefines ==
    ASSUME IInv, Names, SlotCall
    PROVE  Names' /\ Contract!Withdraw
<1>1. ASSUME NEW d \in Dispatches, TryRegisterDispatch(d) \/ RemoveDispatch(d)
      PROVE  IInv' /\ UNCHANGED <<tick, sequence, timers, slots, issued, drained>>
  BY <1>1, TryRegisterDispatchKeeps, RemoveDispatchKeeps DEF TryRegisterDispatch, RemoveDispatch, host
<1>2. ASSUME CreateSlot
      PROVE  IInv' /\ Marks /\ UNCHANGED <<tick, sequence, timers, issued, drained>>
  BY <1>2, CreateSlotKeeps DEF CreateSlot, host
<1>3. ASSUME NEW c \in 1 .. MaxSlots, CloseSlot(c)
      PROVE  IInv' /\ Marks /\ UNCHANGED <<tick, sequence, timers, issued, drained>>
  <2>1. UNCHANGED <<tick, sequence, timers, issued, drained>>
    BY <1>3 DEF CloseSlot, host
  <2> QED  BY <1>3, <2>1, CloseSlotKeeps
<1>4. ASSUME NEW c \in 1 .. MaxSlots, NEW d \in Dispatches, BindSlot(c, d) \/ ArmSlot(c, d)
      PROVE  IInv' /\ Marks /\ UNCHANGED <<tick, sequence, timers, issued, drained>>
  <2>1. Arm(c, d)
    BY <1>4 DEF BindSlot, ArmSlot
  <2>2. UNCHANGED <<tick, sequence, timers, issued, drained>>
    BY <2>1 DEF Arm, host
  <2> QED  BY <1>4, <2>2, BindSlotKeeps, ArmSlotKeeps
<1>5. IInv' /\ Marks /\ UNCHANGED <<tick, sequence, timers, issued, drained>>
  BY <1>1, <1>2, <1>3, <1>4, UnmovedMarks DEF SlotCall
<1> QED  BY <1>5, UntouchedWithdraw

LEMMA RegisterScopeRefines ==
    ASSUME IInv, Names, NEW id \in Ids, NEW k \in Kinds, RegisterScope(id, k)
    PROVE  Names' /\ Contract!Withdraw
<1>1. UNCHANGED <<tick, sequence, timers, slots, issued, drained>>
  BY DEF RegisterScope, host
<1>2. IInv' /\ Marks
  BY <1>1, RegisterScopeKeeps, UnmovedMarks
<1> QED  BY <1>1, <1>2, UntouchedWithdraw

LEMMA CancelRefines ==
    ASSUME IInv, Names, NEW h, Cancel(h)
    PROVE  Names' /\ Contract!Withdraw
<1>1. /\ {h.index} \in SUBSET Occupied /\ timers[h.index].generation = h.generation
      /\ CanRetire({h.index}) /\ timers' = TimersRetired({h.index})
      /\ slots' = Invalidated(Queued(h))
      /\ UNCHANGED <<tick, sequence, issued, drained>>
  BY DEF Cancel, Resolves, host
<1>2. IInv' /\ Types
  BY CancelKeeps DEF IInv
<1>3. \A p \in Places : Resolves(ItemAt(p)) /\ ItemAt(p).index \in {h.index} => ItemAt(p) \in Queued(h)
  BY <1>1, <1>2, PlacesHoldItems DEF Queued, Resolves
<1> QED  BY <1>1, <1>2, <1>3, TakenBack

LEMMA ScopeEndRefines ==
    ASSUME IInv, Names, NEW id \in Ids, TeardownScope(id) \/ DestroyScope(id)
    PROVE  Names' /\ Contract!Withdraw
<1> DEFINE S == TimersOf(id)
           L == {item \in Items : item.scope.id = id}
<1>1. IInv' /\ Types /\ RetireScopeTimers(id)
  BY TeardownScopeKeeps, DestroyScopeKeeps DEF IInv, TeardownScope, DestroyScope
<1>2. /\ S \in SUBSET Occupied /\ CanRetire(S)
      /\ timers' = TimersRetired(S) /\ slots' = Invalidated(L)
      /\ UNCHANGED <<tick, sequence, issued, drained>>
  BY <1>1, RetireScopeTimersFacts DEF host
<1>3. ASSUME NEW p \in Places, Resolves(ItemAt(p)), ItemAt(p).index \in S PROVE ItemAt(p) \in L
  <2>1. timers[ItemAt(p).index].record.scope.id = id
    BY <1>3 DEF TimersOf
  <2>2. ItemAt(p).scope = timers[ItemAt(p).index].record.scope
    BY <1>3 DEF Names
  <2>3. ItemAt(p) \in Items
    BY <1>1, PlacesHoldItems
  <2> QED  BY <2>1, <2>2, <2>3
<1> HIDE DEF S, L
<1> QED  BY <1>1, <1>2, <1>3, TakenBack

LEMMA ShutdownRefines ==
    ASSUME IInv, Names, Shutdown
    PROVE  Names' /\ Contract!Withdraw
<1>1. /\ slots' = Invalidated(Items)
      /\ timers' = [i \in DOMAIN timers |-> [timers[i] EXCEPT !.record = NoTimer]]
      /\ UNCHANGED <<tick, sequence, issued, drained>>
  BY DEF Shutdown, host
<1>2. IInv' /\ Types /\ Types' /\ Entries
  BY ShutdownKeeps DEF IInv
<1>3. Occupied' = {}
  <2>1. \A i \in DOMAIN timers : timers[i] \in TimerSlots
    BY <1>2, TimersTyped
  <2>2. \A i \in DOMAIN timers : timers'[i].record = NoTimer
    BY <1>1, <2>1 DEF TimerSlots
  <2> QED  BY <1>1, <2>2 DEF Occupied
<1>4. Marks /\ \A p \in Places : ItemAt(p)'.valid => ItemAt(p) \notin Items
  BY <1>1, <1>2, InvalidatedMarks
<1>5. \A p \in Places : ~ ItemAt(p)'.valid
  BY <1>2, <1>4, PlacesHoldItems
<1> QED  BY <1>1, <1>2, <1>3, <1>4, <1>5, MarksWithdraw

-----------------------------------------------------------------------------
(* The calls that make a timer *)

LEMMA ScheduleRefines ==
    ASSUME IInv, Names, NEW sc \in ScopeTokens, NEW due \in 1 .. MaxTick,
           NEW interval \in Intervals \cup {OneShot}, NEW c \in 1 .. MaxSlots,
           Schedule(sc, due, interval, c)
    PROVE  Names' /\ Contract!Schedule
<1> DEFINE r == NewRecord(sc, due, interval, c)
<1> DEFINE n == NextHandle.index
<1> DEFINE g == NextHandle.generation
<1>1. Types /\ sequence \in 1 .. MaxSequence
  BY DEF IInv, Types
<1>2. /\ running /\ due > tick /\ sequence' = sequence + 1
      /\ UNCHANGED <<tick, slots, drained>>
  BY DEF Schedule
<1>3. issued' = [h \in DOMAIN issued \cup {NextHandle} |-> IF h \in DOMAIN issued THEN issued[h] ELSE sequence]
  BY DEF Schedule
<1>4. NextHandle = [index |-> n, generation |-> g]
  BY DEF NextHandle, HandleOf
<1>5. Occupies(n, g, r)
  BY ScheduleOccupies
<1>6. NextHandle \notin DOMAIN issued
  BY <1>2, <1>5, FreshHandle
<1>7. r.scope = sc /\ r.due = due /\ r.interval = interval /\ r.seq = sequence /\ r.queued = FALSE
  BY DEF NewRecord
<1> HIDE DEF r, n, g
<1>8. /\ Occupied' = Occupied \cup {n} /\ timers'[n].record = r /\ timers'[n].generation = g
      /\ \A i \in Occupied : i # n /\ timers'[i] = timers[i]
  BY <1>1, <1>5, OccupiesFacts
<1>9. /\ DOMAIN issued' = DOMAIN issued \cup {NextHandle}
      /\ \A h \in DOMAIN issued : issued'[h] = issued[h]
      /\ issued'[NextHandle] = sequence
  BY <1>3, <1>6
<1>10. Names'
  <2>1. /\ \A h \in DOMAIN issued : issued[h] \in Nat /\ issued[h] < sequence
        /\ \A h, k \in DOMAIN issued : issued[h] = issued[k] => h = k
        /\ \A i \in Occupied : HandleOf(i) \in DOMAIN issued /\ issued[HandleOf(i)] = timers[i].record.seq
        /\ \A p \in Places :
              /\ HandleOfItem(ItemAt(p)) \in DOMAIN issued
              /\ issued[HandleOfItem(ItemAt(p))] = ItemAt(p).seq
              /\ Resolves(ItemAt(p)) => ItemAt(p).scope = timers[ItemAt(p).index].record.scope
    BY DEF Names
  <2>2. \A h \in DOMAIN issued' : issued'[h] \in Nat /\ issued'[h] < sequence'
    <3>1. \A h \in DOMAIN issued : issued'[h] \in Nat /\ issued'[h] < sequence + 1
      BY <1>1, <1>9, <2>1
    <3>2. issued'[NextHandle] \in Nat /\ issued'[NextHandle] < sequence + 1
      BY <1>1, <1>9
    <3> QED  BY <1>2, <1>9, <3>1, <3>2
  <2>3. \A h, k \in DOMAIN issued' : issued'[h] = issued'[k] => h = k
    <3>1. \A h \in DOMAIN issued : issued[h] # sequence
      BY <1>1, <2>1
    <3> QED  BY <1>9, <2>1, <3>1
  <2>4. ASSUME NEW i \in Occupied'
        PROVE  HandleOf(i)' \in DOMAIN issued' /\ issued'[HandleOf(i)'] = timers'[i].record.seq
    <3>1. CASE i = n
      <4>1. HandleOf(i)' = NextHandle
        BY <1>4, <1>8, <3>1 DEF HandleOf
      <4> QED  BY <1>7, <1>8, <1>9, <3>1, <4>1
    <3>2. CASE i # n
      <4>1. i \in Occupied /\ timers'[i] = timers[i]
        BY <1>8, <3>2
      <4>2. HandleOf(i)' = HandleOf(i)
        BY <4>1 DEF HandleOf
      <4> QED  BY <1>9, <2>1, <4>1, <4>2
    <3> QED  BY <3>1, <3>2
  <2>5. Places' = Places /\ \A p : ItemAt(p)' = ItemAt(p)
    BY <1>2 DEF Places, ItemAt
  <2>6. ASSUME NEW p \in Places, Resolves(ItemAt(p))'
        PROVE  ItemAt(p)'.scope = timers'[ItemAt(p)'.index].record.scope
    <3> DEFINE b == ItemAt(p)
    <3>1. b.index \in Occupied' /\ timers'[b.index].generation = b.generation
      BY <2>5, <2>6 DEF Resolves
    <3>2. HandleOfItem(b) \in DOMAIN issued /\ (Resolves(b) => b.scope = timers[b.index].record.scope)
      BY <2>1
    <3>3. ItemAt(p)' = b
      BY <2>5
    <3> HIDE DEF b
    <3>4. b.index # n
      <4> SUFFICES ASSUME b.index = n PROVE FALSE
        OBVIOUS
      <4>1. HandleOfItem(b) = NextHandle
        BY <1>4, <1>8, <3>1 DEF HandleOfItem
      <4> QED  BY <1>6, <3>2, <4>1
    <3>5. b.index \in Occupied /\ timers'[b.index] = timers[b.index]
      BY <1>8, <3>1, <3>4
    <3>6. Resolves(b)
      BY <3>1, <3>5 DEF Resolves
    <3> QED  BY <3>2, <3>3, <3>5, <3>6
  <2>7. \A p \in Places' :
           /\ HandleOfItem(ItemAt(p))' \in DOMAIN issued'
           /\ issued'[HandleOfItem(ItemAt(p))'] = ItemAt(p)'.seq
           /\ Resolves(ItemAt(p))' => ItemAt(p)'.scope = timers'[ItemAt(p)'.index].record.scope
    <3>1. \A p : HandleOfItem(ItemAt(p))' = HandleOfItem(ItemAt(p))
      BY <2>5 DEF HandleOfItem
    <3> QED  BY <1>9, <2>1, <2>5, <2>6, <3>1
  <2> QED  BY <2>2, <2>3, <2>4, <2>7, Zenon DEF Names
<1>11. Armed' = Armed \cup {[seq |-> sequence, due |-> due, every |-> interval, queued |-> FALSE]}
  <2>1. \A i \in Occupied : TimerAt(i)' = TimerAt(i)
    BY <1>8 DEF TimerAt
  <2>2. ASSUME NEW i, i = n
        PROVE  TimerAt(i)' = [seq |-> sequence, due |-> due, every |-> interval, queued |-> FALSE]
    <3>1. timers'[i].record = r
      BY <1>8, <2>2
    <3>2. TimerAt(i)' = [seq |-> r.seq, due |-> r.due, every |-> r.interval, queued |-> r.queued]
      BY <3>1, Zenon DEF TimerAt
    <3> QED  BY <1>7, <3>2, Zenon
  <2>3. Armed' = {TimerAt(i)' : i \in Occupied'}
    BY DEF Armed, TimerAt
  <2> QED  BY <1>8, <2>1, <2>2, <2>3 DEF Armed
<1>12. due \in tick + 1 .. MaxTick /\ interval \in 0 .. MaxTick
  <2>1. tick \in 0 .. MaxTick
    BY <1>1 DEF Types
  <2> QED  BY <1>2, <2>1, Limits DEF OneShot
<1>13. Queue' = Queue
  BY <1>2 DEF Queue, Items, FiringOf
<1>14. \E d \in tick + 1 .. MaxTick, e \in 0 .. MaxTick :
          Armed' = Armed \cup {[seq |-> sequence, due |-> d, every |-> e, queued |-> FALSE]}
  BY <1>11, <1>12, Zenon
<1> QED  BY <1>2, <1>10, <1>13, <1>14, Zenon DEF Contract!Schedule, Armed, Queue, TimerAt, FiringOf

-----------------------------------------------------------------------------
(* The drain *)

(* An entry is known by its name and its due tick, a timer's by its name. *)
LEMMA ItemsTellApart ==
    ASSUME Types, Entries, Names
    PROVE  /\ \A a, b \in Items : a.seq = b.seq /\ a.due = b.due => a = b
           /\ \A a \in Items : \A i \in Occupied :
                 a.seq = timers[i].record.seq <=> Resolves(a) /\ a.index = i
<1>1. \A a \in Items : \E p \in Places : ItemAt(p) = a
  BY PlacesHoldItems
<1>2. ASSUME NEW a \in Items, NEW b \in Items, a.seq = b.seq, a.due = b.due PROVE a = b
  <2>1. PICK p \in Places : ItemAt(p) = a
    BY <1>1
  <2>2. PICK r \in Places : ItemAt(r) = b
    BY <1>1
  <2>3. p = r
    BY <1>2, <2>1, <2>2, NamesTellApart
  <2> QED  BY <2>1, <2>2, <2>3
<1>3. ASSUME NEW a \in Items, NEW i \in Occupied
      PROVE  a.seq = timers[i].record.seq <=> Resolves(a) /\ a.index = i
  <2>1. PICK p \in Places : ItemAt(p) = a
    BY <1>1
  <2>2. a.seq = timers[i].record.seq => Resolves(a) /\ a.index = i
    BY <2>1, NamesTellApart
  <2>3. ASSUME Resolves(a), a.index = i PROVE a.seq = timers[i].record.seq
    <3>1. HandleOfItem(a) = HandleOf(i)
      BY <2>3 DEF Resolves, HandleOfItem, HandleOf
    <3> QED  BY <2>1, <3>1 DEF Names
  <2> QED  BY <2>2, <2>3
<1> QED  BY <1>2, <1>3

(* The timers that a drain ends. *)
LEMMA FirstEnds ==
    ASSUME IsFiniteSet(Items), NEW q \in Sorted(Items)
    PROVE  {q[k].index : k \in EndsFirst(q)} = {item.index : item \in {x \in Items : Ends(x)}}
<1>1. /\ DOMAIN q \in SUBSET Nat /\ DOMAIN q = 1 .. Cardinality(Items) /\ Cardinality(Items) \in Nat
      /\ \A k \in DOMAIN q : q[k] \in Items
      /\ \A item \in Items : \E k \in DOMAIN q : q[k] = item
  BY SortedFacts
<1>2. ASSUME NEW item \in Items, Ends(item) PROVE \E k \in EndsFirst(q) : q[k].index = item.index
  <2> DEFINE T == {k \in DOMAIN q : Ends(q[k]) /\ q[k].index = item.index}
  <2>1. T \subseteq Nat /\ T # {}
    BY <1>1, <1>2
  <2>2. PICK k \in T : \A m \in T : k <= m
    <3> HIDE DEF T
    <3> QED  BY <2>1, LeastNatural
  <2>3. ASSUME NEW i \in 1 .. k - 1, Ends(q[i]) PROVE q[i].index # q[k].index
    <3>1. k \in 1 .. Cardinality(Items)
      BY <1>1
    <3>2. i \in DOMAIN q /\ ~ (k <= i)
      BY <1>1, <3>1
    <3> QED  BY <2>2, <2>3, <3>2
  <2> QED  BY <2>2, <2>3 DEF EndsFirst
<1>3. ASSUME NEW k \in EndsFirst(q) PROVE q[k] \in Items /\ Ends(q[k])
  BY <1>1 DEF EndsFirst
<1> QED  BY <1>2, <1>3

LEMMA SameCardinality == ASSUME NEW S PROVE Contract!Cardinality(S) = Cardinality(S)
BY Zenon DEF Contract!Cardinality, Cardinality

LEMMA DrainRefines ==
    ASSUME IInv, Names, Drain
    PROVE  Names' /\ Contract!Drain
<1> DEFINE S == {item.index : item \in {x \in Items : Ends(x)}}
           Out == {FiringOf(item) : item \in {x \in Items : Deliverable(x)}}
<1>1. /\ IInv' /\ Places' = {} /\ Types /\ Types' /\ Entries /\ QueuesWithin
  BY DrainKeeps DEF IInv
<1>2. IsFiniteSet(Items)
  BY <1>1, PlacesFinite
<1>3. UNCHANGED <<tick, sequence, issued>>
  BY DEF Drain
<1>4. PICK q \in Sorted(Items) :
         /\ CanRetire({q[k].index : k \in EndsFirst(q)})
         /\ timers' = TimersRetired({q[k].index : k \in EndsFirst(q)})
         /\ \E e \in Ascending({k \in DOMAIN q : Deliverable(q[k])}) :
               drained' = [i \in DOMAIN e |-> [due |-> q[e[i]].due, seq |-> q[e[i]].seq]]
  BY DEF Drain
<1>5. CanRetire(S) /\ timers' = TimersRetired(S)
  BY <1>2, <1>4, FirstEnds
<1>6. S \in SUBSET Occupied
  BY DEF Ends, Resolves
<1>7. \A i : i \in S <=> \E item \in Items : Ends(item) /\ item.index = i
  OBVIOUS
<1>8. \A f : f \in Out <=> \E item \in Items : Deliverable(item) /\ f = FiringOf(item)
  OBVIOUS
<1> HIDE DEF S, Out
<1>9. /\ Occupied' = Occupied \ S
      /\ \A i \in Occupied' : timers'[i] = timers[i]
  <2>1. /\ timers' \in Seq(TimerSlots) /\ Len(timers') = Len(timers)
        /\ \A i \in S : timers'[i] = [generation |-> timers[i].generation + 1, record |-> NoTimer]
        /\ \A i \in 1 .. Len(timers) : i \notin S => timers'[i] = timers[i]
    BY <1>1, <1>5, <1>6, TimersRetiredFacts
  <2>2. DOMAIN timers = 1 .. Len(timers) /\ DOMAIN timers' = 1 .. Len(timers)
    BY <1>1, <2>1, TimersTyped
  <2>3. ASSUME NEW i \in S PROVE timers'[i].record = NoTimer
    <3>1. timers'[i] = [generation |-> timers[i].generation + 1, record |-> NoTimer]
      BY <2>1
    <3> QED  BY <3>1
  <2>4. Occupied' = Occupied \ S
    BY <2>1, <2>2, <2>3 DEF Occupied
  <2> QED  BY <2>1, <2>2, <2>4 DEF Occupied
<1>10. Names'
  <2>1. NamesStay
    BY <1>9 DEF NamesStay
  <2> QED  BY <1>1, <1>3, <2>1, NamesKeep
<1>11. /\ \A a, b \in Items : a.seq = b.seq /\ a.due = b.due => a = b
       /\ \A a \in Items : \A i \in Occupied :
             a.seq = timers[i].record.seq <=> Resolves(a) /\ a.index = i
  BY <1>1, ItemsTellApart
<1>12. \A item : FiringOf(item).seq = item.seq /\ FiringOf(item).due = item.due
  BY DEF FiringOf
<1>13. \A item \in Items : FiringOf(item) \in Out <=> Deliverable(item)
  BY <1>8, <1>11, <1>12
<1>14. Queue' = {}
  BY <1>1, QueueByPlace
<1>15. Armed' = {t \in Armed : \A f \in Queue : f.seq = t.seq => f \in Out /\ t.every # 0}
  <2>1. Armed' = {TimerAt(i) : i \in Occupied'}
    <3>1. Armed' = {TimerAt(i)' : i \in Occupied'}
      BY DEF Armed, TimerAt
    <3>2. \A i \in Occupied' : TimerAt(i)' = TimerAt(i)
      BY <1>9 DEF TimerAt
    <3> QED  BY <3>1, <3>2
  <2>2. ASSUME NEW i \in Occupied
        PROVE  i \notin S <=> \A f \in Queue : f.seq = TimerAt(i).seq => f \in Out /\ TimerAt(i).every # 0
    <3>1. TimerAt(i).seq = timers[i].record.seq /\ TimerAt(i).every = timers[i].record.interval
      BY DEF TimerAt
    <3>2. \A f : f \in Queue <=> \E item \in Items : f = FiringOf(item)
      BY DEF Queue
    <3>3. \A item \in Items : Resolves(item) /\ item.index = i =>
             (Ends(item) <=> ~ (FiringOf(item) \in Out /\ timers[i].record.interval # 0))
      BY <1>13 DEF Ends, OneShot
    <3>4. \A item \in Items : Ends(item) => Resolves(item)
      BY DEF Ends
    <3>5. ASSUME i \in S
          PROVE  ~ \A f \in Queue : f.seq = TimerAt(i).seq => f \in Out /\ TimerAt(i).every # 0
      <4>1. PICK item \in Items : Ends(item) /\ item.index = i
        BY <1>7, <3>5
      <4>2. item.seq = timers[i].record.seq /\ Resolves(item)
        BY <1>11, <3>4, <4>1
      <4> QED  BY <1>12, <3>1, <3>2, <3>3, <4>1, <4>2
    <3>6. ASSUME i \notin S, NEW f \in Queue, f.seq = TimerAt(i).seq PROVE f \in Out /\ TimerAt(i).every # 0
      <4>1. PICK item \in Items : f = FiringOf(item)
        BY <3>2
      <4>2. Resolves(item) /\ item.index = i
        BY <1>11, <1>12, <3>1, <3>6, <4>1
      <4>3. ~ Ends(item)
        BY <1>7, <3>6, <4>2
      <4> QED  BY <3>1, <3>3, <4>1, <4>2, <4>3
    <3> QED  BY <3>5, <3>6
  <2> QED  BY <1>9, <2>1, <2>2 DEF Armed
<1>16. Out \in SUBSET {f \in Queue : ~ f.doomed}
  <2> SUFFICES ASSUME NEW f \in Out PROVE f \in Queue /\ ~ f.doomed
    OBVIOUS
  <2>1. PICK item \in Items : Deliverable(item) /\ f = FiringOf(item)
    BY <1>8
  <2>2. item.valid
    BY <2>1 DEF Deliverable, Late
  <2>3. f.doomed = ~ item.valid
    BY <2>1, Zenon DEF FiringOf
  <2> QED  BY <2>1, <2>2, <2>3 DEF Queue
<1>17. /\ Len(drained') = Cardinality(Out)
       /\ {drained'[i] : i \in DOMAIN drained'} = {[due |-> f.due, seq |-> f.seq] : f \in Out}
       /\ \A i, k \in DOMAIN drained' : i < k => Contract!Precedes(drained'[i], drained'[k])
  <2> DEFINE D == {k \in DOMAIN q : Deliverable(q[k])}
             Told(k) == [due |-> q[k].due, seq |-> q[k].seq]
  <2>1. /\ DOMAIN q \in SUBSET Nat /\ IsFiniteSet(DOMAIN q)
        /\ \A k \in DOMAIN q : q[k] \in Items
        /\ \A i, k \in DOMAIN q : i < k => Before(q[i], q[k])
        /\ \A item \in Items : \E k \in DOMAIN q : q[k] = item
    BY <1>2, SortedFacts
  <2>2. D \in SUBSET Nat /\ IsFiniteSet(D)
    <3>1. D \subseteq DOMAIN q
      OBVIOUS
    <3> HIDE DEF D
    <3> QED  BY <2>1, <3>1, FS_Subset
  <2>3. PICK e \in Ascending(D) : drained' = [i \in DOMAIN e |-> Told(e[i])]
    BY <1>4
  <2>4. \A k \in D : k \in DOMAIN q /\ q[k] \in Items /\ Deliverable(q[k])
    BY <2>1
  <2>5. \A item \in Items : Deliverable(item) => \E k \in D : q[k] = item
    BY <2>1
  <2> HIDE DEF D
  <2>6. /\ Lists(e, D) /\ Len(e) = Cardinality(D) /\ Len(e) \in Nat
        /\ \A i, k \in 1 .. Len(e) : i < k => e[i] < e[k]
    BY <2>2, AscendingLists
  <2>7. /\ DOMAIN e = 1 .. Len(e) /\ \A i \in 1 .. Len(e) : e[i] \in D
        /\ D = {e[i] : i \in 1 .. Len(e)}
    BY <2>6 DEF Lists
  <2>8. ASSUME NEW k \in D, NEW l \in D, k < l
        PROVE  Contract!Precedes(Told(k), Told(l)) /\ q[k] # q[l]
    <3>1. Before(q[k], q[l])
      BY <2>1, <2>4, <2>8
    <3>2. q[k] \in QueueItems /\ q[l] \in QueueItems
      <4>1. \A item \in Items : item \in QueueItems
        BY <1>1, PlacesHoldItems
      <4> QED  BY <2>4, <4>1
    <3>3. q[k].index \in Nat /\ q[k].due \in Nat /\ q[k].seq \in Nat
      BY <3>2 DEF QueueItems
    <3>4. q[k] # q[l]
      <4> SUFFICES ASSUME q[k] = q[l] PROVE FALSE
        OBVIOUS
      <4> QED  BY <3>1, <3>3 DEF Before
    <3>5. ~ (q[k].seq = q[l].seq /\ q[k].due = q[l].due)
      BY <1>11, <2>4, <3>4
    <3>6. q[k].due < q[l].due \/ (q[k].due = q[l].due /\ q[k].seq < q[l].seq)
      BY <3>1, <3>5 DEF Before
    <3>7. Told(k).due = q[k].due /\ Told(l).due = q[l].due /\ Told(k).seq = q[k].seq /\ Told(l).seq = q[l].seq
      OBVIOUS
    <3> HIDE DEF Told
    <3> QED  BY <3>4, <3>6, <3>7 DEF Contract!Precedes
  <2>9. Cardinality(Out) = Cardinality(D)
    <3> DEFINE f == [k \in D |-> FiringOf(q[k])]
    <3>1. (\A k \in D : f[k] \in Out) /\ (\A x \in Out : \E k \in D : f[k] = x)
      BY <1>8, <2>4, <2>5
    <3>2. ASSUME NEW k \in D, NEW l \in D, f[k] = f[l] PROVE k = l
      <4>1. q[k] = q[l]
        BY <1>11, <1>12, <2>4, <3>2
      <4>2. k \in Nat /\ l \in Nat /\ ~ (k < l) /\ ~ (l < k)
        BY <2>2, <2>8, <4>1
      <4> QED  BY <4>2
    <3> HIDE DEF f
    <3> QED  BY <2>2, <3>1, <3>2, OntoFinite
  <2>10. DOMAIN drained' = 1 .. Len(e) /\ \A i \in 1 .. Len(e) : drained'[i] = Told(e[i])
    BY <2>3, <2>7
  <2>11. Len(drained') = Len(e)
    <3>1. drained' = [i \in 1 .. Len(e) |-> Told(e[i])]
      BY <2>3, <2>7
    <3> HIDE DEF Told
    <3> QED  BY <2>6, <3>1
  <2>12. {drained'[i] : i \in DOMAIN drained'} = {Told(k) : k \in D}
    <3> HIDE DEF Told
    <3> QED  BY <2>7, <2>10
  <2>13. {Told(k) : k \in D} = {[due |-> f.due, seq |-> f.seq] : f \in Out}
    <3>1. ASSUME NEW k \in D PROVE \E f \in Out : Told(k) = [due |-> f.due, seq |-> f.seq]
      BY <1>8, <1>12, <2>4
    <3>2. ASSUME NEW f \in Out PROVE \E k \in D : Told(k) = [due |-> f.due, seq |-> f.seq]
      <4>1. PICK item \in Items : Deliverable(item) /\ f = FiringOf(item)
        BY <1>8
      <4>2. PICK k \in D : q[k] = item
        BY <2>5, <4>1
      <4> QED  BY <1>12, <4>1, <4>2
    <3> HIDE DEF Told
    <3> QED  BY <3>1, <3>2
  <2>14. ASSUME NEW i \in DOMAIN drained', NEW k \in DOMAIN drained', i < k
         PROVE  Contract!Precedes(drained'[i], drained'[k])
    <3>1. e[i] \in D /\ e[k] \in D /\ e[i] < e[k]
      BY <2>6, <2>7, <2>10, <2>14
    <3> HIDE DEF Told
    <3> QED  BY <2>8, <2>10, <2>14, <3>1
  <2> HIDE DEF Told
  <2> QED  BY <2>6, <2>9, <2>11, <2>12, <2>13, <2>14
<1>18. \E out \in SUBSET {f \in Queue : ~ f.doomed} :
          /\ Queue' = {}
          /\ Armed' = {t \in Armed : \A f \in Queue : f.seq = t.seq => f \in out /\ t.every # 0}
          /\ Len(drained') = Contract!Cardinality(out)
          /\ {drained'[i] : i \in DOMAIN drained'} = {[due |-> f.due, seq |-> f.seq] : f \in out}
          /\ \A i, k \in DOMAIN drained' : i < k => Contract!Precedes(drained'[i], drained'[k])
          /\ UNCHANGED <<tick, sequence>>
  BY <1>3, <1>14, <1>15, <1>16, <1>17, SameCardinality
<1> QED  BY <1>10, <1>18, Zenon DEF Contract!Drain, Armed, Queue, TimerAt, FiringOf

-----------------------------------------------------------------------------
(* The advance: the arithmetic of repeating timers *)

LEMMA Division ==
    ASSUME NEW x \in Nat, NEW v \in Nat \ {0}
    PROVE  /\ x \div v \in Nat /\ x % v \in 0 .. v - 1
           /\ x % v = x - (x \div v) * v
<1>1. x \div v \in Nat
  OBVIOUS
<1>2. x % v \in 0 .. v - 1
  OBVIOUS
<1>3. x % v = x - (x \div v) * v
  OBVIOUS
<1> QED  BY <1>1, <1>2, <1>3

LEMMA Multiple ==
    ASSUME NEW c \in Nat, NEW v \in Nat \ {0}
    PROVE  (c * v) % v = 0 /\ c * v \in Nat
OBVIOUS

(* Different multiples of v are at least v apart. *)
LEMMA Apart ==
    ASSUME NEW a \in Nat, NEW b \in Nat, NEW v \in Nat \ {0}, a < b
    PROVE  a * v + v <= b * v
<1>1. PICK k \in Nat : b = a + 1 + k
  <2>1. b - a - 1 \in Nat /\ b = a + 1 + (b - a - 1)
    OBVIOUS
  <2> QED  BY <2>1
<1>2. b * v = a * v + v + k * v
  BY <1>1
<1>3. k * v \in Nat /\ a * v \in Nat
  OBVIOUS
<1> QED  BY <1>2, <1>3

(* The first multiple of v after x is the only one of the next v numbers. *)
LEMMA NextMultiple ==
    ASSUME NEW x \in Nat, NEW v \in Nat \ {0}
    PROVE  LET y == (x \div v + 1) * v
           IN  /\ y \in Nat /\ x < y /\ y <= x + v /\ y % v = 0
               /\ \A e \in Nat : x < e /\ e <= x + v /\ e % v = 0 => e = y
<1> DEFINE c == x \div v
           r == x % v
           y == (c + 1) * v
<1>1. c \in Nat /\ r \in 0 .. v - 1 /\ r = x - c * v
  BY Division
<1> HIDE DEF c, r
<1>2. y \in Nat /\ y % v = 0
  <2>1. c + 1 \in Nat
    BY <1>1
  <2> DEFINE d == c + 1
  <2> HIDE DEF d
  <2>2. (d * v) % v = 0 /\ d * v \in Nat
    BY <2>1, Multiple DEF d
  <2> QED  BY <2>2 DEF d
<1>3. y = c * v + v /\ c * v \in Nat
  BY <1>1
<1> DEFINE p == c * v
<1> HIDE DEF y, p
<1>4. x < y /\ y <= x + v
  BY <1>1, <1>3 DEF p
<1>5. ASSUME NEW e \in Nat, x < e, e <= x + v, e % v = 0 PROVE e = y
  <2> DEFINE m == e \div v
  <2>1. m \in Nat /\ e = m * v
    <3>1. m \in Nat /\ e % v = e - m * v
      BY Division
    <3> HIDE DEF m
    <3>2. m * v \in Nat
      BY <3>1
    <3> QED  BY <1>5, <3>1, <3>2
  <2> HIDE DEF m
  <2>2. ~ (m < c + 1)
    <3> SUFFICES ASSUME m < c + 1 PROVE FALSE
      OBVIOUS
    <3>1. m * v <= c * v
      <4>1. CASE m = c
        BY <4>1, <1>3
      <4>2. CASE m < c
        <5>1. m * v + v <= c * v
          BY <1>1, <2>1, <4>2, Apart
        <5> QED  BY <1>3, <2>1, <5>1
      <4> QED  BY <1>1, <2>1, <4>1, <4>2
    <3> QED  BY <1>1, <1>3, <1>5, <2>1, <3>1
  <2>3. ~ (c + 1 < m)
    <3> SUFFICES ASSUME c + 1 < m PROVE FALSE
      OBVIOUS
    <3>1. y + v <= e
      <4>1. c + 1 \in Nat
        BY <1>1
      <4> DEFINE d == c + 1
      <4> HIDE DEF d
      <4>2. d * v + v <= m * v
        BY <2>1, <4>1, Apart DEF d
      <4> QED  BY <2>1, <4>2 DEF d, y
    <3> QED  BY <1>1, <1>2, <1>3, <1>5, <3>1
  <2>4. m = c + 1
    BY <1>1, <2>1, <2>2, <2>3
  <2> QED  BY <2>1, <2>4 DEF y
<1>6. y \in Nat /\ x < y /\ y <= x + v /\ y % v = 0 /\ \A e \in Nat : x < e /\ e <= x + v /\ e % v = 0 => e = y
  BY <1>2, <1>4, <1>5
<1> QED  BY <1>6 DEF y, c

(* The tick at which a repeating timer fires after to. *)
LEMMA NextDueIsOnly ==
    ASSUME NEW r, NEW to \in Nat, r.due \in Nat, r.due <= to, r.interval \in Nat \ {0}
    PROVE  /\ NextDue(r, to) \in to + 1 .. to + r.interval /\ (NextDue(r, to) - r.due) % r.interval = 0
           /\ \A d \in to + 1 .. to + r.interval : (d - r.due) % r.interval = 0 => d = NextDue(r, to)
<1> SUFFICES ASSUME NEW a \in Nat, a = r.due, a <= to, NEW v \in Nat \ {0}, v = r.interval
             PROVE  /\ NextDue(r, to) \in to + 1 .. to + v /\ (NextDue(r, to) - a) % v = 0
                    /\ \A d \in to + 1 .. to + v : (d - a) % v = 0 => d = NextDue(r, to)
  OBVIOUS
<1> DEFINE x == to - a
           y == (x \div v + 1) * v
<1>1. x \in Nat
  OBVIOUS
<1>2. NextDue(r, to) = a + y
  BY DEF NextDue
<1>3. /\ y \in Nat /\ x < y /\ y <= x + v /\ y % v = 0
      /\ \A e \in Nat : x < e /\ e <= x + v /\ e % v = 0 => e = y
  <2> HIDE DEF x
  <2> QED  BY <1>1, NextMultiple
<1> HIDE DEF y
<1>4. a + y \in to + 1 .. to + v /\ (a + y) - a = y
  BY <1>3
<1>5. ASSUME NEW d \in to + 1 .. to + v, (d - a) % v = 0 PROVE d = a + y
  <2> DEFINE e == d - a
  <2>1. e \in Nat /\ x < e /\ e <= x + v /\ d = a + e
    OBVIOUS
  <2>2. e % v = 0
    BY <1>5
  <2> HIDE DEF e
  <2>3. e = y
    BY <1>3, <2>1, <2>2
  <2> QED  BY <2>1, <2>3
<1> QED  BY <1>2, <1>3, <1>4, <1>5

-----------------------------------------------------------------------------
(* The advance: what the contract makes of it *)

(* A timer of the contract, and what one step of it is. *)
Known(x, y, v, b) == [seq |-> x, due |-> y, every |-> v, queued |-> b]
KnownFired(x, y, v) == [seq |-> x, due |-> y, every |-> v, queued |-> TRUE]
AtQueued(t) == [t EXCEPT !.queued = TRUE]
AtDue(t, w) == [t EXCEPT !.due = w]

LEMMA DueSet ==
    ASSUME NEW x, NEW y, NEW v, NEW b, NEW w
    PROVE  AtDue(Known(x, y, v, b), w) = Known(x, w, v, b)
BY DEF AtDue, Known

LEMMA QueuedSet ==
    ASSUME NEW x, NEW y, NEW v, NEW b
    PROVE  AtQueued(Known(x, y, v, b)) = KnownFired(x, y, v)
<1>1. ASSUME NEW w PROVE [Known(x, y, v, b) EXCEPT !.queued = w] = Known(x, y, v, w)
  BY DEF Known
<1> QED  BY <1>1, Zenon DEF AtQueued, Known, KnownFired

(* A timer that fired, as the contract knows it after the advance. *)
MovedAt(i, to) ==
    LET m == Moved(i, to).record
    IN  [seq |-> m.seq, due |-> m.due, every |-> m.interval, queued |-> m.queued]

LEMMA LaterIs ==
    ASSUME IInv, NEW to \in 1 .. MaxTick, NEW i \in Firing(to)
    PROVE  Contract!Later(TimerAt(i), to) = IF Exhausted(i, to) THEN {} ELSE {MovedAt(i, to)}
<1> SUFFICES ASSUME NEW r, r = timers[i].record, NEW t, t = TimerAt(i),
                    NEW n, n = NextDue(r, to), NEW v, v = r.interval
             PROVE  Contract!Later(t, to) = IF Exhausted(i, to) THEN {} ELSE {MovedAt(i, to)}
  OBVIOUS
<1>1. Types /\ TimersStand
  BY DEF IInv
<1>2. r \in Records /\ r.due <= to
  BY <1>1, FiringFacts
<1>3. t = [seq |-> r.seq, due |-> r.due, every |-> r.interval, queued |-> r.queued]
  BY DEF TimerAt
<1>4. t.due = r.due /\ t.every = r.interval
  BY <1>3
<1>5. ASSUME ~ Exhausted(i, to)
      PROVE  /\ r.interval = OneShot =>
                   MovedAt(i, to) = [seq |-> r.seq, due |-> r.due, every |-> r.interval, queued |-> TRUE]
             /\ r.interval # OneShot =>
                   MovedAt(i, to) = [seq |-> r.seq, due |-> NextDue(r, to), every |-> r.interval,
                                     queued |-> r.queued]
  <2> DEFINE m == Moved(i, to).record
  <2>1. /\ Moved(i, to) \in TimerSlots /\ m # NoTimer
        /\ m.seq = r.seq /\ m.interval = r.interval
        /\ r.interval = OneShot => m.due = r.due /\ m.queued
        /\ r.interval # OneShot => m.due = NextDue(r, to) /\ m.queued = r.queued
    BY <1>1, <1>5, MovedFacts
  <2>2. m \in Records
    BY <2>1 DEF TimerSlots
  <2>3. MovedAt(i, to) = [seq |-> m.seq, due |-> m.due, every |-> m.interval, queued |-> m.queued]
    BY DEF MovedAt
  <2> HIDE DEF m
  <2>4. m.queued \in BOOLEAN
    BY <2>2 DEF Records
  <2>5. ASSUME r.interval = OneShot
        PROVE  MovedAt(i, to) = [seq |-> r.seq, due |-> r.due, every |-> r.interval, queued |-> TRUE]
    <3>1. m.queued = TRUE
      BY <2>1, <2>4, <2>5, Zenon
    <3> QED  BY <2>1, <2>3, <2>5, <3>1, Zenon
  <2>6. ASSUME r.interval # OneShot
        PROVE  MovedAt(i, to) = [seq |-> r.seq, due |-> NextDue(r, to), every |-> r.interval,
                                 queued |-> r.queued]
    <3> QED  BY <2>1, <2>3, <2>6, Zenon
  <2> QED  BY <2>5, <2>6
<1>6. CASE r.interval = OneShot
  <2>1. ~ Exhausted(i, to)
    BY <1>6 DEF Exhausted
  <2>2. Contract!Later(t, to) = {[t EXCEPT !.queued = TRUE]}
    BY <1>4, <1>6 DEF Contract!Later, OneShot
  <2>3. [t EXCEPT !.queued = TRUE] = [seq |-> r.seq, due |-> r.due, every |-> r.interval, queued |-> TRUE]
    <3>1. t = Known(r.seq, r.due, r.interval, r.queued)
      BY <1>3, Zenon DEF Known
    <3>2. AtQueued(t) = KnownFired(r.seq, r.due, r.interval)
      <4>1. AtQueued(Known(r.seq, r.due, r.interval, r.queued)) = KnownFired(r.seq, r.due, r.interval)
        BY ONLY QueuedSet, Zenon
      <4> QED  BY <3>1, <4>1, Zenon
    <3> QED  BY <3>2, Zenon DEF AtQueued, KnownFired
  <2>4. MovedAt(i, to) = [seq |-> r.seq, due |-> r.due, every |-> r.interval, queued |-> TRUE]
    BY <1>5, <1>6, <2>1
  <2> QED  BY <2>1, <2>2, <2>3, <2>4, Zenon
<1>7. CASE r.interval # OneShot
  <2> DEFINE Ds == {d \in to + 1 .. to + t.every : d <= MaxTick /\ (d - t.due) % t.every = 0}
  <2>1. Contract!Later(t, to) = {[t EXCEPT !.due = d] : d \in Ds}
    BY <1>4, <1>7 DEF Contract!Later, OneShot
  <2>2. v \in Nat \ {0} /\ r.due \in Nat /\ to \in Nat
    BY <1>2, <1>7, Limits DEF Records, OneShot
  <2>3. /\ n \in to + 1 .. to + v /\ (n - r.due) % v = 0
        /\ \A d \in to + 1 .. to + v : (d - r.due) % v = 0 => d = n
    <3> HIDE DEF Ds
    <3>1. r.due \in Nat /\ r.interval \in Nat \ {0} /\ r.due <= to
      BY <1>2, <2>2
    <3> QED  BY <2>2, <3>1, NextDueIsOnly
  <2>4. Exhausted(i, to) <=> n > MaxTick
    BY <1>7 DEF Exhausted
  <2>5. Ds = {d \in to + 1 .. to + v : d <= MaxTick /\ (d - r.due) % v = 0}
    BY <1>4
  <2> HIDE DEF Ds
  <2>6. n > MaxTick <=> ~ (n <= MaxTick)
    BY <2>2, <2>3, Limits
  <2>7. Ds = IF Exhausted(i, to) THEN {} ELSE {n}
    BY <2>3, <2>4, <2>5, <2>6
  <2>8. CASE Exhausted(i, to)
    BY <2>1, <2>7, <2>8
  <2>9. CASE ~ Exhausted(i, to)
    <3>1. [t EXCEPT !.due = n] = [seq |-> r.seq, due |-> n, every |-> r.interval, queued |-> r.queued]
      <4>1. t = Known(r.seq, r.due, r.interval, r.queued)
        BY <1>3, Zenon DEF Known
      <4>2. AtDue(t, n) = Known(r.seq, n, r.interval, r.queued)
        <5>1. AtDue(Known(r.seq, r.due, r.interval, r.queued), n) = Known(r.seq, n, r.interval, r.queued)
          BY DueSet, SMT
        <5> QED  BY <4>1, <5>1, Zenon
      <4> QED  BY <4>2, Zenon DEF AtDue, Known
    <3>2. MovedAt(i, to) = [seq |-> r.seq, due |-> n, every |-> r.interval, queued |-> r.queued]
      BY <1>5, <1>7, <2>9
    <3>3. [t EXCEPT !.due = n] = MovedAt(i, to)
      BY <3>1, <3>2, Zenon
    <3> QED  BY <2>1, <2>7, <2>9, <3>3
  <2> QED  BY <2>8, <2>9
<1> QED  BY <1>6, <1>7

-----------------------------------------------------------------------------
(* The advance: what is owed *)

(* A firing that is owed at tick d to the timer named s. *)
OwedAt(s, d) == [seq |-> s, due |-> d, doomed |-> FALSE]

Owing(to) == {t \in Armed : Contract!Owes(t, to)}

Owed(to) == UNION {{OwedAt(t.seq, d) : d \in Contract!Ticks(t, to)} : t \in Owing(to)}

Kept(q, K) == {OwedAt(q[k].seq, q[k].due) : k \in K}

LEMMA OwedApart ==
    /\ \A s, d : OwedAt(s, d).seq = s /\ OwedAt(s, d).due = d
    /\ \A s, d, u, v : OwedAt(s, d) = OwedAt(u, v) => s = u /\ d = v
<1>1. \A s, d : OwedAt(s, d).seq = s /\ OwedAt(s, d).due = d
  BY DEF OwedAt
<1> QED  BY <1>1

(* The timers that owe something are those that fire. *)
LEMMA OwingIs ==
    ASSUME NEW to
    PROVE  /\ \A i \in Occupied : Contract!Owes(TimerAt(i), to) <=> i \in Firing(to)
           /\ \A t : t \in Owing(to) <=> \E i \in Firing(to) : t = TimerAt(i)
           /\ \A i \in Firing(to) : Contract!Ticks(TimerAt(i), to) = DueTicks(timers[i].record, to)
<1>1. ASSUME NEW i \in Occupied PROVE Contract!Owes(TimerAt(i), to) <=> i \in Firing(to)
  <2>1. /\ TimerAt(i).queued = timers[i].record.queued
        /\ TimerAt(i).due = timers[i].record.due
    BY Zenon DEF TimerAt
  <2>2. i \in Firing(to) <=> ~ timers[i].record.queued /\ timers[i].record.due <= to
    BY Zenon DEF Firing
  <2> QED  BY <2>1, <2>2, Zenon DEF Contract!Owes
<1>2. \A i \in Firing(to) : i \in Occupied
  BY DEF Firing
<1>3. ASSUME NEW i \in Firing(to) PROVE Contract!Ticks(TimerAt(i), to) = DueTicks(timers[i].record, to)
  <2>1. /\ TimerAt(i).every = timers[i].record.interval
        /\ TimerAt(i).due = timers[i].record.due
    BY DEF TimerAt
  <2> QED  BY <2>1 DEF Contract!Ticks, DueTicks, OneShot
<1> QED  BY <1>1, <1>2, <1>3 DEF Owing, Armed

(* What is owed are the firings in the order of the advance. *)
LEMMA OwedIs ==
    ASSUME IInv, Names, NEW to, NEW q, NEW K, Fires(to, q, K)
    PROVE  /\ \A f : f \in Owed(to) <=> \E k \in DOMAIN q : f = OwedAt(q[k].seq, q[k].due)
           /\ \A k, l \in DOMAIN q : q[k].seq = q[l].seq <=> q[k].index = q[l].index
           /\ \A k, l \in DOMAIN q : q[k].seq = q[l].seq /\ q[k].due = q[l].due => k = l
           /\ \A k \in DOMAIN q : \A i \in Firing(to) : q[k].seq = timers[i].record.seq <=> q[k].index = i
           /\ \A k \in K : OwedAt(q[k].seq, q[k].due) \in Kept(q, K)
           /\ \A k \in DOMAIN q : OwedAt(q[k].seq, q[k].due) \in Kept(q, K) => k \in K
<1>1. /\ \A k \in DOMAIN q :
             /\ q[k].index \in Firing(to) /\ q[k].index \in Occupied
             /\ q[k].due \in DueTicks(timers[q[k].index].record, to)
             /\ q[k].seq = timers[q[k].index].record.seq
      /\ \A k, l \in DOMAIN q : q[k].index = q[l].index /\ q[k].due = q[l].due => k = l
      /\ \A i \in Firing(to) : \A d \in DueTicks(timers[i].record, to) :
             \E k \in DOMAIN q : q[k] = FiringAt(i, d)
  BY FiringPositions
<1>2. \A i, k \in Occupied : timers[i].record.seq = timers[k].record.seq => i = k
  BY NamesTellApart DEF IInv
<1>3. \A i \in Firing(to) : i \in Occupied
  BY DEF Firing
<1>4. \A i : TimerAt(i).seq = timers[i].record.seq
  BY DEF TimerAt
<1>5. ASSUME NEW f \in Owed(to) PROVE \E k \in DOMAIN q : f = OwedAt(q[k].seq, q[k].due)
  <2>1. PICK t \in Owing(to) : \E d \in Contract!Ticks(t, to) : f = OwedAt(t.seq, d)
    BY DEF Owed
  <2>2. PICK d \in Contract!Ticks(t, to) : f = OwedAt(t.seq, d)
    BY <2>1
  <2>3. PICK i \in Firing(to) : t = TimerAt(i)
    BY OwingIs
  <2>4. d \in DueTicks(timers[i].record, to)
    BY <2>2, <2>3, OwingIs
  <2>5. PICK k \in DOMAIN q : q[k] = FiringAt(i, d)
    BY <1>1, <2>4
  <2>6. q[k].seq = timers[i].record.seq /\ q[k].due = d
    BY <2>5 DEF FiringAt
  <2> QED  BY <1>4, <2>2, <2>3, <2>6
<1>6. ASSUME NEW k \in DOMAIN q PROVE OwedAt(q[k].seq, q[k].due) \in Owed(to)
  <2> DEFINE i == q[k].index
  <2>1. i \in Firing(to) /\ q[k].due \in DueTicks(timers[i].record, to) /\ q[k].seq = timers[i].record.seq
    BY <1>1
  <2> HIDE DEF i
  <2>2. TimerAt(i) \in Owing(to) /\ q[k].due \in Contract!Ticks(TimerAt(i), to)
    BY <2>1, OwingIs
  <2>3. OwedAt(TimerAt(i).seq, q[k].due) \in Owed(to)
    BY <2>2 DEF Owed
  <2> QED  BY <1>4, <2>1, <2>3
<1>7. \A k, l \in DOMAIN q : q[k].seq = q[l].seq <=> q[k].index = q[l].index
  BY <1>1, <1>2
<1>8. \A k, l \in DOMAIN q : q[k].seq = q[l].seq /\ q[k].due = q[l].due => k = l
  BY <1>1, <1>7
<1>9. \A k \in DOMAIN q : \A i \in Firing(to) : q[k].seq = timers[i].record.seq <=> q[k].index = i
  BY <1>1, <1>2, <1>3
<1>10. \A k \in K : OwedAt(q[k].seq, q[k].due) \in Kept(q, K)
  BY DEF Kept
<1>11. ASSUME NEW k \in DOMAIN q, OwedAt(q[k].seq, q[k].due) \in Kept(q, K) PROVE k \in K
  <2>1. PICK l \in K : OwedAt(q[k].seq, q[k].due) = OwedAt(q[l].seq, q[l].due)
    BY <1>11 DEF Kept
  <2>2. l \in DOMAIN q
    BY DEF Fires
  <2>3. q[k].seq = q[l].seq /\ q[k].due = q[l].due
    BY <2>1, OwedApart
  <2> QED  BY <1>8, <2>2, <2>3
<1> QED  BY <1>5, <1>6, <1>7, <1>8, <1>9, <1>10, <1>11

(* What is queued for a timer is an initial part of what it is owed, and a    *)
(* timer goes when the rest finds no room.                                    *)
LEMMA KeptFirst ==
    ASSUME IInv, Names, NEW to, NEW q, NEW K, Fires(to, q, K)
    PROVE  /\ Kept(q, K) \in SUBSET Owed(to)
           /\ \A f \in Kept(q, K) : \A g \in Owed(to) :
                 g.seq = f.seq /\ g.due < f.due => g \in Kept(q, K)
           /\ \A i \in Firing(to) :
                 i \notin Away(q, K) <=> \A f \in Owed(to) : f.seq = TimerAt(i).seq => f \in Kept(q, K)
<1>1. /\ \A f : f \in Owed(to) <=> \E k \in DOMAIN q : f = OwedAt(q[k].seq, q[k].due)
      /\ \A k, l \in DOMAIN q : q[k].seq = q[l].seq <=> q[k].index = q[l].index
      /\ \A k \in DOMAIN q : \A i \in Firing(to) : q[k].seq = timers[i].record.seq <=> q[k].index = i
      /\ \A k \in K : OwedAt(q[k].seq, q[k].due) \in Kept(q, K)
      /\ \A k \in DOMAIN q : OwedAt(q[k].seq, q[k].due) \in Kept(q, K) => k \in K
  BY OwedIs
<1>2. /\ DOMAIN q = 1 .. Cardinality(Firings(to)) /\ Cardinality(Firings(to)) \in Nat
      /\ \A k \in DOMAIN q : q[k].due \in Nat
      /\ \A k, l \in DOMAIN q : k < l => Before(q[k], q[l])
  BY FiringPositions
<1>3. K \in SUBSET DOMAIN q /\ Accepts(q, K)
  BY DEF Fires
<1>4. Kept(q, K) \in SUBSET Owed(to)
  BY <1>1, <1>3 DEF Kept
<1>5. ASSUME NEW f \in Kept(q, K), NEW g \in Owed(to), g.seq = f.seq, g.due < f.due
      PROVE  g \in Kept(q, K)
  <2>1. PICK k \in K : f = OwedAt(q[k].seq, q[k].due)
    BY DEF Kept
  <2>2. PICK l \in DOMAIN q : g = OwedAt(q[l].seq, q[l].due)
    BY <1>1
  <2>3. q[l].seq = q[k].seq /\ q[l].due < q[k].due
    BY <1>5, <2>1, <2>2, OwedApart
  <2>4. k \in DOMAIN q /\ q[l].index = q[k].index
    BY <1>1, <1>3, <2>3
  <2>5. ~ (k < l) /\ k # l
    <3>1. q[k].due \in Nat /\ q[l].due \in Nat
      BY <1>2, <2>4
    <3>2. ~ Before(q[k], q[l])
      BY <2>3, <3>1 DEF Before
    <3> QED  BY <1>2, <2>3, <2>4, <3>1, <3>2
  <2>6. l \in 1 .. k - 1
    BY <1>2, <2>4, <2>5
  <2>7. l \in K
    BY <1>3, <2>4, <2>6 DEF Accepts
  <2> QED  BY <1>1, <2>2, <2>7
<1>6. ASSUME NEW i \in Firing(to), i \in Away(q, K)
      PROVE  \E f \in Owed(to) : f.seq = TimerAt(i).seq /\ f \notin Kept(q, K)
  <2>1. PICK k \in TurnedAway(q, K) : q[k].index = i
    BY <1>6 DEF Away
  <2>2. k \in DOMAIN q /\ k \notin K
    BY DEF TurnedAway
  <2>3. q[k].seq = TimerAt(i).seq
    BY <1>1, <2>1, <2>2 DEF TimerAt
  <2> QED  BY <1>1, <2>2, <2>3, OwedApart
<1>7. ASSUME NEW i \in Firing(to), i \notin Away(q, K), NEW f \in Owed(to), f.seq = TimerAt(i).seq
      PROVE  f \in Kept(q, K)
  <2>1. PICK k \in DOMAIN q : f = OwedAt(q[k].seq, q[k].due)
    BY <1>1
  <2>2. q[k].index = i
    BY <1>1, <1>7, <2>1, OwedApart DEF TimerAt
  <2>3. k \in K
    <3> SUFFICES ASSUME k \notin K PROVE FALSE
      OBVIOUS
    <3> DEFINE T == {l \in DOMAIN q : q[l].index = i /\ l \notin K}
    <3>1. T \subseteq Nat /\ T # {}
      BY <1>2, <2>2
    <3>2. PICK m \in T : \A l \in T : m <= l
      <4> HIDE DEF T
      <4> QED  BY <3>1, LeastNatural
    <3>3. ASSUME NEW l \in 1 .. m - 1, q[l].index = q[m].index PROVE l \in K
      <4>1. m \in 1 .. Cardinality(Firings(to))
        BY <1>2
      <4>2. l \in DOMAIN q /\ ~ (m <= l)
        BY <1>2, <4>1
      <4> QED  BY <3>2, <3>3, <4>2
    <3>4. m \in TurnedAway(q, K) /\ q[m].index = i
      BY <3>3 DEF TurnedAway
    <3> QED  BY <1>7, <3>4 DEF Away
  <2> QED  BY <1>1, <2>1, <2>3
<1> QED  BY <1>4, <1>5, <1>6, <1>7

(* The timers after the advance. *)
LEMMA AdvancedArmed ==
    ASSUME IInv, Names, NEW to, NEW q, NEW K, Fires(to, q, K), AdvancesTimers(to, q, K)
    PROVE  /\ NamesStay
           /\ Armed' = (Armed \ Owing(to)) \cup
                 UNION {Contract!Later(t, to) : t \in
                     {u \in Owing(to) : \A f \in Owed(to) : f.seq = u.seq => f \in Kept(q, K)}}
<1> DEFINE G == Gone(to, q, K)
           Served == {u \in Owing(to) : \A f \in Owed(to) : f.seq = u.seq => f \in Kept(q, K)}
<1>1. Types /\ TimersStand /\ to \in 1 .. MaxTick
  BY DEF IInv, Fires
<1>2. PICK s : Retires(G, s)
  BY AdvanceRetires
<1>3. /\ \A i \in Firing(to) \ G : timers'[i] = Moved(i, to) /\ ~ Exhausted(i, to)
      /\ \A i \in 1 .. Len(timers) : i \notin Firing(to) => timers'[i] = timers[i] /\ i \notin G
  BY AdvancedTimers
<1>4. \A i \in Firing(to) : i \in G <=> i \in Away(q, K) \/ Exhausted(i, to)
  BY DEF Gone, Over
<1>5. \A i \in Firing(to) : i \in Occupied
  BY DEF Firing
<1>6. \A t : t \in Served <=> \E i \in Firing(to) : t = TimerAt(i) /\ i \notin Away(q, K)
  <2>1. \A i \in Firing(to) :
           i \notin Away(q, K) <=> \A f \in Owed(to) : f.seq = TimerAt(i).seq => f \in Kept(q, K)
    BY KeptFirst
  <2>2. \A t : t \in Owing(to) <=> \E i \in Firing(to) : t = TimerAt(i)
    BY OwingIs
  <2> QED  BY <2>1, <2>2
<1> HIDE DEF G, Served
<1>7. Occupied' = Occupied \ G
  BY <1>1, <1>2, RetiresOccupied
<1>8. \A i \in Occupied : i \in 1 .. Len(timers)
  BY <1>1, TimersTyped
<1>9. NamesStay
  <2>1. ASSUME NEW i \in Occupied'
        PROVE  /\ i \in Occupied
               /\ timers'[i].generation = timers[i].generation
               /\ timers'[i].record.seq = timers[i].record.seq
               /\ timers'[i].record.scope = timers[i].record.scope
    <3>1. i \in Occupied /\ i \notin G /\ i \in 1 .. Len(timers)
      BY <1>7, <1>8
    <3> QED  BY <1>2, <3>1 DEF Retires
  <2> QED  BY <2>1 DEF NamesStay
<1>10. ASSUME NEW i \in Firing(to) \ G
       PROVE  TimerAt(i)' = MovedAt(i, to)
  <2>1. timers'[i].record = Moved(i, to).record
    BY <1>3
  <2>2. TimerAt(i)' = [seq |-> timers'[i].record.seq, due |-> timers'[i].record.due,
                       every |-> timers'[i].record.interval, queued |-> timers'[i].record.queued]
    BY Zenon DEF TimerAt
  <2>3. MovedAt(i, to) = [seq |-> Moved(i, to).record.seq, due |-> Moved(i, to).record.due,
                          every |-> Moved(i, to).record.interval, queued |-> Moved(i, to).record.queued]
    BY Zenon DEF MovedAt
  <2> QED  BY <2>1, <2>2, <2>3, Zenon
<1>11. ASSUME NEW i \in Occupied, i \notin Firing(to)
       PROVE  TimerAt(i)' = TimerAt(i) /\ i \in Occupied' /\ TimerAt(i) \notin Owing(to)
  <2>1. timers'[i] = timers[i] /\ i \notin G
    BY <1>3, <1>8, <1>11
  <2>2. TimerAt(i)' = TimerAt(i)
    BY <2>1, Zenon DEF TimerAt
  <2>3. TimerAt(i) \notin Owing(to)
    BY <1>11, OwingIs DEF Owing
  <2> QED  BY <1>7, <2>1, <2>2, <2>3
<1>12. \A i \in Firing(to) :
          Contract!Later(TimerAt(i), to) = IF Exhausted(i, to) THEN {} ELSE {MovedAt(i, to)}
  BY <1>1, LaterIs
<1>13. Armed' = {TimerAt(i)' : i \in Occupied'}
  BY DEF Armed, TimerAt
<1>14. ASSUME NEW i \in Occupied'
       PROVE  \/ TimerAt(i)' \in Armed \ Owing(to)
              \/ \E t \in Served : TimerAt(i)' \in Contract!Later(t, to)
  <2>1. i \in Occupied /\ i \notin G
    BY <1>7
  <2>2. CASE i \in Firing(to)
    <3>1. TimerAt(i)' = MovedAt(i, to) /\ ~ Exhausted(i, to) /\ i \notin Away(q, K)
      BY <1>4, <1>10, <2>1, <2>2
    <3>2. TimerAt(i) \in Served
      BY <1>6, <2>2, <3>1
    <3>3. TimerAt(i)' \in Contract!Later(TimerAt(i), to)
      BY <1>12, <2>2, <3>1
    <3> QED  BY <3>2, <3>3
  <2>3. CASE i \notin Firing(to)
    BY <1>11, <2>1, <2>3 DEF Armed
  <2> QED  BY <2>2, <2>3
<1>15. ASSUME NEW t \in Armed \ Owing(to) PROVE t \in Armed'
  <2>1. PICK i \in Occupied : t = TimerAt(i)
    BY DEF Armed
  <2>2. i \notin Firing(to)
    BY <1>15, <2>1, OwingIs
  <2> QED  BY <1>11, <1>13, <2>1, <2>2
<1>16. ASSUME NEW t \in Served, NEW x \in Contract!Later(t, to) PROVE x \in Armed'
  <2>1. PICK i \in Firing(to) : t = TimerAt(i) /\ i \notin Away(q, K)
    BY <1>6
  <2>2. ~ Exhausted(i, to) /\ x = MovedAt(i, to)
    BY <1>12, <1>16, <2>1
  <2>3. i \in Firing(to) \ G /\ i \in Occupied'
    BY <1>4, <1>5, <1>7, <2>1, <2>2
  <2> QED  BY <1>10, <1>13, <2>2, <2>3
<1>17. Armed' = (Armed \ Owing(to)) \cup UNION {Contract!Later(t, to) : t \in Served}
  BY <1>13, <1>14, <1>15, <1>16
<1> QED  BY <1>9, <1>17 DEF Served

(* The entries after the advance. *)
LEMMA AdvancedQueue ==
    ASSUME IInv, IInv', Names, NEW to, NEW q, NEW K, NEW a,
           Fires(to, q, K), AdvancesSlots(q, K, a)
    PROVE  /\ Queue' = Queue \cup Kept(q, K)
           /\ \A p \in Places' : \/ \E r \in Places : SameTimer(ItemAt(r), ItemAt(p)')
                                 \/ \E i \in Occupied : IsOf(ItemAt(p)', i)
<1>1. /\ Places \subseteq Places'
      /\ \A p \in Places : ItemAt(p)' = ItemAt(p)
      /\ \A p \in Places' \ Places : PositionAt(a, p) \in K /\ ItemAt(p)' = Item(q[PositionAt(a, p)])
      /\ \A k \in K : \E p \in Places' \ Places : PositionAt(a, p) = k
  BY PlacesAfter
<1>2. /\ \A f : f \in Queue <=> \E p \in Places : f = FiringOf(ItemAt(p))
      /\ \A f : f \in Queue' <=> \E p \in Places' : f = FiringOf(ItemAt(p)')
  BY QueueByPlace DEF IInv
<1>3. ASSUME NEW k \in K PROVE FiringOf(Item(q[k])) = OwedAt(q[k].seq, q[k].due)
  <2>1. /\ Item(q[k]).seq = q[k].seq /\ Item(q[k]).due = q[k].due
        /\ Item(q[k]).valid = TRUE
    BY Zenon DEF Item
  <2>2. FiringOf(Item(q[k])) = [seq |-> q[k].seq, due |-> q[k].due, doomed |-> ~ TRUE]
    BY <2>1, Zenon DEF FiringOf
  <2>3. (~ TRUE) = FALSE
    OBVIOUS
  <2> QED  BY <2>2, <2>3, Zenon DEF OwedAt
<1>4. ASSUME NEW k \in K PROVE q[k].index \in Occupied /\ IsOf(Item(q[k]), q[k].index)
  <2>1. k \in DOMAIN q
    BY DEF Fires
  <2>2. /\ q[k].index \in Occupied
        /\ q[k].generation = timers[q[k].index].generation
        /\ q[k].seq = timers[q[k].index].record.seq
    BY <2>1, FiringPositions
  <2>3. /\ Item(q[k]).index = q[k].index /\ Item(q[k]).generation = q[k].generation
        /\ Item(q[k]).seq = q[k].seq /\ Item(q[k]).scope = timers[q[k].index].record.scope
    BY DEF Item
  <2> QED  BY <2>2, <2>3 DEF IsOf
<1>5. Queue' = Queue \cup Kept(q, K)
  <2>1. ASSUME NEW f \in Queue' PROVE f \in Queue \cup Kept(q, K)
    <3>1. PICK p \in Places' : f = FiringOf(ItemAt(p)')
      BY <1>2
    <3>2. CASE p \in Places
      BY <1>1, <1>2, <3>1, <3>2
    <3>3. CASE p \notin Places
      BY <1>1, <1>3, <3>1, <3>3 DEF Kept
    <3> QED  BY <3>2, <3>3
  <2>2. ASSUME NEW f \in Queue PROVE f \in Queue'
    BY <1>1, <1>2
  <2>3. ASSUME NEW f \in Kept(q, K) PROVE f \in Queue'
    <3>1. PICK k \in K : f = OwedAt(q[k].seq, q[k].due)
      BY DEF Kept
    <3>2. PICK p \in Places' \ Places : PositionAt(a, p) = k
      BY <1>1
    <3>3. ItemAt(p)' = Item(q[k])
      BY <1>1, <3>2
    <3> QED  BY <1>2, <1>3, <3>1, <3>2, <3>3
  <2> QED  BY <2>1, <2>2, <2>3
<1>6. ASSUME NEW p \in Places'
      PROVE  \/ \E r \in Places : SameTimer(ItemAt(r), ItemAt(p)')
             \/ \E i \in Occupied : IsOf(ItemAt(p)', i)
  <2>1. CASE p \in Places
    BY <1>1, <2>1 DEF SameTimer
  <2>2. CASE p \notin Places
    BY <1>1, <1>4, <2>2
  <2> QED  BY <2>1, <2>2
<1> QED  BY <1>5, <1>6

LEMMA AdvanceRefines ==
    ASSUME IInv, Names, NEW to \in 1 .. MaxTick, Advance(to)
    PROVE  Names' /\ Contract!Advance
<1>1. /\ \E q, K, a : Fires(to, q, K) /\ AdvancesTimers(to, q, K) /\ AdvancesSlots(q, K, a)
      /\ tick' = to /\ UNCHANGED <<sequence, host>>
  BY AdvanceParts
<1>2. PICK q, K, a : Fires(to, q, K) /\ AdvancesTimers(to, q, K) /\ AdvancesSlots(q, K, a)
  BY <1>1
<1>3. IInv'
  BY AdvanceKeeps
<1>4. UNCHANGED <<issued, drained>>
  BY <1>1 DEF host
<1>5. /\ Queue' = Queue \cup Kept(q, K)
      /\ \A p \in Places' : \/ \E r \in Places : SameTimer(ItemAt(r), ItemAt(p)')
                            \/ \E i \in Occupied : IsOf(ItemAt(p)', i)
  BY <1>2, <1>3, AdvancedQueue
<1>6. /\ NamesStay
      /\ Armed' = (Armed \ Owing(to)) \cup
            UNION {Contract!Later(t, to) : t \in
                {u \in Owing(to) : \A f \in Owed(to) : f.seq = u.seq => f \in Kept(q, K)}}
  BY <1>2, AdvancedArmed
<1>7. Names'
  BY <1>1, <1>4, <1>5, <1>6, NamesKeep
<1>8. /\ Kept(q, K) \in SUBSET Owed(to)
      /\ \A f \in Kept(q, K) : \A g \in Owed(to) :
            g.seq = f.seq /\ g.due < f.due => g \in Kept(q, K)
  BY <1>2, KeptFirst
<1>9. to \in tick + 1 .. MaxTick
  <2>1. tick \in 0 .. MaxTick /\ to > tick
    BY <1>2 DEF IInv, Types, Fires
  <2> QED  BY <2>1, Limits
<1>10. \E kept \in SUBSET Owed(to) :
          /\ \A f \in kept : \A g \in Owed(to) : g.seq = f.seq /\ g.due < f.due => g \in kept
          /\ Queue' = Queue \cup kept
          /\ Armed' = (Armed \ Owing(to)) \cup
                UNION {Contract!Later(t, to) : t \in
                    {u \in Owing(to) : \A f \in Owed(to) : f.seq = u.seq => f \in kept}}
          /\ tick' = to
          /\ UNCHANGED <<sequence, drained>>
  BY <1>1, <1>4, <1>5, <1>6, <1>8, Zenon
<1>11. \E t \in tick + 1 .. MaxTick : \E kept \in SUBSET Owed(t) :
          /\ \A f \in kept : \A g \in Owed(t) : g.seq = f.seq /\ g.due < f.due => g \in kept
          /\ Queue' = Queue \cup kept
          /\ Armed' = (Armed \ Owing(t)) \cup
                UNION {Contract!Later(u, t) : u \in
                    {u \in Owing(t) : \A f \in Owed(t) : f.seq = u.seq => f \in kept}}
          /\ tick' = t
          /\ UNCHANGED <<sequence, drained>>
  BY <1>9, <1>10, Zenon
<1> QED  BY <1>7, <1>11, Zenon DEF Contract!Advance, Owed, Owing, OwedAt, Armed, Queue, TimerAt, FiringOf

-----------------------------------------------------------------------------
(* The promise *)

LEMMA InitNames == Init => Names /\ Contract!Init
<1> SUFFICES ASSUME Init PROVE Names /\ Contract!Init
  OBVIOUS
<1>1. tick = 0 /\ sequence = 1 /\ timers = <<>> /\ slots = <<>> /\ issued = <<>> /\ drained = <<>>
  BY DEF Init
<1>2. DOMAIN timers = {} /\ DOMAIN slots = {} /\ DOMAIN issued = {}
  BY <1>1
<1>3. Occupied = {} /\ Places = {} /\ Items = {}
  BY <1>2 DEF Occupied, Places, Items
<1>4. Names
  BY <1>2, <1>3 DEF Names
<1>5. Armed = {} /\ Queue = {}
  BY <1>3 DEF Armed, Queue
<1> QED  BY <1>1, <1>4, <1>5, Zenon DEF Contract!Init, Armed, Queue, TimerAt, FiringOf

LEMMA StepRefines == IInv /\ IInv' /\ Names /\ [Next]_vars => Names' /\ Contract!Next
<1> SUFFICES ASSUME IInv, IInv', Names, [Next]_vars
             PROVE  Names' /\ (\/ Contract!Schedule \/ Contract!Withdraw
                               \/ Contract!Advance \/ Contract!Drain)
  BY Zenon DEF Contract!Next
<1>1. CASE SlotCall
  BY <1>1, SlotCallRefines
<1>2. CASE ScopeCall
  <2>1. PICK id \in Ids : TeardownScope(id) \/ DestroyScope(id) \/ \E k \in Kinds : RegisterScope(id, k)
    BY <1>2 DEF ScopeCall
  <2> QED  BY <2>1, ScopeEndRefines, RegisterScopeRefines
<1>3. CASE TimerCall
  <2>1. ASSUME NEW sc \in ScopeTokens, NEW due \in 1 .. MaxTick, NEW interval \in Intervals \cup {OneShot},
               NEW c \in 1 .. MaxSlots, Schedule(sc, due, interval, c)
        PROVE  Names' /\ Contract!Schedule
    BY <2>1, ScheduleRefines
  <2>2. ASSUME NEW h \in DOMAIN issued, Cancel(h)
        PROVE  Names' /\ Contract!Withdraw
    BY <2>2, CancelRefines
  <2> QED  BY <1>3, <2>1, <2>2 DEF TimerCall
<1>4. ASSUME NEW to \in 1 .. MaxTick, Advance(to) PROVE Names' /\ Contract!Advance
  BY <1>4, AdvanceRefines
<1>5. CASE Drain
  BY <1>5, DrainRefines
<1>6. CASE Shutdown
  BY <1>6, ShutdownRefines
<1>7. CASE UNCHANGED vars
  <2>1. UNCHANGED <<tick, sequence, timers, slots, issued, drained>>
    BY <1>7 DEF vars
  <2>2. Marks
    BY <2>1, UnmovedMarks
  <2> QED  BY <2>1, <2>2, UntouchedWithdraw
<1> QED  BY <1>1, <1>2, <1>3, <1>4, <1>5, <1>6, <1>7 DEF Next

(* The manager implements TimerContract: every tick that a live timer owes is *)
(* accounted for by the advance that crosses it, firings are delivered once   *)
(* and in order, and never after their timer was taken back.                  *)
THEOREM ContractHolds == Spec => ImplementsContract
<1>1. Init => IInv /\ Names /\ Contract!Init
  BY InitHolds, InitNames
<1>2. IInv /\ [Next]_vars => IInv'
  BY StepHolds
<1>3. IInv /\ IInv' /\ Names /\ [Next]_vars => Names' /\ [Contract!Next]_(Contract!contract)
  BY StepRefines
<1> QED  BY <1>1, <1>2, <1>3, PTL DEF Spec, ImplementsContract, Contract!Spec
=============================================================================
