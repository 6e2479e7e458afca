------------------------ MODULE SpatialResourceProofs ------------------------
(***************************************************************************)
(* The safety of SpatialResource for any set of threads, and of the index    *)
(* behind it for any boxes and batches.                                      *)
(***************************************************************************)
EXTENDS SpatialService, SumLemmas

(* The closer's progress determines the flags and the index. *)
FlagsFollow ==
    /\ closer # "open" => closing
    /\ index <=> closer \notin {"taken", "destroyed"}
    /\ destroyed <=> closer = "destroyed"

(* Whoever holds the lock for an update holds it alone. *)
WritersAlone ==
    \A t, u \in Threads : t # u /\ Holds(t) /\ Holds(u) => op[t].kind = "query"

(* Only an operation of a kind holds anything. *)
HoldersHaveKinds == \A t \in Threads : op[t].at # "idle" => op[t].kind \in Kinds

IInv ==
    /\ TypeInv
    /\ FlagsFollow
    /\ WritersAlone
    /\ HoldersHaveKinds
    /\ QuiescedIsIdle
    /\ RefusalsAreTrue

LEMMA InitIInv == ASSUME Init PROVE IInv
<1>1. TypeInv /\ FlagsFollow /\ RefusalsAreTrue
  BY DEF Init, TypeInv, FlagsFollow, RefusalsAreTrue, Idle
<1>2. \A t \in Threads : op[t].at = "idle"
  BY DEF Init, Idle
<1>3. WritersAlone /\ HoldersHaveKinds /\ QuiescedIsIdle
  BY <1>2 DEF WritersAlone, HoldersHaveKinds, Holds, QuiescedIsIdle
<1> QED BY <1>1, <1>3 DEF IInv

LEMMA BeginKeeps == ASSUME IInv, NEW t \in Threads, NEW k \in Kinds, Begin(t, k) PROVE IInv'
<1>1. op' \in [Threads -> [kind : Kinds \cup {"none"}, at : {"idle", "checked", "locked", "using"}]]
      /\ \A u \in Threads \ {t} : op'[u] = op[u]
  BY DEF IInv, TypeInv, Begin
<1>2. op'[t].at = "checked" /\ op'[t].kind = k
  BY DEF IInv, TypeInv, Begin
<1>3. TypeInv' /\ FlagsFollow' /\ RefusalsAreTrue'
  BY <1>1 DEF IInv, TypeInv, Begin, FlagsFollow, RefusalsAreTrue
<1>4. WritersAlone' /\ HoldersHaveKinds' /\ QuiescedIsIdle'
  BY <1>1, <1>2 DEF IInv, Begin, WritersAlone, HoldersHaveKinds, QuiescedIsIdle, Holds
<1> QED BY <1>3, <1>4 DEF IInv

LEMMA BeginRefusedKeeps == ASSUME IInv, NEW t \in Threads, BeginRefused(t) PROVE IInv'
<1>1. TypeInv' /\ FlagsFollow'
  BY DEF IInv, TypeInv, FlagsFollow, BeginRefused, Refused
<1>2. WritersAlone' /\ HoldersHaveKinds' /\ QuiescedIsIdle'
  BY DEF IInv, BeginRefused, WritersAlone, HoldersHaveKinds, QuiescedIsIdle, Holds
<1>3. RefusalsAreTrue'
  BY DEF IInv, TypeInv, FlagsFollow, BeginRefused, LiveAtFirst, Refused, RefusalsAreTrue
<1> QED BY <1>1, <1>2, <1>3 DEF IInv

LEMMA TakeLockKeeps == ASSUME IInv, NEW t \in Threads, TakeLock(t) PROVE IInv'
<1>1. op' \in [Threads -> [kind : Kinds \cup {"none"}, at : {"idle", "checked", "locked", "using"}]]
      /\ \A u \in Threads \ {t} : op'[u] = op[u]
  BY DEF IInv, TypeInv, TakeLock, Goes
<1>2. op'[t].at = "locked" /\ op'[t].kind = op[t].kind
  BY DEF IInv, TypeInv, TakeLock, Goes
<1>3. TypeInv' /\ FlagsFollow' /\ RefusalsAreTrue'
  BY <1>1 DEF IInv, TypeInv, TakeLock, FlagsFollow, RefusalsAreTrue
<1>4. HoldersHaveKinds' /\ QuiescedIsIdle'
  BY <1>1, <1>2 DEF IInv, TakeLock, HoldersHaveKinds, QuiescedIsIdle
<1>5. ~Holds(t) /\ op[t].kind \in Kinds
  BY DEF IInv, TakeLock, HoldersHaveKinds, Holds
<1>6. \A u \in Threads \ {t} : Holds(u) => op[t].kind = "query" /\ op[u].kind = "query"
  BY <1>5 DEF IInv, TakeLock, WriterFree, LockFree, Kinds
<1>7. WritersAlone'
  BY <1>1, <1>2, <1>6 DEF IInv, WritersAlone, Holds
<1> QED BY <1>3, <1>4, <1>7 DEF IInv

LEMMA RecheckKeeps == ASSUME IInv, NEW t \in Threads, Recheck(t) PROVE IInv'
<1>1. op' \in [Threads -> [kind : Kinds \cup {"none"}, at : {"idle", "checked", "locked", "using"}]]
      /\ \A u \in Threads \ {t} : op'[u] = op[u]
  BY DEF IInv, TypeInv, Recheck, Goes, Leaves, Idle
<1>2. CASE LiveUnderLock
  <2>1. op'[t].at = "using" /\ op'[t].kind = op[t].kind /\ Holds(t)
    BY <1>2 DEF IInv, TypeInv, Recheck, Goes, Holds
  <2>2. TypeInv' /\ FlagsFollow' /\ RefusalsAreTrue'
    BY <1>1, <1>2 DEF IInv, TypeInv, Recheck, FlagsFollow, RefusalsAreTrue
  <2>3. QuiescedIsIdle'
    BY <1>2 DEF IInv, TypeInv, Recheck, FlagsFollow, LiveUnderLock, QuiescedIsIdle
  <2>4. WritersAlone' /\ HoldersHaveKinds'
    BY <1>1, <2>1 DEF IInv, WritersAlone, HoldersHaveKinds, Holds
  <2> QED BY <2>2, <2>3, <2>4 DEF IInv
<1>3. CASE ~LiveUnderLock
  <2>1. op'[t].at = "idle"
    BY <1>3 DEF IInv, TypeInv, Recheck, Leaves, Idle
  <2>2. TypeInv' /\ FlagsFollow'
    BY <1>1, <1>3 DEF IInv, TypeInv, Recheck, Leaves, Refused, FlagsFollow
  <2>3. RefusalsAreTrue'
    BY <1>3 DEF IInv, TypeInv, Recheck, Leaves, LiveUnderLock, Refused, FlagsFollow, RefusalsAreTrue
  <2>4. WritersAlone' /\ HoldersHaveKinds' /\ QuiescedIsIdle'
    BY <1>1, <2>1 DEF IInv, Recheck, WritersAlone, HoldersHaveKinds, QuiescedIsIdle, Holds
  <2> QED BY <2>2, <2>3, <2>4 DEF IInv
<1> QED BY <1>2, <1>3

LEMMA UseKeeps == ASSUME IInv, NEW t \in Threads, Use(t) PROVE IInv'
<1>1. op' \in [Threads -> [kind : Kinds \cup {"none"}, at : {"idle", "checked", "locked", "using"}]]
      /\ \A u \in Threads \ {t} : op'[u] = op[u]
  BY DEF IInv, TypeInv, Use, Leaves, Idle
<1>2. op'[t].at = "idle"
  BY DEF IInv, TypeInv, Use, Leaves, Idle
<1>3. index
  BY DEF IInv, Use, FlagsFollow, QuiescedIsIdle
<1>4. TypeInv' /\ FlagsFollow'
  BY <1>1 DEF IInv, TypeInv, Use, Leaves, FlagsFollow
<1>5. RefusalsAreTrue'
  BY <1>3 DEF IInv, TypeInv, Use, Leaves, RefusalsAreTrue
<1>6. WritersAlone' /\ HoldersHaveKinds' /\ QuiescedIsIdle'
  BY <1>1, <1>2 DEF IInv, Use, WritersAlone, HoldersHaveKinds, QuiescedIsIdle, Holds
<1> QED BY <1>4, <1>5, <1>6 DEF IInv

LEMMA CloserKeeps == ASSUME IInv, CancelRequested \/ CloserStep PROVE IInv'
<1>1. UNCHANGED <<op, answer>>
  BY DEF CancelRequested, CloserStep, Quiesce, TakeIndex, DestroyRefused, MarkDestroyed
<1>2. TypeInv' /\ FlagsFollow'
  <2>1. CASE CancelRequested
    BY <1>1, <2>1 DEF IInv, TypeInv, FlagsFollow, CancelRequested
  <2>2. CASE Quiesce
    BY <1>1, <2>2 DEF IInv, TypeInv, FlagsFollow, Quiesce
  <2>3. CASE TakeIndex
    BY <1>1, <2>3 DEF IInv, TypeInv, FlagsFollow, TakeIndex
  <2>4. CASE DestroyRefused
    BY <1>1, <2>4 DEF IInv, TypeInv, FlagsFollow, DestroyRefused
  <2>5. CASE MarkDestroyed
    BY <1>1, <2>5 DEF IInv, TypeInv, FlagsFollow, MarkDestroyed
  <2> QED BY <2>1, <2>2, <2>3, <2>4, <2>5 DEF CloserStep
<1>3. WritersAlone' /\ HoldersHaveKinds'
  BY <1>1 DEF IInv, WritersAlone, HoldersHaveKinds, Holds
<1>4. QuiescedIsIdle'
  BY <1>1 DEF IInv, QuiescedIsIdle, CancelRequested, CloserStep, Quiesce, TakeIndex,
              DestroyRefused, MarkDestroyed, LockFree, Holds
<1>5. RefusalsAreTrue'
  BY <1>1 DEF IInv, RefusalsAreTrue, FlagsFollow, CancelRequested, CloserStep, Quiesce, TakeIndex,
              DestroyRefused, MarkDestroyed
<1> QED BY <1>2, <1>3, <1>4, <1>5 DEF IInv

LEMMA StutterKeeps == ASSUME IInv, UNCHANGED vars PROVE IInv'
  BY DEF IInv, vars, TypeInv, FlagsFollow, WritersAlone, HoldersHaveKinds, Holds,
         QuiescedIsIdle, RefusalsAreTrue

(* The conjunction of the invariants with the two facts that make it        *)
(* inductive, for any number of threads.                                    *)
THEOREM Inductive == Spec => []IInv
<1>1. IInv /\ [Next]_vars => IInv'
  BY BeginKeeps, BeginRefusedKeeps, TakeLockKeeps, RecheckKeeps, UseKeeps, CloserKeeps, StutterKeeps
     DEF Next, Step
<1> QED BY <1>1, InitIInv, PTL DEF Spec

(* quiesce's answer stays true: nobody works on the index after Quiesced. *)
THEOREM QuiescedHolds == Spec => []QuiescedIsIdle
<1>1. IInv => QuiescedIsIdle
  BY DEF IInv
<1> QED BY <1>1, Inductive, PTL

(* Users find the index in place, and an update has it alone. *)
THEOREM UsersHold == Spec => []UsersHaveTheIndex
<1>1. ASSUME IInv PROVE UsersHaveTheIndex
  <2> SUFFICES ASSUME NEW t \in Threads, op[t].at = "using"
               PROVE  index /\ (op[t].kind = "upsert" => \A u \in Threads \ {t} : ~Holds(u))
    BY DEF UsersHaveTheIndex
  <2>1. index
    BY <1>1 DEF IInv, QuiescedIsIdle, FlagsFollow
  <2>2. ASSUME op[t].kind = "upsert", NEW u \in Threads \ {t}, Holds(u) PROVE FALSE
    BY <1>1, <2>2 DEF IInv, WritersAlone, Holds
  <2> QED BY <2>1, <2>2
<1> QED BY <1>1, Inductive, PTL

(* What a caller is told about close is the case. *)
THEOREM RefusalsHold == Spec => []RefusalsAreTrue
<1>1. IInv => RefusalsAreTrue
  BY DEF IInv
<1> QED BY <1>1, Inductive, PTL

-----------------------------------------------------------------------------
(* The service. *)

(* The tree that holds each object of a map once, in its box. *)
TreeOf(map) ==
    [e \in Entries |-> IF e[1] \in DOMAIN map /\ map[e[1]] = e[2] THEN 1 ELSE 0]

(* Both containers of the adapter hold what was stored. *)
IndexAgrees ==
    /\ stored \in [DOMAIN stored -> Boxes] /\ DOMAIN stored \subseteq Ids
    /\ objects = stored
    /\ tree = TreeOf(stored)
    /\ Cardinality(DOMAIN stored) <= MaxObjects

(* Required and the sizes of a batch, for a given tree. *)
RequiredIn(tr, box) == SumFunction([e \in Entries |-> IF Meets(e[2], box) THEN tr[e] ELSE 0])

SizesIn(tr, queries) == [i \in DOMAIN queries |-> RequiredIn(tr, queries[i])]

IsCurrent(tr, c) == c.started /\ c.sizes = SizesIn(tr, c.queries)

(* A batch between its passes holds the lock, and its sizes are those that    *)
(* the index has now.                                                        *)
CountsAreCurrent ==
    \A t \in Threads :
        counted[t] # NotCounted =>
            op[t] = [kind |-> "query", at |-> "using"] /\ IsCurrent(tree, counted[t])

ServiceInv ==
    /\ IInv
    /\ IndexAgrees
    /\ counted = [t \in Threads |-> counted[t]]
    /\ CountsAreCurrent
    /\ ~broken

LEMMA EntriesFinite == IsFiniteSet(Entries)
  BY ServiceAssumption, FS_Product DEF Entries

(* What a box requires is the number of objects that meet it. *)
LEMMA RequiredCounts ==
    ASSUME NEW box, IndexAgrees
    PROVE  Required(box) = Cardinality(Oracle(box))
<1> DEFINE Hits == {e \in Entries : e[1] \in Oracle(box) /\ stored[e[1]] = e[2]}
           Hit == [id \in Oracle(box) |-> <<id, stored[id]>>]
<1>1. DOMAIN Located(box) = Entries
  BY DEF Located
<1>2. \A e \in Entries : Located(box)[e] = IF e \in Hits THEN 1 ELSE 0
  <2> SUFFICES ASSUME NEW e \in Entries
               PROVE  Located(box)[e] = IF e \in Hits THEN 1 ELSE 0
    OBVIOUS
  <2>1. Located(box)[e] = IF Meets(e[2], box) THEN tree[e] ELSE 0
    BY DEF Located
  <2>2. tree[e] = IF e[1] \in DOMAIN stored /\ stored[e[1]] = e[2] THEN 1 ELSE 0
    BY DEF IndexAgrees, TreeOf
  <2> QED  BY <2>1, <2>2 DEF Oracle
<1>3. Required(box) = Cardinality(Hits)
  <2>1. Hits \in SUBSET Entries
    OBVIOUS
  <2> HIDE DEF Hits
  <2>2. SumFunctionOnSet(Located(box), Entries) = Cardinality(Hits)
    BY <1>2, <2>1, EntriesFinite, SumCounts
  <2> QED  BY <1>1, <2>2 DEF Required, SumFunction
<1>4. Oracle(box) \subseteq Ids /\ IsFiniteSet(Oracle(box))
  <2>1. Oracle(box) \subseteq Ids
    BY DEF Oracle, IndexAgrees
  <2> QED  BY <2>1, ServiceAssumption, FS_Subset
<1>5. Hit \in Bijection(Oracle(box), Hits)
  <2>1. \A id \in Oracle(box) : stored[id] \in Boxes
    BY DEF Oracle, IndexAgrees
  <2>2. Hit \in [Oracle(box) -> Hits]
    BY <1>4, <2>1 DEF Entries
  <2>3. \A a, b \in Oracle(box) : Hit[a] = Hit[b] => a = b
    OBVIOUS
  <2>4. \A e \in Hits : \E id \in Oracle(box) : Hit[id] = e
    BY DEF Entries
  <2>5. IsInjective(Hit)
    BY <2>3 DEF IsInjective
  <2> HIDE DEF Hit, Hits
  <2> QED  BY <2>2, <2>4, <2>5 DEF Bijection, Injection, Surjection
<1>6. Cardinality(Hits) = Cardinality(Oracle(box))
  <2>1. ExistsBijection(Oracle(box), Hits)
    BY <1>5, Zenon DEF ExistsBijection
  <2> HIDE DEF Hits
  <2> QED  BY <2>1, <1>4, FS_Bijection
<1> QED  BY <1>3, <1>6

LEMMA ServiceInitInv == ASSUME ServiceInit PROVE ServiceInv
<1>1. IInv
  BY InitIInv DEF ServiceInit
<1>2. DOMAIN stored = {} /\ objects = stored
  BY DEF ServiceInit
<1>3. tree = TreeOf(stored)
  BY <1>2 DEF ServiceInit, TreeOf
<1>4. IndexAgrees
  <2>1. stored \in [DOMAIN stored -> Boxes] /\ DOMAIN stored \subseteq Ids
    BY <1>2 DEF ServiceInit
  <2>2. Cardinality(DOMAIN stored) <= MaxObjects
    BY <1>2, FS_EmptySet, ServiceAssumption
  <2> QED  BY <1>2, <1>3, <2>1, <2>2 DEF IndexAgrees
<1>5. counted = [t \in Threads |-> counted[t]] /\ CountsAreCurrent /\ ~broken
  BY DEF ServiceInit, CountsAreCurrent
<1> QED  BY <1>1, <1>4, <1>5 DEF ServiceInv

(* The map and the tree after an accepted upsert. *)
LEMMA UpsertAgrees ==
    ASSUME ServiceInv, NEW t \in Threads, NEW id \in Ids, NEW box \in Boxes,
           HasRoom(id), tree' = Replaced(id, box), objects' = With(objects, id, box),
           stored' = With(stored, id, box)
    PROVE  IndexAgrees'
<1>1. IndexAgrees
  BY DEF ServiceInv
<1>2. objects' = stored' /\ DOMAIN stored' = DOMAIN stored \cup {id}
      /\ stored'[id] = box /\ \A k \in DOMAIN stored \ {id} : stored'[k] = stored[k]
  BY <1>1 DEF IndexAgrees, With
<1>3. stored' \in [DOMAIN stored' -> Boxes] /\ DOMAIN stored' \subseteq Ids
  BY <1>1 DEF IndexAgrees, With
<1>4. tree' = TreeOf(stored')
  <2> DEFINE cleared == IF id \in DOMAIN objects THEN [tree EXCEPT ![<<id, objects[id]>>] = @ - 1]
                        ELSE tree
  <2>1. tree' = [cleared EXCEPT ![<<id, box>>] = @ + 1]
    BY DEF Replaced
  <2>2. tree = [e \in Entries |-> tree[e]]
        /\ \A e \in Entries : tree[e] = IF e[1] \in DOMAIN stored /\ stored[e[1]] = e[2] THEN 1 ELSE 0
    BY <1>1 DEF IndexAgrees, TreeOf
  <2>3. cleared = [e \in Entries |-> IF e[1] = id THEN 0 ELSE tree[e]]
    <3>1. CASE id \in DOMAIN objects
      <4>1. <<id, objects[id]>> \in Entries /\ tree[<<id, objects[id]>>] = 1
        BY <1>1, <2>2, <3>1 DEF IndexAgrees, Entries
      <4>2. \A e \in Entries : e[1] = id /\ e # <<id, objects[id]>> => tree[e] = 0
        BY <1>1, <2>2 DEF IndexAgrees, Entries
      <4>3. \A e \in Entries : e[1] # id => e # <<id, objects[id]>>
        OBVIOUS
      <4> QED  BY <2>2, <3>1, <4>1, <4>2, <4>3
    <3>2. CASE id \notin DOMAIN objects
      <4>1. \A e \in Entries : e[1] = id => tree[e] = 0
        BY <1>1, <2>2, <3>2 DEF IndexAgrees
      <4> QED  BY <2>2, <3>2, <4>1
    <3> QED  BY <3>1, <3>2
  <2> HIDE DEF cleared
  <2>4. <<id, box>> \in Entries
    BY DEF Entries
  <2>5. tree' = [e \in Entries |-> IF e = <<id, box>> THEN 1 ELSE IF e[1] = id THEN 0 ELSE tree[e]]
    BY <2>1, <2>3, <2>4
  <2>6. \A e \in Entries : (IF e = <<id, box>> THEN 1 ELSE IF e[1] = id THEN 0 ELSE tree[e])
                             = IF e[1] \in DOMAIN stored' /\ stored'[e[1]] = e[2] THEN 1 ELSE 0
    <3> SUFFICES ASSUME NEW e \in Entries
                 PROVE  (IF e = <<id, box>> THEN 1 ELSE IF e[1] = id THEN 0 ELSE tree[e])
                             = IF e[1] \in DOMAIN stored' /\ stored'[e[1]] = e[2] THEN 1 ELSE 0
      OBVIOUS
    <3>1. CASE e[1] = id
      <4>1. e = <<id, box>> <=> box = e[2]
        BY <3>1 DEF Entries
      <4> QED  BY <1>2, <3>1, <4>1
    <3>2. CASE e[1] # id
      BY <1>2, <2>2, <3>2
    <3> QED  BY <3>1, <3>2
  <2> QED  BY <2>5, <2>6 DEF TreeOf
<1>5. Cardinality(DOMAIN stored') <= MaxObjects
  <2>1. IsFiniteSet(DOMAIN stored)
    BY <1>1, ServiceAssumption, FS_Subset DEF IndexAgrees
  <2>2. Cardinality(DOMAIN stored) \in Nat /\ MaxObjects \in Nat
    BY <2>1, FS_CardinalityType, ServiceAssumption
  <2>3. CASE id \in DOMAIN stored
    <3>1. DOMAIN stored' = DOMAIN stored
      BY <1>2, <2>3
    <3> QED  BY <3>1, <1>1 DEF IndexAgrees
  <2>4. CASE id \notin DOMAIN stored
    <3>1. Cardinality(DOMAIN stored) < MaxObjects
      BY <1>1, <2>4 DEF HasRoom, IndexAgrees
    <3>2. Cardinality(DOMAIN stored') = Cardinality(DOMAIN stored) + 1
      BY <1>2, <2>1, <2>4, FS_AddElement
    <3> QED  BY <2>2, <3>1, <3>2
  <2> QED  BY <2>3, <2>4
<1> QED  BY <1>2, <1>3, <1>4, <1>5 DEF IndexAgrees

(* A stored entry is in the tree, so that an update never misses it. *)
LEMMA OldIsThere ==
    ASSUME ServiceInv, NEW id \in Ids PROVE ~OldIsMissing(id)
<1> SUFFICES ASSUME id \in DOMAIN objects PROVE tree[<<id, objects[id]>>] = 1
  BY DEF OldIsMissing
<1>1. <<id, objects[id]>> \in Entries
  BY DEF ServiceInv, IndexAgrees, Entries
<1> QED  BY <1>1 DEF ServiceInv, IndexAgrees, TreeOf

(* A step that leaves the index alone keeps the sizes current. *)
LEMMA CountsStay ==
    ASSUME CountsAreCurrent, UNCHANGED tree,
           \A u \in Threads : \/ op'[u] = op[u] /\ counted'[u] = counted[u]
                             \/ counted'[u] = NotCounted
    PROVE  CountsAreCurrent'
  BY DEF CountsAreCurrent

LEMMA RequiredHere == \A box : Required(box) = RequiredIn(tree, box)
  BY Zenon DEF Required, Located, RequiredIn

(* Whoever may update is alone with the index: no batch is between its passes.*)
LEMMA NobodyCounts ==
    ASSUME ServiceInv, NEW t \in Threads, op[t].kind = "upsert", op[t].at = "using"
    PROVE  \A u \in Threads : counted[u] = NotCounted
<1> SUFFICES ASSUME NEW u \in Threads, counted[u] # NotCounted PROVE FALSE
  OBVIOUS
<1>1. op[u].kind = "query" /\ op[u].at = "using"
  BY DEF ServiceInv, CountsAreCurrent
<1>2. u # t /\ Holds(u) /\ Holds(t)
  BY <1>1 DEF Holds
<1> QED  BY <1>2 DEF ServiceInv, IInv, WritersAlone

LEMMA UpsertKeepsService ==
    ASSUME ServiceInv, NEW t \in Threads, NEW id \in Ids, NEW box \in Boxes, Upsert(t, id, box)
    PROVE  ServiceInv'
<1>1. IInv'
  BY UseKeeps DEF ServiceInv, Upsert
<1>2. ~broken' /\ counted' = counted
  BY OldIsThere DEF ServiceInv, Upsert
<1>3. CountsAreCurrent'
  BY <1>2, NobodyCounts DEF Upsert, Use, CountsAreCurrent
<1>4. IndexAgrees'
  <2>1. CASE UNCHANGED indexVars
    BY <2>1 DEF ServiceInv, IndexAgrees, indexVars, TreeOf, Entries
  <2>2. CASE ~UNCHANGED indexVars
    BY <2>2, UpsertAgrees DEF Upsert
  <2> QED  BY <2>1, <2>2
<1> QED  BY <1>1, <1>2, <1>3, <1>4 DEF ServiceInv

LEMMA IndexStays == ASSUME IndexAgrees, UNCHANGED indexVars PROVE IndexAgrees'
  BY DEF IndexAgrees, indexVars, TreeOf, Entries

LEMMA CountPassKeeps ==
    ASSUME ServiceInv, NEW t \in Threads, CountPass(t)
    PROVE  ServiceInv'
<1>0. op[t] = [kind |-> "query", at |-> "using"] /\ counted[t] = NotCounted
      /\ UNCHANGED <<indexVars, broken>>
  <2>1. ~counted[t].started
    BY DEF CountPass
  <2>2. counted[t] = NotCounted
    BY <2>1 DEF ServiceInv, CountsAreCurrent, IsCurrent
  <2> QED  BY <2>2, Zenon DEF CountPass
<1>1. IndexAgrees' /\ ~broken' /\ UNCHANGED tree
  BY <1>0, IndexStays DEF ServiceInv, indexVars
<1>2. CASE Use(t) /\ UNCHANGED counted
  <2>1. IInv'
    BY <1>2, UseKeeps DEF ServiceInv
  <2>2. \A u \in Threads \ {t} : op'[u] = op[u]
    BY <1>2 DEF ServiceInv, IInv, TypeInv, Use, Leaves
  <2>3. CountsAreCurrent'
    BY <1>0, <1>1, <1>2, <2>2, CountsStay DEF ServiceInv
  <2> QED  BY <1>1, <1>2, <2>1, <2>3 DEF ServiceInv
<1>3. CASE \E queries \in Batches :
             /\ counted' = [counted EXCEPT ![t] = [queries |-> queries, sizes |-> SizesIn(tree, queries),
                                                   started |-> TRUE]]
             /\ UNCHANGED vars
  <2>1. IInv'
    BY <1>3, StutterKeeps DEF ServiceInv
  <2>2. PICK queries \in Batches : counted' = [counted EXCEPT ![t] =
              [queries |-> queries, sizes |-> SizesIn(tree, queries), started |-> TRUE]]
    BY <1>3
  <2>3. op' = op
    BY <1>3 DEF vars
  <2>4. /\ counted'[t] = [queries |-> queries, sizes |-> SizesIn(tree, queries), started |-> TRUE]
        /\ counted' = [u \in Threads |-> counted'[u]]
        /\ \A u \in Threads \ {t} : counted'[u] = counted[u]
    BY <2>2 DEF ServiceInv
  <2>5. ASSUME NEW u \in Threads, counted'[u] # NotCounted
        PROVE  op'[u] = [kind |-> "query", at |-> "using"] /\ IsCurrent(tree', counted'[u])
    <3>1. CASE u = t
      BY <1>0, <1>1, <2>3, <2>4, <3>1 DEF IsCurrent
    <3>2. CASE u # t
      BY <1>1, <2>3, <2>4, <2>5, <3>2 DEF ServiceInv, CountsAreCurrent
    <3> QED  BY <3>1, <3>2
  <2>6. CountsAreCurrent'
    BY <2>5 DEF CountsAreCurrent
  <2> QED  BY <1>1, <2>1, <2>4, <2>6 DEF ServiceInv
<1>4. \A queries : [i \in DOMAIN queries |-> Required(queries[i])] = SizesIn(tree, queries)
  BY RequiredHere, Zenon DEF SizesIn
<1> QED  BY <1>2, <1>3, <1>4, Zenon DEF CountPass

LEMMA FillPassKeeps ==
    ASSUME ServiceInv, NEW t \in Threads, FillPass(t)
    PROVE  ServiceInv'
<1>1. IInv' /\ IndexAgrees' /\ UNCHANGED tree
  BY UseKeeps, IndexStays DEF ServiceInv, FillPass, indexVars
<1>2. \A u \in Threads \ {t} : op'[u] = op[u]
  BY DEF ServiceInv, IInv, TypeInv, FillPass, Use, Leaves
<1>3. counted' = [u \in Threads |-> counted'[u]] /\ counted'[t] = NotCounted
      /\ \A u \in Threads \ {t} : counted'[u] = counted[u]
  BY DEF ServiceInv, FillPass
<1>4. CountsAreCurrent'
  BY <1>1, <1>2, <1>3, CountsStay DEF ServiceInv
<1>5. ~broken'
  <2>1. counted[t].sizes = SizesIn(tree, counted[t].queries)
    BY DEF ServiceInv, CountsAreCurrent, IsCurrent, FillPass, NotCounted
  <2> QED  BY <2>1, RequiredHere DEF ServiceInv, FillPass, SizesIn
<1> QED  BY <1>1, <1>3, <1>4, <1>5 DEF ServiceInv

(* The other steps leave the index alone and no thread that counts moves.    *)
LEMMA OthersKeep ==
    ASSUME ServiceInv, UNCHANGED <<indexVars, counted, broken>>,
           \/ \E t \in Threads : \/ TakeLock(t) \/ Recheck(t) \/ BeginRefused(t)
                               \/ \E k \in Kinds : Begin(t, k)
           \/ CancelRequested \/ CloserStep
           \/ UNCHANGED vars
    PROVE  ServiceInv'
<1>1. IInv'
  BY TakeLockKeeps, RecheckKeeps, BeginRefusedKeeps, BeginKeeps, CloserKeeps, StutterKeeps
     DEF ServiceInv
<1>2. IndexAgrees' /\ ~broken' /\ counted' = [u \in Threads |-> counted'[u]] /\ UNCHANGED tree
  BY IndexStays DEF ServiceInv, indexVars
<1>3. \A u \in Threads : op[u] = [kind |-> "query", at |-> "using"] => op'[u] = op[u]
  <2> SUFFICES ASSUME NEW u \in Threads, op[u] = [kind |-> "query", at |-> "using"]
               PROVE  op'[u] = op[u]
    OBVIOUS
  <2>1. CASE CancelRequested \/ CloserStep \/ UNCHANGED vars
    BY <2>1 DEF CancelRequested, CloserStep, Quiesce, TakeIndex, DestroyRefused, MarkDestroyed, vars
  <2>2. ASSUME NEW t \in Threads, TakeLock(t) \/ Recheck(t) PROVE op'[u] = op[u]
    BY <2>2 DEF ServiceInv, IInv, TypeInv, TakeLock, Recheck, Goes, Leaves
  <2>3. ASSUME NEW t \in Threads, BeginRefused(t) \/ \E k \in Kinds : Begin(t, k)
        PROVE  op'[u] = op[u]
    BY <2>3 DEF ServiceInv, IInv, TypeInv, BeginRefused, Begin, Idle
  <2> QED  BY <2>1, <2>2, <2>3
<1>4. CountsAreCurrent'
  <2>1. \A u \in Threads : \/ op'[u] = op[u] /\ counted'[u] = counted[u]
                          \/ counted'[u] = NotCounted
    BY <1>3 DEF ServiceInv, CountsAreCurrent
  <2> QED  BY <1>2, <2>1, CountsStay DEF ServiceInv
<1> QED  BY <1>1, <1>2, <1>4 DEF ServiceInv

(* The service, over any boxes and batches, keeps the index and the batches   *)
(* between their passes in agreement, and what SpatialResource promises.      *)
THEOREM ServiceInductive == ServiceSpec => []ServiceInv
<1>1. ServiceInv /\ [ServiceNext]_serviceVars => ServiceInv'
  <2> SUFFICES ASSUME ServiceInv, [ServiceNext]_serviceVars PROVE ServiceInv'
    OBVIOUS
  <2>1. ASSUME NEW t \in Threads, Work(t) PROVE ServiceInv'
    BY <2>1, UpsertKeepsService, CountPassKeeps, FillPassKeeps DEF Work
  <2>2. CASE (\E t \in Threads : Admission(t)) \/ Calls \/ Closes
    BY <2>2, OthersKeep DEF Admission, Calls, Closes
  <2>3. CASE UNCHANGED serviceVars
    BY <2>3, OthersKeep DEF serviceVars
  <2> QED  BY <2>1, <2>2, <2>3 DEF ServiceNext
<1> QED  BY <1>1, ServiceInitInv, PTL DEF ServiceSpec

(* Whatever is stored, each box finds what the brute-force oracle finds, and  *)
(* a batch between its passes still has the sizes that it counted.            *)
THEOREM ServiceAnswers == ServiceSpec => []AnswersMatchIndex
<1>1. ASSUME ServiceInv PROVE AnswersMatchIndex
  <2>1. \A box \in Boxes :
          [e \in Entries |-> IF e[1] \in Oracle(box) /\ stored[e[1]] = e[2] THEN 1 ELSE 0]
             = Located(box)
    <3> SUFFICES ASSUME NEW box \in Boxes, NEW e \in Entries
                 PROVE  (IF e[1] \in Oracle(box) /\ stored[e[1]] = e[2] THEN 1 ELSE 0)
                           = IF Meets(e[2], box) THEN tree[e] ELSE 0
      BY DEF Located
    <3> QED  BY <1>1 DEF ServiceInv, IndexAgrees, TreeOf, Oracle
  <2>2. ASSUME NEW t \in Threads, NEW i \in DOMAIN counted[t].sizes
        PROVE  counted[t].sizes[i] = Cardinality(Oracle(counted[t].queries[i]))
    <3>1. counted[t].sizes = SizesIn(tree, counted[t].queries)
      BY <1>1 DEF ServiceInv, CountsAreCurrent, IsCurrent, NotCounted, SizesIn
    <3>2. counted[t].sizes[i] = Required(counted[t].queries[i])
      BY <2>2, <3>1, RequiredHere DEF SizesIn
    <3> QED  BY <1>1, <3>2, RequiredCounts DEF ServiceInv
  <2> QED  BY <1>1, <2>1, <2>2 DEF AnswersMatchIndex, ServiceInv, IndexAgrees
<1> QED  BY <1>1, ServiceInductive, PTL

(* Every step of the service is one of the resource, so that the theorems     *)
(* above hold of it.                                                         *)
THEOREM ServiceIsResource == ServiceSpec => Spec
<1>1. ServiceInit => Init
  BY DEF ServiceInit
<1>2. [ServiceNext]_serviceVars => [Next]_vars
  <2> SUFFICES ASSUME ServiceNext PROVE Next \/ UNCHANGED vars
    BY DEF serviceVars
  <2>1. ASSUME NEW t \in Threads, Admission(t) PROVE Next
    BY <2>1, Zenon DEF Admission, Next, Step
  <2>2. ASSUME NEW t \in Threads, Work(t) PROVE Use(t) \/ UNCHANGED vars
    BY <2>2, Zenon DEF Work, Upsert, CountPass, FillPass
  <2>3. CASE Calls \/ Closes
    BY <2>3, Zenon DEF Calls, Closes, Next
  <2>4. \A t \in Threads : Use(t) => Next
    BY Zenon DEF Next, Step
  <2> QED  BY <2>1, <2>2, <2>3, <2>4, Zenon DEF ServiceNext
<1> QED  BY <1>1, <1>2, PTL DEF ServiceSpec, Spec
=============================================================================
