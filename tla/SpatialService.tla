--------------------------- MODULE SpatialService ---------------------------
(***************************************************************************)
(* SpatialResource with the index behind its lock: the batch query of        *)
(* crates/lumio-spatial/src/query.rs over the adapter of                     *)
(* index/rstar_adapter.rs, which keeps a tree and a map of the same objects. *)
(* A query counts first, and fills the caller's buffer in a second pass that *)
(* must find what the first one counted.                                     *)
(*                                                                           *)
(* A box is the set of cells it covers, the empty set one that validate      *)
(* refuses; the vendor tree is a bag of entries <<id, box>>, and finds those *)
(* whose boxes meet the query.                                               *)
(***************************************************************************)
EXTENDS SpatialResource, Sequences, Functions

CONSTANTS
    Ids,            \* SpatialObjectId
    Boxes,          \* those that callers store
    Batches,        \* the batches of query boxes that callers present
    Rooms,          \* the lengths of the buffers they bring
    MaxObjects,     \* capacity of the adapter
    MaxQueries,     \* SpatialQueryLimits.max_queries
    MaxHits         \* SpatialQueryLimits.max_hits

(* Identifiers and coordinates are machine words. *)
ASSUME ServiceAssumption ==
    /\ IsFiniteSet(Ids) /\ IsFiniteSet(Boxes)
    /\ \A box \in Boxes : IsFiniteSet(box)
    /\ Batches \subseteq Seq(SUBSET UNION Boxes) /\ Rooms \subseteq Nat
    /\ {MaxObjects, MaxQueries, MaxHits} \subseteq Nat

VARIABLES
    tree,       \* RStarIndexAdapter.tree
    objects,    \* RStarIndexAdapter.objects, a function from ids to boxes
    counted,    \* per thread: the batch between its passes, and its sizes
    stored,     \* history: the boxes of the upserts that were accepted
    broken      \* history: InternalInvariant was answered

indexVars == <<tree, objects, stored>>
serviceVars == <<vars, indexVars, counted, broken>>

Entries == Ids \X Boxes

NotCounted == [queries |-> <<>>, sizes |-> <<>>, started |-> FALSE]

ServiceInit ==
    /\ Init
    /\ tree = [e \in Entries |-> 0]
    /\ objects = <<>>
    /\ counted = [t \in Threads |-> NotCounted]
    /\ stored = <<>>
    /\ broken = FALSE

IsValid(box) == box # {}

With(map, id, box) == [k \in DOMAIN map \cup {id} |-> IF k = id THEN box ELSE map[k]]

-----------------------------------------------------------------------------
(* upsert *)

HasRoom(id) == id \in DOMAIN objects \/ Cardinality(DOMAIN objects) < MaxObjects

Replaced_KeepsOld(id, box) == [tree EXCEPT ![<<id, box>>] = @ + 1]

(* The tree without the old entry of the object and with the new one.        *)
Replaced(id, box) ==
    LET cleared == IF id \in DOMAIN objects THEN [tree EXCEPT ![<<id, objects[id]>>] = @ - 1]
                   ELSE tree
    IN  [cleared EXCEPT ![<<id, box>>] = @ + 1]

(* The old entry is not in the tree: the map and the tree disagree.          *)
OldIsMissing(id) == id \in DOMAIN objects /\ tree[<<id, objects[id]>>] = 0

Upsert(t, id, box) ==
    /\ op[t].kind = "upsert" /\ Use(t)
    /\ IF index /\ IsValid(box) /\ HasRoom(id) /\ ~OldIsMissing(id)
       THEN /\ tree' = Replaced(id, box)
            /\ objects' = With(objects, id, box)
            /\ stored' = With(stored, id, box)
       ELSE UNCHANGED indexVars
    /\ broken' = (broken \/ (index /\ IsValid(box) /\ HasRoom(id) /\ OldIsMissing(id)))
    /\ UNCHANGED counted

-----------------------------------------------------------------------------
(* query_aabb_batch *)

Meets(box, other) == box \cap other # {}

(* How often each object comes up for a box: locate_in_envelope_intersecting.*)
Located(box) == [e \in Entries |-> IF Meets(e[2], box) THEN tree[e] ELSE 0]

Required(box) == SumFunction(Located(box))

Total(sizes) == FoldFunction(+, 0, sizes)

(* The first pass sizes every query; a batch that cannot be answered leaves  *)
(* with CapacityExceeded, BufferTooSmall or InvalidArgument.                 *)
CountPass(t) ==
    /\ op[t] = [kind |-> "query", at |-> "using"] /\ ~counted[t].started
    /\ \E queries \in Batches, room \in Rooms :
          LET sizes == [i \in DOMAIN queries |-> Required(queries[i])]
          IN  IF /\ index
                 /\ Len(queries) <= MaxQueries
                 /\ \A i \in DOMAIN queries : IsValid(queries[i])
                 /\ Total(sizes) <= MaxHits /\ Total(sizes) <= room
              THEN /\ counted' = [counted EXCEPT ![t] =
                          [queries |-> queries, sizes |-> sizes, started |-> TRUE]]
                   /\ UNCHANGED vars
              ELSE Use(t) /\ UNCHANGED counted
    /\ UNCHANGED <<indexVars, broken>>

(* The second pass must write as many hits as the first one has counted.     *)
FillPass(t) ==
    /\ counted[t].started
    /\ Use(t)
    /\ counted' = [counted EXCEPT ![t] = NotCounted]
    /\ broken' = (broken \/ \E i \in DOMAIN counted[t].sizes :
                                Required(counted[t].queries[i]) # counted[t].sizes[i])
    /\ UNCHANGED indexVars

Work(t) ==
    \/ \E id \in Ids, box \in Boxes : Upsert(t, id, box)
    \/ CountPass(t) \/ FillPass(t)

(* What the resource does without looking at the index. *)
Admission(t) ==
    /\ TakeLock(t) \/ Recheck(t)
    /\ UNCHANGED <<indexVars, counted, broken>>

Closes ==
    /\ CloserStep
    /\ UNCHANGED <<indexVars, counted, broken>>

Calls ==
    /\ CancelRequested \/ \E t \in Threads : BeginRefused(t) \/ \E k \in Kinds : Begin(t, k)
    /\ UNCHANGED <<indexVars, counted, broken>>

ServiceNext ==
    \/ \E t \in Threads : Admission(t) \/ Work(t)
    \/ Calls \/ Closes

(* An operation that has begun runs on, and a host that has begun to close   *)
(* keeps polling.                                                            *)
ServiceSpec ==
    /\ ServiceInit /\ [][ServiceNext]_serviceVars
    /\ \A t \in Threads : WF_serviceVars(Admission(t) \/ Work(t))
    /\ WF_serviceVars(Closes)

-----------------------------------------------------------------------------
(* Properties *)

(* What the brute-force oracle (index/grid_reference.rs) finds among the     *)
(* boxes that were stored.                                                   *)
Oracle(box) == {id \in DOMAIN stored : Meets(stored[id], box)}

(* Between two updates the tree finds each object once, where it was stored  *)
(* last (rstar_adapter.rs:57-66), so that a query whose passes both ran      *)
(* (query.rs:83) answers what the oracle does: no update comes between them, *)
(* and neither pass nor update ever finds the index at odds with itself.     *)
AnswersMatchIndex ==
    /\ ~broken
    /\ \A box \in Boxes :
          [e \in Entries |-> IF e[1] \in Oracle(box) /\ stored[e[1]] = e[2] THEN 1 ELSE 0]
             = Located(box)
    /\ \A t \in Threads : \A i \in DOMAIN counted[t].sizes :
          counted[t].sizes[i] = Cardinality(Oracle(counted[t].queries[i]))
    /\ Cardinality(DOMAIN stored) <= MaxObjects
=============================================================================
