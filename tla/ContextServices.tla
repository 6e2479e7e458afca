--------------------------- MODULE ContextServices ---------------------------
(***************************************************************************)
(* The small resources of a context next to each other: the registry of      *)
(* HfsmRegistry, the codec workspace of crates/lumio-codec/src/resource.rs   *)
(* and the recorder of crates/lumio-diagnostics/src.  All three answer       *)
(* quiesce with Quiesced at once, so that close meets host calls that have   *)
(* passed their check and not yet acted.  A recorder is handed to a          *)
(* DiagnosticsResource, which closes it and cannot drain it, or kept by the  *)
(* host, which can.                                                          *)
(***************************************************************************)
EXTENDS HfsmRegistry

CONSTANTS
    RecordCapacity, \* of the record queue
    MaxRecords      \* bound of the model on the records counted

ASSUME ServicesAssumption ==
    /\ IsFiniteSet(Callers)
    /\ RecordCapacity \in Nat

VARIABLES
    codec,      \* "live", "marked" by destroy, or "destroyed"
    scratch,    \* whether CodecWorkspace.scratch holds bytes
    wrapped,    \* the recorder is in a DiagnosticsResource
    closed,     \* DiagnosticsResource.closed
    records,    \* length of the record queue
    counted,    \* RecorderCounters
    popped,     \* history: records the host has drained
    refusals,   \* history: records the full queue has turned away
    late        \* history: effects after destroy, of each resource

codecVars   == <<codec, scratch>>
recordVars  == <<wrapped, closed, records, counted, popped, refusals>>
serviceVars == <<codecVars, recordVars, late>>
allVars     == <<registryVars, serviceVars>>

Resources == {"hfsm", "codec", "diagnostics"}

ServicesInit ==
    /\ RegistryInit
    /\ codec = "live" /\ scratch = FALSE
    /\ wrapped \in BOOLEAN /\ closed = FALSE
    /\ records = 0 /\ counted = [accepted |-> 0, full |-> 0] /\ popped = 0 /\ refusals = 0
    /\ late = [r \in Resources |-> 0]

(* An effect of a call on resource r, after destroy if it is over.           *)
Affects(r, over) == late' = [late EXCEPT ![r] = IF over THEN @ + 1 ELSE @]

Enters(t, call) == op[t] = NoOp /\ op' = [op EXCEPT ![t] = call]
Returns(t) == op' = [op EXCEPT ![t] = NoOp]

-----------------------------------------------------------------------------
(* CodecResource *)

MayReserve_Always == TRUE

(* ensure_live *)
MayReserve == codec = "live"

ReserveBegin(t) ==
    /\ MayReserve
    /\ Enters(t, [kind |-> "reserve"])
    /\ UNCHANGED <<closing, destroyed, definitions, closer, named, reply, serviceVars>>

(* The resize takes the lock of the scratch buffer, and looks at no flag.    *)
Reserve(t) ==
    /\ op[t].kind = "reserve"
    /\ Returns(t)
    /\ scratch' = TRUE
    /\ Affects("codec", codec = "destroyed")
    /\ UNCHANGED <<closing, destroyed, definitions, closer, named, reply, codec, recordVars>>

-----------------------------------------------------------------------------
(* DiagnosticsResource and BoundedRecorder *)

RecordBegin(t) ==
    /\ ~closed
    /\ counted.accepted + counted.full < MaxRecords
    /\ Enters(t, [kind |-> "record"])
    /\ UNCHANGED <<closing, destroyed, definitions, closer, named, reply, serviceVars>>

HasPlace_OffByOne == records <= RecordCapacity

HasPlace == records < RecordCapacity

(* try_push; the counter is a second step. *)
TryPush(t) ==
    /\ op[t].kind = "record"
    /\ op' = [op EXCEPT ![t] = [kind |-> "count", counter |-> IF HasPlace THEN "accepted" ELSE "full"]]
    /\ records' = IF HasPlace THEN records + 1 ELSE records
    /\ refusals' = IF HasPlace THEN refusals ELSE refusals + 1
    /\ Affects("diagnostics", closed /\ HasPlace)
    /\ UNCHANGED <<closing, destroyed, definitions, closer, named, reply, codecVars, wrapped, closed,
                   counted, popped>>

Count_ForgetsFull(t) ==
    /\ op[t].kind = "count"
    /\ Returns(t)
    /\ counted' = [counted EXCEPT !.accepted = IF op[t].counter = "accepted" THEN @ + 1 ELSE @]
    /\ UNCHANGED <<closing, destroyed, definitions, closer, named, reply, codecVars, wrapped, closed,
                   records, popped, refusals, late>>

Count(t) ==
    /\ op[t].kind = "count"
    /\ Returns(t)
    /\ counted' = [counted EXCEPT ![op[t].counter] = @ + 1]
    /\ UNCHANGED <<closing, destroyed, definitions, closer, named, reply, codecVars, wrapped, closed,
                   records, popped, refusals, late>>

(* A slot of drain. *)
Pop(t) ==
    /\ op[t] = NoOp
    /\ ~wrapped /\ records > 0
    /\ records' = records - 1
    /\ popped' = popped + 1
    /\ UNCHANGED <<registryVars, codecVars, wrapped, closed, counted, refusals, late>>

-----------------------------------------------------------------------------
(* close: cancel_requested of all, which only the registry listens to, then  *)
(* destroy of each, one after the other, in the order of registration.       *)

BetweenDestroys == closer \in {"cancelled", "destroyed"} /\ codec # "marked"

CodecMark ==
    /\ BetweenDestroys /\ codec = "live"
    /\ codec' = "marked"
    /\ UNCHANGED <<registryVars, scratch, recordVars, late>>

CodecClear ==
    /\ codec = "marked"
    /\ codec' = "destroyed"
    /\ scratch' = FALSE
    /\ UNCHANGED <<registryVars, recordVars, late>>

DiagnosticsDestroy ==
    /\ BetweenDestroys /\ wrapped /\ ~closed
    /\ closed' = TRUE
    /\ UNCHANGED <<registryVars, codecVars, wrapped, records, counted, popped, refusals, late>>

(* A step of the registry. *)
RegistryStep ==
    /\ RegistryNext
    /\ closer' = "destroying" => BetweenDestroys
    /\ Affects("hfsm", closer = "destroyed" /\ Occupied(definitions) # Occupied(definitions'))
    /\ UNCHANGED <<codecVars, recordVars>>

ServicesNext ==
    \/ RegistryStep
    \/ \E t \in Callers :
          ReserveBegin(t) \/ Reserve(t) \/ RecordBegin(t) \/ TryPush(t) \/ Count(t) \/ Pop(t)
    \/ CodecMark \/ CodecClear \/ DiagnosticsDestroy

ServicesSpec == ServicesInit /\ [][ServicesNext]_allVars

-----------------------------------------------------------------------------
(* Properties *)

UnderWay(kind) == Cardinality({t \in Callers : op[t].kind = kind})

(* What a resource holds after destroy comes from calls that passed their    *)
(* check before it: definitions of a create (registry.rs:103), scratch of a  *)
(* reserve (codec/src/resource.rs:66), records of a try_record (diagnostics  *)
(* resource.rs:29).  Each thread can be late once, and no more come.         *)
LateEffectsBounded ==
    LET bounded(r, kind) == late[r] + UnderWay(kind) <= Cardinality(Callers)
    IN  /\ closer = "destroyed" =>
              bounded("hfsm", "create") /\ Cardinality(Occupied(definitions)) <= late["hfsm"]
        /\ codec = "destroyed" => bounded("codec", "reserve") /\ (scratch => late["codec"] > 0)
        /\ closed => bounded("diagnostics", "record")

(* The threads between the answer of the queue and its counter.              *)
Uncounted(counter) == {t \in Callers : op[t].kind = "count" /\ op[t].counter = counter}

(* The counters of the recorder are written after the queue has answered     *)
(* (recorder.rs:64 and 68), so a reader may have drained records, or seen    *)
(* the queue full, before they are counted: by never more than the threads   *)
(* between the two, and no record or refusal is lost or counted twice.  The  *)
(* queue never holds more than its capacity.                                 *)
RecordsAccounted ==
    /\ records + popped = counted.accepted + Cardinality(Uncounted("accepted"))
    /\ refusals = counted.full + Cardinality(Uncounted("full"))
    /\ records <= RecordCapacity
=============================================================================
