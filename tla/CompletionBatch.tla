--------------------------- MODULE CompletionBatch ---------------------------
(***************************************************************************)
(* The standalone completion buffer of crates/lumio-job/src/completion.rs.   *)
(* A completion is published, drained and released.  It keeps no history:    *)
(* a window of the last releases, and the highest id ever published.  The    *)
(* mutex makes each call one step; a call that is refused changes nothing.   *)
(***************************************************************************)
EXTENDS Naturals, Sequences, FiniteSets, Functions

CONSTANT Capacity   \* completions not yet released, and releases remembered

ASSUME CapacityAssumption == Capacity \in Nat

VARIABLES
    batch,      \* the completions to drain, records [id, state]
    leases,     \* a function from the ids not released to BOOLEAN: drained
    released,   \* the recent-release window
    highWater   \* 0 for none

batchVars == <<batch, leases, released, highWater>>

BatchInit == batch = <<>> /\ leases = <<>> /\ released = <<>> /\ highWater = 0

IsNew_InWindow(id) == id \notin DOMAIN leases \cup Range(released)

(* Ids are published in their order, and each one once. *)
IsNew(id) == id > highWater

Publish(id, state) ==
    /\ state \in {"Succeeded", "Failed", "Cancelled"}
    /\ IsNew(id)
    /\ Cardinality(DOMAIN leases) < Capacity
    /\ batch' = Append(batch, [id |-> id, state |-> state])
    /\ leases' = [k \in DOMAIN leases \cup {id} |-> IF k = id THEN FALSE ELSE leases[k]]
    /\ highWater' = id
    /\ UNCHANGED released

(* The oldest n, as many as the caller has room for. *)
Drained(n) == {batch[i].id : i \in 1 .. n}

DrainBatch(n) ==
    /\ n \in 1 .. Len(batch)
    /\ batch' = SubSeq(batch, n + 1, Len(batch))
    /\ leases' = [k \in DOMAIN leases |-> leases[k] \/ k \in Drained(n)]
    /\ UNCHANGED <<released, highWater>>

MayRelease_Queued(id) == id \in DOMAIN leases

MayRelease(id) == id \in DOMAIN leases /\ leases[id]

ReleaseLease(id) ==
    /\ MayRelease(id)
    /\ leases' = Restrict(leases, DOMAIN leases \ {id})
    /\ released' = Append(IF Len(released) = Capacity THEN Tail(released) ELSE released, id)
    /\ UNCHANGED <<batch, highWater>>
=============================================================================
