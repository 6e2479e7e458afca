---------------------------- MODULE MCJobSystem ----------------------------
EXTENDS JobSystem, TLC

(* Hosts are interchangeable, and so are workers. *)
Symmetry == Permutations(Hosts) \cup Permutations(Workers)

Config(queued, live, ws) == [queue |-> queued, live |-> live, workers |-> ws]

(* Room for everything, one record, and pump mode with one place in the queue. *)
MCConfigs ==
    {Config(2, 2, Workers), Config(2, 1, Workers), Config(1, 2, {})}

(* One worker that shares its slot with a pumping host, and two with a record. *)
LiveConfigs == {Config(2, 2, {CHOOSE w \in Workers : TRUE}), Config(1, 1, Workers)}
=============================================================================
