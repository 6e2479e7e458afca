----------------------------- MODULE HfsmBatch ------------------------------
(***************************************************************************)
(* evaluate_batch of crates/lumio-hfsm/src/evaluate.rs: the items of a       *)
(* batch are evaluated one after the other into shared vectors, of which     *)
(* each plan names a slice; the caller's buffers are written at the end, if  *)
(* all of it fits.  A batch is a pure function: the host of HfsmMachine may  *)
(* put any to it between two of its steps.                                   *)
(*                                                                           *)
(* An item is a record [key, kind, owner, snapshot, epoch, frame, scope];    *)
(* owner is the machine key of its snapshot.  Buffers are records [items,    *)
(* paths, actions] of sequences.                                             *)
(***************************************************************************)
EXTENDS HfsmMachine

CONSTANTS
    MaxBatch,       \* HfsmLimits.max_batch
    NoSnapshot      \* an item without snapshot

(* HfsmLimits::is_valid *)
ASSUME BatchAssumption == MaxBatch \in Nat \ {0}

(* start begins a machine without snapshot with the counters of not_started. *)
Evaluate(item) ==
    IF item.snapshot = NoSnapshot
    THEN IF item.kind = "Start" THEN Start(def, NotStarted, item.epoch)
         ELSE Rejected("LifecycleViolation")
    ELSE IF item.owner # item.key THEN Rejected("MachineKeyMismatch")
    ELSE CASE item.kind = "Start" -> Start(def, item.snapshot, item.epoch)
           [] item.kind = "Stop"  -> Stop(def, item.snapshot)
           [] item.kind = "Event" -> Event(def, item.snapshot, item.frame, item.scope)

(* Action records one by one: a group of n becomes n records.                *)
Expanded(records) ==
    LET upTo[n \in 0..Len(records)] ==
            IF n = 0 THEN <<>>
            ELSE upTo[n - 1] \o [k \in 1..records[n].count |->
                    [phase |-> records[n].phase, state |-> records[n].state, seq |-> records[n].seq]]
    IN  upTo[Len(records)]

(* What the emitter has pushed for a plan, be it rejected in the end.        *)
Pushed(plan) == IF IsRejected(plan) THEN plan.path ELSE plan.next.path

RolledBack_Kept(before, after, plan) == after

(* reject truncates what the emitter has pushed. *)
RolledBack(before, after, plan) == IF IsRejected(plan) THEN before ELSE after

Header(plan) == IF IsRejected(plan) THEN NoSnapshot ELSE [plan.next EXCEPT !.path = <<>>]

(* One turn of the loop: the slices of a plan begin where the vectors end.   *)
Evaluated(scratch, plan) ==
    LET pushed == [paths |-> scratch.paths \o Pushed(plan),
                   actions |-> scratch.actions \o Expanded(plan.records)]
        kept == RolledBack([paths |-> scratch.paths, actions |-> scratch.actions], pushed, plan)
        length == IF IsRejected(plan) THEN [paths |-> 0, actions |-> 0]
                  ELSE [paths |-> Len(kept.paths) - Len(scratch.paths),
                        actions |-> Len(kept.actions) - Len(scratch.actions)]
    IN  [items |-> Append(scratch.items,
                          [outcome |-> plan.outcome, next |-> Header(plan),
                           start |-> [paths |-> Len(scratch.paths), actions |-> Len(scratch.actions)],
                           length |-> length]),
         paths |-> kept.paths,
         actions |-> kept.actions]

Cleared == [items |-> <<>>, paths |-> <<>>, actions |-> <<>>]

(* The whole batch in scratch memory, from the plans of its items.           *)
Staged(plans) ==
    LET after[n \in 0..Len(plans)] ==
            IF n = 0 THEN Cleared ELSE Evaluated(after[n - 1], plans[n])
    IN  after[Len(plans)]

KeysRepeat(items) == \E i, j \in DOMAIN items : i # j /\ items[i].key = items[j].key

Room(buffers) == <<Len(buffers.items), Len(buffers.paths), Len(buffers.actions)>>

FitsIn_ItemsOnly(required, room) == required[1] <= room[1]

FitsIn(required, room) == \A i \in 1..3 : required[i] <= room[i]

Overwritten(buffer, written) ==
    [i \in DOMAIN buffer |-> IF i \in DOMAIN written THEN written[i] ELSE buffer[i]]

(* The answer, and the caller's buffers after it: all of scratch, or nothing.*)
Delivered(scratch, out) ==
    IF ~FitsIn(Room(scratch), Room(out))
    THEN [answer |-> "BufferTooSmall", required |-> Room(scratch), out |-> out]
    ELSE [answer |-> "Ok", required |-> Room(scratch),
          out |-> [items |-> Overwritten(out.items, scratch.items),
                   paths |-> Overwritten(out.paths, scratch.paths),
                   actions |-> Overwritten(out.actions, scratch.actions)]]

Refused(answer, out) == [answer |-> answer, required |-> <<>>, out |-> out]

EvaluateBatch(items, out) ==
    IF Len(items) > MaxBatch THEN Refused("BatchTooLarge", out)
    ELSE IF KeysRepeat(items) THEN Refused("DuplicateMachineInBatch", out)
    ELSE Delivered(Staged([i \in DOMAIN items |-> Evaluate(items[i])]), out)

Slice(buffer, start, length) == SubSeq(buffer, start + 1, start + length)

(* Snapshot::from_plan: the host rebuilds the machine's snapshot.            *)
FromPlan(item, paths) ==
    [item.next EXCEPT !.path = Slice(paths, item.start.paths, item.length.paths)]

-----------------------------------------------------------------------------
(* Properties *)

(* What the host of machine 1 would ask for, and an item with the key of     *)
(* another machine, which stands for all that is refused at once.            *)
OwnItems ==
    LET item == [key |-> 1, kind |-> "Start", owner |-> 1, snapshot |-> snap, epoch |-> epoch,
                 frame |-> <<>>, scope |-> NoScope]
    IN  {[item EXCEPT !.owner = 2]} \cup
        IF snap.lifecycle # "Running" THEN {item}
        ELSE {[item EXCEPT !.kind = "Stop"]}
             \cup {[item EXCEPT !.kind = "Event", !.frame = f] : f \in [Guards -> BOOLEAN]}

(* A machine nobody started yet. *)
Fresh(key) ==
    [key |-> key, kind |-> "Start", owner |-> key, snapshot |-> NoSnapshot, epoch |-> 1,
     frame |-> <<>>, scope |-> NoScope]

Buffers(room) ==
    LET blank(n) == [i \in 1..n |-> NoSnapshot]
    IN  [items |-> blank(room[1]), paths |-> blank(room[2]), actions |-> blank(room[3])]

(* What an item is promised: the plan it would get if it were alone.         *)
AsIfAlone(item, plan, out) ==
    /\ item.outcome = plan.outcome
    /\ IF IsRejected(plan)
       THEN item.next = NoSnapshot /\ item.length = [paths |-> 0, actions |-> 0]
       ELSE /\ FromPlan(item, out.paths) = plan.next
            /\ Slice(out.actions, item.start.actions, item.length.actions) = Expanded(plan.records)

Taken(plan) == IF IsRejected(plan) THEN <<0, 0>> ELSE <<Len(plan.next.path), Size(plan)>>

(* The room a batch of two plans takes. *)
Needed(p, q) == <<2, Taken(p)[1] + Taken(q)[1], Taken(p)[2] + Taken(q)[2]>>

(* Buffers of the needed size receive all of scratch, each plan in its slice.*)
DeliversAll(scratch, plans, needed) ==
    LET full == Delivered(scratch, Buffers(needed))
    IN  /\ full.answer = "Ok" /\ full.required = needed
        /\ \A i \in 1..2 : AsIfAlone(full.out.items[i], plans[i], full.out)

(* Buffers that miss one place receive nothing. *)
RefusesTight(scratch, needed) ==
    \A k \in {j \in 1..3 : needed[j] > 0} :
        LET tight == Buffers([needed EXCEPT ![k] = @ - 1])
        IN  Delivered(scratch, tight) = [answer |-> "BufferTooSmall", required |-> needed, out |-> tight]

Itemwise(p, q) ==
    /\ DeliversAll(Staged(<<p, q>>), <<p, q>>, Needed(p, q))
    /\ RefusesTight(Staged(<<p, q>>), Needed(p, q))

(* The items of a batch do not touch each other: an item and the start that  *)
(* follows it get the plans they would get alone, also when the item is      *)
(* rejected half way (evaluate.rs:201), and nothing is delivered that belongs*)
(* to neither.  Buffers that miss one place are left as they were, and the   *)
(* sizes the refusal names are enough for the retry (evaluate.rs:106).  A    *)
(* machine that occurs twice has the batch refused.                          *)
BatchIsItemwise ==
    \A own \in OwnItems :
        /\ Itemwise(Evaluate(own), Evaluate(Fresh(2)))
        /\ 2 <= MaxBatch =>
              EvaluateBatch(<<own, own>>, Cleared).answer = "DuplicateMachineInBatch"
=============================================================================
