---------------------------- MODULE HfsmEvaluate ----------------------------
(***************************************************************************)
(* The evaluator of crates/lumio-hfsm/src/evaluate.rs for one item, and the *)
(* snapshots it reads and produces.  The caller owns the snapshot; the      *)
(* evaluator is a function of the definition, the snapshot and the item.    *)
(* An activation is a record [state, seq].  A guard frame is a function     *)
(* from the guards it supplies to BOOLEAN (so none is supplied twice).      *)
(***************************************************************************)
EXTENDS HfsmDefinition

CONSTANTS
    MaxCounter,     \* u64::MAX, for the step and for the activations
    NoScope         \* an event that carries no scope

ASSUME CounterAssumption == MaxCounter \in Nat

NotStarted ==
    [lifecycle |-> "NotStarted", epoch |-> 0, step |-> 0, next |-> 1, path |-> <<>>]

Leaf(s) == Last(s.path).state

(* Snapshot::validate *)
Valid(d, s) ==
    /\ (s.lifecycle = "Running") = (s.path # <<>>)
    /\ Len(s.path) <= DeepestPath(d)
    /\ \A i \in DOMAIN s.path :
            /\ d.parent[s.path[i].state] = IF i = 1 THEN NoState ELSE s.path[i - 1].state
            /\ s.path[i].seq \in 1..(s.next - 1)
    /\ s.path # <<>> => IsLeaf(d, Leaf(s))

(* A plan that is refused before anything was emitted for it. *)
Rejected(error) == [outcome |-> error, records |-> <<>>, path |-> <<>>]

IsRejected(plan) == plan.outcome \notin {"Started", "Stopped", "Transitioned", "Unhandled"}

(* One group of action records: n actions of a state in a phase. *)
Records(phase, a, n) == [phase |-> phase, state |-> a.state, seq |-> a.seq, count |-> n]

Exits(d, path) ==
    Reverse([i \in DOMAIN path |-> Records("Exit", path[i], d.exit[path[i].state])])

Enters(d, path) == [i \in DOMAIN path |-> Records("Enter", path[i], d.entry[path[i].state])]

(* Numbers the states of a sequence from s.next on. *)
Activated(s, states) == [i \in DOMAIN states |-> [state |-> states[i], seq |-> s.next + i - 1]]

(* A plan that leaves the activations in kept, records before, and enters   *)
(* the states of entered.  enter refuses the last number of the counter;    *)
(* the emitter has by then written down the states it could still enter.    *)
Planned(d, s, outcome, kept, before, entered) ==
    LET fresh == Activated(s, SubSeq(entered, 1, Min({Len(entered), MaxCounter - s.next})))
        records == before \o Enters(d, fresh)
        path == kept \o fresh
    IN  IF Len(fresh) < Len(entered)
        THEN [outcome |-> "CounterOverflow", records |-> records, path |-> path]
        ELSE [outcome |-> outcome, records |-> records,
              next |-> [s EXCEPT !.step = @ + 1, !.next = @ + Len(entered), !.path = path]]

Resumed_FromOne(s) == [s EXCEPT !.next = 1]

(* Start carries the counters of the machine's previous life on. *)
Resumed(s) == s

Start(d, s, epoch) ==
    IF ~Valid(d, s) THEN Rejected("InvalidSnapshot")
    ELSE IF s.lifecycle = "Running" THEN Rejected("LifecycleViolation")
    ELSE IF s.step = MaxCounter THEN Rejected("CounterOverflow")
    ELSE Planned(d, [Resumed(s) EXCEPT !.epoch = epoch, !.lifecycle = "Running"],
                 "Started", <<>>, <<>>, <<d.root>> \o InitialChain(d, d.root))

Stop(d, s) ==
    IF ~Valid(d, s) THEN Rejected("InvalidSnapshot")
    ELSE IF s.lifecycle # "Running" THEN Rejected("LifecycleViolation")
    ELSE IF s.step = MaxCounter THEN Rejected("CounterOverflow")
    ELSE [outcome |-> "Stopped",
          records |-> Exits(d, s.path),
          next    |-> [s EXCEPT !.step = @ + 1, !.lifecycle = "Stopped", !.path = <<>>]]

OnPath(s, scope) ==
    \E i \in DOMAIN s.path : s.path[i].state = scope.state /\ s.path[i].seq = scope.seq

(* DeliveryScope: the activation the completion was asked for is over. *)
IsStale(s, scope) ==
    scope # NoScope /\ (scope.epoch # s.epoch \/ ~OnPath(s, scope))

(* The candidates from the leaf outwards, each with its level of the path. *)
Bubble(d, s) ==
    LET from[level \in 0..Len(s.path)] ==
            IF level = 0 THEN <<>>
            ELSE LET ts == Candidates(d, s.path[level].state)
                 IN  [i \in DOMAIN ts |-> [level |-> level, transition |-> ts[i]]] \o from[level - 1]
    IN  from[Len(s.path)]

(* A candidate is passed over if its guard is false. *)
Stops(t, frame) ==
    t.guard = NoGuard \/ t.guard \notin DOMAIN frame \/ frame[t.guard]

(* The first candidate that is not passed over, if there is one. *)
Select(d, s, frame) ==
    LET bubble == Bubble(d, s)
        stops == {i \in DOMAIN bubble : Stops(bubble[i].transition, frame)}
    IN  IF stops = {} THEN <<>> ELSE <<bubble[Min(stops)]>>

(* How much of the path survives the transition. *)
Kept(d, s, level, t) ==
    CASE t.kind = "Internal" -> Len(s.path)
      [] t.kind = "Local" -> level
      [] t.kind = "External" ->
            Max({i \in DOMAIN s.path :
                    s.path[i].state = StrictCommonAncestor(d, t.source, t.target)} \cup {0})

(* apply *)
Transition(d, s, level, t) ==
    LET keep == Kept(d, s, level, t)
        kept == SubSeq(s.path, 1, keep)
        boundary == IF keep = 0 THEN NoState ELSE Last(kept).state
        entered == IF t.kind = "Internal" THEN <<>>
                   ELSE Reverse(UpTo(d, t.target, boundary)) \o InitialChain(d, t.target)
    IN  Planned(d, s, "Transitioned", kept,
                Append(Exits(d, SubSeq(s.path, keep + 1, Len(s.path))),
                       Records("Transition", s.path[level], t.actions)),
                entered)

Event(d, s, frame, scope) ==
    IF ~Valid(d, s) THEN Rejected("InvalidSnapshot")
    ELSE IF s.lifecycle # "Running" THEN Rejected("LifecycleViolation")
    ELSE IF IsStale(s, scope) THEN Rejected("StaleDelivery")
    ELSE IF ~HasEvent(d) THEN Rejected("UnknownEvent")
    ELSE IF ~(RequiredGuards(d, Leaf(s)) \subseteq DOMAIN frame) THEN Rejected("GuardMissing")
    ELSE IF s.step = MaxCounter THEN Rejected("CounterOverflow")
    ELSE LET selected == Select(d, s, frame)
         IN  IF selected = <<>> THEN Planned(d, s, "Unhandled", s.path, <<>>, <<>>)
             ELSE LET c == Head(selected)
                  IN  IF c.transition.guard \notin DOMAIN frame \cup {NoGuard}
                      THEN Rejected("GuardMissing")
                      ELSE Transition(d, s, c.level, c.transition)

(* The number of action records of a plan. *)
Size(plan) == SumFunction([i \in DOMAIN plan.records |-> plan.records[i].count])
=============================================================================
