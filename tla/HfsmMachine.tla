---------------------------- MODULE HfsmMachine -----------------------------
(***************************************************************************)
(* A host that owns one machine: it hands its snapshot to the evaluator and *)
(* keeps the next one.  The evaluator never sees the host; what the host    *)
(* must do is what docs/specs/hfsm-semantics.md asks of it, a fresh epoch   *)
(* for a rebuilt machine.                                                   *)
(***************************************************************************)
EXTENDS HfsmEvaluate

CONSTANTS
    Definitions,    \* the definitions a host may hold, compiled or not
    MaxEpoch        \* bound on rebuilds

ASSUME DefinitionsAssumption == Definitions \subseteq Specs
ASSUME EpochAssumption == MaxEpoch \in Nat
ASSUME NoScopeAssumption == NoScope \notin [state : States, seq : Nat, epoch : Nat]

VARIABLES
    def,    \* the compiled definition
    snap,   \* the host's snapshot
    epoch,  \* the last epoch the host gave out
    ended   \* history: activations that were left, with their epoch

vars == <<def, snap, epoch, ended>>

Frames == UNION {[G -> BOOLEAN] : G \in SUBSET Guards}

(* The scopes a completion can carry: a present activation, or an ended one. *)
Tokens(s) == {[state |-> s.path[i].state, seq |-> s.path[i].seq, epoch |-> s.epoch] :
                  i \in DOMAIN s.path}

Scopes == Tokens(snap) \cup ended

Init ==
    /\ \E spec \in Definitions : def = Graph(spec)
    /\ Compiles(def)
    /\ snap = NotStarted
    /\ epoch = 1
    /\ ended = {}

(* Snapshot::from_plan: the host adopts the plan unless it was rejected.     *)
Adopt(plan) ==
    /\ ~IsRejected(plan)
    /\ snap' = plan.next
    /\ ended' = ended \cup (Tokens(snap) \ Tokens(plan.next))
    /\ UNCHANGED def

(* A restart may keep its epoch or be given a later one. *)
StartMachine == \E e \in epoch..MaxEpoch : epoch' = e /\ Adopt(Start(def, snap, e))

Deliver(frame, scope) == Adopt(Event(def, snap, frame, scope)) /\ UNCHANGED epoch

StopMachine == Adopt(Stop(def, snap)) /\ UNCHANGED epoch

(* The host destroys the machine and builds it anew in a later epoch. *)
Rebuild ==
    /\ epoch < MaxEpoch
    /\ epoch' = epoch + 1
    /\ snap' = NotStarted
    /\ ended' = ended \cup Tokens(snap)
    /\ UNCHANGED def

Next ==
    \/ StartMachine
    \/ \E frame \in Frames, scope \in Scopes \cup {NoScope} : Deliver(frame, scope)
    \/ StopMachine
    \/ Rebuild

Spec == Init /\ [][Next]_vars

-----------------------------------------------------------------------------
(* Every snapshot the evaluator hands out is one it accepts back, whatever   *)
(* the sequence of transitions: the path is a chain from a root child to a   *)
(* leaf and its activations are in the past of the counter.  Snapshots that  *)
(* are rejected would leave the host with a machine it can only rebuild      *)
(* (validate, snapshot.rs:90).  On it the numbers grow along the path.       *)
SnapshotsStayLegal ==
    /\ Valid(def, snap)
    /\ \A i, j \in DOMAIN snap.path : i < j => snap.path[i].seq < snap.path[j].seq

(* The states of the path that a transition taken at level may keep.         *)
Stay(t, level) ==
    {i \in DOMAIN snap.path :
        CASE t.kind = "Internal" -> TRUE
          [] t.kind = "Local" -> i <= level
          [] t.kind = "External" ->
                /\ IsStrictDescendant(def, t.source, snap.path[i].state)
                /\ IsStrictDescendant(def, t.target, snap.path[i].state)}

(* The plan tells the step: what leaves the path is exited, leaf first, then *)
(* the transition acts, then what joins the path is entered, outermost       *)
(* first, under numbers never used before; only states above both ends of an *)
(* external transition keep their activation (evaluate.rs:403), and the new  *)
(* path leads through the target.                                            *)
Explains(plan, c) ==
    LET old == snap.path
        new == plan.next.path
        keep == Cardinality(Stay(c.transition, c.level))
    IN  /\ Stay(c.transition, c.level) = 1..keep
        /\ SubSeq(new, 1, keep) = SubSeq(old, 1, keep)
        /\ \A i \in (keep + 1)..Len(new) : new[i].seq >= snap.next
        /\ plan.records =
              Exits(def, SubSeq(old, keep + 1, Len(old)))
                \o <<Records("Transition", old[c.level], c.transition.actions)>>
                \o Enters(def, SubSeq(new, keep + 1, Len(new)))
        /\ c.transition.kind # "Internal" =>
              \E i \in (keep + 1)..Len(new) :
                  /\ new[i].state = c.transition.target
                  /\ \A j \in i..(Len(new) - 1) : new[j + 1].state = def.initial[new[j].state]

(* The deepest state with a candidate whose guard holds handles the event,   *)
(* and of its candidates the first: no later candidate and no ancestor gets  *)
(* it (evaluate.rs:449).                                                     *)
RightfulCandidate(frame, c) ==
    /\ c.transition.source = snap.path[c.level].state
    /\ c.transition.guard # NoGuard => frame[c.transition.guard]
    /\ \A level \in c.level..Len(snap.path) :
          LET ts == Candidates(def, snap.path[level].state)
          IN  \A i \in DOMAIN ts :
                 (level > c.level \/ \A k \in 1..i : ts[k] # c.transition)
                    => ts[i].guard # NoGuard /\ ~frame[ts[i].guard]

PlansExplainTheStep ==
    \A frame \in Frames :
        LET plan == Event(def, snap, frame, NoScope)
        IN  plan.outcome = "Transitioned" =>
                LET c == Head(Select(def, snap, frame))
                IN  RightfulCandidate(frame, c) /\ Explains(plan, c)

(* No plan is longer than the bound compile computed, which is what a host   *)
(* sizes its buffers with (max_plan_actions, compile.rs:528).                *)
PlansFitTheBound ==
    LET bound == MaxPlanActions(def)
    IN  \A plan \in {Start(def, snap, epoch), Stop(def, snap)}
                    \cup {Event(def, snap, frame, NoScope) : frame \in Frames} :
            ~IsRejected(plan) => Size(plan) <= bound

(* A completion asked for by an activation that has ended is never           *)
(* delivered, though its state may be active again, after a stop and a start *)
(* or a rebuild (evaluate.rs:335); one whose activation goes on is delivered *)
(* like an unscoped event.                                                   *)
StaleIsRefused ==
    \A frame \in Frames :
        LET unscoped == Event(def, snap, frame, NoScope)
        IN  /\ \A scope \in ended : IsRejected(Event(def, snap, frame, scope))
            /\ \A scope \in Tokens(snap) : Event(def, snap, frame, scope) = unscoped
=============================================================================
