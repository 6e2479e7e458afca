--------------------------- MODULE HfsmDefinition ---------------------------
(***************************************************************************)
(* What crates/lumio-hfsm/src/compile.rs accepts, and the queries the       *)
(* evaluator makes of a compiled definition.  A definition is a record:     *)
(*   root                the top-level state a machine starts in            *)
(*   parent, initial     [States -> States \cup {NoState}]                  *)
(*   entry, exit         [States -> Nat], numbers of actions                *)
(*   transitions         records [source, guard, kind, target, actions]    *)
(*                       for the one event, by ascending priority           *)
(* Ids are the values themselves, so an unknown or duplicate id, a          *)
(* duplicate priority and the fingerprint do not arise.                     *)
(***************************************************************************)
EXTENDS Integers, SequencesExt

CONSTANTS
    States,             \* the states of a definition
    NoState,            \* the synthetic root; also "no initial"
    Guards,
    NoGuard,
    MaxDepth,           \* HfsmLimits.max_depth
    MaxTransitions,     \* HfsmLimits.max_transitions
    MaxActionsPerPlan   \* HfsmLimits.max_actions_per_plan

ASSUME SomeStates == IsFiniteSet(States) /\ States # {} /\ NoState \notin States
ASSUME NoGuardIsNoGuard == NoGuard \notin Guards

Transitions ==
    [source : States, guard : Guards \cup {NoGuard}, kind : {"Internal"}, target : {NoState},
     actions : Nat]
    \cup
    [source : States, guard : Guards \cup {NoGuard}, kind : {"Local", "External"},
     target : States, actions : Nat]

(* The definitions as a host may write them down. *)
Specs ==
    [root : States, parent : [States -> States \cup {NoState}],
     initial : [States -> States \cup {NoState}],
     entry : [States -> Nat], exit : [States -> Nat], transitions : Seq(Transitions)]

(* The n-th step from s along next, NoState once there is none. *)
Step(next, s) ==
    LET at[n \in 0..Cardinality(States)] ==
            IF n = 0 THEN s ELSE IF at[n - 1] = NoState THEN NoState ELSE next[at[n - 1]]
    IN  at

(* s, next[s], ... for as long as there is a next: what the cursor loops visit. *)
Walk(next, s) ==
    LET at == Step(next, s)
        length == Min({n \in DOMAIN at : at[n] = NoState} \cup {Cardinality(States)})
    IN  [n \in 1..length |-> at[n - 1]]

(* The compiled graph: the definition with its chains worked out. *)
Graph(spec) ==
    [root |-> spec.root, parent |-> spec.parent, initial |-> spec.initial,
     entry |-> spec.entry, exit |-> spec.exit, transitions |-> spec.transitions,
     up |-> [s \in States |-> Walk(spec.parent, s)],
     down |-> [s \in States |-> Walk(spec.initial, s)]]

(* s and its ancestors, innermost first. *)
Up(d, s) == d.up[s]

(* parent chains longer than the number of states *)
StructuralCycle(d) == \E s \in States : Step(d.parent, s)[Cardinality(States)] # NoState

DepthOf(d, s) == Len(Up(d, s))

DeepestPath(d) == Max({DepthOf(d, s) : s \in States})

IsLeaf(d, s) == d.initial[s] = NoState

InitialsFit(d) ==
    \A s \in States :
        IF \E c \in States : d.parent[c] = s
        THEN d.initial[s] # NoState /\ d.parent[d.initial[s]] = s
        ELSE d.initial[s] = NoState

IsStrictDescendant(d, below, s) == s \in ToSet(Tail(Up(d, below)))

LocalTargetsFit(d) ==
    \A i \in DOMAIN d.transitions : LET t == d.transitions[i]
        IN t.kind = "Local" => IsStrictDescendant(d, t.target, t.source)

(* Transitions of s for the event, ascending priority. *)
Candidates(d, s) ==
    LET among[n \in 0..Len(d.transitions)] ==
            IF n = 0 THEN <<>>
            ELSE IF d.transitions[n].source = s THEN Append(among[n - 1], d.transitions[n])
            ELSE among[n - 1]
    IN  among[Len(d.transitions)]

HasEvent(d) == d.transitions # <<>>

(* A transition without a guard hides every later one of its state. *)
NothingShadowed(d) ==
    \A s \in States : LET ts == Candidates(d, s)
        IN \A i \in DOMAIN ts : ts[i].guard = NoGuard => i = Len(ts)

(* Guards the host must supply when leaf is active. *)
RequiredGuards(d, leaf) ==
    {d.transitions[i].guard : i \in {j \in DOMAIN d.transitions :
        d.transitions[j].source \in ToSet(Up(d, leaf))}} \ {NoGuard}

InitialChain_Empty(d, s) == <<>>

(* The states entered below s when s is expanded down to its leaf. *)
InitialChain(d, s) == Tail(d.down[s])

(* s and its ancestors below domain, innermost first. *)
UpTo(d, s, domain) ==
    LET up == Up(d, s)
        at == {i \in DOMAIN up : up[i] = domain}
    IN  IF at = {} THEN up ELSE SubSeq(up, 1, Min(at) - 1)

StrictCommonAncestor_Lca(d, a, b) ==
    LET common == {i \in DOMAIN Up(d, b) : Up(d, b)[i] \in ToSet(Up(d, a))}
    IN  IF common = {} THEN NoState ELSE Up(d, b)[Min(common)]

(* The innermost state above both, never one of the two. *)
StrictCommonAncestor(d, a, b) ==
    LET lca == StrictCommonAncestor_Lca(d, a, b)
    IN  IF lca \in {a, b} THEN d.parent[lca] ELSE lca

(* The actions of the states of a sequence. *)
Actions(count, states) == SumFunction([i \in DOMAIN states |-> count[states[i]]])

(* The most exit actions of an active path strictly below s. *)
MaxExitBelow(d, s) ==
    Max({Actions(d.exit, UpTo(d, x, s)) : x \in {y \in States : IsStrictDescendant(d, y, s)}}
        \cup {0})

EntryActions(d, target, domain) ==
    Actions(d.entry, UpTo(d, target, domain)) + Actions(d.entry, InitialChain(d, target))

WorstCase_SourceStays(d, t) ==
    CASE t.kind = "Internal" -> t.actions
      [] t.kind = "Local" ->
            MaxExitBelow(d, t.source) + t.actions + EntryActions(d, t.target, t.source)
      [] t.kind = "External" ->
            LET domain == StrictCommonAncestor(d, t.source, t.target)
            IN  MaxExitBelow(d, t.source) + t.actions + EntryActions(d, t.target, domain)

(* worst_case_actions: the longest plan the transition can produce. *)
WorstCase(d, t) ==
    CASE t.kind = "Internal" -> t.actions
      [] t.kind = "Local" ->
            MaxExitBelow(d, t.source) + t.actions + EntryActions(d, t.target, t.source)
      [] t.kind = "External" ->
            LET domain == StrictCommonAncestor(d, t.source, t.target)
            IN  MaxExitBelow(d, t.source) + Actions(d.exit, UpTo(d, t.source, domain))
                    + t.actions + EntryActions(d, t.target, domain)

(* compute_max_plan_actions: over Start, Stop and every transition. *)
MaxPlanActions(d) ==
    Max({EntryActions(d, d.root, NoState)}
        \cup {d.exit[s] + MaxExitBelow(d, s) : s \in {x \in States : d.parent[x] = NoState}}
        \cup {WorstCase(d, d.transitions[i]) : i \in DOMAIN d.transitions})

(* compile: the definitions it answers Ok for, its checks in their order. *)
Compiles(d) ==
    /\ Len(d.transitions) <= MaxTransitions
    /\ d.parent[d.root] = NoState
    /\ ~StructuralCycle(d)
    /\ DeepestPath(d) <= MaxDepth
    /\ InitialsFit(d)
    /\ LocalTargetsFit(d)
    /\ NothingShadowed(d)
    /\ MaxPlanActions(d) <= MaxActionsPerPlan
=============================================================================
