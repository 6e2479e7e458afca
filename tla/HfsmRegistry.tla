---------------------------- MODULE HfsmRegistry ----------------------------
(***************************************************************************)
(* HfsmDefinitionRegistry of crates/lumio-hfsm/src/registry.rs: threads     *)
(* create, lease and release compiled definitions while the context closes  *)
(* the registry.  Every operation first looks at a flag and takes the arena *)
(* mutex later; the two are separate steps.                                 *)
(***************************************************************************)
EXTENDS HandleArena

CONSTANT Callers

VARIABLES
    closing,     \* HfsmDefinitionRegistry.closing
    destroyed,   \* HfsmDefinitionRegistry.destroyed
    definitions, \* HfsmDefinitionRegistry.arena; the payloads of its slots
    op,          \* per thread: the operation that has passed its checks
    closer,      \* how far KernelContext::close has come with the registry
    named,       \* history: the definition each returned handle was created for
    reply        \* history: the last operation that succeeded

registryVars == <<closing, destroyed, definitions, op, closer, named, reply>>

(* DefinitionHandle has no public constructor: callers hold returned ones.   *)
Known == DOMAIN named

NoOp == [kind |-> "none"]

RegistryInit ==
    /\ closing = FALSE
    /\ destroyed = FALSE
    /\ definitions = NewArena
    /\ op = [t \in Callers |-> NoOp]
    /\ closer = "open"
    /\ named = <<>>
    /\ reply = [kind |-> "none", payload |-> NoPayload, expected |-> NoPayload, closer |-> "open"]

Succeeds(kind, payload, expected) ==
    reply' = [kind |-> kind, payload |-> payload, expected |-> expected, closer |-> closer]

MayCreate_Always == TRUE

(* create: ensure_live, then the closing flag.  Its two loads are one step:  *)
(* destroyed is only stored after closing.                                   *)
MayCreate == ~destroyed /\ ~closing

(* The definition is compiled outside of the lock. *)
CreateBegin(t, v) ==
    /\ op[t] = NoOp
    /\ MayCreate
    /\ op' = [op EXCEPT ![t] = [kind |-> "create", payload |-> v]]
    /\ UNCHANGED <<closing, destroyed, definitions, closer, named, reply>>

CreateInsert(t) ==
    /\ op[t].kind = "create"
    /\ op' = [op EXCEPT ![t] = NoOp]
    /\ IF CanInsert(definitions)
       THEN LET h == HandleOf(definitions, NextSlot(definitions))
            IN  /\ definitions' = Inserted(definitions, op[t].payload)
                /\ named' = [k \in Known \cup {h} |-> IF k = h THEN op[t].payload ELSE named[k]]
                /\ Succeeds("create", op[t].payload, op[t].payload)
       ELSE UNCHANGED <<definitions, named, reply>>
    /\ UNCHANGED <<closing, destroyed, closer>>

(* lease, inspect and release pass ensure_live. *)
Begin(t, kind, h) ==
    /\ op[t] = NoOp
    /\ ~destroyed
    /\ op' = [op EXCEPT ![t] = [kind |-> kind, handle |-> h]]
    /\ UNCHANGED <<closing, destroyed, definitions, closer, named, reply>>

Lease(t) ==
    /\ op[t].kind = "lease"
    /\ op' = [op EXCEPT ![t] = NoOp]
    /\ IF Resolves(definitions, op[t].handle)
       THEN Succeeds("lease", definitions.value[op[t].handle.slot], named[op[t].handle])
       ELSE UNCHANGED reply
    /\ UNCHANGED <<closing, destroyed, definitions, closer, named>>

Release(t) ==
    /\ op[t].kind = "release"
    /\ op' = [op EXCEPT ![t] = NoOp]
    /\ IF Resolves(definitions, op[t].handle)
       THEN /\ definitions' = Removed(definitions, op[t].handle.slot)
            /\ Succeeds("release", definitions.value[op[t].handle.slot], named[op[t].handle])
       ELSE UNCHANGED <<definitions, reply>>
    /\ UNCHANGED <<closing, destroyed, closer, named>>

CancelRequested ==
    /\ closer = "open"
    /\ closing' = TRUE
    /\ closer' = "cancelled"
    /\ UNCHANGED <<destroyed, definitions, op, named, reply>>

(* quiesce always answers Quiesced; destroy follows. *)
MarkDestroyed ==
    /\ closer = "cancelled"
    /\ destroyed' = TRUE
    /\ closer' = "destroying"
    /\ UNCHANGED <<closing, definitions, op, named, reply>>

RetireDefinitions ==
    /\ closer = "destroying"
    /\ definitions' \in Drained(definitions)
    /\ closer' = "destroyed"
    /\ UNCHANGED <<closing, destroyed, op, named, reply>>

RegistryNext ==
    \/ \E t \in Callers :
        \/ \E v \in Payloads : CreateBegin(t, v)
        \/ \E kind \in {"lease", "release"}, h \in Known : Begin(t, kind, h)
        \/ CreateInsert(t) \/ Lease(t) \/ Release(t)
    \/ CancelRequested \/ MarkDestroyed \/ RetireDefinitions

RegistrySpec == RegistryInit /\ [][RegistryNext]_registryVars

-----------------------------------------------------------------------------
(* Properties *)

(* A lease is for the definition its handle was created for, and none is     *)
(* granted once destroy has emptied the arena: an operation still under way  *)
(* cannot even reach a definition that a late create put into its slot.      *)
LeasesAreRightful ==
    reply.kind \in {"lease", "release"} =>
        reply.payload = reply.expected /\ reply.closer # "destroyed"

(* What docs/specs/hfsm-semantics.md:241 says of destroy: it empties the     *)
(* arena, and every later operation is answered ContextDestroyed.            *)
DestroyEmptiesArena == closer = "destroyed" => Occupied(definitions) = {}
=============================================================================
