----------------------------- MODULE HandleSpace -----------------------------
(***************************************************************************)
(* What a handle registry promises, without slots, free lists or locks.  A  *)
(* handle is issued at most once in the life of the registry: once released *)
(* it is spent and never names a payload again, whatever takes its place.   *)
(* A payload a reader holds is not taken away under it.  An insertion is    *)
(* refused only when every slot is in use or worn out.                      *)
(***************************************************************************)
EXTENDS Naturals

CONSTANTS
    Threads, Payloads, Home, NoPayload,
    Handles,        \* the keys a caller may present
    Slots,          \* slot numbers of the registry
    MaxGeneration   \* the last generation of a slot

VARIABLES
    live,    \* the payload of each handle in use
    spent,   \* the handles that were issued and released
    held,    \* the handles a reader holds, by reader
    answer   \* what the last operation answered

spaceVars == <<live, spent, held, answer>>

Issuable == [context : {Home}, slot : Slots, generation : 1 .. MaxGeneration]

Failures == {"WrongContext", "InvalidHandle", "AlreadyReleased"}

(* An exhausted slot: its last handle is in use or spent. *)
Unavailable(s) ==
    \/ \E h \in DOMAIN live : h.slot = s
    \/ \E h \in spent : h.slot = s /\ h.generation = MaxGeneration

Reply(h, result, payload) ==
    answer' = [handle |-> h, result |-> result, payload |-> payload]

Init ==
    /\ live = [h \in {} |-> NoPayload]
    /\ spent = {}
    /\ held = [t \in Threads |-> {}]
    /\ answer = [handle |-> {}, result |-> "none", payload |-> NoPayload]

Insert(v) ==
    /\ \E h \in Issuable \ (DOMAIN live \cup spent) :
          /\ live' = [k \in DOMAIN live \cup {h} |-> IF k = h THEN v ELSE live[k]]
          /\ Reply({h}, "Ok", v)
    /\ UNCHANGED <<spent, held>>

Refuse(v) ==
    /\ \A s \in Slots : Unavailable(s)
    /\ Reply({}, "CapacityExceeded", v)
    /\ UNCHANGED <<live, spent, held>>

Fail(h) ==
    /\ h \notin DOMAIN live
    /\ \E e \in Failures :
          /\ e = "WrongContext" <=> h.context # Home
          /\ Reply({h}, e, NoPayload)
    /\ UNCHANGED <<live, spent, held>>

Borrow(t, h) ==
    /\ h \in DOMAIN live
    /\ held' = [held EXCEPT ![t] = {h}]
    /\ Reply({h}, "Ok", live[h])
    /\ UNCHANGED <<live, spent>>

LetGo(t) ==
    /\ held' = [held EXCEPT ![t] = {}]
    /\ UNCHANGED <<live, spent, answer>>

(* Release the handles of S, none of which a reader holds. *)
Release(S) ==
    /\ \A t \in Threads : held[t] \cap S = {}
    /\ live' = [k \in DOMAIN live \ S |-> live[k]]
    /\ spent' = spent \cup S
    /\ UNCHANGED held

Remove(h) == h \in DOMAIN live /\ Release({h}) /\ Reply({h}, "Ok", live[h])

RetireAll == Release(DOMAIN live) /\ Reply({}, "Ok", NoPayload)

Next ==
    \/ \E v \in Payloads : Insert(v) \/ Refuse(v)
    \/ \E h \in Handles : Fail(h) \/ Remove(h) \/ \E t \in Threads : Borrow(t, h)
    \/ \E t \in Threads : LetGo(t)
    \/ RetireAll

Spec == Init /\ [][Next]_spaceVars
=============================================================================
