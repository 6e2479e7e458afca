---------------------------- MODULE MemoryLedger ----------------------------
(***************************************************************************)
(* What MemoryBudget promises its callers: reserve and release take effect  *)
(* at one moment between call and return, and a reservation is refused only *)
(* if at some such moment it did not fit.                                   *)
(***************************************************************************)
EXTENDS Integers

CONSTANTS Threads, Limit, Sizes

VARIABLES
    charged,  \* bytes reserved
    call,     \* per thread: the call that has not returned
    held,     \* per thread: the bytes of its reservations
    answer    \* per thread: what its last call returned

ledgerVars == <<charged, call, held, answer>>

Idle == [op |-> "none", bytes |-> 0]

Init ==
    /\ charged = 0
    /\ call = [t \in Threads |-> Idle]
    /\ held = [t \in Threads |-> 0]
    /\ answer = [t \in Threads |-> "none"]

Call(t) ==
    /\ call[t] = Idle
    /\ \E op \in {"reserve", "release"}, n \in Sizes : call' = [call EXCEPT ![t] = [op |-> op, bytes |-> n]]
    /\ UNCHANGED <<charged, held, answer>>

Answers(t, result) ==
    /\ call' = [call EXCEPT ![t] = Idle]
    /\ answer' = [answer EXCEPT ![t] = result]

Reserve(t) ==
    /\ call[t].op = "reserve"
    /\ charged + call[t].bytes <= Limit
    /\ charged' = charged + call[t].bytes
    /\ held' = [held EXCEPT ![t] = @ + call[t].bytes]
    /\ Answers(t, "Ok")

Refuse(t) ==
    /\ call[t].op = "reserve"
    /\ charged + call[t].bytes > Limit
    /\ Answers(t, "CapacityExceeded")
    /\ UNCHANGED <<charged, held>>

(* Giving back more than is reserved leaves nothing reserved. *)
Release(t) ==
    /\ call[t].op = "release"
    /\ charged' = IF charged < call[t].bytes THEN 0 ELSE charged - call[t].bytes
    /\ held' = [held EXCEPT ![t] = @ - call[t].bytes]
    /\ Answers(t, "Ok")

Next == \E t \in Threads : Call(t) \/ Reserve(t) \/ Refuse(t) \/ Release(t)

Spec == Init /\ [][Next]_ledgerVars
=============================================================================
