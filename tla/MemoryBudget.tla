---------------------------- MODULE MemoryBudget ----------------------------
(***************************************************************************)
(* MemoryBudget of crates/lumio-kernel/src/memory/budget.rs: two compare-   *)
(* and-swap loops on one counter.  A load or a compare_exchange_weak is one *)
(* step together with the thread's own computation after it; the weak       *)
(* exchange may fail without a reason.                                      *)
(***************************************************************************)
EXTENDS Integers, FiniteSets, Functions

CONSTANTS
    Threads,
    Limit,   \* max_native_bytes
    Sizes,   \* the byte counts callers ask for
    MaxU64

ASSUME BudgetAssumption ==
    /\ MaxU64 \in Nat
    /\ Limit \in 0 .. MaxU64
    /\ Sizes \subseteq 0 .. MaxU64

VARIABLES
    charged,  \* MemoryBudget.charged
    call,     \* per thread: the call it is in, and the value it has read
    held,     \* history: the bytes each thread's reservations hold
    answer    \* history: what the last call of each thread returned

vars == <<charged, call, held, answer>>

NotRead == -1

Idle == [op |-> "none", bytes |-> 0, current |-> NotRead]

Init ==
    /\ charged = 0
    /\ call = [t \in Threads |-> Idle]
    /\ held = [t \in Threads |-> 0]
    /\ answer = [t \in Threads |-> "none"]

Fits_OffByOne(current, n) == current + n <= Limit + 1

(* checked_add, then the comparison with the limit. *)
Fits(current, n) == current + n <= MaxU64 /\ current + n <= Limit

SaturatingSub(a, n) == IF a < n THEN 0 ELSE a - n

(* A thread releases only what it reserved (ByteReservation, CallScratch and *)
(* NativeBufferOwner each keep the size of their reservation).               *)
Enter(t, op, n) ==
    /\ call[t] = Idle
    /\ op = "release" => n <= held[t]
    /\ call' = [call EXCEPT ![t] = [op |-> op, bytes |-> n, current |-> NotRead]]
    /\ UNCHANGED <<charged, held, answer>>

Returns(t, result) ==
    /\ call' = [call EXCEPT ![t] = Idle]
    /\ answer' = [answer EXCEPT ![t] = result]

(* The thread has just read the counter: it gives up or goes on. *)
Reads(t) ==
    /\ IF call[t].op = "reserve" /\ ~Fits(charged, call[t].bytes)
       THEN Returns(t, "CapacityExceeded")
       ELSE call' = [call EXCEPT ![t].current = charged] /\ UNCHANGED answer
    /\ UNCHANGED <<charged, held>>

Load(t) ==
    /\ call[t] # Idle
    /\ call[t].current = NotRead
    /\ Reads(t)

Swaps_Blindly(t) == TRUE

(* compare_exchange finds the value that was read. *)
Swaps(t) == charged = call[t].current

Exchange(t) ==
    /\ call[t].current # NotRead
    /\ Swaps(t)
    /\ IF call[t].op = "reserve"
       THEN /\ charged' = call[t].current + call[t].bytes
            /\ held' = [held EXCEPT ![t] = @ + call[t].bytes]
       ELSE /\ charged' = SaturatingSub(call[t].current, call[t].bytes)
            /\ held' = [held EXCEPT ![t] = @ - call[t].bytes]
    /\ Returns(t, "Ok")

ExchangeFails_GivesUp(t) ==
    /\ call[t].current # NotRead
    /\ call[t].op = "reserve"
    /\ Returns(t, "CapacityExceeded")
    /\ UNCHANGED <<charged, held>>

ExchangeFails(t) ==
    /\ call[t].current # NotRead
    /\ Reads(t)

Next ==
    \E t \in Threads :
        \/ \E op \in {"reserve", "release"}, n \in Sizes : Enter(t, op, n)
        \/ Load(t)
        \/ Exchange(t)
        \/ ExchangeFails(t)

Spec == Init /\ [][Next]_vars

-----------------------------------------------------------------------------
(* Properties *)

(* Types; the limit is never passed. *)
TypeInv ==
    /\ charged \in 0 .. Limit
    /\ call \in [Threads -> [op : {"none", "reserve", "release"}, bytes : Sizes \cup {0},
                             current : (0 .. Limit) \cup {NotRead}]]
    /\ held \in [Threads -> Nat]
    /\ answer \in [Threads -> {"none", "Ok", "CapacityExceeded"}]

(* The two loops keep the promise of MemoryLedger: each call takes effect at *)
(* one moment, and contention alone never refuses a reservation.             *)
Ledger == INSTANCE MemoryLedger WITH
    call <- [t \in Threads |-> [op |-> call[t].op, bytes |-> call[t].bytes]]

ImplementsLedger == Ledger!Spec
=============================================================================
