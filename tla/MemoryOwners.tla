---------------------------- MODULE MemoryOwners ----------------------------
(***************************************************************************)
(* A budget is shared by threads, or moved into one owner: the native        *)
(* buffers of crates/lumio-kernel/src/memory/native_buffers.rs, a handle     *)
(* arena whose payloads it charges, or the call scratch of call_scratch.rs,  *)
(* a list of chunks.  The owner is used through &mut self, by one thread at  *)
(* a time; its calls to the budget are the loops of MemoryBudget.            *)
(***************************************************************************)
EXTENDS MemoryBudget, HandleArena

CONSTANT Owner      \* the thread that has the owner of the budget

(* A buffer is its length; an owner may give back all that fits the limit. *)
ASSUME OwnerAssumption ==
    /\ Owner \in Threads
    /\ Payloads \subseteq Sizes /\ 0 .. Limit \subseteq Sizes

VARIABLES
    user,       \* who has the budget: "threads", "buffers" or "scratch"
    stage,      \* what the owner waits for: "idle", "reserve", "undo" or "release"
    request,    \* the bytes of the allocation under way
    arena,      \* NativeBufferOwner.registry: each payload is its length
    chunks,     \* CallScratch.chunks: their lengths
    used        \* CallScratch.used

ownerVars == <<stage, request, arena, chunks, used>>
allVars == <<vars, user, ownerVars>>

OwnersInit ==
    /\ Init
    /\ user \in {"threads", "buffers", "scratch"}
    /\ stage = "idle" /\ request = 0
    /\ arena = NewArena
    /\ chunks = <<>> /\ used = 0

LiveBytes == SumFunctionOnSet(arena.value, Occupied(arena))

(* The owner calls the budget, and its own operation goes on after it.       *)
Calls(op, n, s) == Enter(Owner, op, n) /\ stage' = s

(* The budget has answered. *)
Answered(s) == stage = s /\ call[Owner] = Idle

(* allocate, alloc *)
Allocate(n) ==
    /\ user # "threads" /\ stage = "idle"
    /\ Calls("reserve", n, "reserve")
    /\ request' = n
    /\ UNCHANGED <<user, arena, chunks, used>>

Refused ==
    /\ Answered("reserve") /\ answer[Owner] = "CapacityExceeded"
    /\ stage' = "idle"
    /\ UNCHANGED <<vars, user, request, arena, chunks, used>>

BufferInserted ==
    /\ Answered("reserve") /\ answer[Owner] = "Ok"
    /\ user = "buffers"
    /\ CanInsert(arena)
    /\ arena' = Inserted(arena, request)
    /\ stage' = "idle"
    /\ UNCHANGED <<vars, user, request, chunks, used>>

InsertFails_KeepsCharge ==
    /\ Answered("reserve") /\ answer[Owner] = "Ok"
    /\ user = "buffers"
    /\ ~CanInsert(arena)
    /\ stage' = "idle"
    /\ UNCHANGED <<vars, user, request, arena, chunks, used>>

(* No handle is left: the reservation is given back. *)
InsertFails ==
    /\ Answered("reserve") /\ answer[Owner] = "Ok"
    /\ user = "buffers"
    /\ ~CanInsert(arena)
    /\ Calls("release", request, "undo")
    /\ UNCHANGED <<user, request, arena, chunks, used>>

ChunkPushed ==
    /\ Answered("reserve") /\ answer[Owner] = "Ok"
    /\ user = "scratch"
    /\ chunks' = Append(chunks, request)
    /\ used' = used + request
    /\ stage' = "idle"
    /\ UNCHANGED <<vars, user, request, arena>>

(* release of a handle that resolves; a stale one changes nothing.           *)
ReleaseBuffer(s) ==
    /\ user = "buffers" /\ stage = "idle"
    /\ s \in Occupied(arena)
    /\ arena' = Removed(arena, s)
    /\ Calls("release", arena.value[s], "release")
    /\ UNCHANGED <<user, request, chunks, used>>

ReleaseAll ==
    /\ user = "buffers" /\ stage = "idle"
    /\ arena' \in Drained(arena)
    /\ Calls("release", LiveBytes, "release")
    /\ UNCHANGED <<user, request, chunks, used>>

Reset ==
    /\ user = "scratch" /\ stage = "idle"
    /\ chunks' = <<>>
    /\ Calls("release", used, "release")
    /\ UNCHANGED <<user, request, arena, used>>

Released_KeepsUsed ==
    /\ Answered("release") \/ Answered("undo")
    /\ stage' = "idle"
    /\ UNCHANGED <<vars, user, request, arena, chunks, used>>

(* The bytes are given back; reset has nothing to give back after it.        *)
Released ==
    /\ Answered("release") \/ Answered("undo")
    /\ stage' = "idle"
    /\ used' = 0
    /\ UNCHANGED <<vars, user, request, arena, chunks>>

OwnerStep ==
    \/ \E n \in Payloads : Allocate(n)
    \/ Refused \/ BufferInserted \/ InsertFails \/ ChunkPushed
    \/ \E s \in Slots : ReleaseBuffer(s)
    \/ ReleaseAll \/ Reset \/ Released

(* A step of the budget: a new call only by those who share it.              *)
BudgetStep ==
    /\ IF user = "threads" THEN Next
       ELSE Load(Owner) \/ Exchange(Owner) \/ ExchangeFails(Owner)
    /\ UNCHANGED <<user, ownerVars>>

OwnersNext == OwnerStep \/ BudgetStep

OwnersSpec == OwnersInit /\ [][OwnersNext]_allVars

-----------------------------------------------------------------------------
(* Properties *)

(* An owner never keeps memory that is not charged, and between its          *)
(* operations it has charged exactly what it keeps: an insertion that fails  *)
(* after the reservation (native_buffers.rs:47), a release, release_all and  *)
(* reset give back what was taken, once.  release saturates (budget.rs:53),  *)
(* so that giving back too much would not show at once.                      *)
OwnersCharged ==
    LET kept == IF user = "buffers" THEN LiveBytes ELSE FoldFunction(+, 0, chunks)
    IN  user # "threads" =>
            /\ kept <= charged
            /\ stage = "idle" => charged = kept
            /\ user = "scratch" /\ stage = "idle" => used = kept
=============================================================================
