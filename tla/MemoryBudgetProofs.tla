------------------------- MODULE MemoryBudgetProofs -------------------------
(***************************************************************************)
(* The limit and the refinement of MemoryBudget, for any set of threads,    *)
(* any limit and any sizes; and that native buffers and call scratch pay    *)
(* for what they keep, for any arena.                                       *)
(***************************************************************************)
EXTENDS MemoryOwners, SumLemmas, SequenceTheorems, TLAPS

CallRecords == [op : {"none", "reserve", "release"}, bytes : Sizes \cup {0},
          current : (0 .. Limit) \cup {NotRead}]

(* What a thread knows between its steps: a reservation that goes on fitted  *)
(* the value that was read, and a release is covered by the thread's own     *)
(* reservations.                                                             *)
CallsSound ==
    \A t \in Threads :
        /\ call[t].op = "none" => call[t] = Idle
        /\ call[t].op = "reserve" /\ call[t].current # NotRead => Fits(call[t].current, call[t].bytes)
        /\ call[t].op = "release" => call[t].bytes <= held[t]

IInv == TypeInv /\ CallsSound

LEMMA SizesAreNaturals == Sizes \cup {0} \subseteq Nat /\ Limit \in Nat
  BY BudgetAssumption

LEMMA InitIInv == ASSUME Init PROVE IInv
  BY SizesAreNaturals DEF Init, IInv, TypeInv, CallsSound, Idle, NotRead

LEMMA EnterKeeps ==
  ASSUME IInv, NEW t \in Threads, NEW op \in {"reserve", "release"}, NEW n \in Sizes, Enter(t, op, n)
  PROVE  IInv'
<1>1. TypeInv'
  BY DEF IInv, TypeInv, Enter
<1>2. CallsSound'
  BY DEF IInv, TypeInv, CallsSound, Enter
<1> QED BY <1>1, <1>2 DEF IInv

LEMMA ReadsKeeps == ASSUME IInv, NEW t \in Threads, call[t].op # "none", Reads(t) PROVE IInv'
<1>1. CASE call[t].op = "reserve" /\ ~Fits(charged, call[t].bytes)
  <2>1. TypeInv'
    BY <1>1 DEF IInv, TypeInv, Reads, Returns, Idle
  <2>2. CallsSound'
    BY <1>1 DEF IInv, TypeInv, CallsSound, Reads, Returns, Idle
  <2> QED BY <2>1, <2>2 DEF IInv
<1>2. CASE ~(call[t].op = "reserve" /\ ~Fits(charged, call[t].bytes))
  <2>1. /\ call' = [call EXCEPT ![t].current = charged]
        /\ UNCHANGED <<charged, held, answer>>
    BY <1>2 DEF Reads
  <2>2. TypeInv'
    BY <2>1 DEF IInv, TypeInv
  <2>3. CallsSound'
    BY <1>2, <2>1 DEF IInv, TypeInv, CallsSound, Idle
  <2> QED BY <2>2, <2>3 DEF IInv
<1> QED BY <1>1, <1>2

LEMMA LoadKeeps == ASSUME IInv, NEW t \in Threads, Load(t) PROVE IInv'
<1>1. call[t].op # "none"
  BY DEF IInv, CallsSound, Load
<1> QED BY <1>1, ReadsKeeps DEF Load

LEMMA ExchangeFailsKeeps == ASSUME IInv, NEW t \in Threads, ExchangeFails(t) PROVE IInv'
<1>1. call[t].op # "none"
  BY DEF IInv, CallsSound, ExchangeFails, Idle
<1> QED BY <1>1, ReadsKeeps DEF ExchangeFails

(* What an exchange that succeeds does to the counter. *)
LEMMA ExchangeCharges ==
  ASSUME IInv, NEW t \in Threads, Exchange(t)
  PROVE  /\ call[t].op \in {"reserve", "release"}
         /\ call[t].op = "reserve" => charged' = charged + call[t].bytes /\ charged' <= Limit
         /\ call[t].op = "release" => charged' = SaturatingSub(charged, call[t].bytes)
<1>1. call[t] \in CallRecords /\ charged \in 0 .. Limit /\ call[t].bytes \in Nat
  BY SizesAreNaturals DEF IInv, TypeInv, CallRecords
<1>2. call[t].op \in {"reserve", "release"}
  BY <1>1 DEF IInv, CallsSound, Exchange, Idle, CallRecords
<1>3. ASSUME call[t].op = "reserve" PROVE charged' = charged + call[t].bytes /\ charged' <= Limit
  BY <1>1, <1>3 DEF IInv, CallsSound, Exchange, Swaps, Fits
<1>4. ASSUME call[t].op = "release" PROVE charged' = SaturatingSub(charged, call[t].bytes)
  BY <1>4 DEF Exchange, Swaps
<1> QED BY <1>2, <1>3, <1>4

LEMMA ExchangeKeeps == ASSUME IInv, NEW t \in Threads, Exchange(t) PROVE IInv'
<1>1. charged \in 0 .. Limit /\ call[t].bytes \in Nat /\ Limit \in Nat
  BY SizesAreNaturals DEF IInv, TypeInv
<1>2. charged' \in 0 .. Limit
  BY <1>1, ExchangeCharges DEF SaturatingSub
<1>3. held' \in [Threads -> Nat] /\ \A u \in Threads \ {t} : held'[u] = held[u]
  BY <1>1, ExchangeCharges DEF IInv, TypeInv, CallsSound, Exchange
<1>4. /\ call' = [call EXCEPT ![t] = Idle]
      /\ answer' = [answer EXCEPT ![t] = "Ok"]
  BY DEF Exchange, Returns
<1>5. TypeInv'
  BY <1>2, <1>3, <1>4 DEF IInv, TypeInv, Idle
<1>6. CallsSound'
  BY <1>3, <1>4 DEF IInv, TypeInv, CallsSound, Idle
<1> QED BY <1>5, <1>6 DEF IInv

LEMMA StutterKeeps == ASSUME IInv, UNCHANGED vars PROVE IInv'
  BY DEF IInv, TypeInv, CallsSound, vars

LEMMA NextKeeps == ASSUME IInv, Next PROVE IInv'
  BY EnterKeeps, LoadKeeps, ExchangeKeeps, ExchangeFailsKeeps DEF Next

LEMMA Inductive == Spec => []IInv
<1>1. IInv /\ [Next]_vars => IInv'
  BY NextKeeps, StutterKeeps
<1> QED BY <1>1, InitIInv, PTL DEF Spec

(* The counter never passes the limit, and no reservation goes negative. *)
THEOREM TypesHold == Spec => []TypeInv
<1>1. IInv => TypeInv
  BY DEF IInv
<1> QED BY <1>1, Inductive, PTL

-----------------------------------------------------------------------------
(* The abstract state of a thread's call. *)
Seen(t) == [op |-> call[t].op, bytes |-> call[t].bytes]

(* A step of thread t that leaves the call it is in as it was. *)
LEMMA SameCalls ==
  ASSUME NEW t \in Threads, NEW c \in [Threads -> CallRecords], call \in [Threads -> CallRecords],
         \A u \in Threads \ {t} : c[u] = call[u],
         c[t].op = call[t].op, c[t].bytes = call[t].bytes
  PROVE  [u \in Threads |-> [op |-> c[u].op, bytes |-> c[u].bytes]]
         = [u \in Threads |-> [op |-> call[u].op, bytes |-> call[u].bytes]]
  OBVIOUS

LEMMA ReadsRefines ==
  ASSUME IInv, NEW t \in Threads, call[t].op # "none", Reads(t)
  PROVE  Ledger!Refuse(t) \/ UNCHANGED Ledger!ledgerVars
<1>0. call \in [Threads -> CallRecords] /\ call[t].bytes \in Nat /\ charged \in 0 .. Limit
  BY SizesAreNaturals DEF IInv, TypeInv, CallRecords
<1>1. CASE call[t].op = "reserve" /\ ~Fits(charged, call[t].bytes)
  <2>1. charged + call[t].bytes > Limit
    BY <1>0, <1>1, BudgetAssumption DEF Fits
  <2>2. /\ call' = [call EXCEPT ![t] = Idle]
        /\ answer' = [answer EXCEPT ![t] = "CapacityExceeded"]
        /\ UNCHANGED <<charged, held>>
    BY <1>1 DEF Reads, Returns
  <2>3. [u \in Threads |-> [op |-> call'[u].op, bytes |-> call'[u].bytes]]
        = [[u \in Threads |-> [op |-> call[u].op, bytes |-> call[u].bytes]]
              EXCEPT ![t] = Ledger!Idle]
    BY <1>0, <2>2 DEF Idle, Ledger!Idle
  <2> QED BY <1>1, <2>1, <2>2, <2>3 DEF Ledger!Refuse, Ledger!Answers
<1>2. CASE ~(call[t].op = "reserve" /\ ~Fits(charged, call[t].bytes))
  <2>1. /\ call' = [call EXCEPT ![t].current = charged]
        /\ UNCHANGED <<charged, held, answer>>
    BY <1>2 DEF Reads
  <2>2. [u \in Threads |-> [op |-> call'[u].op, bytes |-> call'[u].bytes]]
        = [u \in Threads |-> [op |-> call[u].op, bytes |-> call[u].bytes]]
    BY <1>0, <2>1 DEF CallRecords
  <2> QED BY <2>1, <2>2 DEF Ledger!ledgerVars
<1> QED BY <1>1, <1>2

LEMMA ExchangeRefines ==
  ASSUME IInv, NEW t \in Threads, Exchange(t)
  PROVE  Ledger!Reserve(t) \/ Ledger!Release(t)
<1>0. call \in [Threads -> CallRecords] /\ held \in [Threads -> Nat]
  BY DEF IInv, TypeInv, CallRecords
<1>1. /\ call' = [call EXCEPT ![t] = Idle]
      /\ answer' = [answer EXCEPT ![t] = "Ok"]
  BY DEF Exchange, Returns
<1>2. [u \in Threads |-> [op |-> call'[u].op, bytes |-> call'[u].bytes]]
      = [[u \in Threads |-> [op |-> call[u].op, bytes |-> call[u].bytes]]
            EXCEPT ![t] = Ledger!Idle]
  BY <1>0, <1>1 DEF Idle, Ledger!Idle
<1>3. CASE call[t].op = "reserve"
  <2>1. held' = [held EXCEPT ![t] = @ + call[t].bytes]
    BY <1>3 DEF Exchange
  <2>2. charged' = charged + call[t].bytes /\ charged + call[t].bytes <= Limit
    BY <1>3, ExchangeCharges
  <2> QED BY <1>1, <1>2, <1>3, <2>1, <2>2 DEF Ledger!Reserve, Ledger!Answers
<1>4. CASE call[t].op = "release"
  <2>1. held' = [held EXCEPT ![t] = @ - call[t].bytes]
    BY <1>4 DEF Exchange
  <2>2. charged' = SaturatingSub(charged, call[t].bytes)
    BY <1>4, ExchangeCharges
  <2> QED BY <1>1, <1>2, <1>4, <2>1, <2>2 DEF Ledger!Release, Ledger!Answers, SaturatingSub
<1> QED BY <1>3, <1>4, ExchangeCharges

LEMMA EnterRefines ==
  ASSUME IInv, NEW t \in Threads, NEW op \in {"reserve", "release"}, NEW n \in Sizes, Enter(t, op, n)
  PROVE  Ledger!Call(t)
<1>1. call \in [Threads -> CallRecords]
  BY DEF IInv, TypeInv, CallRecords
<1>2. [u \in Threads |-> [op |-> call'[u].op, bytes |-> call'[u].bytes]]
      = [[u \in Threads |-> [op |-> call[u].op, bytes |-> call[u].bytes]]
            EXCEPT ![t] = [op |-> op, bytes |-> n]]
  BY <1>1 DEF Enter
<1>3. [op |-> call[t].op, bytes |-> call[t].bytes] = Ledger!Idle
  BY DEF Enter, Idle, Ledger!Idle
<1> QED BY <1>2, <1>3 DEF Enter, Ledger!Call

(* The compare-and-swap loops implement the ledger: every step is a step of  *)
(* MemoryLedger or changes nothing a caller can see.                         *)
THEOREM Refinement == Spec => ImplementsLedger
<1>1. Init => Ledger!Init
  BY DEF Init, Ledger!Init, Idle, Ledger!Idle
<1>2. ASSUME IInv, [Next]_vars PROVE [Ledger!Next]_(Ledger!ledgerVars)
  <2>1. CASE UNCHANGED vars
    BY <2>1 DEF vars, Ledger!ledgerVars
  <2>2. ASSUME NEW t \in Threads, NEW op \in {"reserve", "release"}, NEW n \in Sizes, Enter(t, op, n)
        PROVE  Ledger!Next
    BY <1>2, <2>2, EnterRefines DEF Ledger!Next
  <2>3. ASSUME NEW t \in Threads, Load(t) \/ ExchangeFails(t)
        PROVE  [Ledger!Next]_(Ledger!ledgerVars)
    <3>1. call[t].op # "none" /\ Reads(t)
      BY <1>2, <2>3 DEF IInv, CallsSound, Load, ExchangeFails, Idle
    <3> QED BY <1>2, <3>1, ReadsRefines DEF Ledger!Next
  <2>4. ASSUME NEW t \in Threads, Exchange(t) PROVE Ledger!Next
    BY <1>2, <2>4, ExchangeRefines DEF Ledger!Next
  <2> QED BY <1>2, <2>1, <2>2, <2>3, <2>4 DEF Next
<1> QED BY <1>1, <1>2, Inductive, PTL DEF Spec, ImplementsLedger, Ledger!Spec

-----------------------------------------------------------------------------
(* The arena of an owner *)

(* The free list names empty slots, each of them once. *)
FreeList(a) ==
    /\ \A i, k \in 1 .. Len(a.free) : a.free[i] = a.free[k] => i = k
    /\ \A i \in 1 .. Len(a.free) : a.free[i] \notin Occupied(a)

Bytes(a) == SumFunctionOnSet(a.value, Occupied(a))

LEMMA PayloadsAreNaturals == Payloads \subseteq Nat /\ NoPayload \notin Payloads
  BY SizesAreNaturals, OwnerAssumption, ArenaAssumption

(* The lengths of the buffers of an arena can be added up. *)
LEMMA BuffersFinite ==
  ASSUME NEW a, a.value \in [Slots -> Payloads \cup {NoPayload}]
  PROVE  /\ IsFiniteSet(Occupied(a)) /\ \A s \in Occupied(a) : a.value[s] \in Nat
         /\ Bytes(a) \in Nat
<1>1. Capacity - 1 \in Int
  BY ArenaAssumption
<1>2. IsFiniteSet(Slots)
  BY <1>1, FS_Interval DEF Slots
<1>3. IsFiniteSet(Occupied(a))
  BY <1>2, FS_Subset DEF Occupied
<1>4. \A s \in Occupied(a) : a.value[s] \in Nat
  BY PayloadsAreNaturals DEF Occupied
<1> QED BY <1>3, <1>4, SumIsNat DEF Bytes

(* insert takes a slot off the free list: its buffer is one more.            *)
LEMMA InsertedBytes ==
  ASSUME NEW a \in Arenas, FreeList(a), CanInsert(a), NEW v \in Payloads
  PROVE  /\ Inserted(a, v) \in Arenas /\ FreeList(Inserted(a, v))
         /\ Bytes(Inserted(a, v)) = v + Bytes(a)
<1> DEFINE b == Inserted(a, v)
           s == NextSlot(a)
           n == Len(a.free)
<1>1. /\ a.free \in Seq(Slots) /\ n \in Nat /\ n # 0
      /\ a.value \in [Slots -> Payloads \cup {NoPayload}]
  BY LenProperties, EmptySeq DEF Arenas, CanInsert
<1>2. s = a.free[n] /\ n \in 1 .. n
  BY <1>1 DEF NextSlot
<1>3. s \in Slots /\ s \notin Occupied(a)
  BY <1>1, <1>2, ElementOfSeq DEF FreeList
<1>4. /\ b.value = [a.value EXCEPT ![s] = v]
      /\ b.free = SubSeq(a.free, 1, n - 1)
      /\ b.generation = a.generation /\ b.retired = a.retired
  BY DEF Inserted, Arenas
<1>5. /\ b.free \in Seq(Slots) /\ Len(b.free) = n - 1
      /\ \A i \in 1 .. n - 1 : b.free[i] = a.free[i]
  <2>1. \A i \in 1 .. n - 1 : a.free[i] \in Slots
    BY <1>1, ElementOfSeq
  <2>2. /\ SubSeq(a.free, 1, n - 1) \in Seq(Slots)
        /\ Len(SubSeq(a.free, 1, n - 1)) = IF 1 <= n - 1 THEN n - 1 - 1 + 1 ELSE 0
        /\ \A i \in 1 .. n - 1 - 1 + 1 : SubSeq(a.free, 1, n - 1)[i] = a.free[1 + i - 1]
    BY <1>1, <2>1, SubSeqProperties
  <2> QED BY <1>1, <1>4, <2>2
<1>6. b \in Arenas
  BY <1>1, <1>3, <1>4, <1>5 DEF Inserted, Arenas
<1>7. Occupied(b) = Occupied(a) \cup {s}
  BY <1>1, <1>3, <1>4, PayloadsAreNaturals DEF Occupied
<1>8. FreeList(b)
  <2>1. \A i \in 1 .. n - 1 : i \in 1 .. n /\ i # n
    BY <1>1
  <2>2. \A i \in 1 .. n - 1 : b.free[i] # s /\ b.free[i] \notin Occupied(a)
    BY <1>2, <1>5, <2>1 DEF FreeList
  <2>3. \A i, k \in 1 .. n - 1 : b.free[i] = b.free[k] => i = k
    BY <1>5, <2>1 DEF FreeList
  <2> HIDE DEF b, s, n
  <2> QED BY <1>5, <1>7, <2>2, <2>3 DEF FreeList
<1>9. Bytes(b) = v + Bytes(a)
  <2>1. b.value[s] = v /\ v \in Nat /\ \A x \in Occupied(a) : b.value[x] = a.value[x]
    BY <1>1, <1>3, <1>4, PayloadsAreNaturals DEF Occupied
  <2>2. IsFiniteSet(Occupied(a)) /\ \A x \in Occupied(a) : a.value[x] \in Nat
    BY <1>1, BuffersFinite
  <2> HIDE DEF b, s
  <2>3. SumFunctionOnSet(b.value, Occupied(a) \cup {s}) = b.value[s] + SumFunctionOnSet(b.value, Occupied(a))
    BY <1>3, <2>1, <2>2, SumAdd
  <2>4. SumFunctionOnSet(b.value, Occupied(a)) = SumFunctionOnSet(a.value, Occupied(a))
    BY <2>1, <2>2, SumSame
  <2> QED BY <1>7, <2>1, <2>3, <2>4 DEF Bytes
<1> QED BY <1>6, <1>8, <1>9

(* remove gives up the bytes of the slot it empties. *)
LEMMA RemovedBytes ==
  ASSUME NEW a \in Arenas, FreeList(a), NEW s \in Occupied(a)
  PROVE  /\ Removed(a, s) \in Arenas /\ FreeList(Removed(a, s))
         /\ a.value[s] \in Payloads /\ Bytes(a) = Bytes(Removed(a, s)) + a.value[s]
<1> DEFINE b == Removed(a, s)
           n == Len(a.free)
<1>1. /\ a.free \in Seq(Slots) /\ n \in Nat /\ a.retired \in Nat /\ s \in Slots
      /\ a.generation \in [Slots -> 1 .. MaxGeneration]
      /\ a.value \in [Slots -> Payloads \cup {NoPayload}] /\ a.value[s] \in Payloads
  BY LenProperties DEF Arenas, Occupied
<1>2. b.value = [a.value EXCEPT ![s] = NoPayload]
  BY <1>1 DEF Removed, Arenas
<1>3. Occupied(b) = Occupied(a) \ {s}
  BY <1>1, <1>2 DEF Occupied
<1>4. b \in Arenas /\ FreeList(b)
  <2>1. CASE Worn(a, s)
    <3>1. b = [generation |-> a.generation, value |-> b.value, free |-> a.free, retired |-> a.retired + 1]
      BY <2>1 DEF Removed, Arenas
    <3>2. b \in Arenas
      <4>1. a.retired + 1 \in Nat /\ b.value \in [Slots -> Payloads \cup {NoPayload}]
        BY <1>1, <1>2
      <4> HIDE DEF b
      <4> QED BY <1>1, <3>1, <4>1 DEF Arenas
    <3>3. b.free = a.free
      BY <3>1
    <3> HIDE DEF b
    <3> QED BY <1>3, <3>2, <3>3 DEF FreeList
  <2>2. CASE ~Worn(a, s)
    <3> DEFINE g == [a.generation EXCEPT ![s] = @ + 1]
    <3>1. b = [generation |-> g, value |-> [a.value EXCEPT ![s] = NoPayload],
               free |-> Append(a.free, s), retired |-> a.retired]
      BY <2>2 DEF Removed, Arenas
    <3>2. g \in [Slots -> 1 .. MaxGeneration]
      BY <1>1, <2>2, ArenaAssumption DEF Worn
    <3>3. /\ Append(a.free, s) \in Seq(Slots) /\ Len(Append(a.free, s)) = n + 1
          /\ \A i \in 1 .. n : Append(a.free, s)[i] = a.free[i]
          /\ Append(a.free, s)[n + 1] = s
      BY <1>1, AppendProperties
    <3>4. [a.value EXCEPT ![s] = NoPayload] \in [Slots -> Payloads \cup {NoPayload}]
      BY <1>1
    <3> HIDE DEF b, g
    <3>5. b \in Arenas /\ b.free = Append(a.free, s)
      BY <1>1, <3>1, <3>2, <3>3, <3>4 DEF Arenas
    <3>6. \A i \in 1 .. n + 1 : i = n + 1 \/ i \in 1 .. n
      BY <1>1
    <3>7. \A i \in 1 .. n : a.free[i] \notin Occupied(a) /\ a.free[i] # s
      BY DEF FreeList
    <3>8. \A i, k \in 1 .. n + 1 : b.free[i] = b.free[k] => i = k
      BY <3>3, <3>5, <3>6, <3>7 DEF FreeList
    <3>9. \A i \in 1 .. n + 1 : b.free[i] \notin Occupied(b)
      BY <1>3, <3>3, <3>5, <3>6, <3>7
    <3>10. Len(b.free) = n + 1
      BY <3>3, <3>5
    <3> QED BY <3>5, <3>8, <3>9, <3>10 DEF FreeList
  <2> QED BY <2>1, <2>2
<1>5. Bytes(a) = a.value[s] + Bytes(b)
  <2>1. IsFiniteSet(Occupied(a)) /\ \A x \in Occupied(a) : a.value[x] \in Nat
    BY <1>1, BuffersFinite
  <2>2. SumFunctionOnSet(a.value, Occupied(a)) = a.value[s] + SumFunctionOnSet(a.value, Occupied(a) \ {s})
    BY <2>1, SumRemove
  <2>3. IsFiniteSet(Occupied(a) \ {s}) /\ \A x \in Occupied(a) \ {s} : b.value[x] = a.value[x]
    BY <1>1, <1>2, <2>1, FS_RemoveElement DEF Occupied
  <2> HIDE DEF b
  <2>4. SumFunctionOnSet(b.value, Occupied(a) \ {s}) = SumFunctionOnSet(a.value, Occupied(a) \ {s})
    BY <2>1, <2>3, SumSame
  <2> QED BY <1>3, <2>2, <2>4 DEF Bytes
<1>6. Bytes(b) \in Nat /\ a.value[s] \in Nat
  <2>1. b.value \in [Slots -> Payloads \cup {NoPayload}]
    BY <1>1, <1>2
  <2> HIDE DEF b
  <2> QED BY <1>1, <2>1, BuffersFinite, PayloadsAreNaturals
<1> QED BY <1>1, <1>4, <1>5, <1>6

(* take_all leaves no buffer, and every slot it frees waits for reuse once.   *)
LEMMA DrainedBytes ==
  ASSUME NEW a \in Arenas, FreeList(a), NEW b \in Drained(a)
  PROVE  b \in Arenas /\ FreeList(b) /\ Bytes(b) = 0
<1> DEFINE worn == {s \in Occupied(a) : Worn(a, s)}
           D == Occupied(a) \ worn
           n == Len(a.free)
           m == Cardinality(D)
           g == [s \in Slots |-> IF s \in D THEN a.generation[s] + 1 ELSE a.generation[s]]
<1>1. PICK q \in Ascending(D) :
        b = [generation |-> g, value |-> [s \in Slots |-> NoPayload],
             free |-> a.free \o q, retired |-> a.retired + Cardinality(worn)]
  BY DEF Drained
<1>2. /\ a.free \in Seq(Slots) /\ n \in Nat /\ a.retired \in Nat
      /\ a.generation \in [Slots -> 1 .. MaxGeneration]
      /\ a.value \in [Slots -> Payloads \cup {NoPayload}]
  BY LenProperties DEF Arenas
<1>3. m \in Nat /\ Cardinality(worn) \in Nat
  <2>1. IsFiniteSet(Occupied(a))
    BY <1>2, BuffersFinite
  <2>2. IsFiniteSet(D) /\ IsFiniteSet(worn)
    BY <2>1, FS_Subset
  <2> QED BY <2>2, FS_CardinalityType
<1>4. /\ q \in [1 .. m -> D]
      /\ \A i, k \in 1 .. m : i < k => q[i] < q[k]
  BY DEF Ascending
<1>5. D \subseteq Slots /\ Slots \subseteq Int
  BY ArenaAssumption DEF Occupied, Slots
<1>6. q \in Seq(Slots) /\ Len(q) = m
  <2>1. q \in [1 .. m -> Slots]
    BY <1>4, <1>5
  <2>2. q \in Seq(Slots)
    BY <1>3, <2>1, SeqDef
  <2> QED BY <1>3, <2>1, <2>2, LenProperties
<1>7. g \in [Slots -> 1 .. MaxGeneration]
  <2>1. \A s \in D : a.generation[s] # MaxGeneration
    BY DEF Worn
  <2> HIDE DEF D
  <2> QED BY <1>2, <1>5, <2>1, ArenaAssumption
<1> HIDE DEF g, worn, m, n
<1>8. /\ b.free = a.free \o q /\ b.value = [s \in Slots |-> NoPayload]
  BY <1>1
<1>9. /\ b.free \in Seq(Slots) /\ Len(b.free) = n + m
      /\ \A i \in 1 .. n + m : b.free[i] = IF i <= n THEN a.free[i] ELSE q[i - n]
  <2>1. /\ a.free \o q \in Seq(Slots) /\ Len(a.free \o q) = n + m
        /\ \A i \in 1 .. n + m : (a.free \o q)[i] = IF i <= n THEN a.free[i] ELSE q[i - n]
    BY <1>2, <1>6, ConcatProperties DEF n
  <2> QED BY <1>8, <2>1
<1>10. b \in Arenas
  <2>1. [s \in Slots |-> NoPayload] \in [Slots -> Payloads \cup {NoPayload}]
    OBVIOUS
  <2>2. a.retired + Cardinality(worn) \in Nat
    BY <1>2, <1>3
  <2>3. a.free \o q \in Seq(Slots)
    BY <1>8, <1>9
  <2> QED BY <1>1, <1>7, <2>1, <2>2, <2>3 DEF Arenas
<1>11. Occupied(b) = {}
  BY <1>8 DEF Occupied
<1>12. \A i, k \in 1 .. n + m : i < k => b.free[i] # b.free[k]
  <2> SUFFICES ASSUME NEW i \in 1 .. n + m, NEW k \in 1 .. n + m, i < k
              PROVE  b.free[i] # b.free[k]
    OBVIOUS
  <2>1. CASE k <= n
    <3>1. i \in 1 .. n /\ k \in 1 .. n /\ i # k
      BY <1>2, <1>3, <2>1
    <3> QED BY <1>9, <2>1, <3>1 DEF FreeList, n
  <2>2. CASE i <= n /\ ~(k <= n)
    <3>1. i \in 1 .. n /\ k - n \in 1 .. m
      BY <1>2, <1>3, <2>2
    <3>2. q[k - n] \in Occupied(a)
      BY <1>4, <3>1
    <3> QED BY <1>9, <2>2, <3>1, <3>2 DEF FreeList, n
  <2>3. CASE ~(i <= n) /\ ~(k <= n)
    <3>1. i - n \in 1 .. m /\ k - n \in 1 .. m /\ i - n < k - n
      BY <1>2, <1>3, <2>3
    <3>2. q[i - n] < q[k - n] /\ q[i - n] \in Int /\ q[k - n] \in Int
      BY <1>4, <1>5, <3>1
    <3>3. q[i - n] # q[k - n]
      BY <3>2
    <3> QED BY <1>9, <2>3, <3>3
  <2>4. k <= n \/ (i <= n /\ ~(k <= n)) \/ (~(i <= n) /\ ~(k <= n))
    BY <1>2, <1>3
  <2> QED BY <2>1, <2>2, <2>3, <2>4
<1>13. FreeList(b)
  <2>1. \A i, k \in 1 .. n + m : i < k \/ k < i \/ i = k
    BY <1>2, <1>3
  <2>2. \A i, k \in 1 .. n + m : b.free[i] = b.free[k] => i = k
    BY <1>12, <2>1
  <2> QED BY <1>9, <1>11, <2>2 DEF FreeList
<1>14. Bytes(b) = 0
  BY <1>11, SumEmpty DEF Bytes
<1> QED BY <1>10, <1>13, <1>14

-----------------------------------------------------------------------------
(* The owners *)

(* What the owner keeps: its buffers or its chunks. *)
Kept == IF user = "buffers" THEN Bytes(arena) ELSE SumFunctionOnSet(chunks, 1 .. Len(chunks))

OwnerTypes ==
    /\ user \in {"threads", "buffers", "scratch"}
    /\ stage \in {"idle", "reserve", "undo", "release"}
    /\ request \in Payloads \cup {0}
    /\ arena \in Arenas /\ FreeList(arena)
    /\ chunks \in Seq(Payloads) /\ used \in Nat
    /\ user = "threads" => stage = "idle"
    /\ stage = "reserve" => request \in Payloads
    /\ stage = "undo" => user = "buffers"

(* How the budget and the books differ while the owner waits for an answer:   *)
(* by what it asked for, once that was granted, or by what it gives back,     *)
(* until that was taken.                                                     *)
Owed ==
    user # "threads" =>
        /\ stage = "idle" => call[Owner] = Idle /\ charged = Kept
        /\ stage = "reserve" =>
              \/ call[Owner].op = "reserve" /\ call[Owner].bytes = request /\ charged = Kept
              \/ call[Owner] = Idle /\ answer[Owner] = "CapacityExceeded" /\ charged = Kept
              \/ call[Owner] = Idle /\ answer[Owner] = "Ok" /\ charged = Kept + request
        /\ stage \in {"undo", "release"} =>
              \/ call[Owner].op = "release" /\ charged = Kept + call[Owner].bytes
              \/ call[Owner] = Idle /\ charged = Kept
        /\ user = "scratch" =>
              IF stage = "release" THEN chunks = <<>> ELSE used = Kept

OwnersInv == IInv /\ OwnerTypes /\ Owed

LEMMA KeptIsNat == ASSUME OwnerTypes PROVE Kept \in Nat
<1>1. arena.value \in [Slots -> Payloads \cup {NoPayload}]
  BY DEF OwnerTypes, Arenas
<1>2. Bytes(arena) \in Nat
  BY <1>1, BuffersFinite
<1>3. /\ Len(chunks) \in Nat /\ IsFiniteSet(1 .. Len(chunks))
      /\ \A i \in 1 .. Len(chunks) : chunks[i] \in Nat
  <2>1. chunks \in Seq(Payloads)
    BY DEF OwnerTypes
  <2>2. Len(chunks) \in Nat /\ \A i \in 1 .. Len(chunks) : chunks[i] \in Payloads
    BY <2>1, LenProperties, ElementOfSeq
  <2>3. IsFiniteSet(1 .. Len(chunks))
    BY <2>2, FS_Interval
  <2> QED BY <2>2, <2>3, PayloadsAreNaturals
<1> QED BY <1>2, <1>3, SumIsNat DEF Kept

(* A chunk that is pushed is one more. *)
LEMMA PushedBytes ==
  ASSUME NEW q \in Seq(Payloads), NEW v \in Payloads
  PROVE  /\ Append(q, v) \in Seq(Payloads)
         /\ SumFunctionOnSet(Append(q, v), 1 .. Len(Append(q, v)))
               = v + SumFunctionOnSet(q, 1 .. Len(q))
<1> DEFINE n == Len(q)
           r == Append(q, v)
<1>1. n \in Nat /\ \A i \in 1 .. n : q[i] \in Nat
  <2>1. n \in Nat /\ \A i \in 1 .. n : q[i] \in Payloads
    BY LenProperties, ElementOfSeq
  <2> QED BY <2>1, PayloadsAreNaturals
<1>2. /\ r \in Seq(Payloads) /\ Len(r) = n + 1
      /\ \A i \in 1 .. n : r[i] = q[i]
      /\ r[n + 1] = v /\ v \in Nat
  BY AppendProperties, PayloadsAreNaturals
<1> HIDE DEF n, r
<1>3. IsFiniteSet(1 .. n) /\ n + 1 \notin 1 .. n /\ 1 .. n + 1 = (1 .. n) \cup {n + 1}
  <2>1. IsFiniteSet(1 .. n)
    BY <1>1, FS_Interval
  <2>2. n + 1 \notin 1 .. n /\ 1 .. n + 1 = (1 .. n) \cup {n + 1}
    BY <1>1
  <2> QED BY <2>1, <2>2
<1>4. \A i \in 1 .. n : r[i] \in Nat
  BY <1>1, <1>2
<1>5. SumFunctionOnSet(r, (1 .. n) \cup {n + 1}) = r[n + 1] + SumFunctionOnSet(r, 1 .. n)
  BY <1>2, <1>3, <1>4, SumAdd
<1>6. SumFunctionOnSet(r, 1 .. n) = SumFunctionOnSet(q, 1 .. n)
  BY <1>1, <1>2, <1>3, SumSame
<1> QED BY <1>2, <1>3, <1>5, <1>6 DEF n, r

LEMMA OwnersStart == ASSUME OwnersInit PROVE OwnersInv
<1>1. IInv
  BY InitIInv DEF OwnersInit
<1>2. arena \in Arenas /\ FreeList(arena) /\ Occupied(arena) = {}
  <2> DEFINE f == [i \in 1 .. Capacity |-> Capacity - i]
  <2>1. f \in [1 .. Capacity -> Slots]
    BY ArenaAssumption DEF Slots
  <2>2. f \in Seq(Slots) /\ Len(f) = Capacity
    <3>1. f \in Seq(Slots)
      BY <2>1, ArenaAssumption, SeqDef
    <3> QED BY <2>1, <3>1, LenProperties, ArenaAssumption
  <2>3. arena = [generation |-> [s \in Slots |-> 1], value |-> [s \in Slots |-> NoPayload],
                 free |-> f, retired |-> 0]
    BY DEF OwnersInit, NewArena
  <2>4. /\ [s \in Slots |-> 1] \in [Slots -> 1 .. MaxGeneration]
        /\ [s \in Slots |-> NoPayload] \in [Slots -> Payloads \cup {NoPayload}]
    BY ArenaAssumption
  <2>5. arena \in Arenas
    <3> HIDE DEF f
    <3> QED BY <2>2, <2>3, <2>4 DEF Arenas
  <2>6. Occupied(arena) = {}
    BY <2>3 DEF Occupied
  <2>7. \A i, k \in 1 .. Capacity : f[i] = f[k] => i = k
    BY ArenaAssumption
  <2>8. arena.free = f
    BY <2>3
  <2> HIDE DEF f
  <2> QED BY <2>2, <2>5, <2>6, <2>7, <2>8 DEF FreeList
<1>3. Bytes(arena) = 0
  BY <1>2, SumEmpty DEF Bytes
<1>4. SumFunctionOnSet(chunks, 1 .. Len(chunks)) = 0
  <2>1. 1 .. Len(chunks) = {}
    BY DEF OwnersInit
  <2> QED BY <2>1, SumEmpty
<1>5. OwnerTypes
  BY <1>2 DEF OwnersInit, OwnerTypes
<1>6. call[Owner] = Idle /\ charged = 0
  BY OwnerAssumption DEF OwnersInit, Init
<1>7. Owed
  BY <1>3, <1>4, <1>6 DEF OwnersInit, Owed, Kept
<1> QED BY <1>1, <1>5, <1>7 DEF OwnersInv

(* A call to the budget, of a size the budget may be asked for. *)
LEMMA CallBegins ==
  ASSUME IInv, NEW op \in {"reserve", "release"}, NEW n \in Sizes, NEW s, Calls(op, n, s)
  PROVE  /\ IInv' /\ Next /\ stage' = s
         /\ call'[Owner].op = op /\ call'[Owner].bytes = n
         /\ call[Owner] = Idle
         /\ UNCHANGED <<charged, held, answer>>
<1>1. Owner \in Threads /\ Enter(Owner, op, n) /\ stage' = s
  BY OwnerAssumption DEF Calls
<1>2. IInv'
  BY <1>1, EnterKeeps
<1>3. Next
  BY <1>1 DEF Next
<1>4. call'[Owner] = [op |-> op, bytes |-> n, current |-> NotRead]
  BY <1>1 DEF Enter, IInv, TypeInv
<1> QED BY <1>1, <1>2, <1>3, <1>4 DEF Enter

(* What the budget may answer while the owner waits. *)
LEMMA BudgetMoves ==
  ASSUME IInv, Load(Owner) \/ Exchange(Owner) \/ ExchangeFails(Owner)
  PROVE  /\ IInv' /\ Next
         /\ call[Owner].op \in {"reserve", "release"}
         /\ \/ call'[Owner].op = call[Owner].op /\ call'[Owner].bytes = call[Owner].bytes
               /\ charged' = charged
            \/ call'[Owner] = Idle /\ call[Owner].op = "reserve"
               /\ answer'[Owner] = "CapacityExceeded" /\ charged' = charged
            \/ call'[Owner] = Idle /\ call[Owner].op = "reserve"
               /\ answer'[Owner] = "Ok" /\ charged' = charged + call[Owner].bytes
            \/ call'[Owner] = Idle /\ call[Owner].op = "release"
               /\ charged' = SaturatingSub(charged, call[Owner].bytes)
<1>1. Owner \in Threads /\ call \in [Threads -> CallRecords]
      /\ answer \in [Threads -> {"none", "Ok", "CapacityExceeded"}]
  BY OwnerAssumption DEF IInv, TypeInv, CallRecords
<1>2. IInv' /\ Next
  BY <1>1, LoadKeeps, ExchangeKeeps, ExchangeFailsKeeps DEF Next
<1>3. CASE Load(Owner) \/ ExchangeFails(Owner)
  <2>1. call[Owner].op # "none" /\ Reads(Owner)
    BY <1>1, <1>3 DEF IInv, CallsSound, Load, ExchangeFails, Idle
  <2>2. call[Owner].op \in {"reserve", "release"}
    BY <1>1, <2>1 DEF CallRecords
  <2>3. CASE call[Owner].op = "reserve" /\ ~Fits(charged, call[Owner].bytes)
    BY <1>1, <1>2, <2>1, <2>2, <2>3 DEF Reads, Returns
  <2>4. CASE ~(call[Owner].op = "reserve" /\ ~Fits(charged, call[Owner].bytes))
    <3>1. call' = [call EXCEPT ![Owner].current = charged] /\ charged' = charged
      BY <2>1, <2>4 DEF Reads
    <3>2. call'[Owner].op = call[Owner].op /\ call'[Owner].bytes = call[Owner].bytes
      BY <1>1, <3>1 DEF CallRecords
    <3> QED BY <1>2, <2>2, <3>1, <3>2
  <2> QED BY <2>3, <2>4
<1>4. CASE Exchange(Owner)
  <2>1. call'[Owner] = Idle /\ answer'[Owner] = "Ok"
    BY <1>1, <1>4 DEF Exchange, Returns
  <2> QED BY <1>1, <1>2, <1>4, <2>1, ExchangeCharges
<1> QED BY <1>3, <1>4

LEMMA BudgetKeepsOwner == ASSUME OwnersInv, BudgetStep PROVE OwnersInv' /\ Next
<1>1. IInv /\ OwnerTypes /\ Owed /\ UNCHANGED <<user, stage, request, arena, chunks, used>>
  BY DEF OwnersInv, BudgetStep, ownerVars
<1>2. OwnerTypes' /\ Kept' = Kept
  BY <1>1 DEF OwnerTypes, Kept
<1>3. CASE user = "threads"
  <2>1. Next
    BY <1>3 DEF BudgetStep
  <2>2. IInv'
    BY <1>1, <2>1, NextKeeps
  <2>3. Owed'
    BY <1>1, <1>3 DEF Owed
  <2> QED BY <1>2, <2>1, <2>2, <2>3 DEF OwnersInv
<1>4. CASE user # "threads"
  <2>1. Load(Owner) \/ Exchange(Owner) \/ ExchangeFails(Owner)
    BY <1>4 DEF BudgetStep
  <2>2. IInv' /\ Next
    BY <1>1, <2>1, BudgetMoves
  <2>3. Kept \in Nat /\ charged \in Nat /\ call[Owner].bytes \in Nat
    BY <1>1, KeptIsNat, SizesAreNaturals, OwnerAssumption DEF IInv, TypeInv
  <2>4. /\ call[Owner].op \in {"reserve", "release"}
        /\ \/ call'[Owner].op = call[Owner].op /\ call'[Owner].bytes = call[Owner].bytes
              /\ charged' = charged
           \/ call'[Owner] = Idle /\ call[Owner].op = "reserve"
              /\ answer'[Owner] = "CapacityExceeded" /\ charged' = charged
           \/ call'[Owner] = Idle /\ call[Owner].op = "reserve"
              /\ answer'[Owner] = "Ok" /\ charged' = charged + call[Owner].bytes
           \/ call'[Owner] = Idle /\ call[Owner].op = "release"
              /\ charged' = SaturatingSub(charged, call[Owner].bytes)
    BY <1>1, <2>1, BudgetMoves
  <2>5. stage # "idle"
    BY <1>1, <1>4, <2>4 DEF Owed, Idle
  <2>6. CASE stage = "reserve"
    <3>1. call[Owner].op = "reserve" /\ call[Owner].bytes = request /\ charged = Kept
      BY <1>1, <1>4, <2>4, <2>6 DEF Owed, Idle
    <3>2. \/ call'[Owner].op = "reserve" /\ call'[Owner].bytes = request /\ charged' = Kept
          \/ call'[Owner] = Idle /\ answer'[Owner] = "CapacityExceeded" /\ charged' = Kept
          \/ call'[Owner] = Idle /\ answer'[Owner] = "Ok" /\ charged' = Kept + request
      BY <2>4, <3>1
    <3>3. Owed'
      BY <1>1, <1>2, <1>4, <2>6, <3>2 DEF Owed
    <3> QED BY <1>2, <2>2, <3>3 DEF OwnersInv
  <2>7. CASE stage \in {"undo", "release"}
    <3>1. call[Owner].op = "release" /\ charged = Kept + call[Owner].bytes
      BY <1>1, <1>4, <2>4, <2>7 DEF Owed, Idle
    <3>2. SaturatingSub(charged, call[Owner].bytes) = Kept
      BY <2>3, <3>1 DEF SaturatingSub
    <3>3. \/ call'[Owner].op = "release" /\ charged' = Kept + call'[Owner].bytes
          \/ call'[Owner] = Idle /\ charged' = Kept
      BY <2>4, <3>1, <3>2
    <3>4. Owed'
      BY <1>1, <1>2, <1>4, <2>7, <3>3 DEF Owed
    <3> QED BY <1>2, <2>2, <3>4 DEF OwnersInv
  <2> QED BY <1>1, <2>5, <2>6, <2>7 DEF OwnerTypes
<1> QED BY <1>3, <1>4

(* A step of the owner that the budget does not see. *)
LEMMA OwnerAlone ==
  ASSUME OwnersInv, UNCHANGED <<vars, user>>, OwnerTypes', Owed'
  PROVE  OwnersInv'
  BY StutterKeeps DEF OwnersInv

LEMMA AllocateKeeps ==
  ASSUME OwnersInv, NEW n \in Payloads, Allocate(n)
  PROVE  OwnersInv' /\ Next
<1>1. /\ user # "threads" /\ stage = "idle" /\ request' = n
      /\ Calls("reserve", n, "reserve") /\ UNCHANGED <<user, arena, chunks, used>>
  BY DEF Allocate
<1>2. n \in Sizes
  BY OwnerAssumption
<1>3. IInv' /\ Next /\ stage' = "reserve" /\ call'[Owner].op = "reserve" /\ call'[Owner].bytes = n
      /\ charged' = charged
  BY <1>1, <1>2, CallBegins DEF OwnersInv
<1>4. Kept' = Kept
  BY <1>1 DEF Kept
<1>5. OwnerTypes'
  BY <1>1, <1>3 DEF OwnersInv, OwnerTypes
<1>6. charged = Kept /\ (user = "scratch" => used = Kept)
  BY <1>1 DEF OwnersInv, Owed
<1>7. Owed'
  BY <1>1, <1>3, <1>4, <1>6 DEF Owed
<1> QED BY <1>3, <1>5, <1>7 DEF OwnersInv

LEMMA RefusedKeeps == ASSUME OwnersInv, Refused PROVE OwnersInv'
<1>1. /\ stage = "reserve" /\ stage' = "idle" /\ call[Owner] = Idle
      /\ answer[Owner] = "CapacityExceeded"
      /\ UNCHANGED <<vars, user, request, arena, chunks, used>>
  BY DEF Refused, Answered
<1>2. Kept' = Kept
  BY <1>1 DEF Kept
<1>3. OwnerTypes'
  BY <1>1 DEF OwnersInv, OwnerTypes
<1>4. Owed'
  BY <1>1, <1>2 DEF OwnersInv, OwnerTypes, Owed, Idle, vars
<1> QED BY <1>1, <1>3, <1>4, OwnerAlone

(* What the owner knows when its reservation was granted. *)
LEMMA Granted ==
  ASSUME OwnersInv, Answered("reserve"), answer[Owner] = "Ok"
  PROVE  /\ user # "threads" /\ request \in Payloads /\ charged = Kept + request
         /\ call[Owner] = Idle /\ Kept \in Nat /\ request \in Nat
         /\ user = "scratch" => used = Kept
<1>1. stage = "reserve" /\ call[Owner] = Idle /\ user # "threads" /\ request \in Payloads
  BY DEF Answered, OwnersInv, OwnerTypes
<1>2. charged = Kept + request /\ (user = "scratch" => used = Kept)
  BY <1>1 DEF OwnersInv, Owed, Idle
<1> QED BY <1>1, <1>2, KeptIsNat, PayloadsAreNaturals DEF OwnersInv

LEMMA BufferInsertedKeeps == ASSUME OwnersInv, BufferInserted PROVE OwnersInv'
<1>1. /\ user = "buffers" /\ CanInsert(arena) /\ arena' = Inserted(arena, request)
      /\ stage' = "idle" /\ UNCHANGED <<vars, user, request, chunks, used>>
  BY DEF BufferInserted
<1>2. request \in Payloads /\ charged = Kept + request /\ call[Owner] = Idle
      /\ Kept \in Nat /\ request \in Nat
  BY Granted DEF BufferInserted
<1>3. arena' \in Arenas /\ FreeList(arena') /\ Bytes(arena') = request + Bytes(arena)
  BY <1>1, <1>2, InsertedBytes DEF OwnersInv, OwnerTypes
<1>4. OwnerTypes'
  BY <1>1, <1>3 DEF OwnersInv, OwnerTypes
<1>5. Kept = Bytes(arena) /\ Kept' = Bytes(arena')
  BY <1>1 DEF Kept
<1>6. charged' = Kept' /\ call'[Owner] = Idle
  BY <1>1, <1>2, <1>3, <1>5 DEF vars
<1>7. Owed'
  BY <1>1, <1>6 DEF Owed
<1> QED BY <1>1, <1>4, <1>7, OwnerAlone

LEMMA InsertFailsKeeps == ASSUME OwnersInv, InsertFails PROVE OwnersInv' /\ Next
<1>1. /\ user = "buffers" /\ Calls("release", request, "undo")
      /\ UNCHANGED <<user, request, arena, chunks, used>>
  BY DEF InsertFails
<1>2. request \in Payloads /\ charged = Kept + request
  BY Granted DEF InsertFails
<1>3. IInv' /\ Next /\ stage' = "undo" /\ call'[Owner].op = "release"
      /\ call'[Owner].bytes = request /\ charged' = charged
  BY <1>1, <1>2, CallBegins, OwnerAssumption DEF OwnersInv
<1>4. Kept' = Kept
  BY <1>1 DEF Kept
<1>5. OwnerTypes'
  BY <1>1, <1>3 DEF OwnersInv, OwnerTypes
<1>6. Owed'
  BY <1>1, <1>2, <1>3, <1>4 DEF Owed
<1> QED BY <1>3, <1>5, <1>6 DEF OwnersInv

LEMMA ChunkPushedKeeps == ASSUME OwnersInv, ChunkPushed PROVE OwnersInv'
<1>1. /\ user = "scratch" /\ chunks' = Append(chunks, request) /\ used' = used + request
      /\ stage' = "idle" /\ UNCHANGED <<vars, user, request, arena>>
  BY DEF ChunkPushed
<1>2. request \in Payloads /\ charged = Kept + request /\ call[Owner] = Idle
      /\ Kept \in Nat /\ request \in Nat /\ used = Kept
  BY <1>1, Granted DEF ChunkPushed
<1>3. /\ chunks' \in Seq(Payloads)
      /\ SumFunctionOnSet(chunks', 1 .. Len(chunks'))
            = request + SumFunctionOnSet(chunks, 1 .. Len(chunks))
  BY <1>1, <1>2, PushedBytes DEF OwnersInv, OwnerTypes
<1>4. used' \in Nat
  BY <1>1, <1>2
<1>5. OwnerTypes'
  BY <1>1, <1>3, <1>4 DEF OwnersInv, OwnerTypes
<1>6. /\ Kept = SumFunctionOnSet(chunks, 1 .. Len(chunks))
      /\ Kept' = SumFunctionOnSet(chunks', 1 .. Len(chunks'))
  BY <1>1 DEF Kept
<1>7. charged' = Kept' /\ used' = Kept' /\ call'[Owner] = Idle
  BY <1>1, <1>2, <1>3, <1>6 DEF vars
<1>8. Owed'
  BY <1>1, <1>7 DEF Owed
<1> QED BY <1>1, <1>5, <1>8, OwnerAlone

(* Bytes that are given back between two operations were kept until then.    *)
LEMMA GivenBack ==
  ASSUME OwnersInv, NEW n \in Nat, user # "threads", stage = "idle", user' = user,
         Calls("release", n, "release"), request' = request, OwnerTypes',
         Kept' \in Nat, Kept = Kept' + n, user = "scratch" => chunks' = <<>>
  PROVE  OwnersInv' /\ Next
<1>1. charged = Kept
  BY DEF OwnersInv, Owed
<1>2. charged \in 0 .. Limit
  BY DEF OwnersInv, IInv, TypeInv
<1>3. n \in Sizes
  <2> DEFINE k == Kept'
  <2>1. k \in Nat /\ charged = k + n
    BY <1>1
  <2> HIDE DEF k
  <2>2. n \in 0 .. Limit
    BY <1>2, <2>1, SizesAreNaturals
  <2> QED BY <2>2, OwnerAssumption
<1>4. IInv' /\ Next /\ stage' = "release" /\ call'[Owner].op = "release"
      /\ call'[Owner].bytes = n /\ charged' = charged
  BY <1>3, CallBegins DEF OwnersInv
<1>5. Owed'
  BY <1>1, <1>4 DEF Owed
<1> QED BY <1>4, <1>5 DEF OwnersInv

LEMMA ReleaseBufferKeeps ==
  ASSUME OwnersInv, NEW s \in Slots, ReleaseBuffer(s)
  PROVE  OwnersInv' /\ Next
<1>1. /\ user = "buffers" /\ stage = "idle" /\ s \in Occupied(arena)
      /\ arena' = Removed(arena, s) /\ Calls("release", arena.value[s], "release")
      /\ UNCHANGED <<user, request, chunks, used>>
  BY DEF ReleaseBuffer
<1>2. /\ arena' \in Arenas /\ FreeList(arena') /\ arena.value[s] \in Payloads
      /\ Bytes(arena) = Bytes(arena') + arena.value[s]
  BY <1>1, RemovedBytes DEF OwnersInv, OwnerTypes
<1>3. arena.value[s] \in Nat /\ stage' = "release"
  BY <1>1, <1>2, PayloadsAreNaturals DEF Calls
<1>4. OwnerTypes'
  BY <1>1, <1>2, <1>3 DEF OwnersInv, OwnerTypes
<1>5. Kept = Kept' + arena.value[s] /\ Kept' \in Nat
  <2>1. arena'.value \in [Slots -> Payloads \cup {NoPayload}]
    BY <1>2 DEF Arenas
  <2>2. Bytes(arena') \in Nat
    BY <2>1, BuffersFinite
  <2>3. Kept = Bytes(arena) /\ Kept' = Bytes(arena')
    BY <1>1 DEF Kept
  <2> QED BY <1>2, <2>2, <2>3
<1> QED BY <1>1, <1>3, <1>4, <1>5, GivenBack

LEMMA ReleaseAllKeeps == ASSUME OwnersInv, ReleaseAll PROVE OwnersInv' /\ Next
<1>1. /\ user = "buffers" /\ stage = "idle" /\ arena' \in Drained(arena)
      /\ Calls("release", LiveBytes, "release") /\ UNCHANGED <<user, request, chunks, used>>
  BY DEF ReleaseAll
<1>2. arena' \in Arenas /\ FreeList(arena') /\ Bytes(arena') = 0
  BY <1>1, DrainedBytes DEF OwnersInv, OwnerTypes
<1>3. stage' = "release"
  BY <1>1 DEF Calls
<1>4. OwnerTypes'
  BY <1>1, <1>2, <1>3 DEF OwnersInv, OwnerTypes
<1>5. LiveBytes = Kept /\ Kept \in Nat /\ Kept' = 0
  BY <1>1, <1>2, KeptIsNat DEF OwnersInv, Kept, LiveBytes, Bytes
<1>6. Kept = Kept' + LiveBytes /\ Kept' \in Nat /\ LiveBytes \in Nat
  BY <1>5
<1>7. user # "threads" /\ user' = user /\ request' = request /\ user # "scratch"
  BY <1>1
<1> QED BY <1>1, <1>4, <1>6, <1>7, GivenBack

LEMMA ResetKeeps == ASSUME OwnersInv, Reset PROVE OwnersInv' /\ Next
<1>1. /\ user = "scratch" /\ stage = "idle" /\ chunks' = <<>>
      /\ Calls("release", used, "release") /\ UNCHANGED <<user, request, arena, used>>
  BY DEF Reset
<1>2. stage' = "release" /\ <<>> \in Seq(Payloads)
  BY <1>1 DEF Calls
<1>3. OwnerTypes'
  BY <1>1, <1>2 DEF OwnersInv, OwnerTypes
<1>4. used = Kept /\ Kept \in Nat
  BY <1>1, KeptIsNat DEF OwnersInv, Owed
<1>5. Kept' = 0
  <2>1. 1 .. Len(chunks') = {}
    BY <1>1
  <2>2. Kept' = SumFunctionOnSet(chunks', 1 .. Len(chunks'))
    BY <1>1 DEF Kept
  <2> QED BY <2>1, <2>2, SumEmpty
<1>6. Kept = Kept' + used /\ Kept' \in Nat /\ used \in Nat
  BY <1>4, <1>5
<1>7. user # "threads" /\ user' = user /\ request' = request
  BY <1>1
<1> QED BY <1>1, <1>3, <1>6, <1>7, GivenBack

LEMMA ReleasedKeeps == ASSUME OwnersInv, Released PROVE OwnersInv'
<1>1. /\ stage \in {"undo", "release"} /\ call[Owner] = Idle /\ stage' = "idle" /\ used' = 0
      /\ UNCHANGED <<vars, user, request, arena, chunks>>
  BY DEF Released, Answered
<1>2. user # "threads" /\ (user = "scratch" => stage = "release")
  BY <1>1 DEF OwnersInv, OwnerTypes
<1>3. charged = Kept /\ (user = "scratch" => chunks = <<>>)
  BY <1>1, <1>2 DEF OwnersInv, Owed, Idle
<1>4. Kept' = Kept
  BY <1>1 DEF Kept
<1>5. user = "scratch" => Kept = 0
  <2> SUFFICES ASSUME user = "scratch" PROVE Kept = 0
    OBVIOUS
  <2>1. 1 .. Len(chunks) = {}
    BY <1>3
  <2> QED BY <2>1, SumEmpty DEF Kept
<1>6. OwnerTypes'
  BY <1>1 DEF OwnersInv, OwnerTypes
<1>7. charged' = charged /\ call' = call
  BY <1>1 DEF vars
<1>8. Owed'
  BY <1>1, <1>2, <1>3, <1>4, <1>5, <1>7 DEF Owed
<1> QED BY <1>1, <1>6, <1>8, OwnerAlone

LEMMA OwnersStepKeeps ==
  ASSUME OwnersInv, [OwnersNext]_allVars
  PROVE  OwnersInv' /\ [Next]_vars
<1>1. CASE UNCHANGED allVars
  <2>1. UNCHANGED <<vars, user, stage, request, arena, chunks, used>>
    BY <1>1 DEF allVars, ownerVars
  <2>2. OwnerTypes' /\ Owed'
    BY <2>1 DEF OwnersInv, OwnerTypes, Owed, Kept, vars
  <2> QED BY <2>1, <2>2, OwnerAlone
<1>2. CASE BudgetStep
  BY <1>2, BudgetKeepsOwner
<1>3. CASE OwnerStep
  <2>1. UNCHANGED vars \/ ~(Refused \/ BufferInserted \/ ChunkPushed \/ Released)
    BY DEF Refused, BufferInserted, ChunkPushed, Released
  <2> QED BY <1>3, <2>1, AllocateKeeps, RefusedKeeps, BufferInsertedKeeps, InsertFailsKeeps,
             ChunkPushedKeeps, ReleaseBufferKeeps, ReleaseAllKeeps, ResetKeeps, ReleasedKeeps
          DEF OwnerStep
<1> QED BY <1>1, <1>2, <1>3 DEF OwnersNext

(* The owners use the budget as its threads do: what holds of MemoryBudget   *)
(* holds of it in their hands.                                               *)
THEOREM OwnersUseTheBudget == OwnersSpec => Spec /\ []OwnersInv
<1>1. OwnersInit => OwnersInv /\ Init
  BY OwnersStart DEF OwnersInit
<1>2. OwnersInv /\ [OwnersNext]_allVars => OwnersInv' /\ [Next]_vars
  BY OwnersStepKeeps
<1> QED BY <1>1, <1>2, PTL DEF OwnersSpec, Spec

(* Native buffers and call scratch never keep a byte that is not charged, and *)
(* between their operations have charged exactly what they keep.             *)
THEOREM OwnersPay == OwnersSpec => []OwnersCharged
<1>1. ASSUME OwnersInv PROVE OwnersCharged
  <2> DEFINE kept == IF user = "buffers" THEN LiveBytes ELSE FoldFunction(+, 0, chunks)
  <2>1. user \in {"threads", "buffers", "scratch"} /\ DOMAIN chunks = 1 .. Len(chunks)
    BY <1>1, LenProperties DEF OwnersInv, OwnerTypes
  <2>2. FoldFunction(+, 0, chunks) = SumFunctionOnSet(chunks, DOMAIN chunks)
    BY Zenon DEF FoldFunction, SumFunctionOnSet
  <2>3. kept = Kept
    BY <2>1, <2>2 DEF Kept, LiveBytes, Bytes
  <2>4. Kept \in Nat /\ request \in Nat /\ call[Owner].bytes \in Nat
    BY <1>1, KeptIsNat, SizesAreNaturals, PayloadsAreNaturals, OwnerAssumption
       DEF OwnersInv, OwnerTypes, IInv, TypeInv
  <2>5. ASSUME user # "threads" PROVE Kept <= charged
    BY <1>1, <2>4, <2>5 DEF OwnersInv, OwnerTypes, Owed
  <2>6. ASSUME user # "threads", stage = "idle"
        PROVE  charged = Kept /\ (user = "scratch" => used = Kept)
    BY <1>1, <2>6 DEF OwnersInv, Owed
  <2> HIDE DEF kept
  <2>7. user # "threads" => /\ kept <= charged
                            /\ stage = "idle" => charged = kept
                            /\ user = "scratch" /\ stage = "idle" => used = kept
    BY <2>3, <2>5, <2>6
  <2> QED BY <2>7 DEF OwnersCharged, kept
<1> QED BY <1>1, OwnersUseTheBudget, PTL

(* The loops keep the promise of MemoryLedger in the hands of an owner, too.  *)
THEOREM OwnersRefine == OwnersSpec => ImplementsLedger
  BY OwnersUseTheBudget, Refinement, PTL
=============================================================================
