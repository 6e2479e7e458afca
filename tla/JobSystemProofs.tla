--------------------------- MODULE JobSystemProofs ---------------------------
(***************************************************************************)
(* The safety of the job system for any number of hosts, workers and jobs,  *)
(* any configuration and any budget.                                        *)
(***************************************************************************)
EXTENDS JobSystem, JobOutcomes, SumLemmas, FiniteSetTheorems, SequenceTheorems, TLAPS

(* Where a thread of each kind can be. *)
PlacesOf(t) ==
    IF t \in Hosts THEN {"idle", "submit", "notify", "finish"} \cup Executing
    ELSE IF t \in Workers THEN {"unborn", "check", "waiting", "exited", "finish"} \cup Executing
    ELSE IF t = Owner THEN {"idle", "stop", "stop_notify"}
    ELSE {"idle", "stop", "stop_notify", "read_running", "read_workers", "clear", "drop_old"}

Places == pc \in [Threads -> PCs] /\ \A t \in Threads : pc[t] \in PlacesOf(t)

(* A thread has a Work exactly while it executes it or is about to drop it,   *)
(* and an answer exactly when it is about to publish one.                    *)
Works ==
    \A t \in Threads :
       /\ work[t] = 0 <=> pc[t] \notin Executing \cup {"finish"}
       /\ work[t] < nextId
       /\ answer[t] = "none" <=> pc[t] # "publish"

(* The admission guard is held by the host that submits, and by nobody else. *)
Gate ==
    /\ \A h \in Hosts : pc[h] \in {"submit", "notify"} <=> admission = h
    /\ admission # NoThread => sys \in {"live", "destroyed"}
    /\ phase = "Quiescing" => admission = NoThread

(* How far the threads that stop the system have come. *)
Stopping ==
    /\ pc[Closer] # "idle" => sys = "live"
    /\ stage[Closer] # "none" => phase = "Quiescing"
    /\ pc[Closer] \in {"stop", "stop_notify"} => stage[Closer] \in {"cancel", "quiesce", "destroy"}
    /\ pc[Closer] \in {"read_running", "read_workers"} => stage[Closer] \in {"quiesce", "destroy"}
    /\ pc[Closer] \in {"clear", "drop_old"} => stage[Closer] = "destroy"
    /\ pc[Closer] = "idle" /\ stage[Closer] = "destroy" => sys = "destroyed"
    /\ pc[Closer] \in {"stop_notify", "read_running", "read_workers"} => ~accepting
    /\ stage[Owner] \in {"none", "create", "cancel"}
    /\ stage[Owner] = "create" => sys = "failed"
    /\ pc[Owner] # "idle" => stage[Owner] # "none"
    /\ ~accepting => stage[Owner] # "none" \/ phase = "Quiescing"

(* What the reads of a pass tell it stays true. *)
Reads ==
    /\ pc[Closer] = "read_workers" /\ seen = 0 => Holders = {}
    /\ pc[Closer] = "read_workers" /\ stage[Closer] = "destroy" => seen = 0

(* The jobs whose bytes are reserved. *)
Reserved == table \cup results \cup doomed

(* Ids are handed out in order; a job that has not ended has its record; a    *)
(* reservation has one holder, and destroy lets go of those it took.         *)
Jobs ==
    /\ \A j \in JobIds : state[j] = "none" <=> j >= nextId
    /\ \A j \in JobIds : state[j] \in {"Queued", "Running"} => j \in table
    /\ \A j \in Reserved : j < nextId
    /\ table \cap results = {} /\ table \cap doomed = {} /\ results \cap doomed = {}
    /\ doomed # {} => pc[Closer] = "drop_old"

Lists ==
    /\ Range(queue) = {j \in table : state[j] = "Queued"}
    /\ \A i, k \in 1 .. Len(queue) : queue[i] = queue[k] => i = k
    /\ ready \subseteq {j \in table : state[j] \in Terminal}
    /\ ~accepting => queue = <<>>

Held == running = Cardinality(Holders)

Charged == charged = SumFunctionOnSet(bytes, Reserved)

IInv ==
    /\ TypeInv
    /\ Places
    /\ Works
    /\ Gate
    /\ Stopping
    /\ Reads
    /\ Jobs
    /\ Lists
    /\ Held
    /\ LeaseHeld
    /\ AnnouncedOnce
    /\ QuiescedIsFinal
    /\ Charged
(* The function by which Retained recurs, over the first n entries of q. *)
RetainStep(q, j, n, g) ==
    [i \in 0 .. n |-> IF i = 0 THEN <<>>
                      ELSE IF q[i] = j THEN g[i - 1] ELSE Append(g[i - 1], q[i])]

LEMMA RetainStepExists ==
    ASSUME NEW q, NEW j, NEW n \in Nat
    PROVE  \E g : g = RetainStep(q, j, n, g)
<1> DEFINE Bad == {m \in Nat : ~ \E g : g = RetainStep(q, j, m, g)}
<1> SUFFICES ASSUME Bad # {} PROVE FALSE
  OBVIOUS
<1>1. PICK m \in Bad : \A k \in Bad : m <= k
  <2>1. Bad \subseteq Nat
    OBVIOUS
  <2> HIDE DEF Bad
  <2> QED  BY <2>1, LeastNatural
<1>2. m # 0
  <2> SUFFICES ASSUME m = 0 PROVE FALSE
    OBVIOUS
  <2> DEFINE G == [i \in 0 .. 0 |-> <<>>]
  <2>1. G = RetainStep(q, j, 0, G)
    BY DEF RetainStep
  <2> QED  BY <2>1
<1>3. m - 1 \in Nat /\ m - 1 \notin Bad
  BY <1>1, <1>2
<1>4. PICK h : h = RetainStep(q, j, m - 1, h)
  BY <1>3
<1> DEFINE G == [i \in 0 .. m |-> IF i = m THEN IF q[m] = j THEN h[m - 1] ELSE Append(h[m - 1], q[m])
                                           ELSE h[i]]
<1>5. \A i \in 0 .. m - 1 : G[i] = h[i]
  BY <1>3
<1>6. ASSUME NEW i \in 0 .. m
      PROVE  G[i] = IF i = 0 THEN <<>> ELSE IF q[i] = j THEN G[i - 1] ELSE Append(G[i - 1], q[i])
  <2>1. CASE i = m
    BY <2>1, <1>2, <1>3, <1>5
  <2>2. CASE i # m
    <3>1. i \in 0 .. m - 1 /\ (i # 0 => i - 1 \in 0 .. m - 1)
      BY <2>2, <1>3
    <3>2. h[i] = IF i = 0 THEN <<>> ELSE IF q[i] = j THEN h[i - 1] ELSE Append(h[i - 1], q[i])
      BY <3>1, <1>4 DEF RetainStep
    <3> HIDE DEF G
    <3> QED  BY <3>1, <3>2, <1>5
  <2> QED  BY <2>1, <2>2
<1>7. G = RetainStep(q, j, m, G)
  <2>1. G = [i \in 0 .. m |-> G[i]]
    OBVIOUS
  <2> HIDE DEF G
  <2> QED  BY <1>6, <2>1, Zenon DEF RetainStep
<1> HIDE DEF G
<1> QED  BY <1>1, <1>7

(* Retained(q, j) is a sequence of the entries of q other than j, each as      *)
(* often as before.                                                          *)
LEMMA RetainedKeepsOthers ==
    ASSUME NEW S, NEW q \in Seq(S), NEW j
    PROVE  LET r == Retained(q, j)
           IN  /\ r \in Seq(S) /\ Len(r) <= Len(q)
               /\ Range(r) = Range(q) \ {j}
               /\ (\A i, k \in 1 .. Len(q) : q[i] = q[k] => i = k)
                     => \A i, k \in 1 .. Len(r) : r[i] = r[k] => i = k
<1> DEFINE g == CHOOSE kept : kept = RetainStep(q, j, Len(q), kept)
<1>1. Len(q) \in Nat
  OBVIOUS
<1>2. g = RetainStep(q, j, Len(q), g)
  BY <1>1, RetainStepExists, Zenon
<1>3. Retained(q, j) = g[Len(q)]
  BY Zenon DEF Retained, RetainStep
<1> HIDE DEF g
<1> DEFINE Kept(n) ==
        /\ g[n] \in Seq(S) /\ Len(g[n]) <= n
        /\ \A x : (\E i \in 1 .. Len(g[n]) : g[n][i] = x) <=> (x # j /\ \E i \in 1 .. n : q[i] = x)
        /\ (\A i, k \in 1 .. n : q[i] = q[k] => i = k)
              => \A i, k \in 1 .. Len(g[n]) : g[n][i] = g[n][k] => i = k
<1> DEFINE Bad == {n \in 0 .. Len(q) : ~ Kept(n)}
<1>4. Bad = {}
  <2> SUFFICES ASSUME Bad # {} PROVE FALSE
    OBVIOUS
  <2>1. PICK n \in Bad : \A k \in Bad : n <= k
    <3>1. Bad \subseteq Nat
      BY <1>1
    <3> HIDE DEF Bad
    <3> QED  BY <3>1, LeastNatural
  <2>2. n \in 0 .. Len(q) /\ ~ Kept(n)
    BY <2>1
  <2>3. n # 0
    <3>1. g[0] = <<>>
      BY <1>1, <1>2 DEF RetainStep
    <3>2. Kept(0)
      BY <3>1
    <3> HIDE DEF Kept
    <3> QED  BY <3>2, <2>2
  <2>4. n - 1 \in 0 .. Len(q) /\ n - 1 \in Nat /\ n \in 1 .. Len(q)
    <3> HIDE DEF Kept
    <3> QED  BY <1>1, <2>2, <2>3
  <2>5. Kept(n - 1)
    <3>1. n - 1 \notin Bad
      <4> HIDE DEF Bad
      <4> QED  BY <2>1, <2>4
    <3> HIDE DEF Kept
    <3> QED  BY <3>1, <2>4
  <2>6. g[n] = IF q[n] = j THEN g[n - 1] ELSE Append(g[n - 1], q[n])
    BY <1>2, <2>2, <2>3 DEF RetainStep
  <2> DEFINE r == g[n - 1]
  <2>7. r \in Seq(S) /\ Len(r) \in Nat /\ Len(r) <= n - 1
    BY <2>5
  <2>8. CASE q[n] = j
    <3>1. g[n] = r
      BY <2>6, <2>8
    <3>2. \A i \in 1 .. n : i \in 1 .. n - 1 \/ i = n
      BY <2>4
    <3>3. \A i \in 1 .. n - 1 : i \in 1 .. n
      BY <2>4
    <3>4. \A x : (\E i \in 1 .. Len(r) : r[i] = x) <=> (x # j /\ \E i \in 1 .. n : q[i] = x)
      BY <2>5, <2>8, <3>2, <3>3
    <3>5. (\A i, k \in 1 .. n : q[i] = q[k] => i = k)
              => \A i, k \in 1 .. Len(r) : r[i] = r[k] => i = k
      BY <2>5, <3>3
    <3>6. Len(r) <= n
      BY <2>4, <2>7
    <3> HIDE DEF r
    <3> QED  BY <2>2, <2>7, <3>1, <3>4, <3>5, <3>6
  <2>9. CASE q[n] # j
    <3> DEFINE s == Append(r, q[n])
    <3>1. g[n] = s
      BY <2>6, <2>9
    <3>2. /\ s \in Seq(S) /\ Len(s) = Len(r) + 1 /\ s[Len(s)] = q[n]
          /\ \A i \in 1 .. Len(r) : s[i] = r[i]
      BY <2>4, <2>7
    <3>3. \A i \in 1 .. Len(s) : i \in 1 .. Len(r) \/ i = Len(s)
      BY <3>2, <2>7
    <3>4. \A i \in 1 .. n : i \in 1 .. n - 1 \/ i = n
      BY <2>4
    <3>5. \A i \in 1 .. n - 1 : i \in 1 .. n /\ i # n
      BY <2>4
    <3>6. \A i \in 1 .. Len(r) : i \in 1 .. Len(s)
      BY <3>2, <2>7
    <3>7. Len(s) \in 1 .. Len(s) /\ n \in 1 .. n
      BY <3>2, <2>4, <2>7
    <3>8. Len(s) <= n
      BY <3>2, <2>4, <2>7
    <3> HIDE DEF s, r
    <3>9. \A x : (\E i \in 1 .. Len(s) : s[i] = x) <=> (x # j /\ \E i \in 1 .. n : q[i] = x)
      <4> TAKE x
      <4>1. (\E i \in 1 .. Len(s) : s[i] = x) <=> (x = q[n] \/ \E i \in 1 .. Len(r) : r[i] = x)
        BY <3>2, <3>3, <3>6, <3>7
      <4>2. (\E i \in 1 .. n : q[i] = x) <=> (x = q[n] \/ \E i \in 1 .. n - 1 : q[i] = x)
        BY <3>4, <3>5, <3>7
      <4>3. (\E i \in 1 .. Len(r) : r[i] = x) <=> (x # j /\ \E i \in 1 .. n - 1 : q[i] = x)
        BY <2>5 DEF r
      <4> QED  BY <4>1, <4>2, <4>3, <2>9
    <3>10. ASSUME \A i, k \in 1 .. n : q[i] = q[k] => i = k
           PROVE  \A i, k \in 1 .. Len(s) : s[i] = s[k] => i = k
      <4>1. \A i, k \in 1 .. n - 1 : q[i] = q[k] => i = k
        BY <3>10, <3>5
      <4>2. \A i, k \in 1 .. Len(r) : r[i] = r[k] => i = k
        BY <4>1, <2>5 DEF r
      <4>3. \A i \in 1 .. Len(r) : r[i] # q[n]
        <5> SUFFICES ASSUME NEW i \in 1 .. Len(r), r[i] = q[n] PROVE FALSE
          OBVIOUS
        <5>1. \E k \in 1 .. n - 1 : q[k] = q[n]
          BY <2>5 DEF r
        <5> QED  BY <5>1, <3>10, <3>5, <3>7
      <4> QED  BY <4>2, <4>3, <3>2, <3>3
    <3> QED  BY <2>2, <3>1, <3>2, <3>8, <3>9, <3>10
  <2> QED  BY <2>8, <2>9
<1>5. Kept(Len(q))
  <2> HIDE DEF Kept
  <2> QED  BY <1>1, <1>4
<1> DEFINE r == Retained(q, j)
<1>6. r \in Seq(S) /\ DOMAIN r = 1 .. Len(r) /\ DOMAIN q = 1 .. Len(q)
  BY <1>3, <1>5
<1>7. \A x : (\E i \in DOMAIN r : r[i] = x) <=> (x # j /\ \E i \in DOMAIN q : q[i] = x)
  BY <1>3, <1>5, <1>6
<1>8. Range(r) = Range(q) \ {j}
  <2> HIDE DEF r
  <2> QED  BY <1>7, Zenon DEF Range
<1> QED  BY <1>3, <1>5, <1>8
USE DEF contextVars, schedulerVars, jobVars, ledgerVars, threadVars, closeVars

-----------------------------------------------------------------------------
(* Steps of the position of threads *)

(* Thread t goes to p; other threads stay, but for waiting workers it wakes.  *)
Moves(t, p) ==
    /\ pc' \in [Threads -> PCs]
    /\ pc'[t] = p
    /\ \A u \in Threads \ {t} :
          pc'[u] = pc[u] \/ (u \in Workers /\ pc[u] = "waiting" /\ pc'[u] = "check")

LEMMA GotoMoves ==
    ASSUME Places, NEW t \in Threads, NEW p \in PCs, Goto(t, p)
    PROVE  Moves(t, p)
BY DEF Places, Goto, Moves

LEMMA WakeMoves ==
    ASSUME Places, NEW t \in Threads, NEW p \in PCs, NEW W \in SUBSET Waiting,
           WakeAndGoto(W, t, p)
    PROVE  Moves(t, p)
<1>1. \A u \in W : u \in Workers /\ pc[u] = "waiting" /\ u \in Threads
  BY DEF Waiting, Threads
<1>2. "check" \in PCs
  BY DEF PCs
<1> QED  BY <1>1, <1>2 DEF Places, WakeAndGoto, Moves

(* The four kinds of threads do not overlap. *)
LEMMA Kinds ==
    /\ Hosts \subseteq Threads /\ Workers \subseteq Threads
    /\ Owner \in Threads /\ Closer \in Threads /\ Owner # Closer
    /\ \A h \in Hosts : h \notin Workers /\ h # Owner /\ h # Closer /\ h # NoThread
    /\ \A w \in Workers : w \notin Hosts /\ w # Owner /\ w # Closer
BY ThreadsAssumption DEF Threads

LEMMA PlacesByKind ==
    ASSUME Places
    PROVE  /\ \A h \in Hosts : pc[h] \in {"idle", "submit", "notify", "finish"} \cup Executing
           /\ \A w \in Workers :
                 pc[w] \in {"unborn", "check", "waiting", "exited", "finish"} \cup Executing
           /\ pc[Owner] \in {"idle", "stop", "stop_notify"}
           /\ pc[Closer] \in {"idle", "stop", "stop_notify", "read_running", "read_workers",
                              "clear", "drop_old"}
BY Kinds DEF Places, PlacesOf

LEMMA MoveKeepsPlaces ==
    ASSUME Places, NEW t \in Threads, NEW p \in PlacesOf(t), Moves(t, p)
    PROVE  Places'
<1> SUFFICES ASSUME NEW u \in Threads PROVE pc'[u] \in PlacesOf(u)
  BY DEF Places, Moves, PlacesOf
<1>1. CASE u = t
  BY <1>1 DEF Moves
<1>2. CASE u # t
  BY <1>2, Kinds DEF Places, Moves, PlacesOf
<1> QED  BY <1>1, <1>2

LEMMA PlacesArePCs == ASSUME NEW t, NEW p \in PlacesOf(t) PROVE p \in PCs
BY DEF PlacesOf, PCs

LEMMA MoveKeepsHolders ==
    ASSUME Places, NEW t \in Threads, NEW p, Moves(t, p), pc[t] \in Executing <=> p \in Executing
    PROVE  Holders' = Holders
<1> SUFFICES ASSUME NEW u \in Threads PROVE pc'[u] \in Executing <=> pc[u] \in Executing
  BY DEF Holders, Threads, Executing
<1> QED  BY DEF Moves, Executing

LEMMA MoveKeepsWorks ==
    ASSUME Places, Works, NEW t \in Threads, NEW p, Moves(t, p),
           UNCHANGED <<work, nextId, answer>>,
           pc[t] \in Executing \cup {"finish"} <=> p \in Executing \cup {"finish"},
           pc[t] = "publish" <=> p = "publish"
    PROVE  Works'
BY DEF Works, Moves, Executing

LEMMA HoldersAreFinite == IsFiniteSet(Threads) /\ IsFiniteSet(Holders)
<1>1. IsFiniteSet(Hosts \cup Workers)
  BY ThreadsAssumption, FS_Union
<1>2. IsFiniteSet((Hosts \cup Workers) \cup {Owner, Closer})
  <2>1. IsFiniteSet({Owner} \cup {Closer}) /\ {Owner} \cup {Closer} = {Owner, Closer}
    BY FS_Singleton, FS_Union
  <2> QED  BY <1>1, <2>1, FS_Union
<1>3. Threads = (Hosts \cup Workers) \cup {Owner, Closer}
  BY DEF Threads
<1> QED  BY <1>2, <1>3, FS_Subset DEF Holders

LEMMA MaxRunningIsPositive == ASSUME config \in Configs PROVE MaxRunning \in Nat \ {0}
<1>1. config.workers \subseteq Workers
  BY ConfigsAssumption
<1>2. IsFiniteSet(config.workers)
  BY <1>1, ThreadsAssumption, FS_Subset
<1> QED  BY <1>2, FS_CardinalityType, FS_EmptySet DEF MaxRunning

LEMMA JobsAreFinite == IsFiniteSet(JobIds) /\ \A S \in SUBSET JobIds : IsFiniteSet(S)
<1>1. IsFiniteSet(JobIds)
  BY LimitsAssumption, FS_Interval DEF JobIds
<1> QED  BY <1>1, FS_Subset

-----------------------------------------------------------------------------
(* Steps that leave the scheduler, the jobs and the budget alone *)

LEMMA QuietKeeps ==
    ASSUME IInv,
           UNCHANGED <<config, schedulerVars, jobVars, ledgerVars, nextId, work, answer, notices>>,
           phase' \in {"Running", "Quiescing"}, admission' \in Hosts \cup {NoThread},
           sys' \in {"absent", "spawning", "live", "failed", "destroyed"},
           stage' \in [{Owner, Closer} -> {"none", "create", "cancel", "quiesce", "destroy"}],
           seen' \in 0 .. MaxRunning, refused' \in BOOLEAN,
           Places', Works', Holders' = Holders,
           pc[Closer] = "drop_old" => pc'[Closer] = "drop_old",
           Gate', Stopping', Reads', QuiescedIsFinal'
    PROVE  IInv'
<1>1. MaxRunning' = MaxRunning
  BY DEF MaxRunning
<1>2. TypeInv'
  BY <1>1 DEF IInv, TypeInv, Places
<1>3. Jobs'
  BY DEF IInv, Jobs, Reserved
<1>4. Lists'
  BY DEF IInv, Lists
<1>5. Held' /\ LeaseHeld'
  BY DEF IInv, Held, LeaseHeld
<1>6. AnnouncedOnce' /\ Charged'
  BY DEF IInv, AnnouncedOnce, Charged, Reserved
<1> QED  BY <1>2, <1>3, <1>4, <1>5, <1>6 DEF IInv

(* The same, for a step of a thread that does not execute. *)
LEMMA QuietMoveKeeps ==
    ASSUME IInv, NEW t \in Threads, NEW p \in PlacesOf(t), Moves(t, p),
           pc[t] \notin Executing \cup {"finish"}, p \notin Executing \cup {"finish"},
           pc[t] # "drop_old",
           UNCHANGED <<config, schedulerVars, jobVars, ledgerVars, nextId, work, answer, notices>>,
           phase' \in {"Running", "Quiescing"}, admission' \in Hosts \cup {NoThread},
           sys' \in {"absent", "spawning", "live", "failed", "destroyed"},
           stage' \in [{Owner, Closer} -> {"none", "create", "cancel", "quiesce", "destroy"}],
           seen' \in 0 .. MaxRunning, refused' \in BOOLEAN,
           Gate', Stopping', Reads', QuiescedIsFinal'
    PROVE  IInv'
<1>1. Places /\ Works
  BY DEF IInv
<1>2. Places'
  BY <1>1, MoveKeepsPlaces
<1>3. Holders' = Holders
  BY <1>1, MoveKeepsHolders
<1>4. Works'
  BY <1>1, MoveKeepsWorks DEF Executing
<1>5. pc[Closer] = "drop_old" => pc'[Closer] = "drop_old"
  BY Kinds DEF Moves
<1> QED  BY <1>2, <1>3, <1>4, <1>5, QuietKeeps

(* Workers that have left stay away, whoever moves. *)
LEMMA ExitedStays ==
    ASSUME NEW t \in Threads, NEW p, Moves(t, p), NEW w \in Workers, pc[w] = "exited", t # w
    PROVE  pc'[w] = "exited"
BY Kinds DEF Moves

(* A step of a thread of another kind leaves the closer where it is, and so   *)
(* for the owner and for the hosts.                                          *)
LEMMA OthersStay ==
    ASSUME NEW t \in Threads, NEW p, Moves(t, p)
    PROVE  /\ t # Closer => pc'[Closer] = pc[Closer]
           /\ t # Owner => pc'[Owner] = pc[Owner]
           /\ \A h \in Hosts : t # h => pc'[h] = pc[h]
BY Kinds DEF Moves

(* What was read stays true while the holders are the same. *)
LEMMA QuiescedKept ==
    ASSUME IInv, NEW t \in Threads, NEW p, Moves(t, p), Holders' = Holders,
           UNCHANGED <<config, accepting, refused, seen>>,
           pc'[Closer] = pc[Closer], stage'[Closer] = stage[Closer],
           t \in Workers => pc[t] # "exited"
    PROVE  QuiescedIsFinal' /\ Reads'
<1>1. \A w \in config.workers : w \in Workers
  BY ConfigsAssumption DEF IInv, TypeInv
<1>2. \A w \in config.workers : pc[w] = "exited" => pc'[w] = "exited"
  BY <1>1, ExitedStays
<1>3. QuiescedIsFinal'
  BY <1>2 DEF IInv, QuiescedIsFinal
<1>4. Reads'
  BY DEF IInv, Reads
<1> QED  BY <1>3, <1>4

LEMMA CreateKeeps == ASSUME IInv, Create PROVE IInv'
<1> USE DEF Create
<1>1. Places' /\ Works' /\ Holders' = Holders
  BY DEF IInv, Places, Works, Holders
<1>2. Gate' /\ Reads' /\ QuiescedIsFinal'
  BY DEF IInv, Gate, Reads, QuiescedIsFinal, Holders
<1>3. Stopping'
  BY DEF IInv, Stopping
<1>4. UNCHANGED <<phase, admission, stage, seen, refused>> /\ sys' = "spawning"
  OBVIOUS
<1> QED  BY <1>1, <1>2, <1>3, <1>4, QuietKeeps DEF IInv, TypeInv

LEMMA RegisterKeeps == ASSUME IInv, Register PROVE IInv'
<1> USE DEF Register
<1>1. Places' /\ Works' /\ Holders' = Holders
  BY DEF IInv, Places, Works, Holders
<1>2. Gate' /\ Reads' /\ QuiescedIsFinal'
  BY DEF IInv, Gate, Reads, QuiescedIsFinal, Holders
<1>3. Stopping'
  BY DEF IInv, Stopping
<1>4. UNCHANGED <<phase, admission, stage, seen, refused>> /\ sys' = "live"
  OBVIOUS
<1> QED  BY <1>1, <1>2, <1>3, <1>4, QuietKeeps DEF IInv, TypeInv

LEMMA SpawnKeeps == ASSUME NEW w \in Workers, IInv, Spawn(w) PROVE IInv'
<1> USE DEF Spawn
<1>1. w \in Threads /\ "check" \in PlacesOf(w) /\ "check" \in PCs
  BY Kinds DEF PlacesOf, PCs
<1>2. Moves(w, "check")
  BY <1>1, GotoMoves DEF IInv
<1>3. Holders' = Holders
  BY <1>1, <1>2, MoveKeepsHolders DEF IInv, Executing
<1>4. /\ pc'[Closer] = pc[Closer] /\ pc'[Owner] = pc[Owner]
      /\ \A h \in Hosts : pc'[h] = pc[h]
  BY <1>1, <1>2, OthersStay, Kinds
<1>5. Gate'
  BY <1>4 DEF IInv, Gate
<1>6. Stopping'
  BY <1>4 DEF IInv, Stopping
<1>7. QuiescedIsFinal' /\ Reads'
  BY <1>1, <1>2, <1>3, <1>4, QuiescedKept
<1> QED  BY <1>1, <1>2, <1>5, <1>6, <1>7, QuietMoveKeeps DEF IInv, TypeInv, Executing

LEMMA CreateFailsKeeps == ASSUME IInv, CreateFails PROVE IInv'
<1> USE DEF CreateFails
<1>1. Owner \in Threads /\ "stop" \in PlacesOf(Owner) /\ "stop" \in PCs
  BY Kinds DEF PlacesOf, PCs
<1>2. Moves(Owner, "stop")
  BY <1>1, GotoMoves DEF IInv
<1>3. pc[Owner] \in {"idle", "stop", "stop_notify"}
  BY PlacesByKind DEF IInv
<1>4. Holders' = Holders
  BY <1>1, <1>2, <1>3, MoveKeepsHolders DEF IInv, Executing
<1>5. /\ pc'[Closer] = pc[Closer] /\ \A h \in Hosts : pc'[h] = pc[h]
  BY <1>1, <1>2, OthersStay, Kinds
<1>6. stage' \in [{Owner, Closer} -> {"none", "create", "cancel", "quiesce", "destroy"}]
  BY DEF IInv, TypeInv
<1>7. stage'[Owner] = "create" /\ stage'[Closer] = stage[Closer]
  BY Kinds DEF IInv, TypeInv
<1>8. Gate'
  BY <1>5 DEF IInv, Gate
<1>9. Stopping'
  BY <1>5, <1>7 DEF IInv, Stopping
<1>10. QuiescedIsFinal' /\ Reads'
  BY <1>1, <1>2, <1>3, <1>4, <1>5, <1>7, Kinds, QuiescedKept
<1> QED  BY <1>1, <1>2, <1>3, <1>6, <1>8, <1>9, <1>10, QuietMoveKeeps DEF IInv, TypeInv, Executing

LEMMA SubmitAdmitKeeps == ASSUME NEW h \in Hosts, IInv, SubmitAdmit(h) PROVE IInv'
<1> USE DEF SubmitAdmit
<1>1. h \in Threads /\ "submit" \in PlacesOf(h) /\ "submit" \in PCs
  BY Kinds DEF PlacesOf, PCs
<1>2. Moves(h, "submit")
  BY <1>1, GotoMoves DEF IInv
<1>3. Holders' = Holders
  BY <1>1, <1>2, MoveKeepsHolders DEF IInv, Executing
<1>4. /\ pc'[Closer] = pc[Closer] /\ pc'[Owner] = pc[Owner]
      /\ \A k \in Hosts : k # h => pc'[k] = pc[k]
      /\ pc'[h] = "submit"
  BY <1>1, <1>2, OthersStay, Kinds DEF Moves
<1>5. Gate'
  BY <1>4, Kinds DEF IInv, Gate
<1>6. Stopping'
  BY <1>4 DEF IInv, Stopping
<1>7. QuiescedIsFinal' /\ Reads'
  BY <1>1, <1>2, <1>3, <1>4, Kinds, QuiescedKept
<1> QED  BY <1>1, <1>2, <1>5, <1>6, <1>7, QuietMoveKeeps DEF IInv, TypeInv, Executing

LEMMA SubmitRefusedKeeps == ASSUME NEW h \in Hosts, IInv, SubmitRefused(h) PROVE IInv'
<1> USE DEF SubmitRefused
<1>1. h \in Threads /\ "idle" \in PlacesOf(h) /\ "idle" \in PCs
  BY Kinds DEF PlacesOf, PCs
<1>2. Moves(h, "idle")
  BY <1>1, GotoMoves DEF IInv
<1>3. Holders' = Holders
  BY <1>1, <1>2, MoveKeepsHolders DEF IInv, Executing
<1>4. /\ pc'[Closer] = pc[Closer] /\ pc'[Owner] = pc[Owner]
      /\ \A k \in Hosts : k # h => pc'[k] = pc[k]
      /\ pc'[h] = "idle"
  BY <1>1, <1>2, OthersStay, Kinds DEF Moves
<1>5. Gate'
  BY <1>4, Kinds DEF IInv, Gate
<1>6. Stopping'
  BY <1>4 DEF IInv, Stopping
<1>7. QuiescedIsFinal' /\ Reads'
  BY <1>1, <1>2, <1>3, <1>4, Kinds, QuiescedKept
<1> QED  BY <1>1, <1>2, <1>5, <1>6, <1>7, QuietMoveKeeps DEF IInv, TypeInv, Executing

LEMMA SubmitNotifyKeeps == ASSUME NEW h \in Hosts, IInv, SubmitNotify(h) PROVE IInv'
<1> USE DEF SubmitNotify
<1>1. h \in Threads /\ "idle" \in PlacesOf(h) /\ "idle" \in PCs
  BY Kinds DEF PlacesOf, PCs
<1>2. Moves(h, "idle")
  <2>1. CASE Goto(h, "idle")
    BY <2>1, <1>1, GotoMoves DEF IInv
  <2>2. CASE \E w \in Waiting : WakeAndGoto({w}, h, "idle")
    <3>1. PICK w \in Waiting : WakeAndGoto({w}, h, "idle")
      BY <2>2
    <3>2. {w} \in SUBSET Waiting
      OBVIOUS
    <3> QED  BY <3>1, <3>2, <1>1, WakeMoves DEF IInv
  <2> QED  BY <2>1, <2>2
<1>3. Holders' = Holders
  BY <1>1, <1>2, MoveKeepsHolders DEF IInv, Executing
<1>4. /\ pc'[Closer] = pc[Closer] /\ pc'[Owner] = pc[Owner]
      /\ \A k \in Hosts : k # h => pc'[k] = pc[k]
      /\ pc'[h] = "idle"
  BY <1>1, <1>2, OthersStay, Kinds DEF Moves
<1>5. Gate'
  BY <1>4, Kinds DEF IInv, Gate
<1>6. Stopping'
  BY <1>4 DEF IInv, Stopping
<1>7. QuiescedIsFinal' /\ Reads'
  BY <1>1, <1>2, <1>3, <1>4, Kinds, QuiescedKept
<1> QED  BY <1>1, <1>2, <1>5, <1>6, <1>7, QuietMoveKeeps DEF IInv, TypeInv, Executing

(* What the queue holds is runnable, so a worker that finds nothing to run    *)
(* leaves it as it was.                                                      *)
LEMMA QueuedAreRunnable == ASSUME TypeInv, Lists PROVE Runnable = DOMAIN queue
<1> SUFFICES ASSUME NEW i \in DOMAIN queue PROVE queue[i] \in table /\ state[queue[i]] = "Queued"
  BY DEF Runnable
<1>1. queue[i] \in Range(queue)
  BY DEF Range
<1> QED  BY <1>1 DEF Lists

LEMMA WorkerRestKeeps == ASSUME NEW w \in Workers, IInv, WorkerRest(w) PROVE IInv'
<1> USE DEF WorkerRest
<1>1. w \in Threads
  BY Kinds
<1>2. UNCHANGED queue
  <2>1. CASE ~Blocked /\ Runnable = {} /\ queue' = <<>>
    <3>1. DOMAIN queue = {} /\ queue \in Seq(JobIds)
      BY <2>1, QueuedAreRunnable DEF IInv, TypeInv
    <3>2. queue = <<>>
      BY <3>1
    <3> QED  BY <2>1, <3>2
  <2> QED  BY <2>1 DEF FindsNoWork
<1>3. PICK p \in {"exited", "waiting"} : Goto(w, p)
  OBVIOUS
<1>4. p \in PlacesOf(w) /\ p \in PCs
  BY Kinds DEF PlacesOf, PCs
<1>5. Moves(w, p)
  BY <1>1, <1>3, <1>4, GotoMoves DEF IInv
<1>6. Holders' = Holders
  BY <1>1, <1>5, MoveKeepsHolders DEF IInv, Executing
<1>7. /\ pc'[Closer] = pc[Closer] /\ pc'[Owner] = pc[Owner]
      /\ \A h \in Hosts : pc'[h] = pc[h]
  BY <1>1, <1>5, OthersStay, Kinds
<1>8. Gate'
  BY <1>7 DEF IInv, Gate
<1>9. Stopping'
  BY <1>7 DEF IInv, Stopping
<1>10. QuiescedIsFinal' /\ Reads'
  BY <1>1, <1>5, <1>6, <1>7, QuiescedKept
<1> QED  BY <1>1, <1>2, <1>4, <1>5, <1>8, <1>9, <1>10, QuietMoveKeeps DEF IInv, TypeInv, Executing

LEMMA WorkerSpuriousKeeps == ASSUME NEW w \in Workers, IInv, WorkerSpurious(w) PROVE IInv'
<1> USE DEF WorkerSpurious
<1>1. w \in Threads /\ "check" \in PlacesOf(w) /\ "check" \in PCs
  BY Kinds DEF PlacesOf, PCs
<1>2. Moves(w, "check")
  BY <1>1, GotoMoves DEF IInv
<1>3. Holders' = Holders
  BY <1>1, <1>2, MoveKeepsHolders DEF IInv, Executing
<1>4. /\ pc'[Closer] = pc[Closer] /\ pc'[Owner] = pc[Owner]
      /\ \A h \in Hosts : pc'[h] = pc[h]
  BY <1>1, <1>2, OthersStay, Kinds
<1>5. Gate'
  BY <1>4 DEF IInv, Gate
<1>6. Stopping'
  BY <1>4 DEF IInv, Stopping
<1>7. QuiescedIsFinal' /\ Reads'
  BY <1>1, <1>2, <1>3, <1>4, QuiescedKept
<1> QED  BY <1>1, <1>2, <1>5, <1>6, <1>7, QuietMoveKeeps DEF IInv, TypeInv, Executing

LEMMA OwnerStopKeeps == ASSUME IInv, OwnerStop PROVE IInv'
<1> USE DEF OwnerStop
<1>1. Owner \in Threads /\ "stop" \in PlacesOf(Owner) /\ "stop" \in PCs
  BY Kinds DEF PlacesOf, PCs
<1>2. Moves(Owner, "stop")
  BY <1>1, GotoMoves DEF IInv
<1>3. Holders' = Holders
  BY <1>1, <1>2, MoveKeepsHolders DEF IInv, Executing
<1>4. /\ pc'[Closer] = pc[Closer] /\ \A h \in Hosts : pc'[h] = pc[h]
  BY <1>1, <1>2, OthersStay, Kinds
<1>5. stage' \in [{Owner, Closer} -> {"none", "create", "cancel", "quiesce", "destroy"}]
  BY DEF IInv, TypeInv
<1>6. stage'[Owner] = "cancel" /\ stage'[Closer] = stage[Closer]
  BY Kinds DEF IInv, TypeInv
<1>7. Gate'
  BY <1>4 DEF IInv, Gate
<1>8. Stopping'
  BY <1>4, <1>6 DEF IInv, Stopping
<1>9. QuiescedIsFinal' /\ Reads'
  BY <1>1, <1>2, <1>3, <1>4, <1>6, Kinds, QuiescedKept
<1> QED  BY <1>1, <1>2, <1>5, <1>7, <1>8, <1>9, QuietMoveKeeps DEF IInv, TypeInv, Executing

LEMMA ClosePassKeeps == ASSUME IInv, ClosePass PROVE IInv'
<1>1. pc[Closer] = "idle" /\ sys # "destroyed" /\ ~refused /\ stage[Closer] # "destroy"
  BY DEF ClosePass, IInv, Stopping
<1>2. UNCHANGED <<config, admission, sys, schedulerVars, jobVars, ledgerVars, nextId, work, answer,
                  seen, notices, refused>>
  BY DEF ClosePass
<1>3. /\ phase' = "Quiescing"
      /\ phase # "Quiescing" => admission = NoThread
  BY DEF ClosePass
<1>4. CASE UNCHANGED <<stage, pc>>
  <2>1. Places' /\ Works' /\ Holders' = Holders
    BY <1>2, <1>4 DEF IInv, Places, Works, Holders
  <2>2. Gate'
    BY <1>2, <1>3, <1>4 DEF IInv, Gate
  <2>3. Reads' /\ QuiescedIsFinal'
    BY <1>2, <1>4 DEF IInv, Reads, QuiescedIsFinal, Holders
  <2>4. Stopping'
    BY <1>2, <1>3, <1>4 DEF IInv, Stopping
  <2> QED  BY <1>2, <1>3, <1>4, <2>1, <2>2, <2>3, <2>4, QuietKeeps DEF IInv, TypeInv
<1>5. CASE /\ sys = "live" /\ Goto(Closer, "stop")
           /\ \E s \in {"cancel", "quiesce"} : stage' = [stage EXCEPT ![Closer] = s]
  <2>1. Closer \in Threads /\ "stop" \in PlacesOf(Closer) /\ "stop" \in PCs
    BY Kinds DEF PlacesOf, PCs
  <2>2. Moves(Closer, "stop")
    BY <1>5, <2>1, GotoMoves DEF IInv
  <2>3. Holders' = Holders
    BY <1>1, <2>1, <2>2, MoveKeepsHolders DEF IInv, Executing
  <2>4. /\ pc'[Closer] = "stop" /\ pc'[Owner] = pc[Owner]
        /\ \A h \in Hosts : pc'[h] = pc[h]
    BY <2>1, <2>2, OthersStay, Kinds DEF Moves
  <2>5. stage' \in [{Owner, Closer} -> {"none", "create", "cancel", "quiesce", "destroy"}]
    BY <1>5 DEF IInv, TypeInv
  <2>6. stage'[Closer] \in {"cancel", "quiesce"} /\ stage'[Owner] = stage[Owner]
    BY <1>5, Kinds DEF IInv, TypeInv
  <2>7. Gate'
    BY <1>2, <1>3, <2>4 DEF IInv, Gate
  <2>8. Stopping'
    BY <1>2, <1>3, <1>5, <2>4, <2>6 DEF IInv, Stopping
  <2>9. QuiescedIsFinal' /\ Reads'
    BY <1>2, <2>4, <2>6 DEF IInv, QuiescedIsFinal, Reads
  <2> QED  BY <1>1, <1>2, <1>3, <2>1, <2>2, <2>5, <2>7, <2>8, <2>9, QuietMoveKeeps
           DEF IInv, TypeInv, Executing
<1> QED  BY <1>4, <1>5 DEF ClosePass

LEMMA StopNotifyOwnerKeeps == ASSUME IInv, StopNotify(Owner) PROVE IInv'
<1> USE DEF StopNotify
<1>1. Owner \in Threads /\ "idle" \in PlacesOf(Owner) /\ "idle" \in PCs
  BY Kinds DEF PlacesOf, PCs
<1>2. stage[Owner] \in {"none", "create", "cancel"} /\ Owner # Closer
  BY Kinds DEF IInv, Stopping
<1>3. WakeAndGoto(Waiting, Owner, "idle")
  BY <1>2 DEF WakeAll
<1>4. Moves(Owner, "idle")
  BY <1>1, <1>3, WakeMoves DEF IInv
<1>5. stage' = stage
  BY <1>2 DEF IInv, TypeInv
<1>6. Holders' = Holders
  BY <1>1, <1>4, MoveKeepsHolders DEF IInv, Executing
<1>7. /\ pc'[Closer] = pc[Closer] /\ \A h \in Hosts : pc'[h] = pc[h] /\ pc'[Owner] = "idle"
  BY <1>1, <1>4, OthersStay, Kinds DEF Moves
<1>8. pc'[Owner] = "idle"
  BY <1>4 DEF Moves
<1>9. Gate'
  BY <1>7 DEF IInv, Gate
<1>10. Stopping'
  BY <1>5, <1>7, <1>8 DEF IInv, Stopping
<1>11. QuiescedIsFinal' /\ Reads'
  BY <1>1, <1>4, <1>5, <1>6, <1>7, Kinds, QuiescedKept
<1> QED  BY <1>1, <1>4, <1>5, <1>9, <1>10, <1>11, QuietMoveKeeps DEF IInv, TypeInv, Executing

LEMMA StopNotifyCloserKeeps == ASSUME IInv, StopNotify(Closer) PROVE IInv'
<1> USE DEF StopNotify
<1> DEFINE p == IF stage[Closer] \in {"quiesce", "destroy"} THEN "read_running" ELSE "stop"
<1>1. Closer \in Threads /\ p \in PlacesOf(Closer) /\ p \in PCs
  BY Kinds DEF PlacesOf, PCs
<1>2. stage[Closer] \in {"cancel", "quiesce", "destroy"} /\ sys = "live" /\ phase = "Quiescing"
  BY DEF IInv, Stopping
<1>3. WakeAndGoto(Waiting, Closer, p)
  BY DEF WakeAll
<1>4. p \in {"read_running", "stop"} /\ (p = "read_running" => stage[Closer] # "cancel")
  OBVIOUS
<1> HIDE DEF p
<1>5. Moves(Closer, p)
  BY <1>1, <1>3, WakeMoves DEF IInv
<1>6. Holders' = Holders
  BY <1>1, <1>4, <1>5, MoveKeepsHolders DEF IInv, Executing
<1>7. /\ pc'[Owner] = pc[Owner] /\ \A h \in Hosts : pc'[h] = pc[h]
      /\ pc'[Closer] = p
  BY <1>1, <1>5, OthersStay, Kinds DEF Moves
<1>8. stage' \in [{Owner, Closer} -> {"none", "create", "cancel", "quiesce", "destroy"}]
  BY DEF IInv, TypeInv
<1>9. /\ stage'[Owner] = stage[Owner]
      /\ stage'[Closer] = IF stage[Closer] = "cancel" THEN "quiesce" ELSE stage[Closer]
  BY Kinds DEF IInv, TypeInv
<1>10. Gate'
  BY <1>7 DEF IInv, Gate
<1>11. Stopping'
  BY <1>2, <1>4, <1>7, <1>9 DEF IInv, Stopping
<1>12. QuiescedIsFinal' /\ Reads'
  <2>1. \A w \in config.workers : pc[w] = "exited" => pc'[w] = "exited"
    <3>1. \A w \in config.workers : w \in Workers
      BY ConfigsAssumption DEF IInv, TypeInv
    <3> QED  BY <3>1, <1>1, <1>5, ExitedStays, Kinds
  <2>2. QuiescedIsFinal'
    BY <1>6, <1>9, <2>1 DEF IInv, QuiescedIsFinal
  <2>3. Reads'
    BY <1>4, <1>7 DEF Reads
  <2> QED  BY <2>2, <2>3
<1> QED  BY <1>1, <1>4, <1>5, <1>8, <1>10, <1>11, <1>12, QuietMoveKeeps
         DEF IInv, TypeInv, Executing

(* Nobody executes when the count of running jobs is zero. *)
LEMMA NoneRunning == ASSUME Held, running = 0 PROVE Holders = {}
BY HoldersAreFinite, FS_EmptySet DEF Held

LEMMA ReadRunningKeeps == ASSUME IInv, ReadRunning PROVE IInv'
<1> USE DEF ReadRunning
<1>1. Closer \in Threads /\ "read_workers" \in PlacesOf(Closer) /\ "read_workers" \in PCs
  BY Kinds DEF PlacesOf, PCs
<1>2. Moves(Closer, "read_workers")
  BY <1>1, GotoMoves DEF IInv
<1>3. Holders' = Holders
  BY <1>1, <1>2, MoveKeepsHolders DEF IInv, Executing
<1>4. /\ pc'[Owner] = pc[Owner] /\ \A h \in Hosts : pc'[h] = pc[h]
      /\ pc'[Closer] = "read_workers"
  BY <1>1, <1>2, OthersStay, Kinds DEF Moves
<1>5. seen' \in 0 .. MaxRunning
  BY DEF IInv, TypeInv
<1>6. Gate'
  BY <1>4 DEF IInv, Gate
<1>7. Stopping'
  BY <1>4 DEF IInv, Stopping
<1>8. QuiescedIsFinal'
  <2>1. \A w \in config.workers : pc[w] = "exited" => pc'[w] = "exited"
    <3>1. \A w \in config.workers : w \in Workers
      BY ConfigsAssumption DEF IInv, TypeInv
    <3> QED  BY <3>1, <1>1, <1>2, ExitedStays, Kinds
  <2> QED  BY <1>3, <2>1 DEF IInv, QuiescedIsFinal
<1>9. Reads'
  <2>1. seen' = 0 => Holders' = {}
    BY <1>3, NoneRunning DEF IInv
  <2>2. stage[Closer] = "destroy" => seen' = 0
    BY FS_EmptySet DEF IInv, QuiescedIsFinal, Held
  <2> QED  BY <2>1, <2>2 DEF Reads
<1> QED  BY <1>1, <1>2, <1>5, <1>6, <1>7, <1>8, <1>9, QuietMoveKeeps DEF IInv, TypeInv, Executing

LEMMA ReadWorkersKeeps == ASSUME IInv, ReadWorkers PROVE IInv'
<1>1. /\ pc[Closer] = "read_workers" /\ sys = "live" /\ ~accepting
      /\ stage[Closer] \in {"quiesce", "destroy"} /\ phase = "Quiescing"
  BY DEF ReadWorkers, IInv, Stopping
<1>2. UNCHANGED <<config, contextVars, sys, schedulerVars, jobVars, ledgerVars, nextId, work,
                  answer, seen, notices>>
  BY DEF ReadWorkers
<1>3. stage[Closer] = "destroy" => Quiet
  BY <1>1 DEF IInv, Reads, QuiescedIsFinal, Quiet
<1>4. Closer \in Threads
  BY Kinds
<1>5. \A p : Moves(Closer, p) => \A w \in config.workers : pc[w] = "exited" => pc'[w] = "exited"
  <2>1. \A w \in config.workers : w \in Workers
    BY ConfigsAssumption DEF IInv, TypeInv
  <2> QED  BY <1>4, <2>1, ExitedStays, Kinds
<1>6. CASE Quiet
  <2> DEFINE p == IF stage[Closer] = "quiesce" THEN "stop" ELSE "clear"
  <2>1. p \in PlacesOf(Closer) /\ p \in PCs /\ p \in {"stop", "clear"}
    BY Kinds DEF PlacesOf, PCs
  <2>2. Goto(Closer, p) /\ stage' = [stage EXCEPT ![Closer] = "destroy"] /\ refused' = refused
    BY <1>6 DEF ReadWorkers
  <2> HIDE DEF p
  <2>3. Moves(Closer, p)
    BY <1>4, <2>1, <2>2, GotoMoves DEF IInv
  <2>4. Holders' = Holders
    BY <1>1, <1>4, <2>1, <2>3, MoveKeepsHolders DEF IInv, Executing
  <2>5. /\ pc'[Owner] = pc[Owner] /\ \A h \in Hosts : pc'[h] = pc[h]
        /\ pc'[Closer] = p
    BY <1>4, <2>3, OthersStay, Kinds DEF Moves
  <2>6. stage' \in [{Owner, Closer} -> {"none", "create", "cancel", "quiesce", "destroy"}]
    BY <2>2 DEF IInv, TypeInv
  <2>7. stage'[Owner] = stage[Owner] /\ stage'[Closer] = "destroy"
    BY <2>2, Kinds DEF IInv, TypeInv
  <2>8. Gate'
    BY <1>2, <2>5 DEF IInv, Gate
  <2>9. Stopping'
    BY <1>1, <1>2, <2>1, <2>5, <2>7 DEF IInv, Stopping
  <2>10. QuiescedIsFinal'
    <3>1. Holders = {} /\ \A w \in config.workers : pc[w] = "exited"
      BY <1>1, <1>6 DEF Quiet, IInv, Reads
    <3> QED  BY <1>1, <1>2, <1>5, <2>2, <2>3, <2>4, <3>1 DEF IInv, QuiescedIsFinal
  <2>11. Reads'
    BY <2>1, <2>5 DEF Reads
  <2> QED  BY <1>1, <1>2, <1>4, <2>1, <2>2, <2>3, <2>6, <2>8, <2>9, <2>10, <2>11, QuietMoveKeeps
           DEF IInv, TypeInv, Executing
<1>7. CASE ~Quiet
  <2>1. "idle" \in PlacesOf(Closer) /\ "idle" \in PCs
    BY Kinds DEF PlacesOf, PCs
  <2>2. /\ Goto(Closer, "idle") /\ stage' = stage /\ stage[Closer] # "destroy"
        /\ refused' \in BOOLEAN /\ ~refused'
    BY <1>3, <1>7 DEF ReadWorkers
  <2>3. Moves(Closer, "idle")
    BY <1>4, <2>1, <2>2, GotoMoves DEF IInv
  <2>4. /\ pc'[Owner] = pc[Owner] /\ \A h \in Hosts : pc'[h] = pc[h]
        /\ pc'[Closer] = "idle"
    BY <1>4, <2>3, OthersStay, Kinds DEF Moves
  <2>5. Gate'
    BY <1>2, <2>4 DEF IInv, Gate
  <2>6. Stopping'
    BY <1>1, <1>2, <2>2, <2>4 DEF IInv, Stopping
  <2>7. QuiescedIsFinal' /\ Reads'
    BY <2>2, <2>4 DEF QuiescedIsFinal, Reads
  <2> QED  BY <1>1, <1>2, <1>4, <2>1, <2>2, <2>3, <2>5, <2>6, <2>7, QuietMoveKeeps
           DEF IInv, TypeInv, Executing
<1> QED  BY <1>6, <1>7

-----------------------------------------------------------------------------
(* Facts the remaining steps share *)

LEMMA BytesAreNat ==
    ASSUME TypeInv
    PROVE  /\ \A j \in JobIds : bytes[j] \in Nat
           /\ Reserved \subseteq JobIds
           /\ \A S \in SUBSET JobIds : SumFunctionOnSet(bytes, S) \in Nat
<1>1. \A j \in JobIds : bytes[j] \in Nat
  <2>1. bytes \in [JobIds -> Sizes \cup {0}]
    BY DEF TypeInv
  <2>2. \A b \in Sizes : b \in Nat
    BY LimitsAssumption
  <2> QED  BY <2>1, <2>2
<1>2. Reserved \subseteq JobIds
  BY DEF TypeInv, Reserved
<1>3. ASSUME NEW S \in SUBSET JobIds PROVE SumFunctionOnSet(bytes, S) \in Nat
  BY <1>1, JobsAreFinite, SumIsNat
<1> QED  BY <1>1, <1>2, <1>3

LEMMA QueueLength ==
    ASSUME TypeInv PROVE queue \in Seq(JobIds) /\ Len(queue) \in Nat /\ DOMAIN queue = 1 .. Len(queue)
BY LenProperties DEF TypeInv

LEMMA CountHolders ==
    ASSUME Held, NEW t, Holders' = Holders \cup {t}, t \notin Holders, running' = running + 1
    PROVE  Held'
BY HoldersAreFinite, FS_AddElement DEF Held

LEMMA DiscountHolders ==
    ASSUME Held, NEW t \in Holders, Holders' = Holders \ {t}, running' = running - 1
    PROVE  Held' /\ running \in Nat /\ running >= 1
<1>1. Cardinality(Holders \ {t}) = Cardinality(Holders) - 1 /\ IsFiniteSet(Holders \ {t})
  BY HoldersAreFinite, FS_RemoveElement
<1>2. Cardinality(Holders) \in Nat /\ Cardinality(Holders \ {t}) \in Nat
  BY <1>1, HoldersAreFinite, FS_CardinalityType
<1> QED  BY <1>1, <1>2 DEF Held

-----------------------------------------------------------------------------
(* A job is published *)

LEMMA SubmitPublishKeeps == ASSUME NEW h \in Hosts, IInv, SubmitPublish(h) PROVE IInv'
<1>0. TypeInv /\ Places /\ Works /\ Gate /\ Stopping /\ Reads /\ Jobs /\ Lists /\ Held
      /\ LeaseHeld /\ AnnouncedOnce /\ QuiescedIsFinal /\ Charged
  BY DEF IInv
<1>1. PICK b \in Sizes : charged + b <= ByteLimit /\ charged' = charged + b
                         /\ bytes' = [bytes EXCEPT ![nextId] = b]
  BY DEF SubmitPublish
<1>2. /\ pc[h] = "submit" /\ accepting /\ HasRoom /\ nextId <= MaxJobs
      /\ nextId' = nextId + 1
      /\ table' = table \cup {nextId}
      /\ state' = [state EXCEPT ![nextId] = "Queued"]
      /\ queue' = Append(queue, nextId)
      /\ Goto(h, "notify")
      /\ UNCHANGED <<config, contextVars, sys, accepting, ready, running, token, results, doomed,
                     work, answer, closeVars, notices, refused>>
  BY DEF SubmitPublish
<1>3. nextId \in JobIds /\ nextId \in Nat /\ state[nextId] = "none"
  BY <1>0, <1>2, LimitsAssumption DEF TypeInv, JobIds, Jobs
<1>4. nextId \notin Reserved
  BY <1>0, <1>3 DEF Jobs
<1>5. /\ state' \in [JobIds -> JobStates] /\ state'[nextId] = "Queued"
      /\ \A j \in JobIds \ {nextId} : state'[j] = state[j]
  BY <1>0, <1>2, <1>3 DEF TypeInv, JobStates
<1>6. h \in Threads /\ "notify" \in PlacesOf(h) /\ "notify" \in PCs
  BY Kinds DEF PlacesOf, PCs
<1>7. Moves(h, "notify")
  BY <1>0, <1>2, <1>6, GotoMoves
<1>8. Holders' = Holders
  BY <1>0, <1>2, <1>6, <1>7, MoveKeepsHolders DEF Executing
<1>9. /\ pc'[Closer] = pc[Closer] /\ pc'[Owner] = pc[Owner] /\ pc'[h] = "notify"
      /\ \A k \in Hosts : k # h => pc'[k] = pc[k]
  BY <1>6, <1>7, OthersStay, Kinds DEF Moves
<1>10. Places'
  BY <1>0, <1>6, <1>7, MoveKeepsPlaces
<1>11. MaxRunning' = MaxRunning
  BY <1>2 DEF MaxRunning
<1>12.
       /\ queue' \in Seq(JobIds) /\ Len(queue') = Len(queue) + 1 /\ Len(queue') <= config.queue
       /\ \A i \in 1 .. Len(queue) : queue'[i] = queue[i]
       /\ queue'[Len(queue) + 1] = nextId
  <2>1. config.queue \in Nat
    BY <1>0, ConfigsAssumption DEF TypeInv
  <2> QED  BY <1>0, <1>2, <1>3, <2>1, QueueLength DEF HasRoom
<1>13. Cardinality(table') <= config.live
  <2>1. IsFiniteSet(table) /\ config.live \in Nat
    BY <1>0, JobsAreFinite, ConfigsAssumption DEF TypeInv
  <2>2. Cardinality(table) \in Nat /\ Cardinality(table') = Cardinality(table) + 1
    BY <1>2, <1>4, <2>1, FS_CardinalityType, FS_AddElement DEF Reserved
  <2> QED  BY <1>2, <2>1, <2>2 DEF HasRoom
<1>14. TypeInv'
  <2>1. charged' \in 0 .. ByteLimit /\ bytes' \in [JobIds -> Sizes \cup {0}]
    <3>1. charged \in 0 .. ByteLimit /\ bytes \in [JobIds -> Sizes \cup {0}]
      BY <1>0 DEF TypeInv
    <3>2. b \in Nat /\ ByteLimit \in Nat
      BY LimitsAssumption
    <3>3. charged' \in 0 .. ByteLimit
      BY <1>1, <3>1, <3>2
    <3>4. b \in Sizes \cup {0}
      OBVIOUS
    <3> QED  BY <1>1, <3>1, <3>3, <3>4
  <2>2. nextId' \in 1 .. MaxJobs + 1 /\ table' \subseteq JobIds
    BY <1>0, <1>2, <1>3, LimitsAssumption DEF TypeInv
  <2> QED  BY <1>0, <1>2, <1>5, <1>10, <1>11, <1>12, <1>13, <2>1, <2>2 DEF TypeInv, Places
<1>15. Works'
  <2>1. \A u \in Threads : work[u] \in Nat
    BY <1>0 DEF TypeInv, JobIds
  <2> QED  BY <1>0, <1>2, <1>3, <1>6, <1>7, <2>1 DEF Works, Moves, Executing
<1>16. Gate'
  BY <1>0, <1>2, <1>9 DEF Gate
<1>17. Stopping'
  BY <1>0, <1>2, <1>9 DEF Stopping
<1>18. QuiescedIsFinal' /\ Reads'
  BY <1>2, <1>6, <1>7, <1>8, <1>9, Kinds, QuiescedKept
<1>19. Jobs'
  <2>1. \A j \in JobIds : state'[j] = "none" <=> j >= nextId'
    BY <1>0, <1>2, <1>3, <1>5 DEF Jobs, JobIds
  <2>2. \A j \in JobIds : state'[j] \in {"Queued", "Running"} => j \in table'
    BY <1>0, <1>2, <1>5 DEF Jobs
  <2>3. \A j \in Reserved' : j < nextId'
    <3>1. Reserved' = Reserved \cup {nextId} /\ Reserved \subseteq Nat
      BY <1>0, <1>2, BytesAreNat DEF Reserved, JobIds
    <3> QED  BY <1>0, <1>2, <1>3, <3>1 DEF Jobs
  <2>4. table' \cap results' = {} /\ table' \cap doomed' = {} /\ results' \cap doomed' = {}
    BY <1>0, <1>2, <1>4 DEF Jobs, Reserved
  <2>5. doomed' # {} => pc'[Closer] = "drop_old"
    BY <1>0, <1>2, <1>9 DEF Jobs
  <2> QED  BY <2>1, <2>2, <2>3, <2>4, <2>5 DEF Jobs
<1>20. Lists'
  <2>1. DOMAIN queue = 1 .. Len(queue) /\ DOMAIN queue' = 1 .. Len(queue) + 1 /\ Len(queue) \in Nat
    BY <1>0, <1>12, QueueLength
  <2>2. Range(queue') = Range(queue) \cup {nextId}
    <3>1. \A i \in DOMAIN queue' : i \in DOMAIN queue \/ i = Len(queue) + 1
      BY <2>1
    <3>2. Len(queue) + 1 \in DOMAIN queue' /\ \A i \in DOMAIN queue : i \in DOMAIN queue'
      BY <2>1
    <3>3. \A i \in DOMAIN queue : queue'[i] = queue[i]
      BY <1>12, <2>1
    <3>4. queue'[Len(queue) + 1] = nextId
      BY <1>12
    <3>5. Range(queue) = {queue[i] : i \in DOMAIN queue} /\ Range(queue') = {queue'[i] : i \in DOMAIN queue'}
      BY DEF Range
    <3>6. \A x : x \in Range(queue') <=> x \in Range(queue) \cup {nextId}
      BY <3>1, <3>2, <3>3, <3>4, <3>5
    <3> QED  BY <3>6
  <2>3. nextId \notin Range(queue)
    BY <1>0, <1>3 DEF Lists
  <2>4. Range(queue') = {j \in table' : state'[j] = "Queued"}
    <3>1. \A j \in table : j \in JobIds /\ j # nextId
      BY <1>0, <1>4 DEF TypeInv, Reserved
    <3> QED  BY <1>0, <1>2, <1>5, <2>2, <3>1 DEF Lists
  <2>5. \A i \in 1 .. Len(queue) : queue[i] # nextId
    BY <2>1, <2>3 DEF Range
  <2>6. \A i, k \in 1 .. Len(queue') : queue'[i] = queue'[k] => i = k
    BY <1>0, <1>12, <2>1, <2>5 DEF Lists
  <2>7. ready' \subseteq {j \in table' : state'[j] \in Terminal}
    <3>1. \A j \in table : j \in JobIds /\ j # nextId
      BY <1>0, <1>4 DEF TypeInv, Reserved
    <3> QED  BY <1>0, <1>2, <1>5, <3>1 DEF Lists
  <2> QED  BY <1>2, <2>4, <2>6, <2>7 DEF Lists
<1>21. Held' /\ LeaseHeld'
  <2>1. \A t \in Holders : work[t] \in JobIds /\ work[t] # nextId
    BY <1>0, <1>3 DEF LeaseHeld, TypeInv
  <2> QED  BY <1>0, <1>2, <1>5, <1>8, <2>1 DEF Held, LeaseHeld
<1>22. AnnouncedOnce'
  BY <1>0, <1>2, <1>3, <1>5 DEF AnnouncedOnce, Terminal
<1>23. Charged'
  <2>1. Reserved' = Reserved \cup {nextId}
    BY <1>2 DEF Reserved
  <2>2. IsFiniteSet(Reserved) /\ \A j \in Reserved : bytes[j] \in Nat /\ bytes'[j] = bytes[j]
    BY <1>0, <1>1, <1>4, BytesAreNat, JobsAreFinite DEF TypeInv
  <2>3. bytes'[nextId] = b /\ b \in Nat
    BY <1>0, <1>1, <1>3, LimitsAssumption DEF TypeInv
  <2>4. SumFunctionOnSet(bytes', Reserved) = SumFunctionOnSet(bytes, Reserved)
    BY <2>2, SumSame
  <2>5. SumFunctionOnSet(bytes', Reserved \cup {nextId}) = b + SumFunctionOnSet(bytes', Reserved)
    BY <1>4, <2>2, <2>3, SumAdd
  <2>6. SumFunctionOnSet(bytes, Reserved) \in Nat
    BY <1>0, BytesAreNat
  <2> QED  BY <1>0, <1>1, <2>1, <2>3, <2>4, <2>5, <2>6 DEF Charged
<1> QED  BY <1>10, <1>14, <1>15, <1>16, <1>17, <1>18, <1>19, <1>20, <1>21, <1>22, <1>23 DEF IInv

-----------------------------------------------------------------------------
(* A job is taken and executed *)

LEMMA TakeWorkKeeps ==
    ASSUME NEW t \in Hosts \cup Workers, pc[t] \in {"idle", "check"}, IInv, TakeWork(t)
    PROVE  IInv'
<1>0. TypeInv /\ Places /\ Works /\ Gate /\ Stopping /\ Reads /\ Jobs /\ Lists /\ Held
      /\ LeaseHeld /\ AnnouncedOnce /\ QuiescedIsFinal /\ Charged
  BY DEF IInv
<1>1. PICK i \in Runnable :
         /\ \A k \in Runnable : i <= k
         /\ queue' = SubSeq(queue, i + 1, Len(queue))
         /\ state' = [state EXCEPT ![queue[i]] = "Running"]
         /\ work' = [work EXCEPT ![t] = queue[i]]
  BY DEF TakeWork
<1>2. /\ accepting /\ ~(running >= MaxRunning) /\ running' = running + 1 /\ Goto(t, "begin")
      /\ UNCHANGED <<config, contextVars, sys, accepting, table, ready, token, bytes, ledgerVars,
                     nextId, answer, closeVars, notices, refused>>
  BY DEF TakeWork, Blocked
<1>3. queue \in Seq(JobIds) /\ Len(queue) \in Nat /\ DOMAIN queue = 1 .. Len(queue)
  BY <1>0, QueueLength
<1>4. i = 1 /\ Len(queue) >= 1
  BY <1>0, <1>1, <1>3, QueuedAreRunnable
<1> DEFINE j == queue[1]
<1>5. j \in JobIds /\ j \in table /\ state[j] = "Queued" /\ j < nextId
  <2>1. j \in table /\ state[j] = "Queued"
    BY <1>1, <1>4 DEF Runnable
  <2> QED  BY <1>0, <2>1 DEF Jobs, Reserved, TypeInv
<1>6. /\ state' = [state EXCEPT ![j] = "Running"]
      /\ work' = [work EXCEPT ![t] = j]
      /\ queue' = SubSeq(queue, 2, Len(queue))
  BY <1>1, <1>4
<1>7. /\ queue' \in Seq(JobIds) /\ Len(queue') = Len(queue) - 1
      /\ DOMAIN queue' = 1 .. Len(queue) - 1
      /\ \A k \in 1 .. Len(queue) - 1 : queue'[k] = queue[k + 1]
  BY <1>3, <1>4, <1>6
<1> HIDE DEF j
<1>8. /\ state' \in [JobIds -> JobStates] /\ state'[j] = "Running"
      /\ \A k \in JobIds \ {j} : state'[k] = state[k]
  BY <1>0, <1>5, <1>6 DEF TypeInv, JobStates
<1>9. t \in Threads /\ "begin" \in PlacesOf(t) /\ "begin" \in PCs
  BY Kinds DEF PlacesOf, PCs, Executing
<1>10. Moves(t, "begin")
  BY <1>0, <1>2, <1>9, GotoMoves
<1>11. Places'
  BY <1>0, <1>9, <1>10, MoveKeepsPlaces
<1>12. t \notin Holders /\ Holders' = Holders \cup {t}
  BY <1>9, <1>10 DEF Holders, Threads, Moves, Executing
<1>13. /\ work' \in [Threads -> JobIds \cup {0}] /\ work'[t] = j
       /\ \A u \in Threads \ {t} : work'[u] = work[u]
  BY <1>0, <1>5, <1>6, <1>9 DEF TypeInv
<1>14. MaxRunning' = MaxRunning /\ MaxRunning \in Nat
  BY <1>0, <1>2, MaxRunningIsPositive DEF MaxRunning, TypeInv
<1>15. running' \in 0 .. MaxRunning
  <2>1. running \in 0 .. MaxRunning
    BY <1>0 DEF TypeInv
  <2> QED  BY <1>2, <1>14, <2>1
<1>16. Len(queue') <= config.queue
  <2>1. config.queue \in Nat /\ Len(queue) <= config.queue
    BY <1>0, ConfigsAssumption DEF TypeInv
  <2> QED  BY <1>3, <1>4, <1>7, <2>1
<1>17. TypeInv'
  BY <1>0, <1>2, <1>7, <1>8, <1>11, <1>13, <1>14, <1>15, <1>16 DEF TypeInv, Places
<1>18. Works'
  <2>1. j # 0
    BY <1>5 DEF JobIds
  <2> QED  BY <1>0, <1>2, <1>5, <1>9, <1>10, <1>13, <2>1 DEF Works, Moves, Executing
<1>19. /\ pc'[Closer] = pc[Closer] /\ pc'[Owner] = pc[Owner] /\ pc'[t] = "begin"
       /\ \A k \in Hosts : k # t => pc'[k] = pc[k]
  BY <1>9, <1>10, OthersStay, Kinds DEF Moves
<1>20. Gate'
  BY <1>0, <1>2, <1>19 DEF Gate
<1>21. Stopping'
  BY <1>0, <1>2, <1>19 DEF Stopping
<1>22. QuiescedIsFinal' /\ Reads'
  BY <1>0, <1>2, <1>19 DEF QuiescedIsFinal, Reads, Stopping
<1>23. Jobs'
  BY <1>0, <1>2, <1>5, <1>8, <1>19 DEF Jobs, Reserved
<1>24. Lists'
  <2>1. /\ \A k \in DOMAIN queue' : k + 1 \in DOMAIN queue /\ queue'[k] = queue[k + 1] /\ k + 1 # 1
        /\ \A k \in DOMAIN queue : k = 1 \/ (k - 1 \in DOMAIN queue' /\ queue'[k - 1] = queue[k])
        /\ 1 \in DOMAIN queue
    BY <1>3, <1>4, <1>7
  <2>2. \A k, l \in DOMAIN queue : queue[k] = queue[l] => k = l
    BY <1>0, <1>3 DEF Lists
  <2>3. Range(queue') = Range(queue) \ {j}
    <3>1. Range(queue) = {queue[k] : k \in DOMAIN queue}
          /\ Range(queue') = {queue'[k] : k \in DOMAIN queue'}
      BY DEF Range
    <3>2. \A x : x \in Range(queue') => x \in Range(queue) /\ x # j
      BY <2>1, <2>2, <3>1 DEF j
    <3>3. \A x : x \in Range(queue) /\ x # j => x \in Range(queue')
      BY <2>1, <3>1 DEF j
    <3> QED  BY <3>2, <3>3
  <2>4. \A k \in table : k \in JobIds
    BY <1>0 DEF TypeInv
  <2>5. Range(queue') = {k \in table' : state'[k] = "Queued"}
    BY <1>0, <1>2, <1>8, <2>3, <2>4 DEF Lists
  <2>6. \A k, l \in 1 .. Len(queue') : queue'[k] = queue'[l] => k = l
    <3>1. \A k, l \in 1 .. Len(queue) - 1 : queue[k + 1] = queue[l + 1] => k + 1 = l + 1
      BY <1>3, <2>1, <2>2, <1>7
    <3> QED  BY <1>3, <1>4, <1>7, <3>1
  <2>7. ready' \subseteq {k \in table' : state'[k] \in Terminal}
    BY <1>0, <1>2, <1>5, <1>8, <2>4 DEF Lists, Terminal
  <2> QED  BY <1>2, <2>5, <2>6, <2>7 DEF Lists
<1>25. Held'
  BY <1>0, <1>2, <1>12, CountHolders
<1>26. LeaseHeld'
  <2>1. \A u \in Holders : work[u] \in table /\ work[u] \in JobIds /\ work[u] # j
                           /\ state[work[u]] = "Running" /\ u \in Threads
    BY <1>0, <1>5 DEF LeaseHeld, TypeInv, Holders
  <2>2. \A u \in Holders' : work'[u] \in table' /\ state'[work'[u]] = "Running"
    BY <1>2, <1>5, <1>8, <1>12, <1>13, <2>1
  <2>3. \A u, v \in Holders' : work'[u] = work'[v] => u = v
    BY <1>0, <1>12, <1>13, <2>1 DEF LeaseHeld
  <2>4. \A k \in JobIds : state'[k] = "Running" => \E u \in Holders' : work'[u] = k
    BY <1>0, <1>8, <1>12, <1>13, <2>1 DEF LeaseHeld
  <2> QED  BY <2>2, <2>3, <2>4 DEF LeaseHeld
<1>27. AnnouncedOnce'
  BY <1>0, <1>2, <1>5, <1>8 DEF AnnouncedOnce, Terminal
<1>28. Charged'
  BY <1>0, <1>2 DEF Charged, Reserved
<1> QED  BY <1>11, <1>17, <1>18, <1>20, <1>21, <1>22, <1>23, <1>24, <1>25, <1>26, <1>27, <1>28 DEF IInv

(* Only hosts and workers execute. *)
LEMMA ExecutingKind ==
    ASSUME Places, NEW t \in Threads, pc[t] \in Executing \cup {"finish"}
    PROVE  t \in Hosts \cup Workers
BY PlacesByKind DEF Threads, Executing

(* A step inside execute that changes no more than the position and the       *)
(* answer of its thread.                                                     *)
LEMMA ExecuteMoveKeeps ==
    ASSUME NEW t \in Threads, IInv, pc[t] \in {"begin", "kernel"},
           NEW p \in {"kernel", "publish"}, Goto(t, p),
           answer' \in [Threads -> Terminal \cup {"none"}],
           answer'[t] = "none" <=> p # "publish",
           \A u \in Threads \ {t} : answer'[u] = answer[u],
           UNCHANGED <<config, contextVars, sys, schedulerVars, jobVars, ledgerVars, nextId, work,
                       closeVars, notices, refused>>
    PROVE  IInv'
<1>0. TypeInv /\ Places /\ Works /\ Gate /\ Stopping /\ Reads /\ Jobs /\ Lists /\ Held
      /\ LeaseHeld /\ AnnouncedOnce /\ QuiescedIsFinal /\ Charged
  BY DEF IInv
<1>1. t \in Hosts \cup Workers
  BY <1>0, ExecutingKind DEF Executing
<1>2. p \in PlacesOf(t) /\ p \in PCs
  BY <1>1, Kinds DEF PlacesOf, PCs, Executing
<1>3. Moves(t, p)
  BY <1>0, <1>2, GotoMoves
<1>4. Places'
  BY <1>0, <1>2, <1>3, MoveKeepsPlaces
<1>5. Holders' = Holders
  BY <1>0, <1>3, MoveKeepsHolders DEF Executing
<1>6. /\ pc'[Closer] = pc[Closer] /\ pc'[Owner] = pc[Owner] /\ pc'[t] = p
      /\ \A k \in Hosts : k # t => pc'[k] = pc[k]
  BY <1>1, <1>3, OthersStay, Kinds DEF Moves
<1>7. MaxRunning' = MaxRunning
  BY DEF MaxRunning
<1>8. TypeInv'
  BY <1>0, <1>4, <1>7 DEF TypeInv, Places
<1>9. Works'
  BY <1>0, <1>3 DEF Works, Moves, Executing
<1>10. Gate'
  BY <1>0, <1>6 DEF Gate
<1>11. Stopping'
  BY <1>0, <1>6 DEF Stopping
<1>12. QuiescedIsFinal' /\ Reads'
  BY <1>1, <1>3, <1>5, <1>6, Kinds, QuiescedKept
<1>13. Jobs'
  BY <1>0, <1>6 DEF Jobs, Reserved
<1>14. Lists' /\ Held' /\ LeaseHeld'
  BY <1>0, <1>5 DEF Lists, Held, LeaseHeld
<1>15. AnnouncedOnce' /\ Charged'
  BY <1>0 DEF AnnouncedOnce, Charged, Reserved
<1> QED  BY <1>4, <1>8, <1>9, <1>10, <1>11, <1>12, <1>13, <1>14, <1>15 DEF IInv

LEMMA ExecuteBeginKeeps == ASSUME NEW t \in Threads, IInv, ExecuteBegin(t) PROVE IInv'
<1>1. answer \in [Threads -> Terminal \cup {"none"}] /\ pc[t] = "begin" /\ answer[t] = "none"
  BY DEF IInv, TypeInv, Works, ExecuteBegin
<1>2. UNCHANGED <<config, contextVars, sys, schedulerVars, jobVars, ledgerVars, nextId, work,
                  closeVars, notices, refused>>
  BY DEF ExecuteBegin
<1>3. CASE Goto(t, "kernel") /\ UNCHANGED answer
  BY <1>1, <1>2, <1>3, ExecuteMoveKeeps
<1>4. CASE answer' = [answer EXCEPT ![t] = "Cancelled"] /\ Goto(t, "publish")
  <2>1. /\ answer' \in [Threads -> Terminal \cup {"none"}] /\ answer'[t] = "Cancelled"
        /\ \A u \in Threads \ {t} : answer'[u] = answer[u]
    BY <1>1, <1>4 DEF Terminal
  <2> QED  BY <1>1, <1>2, <1>4, <2>1, ExecuteMoveKeeps
<1> QED  BY <1>3, <1>4 DEF ExecuteBegin

LEMMA ExecuteKernelKeeps == ASSUME NEW t \in Threads, IInv, ExecuteKernel(t) PROVE IInv'
<1>1. answer \in [Threads -> Terminal \cup {"none"}] /\ pc[t] = "kernel"
  BY DEF IInv, TypeInv, ExecuteKernel
<1>2. PICK e \in Terminal : answer' = [answer EXCEPT ![t] = e]
  BY DEF ExecuteKernel
<1>3. Goto(t, "publish")
      /\ UNCHANGED <<config, contextVars, sys, schedulerVars, jobVars, ledgerVars, nextId, work,
                     closeVars, notices, refused>>
  BY DEF ExecuteKernel
<1>4. /\ answer' \in [Threads -> Terminal \cup {"none"}] /\ answer'[t] = e /\ e # "none"
      /\ \A u \in Threads \ {t} : answer'[u] = answer[u]
  BY <1>1, <1>2 DEF Terminal
<1> QED  BY <1>1, <1>3, <1>4, ExecuteMoveKeeps

LEMMA ExecutePublishKeeps == ASSUME NEW t \in Threads, IInv, ExecutePublish(t) PROVE IInv'
<1>0. TypeInv /\ Places /\ Works /\ Gate /\ Stopping /\ Reads /\ Jobs /\ Lists /\ Held
      /\ LeaseHeld /\ AnnouncedOnce /\ QuiescedIsFinal /\ Charged
  BY DEF IInv
<1> DEFINE j == work[t]
<1>1. t \in Holders /\ pc[t] = "publish"
  BY DEF ExecutePublish, Holders, Executing
<1>2. j \in table /\ j \in JobIds /\ state[j] = "Running"
  BY <1>0, <1>1 DEF LeaseHeld, TypeInv
<1>3. answer[t] \in Terminal
  BY <1>0, <1>1 DEF Works, TypeInv
<1>4. /\ state' = [state EXCEPT ![j] = answer[t]]
      /\ Announce({j})
      /\ running' = running - 1 /\ answer' = [answer EXCEPT ![t] = "none"] /\ Goto(t, "finish")
      /\ UNCHANGED <<config, contextVars, sys, accepting, table, queue, token, bytes, ledgerVars,
                     nextId, work, closeVars, refused>>
  BY <1>2 DEF ExecutePublish
<1> HIDE DEF j
<1>5. /\ state' \in [JobIds -> JobStates] /\ state'[j] \in Terminal
      /\ \A k \in JobIds \ {j} : state'[k] = state[k]
  BY <1>0, <1>2, <1>3, <1>4 DEF TypeInv, JobStates
<1>6. /\ ready' = ready \cup {j} /\ notices' \in [JobIds -> Nat]
      /\ notices'[j] = notices[j] + 1 /\ \A k \in JobIds \ {j} : notices'[k] = notices[k]
  BY <1>0, <1>2, <1>4 DEF Announce, TypeInv
<1>7. t \in Hosts \cup Workers
  BY <1>0, <1>1, ExecutingKind DEF Executing
<1>8. "finish" \in PlacesOf(t) /\ "finish" \in PCs
  BY <1>7, Kinds DEF PlacesOf, PCs
<1>9. Moves(t, "finish")
  BY <1>0, <1>4, <1>8, GotoMoves
<1>10. Places'
  BY <1>0, <1>8, <1>9, MoveKeepsPlaces
<1>11. Holders' = Holders \ {t}
  BY <1>1, <1>9 DEF Holders, Threads, Moves, Executing
<1>12. Held' /\ running \in Nat /\ running >= 1
  BY <1>0, <1>1, <1>4, <1>11, DiscountHolders
<1>13. MaxRunning' = MaxRunning /\ MaxRunning \in Nat
  BY <1>0, <1>4, MaxRunningIsPositive DEF MaxRunning, TypeInv
<1>14. running' \in 0 .. MaxRunning
  <2>1. running \in 0 .. MaxRunning
    BY <1>0 DEF TypeInv
  <2> QED  BY <1>4, <1>12, <1>13, <2>1
<1>15. answer' \in [Threads -> Terminal \cup {"none"}] /\ answer'[t] = "none"
       /\ \A u \in Threads \ {t} : answer'[u] = answer[u]
  BY <1>0, <1>4 DEF TypeInv
<1>16. TypeInv'
  <2>1. ready' \subseteq JobIds
    BY <1>0, <1>2, <1>6 DEF TypeInv
  <2> QED  BY <1>0, <1>4, <1>5, <1>6, <1>10, <1>13, <1>14, <1>15, <2>1 DEF TypeInv, Places
<1>17. Works'
  BY <1>0, <1>1, <1>4, <1>9, <1>15 DEF Works, Moves, Executing
<1>18. /\ pc'[Closer] = pc[Closer] /\ pc'[Owner] = pc[Owner] /\ pc'[t] = "finish"
       /\ \A k \in Hosts : k # t => pc'[k] = pc[k]
  BY <1>7, <1>9, OthersStay, Kinds DEF Moves
<1>19. Gate'
  BY <1>0, <1>1, <1>4, <1>18 DEF Gate
<1>20. Stopping'
  BY <1>0, <1>4, <1>18 DEF Stopping
<1>21. QuiescedIsFinal' /\ Reads'
  BY <1>0, <1>1, <1>4, <1>18 DEF QuiescedIsFinal, Reads
<1>22. Jobs'
  BY <1>0, <1>2, <1>4, <1>5, <1>18 DEF Jobs, Reserved, Terminal
<1>23. Lists'
  <2>1. \A k \in table : k \in JobIds
    BY <1>0 DEF TypeInv
  <2>2. Range(queue') = {k \in table' : state'[k] = "Queued"}
    BY <1>0, <1>2, <1>4, <1>5, <2>1 DEF Lists, Terminal
  <2>3. ready' \subseteq {k \in table' : state'[k] \in Terminal}
    BY <1>0, <1>2, <1>4, <1>5, <1>6, <2>1 DEF Lists
  <2> QED  BY <1>0, <1>4, <2>2, <2>3 DEF Lists
<1>24. LeaseHeld'
  <2>1. \A u \in Holders' : u \in Holders /\ work[u] \in JobIds /\ work[u] # j
    BY <1>0, <1>1, <1>11 DEF LeaseHeld, TypeInv, j
  <2>2. \A u \in Holders' : work'[u] \in table' /\ state'[work'[u]] = "Running"
    BY <1>0, <1>4, <1>5, <2>1 DEF LeaseHeld
  <2>3. \A u, v \in Holders' : work'[u] = work'[v] => u = v
    BY <1>0, <1>4, <2>1 DEF LeaseHeld
  <2>4. \A k \in JobIds : state'[k] = "Running" => \E u \in Holders' : work'[u] = k
    <3> SUFFICES ASSUME NEW k \in JobIds, state'[k] = "Running"
                 PROVE  \E u \in Holders' : work'[u] = k
      OBVIOUS
    <3>1. k # j /\ state[k] = "Running"
      BY <1>5 DEF Terminal
    <3>2. PICK u \in Holders : work[u] = k
      BY <1>0, <3>1 DEF LeaseHeld
    <3> QED  BY <1>4, <1>11, <3>1, <3>2 DEF j
  <2> QED  BY <2>2, <2>3, <2>4 DEF LeaseHeld
<1>25. AnnouncedOnce'
  <2>1. notices[j] = 0
    BY <1>0, <1>2 DEF AnnouncedOnce, Terminal
  <2> QED  BY <1>0, <1>5, <1>6, <2>1 DEF AnnouncedOnce
<1>26. Charged'
  BY <1>0, <1>4 DEF Charged, Reserved
<1> QED  BY <1>10, <1>12, <1>16, <1>17, <1>19, <1>20, <1>21, <1>22, <1>23, <1>24, <1>25, <1>26 DEF IInv

LEMMA ExecuteFinishKeeps == ASSUME NEW t \in Threads, IInv, ExecuteFinish(t) PROVE IInv'
<1>0. TypeInv /\ Places /\ Works /\ Gate /\ Stopping /\ Reads /\ Jobs /\ Lists /\ Held
      /\ LeaseHeld /\ AnnouncedOnce /\ QuiescedIsFinal /\ Charged
  BY DEF IInv
<1> DEFINE p == IF t \in Workers THEN "check" ELSE "idle"
<1>1. pc[t] = "finish" /\ work' = [work EXCEPT ![t] = 0] /\ WakeAndGoto(Waiting, t, p)
      /\ UNCHANGED <<config, contextVars, sys, schedulerVars, jobVars, ledgerVars, nextId, answer,
                     closeVars, notices, refused>>
  BY DEF ExecuteFinish, WakeAll
<1>2. t \in Hosts \cup Workers
  BY <1>0, <1>1, ExecutingKind
<1>3. p \in PlacesOf(t) /\ p \in PCs /\ p \in {"check", "idle"}
  BY <1>2, Kinds DEF PlacesOf, PCs
<1> HIDE DEF p
<1>4. Moves(t, p)
  BY <1>0, <1>1, <1>3, WakeMoves
<1>5. Places'
  BY <1>0, <1>3, <1>4, MoveKeepsPlaces
<1>6. Holders' = Holders
  BY <1>0, <1>1, <1>3, <1>4, MoveKeepsHolders DEF Executing
<1>7. /\ work' \in [Threads -> JobIds \cup {0}] /\ work'[t] = 0
      /\ \A u \in Threads \ {t} : work'[u] = work[u]
  BY <1>0, <1>1 DEF TypeInv
<1>8. MaxRunning' = MaxRunning
  BY <1>1 DEF MaxRunning
<1>9. TypeInv'
  BY <1>0, <1>1, <1>5, <1>7, <1>8 DEF TypeInv, Places
<1>10. Works'
  <2>1. 0 < nextId
    BY <1>0 DEF TypeInv
  <2> QED  BY <1>0, <1>1, <1>3, <1>4, <1>7, <2>1 DEF Works, Moves, Executing
<1>11. /\ pc'[Closer] = pc[Closer] /\ pc'[Owner] = pc[Owner] /\ pc'[t] = p
       /\ \A k \in Hosts : k # t => pc'[k] = pc[k]
  BY <1>2, <1>4, OthersStay, Kinds DEF Moves
<1>12. Gate'
  BY <1>0, <1>1, <1>3, <1>11 DEF Gate
<1>13. Stopping'
  BY <1>0, <1>1, <1>11 DEF Stopping
<1>14. QuiescedIsFinal' /\ Reads'
  BY <1>1, <1>2, <1>4, <1>6, <1>11, Kinds, QuiescedKept
<1>15. Jobs'
  BY <1>0, <1>1, <1>11 DEF Jobs, Reserved
<1>16. Lists' /\ Held'
  BY <1>0, <1>1, <1>6 DEF Lists, Held
<1>17. LeaseHeld'
  <2>1. \A u \in Holders : work'[u] = work[u]
    BY <1>1, <1>7 DEF Holders, Executing
  <2> QED  BY <1>0, <1>1, <1>6, <2>1 DEF LeaseHeld
<1>18. AnnouncedOnce' /\ Charged'
  BY <1>0, <1>1 DEF AnnouncedOnce, Charged, Reserved
<1> QED  BY <1>5, <1>9, <1>10, <1>12, <1>13, <1>14, <1>15, <1>16, <1>17, <1>18 DEF IInv

-----------------------------------------------------------------------------
(* Calls of a host that leave every thread where it is *)

LEMMA CallKeeps ==
    ASSUME IInv, TypeInv', Jobs', Lists', LeaseHeld', AnnouncedOnce', Charged',
           UNCHANGED <<config, contextVars, sys, accepting, running, nextId, threadVars, closeVars,
                       refused>>
    PROVE  IInv'
<1>1. Places' /\ Works' /\ Gate' /\ Stopping'
  BY DEF IInv, Places, Works, Gate, Stopping
<1>2. Reads' /\ Held' /\ QuiescedIsFinal'
  BY DEF IInv, Reads, Held, QuiescedIsFinal, Holders
<1> QED  BY <1>1, <1>2 DEF IInv

LEMMA CancelKeeps == ASSUME NEW h \in Hosts, NEW j \in JobIds, IInv, Cancel(h, j) PROVE IInv'
<1>0. TypeInv /\ Jobs /\ Lists /\ LeaseHeld /\ AnnouncedOnce /\ Charged
  BY DEF IInv
<1>1. /\ j \in table /\ token' = [token EXCEPT ![j] = TRUE]
      /\ UNCHANGED <<config, contextVars, sys, accepting, table, running, bytes, ledgerVars, nextId,
                     threadVars, closeVars, refused>>
  BY DEF Cancel
<1>2. token' \in [JobIds -> BOOLEAN]
  BY <1>0, <1>1 DEF TypeInv
<1>3. MaxRunning' = MaxRunning /\ Holders' = Holders
  BY <1>1 DEF MaxRunning, Holders
<1>4. Charged'
  BY <1>0, <1>1 DEF Charged, Reserved
<1>5. CASE UNCHANGED <<state, queue, ready, notices>>
  <2>1. TypeInv'
    BY <1>0, <1>1, <1>2, <1>3, <1>5 DEF TypeInv
  <2>2. Jobs' /\ Lists'
    BY <1>0, <1>1, <1>5 DEF Jobs, Lists, Reserved
  <2>3. LeaseHeld' /\ AnnouncedOnce'
    BY <1>0, <1>1, <1>3, <1>5 DEF LeaseHeld, AnnouncedOnce
  <2> QED  BY <1>1, <1>4, <2>1, <2>2, <2>3, CallKeeps
<1>6. CASE /\ state[j] = "Queued"
           /\ state' = [state EXCEPT ![j] = "Cancelled"]
           /\ Unqueue(j)
           /\ Announce({j})
  <2>1. /\ state' \in [JobIds -> JobStates] /\ state'[j] = "Cancelled"
        /\ \A k \in JobIds \ {j} : state'[k] = state[k]
    BY <1>0, <1>6 DEF TypeInv, JobStates, Terminal
  <2>2. /\ ready' = ready \cup {j} /\ notices' \in [JobIds -> Nat]
        /\ notices'[j] = notices[j] + 1 /\ \A k \in JobIds \ {j} : notices'[k] = notices[k]
    BY <1>0, <1>6 DEF Announce, TypeInv
  <2>3. /\ queue' \in Seq(JobIds) /\ Len(queue') <= Len(queue)
        /\ Range(queue') = Range(queue) \ {j}
        /\ \A i, k \in 1 .. Len(queue') : queue'[i] = queue'[k] => i = k
    <3>1. queue \in Seq(JobIds) /\ \A i, k \in 1 .. Len(queue) : queue[i] = queue[k] => i = k
      BY <1>0, QueueLength DEF Lists
    <3>2. queue' = Retained(queue, j)
      BY <1>6 DEF Unqueue
    <3> QED  BY <3>1, <3>2, RetainedKeepsOthers
  <2>4. Len(queue') <= config.queue
    <3>1. config.queue \in Nat /\ Len(queue) \in Nat /\ Len(queue') \in Nat /\ Len(queue) <= config.queue
      BY <1>0, <2>3, ConfigsAssumption DEF TypeInv
    <3> QED  BY <2>3, <3>1
  <2>5. TypeInv'
    <3>1. ready' \subseteq JobIds
      BY <1>0, <2>2 DEF TypeInv
    <3> QED  BY <1>0, <1>1, <1>2, <1>3, <2>1, <2>2, <2>3, <2>4, <3>1 DEF TypeInv
  <2>6. Jobs'
    BY <1>0, <1>1, <1>6, <2>1 DEF Jobs, Reserved
  <2>7. Lists'
    <3>1. \A k \in table : k \in JobIds
      BY <1>0 DEF TypeInv
    <3>2. Range(queue') = {k \in table' : state'[k] = "Queued"}
      BY <1>0, <1>1, <2>1, <2>3, <3>1 DEF Lists
    <3>3. ready' \subseteq {k \in table' : state'[k] \in Terminal}
      BY <1>0, <1>1, <1>6, <2>1, <2>2, <3>1 DEF Lists, Terminal
    <3>4. ~accepting' => queue' = <<>>
      <4> SUFFICES ASSUME ~accepting' PROVE FALSE
        OBVIOUS
      <4>1. queue = <<>> /\ j \in Range(queue)
        BY <1>0, <1>1, <1>6 DEF Lists
      <4> QED  BY <4>1 DEF Range
    <3> QED  BY <2>3, <3>2, <3>3, <3>4 DEF Lists
  <2>8. LeaseHeld'
    <3>1. \A t \in Holders : work[t] \in JobIds /\ work[t] # j
      BY <1>0, <1>6 DEF LeaseHeld, TypeInv
    <3> QED  BY <1>0, <1>1, <1>3, <2>1, <3>1 DEF LeaseHeld
  <2>9. AnnouncedOnce'
    <3>1. notices[j] = 0
      BY <1>0, <1>6 DEF AnnouncedOnce, Terminal
    <3> QED  BY <1>0, <2>1, <2>2, <3>1 DEF AnnouncedOnce, Terminal
  <2> QED  BY <1>1, <1>4, <2>5, <2>6, <2>7, <2>8, <2>9, CallKeeps
<1> QED  BY <1>5, <1>6 DEF Cancel

LEMMA DrainKeeps == ASSUME NEW h \in Hosts, IInv, Drain(h) PROVE IInv'
<1>1. /\ ready' \subseteq ready
      /\ UNCHANGED <<config, contextVars, sys, accepting, table, queue, running, jobVars, ledgerVars,
                     nextId, threadVars, closeVars, notices, refused>>
  BY DEF Drain
<1>2. MaxRunning' = MaxRunning /\ Holders' = Holders
  BY <1>1 DEF MaxRunning, Holders
<1>3. TypeInv'
  BY <1>1, <1>2 DEF IInv, TypeInv
<1>4. Jobs' /\ Lists'
  BY <1>1 DEF IInv, Jobs, Lists, Reserved
<1>5. LeaseHeld' /\ AnnouncedOnce' /\ Charged'
  BY <1>1, <1>2 DEF IInv, LeaseHeld, AnnouncedOnce, Charged, Reserved
<1> QED  BY <1>1, <1>3, <1>4, <1>5, CallKeeps

LEMMA TakeResultKeeps == ASSUME NEW h \in Hosts, NEW j \in JobIds, IInv, TakeResult(h, j) PROVE IInv'
<1>0. TypeInv /\ Jobs /\ Lists /\ LeaseHeld /\ AnnouncedOnce /\ Charged
  BY DEF IInv
<1>1. /\ j \in table /\ state[j] \in Terminal
      /\ table' = table \ {j} /\ ready' = ready \ {j} /\ results' = results \cup {j}
      /\ UNCHANGED <<config, contextVars, sys, accepting, queue, running, jobVars, charged, doomed,
                     nextId, threadVars, closeVars, notices, refused>>
  BY DEF TakeResult, Reapable
<1>2. MaxRunning' = MaxRunning /\ Holders' = Holders /\ Reserved' = Reserved
  BY <1>1 DEF MaxRunning, Holders, Reserved
<1>3. Cardinality(table') <= config.live
  <2>1. IsFiniteSet(table) /\ config.live \in Nat /\ Cardinality(table) <= config.live
    BY <1>0, JobsAreFinite, ConfigsAssumption DEF TypeInv
  <2>2. IsFiniteSet(table') /\ Cardinality(table') <= Cardinality(table)
    BY <1>1, <2>1, FS_Subset
  <2> QED  BY <2>1, <2>2, FS_CardinalityType
<1>4. TypeInv'
  <2>1. table' \subseteq JobIds /\ ready' \subseteq JobIds /\ results' \subseteq JobIds
    BY <1>0, <1>1 DEF TypeInv
  <2> QED  BY <1>0, <1>1, <1>2, <1>3, <2>1 DEF TypeInv
<1>5. Jobs'
  BY <1>0, <1>1, <1>2 DEF Jobs, Terminal
<1>6. Lists'
  <2>1. {k \in table' : state'[k] = "Queued"} = {k \in table : state[k] = "Queued"}
    BY <1>1 DEF Terminal
  <2>2. ready' \subseteq {k \in table' : state'[k] \in Terminal}
    BY <1>0, <1>1 DEF Lists
  <2> QED  BY <1>0, <1>1, <2>1, <2>2 DEF Lists
<1>7. LeaseHeld'
  <2>1. \A t \in Holders : work[t] # j
    BY <1>0, <1>1 DEF LeaseHeld, Terminal
  <2> QED  BY <1>0, <1>1, <1>2, <2>1 DEF LeaseHeld
<1>8. AnnouncedOnce' /\ Charged'
  BY <1>0, <1>1, <1>2 DEF AnnouncedOnce, Charged
<1> QED  BY <1>1, <1>4, <1>5, <1>6, <1>7, <1>8, CallKeeps

LEMMA DropResultKeeps == ASSUME NEW h \in Hosts, NEW j \in JobIds, IInv, DropResult(h, j) PROVE IInv'
<1>0. TypeInv /\ Jobs /\ Lists /\ LeaseHeld /\ AnnouncedOnce /\ Charged
  BY DEF IInv
<1>1. /\ j \in results /\ results' = results \ {j}
      /\ charged' = IF charged >= bytes[j] THEN charged - bytes[j] ELSE 0
      /\ UNCHANGED <<config, contextVars, sys, schedulerVars, jobVars, doomed, nextId, threadVars,
                     closeVars, notices, refused>>
  BY DEF DropResult, Release
<1>2. MaxRunning' = MaxRunning /\ Holders' = Holders
  BY <1>1 DEF MaxRunning, Holders
<1>3. Reserved' = Reserved \ {j} /\ j \in Reserved
  BY <1>0, <1>1 DEF Reserved, Jobs
<1>4. charged = bytes[j] + SumFunctionOnSet(bytes, Reserved \ {j})
  <2>1. IsFiniteSet(Reserved) /\ \A k \in Reserved : bytes[k] \in Nat
    BY <1>0, BytesAreNat, JobsAreFinite
  <2> QED  BY <1>0, <1>3, <2>1, SumRemove DEF Charged
<1>5. bytes[j] \in Nat /\ SumFunctionOnSet(bytes, Reserved \ {j}) \in Nat /\ charged \in 0 .. ByteLimit
  BY <1>0, BytesAreNat DEF TypeInv
<1>6. charged' = SumFunctionOnSet(bytes, Reserved \ {j}) /\ charged' \in 0 .. ByteLimit
  BY <1>1, <1>4, <1>5, LimitsAssumption
<1>7. TypeInv'
  <2>1. results' \subseteq JobIds
    BY <1>0, <1>1 DEF TypeInv
  <2> QED  BY <1>0, <1>1, <1>2, <1>6, <2>1 DEF TypeInv
<1>8. Jobs'
  BY <1>0, <1>1, <1>3 DEF Jobs
<1>9. Lists' /\ LeaseHeld' /\ AnnouncedOnce'
  BY <1>0, <1>1, <1>2 DEF Lists, LeaseHeld, AnnouncedOnce
<1>10. Charged'
  BY <1>1, <1>3, <1>6 DEF Charged
<1> QED  BY <1>1, <1>7, <1>8, <1>9, <1>10, CallKeeps

-----------------------------------------------------------------------------
(* The system is stopped and destroyed *)

LEMMA StopKeeps == ASSUME NEW t \in {Owner, Closer}, IInv, Stop(t) PROVE IInv'
<1>0. TypeInv /\ Places /\ Works /\ Gate /\ Stopping /\ Reads /\ Jobs /\ Lists /\ Held
      /\ LeaseHeld /\ AnnouncedOnce /\ QuiescedIsFinal /\ Charged
  BY DEF IInv
<1>1. /\ pc[t] = "stop" /\ accepting' = FALSE
      /\ token' = [j \in JobIds |-> token[j] \/ j \in table]
      /\ state' = [j \in JobIds |-> IF j \in Dropped THEN "Cancelled" ELSE state[j]]
      /\ Announce(Dropped)
      /\ queue' = <<>>
      /\ Goto(t, "stop_notify")
      /\ UNCHANGED <<config, contextVars, sys, table, running, bytes, ledgerVars, nextId, work,
                     answer, closeVars, refused>>
  BY DEF Stop
<1>2. Dropped = {j \in JobIds : state[j] = "Queued"} /\ Dropped \subseteq table
  BY <1>0 DEF Dropped, Lists, Jobs, TypeInv
<1>3. /\ state' \in [JobIds -> JobStates]
      /\ \A j \in Dropped : state[j] = "Queued" /\ state'[j] = "Cancelled"
      /\ \A j \in JobIds \ Dropped : state'[j] = state[j] /\ state[j] # "Queued"
  BY <1>0, <1>1, <1>2 DEF TypeInv, JobStates, Terminal
<1>4. /\ ready' = ready \cup Dropped /\ notices' \in [JobIds -> Nat]
      /\ \A j \in Dropped : notices'[j] = notices[j] + 1
      /\ \A j \in JobIds \ Dropped : notices'[j] = notices[j]
  BY <1>0, <1>1, <1>2 DEF Announce, TypeInv
<1>5. t \in Threads /\ "stop_notify" \in PlacesOf(t) /\ "stop_notify" \in PCs
  BY Kinds DEF PlacesOf, PCs
<1>6. Moves(t, "stop_notify")
  BY <1>0, <1>1, <1>5, GotoMoves
<1>7. Places'
  BY <1>0, <1>5, <1>6, MoveKeepsPlaces
<1>8. Holders' = Holders
  BY <1>0, <1>1, <1>5, <1>6, MoveKeepsHolders DEF Executing
<1>9. /\ \A u \in {Owner, Closer} : u # t => pc'[u] = pc[u]
      /\ \A h \in Hosts : pc'[h] = pc[h]
      /\ pc'[t] = "stop_notify"
  BY <1>5, <1>6, OthersStay, Kinds DEF Moves
<1>10. token' \in [JobIds -> BOOLEAN]
  BY <1>1
<1>11. MaxRunning' = MaxRunning
  BY <1>1 DEF MaxRunning
<1>12. TypeInv'
  <2>1. ready' \subseteq JobIds
    BY <1>0, <1>2, <1>4 DEF TypeInv
  <2>2. queue' \in Seq(JobIds) /\ Len(queue') <= config.queue
    <3>1. config.queue \in Nat
      BY <1>0, ConfigsAssumption DEF TypeInv
    <3> QED  BY <1>1, <3>1
  <2> QED  BY <1>0, <1>1, <1>3, <1>4, <1>7, <1>10, <1>11, <2>1, <2>2 DEF TypeInv, Places
<1>13. Works'
  BY <1>0, <1>1, <1>5, <1>6, MoveKeepsWorks DEF Executing
<1>14. Gate'
  BY <1>0, <1>1, <1>9 DEF Gate
<1>15. Stopping'
  <2>1. stage[t] # "none" /\ (t = Closer => phase = "Quiescing" /\ sys = "live")
        /\ (t = Closer => stage[Closer] \in {"cancel", "quiesce", "destroy"})
    BY <1>0, <1>1, <1>5 DEF Stopping
  <2>2. Owner # Closer
    BY Kinds
  <2> QED  BY <1>0, <1>1, <1>9, <2>1, <2>2 DEF Stopping
<1>16. QuiescedIsFinal'
  <2>1. \A w \in config.workers : pc[w] = "exited" => pc'[w] = "exited"
    <3>1. \A w \in config.workers : w \in Workers
      BY <1>0, ConfigsAssumption DEF TypeInv
    <3> QED  BY <1>5, <1>6, <3>1, ExitedStays, Kinds
  <2> QED  BY <1>0, <1>1, <1>8, <2>1 DEF QuiescedIsFinal
<1>17. Reads'
  BY <1>0, <1>1, <1>8, <1>9, Kinds DEF Reads
<1>18. Jobs'
  <2>1. \A j \in JobIds : state'[j] = "none" <=> j >= nextId'
    BY <1>0, <1>1, <1>3 DEF Jobs
  <2>2. \A j \in JobIds : state'[j] \in {"Queued", "Running"} => j \in table'
    BY <1>0, <1>1, <1>3 DEF Jobs
  <2>3. doomed' # {} => pc'[Closer] = "drop_old"
    BY <1>0, <1>1, <1>9 DEF Jobs
  <2> QED  BY <1>0, <1>1, <2>1, <2>2, <2>3 DEF Jobs, Reserved
<1>19. Lists'
  <2>1. \A j \in table : j \in JobIds
    BY <1>0 DEF TypeInv
  <2>2. Range(queue') = {}
    BY <1>1 DEF Range
  <2>3. {j \in table' : state'[j] = "Queued"} = {}
    BY <1>1, <1>3, <2>1
  <2>4. ready' \subseteq {j \in table' : state'[j] \in Terminal}
    BY <1>0, <1>1, <1>2, <1>3, <1>4, <2>1 DEF Lists, Terminal
  <2> QED  BY <1>1, <2>2, <2>3, <2>4 DEF Lists
<1>20. Held'
  BY <1>0, <1>1, <1>8 DEF Held
<1>21. LeaseHeld'
  <2>1. \A u \in Holders : work[u] \in JobIds \ Dropped
    BY <1>0, <1>3 DEF LeaseHeld, TypeInv
  <2> QED  BY <1>0, <1>1, <1>3, <1>8, <2>1 DEF LeaseHeld
<1>22. AnnouncedOnce'
  BY <1>0, <1>3, <1>4 DEF AnnouncedOnce, Terminal
<1>23. Charged'
  BY <1>0, <1>1 DEF Charged, Reserved
<1> QED  BY <1>7, <1>12, <1>13, <1>14, <1>15, <1>16, <1>17, <1>18, <1>19, <1>20, <1>21, <1>22, <1>23
         DEF IInv

LEMMA DestroyClearKeeps == ASSUME IInv, DestroyClear PROVE IInv'
<1>0. TypeInv /\ Places /\ Works /\ Gate /\ Stopping /\ Reads /\ Jobs /\ Lists /\ Held
      /\ LeaseHeld /\ AnnouncedOnce /\ QuiescedIsFinal /\ Charged
  BY DEF IInv
<1>1. /\ pc[Closer] = "clear" /\ queue' = <<>> /\ ready' = {} /\ table' = {} /\ doomed' = table
      /\ Goto(Closer, "drop_old")
      /\ UNCHANGED <<config, contextVars, sys, accepting, running, jobVars, charged, results, nextId,
                     work, answer, closeVars, notices, refused>>
  BY DEF DestroyClear
<1>2. stage[Closer] = "destroy" /\ Holders = {} /\ ~accepting /\ queue = <<>> /\ doomed = {}
  BY <1>0, <1>1 DEF Stopping, QuiescedIsFinal, Lists, Jobs
<1>3. \A j \in JobIds : state[j] \notin {"Queued", "Running"}
  <2>1. \A j \in JobIds : state[j] # "Running"
    BY <1>0, <1>2 DEF LeaseHeld
  <2>2. Range(queue) = {}
    BY <1>2 DEF Range
  <2>3. \A j \in JobIds : state[j] # "Queued"
    BY <1>0, <2>2 DEF Lists, Jobs
  <2> QED  BY <2>1, <2>3
<1>4. Reserved' = Reserved
  BY <1>1, <1>2 DEF Reserved
<1>5. Closer \in Threads /\ "drop_old" \in PlacesOf(Closer) /\ "drop_old" \in PCs
  BY Kinds DEF PlacesOf, PCs
<1>6. Moves(Closer, "drop_old")
  BY <1>0, <1>1, <1>5, GotoMoves
<1>7. Places'
  BY <1>0, <1>5, <1>6, MoveKeepsPlaces
<1>8. Holders' = Holders
  BY <1>0, <1>1, <1>5, <1>6, MoveKeepsHolders DEF Executing
<1>9. /\ pc'[Owner] = pc[Owner] /\ \A h \in Hosts : pc'[h] = pc[h]
      /\ pc'[Closer] = "drop_old"
  BY <1>5, <1>6, OthersStay, Kinds DEF Moves
<1>10. MaxRunning' = MaxRunning
  BY <1>1 DEF MaxRunning
<1>11. TypeInv'
  <2>1. config.queue \in Nat /\ config.live \in Nat
    BY <1>0, ConfigsAssumption DEF TypeInv
  <2>2. queue' \in Seq(JobIds) /\ Len(queue') <= config.queue /\ Cardinality(table') <= config.live
    BY <1>1, <2>1, FS_EmptySet
  <2>3. table' \subseteq JobIds /\ doomed' \subseteq JobIds /\ ready' \subseteq JobIds
    BY <1>0, <1>1 DEF TypeInv
  <2> QED  BY <1>0, <1>1, <1>7, <1>10, <2>2, <2>3 DEF TypeInv, Places
<1>12. Works'
  BY <1>0, <1>1, <1>5, <1>6, MoveKeepsWorks DEF Executing
<1>13. Gate'
  BY <1>0, <1>1, <1>9 DEF Gate
<1>14. Stopping'
  BY <1>0, <1>1, <1>2, <1>9 DEF Stopping
<1>15. QuiescedIsFinal' /\ Reads'
  <2>1. \A w \in config.workers : pc[w] = "exited" => pc'[w] = "exited"
    <3>1. \A w \in config.workers : w \in Workers
      BY <1>0, ConfigsAssumption DEF TypeInv
    <3> QED  BY <1>5, <1>6, <3>1, ExitedStays, Kinds
  <2> QED  BY <1>0, <1>1, <1>8, <1>9, <2>1 DEF QuiescedIsFinal, Reads
<1>16. Jobs'
  BY <1>0, <1>1, <1>2, <1>3, <1>4, <1>9 DEF Jobs
<1>17. Lists'
  BY <1>1 DEF Lists, Range
<1>18. Held' /\ LeaseHeld'
  BY <1>0, <1>1, <1>2, <1>3, <1>8 DEF Held, LeaseHeld
<1>19. AnnouncedOnce' /\ Charged'
  BY <1>0, <1>1, <1>4 DEF AnnouncedOnce, Charged
<1> QED  BY <1>7, <1>11, <1>12, <1>13, <1>14, <1>15, <1>16, <1>17, <1>18, <1>19 DEF IInv

LEMMA DestroyDropKeeps == ASSUME IInv, DestroyDrop PROVE IInv'
<1>0. TypeInv /\ Places /\ Works /\ Gate /\ Stopping /\ Reads /\ Jobs /\ Lists /\ Held
      /\ LeaseHeld /\ AnnouncedOnce /\ QuiescedIsFinal /\ Charged
  BY DEF IInv
<1> DEFINE b == SumFunctionOnSet(bytes, doomed)
<1>1. /\ pc[Closer] = "drop_old" /\ doomed' = {} /\ sys' = "destroyed" /\ Goto(Closer, "idle")
      /\ charged' = IF charged >= b THEN charged - b ELSE 0
      /\ UNCHANGED <<config, contextVars, schedulerVars, jobVars, results, nextId, work, answer,
                     closeVars, notices, refused>>
  BY DEF DestroyDrop, Release
<1>2. stage[Closer] = "destroy" /\ sys = "live" /\ phase = "Quiescing"
  BY <1>0, <1>1 DEF Stopping
<1>3. charged' = SumFunctionOnSet(bytes, Reserved') /\ charged' \in 0 .. ByteLimit
  <2> DEFINE R == table \cup results
  <2>1. /\ IsFiniteSet(R) /\ IsFiniteSet(doomed) /\ R \cap doomed = {}
        /\ \A j \in R \cup doomed : bytes[j] \in Nat
    BY <1>0, BytesAreNat, JobsAreFinite DEF TypeInv, Jobs
  <2>2. b \in Nat /\ SumFunctionOnSet(bytes, R) \in Nat /\ charged \in 0 .. ByteLimit
    BY <1>0, BytesAreNat DEF TypeInv
  <2>3. Reserved = R \cup doomed /\ Reserved' = R
    BY <1>1 DEF Reserved
  <2> HIDE DEF R
  <2>4. SumFunctionOnSet(bytes, R \cup doomed) = SumFunctionOnSet(bytes, R) + b
    BY <2>1, SumUnion
  <2> HIDE DEF b
  <2>5. charged = SumFunctionOnSet(bytes, R) + b
    BY <1>0, <2>3, <2>4 DEF Charged
  <2> QED  BY <1>1, <2>2, <2>3, <2>5, LimitsAssumption
<1> HIDE DEF b
<1>4. Closer \in Threads /\ "idle" \in PlacesOf(Closer) /\ "idle" \in PCs
  BY Kinds DEF PlacesOf, PCs
<1>5. Moves(Closer, "idle")
  BY <1>0, <1>1, <1>4, GotoMoves
<1>6. Places'
  BY <1>0, <1>4, <1>5, MoveKeepsPlaces
<1>7. Holders' = Holders
  BY <1>0, <1>1, <1>4, <1>5, MoveKeepsHolders DEF Executing
<1>8. /\ pc'[Owner] = pc[Owner] /\ \A h \in Hosts : pc'[h] = pc[h]
      /\ pc'[Closer] = "idle"
  BY <1>4, <1>5, OthersStay, Kinds DEF Moves
<1>9. MaxRunning' = MaxRunning
  BY <1>1 DEF MaxRunning
<1>10. TypeInv'
  BY <1>0, <1>1, <1>3, <1>6, <1>9 DEF TypeInv, Places
<1>11. Works'
  BY <1>0, <1>1, <1>4, <1>5, MoveKeepsWorks DEF Executing
<1>12. Gate'
  BY <1>0, <1>1, <1>2, <1>8 DEF Gate
<1>13. Stopping'
  BY <1>0, <1>1, <1>2, <1>8 DEF Stopping
<1>14. QuiescedIsFinal' /\ Reads'
  <2>1. \A w \in config.workers : pc[w] = "exited" => pc'[w] = "exited"
    <3>1. \A w \in config.workers : w \in Workers
      BY <1>0, ConfigsAssumption DEF TypeInv
    <3> QED  BY <1>4, <1>5, <3>1, ExitedStays, Kinds
  <2> QED  BY <1>0, <1>1, <1>7, <1>8, <2>1 DEF QuiescedIsFinal, Reads
<1>15. Jobs'
  BY <1>0, <1>1 DEF Jobs, Reserved
<1>16. Lists' /\ Held' /\ LeaseHeld'
  BY <1>0, <1>1, <1>7 DEF Lists, Held, LeaseHeld
<1>17. AnnouncedOnce' /\ Charged'
  BY <1>0, <1>1, <1>3 DEF AnnouncedOnce, Charged
<1> QED  BY <1>6, <1>10, <1>11, <1>12, <1>13, <1>14, <1>15, <1>16, <1>17 DEF IInv

-----------------------------------------------------------------------------
(* The invariant, and what it implies *)

LEMMA InitHolds == ASSUME Init PROVE IInv
<1> USE DEF Init
<1>1. Holders = {} /\ Reserved = {}
  BY DEF Holders, Reserved, Executing
<1>2. MaxRunning \in Nat \ {0}
  BY MaxRunningIsPositive
<1>3. Places
  BY Kinds DEF Places, PlacesOf, PCs, Executing
<1>4. TypeInv
  <2>1. config.queue \in Nat /\ config.live \in Nat
    BY ConfigsAssumption
  <2>2. queue \in Seq(JobIds) /\ Len(queue) <= config.queue
    BY <2>1
  <2>3. Cardinality(table) <= config.live
    BY <2>1, FS_EmptySet
  <2>4. running \in 0 .. MaxRunning /\ seen \in 0 .. MaxRunning /\ charged \in 0 .. ByteLimit
    BY <1>2, LimitsAssumption
  <2>5. state \in [JobIds -> JobStates] /\ token \in [JobIds -> BOOLEAN] /\ notices \in [JobIds -> Nat]
    BY DEF JobStates
  <2>6. bytes \in [JobIds -> Sizes \cup {0}]
    OBVIOUS
  <2>7. nextId \in 1 .. MaxJobs + 1
    BY LimitsAssumption
  <2>8. /\ work \in [Threads -> JobIds \cup {0}] /\ answer \in [Threads -> Terminal \cup {"none"}]
        /\ stage \in [{Owner, Closer} -> {"none", "create", "cancel", "quiesce", "destroy"}]
    OBVIOUS
  <2> QED  BY <1>3, <2>2, <2>3, <2>4, <2>5, <2>6, <2>7, <2>8 DEF TypeInv, Places
<1>5. Works
  BY DEF Works, Executing
<1>6. Gate
  BY Kinds DEF Gate
<1>7. Stopping /\ Reads
  BY Kinds DEF Stopping, Reads
<1>8. Jobs
  BY <1>1 DEF Jobs, JobIds
<1>9. Lists
  BY DEF Lists, Range
<1>10. Held
  BY <1>1, FS_EmptySet DEF Held
<1>11. LeaseHeld
  BY <1>1 DEF LeaseHeld
<1>12. AnnouncedOnce
  BY DEF AnnouncedOnce, Terminal
<1>13. QuiescedIsFinal
  BY DEF QuiescedIsFinal
<1>14. Charged
  BY <1>1, SumEmpty DEF Charged
<1> QED  BY <1>3, <1>4, <1>5, <1>6, <1>7, <1>8, <1>9, <1>10, <1>11, <1>12, <1>13, <1>14 DEF IInv

LEMMA StutterKeeps == ASSUME IInv, UNCHANGED vars PROVE IInv'
<1> USE DEF vars
<1>1. MaxRunning' = MaxRunning /\ Holders' = Holders /\ Reserved' = Reserved
  BY DEF MaxRunning, Holders, Reserved
<1>2. Places' /\ Works' /\ Gate' /\ Stopping'
  BY DEF IInv, Places, Works, Gate, Stopping
<1>3. TypeInv'
  BY <1>1 DEF IInv, TypeInv
<1>4. Jobs' /\ Lists' /\ LeaseHeld' /\ AnnouncedOnce' /\ Charged'
  BY <1>1 DEF IInv, Jobs, Lists, LeaseHeld, AnnouncedOnce, Charged
<1> QED  BY <1>2, <1>3, <1>4, CallKeeps

LEMMA ExecuteStepKeeps == ASSUME NEW t \in Threads, IInv, ExecuteStep(t) PROVE IInv'
BY ExecuteBeginKeeps, ExecuteKernelKeeps, ExecutePublishKeeps, ExecuteFinishKeeps DEF ExecuteStep

LEMMA StepKeeps == ASSUME IInv, [Next]_vars PROVE IInv'
<1>1. CASE Creation
  BY <1>1, CreateKeeps, CreateFailsKeeps, RegisterKeeps, SpawnKeeps DEF Creation
<1>2. CASE \E h \in Hosts : HostCall(h)
  <2>1. PICK h \in Hosts : HostCall(h)
    BY <1>2
  <2>2. CASE Pump(h)
    BY <2>2, TakeWorkKeeps DEF Pump
  <2> QED  BY <2>1, <2>2, SubmitAdmitKeeps, DrainKeeps, CancelKeeps, TakeResultKeeps, DropResultKeeps
           DEF HostCall
<1>3. CASE \E h \in Hosts : SubmitStep(h)
  BY <1>3, SubmitPublishKeeps, SubmitRefusedKeeps, SubmitNotifyKeeps DEF SubmitStep
<1>4. CASE \E t \in Hosts \cup Workers : ExecuteStep(t)
  BY <1>4, ExecuteStepKeeps DEF Threads
<1>5. CASE \E w \in Workers : WorkerStep(w) \/ WorkerSpurious(w)
  <2>1. PICK w \in Workers : WorkerStep(w) \/ WorkerSpurious(w)
    BY <1>5
  <2>2. CASE WorkerTake(w)
    BY <2>2, TakeWorkKeeps DEF WorkerTake
  <2> QED  BY <2>1, <2>2, WorkerRestKeeps, WorkerSpuriousKeeps DEF WorkerStep
<1>6. CASE OwnerStop \/ StopStep(Owner)
  BY <1>6, OwnerStopKeeps, StopKeeps, StopNotifyOwnerKeeps DEF StopStep
<1>7. CASE ClosePass \/ CloseStep
  BY <1>7, ClosePassKeeps, StopKeeps, StopNotifyCloserKeeps, ReadRunningKeeps, ReadWorkersKeeps,
     DestroyClearKeeps, DestroyDropKeeps DEF CloseStep, StopStep
<1>8. CASE UNCHANGED vars
  BY <1>8, StutterKeeps
<1> QED  BY <1>1, <1>2, <1>3, <1>4, <1>5, <1>6, <1>7, <1>8 DEF Next

(* The parts above hold together in every reachable state.                   *)
THEOREM Inductive == Spec => []IInv
BY InitHolds, StepKeeps, PTL DEF Spec

(* Every variable keeps its type, and queue, records, running jobs and        *)
(* charged bytes stay within their limits (submit_input, take_work).         *)
THEOREM JobTypes == Spec => []TypeInv
<1>1. IInv => TypeInv
  BY DEF IInv
<1> QED  BY <1>1, Inductive, PTL

(* queue, jobs, ready and running of SchedulerState agree with each other.   *)
THEOREM SchedulerAgrees == Spec => []SchedulerConsistent
<1>1. IInv => SchedulerConsistent
  <2> SUFFICES ASSUME IInv PROVE SchedulerConsistent
    OBVIOUS
  <2>1. TypeInv /\ Lists /\ Held
    BY DEF IInv
  <2> DEFINE n == Len(queue)
  <2> DEFINE f == [i \in 1 .. n |-> queue[i]]
  <2>2. n \in Nat /\ DOMAIN queue = 1 .. n
    BY <2>1, QueueLength
  <2>3. f \in Bijection(1 .. n, Range(queue))
    <3>1. Range(queue) = {queue[i] : i \in 1 .. n}
      BY <2>2 DEF Range
    <3>2. \A i \in 1 .. n : f[i] = queue[i] /\ queue[i] \in Range(queue)
      BY <3>1
    <3>3. \A i, k \in 1 .. n : queue[i] = queue[k] => i = k
      BY <2>1 DEF Lists
    <3>4. f \in [1 .. n -> Range(queue)]
      BY <3>1
    <3>5. \A x \in Range(queue) : \E i \in 1 .. n : queue[i] = x
      BY <3>1
    <3> HIDE DEF f, n
    <3>6. f \in Injection(1 .. n, Range(queue))
      BY <3>2, <3>3, <3>4 DEF Injection, IsInjective
    <3>7. f \in Surjection(1 .. n, Range(queue))
      BY <3>2, <3>4, <3>5 DEF Surjection
    <3> QED  BY <3>6, <3>7 DEF Bijection
  <2>4. Cardinality(Range(queue)) = n
    BY <2>2, <2>3, FS_CountingElements DEF ExistsBijection
  <2> QED  BY <2>1, <2>4 DEF SchedulerConsistent, Lists, Held
<1> QED  BY <1>1, Inductive, PTL

(* A job that runs keeps its record and its reservation until the one thread  *)
(* that executes it publishes the outcome.                                   *)
THEOREM LeasesHold == Spec => []LeaseHeld
<1>1. IInv => LeaseHeld
  BY DEF IInv
<1> QED  BY <1>1, Inductive, PTL

(* Each job reaches ready exactly once, when it ends.                        *)
THEOREM AnnouncedExactlyOnce == Spec => []AnnouncedOnce
<1>1. IInv => AnnouncedOnce
  BY DEF IInv
<1> QED  BY <1>1, Inductive, PTL

(* After quiesce has answered Quiesced no kernel runs and no worker is left,  *)
(* and destroy is never refused.                                             *)
THEOREM QuiescenceIsFinal == Spec => []QuiescedIsFinal
<1>1. IInv => QuiescedIsFinal
  BY DEF IInv
<1> QED  BY <1>1, Inductive, PTL

(* Close waits for an admitted submission: it finds the context running, and  *)
(* the system open unless its owner stopped it.                              *)
THEOREM CloseWaitsForSubmission == Spec => []SubmissionFencesClose
<1>1. IInv => SubmissionFencesClose
  <2> SUFFICES ASSUME IInv, NEW h \in Hosts, pc[h] \in {"submit", "notify"}
               PROVE  phase = "Running" /\ (accepting \/ stage[Owner] = "cancel")
    BY DEF SubmissionFencesClose
  <2>1. Gate /\ Stopping /\ admission = h /\ admission # NoThread /\ phase \in {"Running", "Quiescing"}
    BY Kinds DEF IInv, Gate, TypeInv
  <2> QED  BY <2>1 DEF Gate, Stopping
<1> QED  BY <1>1, Inductive, PTL

(* The budget holds exactly what the records, the results and the records     *)
(* that destroy is dropping have reserved, whoever drops what and when.      *)
THEOREM BudgetIsExact == Spec => []LedgerExact
<1>1. IInv => LedgerExact
  <2> SUFFICES ASSUME IInv PROVE LedgerExact
    OBVIOUS
  <2>1. charged = SumFunctionOnSet(bytes, table \cup results \cup doomed)
    BY DEF IInv, Charged, Reserved
  <2>2. ASSUME NEW t \in Threads, work[t] \in JobIds \ (table \cup results \cup doomed)
        PROVE  pc[t] = "finish"
    <3>1. work[t] # 0 /\ t \notin Holders
      BY <2>2 DEF IInv, LeaseHeld, JobIds
    <3> QED  BY <3>1 DEF IInv, Works, Holders
  <2> QED  BY <2>1, <2>2 DEF LedgerExact
<1> QED  BY <1>1, Inductive, PTL

-----------------------------------------------------------------------------
(* The system implements JobLifecycle *)

LEMMA SameCardinality == ASSUME NEW S PROVE Lifecycle!Cardinality(S) = Cardinality(S)
BY Zenon DEF Lifecycle!Cardinality, Cardinality

(* There are no more running jobs than threads that execute.                 *)
LEMMA BusyAreHeld == ASSUME IInv PROVE Cardinality(Lifecycle!Busy) <= running
<1> DEFINE f == [t \in Holders |-> work[t]]
<1>1. f \in Surjection(Holders, Lifecycle!Busy)
  BY DEF IInv, LeaseHeld, TypeInv, Lifecycle!Busy, Surjection, Holders
<1>2. Cardinality(Lifecycle!Busy) <= Cardinality(Holders)
  BY <1>1, HoldersAreFinite, FS_Surjection
<1> QED  BY <1>2 DEF IInv, Held

LEMMA PublishRefines == ASSUME NEW h \in Hosts, IInv, SubmitPublish(h) PROVE Lifecycle!Next
<1>1. nextId \in JobIds /\ state[nextId] = "none"
  BY LimitsAssumption DEF IInv, TypeInv, Jobs, JobIds, SubmitPublish
<1>2. Lifecycle!Submit(nextId)
  BY <1>1 DEF SubmitPublish, Lifecycle!Submit, Lifecycle!Move, MaxRunning
<1> QED  BY <1>1, <1>2 DEF Lifecycle!Next

LEMMA TakeRefines == ASSUME NEW t, IInv, TakeWork(t) PROVE Lifecycle!Next
<1>1. PICK i \in Runnable : state' = [state EXCEPT ![queue[i]] = "Running"]
  BY DEF TakeWork
<1>2. queue[i] \in JobIds /\ state[queue[i]] = "Queued"
  BY DEF Runnable, IInv, TypeInv
<1>3. accepting /\ Cardinality(Lifecycle!Busy) < MaxRunning
  <2>1. running \in Nat /\ MaxRunning \in Nat
    BY MaxRunningIsPositive DEF IInv, TypeInv
  <2>2. Cardinality(Lifecycle!Busy) \in Nat
    <3>1. IsFiniteSet(Lifecycle!Busy)
      BY JobsAreFinite DEF Lifecycle!Busy
    <3> QED  BY <3>1, FS_CardinalityType
  <2> QED  BY <2>1, <2>2, BusyAreHeld DEF TakeWork, Blocked
<1>4. UNCHANGED <<accepting, MaxRunning>>
  BY DEF TakeWork, MaxRunning
<1>5. Lifecycle!Move(queue[i], "Queued", "Running")
  BY <1>1, <1>2 DEF Lifecycle!Move
<1>6. Lifecycle!Start(queue[i])
  BY <1>3, <1>4, <1>5, SameCardinality, Zenon DEF Lifecycle!Start
<1> QED  BY <1>2, <1>6 DEF Lifecycle!Next

LEMMA OutcomeRefines == ASSUME NEW t \in Threads, IInv, ExecutePublish(t) PROVE Lifecycle!Next
<1>1. t \in Holders /\ pc[t] = "publish"
  BY DEF ExecutePublish, Holders, Executing
<1>2. work[t] \in table /\ work[t] \in JobIds /\ state[work[t]] = "Running" /\ answer[t] \in Terminal
  BY <1>1 DEF IInv, LeaseHeld, TypeInv, Works
<1>3. state' = [state EXCEPT ![work[t]] = answer[t]] /\ UNCHANGED <<accepting, MaxRunning>>
  BY <1>2 DEF ExecutePublish, MaxRunning
<1>4. Lifecycle!Finish(work[t])
  BY <1>2, <1>3 DEF Lifecycle!Finish, Lifecycle!Move, Lifecycle!Ends, Terminal
<1> QED  BY <1>2, <1>4 DEF Lifecycle!Next

LEMMA CancelRefines ==
    ASSUME NEW h \in Hosts, NEW j \in JobIds, IInv, Cancel(h, j)
    PROVE  Lifecycle!Next \/ UNCHANGED Lifecycle!lifecycleVars
<1>1. UNCHANGED <<accepting, MaxRunning>>
  BY DEF Cancel, MaxRunning
<1>2. CASE UNCHANGED state
  BY <1>1, <1>2 DEF Lifecycle!lifecycleVars
<1>3. CASE state[j] = "Queued" /\ state' = [state EXCEPT ![j] = "Cancelled"]
  <2>1. Lifecycle!Cancel(j)
    BY <1>1, <1>3 DEF Lifecycle!Cancel, Lifecycle!Move
  <2> QED  BY <2>1 DEF Lifecycle!Next
<1> QED  BY <1>2, <1>3 DEF Cancel

LEMMA StopRefines == ASSUME NEW t, IInv, Stop(t) PROVE Lifecycle!Next
<1>1. Dropped = {j \in JobIds : state[j] = "Queued"}
  BY DEF IInv, Dropped, Lists, Jobs, TypeInv
<1>2. /\ accepting' = FALSE
      /\ state' = [j \in JobIds |-> IF state[j] = "Queued" THEN "Cancelled" ELSE state[j]]
  BY <1>1 DEF Stop
<1>3. MaxRunning' = MaxRunning
  BY DEF Stop, MaxRunning
<1> QED  BY <1>2, <1>3 DEF Lifecycle!Next, Lifecycle!Stop

LEMMA StepRefines ==
    ASSUME IInv, [Next]_vars PROVE [Lifecycle!Next]_(Lifecycle!lifecycleVars)
<1> DEFINE Same == UNCHANGED Lifecycle!lifecycleVars
<1> SUFFICES Lifecycle!Next \/ Same
  OBVIOUS
<1>1. ASSUME UNCHANGED <<config, accepting, state>> PROVE Same
  BY <1>1 DEF Lifecycle!lifecycleVars, MaxRunning
<1> HIDE DEF Same
<1>2. CASE Creation
  BY <1>1, <1>2 DEF Creation, Create, CreateFails, Register, Spawn
<1>3. CASE \E h \in Hosts : HostCall(h)
  <2>1. PICK h \in Hosts : HostCall(h)
    BY <1>3
  <2>2. CASE SubmitAdmit(h) \/ Drain(h)
    BY <1>1, <2>2 DEF SubmitAdmit, Drain
  <2>3. CASE Pump(h)
    BY <2>3, TakeRefines DEF Pump
  <2>4. CASE \E j \in JobIds : Cancel(h, j)
    BY <2>4, CancelRefines DEF Same
  <2>5. CASE \E j \in JobIds : TakeResult(h, j) \/ DropResult(h, j)
    BY <1>1, <2>5 DEF TakeResult, DropResult
  <2> QED  BY <2>1, <2>2, <2>3, <2>4, <2>5 DEF HostCall
<1>4. CASE \E h \in Hosts : SubmitStep(h)
  BY <1>1, <1>4, PublishRefines DEF SubmitStep, SubmitRefused, SubmitNotify
<1>5. CASE \E t \in Hosts \cup Workers : ExecuteStep(t)
  <2>1. PICK t \in Threads : ExecuteStep(t)
    BY <1>5 DEF Threads
  <2>2. CASE ExecuteBegin(t) \/ ExecuteKernel(t) \/ ExecuteFinish(t)
    BY <1>1, <2>2 DEF ExecuteBegin, ExecuteKernel, ExecuteFinish
  <2> QED  BY <2>1, <2>2, OutcomeRefines DEF ExecuteStep
<1>6. CASE \E w \in Workers : WorkerStep(w) \/ WorkerSpurious(w)
  <2>1. PICK w \in Workers : WorkerStep(w) \/ WorkerSpurious(w)
    BY <1>6
  <2>2. CASE WorkerTake(w)
    BY <2>2, TakeRefines DEF WorkerTake
  <2>3. CASE WorkerRest(w) \/ WorkerSpurious(w)
    BY <1>1, <2>3 DEF WorkerRest, WorkerSpurious
  <2> QED  BY <2>1, <2>2, <2>3 DEF WorkerStep
<1>7. CASE OwnerStop \/ StopStep(Owner) \/ StopStep(Closer)
  BY <1>1, <1>7, StopRefines DEF StopStep, OwnerStop, StopNotify
<1>8. CASE ClosePass \/ ReadRunning \/ ReadWorkers \/ DestroyClear \/ DestroyDrop
  BY <1>1, <1>8 DEF ClosePass, ReadRunning, ReadWorkers, DestroyClear, DestroyDrop
<1>9. CASE UNCHANGED vars
  BY <1>1, <1>9 DEF vars
<1> QED  BY <1>2, <1>3, <1>4, <1>5, <1>6, <1>7, <1>8, <1>9 DEF Next, CloseStep

(* Seen from outside, the job system is the abstract one: every job is queued,*)
(* runs at most once within the width, and ends in a state it never leaves.  *)
THEOREM SystemImplementsLifecycle == Spec => ImplementsLifecycle
<1>1. Init => Lifecycle!Init
  <2> SUFFICES ASSUME Init PROVE Lifecycle!Init
    OBVIOUS
  <2>1. MaxRunning \in Nat \ {0}
    BY MaxRunningIsPositive DEF Init
  <2> QED  BY <2>1 DEF Init, Lifecycle!Init
<1>2. IInv /\ [Next]_vars => [Lifecycle!Next]_(Lifecycle!lifecycleVars)
  BY StepRefines
<1> QED  BY <1>1, <1>2, Inductive, PTL DEF Spec, ImplementsLifecycle, Lifecycle!Spec

-----------------------------------------------------------------------------
(***************************************************************************)
(* The safety of JobOutcomes for any number of callers and cells and any     *)
(* capacity of the batch: cas_cancel swaps a state it read earlier, and a    *)
(* release may be forgotten by the window, and still each job ends once and  *)
(* is heard of once.                                                         *)
(***************************************************************************)

States == {"Queued", "Running"} \cup EndStates
Completions == [id : Cells, state : EndStates]

TypeOK ==
    /\ cell \in [Cells -> States \cup {"none"}]
    /\ inCall \in [Callers -> {"idle", "load", "swap"}]
    /\ job \in [Callers -> Nat]
    /\ current \in [Callers -> {"none", "Queued", "Running"}]
    /\ ends \in [Cells -> Nat]
    /\ batch \in Seq(Completions) /\ delivered \in Seq(Completions)
    /\ leases \in [DOMAIN leases -> BOOLEAN] /\ DOMAIN leases \subseteq Cells
    /\ released \in Seq(Cells)
    /\ highWater \in Nat
    /\ published \in [Cells -> Nat] /\ freed \in [Cells -> Nat]

(* What a thread inside cas_cancel holds. *)
Cancelling ==
    \A t \in Callers :
        /\ inCall[t] # "idle" => job[t] \in Cells
        /\ inCall[t] = "swap" => current[t] \in {"Queued", "Running"}

EndedOnce == \A j \in Cells : ends[j] = IF cell[j] \in EndStates THEN 1 ELSE 0

Rising(s) == \A i, k \in 1 .. Len(s) : i < k => s[i].id < s[k].id
Names(s) == {s[i].id : i \in 1 .. Len(s)}

(* Completions are drained in the order of their ids, and the batch holds     *)
(* the newest.                                                               *)
Ordered ==
    /\ Rising(delivered) /\ Rising(batch)
    /\ \A a \in Names(delivered), b \in Names(batch) : a < b
    /\ \A a \in Names(delivered) \cup Names(batch) : a <= highWater

(* What is published is the end of its job, and stays so. *)
Truthful(s) == \A i \in 1 .. Len(s) : s[i].state = cell[s[i].id]

PublishedOnce ==
    \A j \in Cells :
        published[j] = IF j \in Names(delivered) \cup Names(batch) THEN 1 ELSE 0

(* A lease says whether its completion was drained; a freed one is gone.      *)
Leased ==
    /\ \A j \in DOMAIN leases : j \in (IF leases[j] THEN Names(delivered) ELSE Names(batch))
    /\ \A j \in Cells :
          \/ freed[j] = 0
          \/ freed[j] = 1 /\ j \in Names(delivered) /\ j \notin DOMAIN leases

Bounded ==
    /\ IsFiniteSet(DOMAIN leases)
    /\ Cardinality(DOMAIN leases) <= Capacity /\ Len(released) <= Capacity

CellsIInv ==
    /\ TypeOK /\ Cancelling /\ EndedOnce
    /\ Ordered /\ Truthful(delivered) /\ Truthful(batch)
    /\ PublishedOnce /\ Leased /\ Bounded

-----------------------------------------------------------------------------
(* The cells *)

(* A step of the cells disturbs the batch and its history only if it changes  *)
(* the end of a job.                                                         *)
LEMMA CellKeeps ==
    ASSUME CellsIInv, UNCHANGED <<batchVars, historyVars>>, TypeOK', Cancelling', EndedOnce',
           \A j \in Cells : cell[j] \in EndStates => cell'[j] = cell[j]
    PROVE  CellsIInv'
<1> USE DEF CellsIInv, batchVars, historyVars
<1>1. Ordered' /\ PublishedOnce' /\ Leased' /\ Bounded'
  <2>1. UNCHANGED <<batch, leases, released, highWater, published, delivered, freed>>
    OBVIOUS
  <2>2. /\ Names(delivered)' = Names(delivered) /\ Names(batch)' = Names(batch)
        /\ Rising(delivered)' = Rising(delivered) /\ Rising(batch)' = Rising(batch)
    BY ONLY <2>1 DEF Names, Rising
  <2>3. Ordered'
    BY <2>1, <2>2 DEF Ordered
  <2>4. PublishedOnce'
    BY <2>1, <2>2 DEF PublishedOnce
  <2>5. Leased' /\ Bounded'
    BY <2>1, <2>2 DEF Leased, Bounded
  <2> QED  BY <2>3, <2>4, <2>5
<1>2. ASSUME NEW s \in {delivered, batch} PROVE \A i \in 1 .. Len(s) : s[i].state = cell'[s[i].id]
  <2> SUFFICES ASSUME NEW i \in 1 .. Len(s) PROVE s[i].state = cell'[s[i].id]
    OBVIOUS
  <2>1. s \in Seq(Completions) /\ s[i] \in Completions
    BY DEF TypeOK
  <2>2. s[i].state = cell[s[i].id] /\ s[i].id \in Cells /\ s[i].state \in EndStates
    BY <2>1 DEF Truthful, Completions
  <2> QED  BY <2>2
<1>3. Truthful(delivered)' /\ Truthful(batch)'
  BY <1>2 DEF Truthful
<1> QED  BY <1>1, <1>3

(* A cell that leaves a state no job ends in, with its end counted. *)
LEMMA ExchangeKeeps ==
    ASSUME CellsIInv, UNCHANGED <<batchVars, historyVars>>,
           NEW j \in Cells, NEW new \in States, cell[j] \notin EndStates,
           cell' = [cell EXCEPT ![j] = new],
           ends' = IF new \in EndStates THEN [ends EXCEPT ![j] = @ + 1] ELSE ends,
           inCall' \in [Callers -> {"idle", "load", "swap"}], job' \in [Callers -> Nat],
           current' \in [Callers -> {"none", "Queued", "Running"}],
           Cancelling'
    PROVE  CellsIInv'
<1>1. TypeOK /\ EndedOnce
  BY DEF CellsIInv
<1>2. cell' \in [Cells -> States \cup {"none"}] /\ ends' \in [Cells -> Nat]
  BY <1>1 DEF TypeOK
<1>3. TypeOK'
  BY <1>1, <1>2 DEF TypeOK, batchVars, historyVars
<1>4. EndedOnce'
  BY <1>1 DEF EndedOnce, TypeOK
<1>5. \A k \in Cells : cell[k] \in EndStates => cell'[k] = cell[k]
  BY <1>1 DEF TypeOK
<1> QED  BY <1>3, <1>4, <1>5, CellKeeps

(* Callers that only read leave every cell alone. *)
LEMMA ReadKeeps ==
    ASSUME CellsIInv, UNCHANGED <<cell, ends, batchVars, historyVars>>,
           inCall' \in [Callers -> {"idle", "load", "swap"}], job' \in [Callers -> Nat],
           current' \in [Callers -> {"none", "Queued", "Running"}],
           Cancelling'
    PROVE  CellsIInv'
<1>1. TypeOK' /\ EndedOnce'
  BY DEF CellsIInv, TypeOK, EndedOnce, batchVars, historyVars
<1> QED  BY <1>1, CellKeeps

LEMMA QueuedKeeps ==
    ASSUME NEW t \in Callers, NEW j \in Cells, CellsIInv,
           Queued(t, j), UNCHANGED <<batchVars, historyVars>>
    PROVE  CellsIInv'
<1>1. Cancelling'
  BY DEF CellsIInv, Cancelling, Queued, callVars
<1> QED  BY <1>1, ExchangeKeeps DEF CellsIInv, TypeOK, Queued, callVars, States, EndStates

LEMMA CasStartKeeps ==
    ASSUME NEW t \in Callers, NEW j \in Cells, CellsIInv,
           CasStart(t, j), UNCHANGED <<batchVars, historyVars>>
    PROVE  CellsIInv'
<1>1. Cancelling'
  BY DEF CellsIInv, Cancelling, CasStart, callVars
<1> QED  BY <1>1, ExchangeKeeps DEF CellsIInv, TypeOK, CasStart, Exchange, callVars, States, EndStates

LEMMA CasCompleteKeeps ==
    ASSUME NEW t \in Callers, NEW j \in Cells, NEW to \in EndStates, CellsIInv,
           CasComplete(t, j, to), UNCHANGED <<batchVars, historyVars>>
    PROVE  CellsIInv'
<1>1. Cancelling'
  BY DEF CellsIInv, Cancelling, CasComplete, callVars
<1> QED  BY <1>1, ExchangeKeeps DEF CellsIInv, TypeOK, CasComplete, Exchange, Ended, callVars, States, EndStates

LEMMA CasCancelKeeps ==
    ASSUME NEW t \in Callers, NEW j \in Cells, CellsIInv,
           CasCancel(t, j), UNCHANGED <<batchVars, historyVars>>
    PROVE  CellsIInv'
<1>1. TypeOK /\ Cancelling /\ j \in Nat
  BY MaxCellsAssumption DEF CellsIInv, Cells
<1>2. /\ inCall' \in [Callers -> {"idle", "load", "swap"}]
      /\ job' \in [Callers -> Nat]
      /\ current' \in [Callers -> {"none", "Queued", "Running"}]
  BY <1>1 DEF TypeOK, CasCancel
<1>3. Cancelling'
  BY <1>1 DEF Cancelling, CasCancel, TypeOK
<1> QED  BY <1>2, <1>3, ReadKeeps DEF CasCancel

(* Return forgets the call of a thread and leaves the others in theirs. *)
LEMMA ReturnKeepsCalls ==
    ASSUME NEW t \in Callers, TypeOK, Cancelling, Return(t)
    PROVE  /\ inCall' \in [Callers -> {"idle", "load", "swap"}]
           /\ job' \in [Callers -> Nat]
           /\ current' \in [Callers -> {"none", "Queued", "Running"}]
           /\ Cancelling'
<1>1. /\ inCall' \in [Callers -> {"idle", "load", "swap"}]
      /\ job' \in [Callers -> Nat]
      /\ current' \in [Callers -> {"none", "Queued", "Running"}]
  BY DEF TypeOK, Return
<1>2. Cancelling'
  BY DEF Cancelling, Return, TypeOK
<1> QED  BY <1>1, <1>2

LEMMA CancelLoadKeeps ==
    ASSUME NEW t \in Callers, CellsIInv, CancelLoad(t), UNCHANGED <<batchVars, historyVars>>
    PROVE  CellsIInv'
<1>1. TypeOK /\ Cancelling /\ UNCHANGED <<cell, ends>>
  BY DEF CellsIInv, CancelLoad
<1>2. CASE Return(t)
  BY <1>1, <1>2, ReturnKeepsCalls, ReadKeeps
<1>3. CASE /\ cell[job[t]] \in {"Queued", "Running"}
           /\ current' = [current EXCEPT ![t] = cell[job[t]]]
           /\ inCall' = [inCall EXCEPT ![t] = "swap"]
           /\ UNCHANGED job
  <2>1. /\ inCall' \in [Callers -> {"idle", "load", "swap"}]
        /\ job' \in [Callers -> Nat]
        /\ current' \in [Callers -> {"none", "Queued", "Running"}]
    BY <1>1, <1>3 DEF TypeOK
  <2>2. Cancelling'
    BY <1>1, <1>3 DEF Cancelling, TypeOK, CancelLoad
  <2> QED  BY <1>1, <2>1, <2>2, ReadKeeps
<1> QED  BY <1>2, <1>3 DEF CancelLoad

LEMMA CancelSwapKeeps ==
    ASSUME NEW t \in Callers, CellsIInv, CancelSwap(t), UNCHANGED <<batchVars, historyVars>>
    PROVE  CellsIInv'
<1>1. TypeOK /\ Cancelling /\ Return(t)
  BY DEF CellsIInv, CancelSwap
<1>2. job[t] \in Cells /\ cell[job[t]] \in {"Queued", "Running"}
  BY <1>1 DEF CancelSwap, Exchange, Cancelling
<1> DEFINE j == job[t]
<1>3. /\ cell' = [cell EXCEPT ![j] = "Cancelled"]
      /\ ends' = [ends EXCEPT ![j] = @ + 1]
      /\ "Cancelled" \in EndStates /\ "Cancelled" \in States /\ cell[j] \notin EndStates
  BY <1>2 DEF CancelSwap, Exchange, Ended, EndStates, States
<1>4. j \in Cells
  BY <1>2
<1> HIDE DEF j
<1> QED  BY <1>1, <1>3, <1>4, ReturnKeepsCalls, ExchangeKeeps

LEMMA CancelLostKeeps ==
    ASSUME NEW t \in Callers, CellsIInv, CancelLost(t), UNCHANGED <<batchVars, historyVars>>
    PROVE  CellsIInv'
<1>1. TypeOK /\ Cancelling
  BY DEF CellsIInv
<1>2. /\ inCall' \in [Callers -> {"idle", "load", "swap"}]
      /\ job' \in [Callers -> Nat]
      /\ current' \in [Callers -> {"none", "Queued", "Running"}]
  BY <1>1 DEF TypeOK, CancelLost
<1>3. Cancelling'
  BY <1>1 DEF Cancelling, CancelLost, TypeOK
<1> QED  BY <1>2, <1>3, ReadKeeps DEF CancelLost

-----------------------------------------------------------------------------
(* The batch *)

(* A job publishes its end under an id that no completion had before.         *)
LEMMA PublishOutcomeKeeps ==
    ASSUME NEW t \in Callers, NEW j \in Cells, CellsIInv, PublishOutcome(t, j)
    PROVE  CellsIInv'
<1> DEFINE c == [id |-> j, state |-> cell[j]]
<1>1. /\ TypeOK /\ Cancelling /\ EndedOnce /\ Ordered /\ PublishedOnce /\ Leased /\ Bounded
      /\ Truthful(delivered) /\ Truthful(batch)
  BY DEF CellsIInv
<1>2. /\ j > highWater /\ j \in Nat /\ highWater \in Nat /\ cell[j] \in EndStates
      /\ batch' = Append(batch, c) /\ highWater' = j
      /\ leases' = [k \in DOMAIN leases \cup {j} |-> IF k = j THEN FALSE ELSE leases[k]]
      /\ published' = [published EXCEPT ![j] = @ + 1]
      /\ Cardinality(DOMAIN leases) < Capacity
      /\ UNCHANGED <<cellVars, released, delivered, freed>>
  BY <1>1, MaxCellsAssumption DEF PublishOutcome, Publish, IsNew, EndStates, TypeOK, Cells
<1>3. c \in Completions /\ c.id = j /\ c.state = cell[j]
  BY <1>2 DEF Completions
<1>4. /\ batch' \in Seq(Completions) /\ Len(batch') = Len(batch) + 1 /\ Len(batch) \in Nat
      /\ \A i \in 1 .. Len(batch) : batch'[i] = batch[i]
      /\ batch'[Len(batch) + 1] = c
  <2>1. batch \in Seq(Completions)
    BY <1>1 DEF TypeOK
  <2> HIDE DEF c
  <2> QED  BY <2>1, <1>2, <1>3
<1>5. Names(batch') = Names(batch) \cup {j}
  <2>1. 1 .. Len(batch') = 1 .. Len(batch) \cup {Len(batch) + 1}
    BY <1>4
  <2> HIDE DEF c
  <2>2. \A i \in 1 .. Len(batch) : batch'[i].id = batch[i].id
    BY <1>4
  <2>3. batch'[Len(batch) + 1].id = j
    BY <1>3, <1>4
  <2> QED  BY <2>1, <2>2, <2>3 DEF Names
<1>6. j \notin Names(delivered) \cup Names(batch) /\ j \notin DOMAIN leases
  <2>1. j \notin Names(delivered) \cup Names(batch)
    BY <1>1, <1>2 DEF Ordered
  <2> QED  BY <1>1, <2>1 DEF Leased
<1>7. TypeOK' /\ Cancelling' /\ EndedOnce'
  <2>1. leases' \in [DOMAIN leases' -> BOOLEAN] /\ DOMAIN leases' \subseteq Cells
    BY <1>1, <1>2 DEF TypeOK
  <2>2. published' \in [Cells -> Nat] /\ highWater' \in Nat
    BY <1>1, <1>2 DEF TypeOK
  <2>3. TypeOK'
    BY <1>1, <1>2, <1>4, <2>1, <2>2 DEF TypeOK, cellVars, callVars
  <2> QED  BY <1>1, <1>2, <2>3 DEF Cancelling, EndedOnce, cellVars, callVars
<1>8. Ordered'
  <2>1. Rising(batch')
    <3> SUFFICES ASSUME NEW i \in 1 .. Len(batch'), NEW k \in 1 .. Len(batch'), i < k
                 PROVE  batch'[i].id < batch'[k].id
      BY DEF Rising
    <3>1. i \in 1 .. Len(batch)
      BY <1>4
    <3>2. CASE k \in 1 .. Len(batch)
      BY <1>1, <1>4, <3>1, <3>2 DEF Ordered, Rising
    <3>3. CASE k = Len(batch) + 1
      <4>1. batch[i].id \in Names(batch)
        BY <3>1 DEF Names
      <4>2. batch[i].id <= highWater /\ batch[i].id \in Nat
        <5>1. batch[i] \in Completions
          BY <1>1, <3>1 DEF TypeOK
        <5> QED  BY <1>1, <4>1, <5>1, MaxCellsAssumption DEF Ordered, Completions, Cells
      <4>3. batch'[i].id = batch[i].id /\ batch'[k].id = j
        BY <1>3, <1>4, <3>1, <3>3
      <4>4. j > highWater /\ j \in Nat /\ highWater \in Nat
        BY <1>2
      <4> HIDE DEF c
      <4> QED  BY <4>2, <4>3, <4>4
    <3> QED  BY <1>4, <3>2, <3>3
  <2>2. \A a \in Names(delivered) \cup Names(batch) : a \in Nat /\ a <= highWater
    <3>1. \A i \in 1 .. Len(delivered) : delivered[i].id \in Nat
      <4>1. \A i \in 1 .. Len(delivered) : delivered[i] \in Completions
        BY <1>1 DEF TypeOK
      <4> QED  BY <4>1, MaxCellsAssumption DEF Completions, Cells
    <3>2. \A i \in 1 .. Len(batch) : batch[i].id \in Nat
      <4>1. \A i \in 1 .. Len(batch) : batch[i] \in Completions
        BY <1>1 DEF TypeOK
      <4> QED  BY <4>1, MaxCellsAssumption DEF Completions, Cells
    <3> QED  BY <1>1, <3>1, <3>2 DEF Ordered, Names
  <2>3. \A a \in Names(delivered) : a < j
    BY <1>2, <2>2
  <2>4. \A a \in Names(delivered) \cup Names(batch) \cup {j} : a <= j
    BY <1>2, <2>2
  <2>5. \A a \in Names(delivered), b \in Names(batch) \cup {j} : a < b
    BY <1>1, <2>3 DEF Ordered
  <2>6. Rising(delivered)' /\ Names(delivered)' = Names(delivered) /\ Names(batch)' = Names(batch) \cup {j}
    BY <1>1, <1>2, <1>5 DEF Ordered, Rising, Names
  <2>7. Rising(batch)'
    BY <2>1 DEF Rising
  <2> QED  BY <1>2, <2>4, <2>5, <2>6, <2>7 DEF Ordered
<1>9. Truthful(delivered)' /\ Truthful(batch)'
  <2>1. Truthful(delivered)'
    BY <1>1, <1>2 DEF Truthful, cellVars
  <2> HIDE DEF c
  <2>2. \A i \in 1 .. Len(batch') : batch'[i].state = cell[batch'[i].id]
    BY <1>1, <1>3, <1>4 DEF Truthful
  <2> QED  BY <1>2, <2>1, <2>2 DEF Truthful, cellVars
<1>10. PublishedOnce'
  <2>1. Names(delivered)' = Names(delivered) /\ Names(batch)' = Names(batch) \cup {j}
    BY <1>2, <1>5 DEF Names
  <2>2. \A k \in Cells : published'[k] = IF k = j THEN 1 ELSE published[k]
    BY <1>1, <1>2, <1>6 DEF TypeOK, PublishedOnce
  <2> QED  BY <1>1, <2>1, <2>2 DEF PublishedOnce
<1>11. Leased'
  <2>1. Names(delivered)' = Names(delivered) /\ Names(batch)' = Names(batch) \cup {j}
    BY <1>2, <1>5 DEF Names
  <2>2. DOMAIN leases' = DOMAIN leases \cup {j} /\ ~ leases'[j]
        /\ \A k \in DOMAIN leases : leases'[k] = leases[k]
    BY <1>2, <1>6
  <2> QED  BY <1>1, <1>2, <1>6, <2>1, <2>2 DEF Leased
<1>12. Bounded'
  <2>1. DOMAIN leases' = DOMAIN leases \cup {j} /\ IsFiniteSet(DOMAIN leases)
    BY <1>1, <1>2 DEF Bounded
  <2>2. IsFiniteSet(DOMAIN leases') /\ Cardinality(DOMAIN leases') = Cardinality(DOMAIN leases) + 1
    BY <1>6, <2>1, FS_AddElement
  <2>3. Cardinality(DOMAIN leases) \in Nat
    BY <2>1, FS_CardinalityType
  <2> QED  BY <1>1, <1>2, <2>2, <2>3, CapacityAssumption DEF Bounded
<1> QED  BY <1>7, <1>8, <1>9, <1>10, <1>11, <1>12 DEF CellsIInv

(* d and b are delivered and batch after the n oldest were drained, place by  *)
(* place.                                                                    *)
Drains(d, b, n) ==
    /\ d \in Seq(Completions) /\ b \in Seq(Completions)
    /\ Len(delivered) \in Nat /\ Len(batch) \in Nat
    /\ Len(d) = Len(delivered) + n /\ Len(b) = Len(batch) - n
    /\ \A i \in 1 .. Len(delivered) : d[i] = delivered[i]
    /\ \A i \in 1 .. n : d[Len(delivered) + i] = batch[i]
    /\ \A i \in 1 .. Len(batch) - n : b[i] = batch[n + i]

(* What is drained is the oldest of the batch, and newer than what was        *)
(* drained before.                                                           *)
LEMMA DrainedInOrder ==
    ASSUME Ordered, NEW n \in 1 .. Len(batch), NEW d, NEW b, Drains(d, b, n)
    PROVE  /\ Rising(d) /\ Rising(b)
           /\ \A x \in Names(d), y \in Names(b) : x < y
           /\ Names(d) = Names(delivered) \cup Drained(n)
           /\ Names(d) \cup Names(b) = Names(delivered) \cup Names(batch)
           /\ Names(batch) = Drained(n) \cup Names(b)
           /\ (Truthful(delivered) /\ Truthful(batch) => Truthful(d) /\ Truthful(b))
<1> DEFINE m == Len(delivered)
<1> DEFINE l == Len(batch)
<1>1. m \in Nat /\ l \in Nat /\ n \in Nat /\ n <= l /\ 1 <= n
  BY DEF Drains
<1>2. m = Len(delivered) /\ l = Len(batch)
  OBVIOUS
<1>3. Len(b) = l - n /\ \A i \in 1 .. l - n : b[i] = batch[n + i]
  BY DEF Drains
<1>4. /\ Len(d) = m + n
      /\ \A i \in 1 .. m : d[i] = delivered[i]
      /\ \A i \in 1 .. n : d[m + i] = batch[i]
  BY DEF Drains
<1> HIDE DEF m, l
<1> USE <1>2
<1>5. \A i \in 1 .. m + n : i \in 1 .. m \/ \E k \in 1 .. n : i = m + k
  <2> SUFFICES ASSUME NEW i \in 1 .. m + n, i \notin 1 .. m PROVE \E k \in 1 .. n : i = m + k
    OBVIOUS
  <2>1. i - m \in 1 .. n /\ i = m + (i - m)
    BY <1>1
  <2> QED  BY <2>1
<1>6. Names(d) = Names(delivered) \cup Drained(n)
  <2>1. ASSUME NEW i \in 1 .. m + n PROVE d[i].id \in Names(delivered) \cup Drained(n)
    <3>1. CASE i \in 1 .. m
      BY <1>4, <3>1 DEF Names
    <3>2. CASE i \notin 1 .. m
      <4>1. PICK k \in 1 .. n : i = m + k
        BY <1>5, <3>2
      <4>2. d[i].id = batch[k].id
        BY <1>4, <4>1
      <4> QED  BY <4>2 DEF Drained
    <3> QED  BY <3>1, <3>2
  <2>2. ASSUME NEW i \in 1 .. m PROVE delivered[i].id \in Names(d)
    <3>1. i \in 1 .. m + n /\ delivered[i].id = d[i].id
      BY <1>1, <1>4
    <3> QED  BY <1>4, <3>1 DEF Names
  <2>3. ASSUME NEW i \in 1 .. n PROVE batch[i].id \in Names(d)
    <3>1. m + i \in 1 .. m + n /\ batch[i].id = d[m + i].id
      BY <1>1, <1>4
    <3> QED  BY <1>4, <3>1 DEF Names
  <2>4. /\ Names(d) = {d[i].id : i \in 1 .. m + n}
        /\ Names(delivered) = {delivered[i].id : i \in 1 .. m}
    BY <1>4 DEF Names
  <2>5. Names(d) \subseteq Names(delivered) \cup Drained(n)
    BY <2>1, <2>4
  <2>6. Names(delivered) \subseteq Names(d)
    BY <2>2, <2>4
  <2>7. Drained(n) \subseteq Names(d)
    BY <2>3 DEF Drained
  <2> QED  BY <2>5, <2>6, <2>7
<1>7. \A i \in 1 .. l : i \in 1 .. n \/ \E k \in 1 .. l - n : i = n + k
  <2> SUFFICES ASSUME NEW i \in 1 .. l, i \notin 1 .. n PROVE \E k \in 1 .. l - n : i = n + k
    OBVIOUS
  <2>1. i - n \in 1 .. l - n /\ i = n + (i - n)
    BY <1>1
  <2> QED  BY <2>1
<1>8. \A i \in 1 .. l - n : n + i \in 1 .. l
  BY <1>1
<1>9. Names(batch) = Drained(n) \cup Names(b)
  <2>1. Names(b) \subseteq Names(batch) /\ Drained(n) \subseteq Names(batch)
    BY <1>1, <1>3, <1>8 DEF Names, Drained
  <2>2. Names(batch) \subseteq Drained(n) \cup Names(b)
    <3> SUFFICES ASSUME NEW i \in 1 .. l PROVE batch[i].id \in Drained(n) \cup Names(b)
      BY DEF Names
    <3>1. CASE i \in 1 .. n
      BY <3>1 DEF Drained
    <3>2. CASE i \notin 1 .. n
      <4>1. PICK k \in 1 .. l - n : i = n + k
        BY <1>7, <3>2
      <4>2. batch[i].id = b[k].id /\ k \in 1 .. Len(b)
        BY <1>3, <4>1
      <4> QED  BY <4>2 DEF Names
    <3> QED  BY <3>1, <3>2
  <2> QED  BY <2>1, <2>2
<1>10. Rising(d)
  <2> SUFFICES ASSUME NEW i \in 1 .. m + n, NEW k \in 1 .. m + n, i < k PROVE d[i].id < d[k].id
    BY <1>4 DEF Rising
  <2>1. CASE i \in 1 .. m /\ k \in 1 .. m
    BY <1>4, <2>1 DEF Ordered, Rising
  <2>2. CASE i \in 1 .. m /\ k \notin 1 .. m
    <3>1. PICK e \in 1 .. n : k = m + e
      BY <1>5, <2>2
    <3>2. d[i].id \in Names(delivered) /\ d[k].id \in Names(batch)
      <4>1. d[i].id = delivered[i].id /\ d[k].id = batch[e].id /\ e \in 1 .. l
        <5>1. d[i] = delivered[i] /\ d[k] = batch[e]
          BY <1>4, <2>2, <3>1
        <5> QED  BY <1>1, <5>1
      <4> QED  BY <2>2, <4>1 DEF Names
    <3> QED  BY <3>2 DEF Ordered
  <2>3. CASE i \notin 1 .. m
    <3>1. PICK e \in 1 .. n : i = m + e
      BY <1>5, <2>3
    <3>2. k \notin 1 .. m
      BY <1>1, <2>3
    <3>3. PICK f \in 1 .. n : k = m + f
      BY <1>5, <3>2
    <3>4. e < f /\ e \in 1 .. l /\ f \in 1 .. l
      BY <1>1, <3>1, <3>3
    <3> QED  BY <1>4, <3>1, <3>3, <3>4 DEF Ordered, Rising
  <2> QED  BY <2>1, <2>2, <2>3
<1>11. Rising(b)
  BY <1>1, <1>3, <1>8 DEF Ordered, Rising
<1>12. \A x \in Names(d), y \in Names(b) : x < y
  <2> SUFFICES ASSUME NEW x \in Names(d), NEW y \in Names(b) PROVE x < y
    OBVIOUS
  <2>1. CASE x \in Names(delivered)
    BY <1>9, <2>1 DEF Ordered
  <2>2. CASE x \in Drained(n)
    <3>1. PICK i \in 1 .. n : x = batch[i].id
      BY <2>2 DEF Drained
    <3>2. PICK k \in 1 .. l - n : y = batch[n + k].id
      <4>1. PICK k \in 1 .. Len(b) : y = b[k].id
        BY DEF Names
      <4>2. k \in 1 .. l - n /\ b[k] = batch[n + k]
        BY <1>3, <4>1
      <4> QED  BY <4>1, <4>2
    <3>3. i < n + k /\ i \in 1 .. l /\ n + k \in 1 .. l
      BY <1>1
    <3> QED  BY <3>1, <3>2, <3>3 DEF Ordered, Rising
  <2> QED  BY <1>6, <2>1, <2>2
<1>13. ASSUME Truthful(delivered), Truthful(batch) PROVE Truthful(d) /\ Truthful(b)
  <2>1. Truthful(b)
    BY <1>1, <1>3, <1>8, <1>13 DEF Truthful
  <2>2. ASSUME NEW i \in 1 .. m + n PROVE d[i].state = cell[d[i].id]
    <3>1. CASE i \in 1 .. m
      BY <1>4, <1>13, <3>1 DEF Truthful
    <3>2. CASE i \notin 1 .. m
      <4>1. PICK e \in 1 .. n : i = m + e
        BY <1>5, <3>2
      <4>2. e \in 1 .. l
        BY <1>1
      <4> QED  BY <1>4, <1>13, <4>1, <4>2 DEF Truthful
    <3> QED  BY <3>1, <3>2
  <2> QED  BY <1>4, <2>1, <2>2 DEF Truthful
<1> QED  BY <1>6, <1>9, <1>10, <1>11, <1>12, <1>13

(* drain splits the batch at n. *)
LEMMA DrainSplits ==
    ASSUME TypeOK, NEW n \in 1 .. Len(batch)
    PROVE  Drains(delivered \o SubSeq(batch, 1, n), SubSeq(batch, n + 1, Len(batch)), n)
<1> DEFINE m == Len(delivered)
<1> DEFINE l == Len(batch)
<1> DEFINE p == SubSeq(batch, 1, n)
<1> DEFINE d == delivered \o p
<1> DEFINE b == SubSeq(batch, n + 1, l)
<1>1. /\ delivered \in Seq(Completions) /\ batch \in Seq(Completions)
      /\ m \in Nat /\ l \in Nat /\ n \in Nat /\ n <= l /\ 1 <= n
  BY DEF TypeOK
<1>2. p \in Seq(Completions) /\ Len(p) = n /\ \A i \in 1 .. n : p[i] = batch[i]
  BY <1>1
<1>3. b \in Seq(Completions) /\ Len(b) = l - n /\ \A i \in 1 .. l - n : b[i] = batch[n + i]
  BY <1>1
<1>4. /\ d \in Seq(Completions) /\ Len(d) = m + n
      /\ \A i \in 1 .. m : d[i] = delivered[i]
      /\ \A i \in 1 .. n : d[m + i] = batch[i]
  <2> HIDE DEF p
  <2>1. d \in Seq(Completions) /\ Len(d) = m + n
        /\ \A i \in 1 .. m + n : d[i] = IF i <= m THEN delivered[i] ELSE p[i - m]
    BY <1>1, <1>2, ConcatProperties
  <2> HIDE DEF d
  <2>2. \A i \in 1 .. n : m + i \in 1 .. m + n /\ ~ (m + i <= m) /\ (m + i) - m = i
    BY <1>1
  <2>3. \A i \in 1 .. m : i \in 1 .. m + n /\ i <= m
    BY <1>1
  <2> QED  BY <1>2, <2>1, <2>2, <2>3
<1> QED  BY <1>1, <1>3, <1>4 DEF Drains

LEMMA DrainOutcomesKeeps == ASSUME NEW t \in Callers, CellsIInv, DrainOutcomes(t) PROVE CellsIInv'
<1>1. PICK n \in 1 .. Len(batch) : DrainBatch(n) /\ delivered' = delivered \o SubSeq(batch, 1, n)
  BY DEF DrainOutcomes
<1>2. UNCHANGED <<cellVars, published, freed, released, highWater>>
  BY <1>1 DEF DrainOutcomes, DrainBatch
<1>3. /\ TypeOK /\ Cancelling /\ EndedOnce /\ Ordered /\ PublishedOnce /\ Leased /\ Bounded
      /\ Truthful(delivered) /\ Truthful(batch)
  BY DEF CellsIInv
<1> DEFINE d == delivered \o SubSeq(batch, 1, n)
<1> DEFINE b == SubSeq(batch, n + 1, Len(batch))
<1>4. /\ d \in Seq(Completions) /\ b \in Seq(Completions)
      /\ Rising(d) /\ Rising(b)
      /\ \A x \in Names(d), y \in Names(b) : x < y
      /\ Names(d) = Names(delivered) \cup Drained(n)
      /\ Names(d) \cup Names(b) = Names(delivered) \cup Names(batch)
      /\ Names(batch) = Drained(n) \cup Names(b)
      /\ Truthful(d) /\ Truthful(b)
  <2>1. Drains(d, b, n)
    BY <1>3, DrainSplits
  <2>2. d \in Seq(Completions) /\ b \in Seq(Completions)
    BY <2>1 DEF Drains
  <2> HIDE DEF d, b
  <2> QED  BY <1>3, <2>1, <2>2, DrainedInOrder
<1>5. /\ delivered' = d /\ batch' = b
      /\ leases' = [k \in DOMAIN leases |-> leases[k] \/ k \in Drained(n)]
  BY <1>1 DEF DrainBatch
<1> HIDE DEF d, b
<1>6. /\ Names(delivered)' = Names(d) /\ Names(batch)' = Names(b)
      /\ Rising(delivered)' /\ Rising(batch)'
  BY <1>4, <1>5 DEF Names, Rising
<1>7. TypeOK' /\ Cancelling' /\ EndedOnce'
  <2>1. leases' \in [DOMAIN leases' -> BOOLEAN] /\ DOMAIN leases' = DOMAIN leases
    BY <1>5
  <2>2. TypeOK'
    BY <1>2, <1>3, <1>4, <1>5, <2>1 DEF TypeOK, cellVars, callVars
  <2> QED  BY <1>2, <1>3, <2>2 DEF Cancelling, EndedOnce, cellVars, callVars
<1>8. Ordered'
  BY <1>2, <1>3, <1>4, <1>6 DEF Ordered
<1>9. Truthful(delivered)' /\ Truthful(batch)'
  BY <1>2, <1>4, <1>5 DEF Truthful, cellVars
<1>10. PublishedOnce'
  BY <1>2, <1>3, <1>4, <1>6 DEF PublishedOnce
<1>11. Leased'
  <2>1. ASSUME NEW j \in DOMAIN leases
        PROVE  j \in (IF leases'[j] THEN Names(d) ELSE Names(b))
    <3>1. CASE leases[j]
      <4>1. leases'[j] /\ j \in Names(delivered)
        BY <1>3, <1>5, <3>1 DEF Leased
      <4> QED  BY <1>4, <4>1
    <3>2. CASE ~ leases[j] /\ j \in Drained(n)
      BY <1>4, <1>5, <3>2
    <3>3. CASE ~ leases[j] /\ j \notin Drained(n)
      <4>1. ~ leases'[j] /\ j \in Names(batch)
        BY <1>3, <1>5, <3>3 DEF Leased
      <4> QED  BY <1>4, <3>3, <4>1
    <3> QED  BY <3>1, <3>2, <3>3
  <2>2. DOMAIN leases' = DOMAIN leases
    BY <1>5
  <2> QED  BY <1>2, <1>3, <1>4, <1>6, <2>1, <2>2 DEF Leased
<1>12. Bounded'
  BY <1>2, <1>3, <1>5 DEF Bounded
<1> QED  BY <1>7, <1>8, <1>9, <1>10, <1>11, <1>12 DEF CellsIInv

LEMMA ReleaseOutcomeKeeps ==
    ASSUME NEW t \in Callers, NEW j \in Cells, CellsIInv, ReleaseOutcome(t, j)
    PROVE  CellsIInv'
<1>1. /\ TypeOK /\ Cancelling /\ EndedOnce /\ Ordered /\ PublishedOnce /\ Leased /\ Bounded
      /\ Truthful(delivered) /\ Truthful(batch)
  BY DEF CellsIInv
<1>2. /\ j \in DOMAIN leases /\ leases[j]
      /\ leases' = Restrict(leases, DOMAIN leases \ {j})
      /\ released' = Append(IF Len(released) = Capacity THEN Tail(released) ELSE released, j)
      /\ freed' = [freed EXCEPT ![j] = @ + 1]
      /\ UNCHANGED <<cellVars, batch, highWater, published, delivered>>
  BY DEF ReleaseOutcome, ReleaseLease, MayRelease
<1>3. /\ DOMAIN leases' = DOMAIN leases \ {j}
      /\ \A k \in DOMAIN leases' : leases'[k] = leases[k]
      /\ leases' \in [DOMAIN leases' -> BOOLEAN]
  BY <1>1, <1>2 DEF Restrict, TypeOK
<1>4. freed[j] = 0 /\ j \in Names(delivered)
  BY <1>1, <1>2 DEF Leased
<1>5. /\ Cardinality(DOMAIN leases) \in Nat /\ Cardinality(DOMAIN leases) >= 1
      /\ IsFiniteSet(DOMAIN leases') /\ Cardinality(DOMAIN leases') = Cardinality(DOMAIN leases) - 1
  <2>1. IsFiniteSet(DOMAIN leases)
    BY <1>1 DEF Bounded
  <2>2. Cardinality(DOMAIN leases) \in Nat /\ Cardinality(DOMAIN leases) # 0
    BY <1>2, <2>1, FS_CardinalityType, FS_EmptySet
  <2>3. IsFiniteSet(DOMAIN leases') /\ Cardinality(DOMAIN leases') = Cardinality(DOMAIN leases) - 1
    BY <1>2, <1>3, <2>1, FS_RemoveElement
  <2> QED  BY <2>2, <2>3
<1>6. released' \in Seq(Cells) /\ Len(released') <= Capacity
  <2>1. released \in Seq(Cells) /\ Len(released) <= Capacity /\ Capacity \in Nat /\ Capacity >= 1
    BY <1>1, <1>5, CapacityAssumption DEF TypeOK, Bounded
  <2>2. CASE Len(released) = Capacity
    <3>1. released # <<>>
      BY <2>1, <2>2
    <3>2. Tail(released) \in Seq(Cells) /\ Len(Tail(released)) = Capacity - 1
      BY <2>1, <2>2, <3>1
    <3> QED  BY <1>2, <2>1, <2>2, <3>2
  <2>3. CASE Len(released) # Capacity
    BY <1>2, <2>1, <2>3
  <2> QED  BY <2>2, <2>3
<1>7. TypeOK' /\ Cancelling' /\ EndedOnce'
  <2>1. freed' \in [Cells -> Nat] /\ DOMAIN leases' \subseteq Cells
    BY <1>1, <1>2, <1>3 DEF TypeOK
  <2>2. TypeOK'
    BY <1>1, <1>2, <1>3, <1>6, <2>1 DEF TypeOK, cellVars, callVars
  <2> QED  BY <1>1, <1>2, <2>2 DEF Cancelling, EndedOnce, cellVars, callVars
<1>8. /\ Ordered' /\ PublishedOnce' /\ Truthful(delivered)' /\ Truthful(batch)'
      /\ Names(delivered)' = Names(delivered) /\ Names(batch)' = Names(batch)
  <2>1. UNCHANGED <<cell, batch, delivered, highWater, published>>
    BY <1>2 DEF cellVars
  <2>2. Names(delivered)' = Names(delivered) /\ Names(batch)' = Names(batch)
    BY <2>1 DEF Names
  <2>3. Rising(delivered)' /\ Rising(batch)'
    BY <1>1, <2>1 DEF Ordered, Rising
  <2>4. Ordered'
    BY <1>1, <2>1, <2>2, <2>3 DEF Ordered
  <2>5. PublishedOnce'
    BY <1>1, <2>1, <2>2 DEF PublishedOnce
  <2>6. Truthful(delivered)' /\ Truthful(batch)'
    BY <1>1, <2>1 DEF Truthful
  <2> QED  BY <2>2, <2>4, <2>5, <2>6
<1>9. Leased'
  <2>1. \A k \in Cells : freed'[k] = IF k = j THEN 1 ELSE freed[k]
    BY <1>1, <1>2, <1>4 DEF TypeOK
  <2> QED  BY <1>1, <1>3, <1>4, <1>8, <2>1 DEF Leased
<1>10. Bounded'
  BY <1>1, <1>5, <1>6, CapacityAssumption DEF Bounded
<1> QED  BY <1>7, <1>8, <1>9, <1>10 DEF CellsIInv

-----------------------------------------------------------------------------
(* The theorems *)

LEMMA OutcomesInitHolds == ASSUME OutcomesInit PROVE CellsIInv
<1> USE DEF OutcomesInit, CellInit, BatchInit
<1>1. TypeOK
  <2>1. batch \in Seq(Completions) /\ delivered \in Seq(Completions) /\ released \in Seq(Cells)
    OBVIOUS
  <2>2. DOMAIN leases = {} /\ leases \in [DOMAIN leases -> BOOLEAN]
    OBVIOUS
  <2> QED  BY <2>1, <2>2 DEF TypeOK
<1>2. Names(delivered) = {} /\ Names(batch) = {}
  BY DEF Names
<1>3. Cancelling /\ EndedOnce /\ PublishedOnce
  BY <1>2 DEF Cancelling, EndedOnce, PublishedOnce, EndStates
<1>4. Ordered /\ Truthful(delivered) /\ Truthful(batch)
  BY <1>2 DEF Ordered, Truthful, Rising
<1>5. DOMAIN leases = {} /\ Len(released) = 0
  OBVIOUS
<1>6. Leased /\ Bounded
  BY <1>5, FS_EmptySet, CapacityAssumption DEF Leased, Bounded
<1> QED  BY <1>1, <1>3, <1>4, <1>6 DEF CellsIInv

LEMMA OutcomesStepKeeps == ASSUME CellsIInv, [OutcomesNext]_outcomeVars PROVE CellsIInv'
<1>1. CASE UNCHANGED outcomeVars
  BY <1>1 DEF CellsIInv, TypeOK, Cancelling, EndedOnce, Ordered, Truthful, PublishedOnce, Leased, Bounded,
             Rising, Names, outcomeVars, cellVars, callVars, batchVars, historyVars
<1>2. ASSUME NEW t \in Callers, CellStep(t), UNCHANGED <<batchVars, historyVars>> PROVE CellsIInv'
  BY <1>2, QueuedKeeps, CasStartKeeps, CasCompleteKeeps, CasCancelKeeps,
     CancelLoadKeeps, CancelSwapKeeps, CancelLostKeeps DEF CellStep, CancelStep
<1>3. ASSUME NEW t \in Callers, NEW j \in Cells, PublishOutcome(t, j) \/ ReleaseOutcome(t, j) PROVE CellsIInv'
  BY <1>3, PublishOutcomeKeeps, ReleaseOutcomeKeeps
<1>4. ASSUME NEW t \in Callers, DrainOutcomes(t) PROVE CellsIInv'
  BY <1>4, DrainOutcomesKeeps
<1> QED  BY <1>1, <1>2, <1>3, <1>4 DEF OutcomesNext

(* The parts above hold together in every reachable state. *)
THEOREM CellsInductive == OutcomesSpec => []CellsIInv
BY OutcomesInitHolds, OutcomesStepKeeps, PTL DEF OutcomesSpec

(* Each job ends once, is heard of once with that end, and is freed once      *)
(* after it (state.rs cas_cancel, completion.rs publish, drain, release).    *)
THEOREM OutcomesAreOnce == OutcomesSpec => []OutcomesOnce
<1>1. CellsIInv => OutcomesOnce
  <2> SUFFICES ASSUME CellsIInv PROVE OutcomesOnce
    OBVIOUS
  <2>1. /\ TypeOK /\ EndedOnce /\ Ordered /\ PublishedOnce /\ Leased /\ Bounded
        /\ Truthful(delivered) /\ Truthful(batch)
    BY DEF CellsIInv
  <2>2. /\ DOMAIN delivered = 1 .. Len(delivered) /\ Len(delivered) \in Nat
        /\ DOMAIN batch = 1 .. Len(batch)
    BY <2>1 DEF TypeOK
  <2>3. \A c \in Range(delivered) \cup Range(batch) : c.state = cell[c.id]
    BY <2>1, <2>2 DEF Truthful, Range
  <2>4. ASSUME NEW j \in Cells
        PROVE  Cardinality(Heard(j)) = IF j \in Names(delivered) THEN 1 ELSE 0
    <3>1. CASE j \notin Names(delivered)
      <4>1. Heard(j) = {}
        BY <2>2, <3>1 DEF Heard, Names
      <4> QED  BY <3>1, <4>1, FS_EmptySet
    <3>2. CASE j \in Names(delivered)
      <4>1. PICK i \in 1 .. Len(delivered) : delivered[i].id = j
        BY <3>2 DEF Names
      <4>2. ASSUME NEW k \in 1 .. Len(delivered), delivered[k].id = j PROVE k = i
        <5>1. i < k => j < j
          BY <2>1, <4>1, <4>2 DEF Ordered, Rising
        <5>2. k < i => j < j
          BY <2>1, <4>1, <4>2 DEF Ordered, Rising
        <5>3. ~ (j < j)
          BY MaxCellsAssumption DEF Cells
        <5> QED  BY <2>2, <5>1, <5>2, <5>3
      <4>3. Heard(j) = {i}
        BY <2>2, <4>1, <4>2 DEF Heard
      <4> QED  BY <3>2, <4>3, FS_Singleton
    <3> QED  BY <3>1, <3>2
  <2>5. ASSUME NEW j \in Cells
        PROVE  /\ ends[j] = IF cell[j] \in EndStates THEN 1 ELSE 0
               /\ published[j] <= ends[j]
               /\ Cardinality(Heard(j)) <= published[j] /\ freed[j] <= Cardinality(Heard(j))
    <3>1. j \in Names(delivered) \cup Names(batch) => cell[j] \in EndStates
      <4>1. \A i \in 1 .. Len(delivered) : delivered[i].state \in EndStates /\ delivered[i].state = cell[delivered[i].id]
        <5>1. \A i \in 1 .. Len(delivered) : delivered[i] \in Completions
          BY <2>1 DEF TypeOK
        <5> QED  BY <2>1, <5>1 DEF Completions, Truthful
      <4>2. \A i \in 1 .. Len(batch) : batch[i].state \in EndStates /\ batch[i].state = cell[batch[i].id]
        <5>1. \A i \in 1 .. Len(batch) : batch[i] \in Completions
          BY <2>1 DEF TypeOK
        <5> QED  BY <2>1, <5>1 DEF Completions, Truthful
      <4> QED  BY <4>1, <4>2 DEF Names
    <3>2. ends[j] = IF cell[j] \in EndStates THEN 1 ELSE 0
      BY <2>1 DEF EndedOnce
    <3>3. published[j] = IF j \in Names(delivered) \cup Names(batch) THEN 1 ELSE 0
      BY <2>1 DEF PublishedOnce
    <3>4. freed[j] = 0 \/ (freed[j] = 1 /\ j \in Names(delivered))
      BY <2>1 DEF Leased
    <3> QED  BY <2>4, <3>1, <3>2, <3>3, <3>4
  <2>6. Cardinality(DOMAIN leases) + Len(released) <= 2 * Capacity
    <3>1. Cardinality(DOMAIN leases) \in Nat /\ Len(released) \in Nat
      BY <2>1, FS_CardinalityType DEF Bounded, TypeOK
    <3> QED  BY <2>1, <3>1, CapacityAssumption DEF Bounded
  <2> QED  BY <2>3, <2>5, <2>6 DEF OutcomesOnce
<1> QED  BY <1>1, CellsInductive, PTL

-----------------------------------------------------------------------------
(* The cells implement JobLifecycle *)

LEMMA SameCellCount == ASSUME NEW S PROVE CellLifecycle!Cardinality(S) = Cardinality(S)
BY Zenon DEF CellLifecycle!Cardinality, Cardinality

(* A queued job is not running, so fewer jobs run than there are. *)
LEMMA RoomToRun ==
    ASSUME NEW j \in Cells, cell[j] = "Queued"
    PROVE  CellLifecycle!Cardinality(CellLifecycle!Busy) < MaxCells
<1>1. IsFiniteSet(Cells) /\ Cardinality(Cells) = MaxCells
  BY MaxCellsAssumption, FS_Interval DEF Cells
<1>2. IsFiniteSet(Cells \ {j}) /\ Cardinality(Cells \ {j}) = MaxCells - 1
  BY <1>1, FS_RemoveElement
<1> DEFINE S == CellLifecycle!Busy
<1>3. S \subseteq Cells \ {j}
  BY DEF CellLifecycle!Busy
<1> HIDE DEF S
<1>4. IsFiniteSet(S) /\ Cardinality(S) <= MaxCells - 1
  BY <1>2, <1>3, FS_Subset
<1>5. Cardinality(S) < MaxCells
  BY <1>4, FS_CardinalityType, MaxCellsAssumption
<1> QED  BY <1>5, SameCellCount DEF S

LEMMA CellStepRefines ==
    ASSUME CellsIInv, [OutcomesNext]_outcomeVars
    PROVE  CellLifecycle!Next \/ UNCHANGED CellLifecycle!lifecycleVars
<1> USE DEF CellLifecycle!Next, CellLifecycle!lifecycleVars, CellLifecycle!Move
<1>1. ASSUME UNCHANGED cell PROVE UNCHANGED CellLifecycle!lifecycleVars
  BY <1>1
<1>2. ASSUME NEW t \in Callers, NEW j \in Cells, Queued(t, j) PROVE CellLifecycle!Next
  BY <1>2 DEF Queued, CellLifecycle!Submit
<1>3. ASSUME NEW t \in Callers, NEW j \in Cells, CasStart(t, j) PROVE CellLifecycle!Next
  BY <1>3, RoomToRun DEF CasStart, Exchange, CellLifecycle!Start
<1>4. ASSUME NEW t \in Callers, NEW j \in Cells, NEW to \in EndStates, CasComplete(t, j, to)
      PROVE  CellLifecycle!Next
  BY <1>4 DEF CasComplete, Exchange, CellLifecycle!Finish, CellLifecycle!Ends, EndStates
<1>5. ASSUME NEW t \in Callers, CancelSwap(t) PROVE CellLifecycle!Next
  <2>1. job[t] \in Cells /\ cell[job[t]] \in {"Queued", "Running"}
    BY <1>5 DEF CellsIInv, Cancelling, CancelSwap, Exchange
  <2>2. cell' = [cell EXCEPT ![job[t]] = "Cancelled"]
    BY <1>5 DEF CancelSwap, Exchange
  <2>3. CASE cell[job[t]] = "Queued"
    BY <2>1, <2>2, <2>3 DEF CellLifecycle!Cancel
  <2>4. CASE cell[job[t]] = "Running"
    BY <2>1, <2>2, <2>4 DEF CellLifecycle!Finish, CellLifecycle!Ends
  <2> QED  BY <2>1, <2>3, <2>4
<1>6. ASSUME NEW t \in Callers, CellStep(t) PROVE CellLifecycle!Next \/ UNCHANGED cell
  <2>1. CASE \E j \in Cells : Queued(t, j)
    BY <1>2, <2>1
  <2>2. CASE \E j \in Cells : CasStart(t, j)
    BY <1>3, <2>2
  <2>3. CASE \E j \in Cells : \E to \in EndStates : CasComplete(t, j, to)
    BY <1>4, <2>3
  <2>4. CASE \E j \in Cells : CasCancel(t, j)
    BY <2>4 DEF CasCancel
  <2>5. CASE CancelStep(t)
    <3>1. CASE CancelSwap(t)
      BY <1>5, <3>1
    <3>2. CASE CancelLoad(t) \/ CancelLost(t)
      BY <3>2 DEF CancelLoad, CancelLost
    <3> QED  BY <2>5, <3>1, <3>2 DEF CancelStep
  <2> QED  BY <1>6, <2>1, <2>2, <2>3, <2>4, <2>5 DEF CellStep
<1>7. ASSUME NEW t \in Callers, NEW j \in Cells, PublishOutcome(t, j) \/ ReleaseOutcome(t, j)
      PROVE  UNCHANGED cell
  BY <1>7 DEF PublishOutcome, ReleaseOutcome, cellVars
<1>8. ASSUME NEW t \in Callers, DrainOutcomes(t) PROVE UNCHANGED cell
  BY <1>8 DEF DrainOutcomes, cellVars
<1>9. UNCHANGED outcomeVars => UNCHANGED cell
  BY DEF outcomeVars, cellVars
<1> HIDE DEF CellLifecycle!Next, CellLifecycle!lifecycleVars
<1> QED  BY <1>1, <1>6, <1>7, <1>8, <1>9 DEF OutcomesNext

(* A job runs at most once and ends once, though cas_cancel swaps what it     *)
(* read earlier: every step of the cells is a step of JobLifecycle.          *)
THEOREM CellsRefine == OutcomesSpec => CellsImplementLifecycle
<1>1. OutcomesInit => CellLifecycle!Init
  BY MaxCellsAssumption DEF OutcomesInit, CellInit, CellLifecycle!Init
<1>2. CellsIInv /\ [OutcomesNext]_outcomeVars => [CellLifecycle!Next]_(CellLifecycle!lifecycleVars)
  BY CellStepRefines
<1> QED  BY <1>1, <1>2, CellsInductive, PTL DEF OutcomesSpec, CellLifecycle!Spec, CellsImplementLifecycle
=============================================================================
