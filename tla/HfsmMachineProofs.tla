-------------------------- MODULE HfsmMachineProofs --------------------------
(***************************************************************************)
(* The safety of HfsmMachine for every set of states, every definition that *)
(* compile accepts, any counters and any number of epochs: a machine that   *)
(* runs stays on a legal path, its plans are the ones its transitions call  *)
(* for and fit the bound, what it has left is refused, and the items of a   *)
(* batch of HfsmBatch do not touch each other.                              *)
(***************************************************************************)
EXTENDS HfsmBatch, SumLemmas, SequenceTheorems, TLAPS

-----------------------------------------------------------------------------
(* Walks along a function on states *)

(* A set with the first number and the successor of each has all up to N. *)
LEMMA Upwards ==
    ASSUME NEW M \in Nat, NEW P, 0 \in P, \A n \in 0 .. M - 1 : n \in P => n + 1 \in P
    PROVE  0 .. M \subseteq P
<1> DEFINE Bad == {n \in 0 .. M : n \notin P}
<1> SUFFICES ASSUME Bad # {} PROVE FALSE
  OBVIOUS
<1>1. PICK n \in Bad : \A m \in Bad : n <= m
  <2>1. Bad \subseteq Nat
    OBVIOUS
  <2> HIDE DEF Bad
  <2> QED  BY <2>1, LeastNatural
<1>2. n # 0 /\ n - 1 \in 0 .. M - 1
  OBVIOUS
<1>3. n - 1 \in P
  BY <1>1, <1>2
<1>4. (n - 1) + 1 \in P
  BY <1>2, <1>3
<1> QED  BY <1>1, <1>2, <1>4

(* g is what recursion from a along F computes up to n. *)
Runs(F, n, a, g) == DOMAIN g = 0 .. n /\ g[0] = a /\ \A k \in 1 .. n : g[k] = F[k][g[k - 1]]

(* Recursion over numbers defines a function, *)
LEMMA Recursion ==
    ASSUME NEW X, NEW M \in Nat, NEW a \in X, NEW F \in [1 .. M -> [X -> X]]
    PROVE  \E g \in [0 .. M -> X] : Runs(F, M, a, g)
<1> DEFINE P == {n \in 0 .. M : \E g \in [0 .. n -> X] : Runs(F, n, a, g)}
<1>1. 0 \in P
  <2> DEFINE g == [k \in 0 .. 0 |-> a]
  <2>1. g \in [0 .. 0 -> X] /\ Runs(F, 0, a, g)
    BY DEF Runs
  <2> HIDE DEF g
  <2> QED  BY <2>1
<1>2. ASSUME NEW n \in 0 .. M - 1, n \in P PROVE n + 1 \in P
  <2>1. PICK g \in [0 .. n -> X] : Runs(F, n, a, g)
    BY <1>2
  <2> DEFINE h == [k \in 0 .. n + 1 |-> IF k = n + 1 THEN F[n + 1][g[n]] ELSE g[k]]
  <2>2. g[n] \in X /\ F[n + 1] \in [X -> X]
    OBVIOUS
  <2>3. h \in [0 .. n + 1 -> X]
    BY <2>1, <2>2
  <2>4. h[0] = a
    BY <2>1 DEF Runs
  <2>5. ASSUME NEW k \in 1 .. n + 1 PROVE h[k] = F[k][h[k - 1]]
    <3>1. k - 1 \in 0 .. n /\ h[k - 1] = g[k - 1]
      OBVIOUS
    <3> QED  BY <2>1, <3>1 DEF Runs
  <2> HIDE DEF h
  <2>6. Runs(F, n + 1, a, h)
    BY <2>3, <2>4, <2>5 DEF Runs
  <2> QED  BY <2>3, <2>6
<1>3. 0 .. M \subseteq P
  <2> HIDE DEF P
  <2> QED  BY <1>1, <1>2, Upwards
<1> QED  BY <1>3

(* and its values stay in the set it maps to itself. *)
LEMMA RecursionStays ==
    ASSUME NEW X, NEW M \in Nat, NEW F \in [1 .. M -> [X -> X]], NEW h,
           h[0] \in X, \A n \in 1 .. M : h[n - 1] \in X => h[n] = F[n][h[n - 1]]
    PROVE  \A n \in 0 .. M : h[n] \in X
<1> DEFINE P == {n \in 0 .. M : h[n] \in X}
<1>1. 0 \in P
  OBVIOUS
<1>2. \A n \in 0 .. M - 1 : n \in P => n + 1 \in P
  <2> TAKE n \in 0 .. M - 1
  <2> HAVE n \in P
  <2>1. (n + 1) - 1 = n /\ n + 1 \in 1 .. M
    OBVIOUS
  <2>2. h[n + 1] = F[n + 1][h[n]]
    BY <2>1
  <2> QED  BY <2>1, <2>2
<1> HIDE DEF P
<1>3. 0 .. M \subseteq P
  BY <1>1, <1>2, Upwards
<1> QED  BY <1>3 DEF P

N == Cardinality(States)

(* There is a state. *)
LEMMA StatesCounted == N \in Nat /\ N >= 1
BY SomeStates, FS_CardinalityType, FS_EmptySet DEF N

StepFrom(next, s, g) ==
    [n \in 0 .. Cardinality(States) |->
        IF n = 0 THEN s ELSE IF g[n - 1] = NoState THEN NoState ELSE next[g[n - 1]]]

(* Step follows next from s, one state a step, and stays where there is none. *)
LEMMA StepUnfolds ==
    ASSUME NEW next \in [States -> States \cup {NoState}], NEW s \in States
    PROVE  /\ Step(next, s) \in [0 .. N -> States \cup {NoState}]
           /\ Step(next, s)[0] = s
           /\ \A n \in 1 .. N : Step(next, s)[n] =
                 IF Step(next, s)[n - 1] = NoState THEN NoState ELSE next[Step(next, s)[n - 1]]
<1> DEFINE X == States \cup {NoState}
           F == [n \in 1 .. N |-> [x \in X |-> IF x = NoState THEN NoState ELSE next[x]]]
           at == Step(next, s)
<1>1. N \in Nat /\ s \in X /\ F \in [1 .. N -> [X -> X]]
  BY StatesCounted
<1>2. at = CHOOSE g : g = StepFrom(next, s, g)
  BY Zenon DEF Step, StepFrom
<1>3. \E g \in [0 .. N -> X] : Runs(F, N, s, g)
  <2> HIDE DEF X, F
  <2> QED  BY <1>1, Recursion
<1>4. \E g : g = StepFrom(next, s, g)
  <2>1. PICK g \in [0 .. N -> X] : g[0] = s /\ \A n \in 1 .. N : g[n] = F[n][g[n - 1]]
    <3> HIDE DEF F
    <3> QED  BY <1>3 DEF Runs
  <2>2. ASSUME NEW n \in 0 .. N, n # 0
        PROVE  g[n] = IF g[n - 1] = NoState THEN NoState ELSE next[g[n - 1]]
    <3>1. n \in 1 .. N /\ n - 1 \in 0 .. N /\ g[n - 1] \in X
      BY <1>1, <2>2
    <3> QED  BY <2>1, <3>1
  <2>3. g = [n \in 0 .. N |-> g[n]]
    BY <2>1
  <2>4. g = [n \in 0 .. N |-> IF n = 0 THEN s ELSE IF g[n - 1] = NoState THEN NoState ELSE next[g[n - 1]]]
    <3> HIDE DEF F, X
    <3> QED  BY <2>1, <2>2, <2>3
  <2> QED  BY <2>4, Zenon DEF StepFrom, N
<1>5. at = StepFrom(next, s, at)
  <2> HIDE DEF at
  <2> QED BY <1>2, <1>4, Zenon
<1>6. at[0] = s /\ DOMAIN at = 0 .. N
      /\ \A n \in 1 .. N : at[n] = IF at[n - 1] = NoState THEN NoState ELSE next[at[n - 1]]
  <2> HIDE DEF at
  <2> QED  BY <1>1, <1>5 DEF StepFrom, N
<1>7. \A n \in 0 .. N : at[n] \in X
  <2>1. \A n \in 1 .. N : at[n - 1] \in X => at[n] = F[n][at[n - 1]]
    BY <1>6
  <2> HIDE DEF X, F, at
  <2> QED  BY <1>1, <1>6, <2>1, RecursionStays
<1>8. at = [n \in 0 .. N |-> at[n]]
  <2> HIDE DEF at
  <2> QED  BY <1>5, <1>6 DEF StepFrom, N
<1> QED  BY <1>6, <1>7, <1>8

(* The least and the greatest of a finite set of numbers. *)
LEMMA MinIsLeast ==
    ASSUME NEW S \in SUBSET Nat, S # {}
    PROVE  Min(S) \in S /\ \A x \in S : Min(S) <= x
<1>1. \E n \in S : \A m \in S : n <= m
  BY LeastNatural
<1> QED  BY <1>1 DEF Min

(* A bounded set of numbers has a greatest one. *)
LEMMA MaxIsGreatest ==
    ASSUME NEW S \in SUBSET Nat, S # {}, NEW b \in Nat, \A x \in S : x <= b
    PROVE  Max(S) \in S /\ \A x \in S : x <= Max(S)
<1> DEFINE T == {b - x : x \in S}
<1>1. T \subseteq Nat /\ T # {}
  <2>1. \A x \in S : x \in Nat /\ x <= b /\ b - x \in Nat
    OBVIOUS
  <2> QED  BY <2>1
<1>2. PICK n \in T : \A m \in T : n <= m
  <2> HIDE DEF T
  <2> QED  BY <1>1, LeastNatural
<1>3. PICK x \in S : n = b - x
  OBVIOUS
<1>4. \A y \in S : y <= x
  <2> TAKE y \in S
  <2>1. b - x <= b - y
    BY <1>2, <1>3
  <2> QED  BY <2>1
<1>5. \E z \in S : \A y \in S : z >= y
  BY <1>4
<1>6. \A y \in S : Max(S) \in S /\ Max(S) >= y
  BY <1>5, Zenon DEF Max
<1> QED  BY <1>6

-----------------------------------------------------------------------------
(* Chains, and what compile has checked *)

(* q follows next for as long as there is a next. *)
Chain(next, q) ==
    /\ q \in Seq(States) /\ q # <<>>
    /\ \A i \in 1 .. Len(q) - 1 : next[q[i]] = q[i + 1]
    /\ next[q[Len(q)]] = NoState

(* A function on 1 .. n is a sequence. *)
LEMMA FunctionIsSeq ==
    ASSUME NEW n \in Nat, NEW S, NEW q, q \in [1 .. n -> S]
    PROVE  q \in Seq(S) /\ Len(q) = n /\ DOMAIN q = 1 .. n
BY SeqDef

(* Of two chains from one state, the shorter one is all of the longer one. *)
LEMMA ChainsAgreeShort ==
    ASSUME NEW next, NEW q, NEW r, Chain(next, q), Chain(next, r), q[1] = r[1], Len(q) <= Len(r)
    PROVE  q = r
<1>1. /\ q \in Seq(States) /\ r \in Seq(States) /\ Len(q) \in Nat \ {0} /\ Len(r) \in Nat \ {0}
  BY DEF Chain
<1> DEFINE P == {n \in 0 .. Len(q) : n = 0 \/ q[n] = r[n]}
<1>2. 0 .. Len(q) \subseteq P
  <2>1. 0 \in P
    BY <1>1
  <2>2. ASSUME NEW n \in 0 .. Len(q) - 1, n \in P PROVE n + 1 \in P
    <3>1. CASE n = 0
      BY <3>1, <1>1
    <3>2. CASE n # 0
      <4>1. n \in 1 .. Len(q) - 1 /\ n \in 1 .. Len(r) - 1 /\ q[n] = r[n]
        BY <3>2, <2>2, <1>1
      <4>2. q[n + 1] = r[n + 1]
        BY <4>1 DEF Chain
      <4> QED  BY <4>2, <1>1
    <3> QED  BY <3>1, <3>2
  <2> HIDE DEF P
  <2> QED  BY <1>1, <2>1, <2>2, Upwards
<1>3. \A i \in 1 .. Len(q) : q[i] = r[i]
  BY <1>2
<1>4. Len(q) = Len(r)
  <2> SUFFICES ASSUME Len(q) < Len(r) PROVE FALSE
    BY <1>1
  <2>1. Len(q) \in 1 .. Len(r) - 1 /\ r[Len(q)] = q[Len(q)] /\ r[Len(q) + 1] \in States
    BY <1>1, <1>3
  <2>2. r[Len(q) + 1] = NoState
    BY <2>1 DEF Chain
  <2> QED  BY <2>1, <2>2, SomeStates
<1> QED  BY <1>1, <1>3, <1>4, SeqEqual

(* From one state there is one chain. *)
LEMMA ChainsAgree ==
    ASSUME NEW next, NEW q, NEW r, Chain(next, q), Chain(next, r), q[1] = r[1]
    PROVE  q = r
<1>1. Len(q) \in Nat /\ Len(r) \in Nat
  BY DEF Chain
<1>2. Len(q) <= Len(r) \/ Len(r) <= Len(q)
  BY <1>1
<1> QED  BY <1>2, ChainsAgreeShort

(* Walk is the way from s to its end, or as long as there are states. *)
LEMMA WalkFollows ==
    ASSUME NEW next \in [States -> States \cup {NoState}], NEW s \in States
    PROVE  /\ Walk(next, s) \in Seq(States) /\ Len(Walk(next, s)) \in 1 .. N
           /\ Walk(next, s)[1] = s
           /\ \A i \in 1 .. Len(Walk(next, s)) - 1 :
                 next[Walk(next, s)[i]] = Walk(next, s)[i + 1]
           /\ next[Walk(next, s)[Len(Walk(next, s))]] = NoState
                 \/ /\ Len(Walk(next, s)) = N /\ Step(next, s)[N] # NoState
<1> DEFINE at == Step(next, s)
           S == {n \in DOMAIN at : at[n] = NoState} \cup {Cardinality(States)}
           m == Min(S)
           w == Walk(next, s)
<1>1. /\ at \in [0 .. N -> States \cup {NoState}] /\ at[0] = s
      /\ \A n \in 1 .. N : at[n] = IF at[n - 1] = NoState THEN NoState ELSE next[at[n - 1]]
  BY StepUnfolds
<1>2. w = [n \in 1 .. m |-> at[n - 1]]
  BY DEF Walk
<1>3. N \in Nat /\ N >= 1 /\ NoState \notin States
  BY StatesCounted, SomeStates
<1> HIDE DEF at, w
<1>4. m \in 1 .. N /\ (at[m] = NoState \/ m = N) /\ \A n \in 0 .. m - 1 : at[n] \in States
  <2>1. S \in SUBSET Nat /\ S # {} /\ N \in S
    BY <1>1, <1>3 DEF N
  <2>2. m \in S /\ \A x \in S : m <= x
    <3> HIDE DEF S
    <3> QED  BY <2>1, MinIsLeast
  <2>3. m \in 0 .. N /\ (at[m] = NoState \/ m = N)
    BY <2>1, <2>2, <1>1, <1>3 DEF N
  <2>4. at[0] # NoState
    BY <1>1, <1>3
  <2>5. m # 0
    BY <2>3, <2>4, <1>3
  <2> HIDE DEF m
  <2>6. ASSUME NEW n \in 0 .. m - 1 PROVE at[n] \in States
    <3>1. n \in 0 .. N /\ ~(m <= n)
      BY <2>3, <1>3
    <3>2. n \notin S
      BY <3>1, <2>2
    <3> QED  BY <3>1, <3>2, <1>1
  <2> QED  BY <2>3, <2>5, <2>6
<1> HIDE DEF m
<1>5. \A i \in 1 .. m : i - 1 \in 0 .. m - 1 /\ w[i] = at[i - 1]
  BY <1>2, <1>4
<1>6. w \in Seq(States) /\ Len(w) = m
  <2>1. w \in [1 .. m -> States] /\ m \in Nat
    BY <1>2, <1>4, <1>5
  <2> QED  BY <2>1, SeqDef
<1>7. ASSUME NEW i \in 1 .. m PROVE next[w[i]] = at[i]
  <2>1. w[i] = at[i - 1] /\ at[i - 1] # NoState /\ i \in 1 .. N
    BY <1>3, <1>4, <1>5
  <2> QED  BY <2>1, <1>1
<1>8. \A i \in 1 .. m - 1 : next[w[i]] = w[i + 1]
  BY <1>4, <1>5, <1>7
<1>9. next[w[m]] = NoState \/ (m = N /\ at[N] # NoState)
  BY <1>4, <1>7
<1>10. w[1] = s
  BY <1>1, <1>4, <1>5
<1> QED  BY <1>4, <1>6, <1>8, <1>9, <1>10 DEF at, w

-----------------------------------------------------------------------------
(* What compile has checked of a definition. *)
Compiled(d) == (\E spec \in Specs : d = Graph(spec)) /\ Compiles(d)

Arrows == [States -> States \cup {NoState}]

(* The types of what compile accepts. *)
LEMMA CompiledTyped ==
    ASSUME NEW d, Compiled(d)
    PROVE  /\ d.root \in States /\ d.parent \in Arrows /\ d.initial \in Arrows
           /\ d.entry \in [States -> Nat] /\ d.exit \in [States -> Nat]
           /\ d.transitions \in Seq(Transitions)
           /\ \A s \in States : d.up[s] = Walk(d.parent, s) /\ d.down[s] = Walk(d.initial, s)
<1>1. PICK spec \in Specs : d = Graph(spec)
  BY DEF Compiled
<1> QED  BY <1>1 DEF Specs, Graph, Arrows

(* s and its ancestors. *)
LEMMA UpIsChain ==
    ASSUME NEW d, Compiled(d), NEW s \in States
    PROVE  Chain(d.parent, Up(d, s)) /\ Up(d, s)[1] = s /\ Len(Up(d, s)) \in 1 .. N
<1>1. d.parent \in [States -> States \cup {NoState}] /\ Up(d, s) = Walk(d.parent, s)
  BY CompiledTyped DEF Up, Arrows
<1>2. Step(d.parent, s)[N] = NoState
  BY DEF Compiled, Compiles, StructuralCycle, N
<1>3. Up(d, s) \in Seq(States) /\ Len(Up(d, s)) \in 1 .. N /\ Up(d, s)[1] = s
      /\ (\A i \in 1 .. Len(Up(d, s)) - 1 : d.parent[Up(d, s)[i]] = Up(d, s)[i + 1])
      /\ d.parent[Up(d, s)[Len(Up(d, s))]] = NoState
  BY <1>1, <1>2, WalkFollows
<1>4. Up(d, s) # <<>>
  BY <1>3
<1> QED  BY <1>3, <1>4 DEF Chain

(* The ancestors of an ancestor are the rest of the ancestors. *)
LEMMA UpOfUp ==
    ASSUME NEW d, Compiled(d), NEW s \in States, NEW i \in 1 .. DepthOf(d, s)
    PROVE  /\ Up(d, s)[i] \in States
           /\ DepthOf(d, Up(d, s)[i]) = DepthOf(d, s) - i + 1
           /\ \A k \in 1 .. DepthOf(d, s) - i + 1 : Up(d, Up(d, s)[i])[k] = Up(d, s)[i + k - 1]
<1> DEFINE u == Up(d, s)
           m == Len(u)
           x == u[i]
           q == [k \in 1 .. m - i + 1 |-> u[i + k - 1]]
<1>1. Chain(d.parent, u) /\ u[1] = s /\ m \in Nat /\ u \in Seq(States)
  BY UpIsChain DEF Chain
<1> HIDE DEF u
<1>2. i \in 1 .. m /\ x \in States
  BY <1>1 DEF DepthOf, u
<1>3. q \in Seq(States) /\ Len(q) = m - i + 1 /\ \A k \in 1 .. m - i + 1 : q[k] = u[i + k - 1]
  <2>1. \A k \in 1 .. m - i + 1 : i + k - 1 \in 1 .. m
    BY <1>1, <1>2
  <2>2. q \in [1 .. m - i + 1 -> States] /\ m - i + 1 \in Nat
    BY <1>1, <1>2, <2>1
  <2>3. \A k \in 1 .. m - i + 1 : q[k] = u[i + k - 1]
    OBVIOUS
  <2> HIDE DEF q
  <2> QED  BY <2>2, <2>3, FunctionIsSeq
<1> HIDE DEF q, x
<1>4. Chain(d.parent, q)
  <2>1. ASSUME NEW k \in 1 .. Len(q) - 1 PROVE d.parent[q[k]] = q[k + 1]
    <3>1. i + k - 1 \in 1 .. m - 1 /\ q[k] = u[i + k - 1] /\ q[k + 1] = u[(i + k - 1) + 1]
      BY <1>1, <1>2, <1>3, <2>1
    <3> QED  BY <3>1, <1>1 DEF Chain
  <2>2. q[Len(q)] = u[m] /\ q # <<>>
    BY <1>1, <1>2, <1>3
  <2>3. d.parent[q[Len(q)]] = NoState
    BY <1>1, <2>2 DEF Chain
  <2> QED  BY <1>3, <2>1, <2>2, <2>3 DEF Chain
<1>5. q[1] = x
  BY <1>1, <1>2, <1>3 DEF x
<1>6. Up(d, x) = q
  BY <1>2, <1>4, <1>5, UpIsChain, ChainsAgree
<1> QED  BY <1>2, <1>3, <1>6 DEF DepthOf, u, x

(* The ancestors of a child are the child and those of its parent. *)
LEMMA UpOfChild ==
    ASSUME NEW d, Compiled(d), NEW s \in States, NEW c \in States, d.parent[c] = s
    PROVE  /\ DepthOf(d, c) = DepthOf(d, s) + 1
           /\ \A k \in 1 .. DepthOf(d, s) : Up(d, c)[k + 1] = Up(d, s)[k]
<1>1. Chain(d.parent, Up(d, c)) /\ Up(d, c)[1] = c /\ DepthOf(d, c) \in Nat \ {0} /\ DepthOf(d, s) \in Nat
  BY UpIsChain, StatesCounted DEF DepthOf
<1>2. DepthOf(d, c) >= 2
  <2>1. ASSUME DepthOf(d, c) = 1 PROVE FALSE
    <3>1. d.parent[c] = NoState
      BY <1>1, <2>1 DEF Chain, DepthOf
    <3> QED  BY <3>1, SomeStates
  <2> QED  BY <1>1, <2>1
<1>3. Up(d, c)[2] = s
  <2>1. 1 \in 1 .. Len(Up(d, c)) - 1
    BY <1>1, <1>2 DEF DepthOf
  <2> QED  BY <1>1, <2>1 DEF Chain
<1>4. 2 \in 1 .. DepthOf(d, c)
  BY <1>1, <1>2
<1>5. DepthOf(d, s) = DepthOf(d, c) - 2 + 1
      /\ \A k \in 1 .. DepthOf(d, c) - 2 + 1 : Up(d, s)[k] = Up(d, c)[2 + k - 1]
  BY <1>3, <1>4, UpOfUp
<1>6. \A k \in 1 .. DepthOf(d, s) : 2 + k - 1 = k + 1
  BY <1>1
<1> QED  BY <1>1, <1>5, <1>6

-----------------------------------------------------------------------------
(* Ancestors *)

(* s and its ancestors, as a set. *)
Above(d, s) == ToSet(Up(d, s))

(* The way from a state to its root. *)
LEMMA UpTyped ==
    ASSUME NEW d, Compiled(d), NEW s \in States
    PROVE  /\ Up(d, s) \in Seq(States) /\ DOMAIN Up(d, s) = 1 .. DepthOf(d, s)
           /\ DepthOf(d, s) \in Nat \ {0} /\ DepthOf(d, s) <= N /\ Up(d, s)[1] = s
<1>1. Up(d, s) \in Seq(States) /\ DepthOf(d, s) \in 1 .. N /\ Up(d, s)[1] = s /\ N \in Nat
  BY UpIsChain, StatesCounted DEF Chain, DepthOf
<1>2. DOMAIN Up(d, s) = 1 .. DepthOf(d, s)
  BY <1>1 DEF DepthOf
<1> QED  BY <1>1, <1>2

(* Above is what is on this way. *)
LEMMA AtIsAbove ==
    ASSUME NEW d, Compiled(d), NEW s \in States, NEW i \in 1 .. DepthOf(d, s)
    PROVE  Up(d, s)[i] \in Above(d, s)
BY UpTyped DEF Above, ToSet

(* And nothing else. *)
LEMMA AboveIsAt ==
    ASSUME NEW d, Compiled(d), NEW s \in States, NEW x \in Above(d, s)
    PROVE  \E i \in 1 .. DepthOf(d, s) : x = Up(d, s)[i]
BY UpTyped DEF Above, ToSet

(* A state is on its own way up. *)
LEMMA SelfIsAbove ==
    ASSUME NEW d, Compiled(d), NEW s \in States PROVE s \in Above(d, s)
<1>1. 1 \in 1 .. DepthOf(d, s) /\ Up(d, s)[1] = s
  BY UpTyped
<1> QED  BY <1>1, AtIsAbove

(* An ancestor is found at the place its depth says. *)
LEMMA AncestorAt ==
    ASSUME NEW d, Compiled(d), NEW s \in States, NEW x \in Above(d, s)
    PROVE  /\ x \in States /\ DepthOf(d, x) \in 1 .. DepthOf(d, s)
           /\ Up(d, s)[DepthOf(d, s) - DepthOf(d, x) + 1] = x
           /\ \A k \in 1 .. DepthOf(d, x) : Up(d, x)[k] = Up(d, s)[DepthOf(d, s) - DepthOf(d, x) + k]
           /\ DepthOf(d, x) = DepthOf(d, s) => x = s
<1>1. PICK i \in 1 .. DepthOf(d, s) : x = Up(d, s)[i]
  BY AboveIsAt
<1>2. DepthOf(d, s) \in Nat \ {0} /\ Up(d, s)[1] = s
  BY UpTyped
<1>3. x \in States /\ DepthOf(d, x) = DepthOf(d, s) - i + 1
      /\ \A k \in 1 .. DepthOf(d, s) - i + 1 : Up(d, x)[k] = Up(d, s)[i + k - 1]
  BY <1>1, UpOfUp
<1>4. i = DepthOf(d, s) - DepthOf(d, x) + 1 /\ DepthOf(d, x) \in 1 .. DepthOf(d, s)
  BY <1>1, <1>2, <1>3
<1>5. \A k \in 1 .. DepthOf(d, x) : i + k - 1 = DepthOf(d, s) - DepthOf(d, x) + k
  BY <1>2, <1>4
<1>6. DepthOf(d, x) = DepthOf(d, s) => i = 1
  BY <1>2, <1>4
<1> QED  BY <1>1, <1>2, <1>3, <1>4, <1>5, <1>6

(* An ancestor of an ancestor is an ancestor. *)
LEMMA AncestorOfAncestor ==
    ASSUME NEW d, Compiled(d), NEW s \in States, NEW x \in Above(d, s), NEW y \in Above(d, x)
    PROVE  y \in Above(d, s)
<1>1. x \in States /\ DepthOf(d, x) \in 1 .. DepthOf(d, s) /\ DepthOf(d, s) \in Nat
      /\ \A k \in 1 .. DepthOf(d, x) : Up(d, x)[k] = Up(d, s)[DepthOf(d, s) - DepthOf(d, x) + k]
  BY AncestorAt, UpTyped
<1>2. PICK k \in 1 .. DepthOf(d, x) : y = Up(d, x)[k]
  BY <1>1, AboveIsAt
<1>3. DepthOf(d, s) - DepthOf(d, x) + k \in 1 .. DepthOf(d, s)
  BY <1>1
<1> QED  BY <1>1, <1>2, <1>3, AtIsAbove

(* Of two ancestors the shallower is an ancestor of the deeper. *)
LEMMA AncestorsOrdered ==
    ASSUME NEW d, Compiled(d), NEW s \in States, NEW x \in Above(d, s), NEW y \in Above(d, s),
           DepthOf(d, y) <= DepthOf(d, x)
    PROVE  y \in Above(d, x)
<1>1. /\ x \in States /\ DepthOf(d, x) \in 1 .. DepthOf(d, s) /\ DepthOf(d, s) \in Nat
      /\ \A k \in 1 .. DepthOf(d, x) : Up(d, x)[k] = Up(d, s)[DepthOf(d, s) - DepthOf(d, x) + k]
  BY AncestorAt, UpTyped
<1>2. /\ DepthOf(d, y) \in 1 .. DepthOf(d, s)
      /\ Up(d, s)[DepthOf(d, s) - DepthOf(d, y) + 1] = y
  BY AncestorAt
<1> DEFINE k == DepthOf(d, x) - DepthOf(d, y) + 1
<1>3. k \in 1 .. DepthOf(d, x)
      /\ DepthOf(d, s) - DepthOf(d, x) + k = DepthOf(d, s) - DepthOf(d, y) + 1
  BY <1>1, <1>2
<1>4. Up(d, x)[k] = y
  BY <1>1, <1>2, <1>3
<1> HIDE DEF k
<1> QED  BY <1>1, <1>3, <1>4, AtIsAbove

(* The strict ancestors. *)
LEMMA StrictIsAbove ==
    ASSUME NEW d, Compiled(d), NEW s \in States, NEW x
    PROVE  IsStrictDescendant(d, s, x) <=> x \in Above(d, s) /\ x # s
<1>1. /\ Up(d, s) \in Seq(States) /\ Up(d, s) # <<>> /\ DepthOf(d, s) = Len(Up(d, s))
      /\ DepthOf(d, s) \in Nat \ {0} /\ Up(d, s)[1] = s
  BY UpTyped DEF DepthOf
<1>2. Tail(Up(d, s)) \in Seq(States) /\ Len(Tail(Up(d, s))) = Len(Up(d, s)) - 1
      /\ \A i \in 1 .. Len(Tail(Up(d, s))) : Tail(Up(d, s))[i] = Up(d, s)[i + 1]
  BY <1>1, HeadTailProperties
<1>3. DOMAIN Tail(Up(d, s)) = 1 .. DepthOf(d, s) - 1
  BY <1>1, <1>2
<1>4. ASSUME NEW i \in 2 .. DepthOf(d, s) PROVE Up(d, s)[i] # s
  <2>1. i \in 1 .. DepthOf(d, s) /\ i # 1
    BY <1>1
  <2>2. DepthOf(d, Up(d, s)[i]) = DepthOf(d, s) - i + 1
    BY <2>1, UpOfUp
  <2> QED  BY <1>1, <2>1, <2>2
<1>5. ASSUME x \in ToSet(Tail(Up(d, s))) PROVE x \in Above(d, s) /\ x # s
  <2>1. PICK i \in 1 .. DepthOf(d, s) - 1 : x = Tail(Up(d, s))[i]
    BY <1>3, <1>5 DEF ToSet
  <2>2. i + 1 \in 2 .. DepthOf(d, s) /\ i + 1 \in 1 .. DepthOf(d, s) /\ x = Up(d, s)[i + 1]
    BY <1>1, <1>2, <2>1
  <2> QED  BY <1>4, <2>2, AtIsAbove
<1>6. ASSUME x \in Above(d, s), x # s PROVE x \in ToSet(Tail(Up(d, s)))
  <2>1. PICK i \in 1 .. DepthOf(d, s) : x = Up(d, s)[i]
    BY <1>6, AboveIsAt
  <2>2. i # 1
    BY <1>1, <1>6, <2>1
  <2>3. i - 1 \in 1 .. DepthOf(d, s) - 1 /\ (i - 1) + 1 = i
    BY <1>1, <2>2
  <2>4. Tail(Up(d, s))[i - 1] = x
    BY <1>1, <1>2, <2>1, <2>3
  <2> QED  BY <1>3, <2>3, <2>4 DEF ToSet
<1> QED  BY <1>5, <1>6 DEF IsStrictDescendant

(* A strict ancestor is an ancestor of the parent. *)
LEMMA StrictIsAboveParent ==
    ASSUME NEW d, Compiled(d), NEW s \in States, NEW x \in Above(d, s), x # s
    PROVE  d.parent[s] \in States /\ x \in Above(d, d.parent[s])
<1>1. DepthOf(d, x) \in 1 .. DepthOf(d, s) - 1 /\ DepthOf(d, s) \in Nat
  BY AncestorAt, UpTyped
<1>2. d.parent[s] = Up(d, s)[2] /\ 2 \in 1 .. DepthOf(d, s)
  <2>1. 1 \in 1 .. Len(Up(d, s)) - 1 /\ Up(d, s)[1] = s
    BY <1>1, UpTyped DEF DepthOf
  <2> QED  BY <1>1, <2>1, UpIsChain DEF Chain
<1>3. Up(d, s)[2] \in States /\ DepthOf(d, Up(d, s)[2]) = DepthOf(d, s) - 2 + 1
      /\ Up(d, s)[2] \in Above(d, s)
  BY <1>2, UpOfUp, AtIsAbove
<1>4. DepthOf(d, x) <= DepthOf(d, Up(d, s)[2])
  BY <1>1, <1>3
<1> QED  BY <1>2, <1>3, <1>4, AncestorsOrdered

(* A parent is another state. *)
LEMMA ParentIsStrict ==
    ASSUME NEW d, Compiled(d), NEW s \in States, d.parent[s] # NoState
    PROVE  /\ d.parent[s] \in States /\ d.parent[s] \in Above(d, s) /\ d.parent[s] # s
<1>1. d.parent[s] \in States
  BY CompiledTyped DEF Arrows
<1>2. DepthOf(d, s) = DepthOf(d, d.parent[s]) + 1
      /\ \A k \in 1 .. DepthOf(d, d.parent[s]) : Up(d, s)[k + 1] = Up(d, d.parent[s])[k]
  BY <1>1, UpOfChild
<1>3. Up(d, d.parent[s])[1] = d.parent[s] /\ DepthOf(d, d.parent[s]) \in Nat \ {0}
      /\ 1 \in 1 .. DepthOf(d, d.parent[s])
  BY <1>1, UpTyped
<1>4. 2 \in 1 .. DepthOf(d, s) /\ Up(d, s)[2] = d.parent[s]
  BY <1>2, <1>3
<1>5. d.parent[s] # s
  BY <1>2, <1>3
<1> QED  BY <1>1, <1>4, <1>5, AtIsAbove

(* strict_common_ancestor: above both ends, and the innermost such state. *)
LEMMA CommonAncestor ==
    ASSUME NEW d, Compiled(d), NEW a \in States, NEW b \in States,
           NEW x, x = StrictCommonAncestor(d, a, b)
    PROVE  /\ x # NoState => x \in Above(d, a) \ {a} /\ x \in Above(d, b) \ {b}
           /\ \A y \in (Above(d, a) \ {a}) \cap (Above(d, b) \ {b}) :
                 x # NoState /\ y \in Above(d, x)
<1> DEFINE lca == StrictCommonAncestor_Lca(d, a, b)
           common == {i \in DOMAIN Up(d, b) : Up(d, b)[i] \in ToSet(Up(d, a))}
<1>0. a \in Above(d, a) /\ b \in Above(d, b) /\ a # NoState /\ b # NoState
  BY SelfIsAbove, SomeStates
<1>1. lca = IF common = {} THEN NoState ELSE Up(d, b)[Min(common)]
  BY DEF StrictCommonAncestor_Lca
<1>2. x = IF lca \in {a, b} THEN d.parent[lca] ELSE lca
  BY DEF StrictCommonAncestor
<1>3. \A y : y \in Above(d, a) \cap Above(d, b) => common # {}
  <2> TAKE y
  <2> HAVE y \in Above(d, a) \cap Above(d, b)
  <2>1. PICK i \in 1 .. DepthOf(d, b) : y = Up(d, b)[i]
    BY AboveIsAt
  <2> QED  BY <2>1, UpTyped DEF Above
<1> HIDE DEF lca
<1>4. CASE common = {}
  <2>1. lca = NoState /\ x = NoState
    BY <1>0, <1>1, <1>2, <1>4
  <2> QED  BY <1>3, <1>4, <2>1
<1>5. CASE common # {}
  <2> DEFINE m == Min(common)
  <2>1. common \in SUBSET Nat /\ common \subseteq 1 .. DepthOf(d, b)
    <3>1. DOMAIN Up(d, b) = 1 .. DepthOf(d, b) /\ DepthOf(d, b) \in Nat
      BY UpTyped
    <3> QED  BY <3>1
  <2>2. m \in common /\ \A i \in common : m <= i
    <3> HIDE DEF common
    <3> QED  BY <1>5, <2>1, MinIsLeast
  <2>3. lca = Up(d, b)[m] /\ m \in 1 .. DepthOf(d, b) /\ lca \in Above(d, a) /\ lca \in Above(d, b)
        /\ lca \in States /\ DepthOf(d, lca) = DepthOf(d, b) - m + 1
    <3>1. lca = Up(d, b)[m] /\ m \in 1 .. DepthOf(d, b) /\ lca \in Above(d, a)
      BY <1>1, <1>5, <2>1, <2>2 DEF Above
    <3> HIDE DEF m, common
    <3>2. lca \in Above(d, b)
      BY <3>1, AtIsAbove
    <3>3. lca \in States /\ DepthOf(d, lca) = DepthOf(d, b) - m + 1
      BY <3>1, UpOfUp
    <3> QED  BY <3>1, <3>2, <3>3
  <2>4. ASSUME NEW y \in Above(d, a), y \in Above(d, b) PROVE y \in Above(d, lca)
    <3>1. PICK j \in 1 .. DepthOf(d, b) : y = Up(d, b)[j]
      BY <2>4, AboveIsAt
    <3>2. m <= j
      BY <2>2, <2>4, <3>1, UpTyped DEF Above
    <3>3. DepthOf(d, y) = DepthOf(d, b) - j + 1 /\ DepthOf(d, b) \in Nat
      <4> HIDE DEF m, common
      <4> QED  BY <3>1, UpOfUp, UpTyped
    <3> HIDE DEF m, common
    <3>4. DepthOf(d, y) <= DepthOf(d, lca)
      BY <2>3, <3>1, <3>2, <3>3
    <3> QED  BY <2>3, <2>4, <3>4, AncestorsOrdered
  <2> HIDE DEF m, common
  <2>5. ASSUME NEW p \in States, NEW q \in States, lca = p, {p, q} = {a, b}
        PROVE  /\ x # NoState => x \in Above(d, p) \ {p} /\ x \in Above(d, q) \ {q}
               /\ \A y \in (Above(d, p) \ {p}) \cap (Above(d, q) \ {q}) :
                     x # NoState /\ y \in Above(d, x)
    <3>1. x = d.parent[p] /\ p \in Above(d, q)
      BY <1>2, <2>3, <2>5, UpTyped
    <3>2. ASSUME x # NoState PROVE x \in Above(d, p) \ {p} /\ x \in Above(d, q) \ {q}
      <4>1. x \in States /\ x \in Above(d, p) /\ x # p
        BY <3>1, <3>2, ParentIsStrict
      <4>2. x \in Above(d, q)
        BY <3>1, <4>1, AncestorOfAncestor
      <4>3. DepthOf(d, x) \in 1 .. DepthOf(d, p) /\ DepthOf(d, x) # DepthOf(d, p)
        BY <4>1, AncestorAt
      <4>4. DepthOf(d, p) \in 1 .. DepthOf(d, q)
        BY <3>1, AncestorAt
      <4>5. DepthOf(d, p) \in Nat /\ DepthOf(d, q) \in Nat
        BY UpTyped
      <4>6. x # q
        BY <4>3, <4>4, <4>5
      <4> QED  BY <4>1, <4>2, <4>6
    <3>3. ASSUME NEW y \in Above(d, p), y # p PROVE x # NoState /\ y \in Above(d, x)
      BY <3>1, <3>3, StrictIsAboveParent, SomeStates
    <3> QED  BY <3>2, <3>3
  <2>6. CASE lca = a
    BY <2>5, <2>6
  <2>7. CASE lca = b
    BY <2>5, <2>7
  <2>8. CASE lca \notin {a, b}
    BY <1>2, <2>3, <2>4, <2>8, SomeStates
  <2> QED  BY <2>6, <2>7, <2>8
<1> QED  BY <1>4, <1>5

-----------------------------------------------------------------------------
(* Depths and paths *)

(* The first children below a state, down to a leaf. *)
LEMMA DownTyped ==
    ASSUME NEW d, Compiled(d), NEW s \in States
    PROVE  /\ d.down[s] \in Seq(States) /\ Len(d.down[s]) \in Nat \ {0} /\ d.down[s][1] = s
           /\ \A i \in 1 .. Len(d.down[s]) - 1 : /\ d.initial[d.down[s][i]] = d.down[s][i + 1]
                                                /\ d.parent[d.down[s][i + 1]] = d.down[s][i]
           /\ d.initial[d.down[s][Len(d.down[s])]] = NoState
<1> DEFINE w == d.down[s]
           x == d.initial[w[Len(w)]]
<1>1. d.initial \in [States -> States \cup {NoState}] /\ w = Walk(d.initial, s)
  BY CompiledTyped DEF Arrows
<1>2. /\ w \in Seq(States) /\ Len(w) \in 1 .. N /\ w[1] = s /\ N \in Nat
      /\ \A i \in 1 .. Len(w) - 1 : d.initial[w[i]] = w[i + 1]
      /\ x = NoState \/ Len(w) = N
  <2> DEFINE next == d.initial
             q == Walk(next, s)
  <2>1. next \in [States -> States \cup {NoState}]
    BY <1>1 DEF Arrows
  <2>2. /\ q \in Seq(States) /\ Len(q) \in 1 .. N /\ q[1] = s
        /\ \A i \in 1 .. Len(q) - 1 : next[q[i]] = q[i + 1]
        /\ next[q[Len(q)]] = NoState \/ Len(q) = N
    <3> HIDE DEF next
    <3> QED  BY <2>1, WalkFollows
  <2> QED  BY <1>1, <2>2, StatesCounted
<1> HIDE DEF w
<1>3. \A i \in 1 .. Len(w) : w[i] \in States
  BY <1>2
<1>4. ASSUME NEW y \in States, d.initial[y] \in States PROVE d.parent[d.initial[y]] = y
  BY <1>4, SomeStates DEF Compiled, Compiles, InitialsFit
<1>5. ASSUME NEW i \in 1 .. Len(w) - 1 PROVE d.parent[w[i + 1]] = w[i]
  <2>1. i \in 1 .. Len(w) /\ i + 1 \in 1 .. Len(w)
    BY <1>2
  <2> QED  BY <2>1, <1>2, <1>3, <1>4
<1>6. x = NoState
  <2> SUFFICES ASSUME x # NoState PROVE FALSE
    OBVIOUS
  <2>1. x \in States /\ d.parent[x] = w[N] /\ w[N] \in States /\ N \in 1 .. Len(w) /\ Len(w) = N
    BY <1>1, <1>2, <1>3, <1>4
  <2> DEFINE P == {n \in 0 .. N : n = 0 \/ DepthOf(d, w[n]) >= n}
  <2>2. 0 \in P
    BY <1>2
  <2>3. ASSUME NEW n \in 0 .. N - 1, n \in P PROVE n + 1 \in P
    <3>1. n + 1 \in 1 .. N /\ w[n + 1] \in States /\ DepthOf(d, w[n + 1]) \in Nat \ {0}
      BY <2>1, <1>2, <1>3, UpTyped
    <3>2. CASE n = 0
      BY <3>1, <3>2
    <3>3. CASE n # 0
      <4>1. n \in 1 .. Len(w) - 1 /\ w[n] \in States
        BY <2>1, <3>1, <3>3, <1>3
      <4>2. d.parent[w[n + 1]] = w[n]
        BY <1>5, <4>1
      <4>3. DepthOf(d, w[n + 1]) = DepthOf(d, w[n]) + 1
        BY <3>1, <4>1, <4>2, UpOfChild
      <4>4. DepthOf(d, w[n]) \in Nat /\ DepthOf(d, w[n]) >= n
        BY <2>3, <3>3, <4>1, UpTyped
      <4> QED  BY <3>1, <4>3, <4>4
    <3> QED  BY <3>2, <3>3
  <2> HIDE DEF P
  <2>4. 0 .. N \subseteq P
    BY <1>2, <2>2, <2>3, Upwards
  <2>5. DepthOf(d, w[N]) >= N
    BY <1>2, <2>1, <2>4 DEF P
  <2> HIDE DEF x
  <2>6. DepthOf(d, x) = DepthOf(d, w[N]) + 1
    BY <2>1, UpOfChild
  <2>7. DepthOf(d, x) <= N /\ DepthOf(d, x) \in Nat /\ DepthOf(d, w[N]) \in Nat
    BY <2>1, UpTyped
  <2> QED  BY <1>2, <2>5, <2>6, <2>7
<1> QED  BY <1>2, <1>5, <1>6 DEF w, x

(* The path through x to the leaf below it. *)
Route(d, x) ==
    [k \in 1 .. DepthOf(d, x) + Len(d.down[x]) - 1 |->
        IF k <= DepthOf(d, x) THEN Up(d, x)[DepthOf(d, x) - k + 1]
        ELSE d.down[x][k - DepthOf(d, x) + 1]]

(* States that form a path from a top-level state inwards. *)
Nested(d, q) ==
    /\ q \in Seq(States)
    /\ \A i \in 1 .. Len(q) : d.parent[q[i]] = IF i = 1 THEN NoState ELSE q[i - 1]

(* A state of a path lies at its depth, below the states before it. *)
LEMMA NestedDepth ==
    ASSUME NEW d, Compiled(d), NEW q, Nested(d, q), NEW i \in 1 .. Len(q)
    PROVE  /\ q[i] \in States /\ DepthOf(d, q[i]) = i
           /\ \A k \in 1 .. i : Up(d, q[i])[k] = q[i - k + 1]
<1> DEFINE u == [k \in 1 .. i |-> q[i - k + 1]]
<1>1. q \in Seq(States) /\ Len(q) \in Nat /\ i \in Nat \ {0} /\ q[i] \in States
  BY DEF Nested
<1>2. u \in Seq(States) /\ Len(u) = i /\ \A k \in 1 .. i : u[k] = q[i - k + 1]
  <2>1. \A k \in 1 .. i : i - k + 1 \in 1 .. Len(q)
    BY <1>1
  <2>2. u \in [1 .. i -> States]
    BY <1>1, <2>1
  <2>3. \A k \in 1 .. i : u[k] = q[i - k + 1]
    OBVIOUS
  <2> HIDE DEF u
  <2> QED  BY <1>1, <2>2, <2>3, FunctionIsSeq
<1> HIDE DEF u
<1>3. ASSUME NEW k \in 1 .. Len(u) - 1 PROVE d.parent[u[k]] = u[k + 1]
  <2>1. i - k + 1 \in 1 .. Len(q) /\ i - k + 1 # 1 /\ k \in 1 .. i /\ k + 1 \in 1 .. i
        /\ (i - k + 1) - 1 = i - (k + 1) + 1
    BY <1>1, <1>2
  <2>2. d.parent[q[i - k + 1]] = q[(i - k + 1) - 1]
    BY <2>1 DEF Nested
  <2> QED  BY <1>2, <2>1, <2>2
<1>4. d.parent[u[Len(u)]] = NoState
  <2>1. u[Len(u)] = q[1] /\ 1 \in 1 .. Len(q)
    BY <1>1, <1>2
  <2> QED  BY <2>1 DEF Nested
<1>5. Chain(d.parent, u) /\ u[1] = q[i]
  <2>1. u # <<>> /\ u[1] = q[i - 1 + 1] /\ i - 1 + 1 = i
    BY <1>1, <1>2
  <2> QED  BY <1>2, <1>3, <1>4, <2>1 DEF Chain
<1>6. Up(d, q[i]) = u
  BY <1>1, <1>5, UpIsChain, ChainsAgree
<1> QED  BY <1>1, <1>2, <1>6 DEF DepthOf

(* No path is deeper than the deepest. *)
LEMMA DepthBounded ==
    ASSUME NEW d, Compiled(d), NEW s \in States
    PROVE  DepthOf(d, s) <= DeepestPath(d)
<1> DEFINE S == {DepthOf(d, x) : x \in States}
<1>1. S \in SUBSET Nat /\ S # {} /\ N \in Nat /\ \A x \in S : x <= N
  <2>1. \A x \in States : DepthOf(d, x) \in Nat /\ DepthOf(d, x) <= N
    BY UpTyped
  <2> QED  BY <2>1, StatesCounted
<1>2. \A x \in S : x <= Max(S)
  <2> HIDE DEF S
  <2> QED  BY <1>1, MaxIsGreatest
<1>3. DepthOf(d, s) \in S
  OBVIOUS
<1>4. DepthOf(d, s) <= Max(S)
  <2> HIDE DEF S
  <2> QED  BY <1>2, <1>3
<1> QED  BY <1>4 DEF DeepestPath

(* The path of a state, and of its initial states below it, is nested, reaches a*)
(* leaf, and is no longer than compile has measured.                         *)
LEMMA RouteIsNested ==
    ASSUME NEW d, Compiled(d), NEW x \in States
    PROVE  /\ Nested(d, Route(d, x))
           /\ Len(Route(d, x)) = DepthOf(d, x) + Len(d.down[x]) - 1
           /\ Len(Route(d, x)) >= DepthOf(d, x)
           /\ Route(d, x)[DepthOf(d, x)] = x
           /\ \A k \in DepthOf(d, x) .. Len(Route(d, x)) - 1 :
                 Route(d, x)[k + 1] = d.initial[Route(d, x)[k]]
           /\ IsLeaf(d, Route(d, x)[Len(Route(d, x))])
           /\ Len(Route(d, x)) <= DeepestPath(d)
<1> DEFINE m == DepthOf(d, x)
           w == d.down[x]
           l == m + Len(w) - 1
           r == Route(d, x)
<1>1. /\ w \in Seq(States) /\ Len(w) \in Nat \ {0} /\ w[1] = x
      /\ \A i \in 1 .. Len(w) - 1 : d.initial[w[i]] = w[i + 1] /\ d.parent[w[i + 1]] = w[i]
      /\ d.initial[w[Len(w)]] = NoState
  BY DownTyped
<1>2. /\ Up(d, x) \in Seq(States) /\ Len(Up(d, x)) = m /\ m \in Nat \ {0} /\ Up(d, x)[1] = x
      /\ \A i \in 1 .. m - 1 : d.parent[Up(d, x)[i]] = Up(d, x)[i + 1]
      /\ d.parent[Up(d, x)[m]] = NoState
  BY UpTyped, UpIsChain DEF DepthOf, Chain
<1> HIDE DEF m, w
<1>3. l \in Nat /\ l >= m
  BY <1>1, <1>2
<1>4. ASSUME NEW k \in 1 .. m PROVE k \in 1 .. l /\ m - k + 1 \in 1 .. m /\ r[k] = Up(d, x)[m - k + 1]
  BY <1>2, <1>3 DEF Route, m, w
<1>5. ASSUME NEW k \in m .. l PROVE k \in 1 .. l /\ k - m + 1 \in 1 .. Len(w) /\ r[k] = w[k - m + 1]
  <2>1. k \in 1 .. l /\ k - m + 1 \in 1 .. Len(w)
    BY <1>1, <1>2
  <2>2. CASE k = m
    <3>1. r[k] = x /\ k - m + 1 = 1
      BY <1>2, <1>4, <2>2
    <3> QED  BY <1>1, <2>1, <3>1
  <2>3. CASE k # m
    <3>1. ~(k <= m)
      BY <1>2, <2>3
    <3> QED  BY <2>1, <3>1 DEF Route, m, w
  <2> QED  BY <2>2, <2>3
<1>6. r \in Seq(States) /\ Len(r) = l
  <2>1. ASSUME NEW k \in 1 .. l PROVE r[k] \in States
    <3>1. ASSUME k <= m PROVE r[k] \in States
      <4>1. k \in 1 .. m
        BY <3>1
      <4> QED  BY <1>2, <1>4, <4>1
    <3>2. ASSUME k > m PROVE r[k] \in States
      <4>1. k \in m .. l
        BY <1>2, <3>2
      <4> QED  BY <1>1, <1>5, <4>1
    <3> QED  BY <1>2, <3>1, <3>2
  <2>2. r \in [1 .. l -> States]
    BY <2>1 DEF Route, m, w
  <2> QED  BY <1>3, <2>2, FunctionIsSeq
<1> HIDE DEF r
<1>7. ASSUME NEW k \in 1 .. l PROVE d.parent[r[k]] = IF k = 1 THEN NoState ELSE r[k - 1]
  <2>1. CASE k <= m /\ k = 1
    <3>1. 1 \in 1 .. m /\ m - 1 + 1 = m
      BY <1>2
    <3>2. r[1] = Up(d, x)[m]
      BY <1>4, <3>1
    <3> QED  BY <1>2, <2>1, <3>2
  <2>2. CASE k <= m /\ k # 1
    <3>1. k \in 1 .. m /\ k - 1 \in 1 .. m /\ m - k + 1 \in 1 .. m - 1
          /\ m - (k - 1) + 1 = (m - k + 1) + 1
      BY <1>2, <2>2
    <3>2. r[k] = Up(d, x)[m - k + 1] /\ r[k - 1] = Up(d, x)[(m - k + 1) + 1]
      BY <1>4, <3>1
    <3> QED  BY <1>2, <2>2, <3>1, <3>2
  <2>3. CASE k > m
    <3>1. k \in m .. l /\ k - 1 \in m .. l /\ k # 1 /\ (k - 1) - m + 1 \in 1 .. Len(w) - 1
          /\ k - m + 1 = ((k - 1) - m + 1) + 1
      BY <1>1, <1>2, <2>3
    <3>2. r[k] = w[((k - 1) - m + 1) + 1] /\ r[k - 1] = w[(k - 1) - m + 1]
      BY <1>5, <3>1
    <3> QED  BY <1>1, <3>1, <3>2
  <2> QED  BY <1>2, <2>1, <2>2, <2>3
<1>8. Nested(d, r)
  BY <1>6, <1>7 DEF Nested
<1>9. r[m] = x
  <2>1. m \in m .. l /\ m - m + 1 = 1
    BY <1>2, <1>3
  <2> QED  BY <1>1, <1>5, <2>1
<1>10. ASSUME NEW k \in m .. l - 1 PROVE r[k + 1] = d.initial[r[k]]
  <2>1. k \in m .. l /\ k + 1 \in m .. l /\ k - m + 1 \in 1 .. Len(w) - 1
        /\ (k + 1) - m + 1 = (k - m + 1) + 1
    BY <1>1, <1>2
  <2> QED  BY <1>1, <1>5, <2>1
<1>11. d.initial[r[l]] = NoState
  <2>1. l \in m .. l /\ l - m + 1 = Len(w)
    BY <1>1, <1>2
  <2> QED  BY <1>1, <1>5, <2>1
<1>12. l <= DeepestPath(d)
  <2>1. l \in 1 .. Len(r)
    BY <1>2, <1>3, <1>6
  <2>2. r[l] \in States /\ DepthOf(d, r[l]) = l
    BY <1>8, <2>1, NestedDepth
  <2> QED  BY <2>2, DepthBounded
<1> QED  BY <1>3, <1>6, <1>8, <1>9, <1>10, <1>11, <1>12 DEF r, m, w, IsLeaf

-----------------------------------------------------------------------------
(* Sequences of states and candidates *)

(* What Reverse does, index by index. *)
LEMMA ReverseIs ==
    ASSUME NEW S, NEW q \in Seq(S)
    PROVE  /\ Reverse(q) \in Seq(S) /\ Len(Reverse(q)) = Len(q)
           /\ \A i \in 1 .. Len(q) : Reverse(q)[i] = q[Len(q) - i + 1]
<1> DEFINE r == [i \in 1 .. Len(q) |-> q[(Len(q) - i) + 1]]
<1>1. Len(q) \in Nat /\ \A i \in 1 .. Len(q) : (Len(q) - i) + 1 \in 1 .. Len(q) /\ Len(q) - i + 1 = (Len(q) - i) + 1
  OBVIOUS
<1>2. \A i \in 1 .. Len(q) : r[i] = q[Len(q) - i + 1] /\ r[i] \in S
  BY <1>1, ElementOfSeq
<1>3. r \in [1 .. Len(q) -> S]
  BY <1>2
<1>4. Reverse(q) = r
  BY DEF Reverse
<1> HIDE DEF r
<1>5. r \in Seq(S) /\ Len(r) = Len(q)
  BY <1>1, <1>3, FunctionIsSeq
<1> QED  BY <1>2, <1>4, <1>5

(* The depth of a state, none for the synthetic root. *)
Level(d, x) == IF x = NoState THEN 0 ELSE DepthOf(d, x)

(* UpTo is the part of Up below domain. *)
LEMMA UpToIs ==
    ASSUME NEW d, Compiled(d), NEW s \in States, NEW domain,
           domain # NoState => domain \in Above(d, s)
    PROVE  /\ Level(d, domain) \in 0 .. DepthOf(d, s)
           /\ UpTo(d, s, domain) \in Seq(States)
           /\ Len(UpTo(d, s, domain)) = DepthOf(d, s) - Level(d, domain)
           /\ \A i \in 1 .. DepthOf(d, s) - Level(d, domain) : UpTo(d, s, domain)[i] = Up(d, s)[i]
<1> DEFINE up == Up(d, s)
           at == {i \in DOMAIN up : up[i] = domain}
           m == DepthOf(d, s)
           k == m - DepthOf(d, domain) + 1
           u == UpTo(d, s, domain)
<1>1. up \in Seq(States) /\ DOMAIN up = 1 .. m /\ m \in Nat \ {0} /\ m = Len(up)
  BY UpTyped DEF DepthOf
<1>2. u = IF at = {} THEN up ELSE SubSeq(up, 1, Min(at) - 1)
  BY DEF UpTo
<1>3. CASE domain = NoState
  <2>1. at = {}
    BY <1>1, <1>3, SomeStates
  <2>2. u = up /\ Level(d, domain) = 0
    BY <1>2, <1>3, <2>1 DEF Level
  <2> QED  BY <1>1, <2>2
<1>4. CASE domain # NoState
  <2>1. DepthOf(d, domain) \in 1 .. m /\ up[k] = domain /\ Level(d, domain) = DepthOf(d, domain)
    BY <1>4, AncestorAt DEF Level
  <2>2. k \in 1 .. m
    BY <1>1, <2>1
  <2>3. ASSUME NEW i \in 1 .. m, up[i] = domain PROVE i = k
    <3>1. DepthOf(d, up[i]) = m - i + 1
      BY UpOfUp
    <3> HIDE DEF up
    <3> QED  BY <1>1, <2>1, <2>3, <3>1
  <2>4. at = {k}
    BY <1>1, <2>1, <2>2, <2>3
  <2>5. Min(at) = k
    <3>1. {k} \in SUBSET Nat
      BY <2>2
    <3> QED  BY <2>4, <3>1, MinIsLeast
  <2>6. u = SubSeq(up, 1, k - 1)
    BY <1>2, <2>4, <2>5
  <2>7. k - 1 = m - DepthOf(d, domain) /\ k - 1 \in Nat
    BY <1>1, <2>1
  <2>8. \A i \in 1 .. k - 1 : i \in 1 .. Len(up) /\ up[i] \in States
    BY <1>1, <2>2
  <2> HIDE DEF up, k
  <2>9. u \in Seq(States) /\ Len(u) = k - 1 /\ \A i \in 1 .. k - 1 : u[i] = up[i]
    <3>1. /\ SubSeq(up, 1, k - 1) \in Seq(States)
          /\ Len(SubSeq(up, 1, k - 1)) = IF 1 <= k - 1 THEN (k - 1) - 1 + 1 ELSE 0
          /\ \A i \in 1 .. (k - 1) - 1 + 1 : SubSeq(up, 1, k - 1)[i] = up[1 + i - 1]
      BY <2>7, <2>8, SubSeqProperties
    <3>2. (k - 1) - 1 + 1 = k - 1 /\ \A i \in 1 .. k - 1 : 1 + i - 1 = i
      BY <2>7
    <3> QED  BY <2>6, <2>7, <3>1, <3>2
  <2> QED  BY <1>1, <2>1, <2>7, <2>9 DEF up
<1> QED  BY <1>3, <1>4

(* The initial states below s, in their order. *)
LEMMA InitialChainIs ==
    ASSUME NEW d, Compiled(d), NEW s \in States
    PROVE  /\ InitialChain(d, s) \in Seq(States)
           /\ Len(d.down[s]) \in Nat \ {0} /\ Len(InitialChain(d, s)) = Len(d.down[s]) - 1
           /\ \A i \in 1 .. Len(d.down[s]) - 1 : InitialChain(d, s)[i] = d.down[s][i + 1]
<1> DEFINE w == d.down[s]
<1>1. w \in Seq(States) /\ Len(w) \in Nat \ {0}
  BY DownTyped
<1>2. InitialChain(d, s) = Tail(w)
  BY DEF InitialChain
<1> HIDE DEF w
<1>3. w # <<>>
  BY <1>1
<1>4. Tail(w) \in Seq(States) /\ Len(Tail(w)) = Len(w) - 1
      /\ \A i \in 1 .. Len(Tail(w)) : Tail(w)[i] = w[i + 1]
  BY <1>1, <1>3, HeadTailProperties
<1> QED  BY <1>1, <1>2, <1>4 DEF w

(* What is entered for a target, below a boundary above it. *)
Entered(d, target, boundary) == Reverse(UpTo(d, target, boundary)) \o InitialChain(d, target)

(* is the rest of the path through the target. *)
LEMMA EnteredIsRest ==
    ASSUME NEW d, Compiled(d), NEW target \in States, NEW boundary,
           boundary # NoState => boundary \in Above(d, target)
    PROVE  /\ Entered(d, target, boundary) \in Seq(States)
           /\ Len(Entered(d, target, boundary)) = Len(Route(d, target)) - Level(d, boundary)
           /\ \A i \in 1 .. Len(Entered(d, target, boundary)) :
                 Entered(d, target, boundary)[i] = Route(d, target)[Level(d, boundary) + i]
<1> DEFINE u == UpTo(d, target, boundary)
           v == Reverse(u)
           c == InitialChain(d, target)
           w == d.down[target]
           up == Up(d, target)
           b == Level(d, boundary)
           m == DepthOf(d, target)
           r == Route(d, target)
<1>1. /\ b \in 0 .. m /\ u \in Seq(States) /\ Len(u) = m - b
      /\ \A i \in 1 .. m - b : u[i] = up[i]
      /\ m \in Nat
  <2>1. m \in Nat
    BY UpTyped
  <2>2. /\ b \in 0 .. m /\ u \in Seq(States) /\ Len(u) = m - b
        /\ \A i \in 1 .. m - b : u[i] = up[i]
    BY ONLY Compiled(d), target \in States, boundary # NoState => boundary \in Above(d, target), UpToIs
  <2> QED  BY <2>1, <2>2
<1>2. /\ c \in Seq(States) /\ Len(w) \in Nat \ {0} /\ Len(c) = Len(w) - 1
      /\ \A i \in 1 .. Len(w) - 1 : c[i] = w[i + 1]
  BY InitialChainIs
<1>3. Len(r) = m + Len(w) - 1
  BY RouteIsNested
<1>4. \A k \in 1 .. m + Len(w) - 1 : r[k] = IF k <= m THEN up[m - k + 1] ELSE w[k - m + 1]
  BY DEF Route
<1>5. v \in Seq(States) /\ Len(v) = m - b /\ \A i \in 1 .. m - b : v[i] = u[(m - b) - i + 1]
  <2> HIDE DEF u
  <2> QED  BY <1>1, ReverseIs
<1> HIDE DEF u, v, c, w, up, m, r, b
<1>6. /\ v \o c \in Seq(States) /\ Len(v \o c) = Len(v) + Len(c)
      /\ \A i \in 1 .. Len(v) + Len(c) : (v \o c)[i] = IF i <= Len(v) THEN v[i] ELSE c[i - Len(v)]
  BY <1>2, <1>5, ConcatProperties
<1>7. Len(v) + Len(c) = Len(r) - b
  BY <1>1, <1>2, <1>3, <1>5
<1>8. ASSUME NEW i \in 1 .. Len(r) - b PROVE (v \o c)[i] = r[b + i]
  <2>1. b + i \in 1 .. m + Len(w) - 1
    BY <1>1, <1>2, <1>3
  <2>2. CASE i <= m - b
    <3>1. i \in 1 .. m - b /\ (m - b) - i + 1 \in 1 .. m - b /\ b + i <= m
          /\ (m - b) - i + 1 = m - (b + i) + 1
      BY <1>1, <2>2
    <3>2. (v \o c)[i] = v[i]
      BY <1>5, <1>6, <1>7, <2>2
    <3>3. v[i] = up[m - (b + i) + 1]
      BY <1>1, <1>5, <3>1
    <3>4. r[b + i] = up[m - (b + i) + 1]
      BY <1>4, <2>1, <3>1
    <3> QED  BY <3>2, <3>3, <3>4
  <2>3. CASE ~(i <= m - b)
    <3>1. i - (m - b) \in 1 .. Len(w) - 1 /\ ~(b + i <= m) /\ (i - (m - b)) + 1 = (b + i) - m + 1
      BY <1>1, <1>2, <1>3, <2>3
    <3>2. (v \o c)[i] = c[i - (m - b)]
      BY <1>5, <1>6, <1>7, <2>3
    <3>3. c[i - (m - b)] = w[(b + i) - m + 1]
      BY <1>2, <3>1
    <3>4. r[b + i] = w[(b + i) - m + 1]
      BY <1>4, <2>1, <3>1
    <3> QED  BY <3>2, <3>3, <3>4
  <2> QED  BY <2>2, <2>3
<1> QED  BY <1>6, <1>7, <1>8 DEF Entered, u, v, c, r, b

(* A path that leads through an ancestor of the target agrees with the path  *)
(* through the target as far as that ancestor.                               *)
LEMMA RoutesAgree ==
    ASSUME NEW d, Compiled(d), NEW q, Nested(d, q), NEW k \in 1 .. Len(q),
           NEW target \in States, q[k] \in Above(d, target) \ {target}
    PROVE  /\ k < DepthOf(d, target) /\ k < Len(Route(d, target))
           /\ \A i \in 1 .. k : q[i] = Route(d, target)[i]
<1> DEFINE m == DepthOf(d, target)
           r == Route(d, target)
<1>1. /\ q[k] \in States /\ DepthOf(d, q[k]) = k
      /\ \A i \in 1 .. k : Up(d, q[k])[i] = q[k - i + 1]
      /\ k \in Nat
  BY NestedDepth DEF Nested
<1>2. k \in 1 .. m /\ k # m /\ m \in Nat
      /\ \A i \in 1 .. k : Up(d, q[k])[i] = Up(d, target)[m - k + i]
  <2> DEFINE x == q[k]
  <2>1. x \in Above(d, target) /\ x # target /\ DepthOf(d, x) = k
    BY <1>1
  <2>2. m \in Nat
    BY UpTyped
  <2> HIDE DEF x
  <2>3. /\ DepthOf(d, x) \in 1 .. m /\ (DepthOf(d, x) = m => x = target)
        /\ \A i \in 1 .. DepthOf(d, x) : Up(d, x)[i] = Up(d, target)[m - DepthOf(d, x) + i]
    BY <2>1, AncestorAt
  <2> QED  BY <2>1, <2>2, <2>3 DEF x
<1>3. Len(r) = m + Len(d.down[target]) - 1 /\ Len(d.down[target]) \in Nat \ {0}
  BY RouteIsNested, InitialChainIs
<1>4. ASSUME NEW i \in 1 .. k PROVE q[i] = r[i]
  <2>1. k - i + 1 \in 1 .. k /\ k - (k - i + 1) + 1 = i /\ m - k + (k - i + 1) = m - i + 1
        /\ i \in 1 .. Len(r) /\ i <= m
    <3>1. ASSUME NEW l \in Nat \ {0}, Len(r) = m + l - 1 PROVE i \in 1 .. Len(r) /\ i <= m
      <4> HIDE DEF r, m
      <4>1. k <= m /\ i \in Nat \ {0} /\ i <= k /\ m \in Nat /\ k \in Nat
        BY <1>1, <1>2
      <4> QED  BY <3>1, <4>1
    <3>2. i \in 1 .. Len(r) /\ i <= m
      BY <1>3, <3>1
    <3> HIDE DEF r, m
    <3> QED  BY <1>1, <1>2, <3>2
  <2>2. q[i] = Up(d, target)[m - i + 1]
    BY <1>1, <1>2, <2>1
  <2>3. r[i] = Up(d, target)[m - i + 1]
    BY <1>3, <2>1 DEF Route
  <2> QED  BY <2>2, <2>3
<1> HIDE DEF r, m
<1>5. k < m /\ k < Len(r)
  BY <1>1, <1>2, <1>3
<1> QED  BY <1>4, <1>5 DEF r, m

-----------------------------------------------------------------------------
(* The transitions of a state. *)
Own(d, s) == {t \in ToSet(d.transitions) : t.source = s}

AmongFrom(d, s, g) ==
    [n \in 0 .. Len(d.transitions) |->
        IF n = 0 THEN <<>>
        ELSE IF d.transitions[n].source = s THEN Append(g[n - 1], d.transitions[n])
        ELSE g[n - 1]]

(* The candidates of a state are transitions out of it. *)
LEMMA CandidatesAreOwn ==
    ASSUME NEW d, Compiled(d), NEW s
    PROVE  Candidates(d, s) \in Seq(Own(d, s))
<1> DEFINE ts == d.transitions
           X == Seq(Own(d, s))
           M == Len(ts)
           F == [n \in 1 .. M |-> [q \in X |-> IF ts[n].source = s THEN Append(q, ts[n]) ELSE q]]
           among == CHOOSE g : g = AmongFrom(d, s, g)
<1>1. Candidates(d, s) = among[M]
  BY Zenon DEF Candidates, AmongFrom
<1>2. ts \in Seq(Transitions) /\ M \in Nat /\ <<>> \in X /\ DOMAIN ts = 1 .. M
  BY CompiledTyped, EmptySeq, LenProperties
<1>3. F \in [1 .. M -> [X -> X]]
  <2>1. ASSUME NEW n \in 1 .. M, NEW q \in X, ts[n].source = s PROVE Append(q, ts[n]) \in X
    <3>1. ts[n] \in Own(d, s)
      BY <1>2, <2>1 DEF Own, ToSet
    <3> QED  BY <3>1
  <2> HIDE DEF X
  <2> QED  BY <2>1
<1>4. \E g \in [0 .. M -> X] : Runs(F, M, <<>>, g)
  <2> HIDE DEF X, F, M
  <2> QED  BY <1>2, <1>3, Recursion
<1>5. \E g : g = AmongFrom(d, s, g)
  <2>1. PICK g \in [0 .. M -> X] : g[0] = <<>> /\ \A n \in 1 .. M : g[n] = F[n][g[n - 1]]
    <3> HIDE DEF F, X
    <3> QED  BY <1>4 DEF Runs
  <2>2. ASSUME NEW n \in 0 .. M, n # 0
        PROVE  g[n] = IF ts[n].source = s THEN Append(g[n - 1], ts[n]) ELSE g[n - 1]
    <3>1. n \in 1 .. M /\ n - 1 \in 0 .. M /\ g[n - 1] \in X
      BY <1>2, <2>2
    <3> QED  BY <2>1, <3>1
  <2>3. g = [n \in 0 .. M |-> g[n]]
    OBVIOUS
  <2>4. g = [n \in 0 .. M |-> IF n = 0 THEN <<>> ELSE IF ts[n].source = s THEN Append(g[n - 1], ts[n])
                               ELSE g[n - 1]]
    <3> HIDE DEF F, X
    <3> QED  BY <2>1, <2>2, <2>3
  <2> QED  BY <2>4, Zenon DEF AmongFrom
<1>6. among = AmongFrom(d, s, among)
  <2> HIDE DEF among
  <2> QED  BY <1>1, <1>5, Zenon DEF among
<1> HIDE DEF among
<1>7. among[0] = <<>>
  BY <1>2, <1>6 DEF AmongFrom
<1>8. ASSUME NEW n \in 1 .. M
      PROVE  among[n] = IF ts[n].source = s THEN Append(among[n - 1], ts[n]) ELSE among[n - 1]
  <2>1. n \in 0 .. M /\ n # 0
    BY <1>2
  <2> QED  BY <1>6, <2>1, Zenon DEF AmongFrom
<1>9. \A n \in 0 .. M : among[n] \in X
  <2>1. ASSUME NEW n \in 1 .. M, among[n - 1] \in X PROVE among[n] = F[n][among[n - 1]]
    <3> HIDE DEF X
    <3> QED  BY <1>8, <2>1
  <2> HIDE DEF X, F, M
  <2> QED  BY <1>2, <1>3, <1>7, <2>1, RecursionStays
<1>10. M \in 0 .. M
  BY <1>2
<1> QED  BY <1>1, <1>9, <1>10

-----------------------------------------------------------------------------
(* What select looks at *)

Activations == [state : States, seq : Nat]

Offers == [level : Nat, transition : Transitions]

At(d, s, l) == Candidates(d, s.path[l].state)

(* b holds the candidates of the levels up to n, deeper levels first, in     *)
(* their order within a level.                                               *)
Bubbled(d, s, n, b) ==
    /\ b \in Seq(Offers)
    /\ \A p \in 1 .. Len(b) :
          /\ b[p].level \in 1 .. n
          /\ b[p].transition \in Own(d, s.path[b[p].level].state)
    /\ \A l \in 1 .. n : \A i \in 1 .. Len(At(d, s, l)) :
          \E p \in 1 .. Len(b) :
             /\ b[p].level = l /\ b[p].transition = At(d, s, l)[i]
             /\ \A o \in 1 .. p :
                   \/ b[o].level > l
                   \/ b[o].level = l /\ \E k \in 1 .. i : b[o].transition = At(d, s, l)[k]

Block(d, s, l) ==
    [i \in DOMAIN At(d, s, l) |-> [level |-> l, transition |-> At(d, s, l)[i]]]

(* What select finds at one level of the path. *)
LEMMA BlockIs ==
    ASSUME NEW d, Compiled(d), NEW s, NEW l \in Nat
    PROVE  /\ At(d, s, l) \in Seq(Own(d, s.path[l].state))
           /\ Block(d, s, l) \in Seq(Offers) /\ Len(Block(d, s, l)) = Len(At(d, s, l))
           /\ \A i \in 1 .. Len(At(d, s, l)) :
                 /\ Block(d, s, l)[i].level = l /\ Block(d, s, l)[i].transition = At(d, s, l)[i]
                 /\ At(d, s, l)[i] \in Own(d, s.path[l].state)
<1> DEFINE ts == At(d, s, l)
           X == Own(d, s.path[l].state)
           M == Len(ts)
           b == [i \in 1 .. M |-> [level |-> l, transition |-> ts[i]]]
<1>1. ts \in Seq(X)
  BY CandidatesAreOwn DEF At
<1>2. X \subseteq Transitions
  BY CompiledTyped DEF Own, ToSet
<1> HIDE DEF X, ts
<1>3. M \in Nat /\ DOMAIN ts = 1 .. M /\ \A i \in 1 .. M : ts[i] \in X
  BY <1>1
<1>4. Block(d, s, l) = b
  BY <1>3 DEF Block, ts
<1> HIDE DEF M
<1>5. b \in [1 .. M -> Offers]
  BY <1>2, <1>3 DEF Offers
<1>6. \A i \in 1 .. M : b[i].level = l /\ b[i].transition = ts[i]
  OBVIOUS
<1> HIDE DEF b
<1>7. b \in Seq(Offers) /\ Len(b) = M
  BY <1>3, <1>5, FunctionIsSeq
<1> QED  BY <1>1, <1>3, <1>4, <1>6, <1>7 DEF M, ts, X

(* One level more. *)
LEMMA BubbledGrows ==
    ASSUME NEW d, Compiled(d), NEW s, NEW n \in Nat, NEW b, Bubbled(d, s, n, b)
    PROVE  Bubbled(d, s, n + 1, Block(d, s, n + 1) \o b)
<1> DEFINE v == Block(d, s, n + 1)
           ts == At(d, s, n + 1)
           X == Own(d, s.path[n + 1].state)
           c == v \o b
<1>1. /\ v \in Seq(Offers) /\ Len(v) = Len(ts)
      /\ \A i \in 1 .. Len(ts) : v[i].level = n + 1 /\ v[i].transition = ts[i] /\ ts[i] \in X
  <2> DEFINE l == n + 1
  <2>1. l \in Nat
    OBVIOUS
  <2> HIDE DEF l
  <2>2. /\ Block(d, s, l) \in Seq(Offers) /\ Len(Block(d, s, l)) = Len(At(d, s, l))
        /\ \A i \in 1 .. Len(At(d, s, l)) :
              /\ Block(d, s, l)[i].level = l /\ Block(d, s, l)[i].transition = At(d, s, l)[i]
              /\ At(d, s, l)[i] \in Own(d, s.path[l].state)
    BY <2>1, BlockIs
  <2> QED  BY <2>2 DEF l
<1>2. /\ b \in Seq(Offers) /\ Len(b) \in Nat /\ Len(v) \in Nat
      /\ \A p \in 1 .. Len(b) : b[p].level \in 1 .. n
                                 /\ b[p].transition \in Own(d, s.path[b[p].level].state)
  BY <1>1 DEF Bubbled
<1> HIDE DEF v, ts, X
<1>3. /\ c \in Seq(Offers) /\ Len(c) = Len(v) + Len(b)
      /\ \A p \in 1 .. Len(v) + Len(b) : c[p] = IF p <= Len(v) THEN v[p] ELSE b[p - Len(v)]
  <2>1. v \in Seq(Offers) /\ b \in Seq(Offers)
    BY <1>1, <1>2
  <2> QED  BY ONLY <2>1, ConcatProperties
<1> HIDE DEF c
<1>4. ASSUME NEW p \in 1 .. Len(v)
      PROVE  p \in 1 .. Len(c) /\ p \in 1 .. Len(ts) /\ c[p] = v[p]
  BY <1>1, <1>2, <1>3
<1>5. ASSUME NEW p \in 1 .. Len(b)
      PROVE  Len(v) + p \in 1 .. Len(c) /\ c[Len(v) + p] = b[p]
  <2>1. Len(v) + p \in 1 .. Len(v) + Len(b) /\ ~(Len(v) + p <= Len(v)) /\ (Len(v) + p) - Len(v) = p
    BY <1>2
  <2> QED  BY <1>3, <2>1
<1>6. ASSUME NEW p \in 1 .. Len(c), p > Len(v)
      PROVE  p - Len(v) \in 1 .. Len(b) /\ c[p] = b[p - Len(v)]
  BY <1>2, <1>3, <1>6
<1>7. ASSUME NEW p \in 1 .. Len(c)
      PROVE  /\ c[p].level \in 1 .. n + 1
             /\ c[p].transition \in Own(d, s.path[c[p].level].state)
  <2>1. CASE p <= Len(v)
    <3>1. p \in 1 .. Len(v)
      BY <1>2, <2>1
    <3> QED  BY <1>1, <1>4, <3>1 DEF X
  <2>2. CASE p > Len(v)
    <3>1. c[p].level \in 1 .. n /\ c[p].transition \in Own(d, s.path[c[p].level].state)
      BY <1>2, <1>6, <2>2
    <3> QED  BY <3>1
  <2> QED  BY <1>2, <2>1, <2>2
<1>8. ASSUME NEW l \in 1 .. n + 1, NEW i \in 1 .. Len(At(d, s, l))
      PROVE  \E p \in 1 .. Len(c) :
                /\ c[p].level = l /\ c[p].transition = At(d, s, l)[i]
                /\ \A o \in 1 .. p :
                      \/ c[o].level > l
                      \/ c[o].level = l /\ \E k \in 1 .. i : c[o].transition = At(d, s, l)[k]
  <2>1. CASE l = n + 1
    <3>1. i \in 1 .. Len(ts) /\ i \in 1 .. Len(v) /\ i \in 1 .. Len(c) /\ At(d, s, l) = ts
      BY <1>1, <1>4, <2>1 DEF ts
    <3>2. ASSUME NEW o \in 1 .. i PROVE c[o].level = l /\ c[o].transition = ts[o]
      <4>1. o \in 1 .. Len(v)
        BY <1>2, <3>1
      <4> QED  BY <1>1, <1>4, <2>1, <4>1
    <3>3. \A o \in 1 .. i : c[o].level = l /\ \E k \in 1 .. i : c[o].transition = At(d, s, l)[k]
      BY <3>1, <3>2
    <3>4. i \in 1 .. i
      OBVIOUS
    <3>5. c[i].level = l /\ c[i].transition = At(d, s, l)[i]
      BY <3>1, <3>2, <3>4
    <3> QED  BY <3>1, <3>3, <3>5
  <2>2. CASE l # n + 1
    <3>1. l \in 1 .. n
      BY <2>2
    <3>2. PICK p \in 1 .. Len(b) :
             /\ b[p].level = l /\ b[p].transition = At(d, s, l)[i]
             /\ \A o \in 1 .. p :
                   \/ b[o].level > l
                   \/ b[o].level = l /\ \E k \in 1 .. i : b[o].transition = At(d, s, l)[k]
      BY <3>1 DEF Bubbled
    <3>3. ASSUME NEW o \in 1 .. Len(v) + p
          PROVE  \/ c[o].level > l
                 \/ c[o].level = l /\ \E k \in 1 .. i : c[o].transition = At(d, s, l)[k]
      <4>1. CASE o <= Len(v)
        <5>1. o \in 1 .. Len(v)
          BY <1>2, <4>1
        <5>2. c[o].level = n + 1
          BY <1>1, <1>4, <5>1
        <5> QED  BY <3>1, <5>1, <5>2
      <4>2. CASE o > Len(v)
        <5>1. o \in 1 .. Len(c) /\ o - Len(v) \in 1 .. p
          BY <1>2, <1>3, <4>2
        <5>2. c[o] = b[o - Len(v)]
          BY <1>6, <4>2, <5>1
        <5> QED  BY <3>2, <5>1, <5>2
      <4> QED  BY <1>2, <4>1, <4>2
    <3>4. Len(v) + p \in 1 .. Len(c) /\ c[Len(v) + p] = b[p]
      BY <1>5
    <3> QED  BY <3>2, <3>3, <3>4
  <2> QED  BY <2>1, <2>2
<1> QED  BY <1>3, <1>7, <1>8 DEF Bubbled, c, v

FromFrom(d, s, g) ==
    [level \in 0 .. Len(s.path) |-> IF level = 0 THEN <<>> ELSE Block(d, s, level) \o g[level - 1]]

(* The whole path, from the leaf up. *)
LEMMA BubbleIs ==
    ASSUME NEW d, Compiled(d), NEW s, s.path \in Seq(Activations)
    PROVE  Bubbled(d, s, Len(s.path), Bubble(d, s))
<1> DEFINE X == Seq(Offers)
           M == Len(s.path)
           F == [l \in 1 .. M |-> [q \in X |-> Block(d, s, l) \o q]]
           from == CHOOSE g : g = FromFrom(d, s, g)
<1>1. Bubble(d, s) = from[M]
  BY Zenon DEF Bubble, FromFrom, Block, At
<1>2. M \in Nat /\ <<>> \in X
  BY EmptySeq, LenProperties
<1>3. F \in [1 .. M -> [X -> X]]
  <2>1. ASSUME NEW l \in 1 .. M, NEW q \in X PROVE Block(d, s, l) \o q \in X
    <3>1. l \in Nat
      BY <1>2
    <3>2. Block(d, s, l) \in Seq(Offers)
      BY <3>1, BlockIs
    <3> QED  BY <3>2, ConcatProperties
  <2> HIDE DEF X
  <2> QED  BY <2>1
<1>4. \E g \in [0 .. M -> X] : Runs(F, M, <<>>, g)
  <2> HIDE DEF X, F, M
  <2> QED  BY <1>2, <1>3, Recursion
<1>5. \E g : g = FromFrom(d, s, g)
  <2>1. PICK g \in [0 .. M -> X] : g[0] = <<>> /\ \A n \in 1 .. M : g[n] = F[n][g[n - 1]]
    <3> HIDE DEF F, X
    <3> QED  BY <1>4 DEF Runs
  <2>2. ASSUME NEW n \in 0 .. M, n # 0 PROVE g[n] = Block(d, s, n) \o g[n - 1]
    <3>1. n \in 1 .. M /\ n - 1 \in 0 .. M /\ g[n - 1] \in X
      BY <1>2, <2>2
    <3> HIDE DEF X
    <3> QED  BY <2>1, <3>1
  <2>3. g = [n \in 0 .. M |-> g[n]]
    OBVIOUS
  <2>4. g = [n \in 0 .. M |-> IF n = 0 THEN <<>> ELSE Block(d, s, n) \o g[n - 1]]
    <3> HIDE DEF F, X
    <3> QED  BY <2>1, <2>2, <2>3
  <2> QED  BY <2>4, Zenon DEF FromFrom
<1>6. from = FromFrom(d, s, from)
  <2> HIDE DEF from
  <2> QED  BY <1>1, <1>5, Zenon DEF from
<1> HIDE DEF from
<1>7. from[0] = <<>>
  BY <1>2, <1>6 DEF FromFrom
<1>8. ASSUME NEW n \in 0 .. M - 1 PROVE from[n + 1] = Block(d, s, n + 1) \o from[n]
  <2>1. n + 1 \in 0 .. M /\ n + 1 # 0 /\ (n + 1) - 1 = n
    BY <1>2
  <2>2. from[n + 1] = Block(d, s, n + 1) \o from[(n + 1) - 1]
    BY <1>6, <2>1, Zenon DEF FromFrom
  <2> QED  BY <2>1, <2>2
<1> DEFINE P == {n \in 0 .. M : Bubbled(d, s, n, from[n])}
<1>9. 0 \in P
  <2>1. Bubbled(d, s, 0, <<>>)
    BY EmptySeq DEF Bubbled
  <2> QED  BY <1>2, <1>7, <2>1
<1>10. ASSUME NEW n \in 0 .. M - 1, n \in P PROVE n + 1 \in P
  <2>1. n \in Nat /\ n + 1 \in 0 .. M
    BY <1>2
  <2>2. Bubbled(d, s, n, from[n])
    BY <1>10
  <2>3. Bubbled(d, s, n + 1, Block(d, s, n + 1) \o from[n])
    BY <2>1, <2>2, BubbledGrows
  <2> QED  BY <1>8, <2>1, <2>3
<1>11. 0 .. M \subseteq P
  <2> HIDE DEF P, M
  <2> QED  BY <1>2, <1>9, <1>10, Upwards
<1>12. M \in 0 .. M
  BY <1>2
<1> QED  BY <1>1, <1>11, <1>12

(* What a selected candidate is: one of a state of the path, the first of    *)
(* the candidates, leaf outwards, that is not passed over.                   *)
LEMMA SelectIs ==
    ASSUME NEW d, Compiled(d), NEW s, s.path \in Seq(Activations), NEW frame,
           Select(d, s, frame) # <<>>, NEW c, c = Head(Select(d, s, frame))
    PROVE  /\ c.level \in 1 .. Len(s.path) /\ c.transition \in Own(d, s.path[c.level].state)
           /\ Stops(c.transition, frame)
           /\ \A l \in c.level .. Len(s.path) : \A i \in 1 .. Len(At(d, s, l)) :
                 \/ ~Stops(At(d, s, l)[i], frame)
                 \/ l = c.level /\ \E k \in 1 .. i : At(d, s, l)[k] = c.transition
<1> DEFINE b == Bubble(d, s)
           stops == {i \in DOMAIN b : Stops(b[i].transition, frame)}
           m == Min(stops)
           L == Len(s.path)
<1>1. Bubbled(d, s, L, b)
  BY BubbleIs
<1>2. Select(d, s, frame) = IF stops = {} THEN <<>> ELSE <<b[m]>>
  BY DEF Select
<1> HIDE DEF b, L
<1>3. b \in Seq(Offers) /\ DOMAIN b = 1 .. Len(b) /\ Len(b) \in Nat
  BY <1>1 DEF Bubbled
<1>4. stops # {} /\ c = b[m]
  BY <1>2
<1>5. m \in stops /\ \A i \in stops : m <= i
  <2>1. stops \in SUBSET Nat
    BY <1>3
  <2> HIDE DEF stops
  <2> QED  BY <1>4, <2>1, MinIsLeast
<1>6. m \in 1 .. Len(b) /\ Stops(b[m].transition, frame)
      /\ \A o \in 1 .. Len(b) : Stops(b[o].transition, frame) => m <= o
  BY <1>3, <1>5
<1> HIDE DEF m, stops
<1>7. c.level \in 1 .. L /\ c.transition \in Own(d, s.path[c.level].state) /\ Stops(c.transition, frame)
  BY <1>1, <1>4, <1>6 DEF Bubbled
<1>8. ASSUME NEW l \in c.level .. L, NEW i \in 1 .. Len(At(d, s, l)), Stops(At(d, s, l)[i], frame)
      PROVE  l = c.level /\ \E k \in 1 .. i : At(d, s, l)[k] = c.transition
  <2>0. l \in 1 .. L /\ l >= c.level /\ c.level \in Nat
    BY <1>7
  <2>1. PICK p \in 1 .. Len(b) :
           /\ b[p].level = l /\ b[p].transition = At(d, s, l)[i]
           /\ \A o \in 1 .. p :
                 \/ b[o].level > l
                 \/ b[o].level = l /\ \E k \in 1 .. i : b[o].transition = At(d, s, l)[k]
    BY <1>1, <2>0 DEF Bubbled
  <2>2. m \in 1 .. p
    BY <1>3, <1>6, <1>8, <2>1
  <2>3. ~(c.level > l)
    BY <2>0
  <2> QED  BY <1>4, <2>1, <2>2, <2>3
<1> QED  BY <1>7, <1>8 DEF L

-----------------------------------------------------------------------------
(* Snapshots and plans *)

Snapshots ==
    [lifecycle : {"NotStarted", "Running", "Stopped"}, epoch : Nat, step : Nat, next : Nat,
     path : Seq(Activations)]

(* The states of a path. *)
Along(path) == [i \in 1 .. Len(path) |-> path[i].state]

(* A path the counter can have come to. *)
LegalPath(d, path, next) ==
    /\ path \in Seq(Activations)
    /\ Nested(d, Along(path))
    /\ path # <<>> => IsLeaf(d, path[Len(path)].state)
    /\ \A i \in 1 .. Len(path) : path[i].seq >= 1 /\ path[i].seq < next
    /\ \A i, j \in 1 .. Len(path) : i < j => path[i].seq < path[j].seq

Legal(d, s) ==
    /\ s \in Snapshots /\ s.next >= 1
    /\ s.lifecycle = "Running" <=> s.path # <<>>
    /\ LegalPath(d, s.path, s.next)

(* The states of a path. *)
LEMMA AlongIs ==
    ASSUME NEW path \in Seq(Activations)
    PROVE  /\ Along(path) \in Seq(States) /\ Len(Along(path)) = Len(path) /\ Len(path) \in Nat
           /\ \A i \in 1 .. Len(path) : /\ Along(path)[i] = path[i].state /\ path[i] \in Activations
                                       /\ path[i].state \in States /\ path[i].seq \in Nat
<1> DEFINE q == [i \in 1 .. Len(path) |-> path[i].state]
<1>1. Len(path) \in Nat /\ \A i \in 1 .. Len(path) : path[i] \in Activations
  OBVIOUS
<1>2. \A i \in 1 .. Len(path) : path[i].state \in States /\ path[i].seq \in Nat
  BY <1>1 DEF Activations
<1>3. q \in [1 .. Len(path) -> States] /\ \A i \in 1 .. Len(path) : q[i] = path[i].state
  BY <1>2
<1>4. Along(path) = q
  BY DEF Along
<1> HIDE DEF q
<1>5. q \in Seq(States) /\ Len(q) = Len(path)
  BY <1>1, <1>3, FunctionIsSeq
<1> QED  BY <1>1, <1>2, <1>3, <1>4, <1>5

(* A state of a legal path is at its depth, below those before it. *)
LEMMA PathDepth ==
    ASSUME NEW d, Compiled(d), NEW path, NEW next, LegalPath(d, path, next),
           NEW i \in 1 .. Len(path)
    PROVE  /\ path[i].state \in States /\ DepthOf(d, path[i].state) = i
           /\ \A k \in 1 .. i : Up(d, path[i].state)[k] = path[i - k + 1].state
<1>1. path \in Seq(Activations) /\ Nested(d, Along(path))
  BY DEF LegalPath
<1>2. Len(Along(path)) = Len(path) /\ \A k \in 1 .. Len(path) : Along(path)[k] = path[k].state
  BY <1>1, AlongIs
<1>3. /\ Along(path)[i] \in States /\ DepthOf(d, Along(path)[i]) = i
      /\ \A k \in 1 .. i : Up(d, Along(path)[i])[k] = Along(path)[i - k + 1]
  BY <1>1, <1>2, NestedDepth
<1>4. Len(path) \in Nat
  BY <1>1
<1>5. ASSUME NEW k \in 1 .. i PROVE Along(path)[i - k + 1] = path[i - k + 1].state
  <2>1. i - k + 1 \in 1 .. Len(path)
    BY <1>4
  <2> QED  BY <1>2, <2>1
<1> QED  BY <1>2, <1>3, <1>5

(* A legal snapshot is one the evaluator accepts. *)
LEMMA LegalIsValid ==
    ASSUME NEW d, Compiled(d), NEW s, Legal(d, s) PROVE Valid(d, s)
<1> DEFINE path == s.path
           L == Len(path)
<1>1. LegalPath(d, path, s.next) /\ s.next \in Nat
  BY DEF Legal, Snapshots
<1>2. path \in Seq(Activations) /\ L \in Nat /\ DOMAIN path = 1 .. L
  BY <1>1 DEF LegalPath
<1>3. /\ Len(Along(path)) = L
      /\ \A i \in 1 .. L : Along(path)[i] = path[i].state /\ path[i].seq \in Nat
  BY <1>2, AlongIs
<1>4. L <= DeepestPath(d)
  <2>1. CASE L = 0
    <3>1. PICK x \in States : TRUE
      BY SomeStates
    <3>2. DepthOf(d, x) <= DeepestPath(d) /\ DepthOf(d, x) \in Nat \ {0}
      BY DepthBounded, UpTyped
    <3>3. DeepestPath(d) \in Nat
      <4> DEFINE S == {DepthOf(d, y) : y \in States}
      <4>1. S \in SUBSET Nat /\ S # {} /\ N \in Nat /\ \A y \in S : y <= N
        <5>1. \A y \in States : DepthOf(d, y) \in Nat /\ DepthOf(d, y) <= N
          BY UpTyped
        <5> QED  BY <5>1, StatesCounted, SomeStates
      <4>2. Max(S) \in S
        <5> HIDE DEF S
        <5> QED  BY <4>1, MaxIsGreatest
      <4> QED  BY <4>1, <4>2 DEF DeepestPath
    <3> QED  BY <2>1, <3>3
  <2>2. CASE L # 0
    <3>1. L \in 1 .. L
      BY <1>2, <2>2
    <3>2. path[L].state \in States /\ DepthOf(d, path[L].state) = L
      BY <1>1, <3>1, PathDepth
    <3> QED  BY <3>2, DepthBounded
  <2> QED  BY <2>1, <2>2
<1>5. ASSUME NEW i \in 1 .. L
      PROVE  d.parent[path[i].state] = IF i = 1 THEN NoState ELSE path[i - 1].state
  <2>1. d.parent[Along(path)[i]] = IF i = 1 THEN NoState ELSE Along(path)[i - 1]
    BY <1>1, <1>3 DEF LegalPath, Nested
  <2>2. i # 1 => i - 1 \in 1 .. L
    BY <1>2
  <2> QED  BY <1>3, <2>1, <2>2
<1>6. \A i \in 1 .. L : path[i].seq \in 1 .. (s.next - 1)
  BY <1>1, <1>3 DEF LegalPath
<1>7. path # <<>> => IsLeaf(d, Leaf(s))
  BY <1>1 DEF LegalPath, Leaf, Last
<1>8. (s.lifecycle = "Running") = (path # <<>>)
  BY DEF Legal
<1> QED  BY <1>2, <1>4, <1>5, <1>6, <1>7, <1>8 DEF Valid

-----------------------------------------------------------------------------
(* Entered states get the next numbers, in their order. *)
LEMMA ActivatedIs ==
    ASSUME NEW s \in Snapshots, NEW q \in Seq(States)
    PROVE  /\ Activated(s, q) \in Seq(Activations) /\ Len(Activated(s, q)) = Len(q) /\ Len(q) \in Nat
           /\ \A i \in 1 .. Len(q) : /\ Activated(s, q)[i].state = q[i]
                                    /\ Activated(s, q)[i].seq = s.next + i - 1
                                    /\ Activated(s, q)[i] \in Activations
<1> DEFINE a == [i \in 1 .. Len(q) |-> [state |-> q[i], seq |-> s.next + i - 1]]
<1>1. Len(q) \in Nat /\ DOMAIN q = 1 .. Len(q) /\ s.next \in Nat
  BY DEF Snapshots
<1>2. Activated(s, q) = a
  BY <1>1 DEF Activated
<1>3. \A i \in 1 .. Len(q) : a[i].state = q[i] /\ a[i].seq = s.next + i - 1
  OBVIOUS
<1>4. a \in [1 .. Len(q) -> Activations]
  <2>1. \A i \in 1 .. Len(q) : q[i] \in States /\ s.next + i - 1 \in Nat
    BY <1>1
  <2> QED  BY <2>1 DEF Activations
<1> HIDE DEF a
<1>5. a \in Seq(Activations) /\ Len(a) = Len(q)
  BY <1>1, <1>4, FunctionIsSeq
<1> QED  BY <1>1, <1>2, <1>3, <1>4, <1>5

(* The next snapshot of a plan that was not refused. *)
Advance(s, path, l) == [s EXCEPT !.step = @ + 1, !.next = @ + l, !.path = path]

Moved(s, kept, entered) == Advance(s, kept \o Activated(s, entered), Len(entered))

Holds(plan, d, s, o, kept, before, entered) ==
    /\ plan.outcome = o
    /\ plan.next = Moved(s, kept, entered)
    /\ plan.records = before \o Enters(d, Activated(s, entered))

(* A plan that finish does not reject moves the snapshot as it lists. *)
LEMMA PlannedIs ==
    ASSUME NEW d, NEW s \in Snapshots, NEW o, NEW kept, NEW before,
           NEW entered \in Seq(States),
           ~IsRejected(Planned(d, s, o, kept, before, entered))
    PROVE  Holds(Planned(d, s, o, kept, before, entered), d, s, o, kept, before, entered)
<1> DEFINE m == MaxCounter - s.next
           L == Len(entered)
           k == Min({L, m})
           some == SubSeq(entered, 1, k)
           fresh == Activated(s, some)
           plan == Planned(d, s, o, kept, before, entered)
<1>1. L \in Nat /\ m \in Int /\ s.next \in Nat
  BY CounterAssumption DEF Snapshots
<1> HIDE DEF m
<1>2. k \in {L, m} /\ k <= L
  <2>1. \E x \in {L, m} : \A y \in {L, m} : x =< y
    BY <1>1
  <2> HIDE DEF L
  <2>2. k \in {L, m} /\ \A y \in {L, m} : k =< y
    BY <2>1, Zenon DEF Min
  <2> QED  BY <2>2
<1> HIDE DEF k
<1>3. /\ some \in Seq(States) /\ Len(some) = IF 1 <= k THEN k - 1 + 1 ELSE 0
  <2>1. \A i \in 1 .. k : entered[i] \in States
    <3>1. \A i \in 1 .. k : i \in 1 .. L
      BY <1>1, <1>2
    <3> QED  BY <3>1
  <2>2. k \in Int /\ 1 \in Int
    BY <1>1, <1>2
  <2> HIDE DEF L
  <2> QED  BY <2>1, <2>2, SubSeqProperties
<1>4. Len(fresh) = Len(some)
  <2> HIDE DEF some
  <2> QED  BY <1>3, ActivatedIs
<1>5. plan = IF Len(fresh) < L
             THEN [outcome |-> "CounterOverflow", records |-> before \o Enters(d, fresh), path |-> kept \o fresh]
             ELSE [outcome |-> o, records |-> before \o Enters(d, fresh),
                   next |-> [s EXCEPT !.step = @ + 1, !.next = @ + L, !.path = kept \o fresh]]
  BY DEF Planned, k, m
<1> HIDE DEF plan
<1>6. ~(Len(fresh) < L)
  <2> SUFFICES ASSUME Len(fresh) < L PROVE FALSE
    OBVIOUS
  <2>1. plan.outcome = "CounterOverflow"
    BY <1>5
  <2> QED  BY <2>1 DEF IsRejected, plan
<1>7. some = entered
  <2>1. CASE L = 0
    <3>1. entered = <<>> /\ k < 1
      BY <1>1, <1>2, <2>1, EmptySeq
    <3>2. some = <<>>
      BY <1>1, <1>2, <3>1, SubSeqEmpty
    <3> QED  BY <3>1, <3>2
  <2>2. CASE L # 0
    <3>1. k = L
      <4> HIDE DEF some, fresh, L
      <4> QED  BY <1>1, <1>2, <1>3, <1>4, <1>6, <2>2
    <3> QED  BY <3>1, SubSeqFull
  <2> QED  BY <2>1, <2>2
<1> HIDE DEF fresh
<1>8. plan = [outcome |-> o, records |-> before \o Enters(d, fresh),
              next |-> [s EXCEPT !.step = @ + 1, !.next = @ + L, !.path = kept \o fresh]]
  BY <1>5, <1>6
<1>9. fresh = Activated(s, entered)
  BY <1>7 DEF fresh
<1> QED  BY <1>8, <1>9 DEF Moved, Advance, plan, Holds

(* entered leads from what is kept of the path of s along r, which is a path. *)
Rejoins(d, s, keep, r, entered) ==
    /\ s \in Snapshots /\ s.next >= 1 /\ LegalPath(d, s.path, s.next)
    /\ Nested(d, r) /\ Len(r) >= 1 /\ IsLeaf(d, r[Len(r)])
    /\ keep \in 0 .. Len(s.path) /\ keep < Len(r)
    /\ \A i \in 1 .. keep : s.path[i].state = r[i]
    /\ entered \in Seq(States) /\ Len(entered) = Len(r) - keep
    /\ \A i \in 1 .. Len(entered) : entered[i] = r[keep + i]

Rejoined(s, keep, entered) == SubSeq(s.path, 1, keep) \o Activated(s, entered)

(* That gives a legal path again. *)
LEMMA JoinedIs ==
    ASSUME NEW d, NEW s, NEW keep, NEW r, NEW entered, Rejoins(d, s, keep, r, entered),
           NEW path, path = Rejoined(s, keep, entered)
    PROVE  /\ LegalPath(d, path, s.next + Len(entered))
           /\ Len(path) = Len(r) /\ Len(r) \in Nat
           /\ \A i \in 1 .. Len(r) : path[i].state = r[i]
           /\ \A i \in 1 .. keep : path[i] = s.path[i]
           /\ \A i \in keep + 1 .. Len(r) : path[i] = Activated(s, entered)[i - keep]
                                           /\ path[i].seq = s.next + (i - keep) - 1
           /\ SubSeq(s.path, 1, keep) \in Seq(Activations) /\ Len(SubSeq(s.path, 1, keep)) = keep
<1> DEFINE old == s.path
           a == SubSeq(old, 1, keep)
           b == Activated(s, entered)
<1>0. /\ s \in Snapshots /\ s.next >= 1 /\ LegalPath(d, old, s.next)
      /\ Nested(d, r) /\ Len(r) >= 1 /\ IsLeaf(d, r[Len(r)])
      /\ keep \in 0 .. Len(old) /\ keep < Len(r)
      /\ \A i \in 1 .. keep : old[i].state = r[i]
      /\ entered \in Seq(States) /\ Len(entered) = Len(r) - keep
      /\ \A i \in 1 .. Len(entered) : entered[i] = r[keep + i]
  BY DEF Rejoins
<1>1. /\ old \in Seq(Activations) /\ Len(old) \in Nat /\ keep \in Nat /\ s.next \in Nat
      /\ \A i \in 1 .. Len(old) : old[i].seq \in Nat /\ old[i].seq >= 1 /\ old[i].seq < s.next
      /\ \A i, j \in 1 .. Len(old) : i < j => old[i].seq < old[j].seq
  BY <1>0, AlongIs DEF LegalPath, Snapshots
<1>2. /\ b \in Seq(Activations) /\ Len(b) = Len(entered) /\ Len(entered) \in Nat
      /\ \A i \in 1 .. Len(entered) : b[i].state = entered[i] /\ b[i].seq = s.next + i - 1
  BY <1>0, ActivatedIs
<1>3. /\ a \in Seq(Activations) /\ Len(a) = keep
      /\ \A i \in 1 .. keep : a[i] = old[i]
  <2>1. \A i \in 1 .. keep : old[i] \in Activations
    BY <1>0, <1>1
  <2>2. /\ a \in Seq(Activations) /\ Len(a) = IF 1 <= keep THEN keep - 1 + 1 ELSE 0
        /\ \A i \in 1 .. keep - 1 + 1 : a[i] = old[1 + i - 1]
    <3> HIDE DEF old
    <3> QED  BY <1>1, <2>1, SubSeqProperties
  <2>3. keep - 1 + 1 = keep /\ \A i \in 1 .. keep : 1 + i - 1 = i
    BY <1>1
  <2> QED  BY <1>1, <2>2, <2>3
<1> HIDE DEF a, b, old
<1>4. r \in Seq(States) /\ Len(r) \in Nat
  BY <1>0 DEF Nested
<1>5. /\ path \in Seq(Activations) /\ Len(path) = Len(r)
      /\ \A i \in 1 .. Len(r) : path[i] = IF i <= keep THEN a[i] ELSE b[i - keep]
  <2>1. path = a \o b
    BY DEF a, b, old, Rejoined
  <2>2. /\ a \o b \in Seq(Activations) /\ Len(a \o b) = Len(a) + Len(b)
        /\ \A i \in 1 .. Len(a) + Len(b) : (a \o b)[i] = IF i <= Len(a) THEN a[i] ELSE b[i - Len(a)]
    <3>1. a \in Seq(Activations) /\ b \in Seq(Activations)
      BY <1>2, <1>3
    <3> QED  BY ONLY <3>1, ConcatProperties
  <2>3. Len(a) + Len(b) = Len(r) /\ Len(a) = keep
    BY <1>0, <1>1, <1>2, <1>3, <1>4
  <2> QED  BY <2>1, <2>2, <2>3
<1>6. ASSUME NEW i \in 1 .. keep
      PROVE  /\ i \in 1 .. Len(r) /\ i \in 1 .. Len(old) /\ path[i] = old[i] /\ path[i].state = r[i]
             /\ path[i].seq >= 1 /\ path[i].seq < s.next /\ path[i].seq \in Nat
  <2>1. i \in 1 .. Len(r) /\ i \in 1 .. Len(old) /\ i <= keep
    BY <1>0, <1>1, <1>4
  <2>2. path[i] = old[i]
    BY <1>3, <1>5, <2>1
  <2>3. old[i].state = r[i]
    BY <1>0
  <2> QED  BY <1>1, <2>1, <2>2, <2>3
<1>7. ASSUME NEW i \in keep + 1 .. Len(r)
      PROVE  /\ i \in 1 .. Len(r) /\ path[i] = b[i - keep] /\ path[i].state = r[i]
             /\ path[i].seq = s.next + (i - keep) - 1
             /\ path[i].seq >= 1 /\ path[i].seq >= s.next /\ path[i].seq < s.next + Len(entered) /\ path[i].seq \in Nat
  <2>1. i \in 1 .. Len(r) /\ ~(i <= keep) /\ i - keep \in 1 .. Len(entered) /\ keep + (i - keep) = i
    BY <1>0, <1>1, <1>4
  <2>2. path[i] = b[i - keep]
    BY <1>5, <2>1
  <2>3. path[i].state = entered[i - keep] /\ path[i].seq = s.next + (i - keep) - 1
    BY <1>2, <2>1, <2>2
  <2>4. entered[i - keep] = r[i]
    BY <1>0, <2>1
  <2>5. s.next + (i - keep) - 1 \in Nat /\ s.next + (i - keep) - 1 >= s.next
        /\ s.next + (i - keep) - 1 < s.next + Len(entered)
    BY <1>1, <1>2, <2>1
  <2>6. s.next + (i - keep) - 1 >= 1
    BY <1>0, <1>1, <2>1
  <2> QED  BY <2>1, <2>2, <2>3, <2>4, <2>5, <2>6
<1>8. ASSUME NEW i \in 1 .. Len(r) PROVE i \in 1 .. keep \/ i \in keep + 1 .. Len(r)
  BY <1>0, <1>1, <1>4
<1>9. \A i \in 1 .. Len(r) : path[i].state = r[i]
  BY <1>6, <1>7, <1>8
<1>10. ASSUME NEW i \in 1 .. Len(r) PROVE path[i].seq >= 1 /\ path[i].seq < s.next + Len(entered)
  <2>1. CASE i \in 1 .. keep
    BY <1>1, <1>2, <1>6, <2>1
  <2>2. CASE i \in keep + 1 .. Len(r)
    BY <1>7, <2>2
  <2> QED  BY <1>8, <2>1, <2>2
<1>11. ASSUME NEW i \in 1 .. Len(r), NEW j \in 1 .. Len(r), i < j PROVE path[i].seq < path[j].seq
  <2>1. CASE i \in 1 .. keep /\ j \in 1 .. keep
    BY <1>1, <1>6, <1>11, <2>1
  <2>2. CASE i \in 1 .. keep /\ j \in keep + 1 .. Len(r)
    <3>1. path[i].seq < s.next /\ path[i].seq \in Nat
      BY <1>6, <2>2
    <3>2. path[j].seq >= s.next /\ path[j].seq \in Nat
      BY <1>7, <2>2
    <3> DEFINE x == path[i].seq
               y == path[j].seq
               n == s.next
    <3>3. x \in Nat /\ y \in Nat /\ n \in Nat /\ x < n /\ n <= y
      BY <1>1, <3>1, <3>2
    <3>4. x < y
      <4> HIDE DEF x, y, n
      <4> QED  BY <3>3
    <3> QED  BY <3>4
  <2>3. CASE i \in keep + 1 .. Len(r) /\ j \in keep + 1 .. Len(r)
    <3>1. path[i].seq = s.next + (i - keep) - 1 /\ path[j].seq = s.next + (j - keep) - 1
      BY <1>7, <2>3
    <3>2. s.next + (i - keep) - 1 < s.next + (j - keep) - 1
      BY <1>1, <1>4, <1>11
    <3> QED  BY <3>1, <3>2
  <2>4. CASE i \in keep + 1 .. Len(r) /\ j \in 1 .. keep
    BY <1>1, <1>4, <1>11, <2>4
  <2>5. (i \in 1 .. keep \/ i \in keep + 1 .. Len(r)) /\ (j \in 1 .. keep \/ j \in keep + 1 .. Len(r))
    BY <1>8
  <2> QED  BY <2>1, <2>2, <2>3, <2>4, <2>5
<1>12. Along(path) = r
  <2>1. Along(path) \in Seq(States) /\ Len(Along(path)) = Len(r)
        /\ \A i \in 1 .. Len(r) : Along(path)[i] = r[i]
    BY <1>5, <1>9, AlongIs
  <2> QED  BY <1>4, <2>1, SeqEqual
<1>13. IsLeaf(d, path[Len(path)].state)
  <2>1. Len(r) \in 1 .. Len(r)
    BY <1>0, <1>4
  <2> QED  BY <1>0, <1>5, <1>9, <2>1
<1>14. LegalPath(d, path, s.next + Len(entered))
  BY <1>0, <1>5, <1>10, <1>11, <1>12, <1>13 DEF LegalPath
<1> QED  BY <1>3, <1>4, <1>5, <1>6, <1>7, <1>9, <1>14 DEF a, b, old

-----------------------------------------------------------------------------
(* A transition *)

(* The state whose path a transition leaves alone: nothing below it stays.   *)
Boundary(d, t) ==
    IF t.kind = "Local" THEN t.source ELSE StrictCommonAncestor(d, t.source, t.target)

(* The types of a transition out of s. *)
LEMMA OwnIs ==
    ASSUME NEW d, Compiled(d), NEW s, NEW t \in Own(d, s)
    PROVE  /\ t \in Transitions /\ t.source = s /\ t.source \in States /\ t.actions \in Nat
           /\ t.kind \in {"Internal", "Local", "External"} /\ t.guard \in Guards \cup {NoGuard}
           /\ t.kind # "Internal" => t.target \in States
           /\ t.kind = "Local" => IsStrictDescendant(d, t.target, t.source)
           /\ \E i \in DOMAIN d.transitions : t = d.transitions[i]
<1>1. PICK i \in DOMAIN d.transitions : t = d.transitions[i]
  BY DEF Own, ToSet
<1>2. t \in Transitions
  BY <1>1, CompiledTyped
<1>3. t.kind = "Local" => IsStrictDescendant(d, t.target, t.source)
  BY <1>1 DEF Compiled, Compiles, LocalTargetsFit
<1> QED  BY <1>1, <1>2, <1>3 DEF Transitions, Own

(* What survives a transition is the path down to its boundary. *)
LEMMA KeptIs ==
    ASSUME NEW d, Compiled(d), NEW s, LegalPath(d, s.path, s.next),
           NEW level \in 1 .. Len(s.path), NEW t \in Own(d, s.path[level].state),
           NEW keep, keep = Kept(d, s, level, t), NEW boundary, boundary = Boundary(d, t)
    PROVE  /\ t.kind = "Internal" => keep = Len(s.path)
           /\ t.kind # "Internal" =>
                 /\ boundary # NoState => /\ boundary \in Above(d, t.target) \ {t.target}
                                          /\ boundary \in Above(d, t.source)
                 /\ keep = Level(d, boundary) /\ keep \in 0 .. level
                 /\ boundary = IF keep = 0 THEN NoState ELSE s.path[keep].state
                 /\ keep # 0 => keep \in 1 .. Len(s.path)
                 /\ t.kind = "External" => keep < level
                 /\ t.kind = "Local" => keep = level
<1> DEFINE path == s.path
           x == path[level].state
           S == {i \in DOMAIN path : path[i].state = boundary} \cup {0}
<1>1. path \in Seq(Activations) /\ Len(path) \in Nat /\ DOMAIN path = 1 .. Len(path)
  BY DEF LegalPath
<1>2. /\ x \in States /\ DepthOf(d, x) = level
      /\ \A k \in 1 .. level : Up(d, x)[k] = path[level - k + 1].state
  BY PathDepth
<1>3. /\ t.source = x /\ t.kind \in {"Internal", "Local", "External"}
      /\ t.kind # "Internal" => t.target \in States
      /\ t.kind = "Local" => IsStrictDescendant(d, t.target, t.source)
  BY OwnIs
<1>4. CASE t.kind = "Internal"
  BY <1>4 DEF Kept
<1>5. CASE t.kind = "Local"
  <2>1. keep = level /\ boundary = x
    BY <1>3, <1>5 DEF Kept, Boundary
  <2>2. x \in Above(d, t.target) /\ x # t.target
    BY <1>3, <1>5, StrictIsAbove
  <2>3. x \in Above(d, x) /\ x # NoState /\ Level(d, x) = level
    BY <1>2, SelfIsAbove, SomeStates DEF Level
  <2> QED  BY <1>1, <1>2, <1>3, <1>5, <2>1, <2>2, <2>3
<1>6. CASE t.kind = "External"
  <2>1. boundary = StrictCommonAncestor(d, x, t.target) /\ t.target \in States
    BY <1>3, <1>6 DEF Boundary
  <2>2. keep = Max(S)
    BY <1>3, <1>6, <2>1 DEF Kept
  <2> HIDE DEF x
  <2>3. boundary # NoState => boundary \in Above(d, x) \ {x} /\ boundary \in Above(d, t.target) \ {t.target}
    BY <1>2, <2>1, CommonAncestor
  <2>4. ASSUME NEW i \in 1 .. Len(path), path[i].state = boundary
        PROVE  boundary # NoState /\ i = DepthOf(d, boundary)
    BY <2>4, PathDepth, SomeStates
  <2>5. CASE boundary = NoState
    <3>1. S = {0}
      BY <1>1, <2>4, <2>5
    <3>2. keep = 0
      <4>1. {0} \in SUBSET Nat /\ {0} # {} /\ 0 \in Nat /\ \A y \in {0} : y <= 0
        OBVIOUS
      <4>2. Max({0}) \in {0}
        BY <4>1, MaxIsGreatest
      <4> QED  BY <2>2, <3>1, <4>2
    <3> QED  BY <1>1, <1>3, <1>6, <2>5, <3>2 DEF Level
  <2>6. CASE boundary # NoState
    <3> DEFINE k == DepthOf(d, boundary)
    <3>1. /\ k \in 1 .. DepthOf(d, x) /\ Up(d, x)[DepthOf(d, x) - k + 1] = boundary
          /\ k = DepthOf(d, x) => boundary = x
      BY <1>2, <2>3, <2>6, AncestorAt
    <3> HIDE DEF k
    <3>2. k \in 1 .. level /\ k # level /\ level \in Nat /\ k \in 1 .. Len(path)
      BY <1>1, <1>2, <2>3, <2>6, <3>1
    <3>3. path[k].state = boundary
      <4>1. level - k + 1 \in 1 .. level /\ level - (level - k + 1) + 1 = k
        BY <3>2
      <4> QED  BY <1>2, <3>1, <4>1
    <3>4. S = {k, 0}
      BY <1>1, <2>4, <3>2, <3>3 DEF k
    <3>5. keep = k
      <4>1. {k, 0} \in SUBSET Nat /\ {k, 0} # {} /\ k \in Nat /\ \A y \in {k, 0} : y <= k
        BY <3>2
      <4>2. Max({k, 0}) \in {k, 0} /\ \A y \in {k, 0} : y <= Max({k, 0})
        BY <4>1, MaxIsGreatest
      <4> HIDE DEF S
      <4> QED  BY <2>2, <3>2, <3>4, <4>2
    <3>6. Level(d, boundary) = k
      BY <2>6 DEF Level, k
    <3>7. keep # 0 /\ keep \in 0 .. level /\ keep \in 1 .. Len(path) /\ keep < level
      BY <3>2, <3>5
    <3> QED  BY <1>3, <1>6, <2>3, <2>6, <3>3, <3>5, <3>6, <3>7 DEF x
  <2> QED  BY <2>5, <2>6
<1> QED  BY <1>3, <1>4, <1>5, <1>6

(* What a transition leaves on the path. *)
KeptPath(d, s, level, t) == SubSeq(s.path, 1, Kept(d, s, level, t))

EnteredBy(d, t) == IF t.kind = "Internal" THEN <<>> ELSE Entered(d, t.target, Boundary(d, t))

(* A transition, written with what it keeps and what it enters. *)
LEMMA TransitionIs ==
    ASSUME NEW d, Compiled(d), NEW s, LegalPath(d, s.path, s.next),
           NEW level \in 1 .. Len(s.path), NEW t \in Own(d, s.path[level].state)
    PROVE  /\ EnteredBy(d, t) \in Seq(States)
           /\ Transition(d, s, level, t) =
                 Planned(d, s, "Transitioned", KeptPath(d, s, level, t),
                    Append(Exits(d, SubSeq(s.path, Kept(d, s, level, t) + 1, Len(s.path))),
                           Records("Transition", s.path[level], t.actions)),
                    EnteredBy(d, t))
<1> DEFINE keep == Kept(d, s, level, t)
           kept == SubSeq(s.path, 1, keep)
           edge == IF keep = 0 THEN NoState ELSE Last(kept).state
           boundary == Boundary(d, t)
<1>1. s.path \in Seq(Activations) /\ Len(s.path) \in Nat
  BY DEF LegalPath
<1>2. CASE t.kind = "Internal"
  BY <1>2, EmptySeq, Zenon DEF Transition, KeptPath, EnteredBy
<1>3. CASE t.kind # "Internal"
  <2>1. /\ boundary # NoState => boundary \in Above(d, t.target)
        /\ boundary = IF keep = 0 THEN NoState ELSE s.path[keep].state
        /\ keep # 0 => keep \in 1 .. Len(s.path)
    BY <1>3, KeptIs
  <2>2. t.target \in States
    BY <1>3, OwnIs
  <2> HIDE DEF keep, boundary
  <2>3. edge = boundary
    <3>1. CASE keep = 0
      BY <2>1, <3>1
    <3>2. CASE keep # 0
      <4>1. keep \in 1 .. Len(s.path) /\ \A i \in 1 .. keep : s.path[i] \in Activations
        BY <1>1, <2>1, <3>2
      <4>2. /\ Len(kept) = IF 1 <= keep THEN keep - 1 + 1 ELSE 0
            /\ \A i \in 1 .. keep - 1 + 1 : kept[i] = s.path[1 + i - 1]
        BY <4>1, SubSeqProperties
      <4> HIDE DEF kept
      <4>3. Len(kept) = keep /\ keep \in 1 .. keep - 1 + 1 /\ 1 + keep - 1 = keep
        BY <1>1, <4>1, <4>2
      <4>4. Last(kept) = s.path[keep]
        BY <4>2, <4>3 DEF Last
      <4> QED  BY <2>1, <3>2, <4>4
    <3> QED  BY <3>1, <3>2
  <2>4. Entered(d, t.target, boundary) \in Seq(States)
    BY <2>1, <2>2, EnteredIsRest
  <2>5. EnteredBy(d, t) = Reverse(UpTo(d, t.target, edge)) \o InitialChain(d, t.target)
    <3> HIDE DEF edge
    <3> QED  BY <1>3, <2>3 DEF EnteredBy, Entered, boundary
  <2>6. EnteredBy(d, t) \in Seq(States)
    BY <1>3, <2>4 DEF EnteredBy, boundary
  <2>7. Transition(d, s, level, t) =
                 Planned(d, s, "Transitioned", kept,
                    Append(Exits(d, SubSeq(s.path, keep + 1, Len(s.path))),
                           Records("Transition", s.path[level], t.actions)),
                    Reverse(UpTo(d, t.target, edge)) \o InitialChain(d, t.target))
    BY <1>3, Zenon DEF Transition, keep
  <2> QED  BY <2>5, <2>6, <2>7 DEF KeptPath, keep
<1> QED  BY <1>2, <1>3

(* n is the snapshot after s: its activations are those of s or new. *)
Follows(d, s, n) ==
    /\ Legal(d, n) /\ s.next <= n.next
    /\ \A i \in 1 .. Len(n.path) :
          n.path[i].seq >= s.next \/ (i \in 1 .. Len(s.path) /\ n.path[i] = s.path[i])

(* The fields of a snapshot that has moved on. *)
LEMMA MovedTo ==
    ASSUME NEW s \in Snapshots, NEW p \in Seq(Activations), NEW l \in Nat
    PROVE  /\ Advance(s, p, l) \in Snapshots /\ Advance(s, p, l).path = p
           /\ Advance(s, p, l).next = s.next + l /\ s.next + l \in Nat
           /\ Advance(s, p, l).lifecycle = s.lifecycle /\ Advance(s, p, l).epoch = s.epoch
<1> DEFINE n == Advance(s, p, l)
<1>0. n = [s EXCEPT !.step = @ + 1, !.next = @ + l, !.path = p]
  BY DEF Advance
<1> HIDE DEF n
<1>1. s = [lifecycle |-> s.lifecycle, epoch |-> s.epoch, step |-> s.step, next |-> s.next,
           path |-> s.path]
  BY DEF Snapshots
<1>2. n = [lifecycle |-> s.lifecycle, epoch |-> s.epoch, step |-> s.step + 1,
           next |-> s.next + l, path |-> p]
  BY <1>0, <1>1
<1>3. /\ s.step + 1 \in Nat /\ s.next + l \in Nat /\ s.epoch \in Nat
      /\ s.lifecycle \in {"NotStarted", "Running", "Stopped"}
  BY DEF Snapshots
<1>4. n \in Snapshots
  BY <1>2, <1>3 DEF Snapshots
<1> QED  BY <1>2, <1>3, <1>4 DEF n

(* And of one that has entered states. *)
LEMMA MovedIs ==
    ASSUME NEW s \in Snapshots, NEW kept \in Seq(Activations), NEW entered \in Seq(States)
    PROVE  /\ Moved(s, kept, entered) \in Snapshots
           /\ Moved(s, kept, entered).path = kept \o Activated(s, entered)
           /\ Moved(s, kept, entered).next = s.next + Len(entered)
           /\ s.next + Len(entered) \in Nat
           /\ Moved(s, kept, entered).lifecycle = s.lifecycle
           /\ Moved(s, kept, entered).epoch = s.epoch
<1>1. kept \o Activated(s, entered) \in Seq(Activations)
  <2>1. Activated(s, entered) \in Seq(Activations)
    BY ActivatedIs
  <2> QED  BY ONLY <2>1, kept \in Seq(Activations), ConcatProperties
<1>2. Len(entered) \in Nat
  OBVIOUS
<1> QED  BY <1>1, <1>2, MovedTo DEF Moved

(* A transition that keeps all of the path and enters nothing keeps it. *)
LEMMA StayedIs ==
    ASSUME NEW d, NEW s, Legal(d, s), NEW n, n = Moved(s, SubSeq(s.path, 1, Len(s.path)), <<>>)
    PROVE  Follows(d, s, n) /\ n.path = s.path /\ n.epoch = s.epoch
<1>1. s \in Snapshots /\ s.path \in Seq(Activations) /\ s.next \in Nat
  BY DEF Legal, Snapshots
<1>2. SubSeq(s.path, 1, Len(s.path)) = s.path
  BY <1>1, SubSeqFull
<1>3. <<>> \in Seq(States) /\ Len(<<>>) = 0 /\ Activated(s, <<>>) = <<>>
  <2>1. <<>> \in Seq(States) /\ Len(<<>>) = 0
    BY EmptySeq
  <2>2. Activated(s, <<>>) \in Seq(Activations) /\ Len(Activated(s, <<>>)) = 0
    BY <1>1, <2>1, ActivatedIs
  <2> QED  BY <2>1, <2>2, EmptySeq
<1>4. n \in Snapshots /\ n.path = s.path \o <<>> /\ n.next = s.next + 0
      /\ n.lifecycle = s.lifecycle /\ n.epoch = s.epoch
  <2> DEFINE e == <<>>
             p == s.path
  <2>1. p \in Seq(Activations) /\ e \in Seq(States) /\ n = Moved(s, p, e)
    BY <1>1, <1>2, <1>3
  <2>2. Activated(s, e) = e /\ Len(e) = 0
    BY <1>3
  <2> HIDE DEF e, p
  <2>3. /\ Moved(s, p, e) \in Snapshots /\ Moved(s, p, e).path = p \o Activated(s, e)
        /\ Moved(s, p, e).next = s.next + Len(e)
        /\ Moved(s, p, e).lifecycle = s.lifecycle /\ Moved(s, p, e).epoch = s.epoch
    BY <1>1, <2>1, MovedIs
  <2>4. p \o e = p \o <<>>
    BY DEF e
  <2> QED  BY <2>1, <2>2, <2>3, <2>4 DEF p
<1>5. n.path = s.path /\ n.next = s.next
  BY <1>1, <1>4, ConcatEmptySeq
<1> QED  BY <1>1, <1>4, <1>5 DEF Follows, Legal

-----------------------------------------------------------------------------
(* Start and stop *)

Refusals == {"InvalidSnapshot", "LifecycleViolation", "CounterOverflow", "StaleDelivery",
             "UnknownEvent", "GuardMissing"}

(* A refusal is a rejection. *)
LEMMA RejectedIs == \A error \in Refusals : IsRejected(Rejected(error))
BY DEF Refusals, IsRejected, Rejected

(* The root state is a path of its own. *)
LEMMA RootIs ==
    ASSUME NEW d, Compiled(d)
    PROVE  /\ d.root \in States /\ DepthOf(d, d.root) = 1
           /\ <<d.root>> \o InitialChain(d, d.root) = Entered(d, d.root, NoState)
<1> DEFINE x == d.root
           u == UpTo(d, x, NoState)
           v == Reverse(u)
<1>1. x \in States /\ d.parent[x] = NoState
  BY CompiledTyped DEF Compiled, Compiles
<1> HIDE DEF x
<1>2. DepthOf(d, x) = 1
  <2>1. Chain(d.parent, Up(d, x)) /\ Up(d, x)[1] = x /\ DepthOf(d, x) \in Nat \ {0}
        /\ DepthOf(d, x) = Len(Up(d, x)) /\ Up(d, x) \in Seq(States)
    BY <1>1, UpIsChain, UpTyped DEF DepthOf
  <2>2. ASSUME DepthOf(d, x) # 1 PROVE FALSE
    <3>1. 1 \in 1 .. Len(Up(d, x)) - 1 /\ 1 + 1 \in 1 .. Len(Up(d, x))
      BY <2>1, <2>2
    <3>2. d.parent[x] = Up(d, x)[1 + 1] /\ Up(d, x)[1 + 1] \in States
      BY <2>1, <3>1 DEF Chain
    <3> QED  BY <1>1, <3>2, SomeStates
  <2> QED  BY <2>2
<1>3. u \in Seq(States) /\ Len(u) = 1 /\ u[1] = x
  <2>1. /\ Level(d, NoState) = 0 /\ u \in Seq(States) /\ Len(u) = DepthOf(d, x) - Level(d, NoState)
        /\ \A i \in 1 .. DepthOf(d, x) - Level(d, NoState) : u[i] = Up(d, x)[i]
    BY <1>1, UpToIs DEF Level
  <2>2. Up(d, x)[1] = x /\ 1 \in 1 .. 1 - 0
    BY <1>1, UpTyped
  <2> HIDE DEF u
  <2> QED  BY <1>2, <2>1, <2>2
<1> HIDE DEF u
<1>4. v \in Seq(States) /\ Len(v) = 1 /\ v[1] = x
  <2>1. /\ v \in Seq(States) /\ Len(v) = Len(u)
        /\ \A i \in 1 .. Len(u) : v[i] = u[Len(u) - i + 1]
    BY <1>3, ReverseIs
  <2>2. 1 \in 1 .. 1 /\ 1 - 1 + 1 = 1
    OBVIOUS
  <2> HIDE DEF v
  <2> QED  BY <1>3, <2>1, <2>2
<1> HIDE DEF v
<1>5. v = <<x>>
  <2>1. <<x>> \in Seq(States) /\ Len(<<x>>) = 1 /\ <<x>>[1] = x
    BY <1>1
  <2> HIDE DEF v
  <2> QED  BY <1>4, <2>1, SeqEqual
<1> QED  BY <1>1, <1>2, <1>5 DEF Entered, u, v, x

(* A started machine is on the path through the root. *)
Started(s, given) == [Resumed(s) EXCEPT !.epoch = given, !.lifecycle = "Running"]

(* The fields of a snapshot that has been started. *)
LEMMA StartedIs ==
    ASSUME NEW s \in Snapshots, NEW e \in Nat
    PROVE  /\ Started(s, e) \in Snapshots /\ Started(s, e).path = s.path
           /\ Started(s, e).next = s.next /\ Started(s, e).lifecycle = "Running"
           /\ Started(s, e).epoch = e
<1> DEFINE n == Started(s, e)
<1>0. n = [s EXCEPT !.epoch = e, !.lifecycle = "Running"]
  BY DEF Started, Resumed
<1> HIDE DEF n
<1>1. s = [lifecycle |-> s.lifecycle, epoch |-> s.epoch, step |-> s.step, next |-> s.next,
           path |-> s.path]
  BY DEF Snapshots
<1>2. n = [lifecycle |-> "Running", epoch |-> e, step |-> s.step, next |-> s.next,
           path |-> s.path]
  BY <1>0, <1>1
<1>3. s.step \in Nat /\ s.next \in Nat /\ s.path \in Seq(Activations)
  BY DEF Snapshots
<1>4. n \in Snapshots
  BY <1>2, <1>3 DEF Snapshots
<1> QED  BY <1>2, <1>3, <1>4 DEF n

(* start enters the path of the root, and nothing is active before. *)
LEMMA StartIs ==
    ASSUME NEW d, Compiled(d), NEW s, Legal(d, s), NEW e \in Nat,
           NEW plan, plan = Start(d, s, e), ~IsRejected(plan)
    PROVE  /\ s.path = <<>> /\ Follows(d, s, plan.next) /\ plan.next.epoch = e
           /\ plan.next.path # <<>>
           /\ plan.records = <<>> \o Enters(d, Activated(Started(s, e), Entered(d, d.root, NoState)))
<1> DEFINE s1 == Started(s, e)
           entered == Entered(d, d.root, NoState)
           r == Route(d, d.root)
           n == plan.next
<1>1. s \in Snapshots /\ s.next \in Nat /\ s.next >= 1 /\ (s.lifecycle = "Running" <=> s.path # <<>>)
      /\ LegalPath(d, s.path, s.next)
  BY DEF Legal, Snapshots
<1>2. s.lifecycle # "Running" /\ plan = Planned(d, s1, "Started", <<>>, <<>>, entered)
  <2>1. plan = IF ~Valid(d, s) THEN Rejected("InvalidSnapshot")
               ELSE IF s.lifecycle = "Running" THEN Rejected("LifecycleViolation")
               ELSE IF s.step = MaxCounter THEN Rejected("CounterOverflow")
               ELSE Planned(d, s1, "Started", <<>>, <<>>, <<d.root>> \o InitialChain(d, d.root))
    BY DEF Start, Started
  <2>2. plan # Rejected("InvalidSnapshot") /\ plan # Rejected("LifecycleViolation")
        /\ plan # Rejected("CounterOverflow")
    BY RejectedIs DEF Refusals
  <2>3. <<d.root>> \o InitialChain(d, d.root) = entered
    BY RootIs
  <2> HIDE DEF entered, s1
  <2> QED  BY <2>1, <2>2, <2>3
<1>3. s.path = <<>>
  BY <1>1, <1>2
<1>4. /\ s1 \in Snapshots /\ s1.path = <<>> /\ s1.next = s.next /\ s1.lifecycle = "Running" /\ s1.epoch = e
  BY <1>1, <1>3, StartedIs
<1>5. d.root \in States /\ DepthOf(d, d.root) = 1 /\ Level(d, NoState) = 0
  BY RootIs DEF Level
<1>6. /\ entered \in Seq(States) /\ Len(entered) = Len(r) - 0
      /\ \A i \in 1 .. Len(entered) : entered[i] = r[0 + i]
  BY <1>5, EnteredIsRest
<1>7. /\ Nested(d, r) /\ Len(r) >= 1 /\ IsLeaf(d, r[Len(r)])
  BY <1>5, RouteIsNested
<1>8. Len(r) \in Nat
  BY <1>7 DEF Nested
<1> HIDE DEF entered, r, s1
<1>9. <<>> \in Seq(Activations) /\ Len(<<>>) = 0 /\ SubSeq(<<>>, 1, 0) = <<>>
  <2>1. <<>> \in Seq(Activations) /\ Len(<<>>) = 0
    BY EmptySeq
  <2>2. SubSeq(<<>>, 1, 0) = <<>>
    BY SubSeqEmpty
  <2> QED  BY <2>1, <2>2
<1>10. /\ n = Moved(s1, <<>>, entered) /\ plan.outcome = "Started"
       /\ plan.records = <<>> \o Enters(d, Activated(s1, entered))
  <2> DEFINE none == <<>>
             outcome == "Started"
  <2>1. s1 \in Snapshots /\ entered \in Seq(States) /\ plan = Planned(d, s1, outcome, none, none, entered)
    BY <1>2, <1>4, <1>6
  <2> HIDE DEF none, outcome
  <2>2. /\ plan.outcome = outcome /\ plan.next = Moved(s1, none, entered)
        /\ plan.records = none \o Enters(d, Activated(s1, entered))
    <3>1. Holds(plan, d, s1, outcome, none, none, entered)
      BY <2>1, PlannedIs
    <3> QED  BY <3>1 DEF Holds
  <2> QED  BY <2>2 DEF none, outcome
<1>11. /\ n \in Snapshots /\ n.path = <<>> \o Activated(s1, entered)
       /\ n.next = s.next + Len(entered)
       /\ n.lifecycle = "Running" /\ n.epoch = e
  <2> DEFINE none == <<>>
  <2>1. s1 \in Snapshots /\ none \in Seq(Activations) /\ entered \in Seq(States)
        /\ n = Moved(s1, none, entered)
    BY <1>4, <1>6, <1>9, <1>10
  <2> HIDE DEF none
  <2>2. /\ Moved(s1, none, entered) \in Snapshots
        /\ Moved(s1, none, entered).path = none \o Activated(s1, entered)
        /\ Moved(s1, none, entered).next = s1.next + Len(entered)
        /\ Moved(s1, none, entered).lifecycle = s1.lifecycle
        /\ Moved(s1, none, entered).epoch = s1.epoch
    BY <2>1, MovedIs
  <2> HIDE DEF n
  <2> QED  BY <1>4, <2>1, <2>2 DEF none
<1> HIDE DEF n
<1>12. /\ LegalPath(d, n.path, s.next + Len(entered)) /\ Len(n.path) = Len(r)
       /\ \A i \in 1 .. Len(r) : n.path[i].seq = s.next + (i - 0) - 1
  <2> DEFINE keep == 0
             path == n.path
  <2>1. Rejoins(d, s1, keep, r, entered)
    BY <1>1, <1>3, <1>4, <1>6, <1>7, <1>8, <1>9 DEF Rejoins
  <2>2. path = Rejoined(s1, keep, entered)
    BY <1>4, <1>9, <1>11 DEF Rejoined
  <2>3. keep = 0
    OBVIOUS
  <2> HIDE DEF keep, path
  <2>4. /\ LegalPath(d, path, s1.next + Len(entered)) /\ Len(path) = Len(r)
        /\ \A i \in keep + 1 .. Len(r) : path[i].seq = s1.next + (i - keep) - 1
    BY ONLY <2>1, <2>2, JoinedIs
  <2> QED  BY <1>4, <2>3, <2>4 DEF path
<1>13. /\ n.path # <<>> /\ s.next <= n.next /\ n.next >= 1
  <2>1. n.path \in Seq(Activations)
    BY <1>12 DEF LegalPath
  <2>2. n.path # <<>>
    BY <1>7, <1>12, <2>1
  <2>3. s.next <= n.next /\ n.next >= 1
    <3>1. Len(entered) \in Nat
      BY <1>6
    <3> QED  BY <1>1, <1>11, <3>1
  <2> QED  BY <2>2, <2>3
<1>14. \A i \in 1 .. Len(n.path) : n.path[i].seq >= s.next
  <2>1. \A i \in 1 .. Len(r) : s.next + (i - 0) - 1 >= s.next
    BY <1>1, <1>8
  <2> QED  BY <1>12, <2>1
<1>15. Legal(d, n)
  BY <1>11, <1>12, <1>13 DEF Legal
<1>16. Follows(d, s, n)
  BY <1>13, <1>14, <1>15 DEF Follows
<1> QED  BY <1>3, <1>10, <1>11, <1>13, <1>16 DEF n, s1, entered

(* stop leaves the whole path. *)
LEMMA StopIs ==
    ASSUME NEW d, Compiled(d), NEW s, Legal(d, s), NEW plan, plan = Stop(d, s), ~IsRejected(plan)
    PROVE  /\ s.lifecycle = "Running" /\ Follows(d, s, plan.next)
           /\ plan.next.path = <<>> /\ plan.records = Exits(d, s.path)
<1> DEFINE n == plan.next
<1>1. /\ s \in Snapshots /\ s.next \in Nat /\ s.next >= 1 /\ s.step \in Nat /\ s.epoch \in Nat
  BY DEF Legal, Snapshots
<1>2. /\ s.lifecycle = "Running"
      /\ plan = [outcome |-> "Stopped", records |-> Exits(d, s.path),
                 next |-> [s EXCEPT !.step = @ + 1, !.lifecycle = "Stopped", !.path = <<>>]]
  <2>1. plan = IF ~Valid(d, s) THEN Rejected("InvalidSnapshot")
               ELSE IF s.lifecycle # "Running" THEN Rejected("LifecycleViolation")
               ELSE IF s.step = MaxCounter THEN Rejected("CounterOverflow")
               ELSE [outcome |-> "Stopped", records |-> Exits(d, s.path),
                     next |-> [s EXCEPT !.step = @ + 1, !.lifecycle = "Stopped", !.path = <<>>]]
    BY DEF Stop
  <2>2. plan # Rejected("InvalidSnapshot") /\ plan # Rejected("LifecycleViolation")
        /\ plan # Rejected("CounterOverflow")
    BY RejectedIs DEF Refusals
  <2> QED  BY <2>1, <2>2
<1>3. n = [s EXCEPT !.step = @ + 1, !.lifecycle = "Stopped", !.path = <<>>] /\ plan.records = Exits(d, s.path)
  BY <1>2
<1> HIDE DEF n
<1>4. s = [lifecycle |-> s.lifecycle, epoch |-> s.epoch, step |-> s.step, next |-> s.next,
           path |-> s.path]
  BY <1>1 DEF Snapshots
<1>5. n = [lifecycle |-> "Stopped", epoch |-> s.epoch, step |-> s.step + 1, next |-> s.next,
           path |-> <<>>]
  BY <1>3, <1>4
<1>6. <<>> \in Seq(Activations) /\ Len(<<>>) = 0
  BY EmptySeq
<1>7. n \in Snapshots
  BY <1>1, <1>5, <1>6 DEF Snapshots
<1>8. LegalPath(d, <<>>, s.next)
  <2>1. Along(<<>>) = <<>>
    BY <1>6, AlongIs, EmptySeq
  <2>2. Nested(d, <<>>)
    BY EmptySeq DEF Nested
  <2> QED  BY <1>6, <2>1, <2>2 DEF LegalPath
<1>9. Legal(d, n)
  BY <1>1, <1>5, <1>7, <1>8 DEF Legal
<1>10. Follows(d, s, n)
  BY <1>1, <1>5, <1>6, <1>9 DEF Follows
<1> QED  BY <1>2, <1>3, <1>5, <1>10 DEF n

-----------------------------------------------------------------------------
(* An event *)

(* What a transition of the path leads to. *)
LEMMA MoveIs ==
    ASSUME NEW d, Compiled(d), NEW s, Legal(d, s),
           NEW level \in 1 .. Len(s.path), NEW t \in Own(d, s.path[level].state),
           NEW keep, keep = Kept(d, s, level, t),
           NEW n, n = Moved(s, KeptPath(d, s, level, t), EnteredBy(d, t))
    PROVE  /\ Follows(d, s, n) /\ n.epoch = s.epoch
           /\ t.kind = "Internal" => n.path = s.path /\ EnteredBy(d, t) = <<>>
           /\ t.kind # "Internal" => /\ Rejoins(d, s, keep, Route(d, t.target), EnteredBy(d, t))
                                     /\ n.path = Rejoined(s, keep, EnteredBy(d, t))
<1>1. /\ s \in Snapshots /\ s.next \in Nat /\ s.next >= 1 /\ (s.lifecycle = "Running" <=> s.path # <<>>)
      /\ LegalPath(d, s.path, s.next) /\ s.path \in Seq(Activations) /\ Len(s.path) \in Nat
  BY DEF Legal, Snapshots
<1>2. CASE t.kind = "Internal"
  <2>1. keep = Len(s.path)
    BY <1>1, <1>2, KeptIs
  <2>2. EnteredBy(d, t) = <<>> /\ n = Moved(s, SubSeq(s.path, 1, Len(s.path)), <<>>)
    BY <1>2, <2>1 DEF EnteredBy, KeptPath
  <2>3. Follows(d, s, n) /\ n.path = s.path /\ n.epoch = s.epoch
    BY <2>2, StayedIs
  <2> QED  BY <1>2, <2>2, <2>3
<1>3. CASE t.kind # "Internal"
  <2> DEFINE boundary == Boundary(d, t)
             target == t.target
             r == Route(d, target)
             entered == EnteredBy(d, t)
             path == n.path
  <2>1. /\ boundary # NoState => boundary \in Above(d, target) \ {target}
        /\ keep = Level(d, boundary) /\ keep \in 0 .. level
        /\ boundary = IF keep = 0 THEN NoState ELSE s.path[keep].state
        /\ keep # 0 => keep \in 1 .. Len(s.path)
    BY <1>1, <1>3, KeptIs
  <2>2. target \in States
    BY <1>3, OwnIs
  <2>3. entered = Entered(d, target, boundary)
    BY <1>3 DEF EnteredBy
  <2> HIDE DEF boundary, target, r, entered
  <2>4. /\ entered \in Seq(States) /\ Len(entered) = Len(r) - keep
        /\ \A i \in 1 .. Len(entered) : entered[i] = r[keep + i]
    <3>1. /\ Entered(d, target, boundary) \in Seq(States)
          /\ Len(Entered(d, target, boundary)) = Len(Route(d, target)) - Level(d, boundary)
          /\ \A i \in 1 .. Len(Entered(d, target, boundary)) :
                 Entered(d, target, boundary)[i] = Route(d, target)[Level(d, boundary) + i]
      <4>1. boundary # NoState => boundary \in Above(d, target)
        BY <2>1
      <4> QED  BY <2>2, <4>1, EnteredIsRest
    <3> QED  BY <2>1, <2>3, <3>1 DEF r
  <2>5. Nested(d, r) /\ Len(r) >= DepthOf(d, target) /\ IsLeaf(d, r[Len(r)])
        /\ Len(r) \in Nat /\ Len(r) >= 1
    <3>1. Nested(d, r) /\ Len(r) >= DepthOf(d, target) /\ IsLeaf(d, r[Len(r)])
      BY <2>2, RouteIsNested DEF r
    <3>2. DepthOf(d, target) \in Nat \ {0} /\ Len(r) \in Nat
      BY <2>2, <3>1, UpTyped DEF Nested
    <3> QED  BY <3>1, <3>2
  <2>6. keep < Len(r) /\ \A i \in 1 .. keep : s.path[i].state = r[i]
    <3>1. CASE keep = 0
      BY <2>5, <3>1
    <3>2. CASE keep # 0
      <4>1. /\ Len(Along(s.path)) = Len(s.path)
            /\ \A i \in 1 .. Len(s.path) : Along(s.path)[i] = s.path[i].state
        BY <1>1, AlongIs
      <4>2. keep \in 1 .. Len(s.path) /\ Along(s.path)[keep] \in Above(d, target) \ {target}
        <5>1. keep \in 1 .. Len(s.path) /\ boundary = s.path[keep].state
          BY <2>1, <3>2
        <5>2. s.path[keep].state \in States
          BY <1>1, <5>1, AlongIs
        <5>3. boundary \in Above(d, target) \ {target}
          BY <2>1, <5>1, <5>2, SomeStates
        <5> QED  BY <4>1, <5>1, <5>3
      <4>3. keep < Len(r) /\ \A i \in 1 .. keep : Along(s.path)[i] = r[i]
        <5> DEFINE q == Along(s.path)
        <5>1. Nested(d, q) /\ keep \in 1 .. Len(q) /\ q[keep] \in Above(d, target) \ {target}
          BY <1>1, <4>1, <4>2 DEF LegalPath
        <5> HIDE DEF q
        <5>2. /\ keep < Len(Route(d, target))
              /\ \A i \in 1 .. keep : q[i] = Route(d, target)[i]
          BY <2>2, <5>1, RoutesAgree
        <5> QED  BY <5>2 DEF q, r
      <4>4. \A i \in 1 .. keep : i \in 1 .. Len(s.path)
        BY <1>1, <4>2
      <4> QED  BY <4>1, <4>3, <4>4
    <3> QED  BY <3>1, <3>2
  <2>7. keep \in 0 .. Len(s.path)
    BY <1>1, <2>1
  <2>8. Rejoins(d, s, keep, r, entered)
    BY <1>1, <2>4, <2>5, <2>6, <2>7 DEF Rejoins
  <2>9. SubSeq(s.path, 1, keep) \in Seq(Activations) /\ KeptPath(d, s, level, t) = SubSeq(s.path, 1, keep)
    <3>1. \A i \in 1 .. keep : s.path[i] \in Activations
      BY <1>1, <2>7
    <3>2. SubSeq(s.path, 1, keep) \in Seq(Activations)
      BY <2>7, <3>1, SubSeqProperties
    <3> QED  BY <3>2 DEF KeptPath
  <2>10. /\ n \in Snapshots /\ path = Rejoined(s, keep, entered) /\ n.next = s.next + Len(entered)
         /\ n.lifecycle = s.lifecycle /\ n.epoch = s.epoch
    <3> DEFINE kept == SubSeq(s.path, 1, keep)
    <3>1. n = Moved(s, kept, entered) /\ kept \in Seq(Activations)
      BY <2>9 DEF entered
    <3> HIDE DEF kept
    <3>2. /\ Moved(s, kept, entered) \in Snapshots
          /\ Moved(s, kept, entered).path = kept \o Activated(s, entered)
          /\ Moved(s, kept, entered).next = s.next + Len(entered)
          /\ Moved(s, kept, entered).lifecycle = s.lifecycle
          /\ Moved(s, kept, entered).epoch = s.epoch
      BY <1>1, <2>4, <3>1, MovedIs
    <3> QED  BY <3>1, <3>2 DEF kept, Rejoined
  <2> HIDE DEF path
  <2>11. /\ LegalPath(d, path, s.next + Len(entered)) /\ Len(path) = Len(r)
         /\ \A i \in 1 .. keep : path[i] = s.path[i]
         /\ \A i \in keep + 1 .. Len(r) : path[i].seq = s.next + (i - keep) - 1
    BY ONLY <2>8, <2>10, JoinedIs
  <2>12. path # <<>>
    <3>1. path \in Seq(Activations)
      BY <2>11 DEF LegalPath
    <3> QED  BY <2>5, <2>11, <3>1
  <2>13. Len(entered) \in Nat
    BY <2>4
  <2>14. n.next \in Nat /\ n.next >= 1 /\ s.next <= n.next
    BY <1>1, <2>10, <2>13
  <2>15. s.path # <<>>
    BY <1>1
  <2>16. Legal(d, n)
    BY <1>1, <2>10, <2>11, <2>12, <2>14, <2>15 DEF Legal, path
  <2>17. ASSUME NEW i \in 1 .. Len(path)
         PROVE  path[i].seq >= s.next \/ (i \in 1 .. Len(s.path) /\ path[i] = s.path[i])
    <3>1. CASE i <= keep
      <4>1. i \in 1 .. keep /\ i \in 1 .. Len(s.path)
        BY <1>1, <2>7, <3>1
      <4> QED  BY <2>11, <4>1
    <3>2. CASE i > keep
      <4>1. i \in keep + 1 .. Len(r)
        BY <2>7, <2>11, <3>2
      <4>2. path[i].seq = s.next + (i - keep) - 1
        BY <2>11, <4>1
      <4>3. s.next + (i - keep) - 1 >= s.next
        BY <1>1, <2>7, <3>2
      <4> QED  BY <4>2, <4>3
    <3> QED  BY <2>7, <3>1, <3>2
  <2>18. Follows(d, s, n)
    BY <2>14, <2>16, <2>17 DEF Follows, path
  <2> QED  BY <1>3, <2>8, <2>10, <2>18 DEF r, target, entered, path
<1> QED  BY <1>2, <1>3

(* How an event can be answered other than by a refusal. *)
LEMMA EventIs ==
    ASSUME NEW d, NEW s, NEW frame, NEW scope,
           NEW plan, plan = Event(d, s, frame, scope), ~IsRejected(plan)
    PROVE  /\ s.lifecycle = "Running" /\ ~IsStale(s, scope)
           /\ \/ /\ Select(d, s, frame) = <<>>
                 /\ plan = Planned(d, s, "Unhandled", s.path, <<>>, <<>>)
              \/ /\ Select(d, s, frame) # <<>>
                 /\ Head(Select(d, s, frame)).transition.guard \in DOMAIN frame \cup {NoGuard}
                 /\ plan = Transition(d, s, Head(Select(d, s, frame)).level,
                                      Head(Select(d, s, frame)).transition)
<1> DEFINE selected == Select(d, s, frame)
           c == Head(selected)
           refused == {Rejected(error) : error \in Refusals}
<1>1. plan \notin refused
  BY RejectedIs
<1>2. plan = IF ~Valid(d, s) THEN Rejected("InvalidSnapshot")
             ELSE IF s.lifecycle # "Running" THEN Rejected("LifecycleViolation")
             ELSE IF IsStale(s, scope) THEN Rejected("StaleDelivery")
             ELSE IF ~HasEvent(d) THEN Rejected("UnknownEvent")
             ELSE IF ~(RequiredGuards(d, Leaf(s)) \subseteq DOMAIN frame) THEN Rejected("GuardMissing")
             ELSE IF s.step = MaxCounter THEN Rejected("CounterOverflow")
             ELSE IF selected = <<>> THEN Planned(d, s, "Unhandled", s.path, <<>>, <<>>)
             ELSE IF c.transition.guard \notin DOMAIN frame \cup {NoGuard} THEN Rejected("GuardMissing")
             ELSE Transition(d, s, c.level, c.transition)
  BY DEF Event
<1>3. /\ Rejected("InvalidSnapshot") \in refused /\ Rejected("LifecycleViolation") \in refused
      /\ Rejected("StaleDelivery") \in refused /\ Rejected("UnknownEvent") \in refused
      /\ Rejected("GuardMissing") \in refused /\ Rejected("CounterOverflow") \in refused
  BY DEF Refusals
<1> HIDE DEF selected, c, refused
<1>4. /\ s.lifecycle = "Running" /\ ~IsStale(s, scope)
      /\ \/ selected = <<>> /\ plan = Planned(d, s, "Unhandled", s.path, <<>>, <<>>)
         \/ /\ selected # <<>> /\ c.transition.guard \in DOMAIN frame \cup {NoGuard}
            /\ plan = Transition(d, s, c.level, c.transition)
  BY <1>1, <1>2, <1>3
<1> QED  BY <1>4 DEF selected, c

(* The transition an event has selected, carried out. *)
LEMMA TransitionedIs ==
    ASSUME NEW d, Compiled(d), NEW s, Legal(d, s),
           NEW level \in 1 .. Len(s.path), NEW t \in Own(d, s.path[level].state),
           NEW plan, plan = Transition(d, s, level, t), ~IsRejected(plan)
    PROVE  /\ plan.outcome = "Transitioned"
           /\ plan.next = Moved(s, KeptPath(d, s, level, t), EnteredBy(d, t))
           /\ plan.records =
                 Append(Exits(d, SubSeq(s.path, Kept(d, s, level, t) + 1, Len(s.path))),
                        Records("Transition", s.path[level], t.actions))
                    \o Enters(d, Activated(s, EnteredBy(d, t)))
<1> DEFINE kept == KeptPath(d, s, level, t)
           entered == EnteredBy(d, t)
           outcome == "Transitioned"
           before == Append(Exits(d, SubSeq(s.path, Kept(d, s, level, t) + 1, Len(s.path))),
                            Records("Transition", s.path[level], t.actions))
<1>1. s \in Snapshots /\ LegalPath(d, s.path, s.next)
  BY DEF Legal
<1>2. entered \in Seq(States) /\ plan = Planned(d, s, outcome, kept, before, entered)
  BY <1>1, TransitionIs
<1> HIDE DEF kept, entered, outcome, before
<1>3. Holds(plan, d, s, outcome, kept, before, entered)
  BY <1>1, <1>2, PlannedIs
<1>4. plan.outcome = outcome /\ plan.next = Moved(s, kept, entered)
      /\ plan.records = before \o Enters(d, Activated(s, entered))
  BY <1>3 DEF Holds
<1> QED  BY <1>4 DEF kept, entered, outcome, before

(* An event without a candidate leaves the path alone. *)
LEMMA UnhandledIs ==
    ASSUME NEW d, NEW s, Legal(d, s),
           NEW plan, plan = Planned(d, s, "Unhandled", s.path, <<>>, <<>>), ~IsRejected(plan)
    PROVE  /\ plan.outcome = "Unhandled" /\ Follows(d, s, plan.next)
           /\ plan.next.epoch = s.epoch /\ plan.records = <<>> \o Enters(d, Activated(s, <<>>))
<1> DEFINE none == <<>>
           outcome == "Unhandled"
           path == s.path
<1>1. s \in Snapshots /\ none \in Seq(States) /\ plan = Planned(d, s, outcome, path, none, none)
  BY EmptySeq DEF Legal
<1>2. SubSeq(s.path, 1, Len(s.path)) = path
  BY SubSeqFull DEF Legal, Snapshots
<1> HIDE DEF none, outcome, path
<1>3. Holds(plan, d, s, outcome, path, none, none)
  BY <1>1, PlannedIs
<1>4. plan.outcome = outcome /\ plan.next = Moved(s, path, none)
      /\ plan.records = none \o Enters(d, Activated(s, none))
  BY <1>3 DEF Holds
<1>5. plan.next = Moved(s, SubSeq(s.path, 1, Len(s.path)), <<>>)
  BY <1>2, <1>4 DEF none
<1>6. Follows(d, s, plan.next) /\ plan.next.epoch = s.epoch
  BY <1>5, StayedIs
<1> QED  BY <1>4, <1>6 DEF none, outcome

(* Whatever the event does, the next snapshot follows the present one. *)
LEMMA EventFollows ==
    ASSUME NEW d, Compiled(d), NEW s, Legal(d, s), NEW frame, NEW scope,
           NEW plan, plan = Event(d, s, frame, scope), ~IsRejected(plan)
    PROVE  s.lifecycle = "Running" /\ Follows(d, s, plan.next) /\ plan.next.epoch = s.epoch
<1>1. s.lifecycle = "Running"
  BY EventIs
<1>2. CASE plan = Planned(d, s, "Unhandled", s.path, <<>>, <<>>)
  BY <1>1, <1>2, UnhandledIs
<1>3. CASE /\ Select(d, s, frame) # <<>>
           /\ plan = Transition(d, s, Head(Select(d, s, frame)).level,
                                Head(Select(d, s, frame)).transition)
  <2> DEFINE c == Head(Select(d, s, frame))
             level == c.level
             t == c.transition
  <2>1. s.path \in Seq(Activations) /\ plan = Transition(d, s, level, t)
    BY <1>3 DEF Legal, Snapshots
  <2>2. level \in 1 .. Len(s.path) /\ t \in Own(d, s.path[level].state)
    BY <1>3, <2>1, SelectIs
  <2> HIDE DEF level, t, c
  <2>3. plan.next = Moved(s, KeptPath(d, s, level, t), EnteredBy(d, t))
    BY <2>1, <2>2, TransitionedIs
  <2>4. Follows(d, s, plan.next) /\ plan.next.epoch = s.epoch
    BY <2>2, <2>3, MoveIs
  <2> QED  BY <1>1, <2>4
<1> QED  BY <1>2, <1>3, EventIs

-----------------------------------------------------------------------------
(* The invariant *)

Scoped == [state : States, seq : Nat, epoch : Nat]

(* The activations in S are over: of a past epoch, or of a past number and   *)
(* not on the path of s.                                                     *)
Over(S, s, e) ==
    \A x \in S : /\ x \in Scoped /\ x.epoch <= e
                 /\ x.epoch = e => x.seq < s.next
                 /\ x \notin Tokens(s)

(* The activations of a snapshot. *)
LEMMA TokenIs ==
    ASSUME NEW s \in Snapshots
    PROVE  \A x \in Tokens(s) : /\ x \in Scoped
                                /\ \E i \in 1 .. Len(s.path) :
                                      x = [state |-> s.path[i].state, seq |-> s.path[i].seq, epoch |-> s.epoch]
<1>1. s.path \in Seq(Activations) /\ s.epoch \in Nat
  BY DEF Snapshots
<1>2. DOMAIN s.path = 1 .. Len(s.path)
      /\ \A i \in 1 .. Len(s.path) : s.path[i].state \in States /\ s.path[i].seq \in Nat
  BY <1>1, AlongIs
<1> QED  BY <1>1, <1>2 DEF Tokens, Scoped

(* Each entry of its path is one of them. *)
LEMMA IsToken ==
    ASSUME NEW s \in Snapshots, NEW i \in 1 .. Len(s.path)
    PROVE  [state |-> s.path[i].state, seq |-> s.path[i].seq, epoch |-> s.epoch] \in Tokens(s)
BY DEF Tokens, Snapshots

(* What is over stays over, and so is what has just left the path: numbers and*)
(* epochs only rise.                                                         *)
LEMMA OverStays ==
    ASSUME NEW d, NEW s, Legal(d, s), NEW n, Follows(d, s, n),
           NEW e \in Nat, NEW f \in Nat, e <= f, NEW S, Over(S, s, e),
           s.path # <<>> => s.epoch = e /\ f = e, n.path # <<>> => n.epoch = f
    PROVE  Over(S \cup (Tokens(s) \ Tokens(n)), n, f)
<1>1. /\ s \in Snapshots /\ n \in Snapshots /\ s.next \in Nat /\ n.next \in Nat /\ s.next <= n.next
      /\ s.path \in Seq(Activations) /\ n.path \in Seq(Activations)
  BY DEF Legal, Follows, Snapshots
<1>2. ASSUME NEW x \in S
      PROVE  x \in Scoped /\ x.epoch <= f /\ (x.epoch = f => x.seq < n.next) /\ x \notin Tokens(n)
  <2>1. x \in Scoped /\ x.epoch <= e /\ (x.epoch = e => x.seq < s.next) /\ x \notin Tokens(s)
        /\ x.epoch \in Nat /\ x.seq \in Nat
    BY DEF Over, Scoped
  <2>2. x.epoch <= f /\ (x.epoch = f => x.epoch = e /\ x.seq < s.next)
    BY <2>1
  <2>3. x.seq < s.next => x.seq < n.next
    <3> DEFINE a == s.next
               b == n.next
               c == x.seq
    <3>1. a \in Nat /\ b \in Nat /\ c \in Nat /\ a <= b
      BY <1>1, <2>1
    <3>2. c < a => c < b
      <4> HIDE DEF a, b, c
      <4> QED  BY <3>1
    <3> QED  BY <3>2
  <2>4. ASSUME x \in Tokens(n) PROVE FALSE
    <3>1. PICK i \in 1 .. Len(n.path) :
             x = [state |-> n.path[i].state, seq |-> n.path[i].seq, epoch |-> n.epoch]
      BY <1>1, <2>4, TokenIs
    <3>2. n.path # <<>>
      BY <3>1
    <3>3. x.epoch = f /\ x.seq = n.path[i].seq /\ x.seq < s.next
      BY <2>2, <3>1, <3>2
    <3>4. i \in 1 .. Len(s.path) /\ n.path[i] = s.path[i]
      <4>1. n.path[i].seq >= s.next \/ (i \in 1 .. Len(s.path) /\ n.path[i] = s.path[i])
        BY DEF Follows
      <4>2. ~(x.seq >= s.next)
        <5> DEFINE a == s.next
                   c == x.seq
        <5>1. a \in Nat /\ c \in Nat /\ c < a
          BY <1>1, <2>1, <3>3
        <5>2. ~(c >= a)
          <6> HIDE DEF a, c
          <6> QED  BY <5>1
        <5> QED  BY <5>2
      <4> QED  BY <3>3, <4>1, <4>2
    <3>5. s.path # <<>>
      BY <3>4
    <3>6. n.epoch = s.epoch
      BY <3>2, <3>5
    <3>7. [state |-> s.path[i].state, seq |-> s.path[i].seq, epoch |-> s.epoch] \in Tokens(s)
      BY <1>1, <3>4, IsToken
    <3> QED  BY <2>1, <3>1, <3>4, <3>6, <3>7
  <2> QED  BY <2>1, <2>2, <2>3, <2>4
<1>3. ASSUME NEW x \in Tokens(s)
      PROVE  x \in Scoped /\ x.epoch <= f /\ (x.epoch = f => x.seq < n.next)
  <2>1. PICK i \in 1 .. Len(s.path) :
             x = [state |-> s.path[i].state, seq |-> s.path[i].seq, epoch |-> s.epoch]
    BY <1>1, <1>3, TokenIs
  <2>2. s.path # <<>>
    BY <2>1
  <2>3. x.epoch = f /\ x.seq = s.path[i].seq
    BY <2>1, <2>2
  <2>4. s.path[i].seq < s.next /\ s.path[i].seq \in Nat
    BY <1>1, AlongIs DEF Legal, LegalPath
  <2>5. x.seq < n.next
    <3> DEFINE a == s.next
               b == n.next
               c == x.seq
    <3>1. a \in Nat /\ b \in Nat /\ c \in Nat /\ a <= b /\ c < a
      BY <1>1, <2>3, <2>4
    <3>2. c < b
      <4> HIDE DEF a, b, c
      <4> QED  BY <3>1
    <3> QED  BY <3>2
  <2> QED  BY <1>1, <1>3, <2>3, <2>5, TokenIs
<1> QED  BY <1>2, <1>3 DEF Over

-----------------------------------------------------------------------------
(* The inductive invariant.                                                  *)
IInv ==
    /\ Compiled(def)
    /\ Legal(def, snap)
    /\ epoch \in Nat
    /\ snap.path # <<>> => snap.epoch = epoch
    /\ Over(ended, snap, epoch)

(* A machine that was not started. *)
LEMMA NotStartedIs ==
    /\ NotStarted \in Snapshots /\ NotStarted.path = <<>> /\ NotStarted.next = 1 /\ Tokens(NotStarted) = {}
    /\ \A d : Legal(d, NotStarted)
<1>1. /\ <<>> \in Seq(Activations) /\ Len(<<>>) = 0
  BY EmptySeq
<1>2. /\ NotStarted \in Snapshots /\ NotStarted.path = <<>> /\ NotStarted.next = 1
      /\ NotStarted.lifecycle = "NotStarted"
  BY <1>1 DEF NotStarted, Snapshots
<1>3. ASSUME NEW d PROVE Legal(d, NotStarted)
  <2>1. Along(<<>>) = <<>>
    BY <1>1, AlongIs, EmptySeq
  <2>2. Nested(d, <<>>)
    BY EmptySeq DEF Nested
  <2>3. LegalPath(d, <<>>, 1)
    BY <1>1, <2>1, <2>2 DEF LegalPath
  <2> QED  BY <1>2, <2>3 DEF Legal
<1>4. Tokens(NotStarted) = {}
  BY <1>1, <1>2 DEF Tokens
<1> QED  BY <1>2, <1>3, <1>4

(* It holds at first. *)
LEMMA InitHolds == Init => IInv
<1> SUFFICES ASSUME Init PROVE IInv
  OBVIOUS
<1>1. Compiled(def)
  BY DefinitionsAssumption DEF Init, Compiled
<1>2. Legal(def, snap) /\ snap.path = <<>> /\ epoch \in Nat
  BY NotStartedIs DEF Init
<1>3. Over(ended, snap, epoch)
  BY DEF Init, Over
<1> QED  BY <1>1, <1>2, <1>3 DEF IInv

(* Adopting a next snapshot that follows the present one keeps it. *)
LEMMA AdoptKeeps ==
    ASSUME IInv, NEW n, Follows(def, snap, n), snap' = n, def' = def,
           epoch' \in Nat, epoch <= epoch', snap.path # <<>> => epoch' = epoch,
           n.path # <<>> => n.epoch = epoch',
           ended' = ended \cup (Tokens(snap) \ Tokens(n))
    PROVE  IInv'
<1>1. Compiled(def') /\ Legal(def', snap')
  BY DEF IInv, Follows
<1>2. Over(ended', snap', epoch')
  <2>1. Legal(def, snap) /\ Over(ended, snap, epoch) /\ (snap.path # <<>> => snap.epoch = epoch /\ epoch' = epoch)
        /\ epoch \in Nat
    BY DEF IInv
  <2>2. Over(ended \cup (Tokens(snap) \ Tokens(n)), n, epoch')
    BY <2>1, OverStays
  <2> QED  BY <2>2
<1> QED  BY <1>1, <1>2 DEF IInv

(* Every step of the host keeps it. *)
LEMMA StepKeeps == IInv /\ [Next]_vars => IInv'
<1> SUFFICES ASSUME IInv, [Next]_vars PROVE IInv'
  OBVIOUS
<1>0. Compiled(def) /\ Legal(def, snap) /\ epoch \in Nat /\ (snap.path # <<>> => snap.epoch = epoch)
      /\ Over(ended, snap, epoch) /\ (snap.lifecycle = "Running" <=> snap.path # <<>>)
  BY DEF IInv, Legal
<1>1. CASE StartMachine
  <2>1. PICK e \in epoch .. MaxEpoch : epoch' = e /\ Adopt(Start(def, snap, e))
    BY <1>1 DEF StartMachine
  <2>2. e \in Nat /\ epoch <= e
    BY <1>0, <2>1, EpochAssumption
  <2>3. ASSUME NEW plan, plan = Start(def, snap, e) PROVE IInv'
    <3>1. ~IsRejected(plan) /\ snap' = plan.next /\ def' = def
          /\ ended' = ended \cup (Tokens(snap) \ Tokens(plan.next))
      BY <2>1, <2>3 DEF Adopt
    <3>2. snap.path = <<>> /\ Follows(def, snap, plan.next) /\ plan.next.epoch = e
      BY <1>0, <2>2, <2>3, <3>1, StartIs
    <3>3. epoch' \in Nat /\ epoch <= epoch' /\ epoch' = e
      BY <2>1, <2>2
    <3> QED  BY <3>1, <3>2, <3>3, AdoptKeeps
  <2> QED  BY <2>3
<1>2. CASE \E frame \in Frames, scope \in Scopes \cup {NoScope} : Deliver(frame, scope)
  <2>1. PICK frame \in Frames, scope \in Scopes \cup {NoScope} : Deliver(frame, scope)
    BY <1>2
  <2>2. ASSUME NEW plan, plan = Event(def, snap, frame, scope) PROVE IInv'
    <3>1. ~IsRejected(plan) /\ snap' = plan.next /\ def' = def /\ epoch' = epoch
          /\ ended' = ended \cup (Tokens(snap) \ Tokens(plan.next))
      BY <2>1, <2>2 DEF Deliver, Adopt
    <3>2. snap.lifecycle = "Running" /\ Follows(def, snap, plan.next) /\ plan.next.epoch = snap.epoch
      BY <1>0, <2>2, <3>1, EventFollows
    <3>3. plan.next.epoch = epoch' /\ epoch' \in Nat /\ epoch <= epoch'
      BY <1>0, <3>1, <3>2
    <3> QED  BY <3>1, <3>2, <3>3, AdoptKeeps
  <2> QED  BY <2>2
<1>3. CASE StopMachine
  <2>1. ASSUME NEW plan, plan = Stop(def, snap) PROVE IInv'
    <3>1. ~IsRejected(plan) /\ snap' = plan.next /\ def' = def /\ epoch' = epoch
          /\ ended' = ended \cup (Tokens(snap) \ Tokens(plan.next))
      BY <1>3, <2>1 DEF StopMachine, Adopt
    <3>2. Follows(def, snap, plan.next) /\ plan.next.path = <<>>
      BY <1>0, <2>1, <3>1, StopIs
    <3>3. epoch' \in Nat /\ epoch <= epoch'
      BY <1>0, <3>1
    <3> QED  BY <3>1, <3>2, <3>3, AdoptKeeps
  <2> QED  BY <2>1
<1>4. CASE Rebuild
  <2>1. epoch' = epoch + 1 /\ snap' = NotStarted /\ ended' = ended \cup Tokens(snap) /\ def' = def
    BY <1>4 DEF Rebuild
  <2>2. Legal(def, NotStarted) /\ NotStarted.path = <<>> /\ Tokens(NotStarted) = {}
    BY NotStartedIs
  <2>3. snap \in Snapshots /\ snap.epoch \in Nat
    BY <1>0 DEF Legal, Snapshots
  <2>4. ASSUME NEW x \in ended \cup Tokens(snap)
        PROVE  x \in Scoped /\ x.epoch <= epoch
    <3>1. CASE x \in ended
      BY <1>0, <3>1 DEF Over
    <3>2. CASE x \in Tokens(snap)
      <4>1. PICK i \in 1 .. Len(snap.path) :
             x = [state |-> snap.path[i].state, seq |-> snap.path[i].seq, epoch |-> snap.epoch]
        BY <2>3, <3>2, TokenIs
      <4>2. snap.path # <<>>
        BY <4>1
      <4>3. x.epoch = epoch
        BY <1>0, <4>1, <4>2
      <4> QED  BY <1>0, <2>3, <3>2, <4>3, TokenIs
    <3> QED  BY <3>1, <3>2
  <2>5. ASSUME NEW x \in ended \cup Tokens(snap)
        PROVE  x.epoch <= epoch + 1 /\ x.epoch # epoch + 1
    <3>1. x.epoch \in Nat /\ x.epoch <= epoch
      BY <2>4 DEF Scoped
    <3> QED  BY <1>0, <3>1
  <2>6. Over(ended', snap', epoch')
    BY <2>1, <2>2, <2>4, <2>5 DEF Over
  <2> QED  BY <1>0, <2>1, <2>2, <2>6 DEF IInv
<1>5. CASE UNCHANGED vars
  BY <1>5 DEF vars, IInv, Over, Tokens
<1> QED  BY <1>1, <1>2, <1>3, <1>4, <1>5 DEF Next

(* The invariant of the host and its machine: the snapshot is legal, in the epoch*)
(* of the host, and what it has left is over.                                *)
THEOREM Inductive == Spec => []IInv
BY InitHolds, StepKeeps, PTL DEF Spec

(* A legal snapshot passes the checks of Snapshot::validate. *)
LEMMA LegalFollows == IInv => SnapshotsStayLegal
<1> SUFFICES ASSUME IInv PROVE SnapshotsStayLegal
  OBVIOUS
<1>1. Compiled(def) /\ Legal(def, snap) /\ LegalPath(def, snap.path, snap.next)
  BY DEF IInv, Legal
<1>2. Valid(def, snap)
  BY <1>1, LegalIsValid
<1>3. DOMAIN snap.path = 1 .. Len(snap.path)
  BY <1>1 DEF LegalPath
<1> QED  BY <1>1, <1>2, <1>3 DEF SnapshotsStayLegal, LegalPath

(* The evaluator never answers a snapshot it would itself reject later       *)
(* (snapshot.rs:90): however long a machine runs, its path leads from a root child*)
(* to a leaf and its numbers rise along it.                                  *)
THEOREM SnapshotsHold == Spec => []SnapshotsStayLegal
BY Inductive, LegalFollows, PTL

(* What is over is not on the path, and event_item looks there. *)
LEMMA StaleFollows == IInv => StaleIsRefused
<1> SUFFICES ASSUME IInv PROVE StaleIsRefused
  OBVIOUS
<1>1. snap \in Snapshots /\ Over(ended, snap, epoch)
      /\ snap.path \in Seq(Activations) /\ DOMAIN snap.path = 1 .. Len(snap.path)
  BY DEF IInv, Legal, Snapshots
<1>2. ASSUME NEW frame \in Frames, NEW scope \in ended
      PROVE  IsRejected(Event(def, snap, frame, scope))
  <2>1. scope \in Scoped /\ scope \notin Tokens(snap)
    BY <1>1 DEF Over
  <2>2. scope # NoScope
    BY <2>1, NoScopeAssumption DEF Scoped
  <2>3. ASSUME scope.epoch = snap.epoch, OnPath(snap, scope) PROVE FALSE
    <3>1. PICK i \in 1 .. Len(snap.path) :
             snap.path[i].state = scope.state /\ snap.path[i].seq = scope.seq
      BY <1>1, <2>3 DEF OnPath
    <3>2. scope = [state |-> snap.path[i].state, seq |-> snap.path[i].seq, epoch |-> snap.epoch]
      BY <2>1, <2>3, <3>1 DEF Scoped
    <3> QED  BY <1>1, <2>1, <3>2, IsToken
  <2>4. IsStale(snap, scope)
    BY <2>2, <2>3 DEF IsStale
  <2> QED  BY <2>4, EventIs
<1>3. ASSUME NEW frame \in Frames, NEW scope \in Tokens(snap)
      PROVE  Event(def, snap, frame, scope) = Event(def, snap, frame, NoScope)
  <2>1. PICK i \in 1 .. Len(snap.path) :
             scope = [state |-> snap.path[i].state, seq |-> snap.path[i].seq, epoch |-> snap.epoch]
    BY <1>1, TokenIs
  <2>2. ~IsStale(snap, scope)
    BY <1>1, <2>1 DEF IsStale, OnPath
  <2>3. ~IsStale(snap, NoScope)
    BY DEF IsStale
  <2> QED  BY <2>2, <2>3 DEF Event
<1> QED  BY <1>2, <1>3 DEF StaleIsRefused

(* A completion scoped to an activation that was left is refused, though its state*)
(* be entered again, in the same epoch or after a restart (evaluate.rs:335). *)
THEOREM StaleHolds == Spec => []StaleIsRefused
BY Inductive, StaleFollows, PTL

-----------------------------------------------------------------------------
(* What stays of the path *)

(* The boundary of a transition lies above its target. *)
LEMMA KeptIsAbove ==
    ASSUME NEW d, Compiled(d), NEW s, LegalPath(d, s.path, s.next),
           NEW level \in 1 .. Len(s.path), NEW t \in Own(d, s.path[level].state),
           NEW keep, keep = Kept(d, s, level, t), t.kind # "Internal"
    PROVE  keep < DepthOf(d, t.target) /\ keep \in Nat /\ DepthOf(d, t.target) \in Nat
<1> DEFINE boundary == Boundary(d, t)
           target == t.target
<1>1. /\ boundary # NoState => boundary \in Above(d, target) \ {target}
      /\ keep = Level(d, boundary)
  BY KeptIs
<1>2. target \in States
  BY OwnIs
<1> HIDE DEF boundary, target
<1>3. DepthOf(d, target) \in Nat \ {0}
  BY <1>2, UpTyped
<1>4. CASE boundary = NoState
  BY <1>1, <1>3, <1>4 DEF Level, target
<1>5. CASE boundary # NoState
  <2>1. boundary \in Above(d, target) /\ boundary # target /\ keep = DepthOf(d, boundary)
    BY <1>1, <1>5 DEF Level
  <2>2. DepthOf(d, boundary) \in 1 .. DepthOf(d, target) /\ DepthOf(d, boundary) # DepthOf(d, target)
    BY <1>2, <2>1, AncestorAt
  <2> QED  BY <1>3, <2>1, <2>2 DEF target
<1> QED  BY <1>4, <1>5

(* Of an external transition only what is above both ends survives. *)
LEMMA StayIsKept ==
    ASSUME NEW d, Compiled(d), NEW s, LegalPath(d, s.path, s.next),
           NEW level \in 1 .. Len(s.path), NEW t \in Own(d, s.path[level].state),
           NEW keep, keep = Kept(d, s, level, t), t.kind = "External",
           NEW i \in 1 .. Len(s.path)
    PROVE  i <= keep <=> /\ IsStrictDescendant(d, t.source, s.path[i].state)
                         /\ IsStrictDescendant(d, t.target, s.path[i].state)
<1> DEFINE boundary == Boundary(d, t)
           target == t.target
           source == t.source
           y == s.path[i].state
<1>1. /\ boundary # NoState => /\ boundary \in Above(d, target) \ {target}
                               /\ boundary \in Above(d, source)
      /\ keep = Level(d, boundary) /\ keep \in 0 .. level /\ keep < level
      /\ boundary = IF keep = 0 THEN NoState ELSE s.path[keep].state
      /\ keep # 0 => keep \in 1 .. Len(s.path)
  BY KeptIs
<1>2. target \in States /\ source \in States /\ source = s.path[level].state
  BY OwnIs
<1>3. DepthOf(d, source) = level /\ y \in States /\ DepthOf(d, y) = i
  BY <1>2, PathDepth
<1>4. boundary = StrictCommonAncestor(d, source, target)
  BY DEF Boundary
<1>5. /\ IsStrictDescendant(d, source, y) <=> y \in Above(d, source) \ {source}
      /\ IsStrictDescendant(d, target, y) <=> y \in Above(d, target) \ {target}
  <2> HIDE DEF source, target, y
  <2> QED  BY <1>2, StrictIsAbove
<1> HIDE DEF boundary, target, source, y
<1>6. ASSUME i <= keep PROVE y \in Above(d, source) \ {source} /\ y \in Above(d, target) \ {target}
  <2>1. keep # 0 /\ keep \in 1 .. Len(s.path) /\ i \in 1 .. keep /\ boundary = s.path[keep].state
    BY <1>1, <1>6
  <2>2. /\ boundary \in States /\ DepthOf(d, boundary) = keep
        /\ \A k \in 1 .. keep : Up(d, boundary)[k] = s.path[keep - k + 1].state
    <3>1. /\ s.path[keep].state \in States /\ DepthOf(d, s.path[keep].state) = keep
          /\ \A k \in 1 .. keep : Up(d, s.path[keep].state)[k] = s.path[keep - k + 1].state
      <4>1. Compiled(d) /\ LegalPath(d, s.path, s.next) /\ keep \in 1 .. Len(s.path)
        BY <2>1
      <4>2. \A j \in 1 .. Len(s.path) :
               /\ s.path[j].state \in States /\ DepthOf(d, s.path[j].state) = j
               /\ \A k \in 1 .. j : Up(d, s.path[j].state)[k] = s.path[j - k + 1].state
        BY PathDepth
      <4> QED  BY <4>1, <4>2, Zenon
    <3> QED  BY <2>1, <3>1, Zenon
  <2>3. y \in Above(d, boundary)
    <3>1. keep - i + 1 \in 1 .. keep /\ keep - (keep - i + 1) + 1 = i
      BY <2>1
    <3>2. Up(d, boundary)[keep - i + 1] = y
      BY <2>2, <3>1 DEF y
    <3> QED  BY <2>2, <3>1, <3>2, AtIsAbove
  <2>4. boundary \in Above(d, target) /\ boundary # target /\ boundary \in Above(d, source)
    BY <1>1, <2>2, SomeStates
  <2>5. y \in Above(d, source) /\ y \in Above(d, target)
    BY <1>2, <2>3, <2>4, AncestorOfAncestor
  <2>6. y # source
    BY <1>1, <1>3, <1>6
  <2>7. y # target
    <3>1. DepthOf(d, boundary) \in 1 .. DepthOf(d, target) /\ DepthOf(d, boundary) # DepthOf(d, target)
          /\ DepthOf(d, target) \in Nat
      BY <1>2, <2>4, AncestorAt, UpTyped
    <3> QED  BY <1>3, <1>6, <2>2, <3>1
  <2> QED  BY <2>5, <2>6, <2>7
<1>7. ASSUME y \in Above(d, source) \ {source}, y \in Above(d, target) \ {target} PROVE i <= keep
  <2>1. boundary # NoState /\ y \in Above(d, boundary)
    BY <1>2, <1>4, <1>7, CommonAncestor
  <2>2. boundary \in States
    BY <1>1, <1>2, <2>1, AncestorAt
  <2>3. DepthOf(d, y) \in 1 .. DepthOf(d, boundary)
    BY <2>1, <2>2, AncestorAt
  <2>4. keep = DepthOf(d, boundary)
    BY <1>1, <2>1 DEF Level
  <2> QED  BY <1>3, <2>3, <2>4
<1> QED  BY <1>5, <1>6, <1>7 DEF source, target, y

(* What stays of the path is its first part, as long as the code keeps it. *)
LEMMA StayIs ==
    ASSUME NEW t, NEW level \in 1 .. Len(snap.path), Compiled(def), LegalPath(def, snap.path, snap.next),
           t \in Own(def, snap.path[level].state), NEW keep, keep = Kept(def, snap, level, t)
    PROVE  Stay(t, level) = 1 .. keep /\ keep \in 0 .. Len(snap.path) /\ Cardinality(1 .. keep) = keep
<1>1. DOMAIN snap.path = 1 .. Len(snap.path) /\ Len(snap.path) \in Nat
  BY DEF LegalPath
<1>2. t.kind \in {"Internal", "Local", "External"}
  BY OwnIs
<1>3. /\ t.kind = "Internal" => keep = Len(snap.path)
      /\ t.kind # "Internal" => keep \in 0 .. level
      /\ t.kind = "Local" => keep = level
  BY KeptIs
<1>4. keep \in 0 .. Len(snap.path)
  BY <1>1, <1>2, <1>3
<1>5. ASSUME NEW i \in 1 .. Len(snap.path) PROVE i \in Stay(t, level) <=> i <= keep
  <2>1. CASE t.kind = "Internal"
    BY <1>1, <1>3, <2>1 DEF Stay
  <2>2. CASE t.kind = "Local"
    BY <1>1, <1>3, <2>2 DEF Stay
  <2>3. CASE t.kind = "External"
    <3>1. i <= keep <=> /\ IsStrictDescendant(def, t.source, snap.path[i].state)
                        /\ IsStrictDescendant(def, t.target, snap.path[i].state)
      BY <2>3, StayIsKept
    <3> QED  BY <1>1, <2>3, <3>1 DEF Stay
  <2> QED  BY <1>2, <2>1, <2>2, <2>3
<1>6. Stay(t, level) \subseteq 1 .. Len(snap.path)
  BY <1>1 DEF Stay
<1>7. Stay(t, level) = 1 .. keep
  <2> DEFINE S == Stay(t, level)
             l == Len(snap.path)
  <2>1. \A i \in 1 .. l : i \in S <=> i <= keep
    BY <1>5
  <2>2. S \subseteq 1 .. l /\ keep \in 0 .. l /\ l \in Nat
    BY <1>1, <1>4, <1>6
  <2> HIDE DEF S, l
  <2>3. \A i \in 1 .. keep : i \in 1 .. l /\ i <= keep
    BY <2>2
  <2>4. \A i \in 1 .. l : i <= keep => i \in 1 .. keep
    BY <2>2
  <2>5. S = 1 .. keep
    BY <2>1, <2>2, <2>3, <2>4, Zenon
  <2> QED  BY <2>5 DEF S
<1>8. Cardinality(1 .. keep) = keep
  <2>1. keep \in Int /\ 1 \in Int
    BY <1>4
  <2>2. Cardinality(1 .. keep) = IF 1 > keep THEN 0 ELSE keep - 1 + 1
    BY <2>1, FS_Interval
  <2> QED  BY <1>4, <2>2
<1> QED  BY <1>4, <1>7, <1>8

(* The candidate the event is handed to is the rightful one. *)
LEMMA SelectedIsRightful ==
    ASSUME NEW frame \in Frames, IInv, Select(def, snap, frame) # <<>>,
           NEW c, c = Head(Select(def, snap, frame)),
           c.transition.guard \in DOMAIN frame \cup {NoGuard}
    PROVE  RightfulCandidate(frame, c)
<1>1. Compiled(def) /\ snap.path \in Seq(Activations)
  BY DEF IInv, Legal, Snapshots
<1>2. /\ c.level \in 1 .. Len(snap.path) /\ c.transition \in Own(def, snap.path[c.level].state)
      /\ Stops(c.transition, frame)
      /\ \A l \in c.level .. Len(snap.path) : \A i \in 1 .. Len(At(def, snap, l)) :
                 \/ ~Stops(At(def, snap, l)[i], frame)
                 \/ l = c.level /\ \E k \in 1 .. i : At(def, snap, l)[k] = c.transition
  BY <1>1, SelectIs
<1>3. PICK G \in SUBSET Guards : frame \in [G -> BOOLEAN]
  BY DEF Frames
<1>4. c.transition.source = snap.path[c.level].state
  BY <1>2 DEF Own
<1>5. c.transition.guard # NoGuard => frame[c.transition.guard]
  BY <1>2 DEF Stops
<1>6. ASSUME NEW l \in c.level .. Len(snap.path), NEW i \in DOMAIN At(def, snap, l),
             l > c.level \/ \A k \in 1 .. i : At(def, snap, l)[k] # c.transition
      PROVE  At(def, snap, l)[i].guard # NoGuard /\ ~frame[At(def, snap, l)[i].guard]
  <2>1. At(def, snap, l) \in Seq(Own(def, snap.path[l].state))
    BY <1>1, CandidatesAreOwn DEF At
  <2>2. i \in 1 .. Len(At(def, snap, l))
    BY <2>1
  <2>3. ~(l > c.level /\ l = c.level)
    BY <1>2
  <2>4. ~Stops(At(def, snap, l)[i], frame)
    BY <1>2, <1>6, <2>2, <2>3
  <2> QED  BY <2>4 DEF Stops
<1> QED  BY <1>4, <1>5, <1>6, Zenon DEF RightfulCandidate, At

-----------------------------------------------------------------------------
(* Records of a plan *)

(* What a plan lists: the groups of action records. *)
Groups == [phase : {"Exit", "Transition", "Enter"}, state : States, seq : Nat, count : Nat]

(* The types of a group of records. *)
LEMMA RecordsIs ==
    ASSUME NEW a \in Activations, NEW n \in Nat, NEW phase \in {"Exit", "Transition", "Enter"}
    PROVE  Records(phase, a, n) \in Groups /\ Records(phase, a, n).count = n
BY DEF Records, Groups, Activations

(* The exits of a path, leaf first, and the entries, outermost first. *)
LEMMA ExitsIs ==
    ASSUME NEW d, Compiled(d), NEW path \in Seq(Activations)
    PROVE  /\ Exits(d, path) \in Seq(Groups) /\ Len(Exits(d, path)) = Len(path)
           /\ \A i \in 1 .. Len(path) :
                 Exits(d, path)[i].count = d.exit[path[Len(path) - i + 1].state]
<1> DEFINE q == [i \in DOMAIN path |-> Records("Exit", path[i], d.exit[path[i].state])]
<1>1. DOMAIN path = 1 .. Len(path) /\ Len(path) \in Nat
  OBVIOUS
<1>2. ASSUME NEW i \in 1 .. Len(path)
      PROVE  q[i] \in Groups /\ q[i].count = d.exit[path[i].state]
  <2>1. path[i] \in Activations
    BY <1>1
  <2>2. d.exit[path[i].state] \in Nat
    BY <2>1, CompiledTyped DEF Activations
  <2>3. q[i] = Records("Exit", path[i], d.exit[path[i].state])
    BY <1>1
  <2> HIDE DEF q
  <2> QED  BY <2>1, <2>2, <2>3, RecordsIs
<1>3. DOMAIN q = 1 .. Len(path)
  BY <1>1
<1>4. q = [i \in 1 .. Len(path) |-> q[i]]
  BY <1>1
<1> HIDE DEF q
<1>5. q \in [1 .. Len(path) -> Groups]
  BY <1>2, <1>4
<1>6. q \in Seq(Groups) /\ Len(q) = Len(path)
  BY <1>1, <1>5, FunctionIsSeq
<1>7. /\ Reverse(q) \in Seq(Groups) /\ Len(Reverse(q)) = Len(q)
      /\ \A i \in 1 .. Len(q) : Reverse(q)[i] = q[Len(q) - i + 1]
  BY <1>6, ReverseIs
<1>8. Exits(d, path) = Reverse(q)
  BY DEF Exits, q
<1>9. ASSUME NEW i \in 1 .. Len(path)
      PROVE  Exits(d, path)[i].count = d.exit[path[Len(path) - i + 1].state]
  <2>1. Len(path) - i + 1 \in 1 .. Len(path)
    BY <1>1
  <2>2. Exits(d, path)[i] = q[Len(path) - i + 1]
    BY <1>6, <1>7, <1>8
  <2> QED  BY <1>2, <2>1, <2>2
<1> QED  BY <1>6, <1>7, <1>8, <1>9

(* The entries of a path, outermost first. *)
LEMMA EntersIs ==
    ASSUME NEW d, Compiled(d), NEW path \in Seq(Activations)
    PROVE  /\ Enters(d, path) \in Seq(Groups) /\ Len(Enters(d, path)) = Len(path)
           /\ \A i \in 1 .. Len(path) : Enters(d, path)[i].count = d.entry[path[i].state]
<1> DEFINE q == [i \in DOMAIN path |-> Records("Enter", path[i], d.entry[path[i].state])]
<1>1. DOMAIN path = 1 .. Len(path) /\ Len(path) \in Nat
  OBVIOUS
<1>2. ASSUME NEW i \in 1 .. Len(path)
      PROVE  q[i] \in Groups /\ q[i].count = d.entry[path[i].state]
  <2>1. path[i] \in Activations
    BY <1>1
  <2>2. d.entry[path[i].state] \in Nat
    BY <2>1, CompiledTyped DEF Activations
  <2>3. q[i] = Records("Enter", path[i], d.entry[path[i].state])
    BY <1>1
  <2> HIDE DEF q
  <2> QED  BY <2>1, <2>2, <2>3, RecordsIs
<1>3. q = [i \in 1 .. Len(path) |-> q[i]]
  BY <1>1
<1> HIDE DEF q
<1>4. q \in [1 .. Len(path) -> Groups]
  BY <1>2, <1>3
<1>5. q \in Seq(Groups) /\ Len(q) = Len(path)
  BY <1>1, <1>4, FunctionIsSeq
<1>6. Enters(d, path) = q
  BY DEF Enters, q
<1> QED  BY <1>2, <1>5, <1>6

(* Two sequences joined, taken apart again. *)
Splits(S, q, a, b) ==
    /\ q \in Seq(S) /\ Len(q) = Len(a) + Len(b) /\ Len(a) \in Nat /\ Len(b) \in Nat
    /\ SubSeq(q, 1, Len(a)) = a
    /\ SubSeq(q, Len(a) + 1, Len(q)) = b
    /\ \A i \in 1 .. Len(b) : q[Len(a) + i] = b[i]

(* A concatenation is split where it was joined. *)
LEMMA JoinSplits ==
    ASSUME NEW S, NEW a \in Seq(S), NEW b \in Seq(S), NEW q, q = a \o b
    PROVE  Splits(S, q, a, b)
<1>1. /\ q \in Seq(S) /\ Len(q) = Len(a) + Len(b) /\ Len(a) \in Nat /\ Len(b) \in Nat
      /\ \A i \in 1 .. Len(a) + Len(b) : q[i] = IF i <= Len(a) THEN a[i] ELSE b[i - Len(a)]
  BY ConcatProperties
<1> DEFINE m == Len(a)
           n == Len(b)
<1>2. \A i \in 1 .. m : q[i] = a[i] /\ a[i] \in S
  BY <1>1
<1>3. \A i \in 1 .. n : q[m + i] = b[i] /\ b[i] \in S
  <2> TAKE i \in 1 .. n
  <2>1. m + i \in 1 .. m + n /\ ~(m + i <= m) /\ m + i - m = i
    BY <1>1
  <2> QED  BY <1>1, <2>1
<1>4. SubSeq(q, 1, m) = a
  <2>1. SubSeq(q, 1, m) \in Seq(S) /\ Len(SubSeq(q, 1, m)) = m /\ \A i \in 1 .. m : SubSeq(q, 1, m)[i] = q[i]
    BY <1>1, <1>2, SubSeqProperties
  <2> QED  BY <1>2, <2>1
<1>5. SubSeq(q, m + 1, Len(q)) = b
  <2>1. \A i \in m + 1 .. Len(q) : q[i] \in S
    BY <1>1
  <2>2. m + 1 \in Int /\ Len(q) \in Int /\ (m + 1 <= Len(q) => Len(q) - (m + 1) + 1 = n)
        /\ (~(m + 1 <= Len(q)) => n = 0) /\ Len(q) - (m + 1) + 1 = n
    BY <1>1
  <2>3. SubSeq(q, m + 1, Len(q)) \in Seq(S) /\ Len(SubSeq(q, m + 1, Len(q))) = n
        /\ \A i \in 1 .. n : SubSeq(q, m + 1, Len(q))[i] = q[m + 1 + i - 1]
    BY <2>1, <2>2, SubSeqProperties
  <2>4. \A i \in 1 .. n : SubSeq(q, m + 1, Len(q))[i] = b[i]
    <3> TAKE i \in 1 .. n
    <3>1. m + 1 + i - 1 = m + i
      BY <1>1
    <3> QED  BY <1>3, <2>3, <3>1
  <2> QED  BY <2>3, <2>4
<1> QED  BY <1>1, <1>3, <1>4, <1>5, Zenon DEF Splits

-----------------------------------------------------------------------------
(* A plan explains its step *)

(* What a transition leaves of the path and what it adds. *)
Adds(s, keep, states, new) ==
    /\ new \in Seq(Activations) /\ Len(new) = keep + Len(states)
    /\ SubSeq(new, 1, keep) = SubSeq(s.path, 1, keep)
    /\ SubSeq(new, keep + 1, Len(new)) = Activated(s, states)
    /\ \A i \in keep + 1 .. Len(new) : new[i].seq >= s.next

(* What apply keeps of the path, and what it adds. *)
LEMMA MovedJoins ==
    ASSUME NEW d, Compiled(d), NEW s, Legal(d, s),
           NEW level \in 1 .. Len(s.path), NEW t \in Own(d, s.path[level].state),
           NEW keep, keep = Kept(d, s, level, t), keep \in 0 .. Len(s.path),
           NEW new, new = Moved(s, KeptPath(d, s, level, t), EnteredBy(d, t)).path
    PROVE  Adds(s, keep, EnteredBy(d, t), new)
<1> DEFINE e == EnteredBy(d, t)
           a == SubSeq(s.path, 1, keep)
           b == Activated(s, e)
<1>1. s \in Snapshots /\ LegalPath(d, s.path, s.next) /\ s.path \in Seq(Activations) /\ s.next \in Nat
  BY DEF Legal, LegalPath, Snapshots
<1>2. e \in Seq(States)
  BY <1>1, TransitionIs
<1>3. KeptPath(d, s, level, t) = a
  BY DEF KeptPath
<1>4. a \in Seq(Activations) /\ Len(a) = keep /\ keep \in Nat
  <2>1. Len(s.path) \in Nat /\ \A i \in 1 .. Len(s.path) : s.path[i] \in Activations
    BY <1>1
  <2>2. keep \in Int /\ 1 \in Int /\ \A i \in 1 .. keep : s.path[i] \in Activations
    BY <2>1
  <2>3. a \in Seq(Activations) /\ Len(a) = IF 1 <= keep THEN keep - 1 + 1 ELSE 0
    BY <2>2, SubSeqProperties
  <2> QED  BY <2>1, <2>3
<1>5. /\ b \in Seq(Activations) /\ Len(b) = Len(e) /\ Len(e) \in Nat
      /\ \A i \in 1 .. Len(e) : b[i].seq = s.next + i - 1
  BY <1>1, <1>2, ActivatedIs
<1>6. new = a \o b
  <2> HIDE DEF e, a
  <2>1. Moved(s, a, e).path = a \o Activated(s, e)
    BY <1>1, <1>2, <1>4, MovedIs
  <2> QED  BY <1>3, <2>1 DEF e
<1> HIDE DEF e, a, b
<1>7. /\ new \in Seq(Activations) /\ Len(new) = Len(a) + Len(b)
      /\ SubSeq(new, 1, Len(a)) = a
      /\ SubSeq(new, Len(a) + 1, Len(new)) = b
      /\ \A i \in 1 .. Len(b) : new[Len(a) + i] = b[i]
  <2>1. Splits(Activations, new, a, b)
    BY <1>4, <1>5, <1>6, JoinSplits
  <2> QED  BY <2>1, Zenon DEF Splits
<1>8. ASSUME NEW i \in keep + 1 .. Len(new) PROVE new[i].seq >= s.next
  <2> DEFINE k == i - keep
  <2>0. Len(new) = keep + Len(e) /\ keep \in Nat /\ Len(e) \in Nat /\ i \in keep + 1 .. Len(new)
    BY <1>4, <1>5, <1>7, <1>8
  <2>1. k \in 1 .. Len(e) /\ keep + k = i
    BY ONLY <2>0
  <2> HIDE DEF k
  <2>2. new[i].seq = s.next + k - 1
    <3>1. new[i] = b[k]
      BY <1>4, <1>5, <1>7, <2>1
    <3> QED  BY <1>5, <2>1, <3>1
  <2>3. s.next \in Nat /\ k \in Nat /\ k >= 1
    <3>1. s.next \in Nat
      BY <1>1
    <3> QED  BY ONLY <2>0, <2>1, <3>1
  <2> QED  BY ONLY <2>2, <2>3
<1>9. Len(new) = keep + Len(e) /\ SubSeq(new, 1, keep) = a /\ SubSeq(new, keep + 1, Len(new)) = b
  BY <1>4, <1>5, <1>7
<1> QED  BY <1>7, <1>8, <1>9, Zenon DEF e, a, b, Adds

(* The new path leads through the target and on down its initials. *)
Through(d, target, keep, new) ==
    \E i \in (keep + 1) .. Len(new) :
        /\ new[i].state = target
        /\ \A j \in i .. (Len(new) - 1) : new[j + 1].state = d.initial[new[j].state]

(* The new part of the path passes through the target and goes on by initials. *)
LEMMA ThroughTarget ==
    ASSUME NEW d, Compiled(d), NEW s, Legal(d, s),
           NEW level \in 1 .. Len(s.path), NEW t \in Own(d, s.path[level].state),
           NEW keep, keep = Kept(d, s, level, t), t.kind # "Internal",
           NEW new, new = Moved(s, KeptPath(d, s, level, t), EnteredBy(d, t)).path
    PROVE  Through(d, t.target, keep, new)
<1> DEFINE r == Route(d, t.target)
           D == DepthOf(d, t.target)
           e == EnteredBy(d, t)
<1>1. LegalPath(d, s.path, s.next)
  BY DEF Legal
<1>2. keep < D /\ keep \in Nat /\ D \in Nat
  BY <1>1, KeptIsAbove
<1>3. t.target \in States
  BY OwnIs
<1>4. /\ Len(r) >= D /\ r[D] = t.target
      /\ \A k \in D .. Len(r) - 1 : r[k + 1] = d.initial[r[k]]
  BY <1>3, RouteIsNested
<1>5. Rejoins(d, s, keep, r, e) /\ new = Rejoined(s, keep, e)
  BY MoveIs
<1> HIDE DEF r, D, e
<1>6. Len(new) = Len(r) /\ Len(r) \in Nat /\ \A i \in 1 .. Len(r) : new[i].state = r[i]
  BY ONLY <1>5, JoinedIs
<1>7. D \in (keep + 1) .. Len(new) /\ new[D].state = t.target
  BY <1>2, <1>4, <1>6
<1>8. ASSUME NEW j \in D .. Len(new) - 1 PROVE new[j + 1].state = d.initial[new[j].state]
  <2>1. j \in 1 .. Len(r) /\ j + 1 \in 1 .. Len(r) /\ j \in D .. Len(r) - 1
    BY <1>2, <1>4, <1>6
  <2> QED  BY <1>4, <1>6, <2>1
<1> QED  BY <1>7, <1>8 DEF Through

(* The records of a transition, with the action among them. *)
LEMMA RecordsJoin ==
    ASSUME NEW d, Compiled(d), NEW s, Legal(d, s),
           NEW level \in 1 .. Len(s.path), NEW t \in Own(d, s.path[level].state),
           NEW keep \in 0 .. Len(s.path)
    PROVE  Append(Exits(d, SubSeq(s.path, keep + 1, Len(s.path))),
                  Records("Transition", s.path[level], t.actions))
             = Exits(d, SubSeq(s.path, keep + 1, Len(s.path)))
                 \o <<Records("Transition", s.path[level], t.actions)>>
<1>1. s.path \in Seq(Activations) /\ t.actions \in Nat
  BY OwnIs DEF Legal, LegalPath
<1>2. Len(s.path) \in Nat /\ \A i \in 1 .. Len(s.path) : s.path[i] \in Activations
  BY <1>1
<1>3. SubSeq(s.path, keep + 1, Len(s.path)) \in Seq(Activations)
  <2>1. keep + 1 \in Int /\ Len(s.path) \in Int /\ \A i \in keep + 1 .. Len(s.path) : s.path[i] \in Activations
    BY <1>2
  <2> QED  BY <2>1, SubSeqProperties
<1>4. Exits(d, SubSeq(s.path, keep + 1, Len(s.path))) \in Seq(Groups)
  BY <1>3, ExitsIs
<1>5. Records("Transition", s.path[level], t.actions) \in Groups
  BY <1>1, <1>2, RecordsIs
<1> QED  BY <1>4, <1>5, AppendIsConcat

(* A plan of apply is the one the transition calls for. *)
LEMMA TransitionedExplains ==
    ASSUME Compiled(def), Legal(def, snap), NEW level \in 1 .. Len(snap.path),
           NEW t \in Own(def, snap.path[level].state), NEW c, c.level = level, c.transition = t,
           NEW plan, plan = Transition(def, snap, level, t), ~IsRejected(plan)
    PROVE  Explains(plan, c)
<1> DEFINE keep == Kept(def, snap, level, t)
           new == plan.next.path
           old == snap.path
           e == EnteredBy(def, t)
<1>0. keep = Kept(def, snap, level, t)
  OBVIOUS
<1>1. LegalPath(def, old, snap.next)
  BY DEF Legal
<1>2. Stay(t, level) = 1 .. keep /\ keep \in 0 .. Len(old) /\ Cardinality(1 .. keep) = keep
  BY <1>1, StayIs
<1>3. /\ plan.next = Moved(snap, KeptPath(def, snap, level, t), e)
      /\ plan.records = Append(Exits(def, SubSeq(old, keep + 1, Len(old))),
                               Records("Transition", old[level], t.actions))
                           \o Enters(def, Activated(snap, e))
  BY TransitionedIs
<1>4. new = Moved(snap, KeptPath(def, snap, level, t), e).path
  BY <1>3
<1>5. Adds(snap, keep, e, new)
  <2> HIDE DEF new
  <2> QED  BY <1>2, <1>4, MovedJoins
<1>6. t.kind # "Internal" => Through(def, t.target, keep, new)
  <2> HIDE DEF new
  <2> QED  BY <1>4, ThroughTarget
<1>7. plan.records = Exits(def, SubSeq(old, keep + 1, Len(old)))
                        \o <<Records("Transition", old[level], t.actions)>>
                        \o Enters(def, SubSeq(new, keep + 1, Len(new)))
  <2>1. Append(Exits(def, SubSeq(old, keep + 1, Len(old))), Records("Transition", old[level], t.actions))
          = Exits(def, SubSeq(old, keep + 1, Len(old))) \o <<Records("Transition", old[level], t.actions)>>
    <3> HIDE DEF keep
    <3> QED  BY <1>2, RecordsJoin
  <2> HIDE DEF keep, new, e
  <2> QED  BY <1>3, <1>5, <2>1, Zenon DEF Adds
<1>8. Cardinality(Stay(c.transition, c.level)) = keep
  BY <1>2
<1> HIDE DEF keep
<1> QED  BY <1>2, <1>5, <1>6, <1>7, <1>8, Zenon DEF Explains, Adds, Through

(* And so is every plan of a legal snapshot. *)
LEMMA PlansFollow == IInv => PlansExplainTheStep
<1> SUFFICES ASSUME IInv, NEW frame \in Frames, NEW plan, plan = Event(def, snap, frame, NoScope),
                    plan.outcome = "Transitioned", NEW c, c = Head(Select(def, snap, frame))
             PROVE  RightfulCandidate(frame, c) /\ Explains(plan, c)
  BY DEF PlansExplainTheStep
<1>1. Compiled(def) /\ Legal(def, snap) /\ snap.path \in Seq(Activations)
  BY DEF IInv, Legal, LegalPath
<1>2. ~IsRejected(plan)
  BY DEF IsRejected
<1>3. plan # Planned(def, snap, "Unhandled", snap.path, <<>>, <<>>)
  BY <1>1, <1>2, UnhandledIs
<1>4. /\ Select(def, snap, frame) # <<>>
      /\ c.transition.guard \in DOMAIN frame \cup {NoGuard}
      /\ plan = Transition(def, snap, c.level, c.transition)
  BY <1>2, <1>3, EventIs
<1>5. RightfulCandidate(frame, c)
  BY <1>4, SelectedIsRightful
<1>6. c.level \in 1 .. Len(snap.path) /\ c.transition \in Own(def, snap.path[c.level].state)
  BY <1>1, <1>4, SelectIs
<1>7. Explains(plan, c)
  BY <1>1, <1>2, <1>4, <1>6, TransitionedExplains
<1> QED  BY <1>5, <1>7

(* Every plan tells its step. *)
THEOREM PlansExplainHold == Spec => []PlansExplainTheStep
BY Inductive, PlansFollow, PTL

-----------------------------------------------------------------------------
(* Sums over sequences *)

(* A sum does not change when the elements are renamed. *)
LEMMA SumRenamed ==
    ASSUME NEW f, NEW S, IsFiniteSet(S), \A x \in S : f[x] \in Nat, NEW g, NEW h,
           \A x, y \in S : h[x] = h[y] => x = y, \A x \in S : g[h[x]] = f[x]
    PROVE  SumFunctionOnSet(g, {h[x] : x \in S}) = SumFunctionOnSet(f, S)
<1> DEFINE Image(U) == {h[x] : x \in U}
           Bad == {U \in SUBSET S : SumFunctionOnSet(g, Image(U)) # SumFunctionOnSet(f, U)}
<1> SUFFICES ASSUME Bad # {} PROVE FALSE
  OBVIOUS
<1>1. PICK U \in Bad : \A y \in Bad : y \subseteq U => y = U
  <2>1. Bad \subseteq SUBSET S
    OBVIOUS
  <2> HIDE DEF Bad
  <2> QED  BY <2>1, MinimalSubset
<1>2. U \in SUBSET S /\ SumFunctionOnSet(g, Image(U)) # SumFunctionOnSet(f, U)
  OBVIOUS
<1>3. U # {}
  <2>1. Image({}) = {}
    OBVIOUS
  <2> QED  BY <1>2, <2>1, SumEmpty
<1>4. PICK e \in U : TRUE
  BY <1>3
<1> DEFINE V == U \ {e}
<1>5. SumFunctionOnSet(g, Image(V)) = SumFunctionOnSet(f, V)
  <2>1. V \in SUBSET S /\ V # U /\ V \subseteq U
    BY <1>2, <1>4
  <2>2. V \notin Bad
    BY <1>1, <2>1
  <2> QED  BY <2>1, <2>2
<1>6. SumFunctionOnSet(f, U) = f[e] + SumFunctionOnSet(f, V)
  <2>1. IsFiniteSet(U) /\ \A x \in U : f[x] \in Nat
    BY <1>2, FS_Subset
  <2> QED  BY <1>4, <2>1, SumRemove
<1>7. SumFunctionOnSet(g, Image(U)) = g[h[e]] + SumFunctionOnSet(g, Image(V))
  <2>1. IsFiniteSet(Image(U))
    <3>1. IsFiniteSet(U)
      BY <1>2, FS_Subset
    <3> DEFINE k == [x \in U |-> h[x]]
    <3>2. k \in Surjection(U, Image(U))
      BY DEF Surjection
    <3> HIDE DEF k, Image
    <3> QED  BY <3>1, <3>2, FS_Surjection
  <2>2. h[e] \in Image(U) /\ \A z \in Image(U) : g[z] \in Nat
    BY <1>2, <1>4
  <2>3. Image(U) \ {h[e]} = Image(V)
    BY <1>2, <1>4
  <2> HIDE DEF Image, V
  <2> QED  BY <2>1, <2>2, <2>3, SumRemove
<1>8. g[h[e]] = f[e]
  BY <1>2, <1>4
<1> HIDE DEF Image, V, Bad
<1> QED  BY <1>2, <1>5, <1>6, <1>7, <1>8

(* A finite set of numbers has an upper bound. *)
LEMMA FiniteIsBounded ==
    ASSUME NEW S, S \subseteq Nat, IsFiniteSet(S)
    PROVE  \E b \in Nat : \A x \in S : x <= b
<1> DEFINE Bad == {U \in SUBSET S : ~ \E b \in Nat : \A x \in U : x <= b}
<1> SUFFICES ASSUME Bad # {} PROVE FALSE
  OBVIOUS
<1>1. PICK U \in Bad : \A y \in Bad : y \subseteq U => y = U
  <2>1. Bad \subseteq SUBSET S
    OBVIOUS
  <2>2. IsFiniteSet(S) /\ Bad # {}
    OBVIOUS
  <2> HIDE DEF Bad
  <2> QED  BY ONLY <2>1, <2>2, MinimalSubset
<1>2. U # {}
  <2>1. 0 \in Nat /\ \A x \in {} : x <= 0
    OBVIOUS
  <2> QED  BY <2>1
<1>3. PICK e \in U : TRUE
  BY <1>2
<1>4. U \ {e} \notin Bad /\ U \in SUBSET S /\ U \ {e} \in SUBSET S
  BY <1>1, <1>3
<1>5. PICK b \in Nat : \A x \in U \ {e} : x <= b
  BY <1>4
<1>6. \E m \in Nat : b <= m /\ e <= m
  <2>1. e \in Nat
    BY <1>3, <1>4
  <2>2. CASE b <= e
    BY <2>1, <2>2
  <2>3. CASE ~(b <= e)
    BY <2>1, <2>3
  <2> QED  BY <2>2, <2>3
<1>7. PICK m \in Nat : b <= m /\ e <= m
  BY <1>6
<1>8. \A x \in U : x <= m
  <2> TAKE x \in U
  <2>1. x \in Nat
    BY <1>4
  <2>2. CASE x = e
    BY <1>7, <2>2
  <2>3. CASE x # e
    BY <1>5, <1>7, <2>1, <2>3
  <2> QED  BY <2>2, <2>3
<1> QED  BY <1>7, <1>8

(* So its maximum is the greatest element. *)
LEMMA MaxIsBound ==
    ASSUME NEW S \in SUBSET Nat, S # {}, IsFiniteSet(S)
    PROVE  Max(S) \in Nat /\ \A x \in S : x <= Max(S)
<1>1. PICK b \in Nat : \A x \in S : x <= b
  BY FiniteIsBounded
<1>2. Max(S) \in S /\ \A x \in S : x <= Max(S)
  BY <1>1, MaxIsGreatest
<1> QED  BY <1>2

(* What the numbers of a sequence add up to. *)
LEMMA TotalIs ==
    ASSUME NEW q \in Seq(Nat)
    PROVE  /\ SumFunction(q) = SumFunctionOnSet(q, 1 .. Len(q)) /\ SumFunction(q) \in Nat
           /\ q = <<>> => SumFunction(q) = 0
<1>1. DOMAIN q = 1 .. Len(q) /\ Len(q) \in Nat /\ \A x \in 1 .. Len(q) : q[x] \in Nat
  OBVIOUS
<1>2. SumFunction(q) = SumFunctionOnSet(q, 1 .. Len(q))
  BY <1>1, Zenon DEF SumFunction
<1>3. IsFiniteSet(1 .. Len(q))
  BY <1>1, FS_Interval
<1>4. SumFunctionOnSet(q, 1 .. Len(q)) \in Nat
  BY <1>1, <1>3, SumIsNat
<1>5. q = <<>> => 1 .. Len(q) = {}
  OBVIOUS
<1> QED  BY <1>2, <1>4, <1>5, SumEmpty

(* A stretch of one sequence adds up to what the same numbers do elsewhere.   *)
Stretch(f, m, l) == SumFunctionOnSet(f, m + 1 .. l)

Copies(g, m, n, f) == \A i \in 1 .. n : f[i] \in Nat /\ g[m + i] = f[i]

(* The same numbers elsewhere have the same sum. *)
LEMMA SumShifted ==
    ASSUME NEW f, NEW g, NEW m \in Nat, NEW n \in Nat, Copies(g, m, n, f)
    PROVE  Stretch(g, m, m + n) = Stretch(f, 0, n)
<1> DEFINE S == 1 .. n
           h == [i \in S |-> m + i]
<1>1. IsFiniteSet(S)
  BY FS_Interval
<1>2. {h[x] : x \in S} = m + 1 .. m + n
  <2>1. \A x \in S : h[x] \in m + 1 .. m + n
    OBVIOUS
  <2>2. \A y \in m + 1 .. m + n : y - m \in S /\ h[y - m] = y
    OBVIOUS
  <2> HIDE DEF h, S
  <2> QED  BY <2>1, <2>2
<1>3. (\A x, y \in S : h[x] = h[y] => x = y) /\ \A x \in S : g[h[x]] = f[x] /\ f[x] \in Nat
  BY DEF Copies
<1> HIDE DEF h, S
<1>4. SumFunctionOnSet(g, {h[x] : x \in S}) = SumFunctionOnSet(f, S)
  BY <1>1, <1>3, SumRenamed
<1>5. S = 0 + 1 .. n
  BY DEF S
<1> QED  BY <1>2, <1>4, <1>5, Zenon DEF Stretch

(* A sequence of numbers adds up to its beginning and its rest. *)
LEMMA SumCut ==
    ASSUME NEW f, NEW m \in Nat, NEW n \in Nat, NEW l, l = m + n, \A i \in 1 .. l : f[i] \in Nat
    PROVE  Stretch(f, 0, l) = Stretch(f, 0, m) + Stretch(f, m, l)
<1> DEFINE A == 1 .. m
           B == m + 1 .. l
<1>1. IsFiniteSet(A) /\ IsFiniteSet(B)
  BY FS_Interval
<1>2. A \cap B = {} /\ A \cup B = 1 .. l /\ \A x \in A \cup B : f[x] \in Nat
  OBVIOUS
<1> HIDE DEF A, B
<1>3. SumFunctionOnSet(f, A \cup B) = SumFunctionOnSet(f, A) + SumFunctionOnSet(f, B)
  BY <1>1, <1>2, SumUnion
<1>4. A = 0 + 1 .. m /\ 0 + 1 .. l = 1 .. l
  BY DEF A
<1> QED  BY <1>2, <1>3, <1>4, Zenon DEF B, Stretch

(* The sum of two sequences one after the other. *)
LEMMA TotalJoins ==
    ASSUME NEW a \in Seq(Nat), NEW b \in Seq(Nat)
    PROVE  SumFunction(a \o b) = SumFunction(a) + SumFunction(b)
<1> DEFINE q == a \o b
           m == Len(a)
           n == Len(b)
<1>1. q \in Seq(Nat) /\ Len(q) = m + n /\ m \in Nat /\ n \in Nat
      /\ \A i \in 1 .. m + n : q[i] = IF i <= m THEN a[i] ELSE b[i - m]
  BY ConcatProperties
<1>2. \A i \in 1 .. m : a[i] \in Nat
  OBVIOUS
<1>3. \A i \in 1 .. n : b[i] \in Nat
  OBVIOUS
<1>4. SumFunction(q) = Stretch(q, 0, m + n)
  <2> HIDE DEF q
  <2>1. 0 + 1 .. m + n = 1 .. m + n
    OBVIOUS
  <2> QED  BY <1>1, <2>1, TotalIs DEF Stretch
<1>5. SumFunction(a) = Stretch(a, 0, m) /\ SumFunction(b) = Stretch(b, 0, n)
  <2>1. 0 + 1 .. m = 1 .. m /\ 0 + 1 .. n = 1 .. n
    OBVIOUS
  <2> QED  BY <2>1, TotalIs DEF Stretch
<1> HIDE DEF q, m, n
<1>6. \A i \in 1 .. m : q[i] = a[i]
  BY <1>1
<1>7. \A i \in 1 .. n : q[m + i] = b[i]
  <2> TAKE i \in 1 .. n
  <2>1. m + i \in 1 .. m + n /\ ~(m + i <= m) /\ m + i - m = i
    BY <1>1
  <2> QED  BY <1>1, <2>1
<1>8. \A i \in 1 .. m + n : q[i] \in Nat
  BY <1>1
<1>9. Stretch(q, 0, m) = Stretch(a, 0, m)
  <2>1. IsFiniteSet(1 .. m) /\ 0 + 1 .. m = 1 .. m
    BY <1>1, FS_Interval
  <2>2. SumFunctionOnSet(q, 1 .. m) = SumFunctionOnSet(a, 1 .. m)
    BY <1>2, <1>6, <2>1, SumSame
  <2> QED  BY <2>1, <2>2, Zenon DEF Stretch
<1>10. Stretch(q, m, m + n) = Stretch(b, 0, n)
  <2>1. Copies(q, m, n, b)
    BY <1>3, <1>7 DEF Copies
  <2>2. m \in Nat /\ n \in Nat
    BY <1>1
  <2> QED  BY ONLY <2>1, <2>2, SumShifted, SMT
<1>11. Stretch(q, 0, m + n) = Stretch(q, 0, m) + Stretch(q, m, m + n)
  <2>1. m \in Nat /\ n \in Nat
    BY <1>1
  <2> DEFINE l == m + n
  <2>2. l = m + n /\ \A i \in 1 .. l : q[i] \in Nat
    BY <1>8
  <2> HIDE DEF l
  <2>3. Stretch(q, 0, l) = Stretch(q, 0, m) + Stretch(q, m, l)
    BY <2>1, <2>2, SumCut
  <2> QED  BY <2>3 DEF l
<1> QED  BY <1>4, <1>5, <1>9, <1>10, <1>11 DEF q

-----------------------------------------------------------------------------
(* Actions of states *)

(* The numbers of actions of a sequence of states. *)
Counted(count, q) == [i \in DOMAIN q |-> count[q[i]]]

(* The types of these numbers. *)
LEMMA CountedIs ==
    ASSUME NEW count \in [States -> Nat], NEW q \in Seq(States)
    PROVE  /\ Counted(count, q) \in Seq(Nat) /\ Len(Counted(count, q)) = Len(q) /\ Len(q) \in Nat
           /\ \A i \in 1 .. Len(q) : Counted(count, q)[i] = count[q[i]] /\ count[q[i]] \in Nat
<1> DEFINE c == Counted(count, q)
<1>1. DOMAIN q = 1 .. Len(q) /\ Len(q) \in Nat /\ \A i \in 1 .. Len(q) : q[i] \in States
  OBVIOUS
<1>2. c = [i \in 1 .. Len(q) |-> count[q[i]]]
  BY <1>1 DEF Counted
<1>3. c \in [1 .. Len(q) -> Nat] /\ \A i \in 1 .. Len(q) : c[i] = count[q[i]] /\ count[q[i]] \in Nat
  <2> HIDE DEF c
  <2> QED  BY <1>1, <1>2
<1> HIDE DEF c
<1>4. c \in Seq(Nat) /\ Len(c) = Len(q)
  BY <1>1, <1>3, FunctionIsSeq
<1> QED  BY <1>1, <1>3, <1>4 DEF c

(* The actions of a sequence of states are their sum. *)
LEMMA ActionsIs ==
    ASSUME NEW count \in [States -> Nat], NEW q \in Seq(States)
    PROVE  /\ Actions(count, q) = SumFunction(Counted(count, q)) /\ Actions(count, q) \in Nat
           /\ q = <<>> => Actions(count, q) = 0
<1>1. Actions(count, q) = SumFunction(Counted(count, q))
  BY Zenon DEF Actions, Counted
<1>2. Counted(count, q) \in Seq(Nat) /\ (q = <<>> => Len(Counted(count, q)) = 0)
  BY CountedIs
<1>3. q = <<>> => Counted(count, q) = <<>>
  BY <1>2
<1> QED  BY <1>1, <1>2, <1>3, TotalIs

(* And of two sequences, the sum of both. *)
LEMMA ActionsJoin ==
    ASSUME NEW count \in [States -> Nat], NEW a \in Seq(States), NEW b \in Seq(States)
    PROVE  Actions(count, a \o b) = Actions(count, a) + Actions(count, b)
<1> DEFINE q == a \o b
           x == Counted(count, a)
           y == Counted(count, b)
           c == Counted(count, q)
<1>1. q \in Seq(States) /\ Len(q) = Len(a) + Len(b)
      /\ \A i \in 1 .. Len(a) + Len(b) : q[i] = IF i <= Len(a) THEN a[i] ELSE b[i - Len(a)]
  BY ConcatProperties
<1>2. /\ x \in Seq(Nat) /\ Len(x) = Len(a) /\ Len(a) \in Nat
      /\ \A i \in 1 .. Len(a) : x[i] = count[a[i]]
  BY CountedIs
<1>3. /\ y \in Seq(Nat) /\ Len(y) = Len(b) /\ Len(b) \in Nat
      /\ \A i \in 1 .. Len(b) : y[i] = count[b[i]]
  BY CountedIs
<1> HIDE DEF q
<1>4. c \in Seq(Nat) /\ Len(c) = Len(q) /\ \A i \in 1 .. Len(q) : c[i] = count[q[i]]
  BY <1>1, CountedIs
<1> HIDE DEF x, y, c
<1>5. /\ x \o y \in Seq(Nat) /\ Len(x \o y) = Len(x) + Len(y)
      /\ \A i \in 1 .. Len(x) + Len(y) : (x \o y)[i] = IF i <= Len(x) THEN x[i] ELSE y[i - Len(x)]
  <2>1. x \in Seq(Nat) /\ y \in Seq(Nat)
    BY <1>2, <1>3
  <2> QED  BY ONLY <2>1, ConcatProperties
<1>6. \A i \in 1 .. Len(c) : c[i] = (x \o y)[i]
  <2> TAKE i \in 1 .. Len(c)
  <2>1. i \in 1 .. Len(a) + Len(b)
    BY <1>1, <1>4
  <2>2. CASE i <= Len(a)
    <3>1. i \in 1 .. Len(a)
      BY <1>2, <2>1, <2>2
    <3>2. c[i] = count[a[i]] /\ (x \o y)[i] = x[i]
      BY <1>1, <1>2, <1>3, <1>4, <1>5, <2>1, <2>2
    <3> QED  BY <1>2, <3>1, <3>2
  <2>3. CASE ~(i <= Len(a))
    <3>1. i - Len(a) \in 1 .. Len(b)
      BY <1>2, <1>3, <2>1, <2>3
    <3>2. c[i] = count[b[i - Len(a)]] /\ (x \o y)[i] = y[i - Len(a)]
      BY <1>1, <1>2, <1>3, <1>4, <1>5, <2>1, <2>3
    <3> QED  BY <1>3, <3>1, <3>2
  <2> QED  BY <2>2, <2>3
<1>7. c = x \o y
  <2> DEFINE z == x \o y
  <2>1. z \in Seq(Nat) /\ Len(z) = Len(c) /\ \A i \in 1 .. Len(c) : c[i] = z[i]
    BY <1>1, <1>2, <1>3, <1>4, <1>5, <1>6
  <2> HIDE DEF z
  <2>2. c = z
    BY ONLY <1>4, <2>1, SeqEqual
  <2> QED  BY <2>2 DEF z
<1>8. SumFunction(c) = SumFunction(x) + SumFunction(y)
  BY <1>2, <1>3, <1>7, TotalJoins
<1>9. Actions(count, a) = SumFunction(x) /\ Actions(count, b) = SumFunction(y)
  BY ActionsIs DEF x, y
<1>10. Actions(count, q) = SumFunction(c)
  BY <1>1, ActionsIs DEF c
<1> QED  BY <1>8, <1>9, <1>10 DEF q

(* The order of exits and entries does not count. *)
LEMMA ActionsReversed ==
    ASSUME NEW count \in [States -> Nat], NEW q \in Seq(States)
    PROVE  Actions(count, Reverse(q)) = Actions(count, q)
<1> DEFINE r == Reverse(q)
           x == Counted(count, q)
           y == Counted(count, r)
           n == Len(q)
           S == 1 .. n
           h == [i \in S |-> n - i + 1]
<1>1. r \in Seq(States) /\ Len(r) = n /\ n \in Nat /\ \A i \in 1 .. n : r[i] = q[n - i + 1]
  <2>1. Len(q) \in Nat
    OBVIOUS
  <2>2. /\ Reverse(q) \in Seq(States) /\ Len(Reverse(q)) = Len(q)
        /\ \A i \in 1 .. Len(q) : Reverse(q)[i] = q[Len(q) - i + 1]
    BY ReverseIs
  <2> QED  BY <2>1, <2>2, Zenon
<1>2. /\ x \in Seq(Nat) /\ Len(x) = n
      /\ \A i \in 1 .. n : x[i] = count[q[i]] /\ count[q[i]] \in Nat
  BY CountedIs
<1>3. Actions(count, q) = SumFunction(x)
  BY ActionsIs
<1> HIDE DEF r, n
<1>4. y \in Seq(Nat) /\ Len(y) = n /\ \A i \in 1 .. n : y[i] = count[r[i]]
  BY <1>1, CountedIs
<1>5. Actions(count, r) = SumFunction(y)
  BY <1>1, ActionsIs
<1> HIDE DEF x, y
<1>6. \A i \in S : h[i] \in S /\ h[h[i]] = i
  BY <1>1
<1>7. \A i \in S : y[h[i]] = x[i] /\ x[i] \in Nat
  <2> TAKE i \in S
  <2>1. n - i + 1 \in 1 .. n /\ n - (n - i + 1) + 1 = i /\ h[i] = n - i + 1
    BY <1>1
  <2>2. y[n - i + 1] = count[r[n - i + 1]] /\ r[n - i + 1] = q[i]
    BY <1>1, <1>4, <2>1
  <2> QED  BY <1>2, <2>1, <2>2
<1>8. SumFunction(x) = SumFunctionOnSet(x, S) /\ SumFunction(y) = SumFunctionOnSet(y, S)
  BY <1>2, <1>4, TotalIs
<1>9. IsFiniteSet(S)
  BY <1>1, FS_Interval
<1> HIDE DEF S, h
<1>10. SumFunctionOnSet(y, {h[i] : i \in S}) = SumFunctionOnSet(x, S)
  <2>1. \A i, j \in S : h[i] = h[j] => i = j
    BY <1>6
  <2> QED  BY <1>7, <1>9, <2>1, SumRenamed
<1>11. {h[i] : i \in S} = S
  BY <1>6
<1> QED  BY <1>3, <1>5, <1>8, <1>10, <1>11 DEF r

(* What is entered weighs what compile counted for it. *)
LEMMA EntriesAre ==
    ASSUME NEW d, Compiled(d), NEW target \in States, NEW boundary,
           boundary # NoState => boundary \in Above(d, target)
    PROVE  /\ Actions(d.entry, Entered(d, target, boundary)) = EntryActions(d, target, boundary)
           /\ EntryActions(d, target, boundary) \in Nat
<1> DEFINE u == UpTo(d, target, boundary)
           v == InitialChain(d, target)
<1>1. u \in Seq(States) /\ v \in Seq(States)
  BY UpToIs, InitialChainIs
<1>2. d.entry \in [States -> Nat]
  BY CompiledTyped
<1>3. EntryActions(d, target, boundary) = Actions(d.entry, u) + Actions(d.entry, v)
  BY DEF EntryActions
<1>4. Entered(d, target, boundary) = Reverse(u) \o v
  BY DEF Entered
<1> HIDE DEF u, v
<1>5. Reverse(u) \in Seq(States)
  BY <1>1, ReverseIs
<1>6. Actions(d.entry, Reverse(u) \o v) = Actions(d.entry, Reverse(u)) + Actions(d.entry, v)
  BY <1>1, <1>2, <1>5, ActionsJoin
<1>7. Actions(d.entry, Reverse(u)) = Actions(d.entry, u)
  BY <1>1, <1>2, ActionsReversed
<1>8. Actions(d.entry, u) \in Nat /\ Actions(d.entry, v) \in Nat
  BY <1>1, <1>2, ActionsIs
<1> QED  BY <1>3, <1>4, <1>6, <1>7, <1>8

-----------------------------------------------------------------------------
(* Actions of a plan *)

(* How many action records the groups of a plan stand for. *)
Counts(groups) == [i \in DOMAIN groups |-> groups[i].count]

Weight(groups) == SumFunction(Counts(groups))

(* The types of these numbers. *)
LEMMA CountsIs ==
    ASSUME NEW q \in Seq(Groups)
    PROVE  /\ Counts(q) \in Seq(Nat) /\ Len(Counts(q)) = Len(q) /\ Len(q) \in Nat
           /\ \A i \in 1 .. Len(q) : Counts(q)[i] = q[i].count /\ q[i].count \in Nat
           /\ Weight(q) \in Nat
<1> DEFINE c == Counts(q)
<1>1. DOMAIN q = 1 .. Len(q) /\ Len(q) \in Nat /\ \A i \in 1 .. Len(q) : q[i] \in Groups
  OBVIOUS
<1>2. \A i \in 1 .. Len(q) : q[i].count \in Nat
  BY <1>1 DEF Groups
<1>3. c = [i \in 1 .. Len(q) |-> q[i].count]
  BY <1>1 DEF Counts
<1>4. c \in [1 .. Len(q) -> Nat] /\ \A i \in 1 .. Len(q) : c[i] = q[i].count
  <2> HIDE DEF c
  <2> QED  BY <1>2, <1>3
<1> HIDE DEF c
<1>5. c \in Seq(Nat) /\ Len(c) = Len(q)
  BY <1>1, <1>4, FunctionIsSeq
<1>6. SumFunction(c) \in Nat
  BY <1>5, TotalIs
<1> QED  BY <1>1, <1>2, <1>4, <1>5, <1>6 DEF c, Weight

(* Records one after the other add up. *)
LEMMA WeightJoins ==
    ASSUME NEW a \in Seq(Groups), NEW b \in Seq(Groups)
    PROVE  Weight(a \o b) = Weight(a) + Weight(b)
<1> DEFINE q == a \o b
           x == Counts(a)
           y == Counts(b)
           c == Counts(q)
<1>1. q \in Seq(Groups) /\ Len(q) = Len(a) + Len(b)
      /\ \A i \in 1 .. Len(a) + Len(b) : q[i] = IF i <= Len(a) THEN a[i] ELSE b[i - Len(a)]
  BY ConcatProperties
<1>2. /\ x \in Seq(Nat) /\ Len(x) = Len(a) /\ Len(a) \in Nat
      /\ \A i \in 1 .. Len(a) : x[i] = a[i].count
  BY CountsIs
<1>3. /\ y \in Seq(Nat) /\ Len(y) = Len(b) /\ Len(b) \in Nat
      /\ \A i \in 1 .. Len(b) : y[i] = b[i].count
  BY CountsIs
<1> HIDE DEF q
<1>4. c \in Seq(Nat) /\ Len(c) = Len(q) /\ \A i \in 1 .. Len(q) : c[i] = q[i].count
  BY <1>1, CountsIs
<1> HIDE DEF x, y, c
<1>5. /\ x \o y \in Seq(Nat) /\ Len(x \o y) = Len(x) + Len(y)
      /\ \A i \in 1 .. Len(x) + Len(y) : (x \o y)[i] = IF i <= Len(x) THEN x[i] ELSE y[i - Len(x)]
  <2>1. x \in Seq(Nat) /\ y \in Seq(Nat)
    BY <1>2, <1>3
  <2> QED  BY ONLY <2>1, ConcatProperties
<1>6. \A i \in 1 .. Len(c) : c[i] = (x \o y)[i]
  <2> TAKE i \in 1 .. Len(c)
  <2>1. i \in 1 .. Len(a) + Len(b)
    BY <1>1, <1>4
  <2>2. CASE i <= Len(a)
    <3>1. i \in 1 .. Len(a)
      BY <1>2, <2>1, <2>2
    <3>2. c[i] = a[i].count /\ (x \o y)[i] = x[i]
      BY <1>1, <1>2, <1>3, <1>4, <1>5, <2>1, <2>2
    <3> QED  BY <1>2, <3>1, <3>2
  <2>3. CASE ~(i <= Len(a))
    <3>1. i - Len(a) \in 1 .. Len(b)
      BY <1>2, <1>3, <2>1, <2>3
    <3>2. c[i] = b[i - Len(a)].count /\ (x \o y)[i] = y[i - Len(a)]
      BY <1>1, <1>2, <1>3, <1>4, <1>5, <2>1, <2>3
    <3> QED  BY <1>3, <3>1, <3>2
  <2> QED  BY <2>2, <2>3
<1>7. c = x \o y
  <2> DEFINE z == x \o y
  <2>1. z \in Seq(Nat) /\ Len(z) = Len(c) /\ \A i \in 1 .. Len(c) : c[i] = z[i]
    BY <1>1, <1>2, <1>3, <1>4, <1>5, <1>6
  <2> HIDE DEF z
  <2>2. c = z
    BY ONLY <1>4, <2>1, SeqEqual
  <2> QED  BY <2>2 DEF z
<1>8. SumFunction(c) = SumFunction(x) + SumFunction(y)
  BY <1>2, <1>3, <1>7, TotalJoins
<1> QED  BY <1>8 DEF q, x, y, c, Weight

(* One group of records, and none. *)
LEMMA WeightOfOne ==
    ASSUME NEW g \in Groups
    PROVE  <<g>> \in Seq(Groups) /\ Weight(<<g>>) = g.count /\ Weight(<<>>) = 0
<1> DEFINE q == <<g>>
           c == Counts(q)
<1>1. q \in Seq(Groups) /\ Len(q) = 1 /\ q[1] = g
  OBVIOUS
<1> HIDE DEF q
<1>2. c \in Seq(Nat) /\ Len(c) = 1 /\ c[1] = g.count /\ g.count \in Nat
  BY <1>1, CountsIs
<1> HIDE DEF c
<1>3. SumFunction(c) = SumFunctionOnSet(c, 1 .. 1)
  BY <1>2, TotalIs
<1>4. SumFunctionOnSet(c, {1}) = c[1] + SumFunctionOnSet(c, {})
  <2>1. IsFiniteSet({1}) /\ {1} \ {1} = {} /\ \A x \in {1} : c[x] \in Nat
    BY <1>2, FS_Singleton
  <2>2. 1 \in {1}
    OBVIOUS
  <2> QED  BY <2>1, <2>2, SumRemove
<1>5. 1 .. 1 = {1} /\ SumFunctionOnSet(c, {}) = 0
  BY SumEmpty
<1>6. SumFunction(c) = g.count
  BY <1>2, <1>3, <1>4, <1>5
<1>7. Weight(<<>>) = 0
  <2>1. <<>> \in Seq(Groups) /\ Len(<<>>) = 0
    OBVIOUS
  <2>2. Counts(<<>>) \in Seq(Nat) /\ Len(Counts(<<>>)) = 0
    BY <2>1, CountsIs
  <2>3. Counts(<<>>) = <<>>
    BY <2>2
  <2>4. SumFunction(Counts(<<>>)) = 0
    BY <2>2, <2>3, TotalIs
  <2> QED  BY <2>4 DEF Weight
<1> QED  BY <1>1, <1>6, <1>7 DEF q, c, Weight

(* The size of a plan is the weight of its records. *)
LEMMA SizeIs == \A plan : Size(plan) = Weight(plan.records)
BY Zenon DEF Size, Weight, Counts

(* Entering states weighs their entry actions. *)
LEMMA EntersWeigh ==
    ASSUME NEW d, Compiled(d), NEW s \in Snapshots, NEW q \in Seq(States)
    PROVE  /\ Enters(d, Activated(s, q)) \in Seq(Groups)
           /\ Weight(Enters(d, Activated(s, q))) = Actions(d.entry, q)
<1> DEFINE path == Activated(s, q)
           e == Enters(d, path)
           c == Counts(e)
           x == Counted(d.entry, q)
<1>0. d.entry \in [States -> Nat]
  BY CompiledTyped
<1>1. path \in Seq(Activations) /\ Len(path) = Len(q) /\ \A i \in 1 .. Len(q) : path[i].state = q[i]
  BY ActivatedIs
<1>2. x \in Seq(Nat) /\ Len(x) = Len(q) /\ \A i \in 1 .. Len(q) : x[i] = d.entry[q[i]]
  BY <1>0, CountedIs
<1>3. Actions(d.entry, q) = SumFunction(x)
  BY <1>0, ActionsIs
<1> HIDE DEF path, x
<1>4. /\ e \in Seq(Groups) /\ Len(e) = Len(path)
      /\ \A i \in 1 .. Len(path) : e[i].count = d.entry[path[i].state]
  BY <1>1, EntersIs
<1> HIDE DEF e
<1>5. c \in Seq(Nat) /\ Len(c) = Len(e) /\ \A i \in 1 .. Len(e) : c[i] = e[i].count
  BY <1>4, CountsIs
<1> HIDE DEF c
<1>6. Len(c) = Len(x) /\ \A i \in 1 .. Len(c) : c[i] = x[i]
  BY <1>1, <1>2, <1>4, <1>5
<1>7. c = x
  BY ONLY <1>2, <1>5, <1>6, SeqEqual
<1> QED  BY <1>3, <1>4, <1>7 DEF c, e, path, Weight

-----------------------------------------------------------------------------
(* Actions of exits *)

(* The most an active path below s can have to exit is a bound of it. *)
LEMMA MaxExitBelowIs ==
    ASSUME NEW d, Compiled(d), NEW s \in States
    PROVE  /\ MaxExitBelow(d, s) \in Nat
           /\ \A x \in States : IsStrictDescendant(d, x, s) =>
                 /\ Actions(d.exit, UpTo(d, x, s)) \in Nat
                 /\ Actions(d.exit, UpTo(d, x, s)) <= MaxExitBelow(d, s)
<1> DEFINE Y == {y \in States : IsStrictDescendant(d, y, s)}
           h == [x \in Y |-> Actions(d.exit, UpTo(d, x, s))]
           H == {Actions(d.exit, UpTo(d, x, s)) : x \in Y}
           S == H \cup {0}
<1>1. ASSUME NEW x \in Y PROVE Actions(d.exit, UpTo(d, x, s)) \in Nat
  <2>1. s \in Above(d, x) /\ x \in States
    BY StrictIsAbove
  <2>2. UpTo(d, x, s) \in Seq(States)
    BY <2>1, UpToIs
  <2> QED  BY <2>2, CompiledTyped, ActionsIs
<1>2. IsFiniteSet(Y)
  BY SomeStates, FS_Subset
<1>3. h \in Surjection(Y, H)
  BY DEF Surjection
<1>4. H \subseteq Nat
  BY <1>1
<1>5. MaxExitBelow(d, s) = Max(S)
  BY DEF MaxExitBelow
<1>6. \A x \in Y : Actions(d.exit, UpTo(d, x, s)) \in S
  OBVIOUS
<1> HIDE DEF h, H
<1>7. IsFiniteSet(S)
  BY <1>2, <1>3, FS_Surjection, FS_AddElement
<1>8. S \subseteq Nat /\ S # {}
  BY <1>4
<1> HIDE DEF S
<1>9. Max(S) \in Nat /\ \A x \in S : x <= Max(S)
  BY <1>7, <1>8, MaxIsBound
<1> QED  BY <1>1, <1>5, <1>6, <1>9

(* The exit actions of a path, leaf first. *)
Leaving(d, path) == [i \in 1 .. Len(path) |-> d.exit[path[Len(path) - i + 1].state]]

(* The types of these numbers. *)
LEMMA LeavingIs ==
    ASSUME NEW d, Compiled(d), NEW path \in Seq(Activations)
    PROVE  /\ Len(path) \in Nat
           /\ \A i \in 1 .. Len(path) :
                 /\ Leaving(d, path)[i] = d.exit[path[Len(path) - i + 1].state]
                 /\ Leaving(d, path)[i] \in Nat
<1>1. Len(path) \in Nat /\ \A i \in 1 .. Len(path) : path[i] \in Activations
  OBVIOUS
<1>2. ASSUME NEW i \in 1 .. Len(path)
      PROVE  d.exit[path[Len(path) - i + 1].state] \in Nat
  <2>1. Len(path) - i + 1 \in 1 .. Len(path)
    BY <1>1
  <2>2. path[Len(path) - i + 1].state \in States
    BY <1>1, <2>1 DEF Activations
  <2> QED  BY <2>2, CompiledTyped
<1> QED  BY <1>1, <1>2 DEF Leaving

(* Leaving the path from level keep on weighs the exit actions below keep.    *)
LEMMA ExitsWeigh ==
    ASSUME NEW d, Compiled(d), NEW path \in Seq(Activations), NEW keep \in 0 .. Len(path)
    PROVE  /\ Exits(d, SubSeq(path, keep + 1, Len(path))) \in Seq(Groups)
           /\ Weight(Exits(d, SubSeq(path, keep + 1, Len(path))))
                = Stretch(Leaving(d, path), 0, Len(path) - keep)
<1> DEFINE L == Len(path)
           n == L - keep
           p == SubSeq(path, keep + 1, L)
           e == Exits(d, p)
           c == Counts(e)
           f == Leaving(d, path)
<1>1. L \in Nat /\ n \in Nat /\ keep \in Nat /\ \A i \in 1 .. L : path[i] \in Activations
  OBVIOUS
<1>2. \A i \in 1 .. L : f[i] = d.exit[path[L - i + 1].state] /\ f[i] \in Nat
  BY LeavingIs
<1> HIDE DEF L, f
<1>3. p \in Seq(Activations) /\ Len(p) = n /\ \A i \in 1 .. n : p[i] = path[keep + i]
  <2>1. keep + 1 \in Int /\ L \in Int /\ \A i \in keep + 1 .. L : path[i] \in Activations
    BY <1>1
  <2>2. /\ p \in Seq(Activations)
        /\ Len(p) = IF keep + 1 <= L THEN L - (keep + 1) + 1 ELSE 0
        /\ \A i \in 1 .. L - (keep + 1) + 1 : p[i] = path[keep + 1 + i - 1]
    BY <2>1, SubSeqProperties
  <2> HIDE DEF p
  <2>3. L - (keep + 1) + 1 = n /\ Len(p) = n
    BY <1>1, <2>2
  <2>4. ASSUME NEW i \in 1 .. n PROVE p[i] = path[keep + i]
    <3>1. keep + 1 + i - 1 = keep + i
      BY <1>1
    <3> QED  BY <2>2, <2>3, <3>1
  <2> QED  BY <2>2, <2>3, <2>4
<1> HIDE DEF p
<1>4. /\ e \in Seq(Groups) /\ Len(e) = Len(p)
      /\ \A i \in 1 .. Len(p) : e[i].count = d.exit[p[Len(p) - i + 1].state]
  BY <1>3, ExitsIs
<1> HIDE DEF e
<1>5. c \in Seq(Nat) /\ Len(c) = Len(e) /\ \A i \in 1 .. Len(e) : c[i] = e[i].count
  BY <1>4, CountsIs
<1> HIDE DEF c
<1>6. \A i \in 1 .. n : c[i] = f[i] /\ f[i] \in Nat
  <2> TAKE i \in 1 .. n
  <2>1. n - i + 1 \in 1 .. n /\ keep + (n - i + 1) = L - i + 1 /\ i \in 1 .. L
    BY <1>1
  <2>2. c[i] = d.exit[p[n - i + 1].state]
    BY <1>3, <1>4, <1>5
  <2>3. p[n - i + 1] = path[L - i + 1]
    BY <1>3, <2>1
  <2> QED  BY <1>2, <2>1, <2>2, <2>3
<1>7. SumFunction(c) = SumFunctionOnSet(c, 1 .. n)
  BY <1>3, <1>4, <1>5, TotalIs
<1>8. SumFunctionOnSet(c, 1 .. n) = SumFunctionOnSet(f, 1 .. n)
  <2>1. IsFiniteSet(1 .. n)
    BY <1>1, FS_Interval
  <2> HIDE DEF n
  <2> QED  BY <1>6, <2>1, SumSame
<1>9. 0 + 1 .. n = 1 .. n
  OBVIOUS
<1>10. SumFunction(c) = Stretch(f, 0, n)
  BY <1>7, <1>8, <1>9, Zenon DEF Stretch
<1> QED  BY <1>4, <1>10 DEF c, e, p, f, L, Weight

(* A stretch of the path, counted as compile counts it. *)
ExitsAt(d, f, m, q) == \A i \in 1 .. Len(q) : f[m + i] = d.exit[q[i]]

(* It is what compile counts for the same states. *)
LEMMA StretchWeighs ==
    ASSUME NEW d, Compiled(d), NEW f, NEW m \in Nat, NEW q \in Seq(States),
           NEW l, l = m + Len(q), ExitsAt(d, f, m, q)
    PROVE  Stretch(f, m, l) = Actions(d.exit, q)
<1> DEFINE x == Counted(d.exit, q)
           n == Len(q)
<1>1. d.exit \in [States -> Nat]
  BY CompiledTyped
<1>2. /\ x \in Seq(Nat) /\ Len(x) = n /\ n \in Nat
      /\ \A i \in 1 .. n : x[i] = d.exit[q[i]] /\ d.exit[q[i]] \in Nat
  BY <1>1, CountedIs
<1>3. Actions(d.exit, q) = SumFunction(x)
  BY <1>1, ActionsIs
<1>4. Copies(f, m, n, x)
  BY <1>2 DEF Copies, ExitsAt
<1> HIDE DEF x, n
<1>5. Stretch(f, m, m + n) = Stretch(x, 0, n)
  BY <1>2, <1>4, SumShifted, SMT
<1>6. SumFunction(x) = Stretch(x, 0, n)
  <2>1. 0 + 1 .. n = 1 .. n
    OBVIOUS
  <2>2. SumFunction(x) = SumFunctionOnSet(x, 1 .. n)
    BY <1>2, TotalIs
  <2> QED  BY <2>1, <2>2, Zenon DEF Stretch
<1>7. l = m + n
  BY DEF n
<1> QED  BY <1>3, <1>5, <1>6, <1>7

-----------------------------------------------------------------------------
(* What compile counts *)

(* What is active below a level weighs no more than compile's maximum.       *)
LEMMA BelowFits ==
    ASSUME NEW d, Compiled(d), NEW path, NEW next, LegalPath(d, path, next),
           NEW level \in 1 .. Len(path), NEW n, n = Len(path) - level
    PROVE  /\ Stretch(Leaving(d, path), 0, n) \in Nat
           /\ Stretch(Leaving(d, path), 0, n) <= MaxExitBelow(d, path[level].state)
<1> DEFINE L == Len(path)
           f == Leaving(d, path)
           x == path[L].state
           y == path[level].state
<1>1. path \in Seq(Activations)
  BY DEF LegalPath
<1>2. L \in Nat /\ level \in Nat /\ L \in 1 .. L
  BY <1>1
<1>3. \A i \in 1 .. L : f[i] = d.exit[path[L - i + 1].state]
  BY <1>1, LeavingIs
<1>4. /\ x \in States /\ DepthOf(d, x) = L /\ \A k \in 1 .. L : Up(d, x)[k] = path[L - k + 1].state
  <2>1. \A j \in 1 .. Len(path) :
           /\ path[j].state \in States /\ DepthOf(d, path[j].state) = j
           /\ \A k \in 1 .. j : Up(d, path[j].state)[k] = path[j - k + 1].state
    <3> TAKE j \in 1 .. Len(path)
    <3> QED  BY ONLY Compiled(d), LegalPath(d, path, next), j \in 1 .. Len(path), PathDepth
  <2> QED  BY <1>2, <2>1, Zenon
<1>5. y \in States /\ DepthOf(d, y) = level
  BY PathDepth
<1>6. MaxExitBelow(d, y) \in Nat
  BY <1>5, MaxExitBelowIs
<1> HIDE DEF f
<1>7. CASE level = L
  <2>1. 0 + 1 .. n = {}
    BY <1>2, <1>7
  <2>2. Stretch(f, 0, n) = 0
    BY <2>1, SumEmpty, Zenon DEF Stretch
  <2> QED  BY <1>6, <2>2 DEF f
<1>8. CASE level # L
  <2> HIDE DEF x, L, y
  <2>1. L - level + 1 \in 1 .. L /\ L - (L - level + 1) + 1 = level /\ level \in 1 .. L
    BY <1>2 DEF L
  <2>2. Up(d, x)[L - level + 1] = y
    BY <1>4, <2>1 DEF y
  <2>3. y \in Above(d, x)
    BY <1>4, <2>1, <2>2, AtIsAbove
  <2>4. y # x
    BY <1>4, <1>5, <1>8
  <2>5. IsStrictDescendant(d, x, y)
    BY <1>4, <2>3, <2>4, StrictIsAbove
  <2> DEFINE q == UpTo(d, x, y)
  <2>6. Level(d, y) = level
    BY <1>5, SomeStates DEF Level
  <2>7. q \in Seq(States) /\ Len(q) = L - level /\ \A i \in 1 .. L - level : q[i] = Up(d, x)[i]
    BY <1>4, <2>3, <2>6, UpToIs
  <2>8. Actions(d.exit, q) <= MaxExitBelow(d, y) /\ Actions(d.exit, q) \in Nat
    BY <1>4, <1>5, <2>5, MaxExitBelowIs
  <2> HIDE DEF q
  <2>9. \A i \in 1 .. Len(q) : f[0 + i] = d.exit[q[i]]
    <3> TAKE i \in 1 .. Len(q)
    <3>1. i \in 1 .. L /\ i \in 1 .. L - level /\ 0 + i = i
      BY <1>2, <2>1, <2>7
    <3>2. f[i] = d.exit[path[L - i + 1].state] /\ q[i] = path[L - i + 1].state
      BY <1>3, <1>4, <2>7, <3>1
    <3> QED  BY <3>1, <3>2
  <2>9a. ExitsAt(d, f, 0, q)
    BY <2>9 DEF ExitsAt
  <2>10. n = 0 + Len(q)
    BY <1>2, <2>1, <2>7 DEF L
  <2>11. Stretch(f, 0, n) = Actions(d.exit, q)
    BY ONLY Compiled(d), <2>7, <2>9a, <2>10, StretchWeighs
  <2> QED  BY <2>8, <2>11 DEF f, y
<1> QED  BY <1>7, <1>8

(* From the source up to the boundary. *)
LEMMA SourceWeighs ==
    ASSUME NEW d, Compiled(d), NEW path, NEW next, LegalPath(d, path, next),
           NEW level \in 1 .. Len(path), NEW boundary, NEW keep \in 0 .. level,
           keep = Level(d, boundary),
           boundary # NoState => boundary \in Above(d, path[level].state),
           NEW m, m = Len(path) - level, NEW l, l = Len(path) - keep
    PROVE  Stretch(Leaving(d, path), m, l) = Actions(d.exit, UpTo(d, path[level].state, boundary))
<1> DEFINE L == Len(path)
           f == Leaving(d, path)
           y == path[level].state
           q == UpTo(d, y, boundary)
<1>1. path \in Seq(Activations)
  BY DEF LegalPath
<1>2. L \in Nat /\ level \in Nat /\ keep \in Nat /\ level <= L /\ keep <= level
  BY <1>1
<1>3. \A i \in 1 .. L : f[i] = d.exit[path[L - i + 1].state]
  BY <1>1, LeavingIs
<1>4. y \in States /\ DepthOf(d, y) = level /\ \A k \in 1 .. level : Up(d, y)[k] = path[level - k + 1].state
  <2>1. \A j \in 1 .. Len(path) :
           /\ path[j].state \in States /\ DepthOf(d, path[j].state) = j
           /\ \A k \in 1 .. j : Up(d, path[j].state)[k] = path[j - k + 1].state
    <3> TAKE j \in 1 .. Len(path)
    <3> QED  BY ONLY Compiled(d), LegalPath(d, path, next), j \in 1 .. Len(path), PathDepth
  <2> QED  BY <2>1, Zenon
<1> HIDE DEF f, y
<1>5. q \in Seq(States) /\ Len(q) = level - keep /\ \A i \in 1 .. level - keep : q[i] = Up(d, y)[i]
  BY <1>4, UpToIs DEF y
<1> HIDE DEF q
<1>6. m \in Nat /\ l = m + Len(q)
  BY <1>2, <1>5
<1>7. \A i \in 1 .. Len(q) : f[m + i] = d.exit[q[i]]
  <2> TAKE i \in 1 .. Len(q)
  <2>1. m = L - level
    OBVIOUS
  <2> HIDE DEF L
  <2>2. i \in 1 .. level /\ i \in 1 .. level - keep /\ m + i \in 1 .. L /\ L - (m + i) + 1 = level - i + 1
    <3>1. i \in 1 .. level - keep
      BY <1>5
    <3> QED  BY ONLY <1>2, <2>1, <3>1
  <2>3. f[m + i] = d.exit[path[level - i + 1].state] /\ q[i] = path[level - i + 1].state
    BY <1>3, <1>4, <1>5, <2>2
  <2> QED  BY <2>3
<1>8. Stretch(f, m, l) = Actions(d.exit, q)
  <2>1. ExitsAt(d, f, m, q)
    BY <1>7 DEF ExitsAt
  <2> QED  BY ONLY Compiled(d), <1>5, <1>6, <2>1, StretchWeighs
<1> QED  BY <1>8 DEF f, q, y

(* What compile counts for a transition is a number. *)
LEMMA WorstCaseIs ==
    ASSUME NEW d, Compiled(d), NEW s, NEW t \in Own(d, s)
    PROVE  /\ WorstCase(d, t) \in Nat
           /\ t.kind # "Internal" =>
                /\ MaxExitBelow(d, t.source) \in Nat
                /\ EntryActions(d, t.target, Boundary(d, t)) \in Nat
           /\ t.kind = "Internal" => WorstCase(d, t) = t.actions
           /\ t.kind = "Local" =>
                WorstCase(d, t) = MaxExitBelow(d, t.source) + t.actions
                                     + EntryActions(d, t.target, Boundary(d, t))
           /\ t.kind = "External" =>
                /\ Actions(d.exit, UpTo(d, t.source, Boundary(d, t))) \in Nat
                /\ WorstCase(d, t) = MaxExitBelow(d, t.source)
                                     + Actions(d.exit, UpTo(d, t.source, Boundary(d, t)))
                                     + t.actions + EntryActions(d, t.target, Boundary(d, t))
<1> DEFINE b == Boundary(d, t)
<1>1. /\ t.source \in States /\ t.actions \in Nat
      /\ t.kind \in {"Internal", "Local", "External"}
      /\ t.kind # "Internal" => t.target \in States
      /\ t.kind = "Local" => IsStrictDescendant(d, t.target, t.source)
  BY OwnIs
<1>2. MaxExitBelow(d, t.source) \in Nat
  BY <1>1, MaxExitBelowIs
<1>3. CASE t.kind = "Internal"
  BY <1>1, <1>3 DEF WorstCase
<1>4. CASE t.kind = "Local"
  <2>1. b = t.source
    BY <1>4 DEF Boundary
  <2>2. b \in Above(d, t.target)
    BY <1>1, <1>4, <2>1, StrictIsAbove
  <2>3. EntryActions(d, t.target, b) \in Nat
    BY <1>1, <1>4, <2>2, EntriesAre
  <2>4. WorstCase(d, t) = MaxExitBelow(d, t.source) + t.actions + EntryActions(d, t.target, b)
    BY <1>4, <2>1 DEF WorstCase
  <2> HIDE DEF b
  <2>5. WorstCase(d, t) \in Nat
    BY <1>1, <1>2, <2>3, <2>4
  <2> QED  BY <1>2, <1>4, <2>3, <2>4, <2>5 DEF b
<1>5. CASE t.kind = "External"
  <2>1. b = StrictCommonAncestor(d, t.source, t.target)
    BY <1>5 DEF Boundary
  <2>2. b # NoState => b \in Above(d, t.source) /\ b \in Above(d, t.target)
    BY <1>1, <1>5, <2>1, CommonAncestor
  <2>3. EntryActions(d, t.target, b) \in Nat
    BY <1>1, <1>5, <2>2, EntriesAre
  <2>4. Actions(d.exit, UpTo(d, t.source, b)) \in Nat
    <3>1. UpTo(d, t.source, b) \in Seq(States)
      BY <1>1, <2>2, UpToIs
    <3> QED  BY <3>1, CompiledTyped, ActionsIs
  <2>5. WorstCase(d, t) = MaxExitBelow(d, t.source) + Actions(d.exit, UpTo(d, t.source, b))
                            + t.actions + EntryActions(d, t.target, b)
    BY <1>5, <2>1 DEF WorstCase
  <2> HIDE DEF b
  <2>6. WorstCase(d, t) \in Nat
    BY <1>1, <1>2, <2>3, <2>4, <2>5
  <2> QED  BY <1>2, <1>5, <2>3, <2>4, <2>5, <2>6 DEF b
<1> QED  BY <1>1, <1>3, <1>4, <1>5

(* No start, stop or transition is counted for more than the bound.          *)
LEMMA MaxPlanIs ==
    ASSUME NEW d, Compiled(d)
    PROVE  /\ MaxPlanActions(d) \in Nat
           /\ EntryActions(d, d.root, NoState) <= MaxPlanActions(d)
           /\ \A s \in States : d.parent[s] = NoState =>
                 d.exit[s] + MaxExitBelow(d, s) <= MaxPlanActions(d)
           /\ \A i \in DOMAIN d.transitions : WorstCase(d, d.transitions[i]) <= MaxPlanActions(d)
<1> DEFINE X == {x \in States : d.parent[x] = NoState}
           A == {d.exit[s] + MaxExitBelow(d, s) : s \in X}
           a == [s \in X |-> d.exit[s] + MaxExitBelow(d, s)]
           I == DOMAIN d.transitions
           B == {WorstCase(d, d.transitions[i]) : i \in I}
           b == [i \in I |-> WorstCase(d, d.transitions[i])]
           e == EntryActions(d, d.root, NoState)
           S == {e} \cup A \cup B
<1>1. e \in Nat
  BY RootIs, EntriesAre
<1>2. IsFiniteSet(X) /\ a \in Surjection(X, A)
  BY SomeStates, FS_Subset DEF Surjection
<1>3. IsFiniteSet(I) /\ b \in Surjection(I, B)
  <2>1. d.transitions \in Seq(Transitions)
    BY CompiledTyped
  <2>2. I = 1 .. Len(d.transitions) /\ Len(d.transitions) \in Nat
    BY <2>1
  <2>3. IsFiniteSet(I)
    BY <2>2, FS_Interval
  <2> QED  BY <2>3 DEF Surjection
<1>4. A \subseteq Nat
  <2>1. ASSUME NEW s \in X PROVE d.exit[s] + MaxExitBelow(d, s) \in Nat
    <3>1. d.exit[s] \in Nat
      BY CompiledTyped
    <3>2. MaxExitBelow(d, s) \in Nat
      BY MaxExitBelowIs
    <3> QED  BY <3>1, <3>2
  <2> QED  BY <2>1
<1>5. B \subseteq Nat
  <2>1. ASSUME NEW i \in I PROVE WorstCase(d, d.transitions[i]) \in Nat
    <3>1. d.transitions[i] \in Own(d, d.transitions[i].source)
      BY DEF Own, ToSet
    <3> QED  BY <3>1, WorstCaseIs
  <2> QED  BY <2>1
<1>6. MaxPlanActions(d) = Max(S)
  BY DEF MaxPlanActions
<1>7. /\ e \in S
      /\ \A s \in X : d.exit[s] + MaxExitBelow(d, s) \in S
      /\ \A i \in I : WorstCase(d, d.transitions[i]) \in S
  OBVIOUS
<1> HIDE DEF a, b, A, B, I, e, X
<1>8. IsFiniteSet(S)
  <2>1. IsFiniteSet(A) /\ IsFiniteSet(B) /\ IsFiniteSet({e})
    BY <1>2, <1>3, FS_Surjection, FS_Singleton
  <2>2. IsFiniteSet({e} \cup A)
    BY <2>1, FS_Union
  <2> QED  BY <2>1, <2>2, FS_Union
<1>9. S \subseteq Nat /\ S # {}
  BY <1>1, <1>4, <1>5
<1> HIDE DEF S
<1>10. Max(S) \in Nat /\ \A x \in S : x <= Max(S)
  BY <1>8, <1>9, MaxIsBound
<1> QED  BY <1>6, <1>7, <1>10 DEF e, X, I

-----------------------------------------------------------------------------
(* Every plan fits the bound *)

(* A start fits the bound. *)
LEMMA StartFits ==
    ASSUME NEW d, Compiled(d), NEW s, Legal(d, s), NEW e \in Nat,
           NEW plan, plan = Start(d, s, e), ~IsRejected(plan)
    PROVE  Size(plan) <= MaxPlanActions(d)
<1> DEFINE q == Entered(d, d.root, NoState)
           g == Enters(d, Activated(Started(s, e), q))
<1>1. plan.records = <<>> \o g
  BY StartIs
<1>2. d.root \in States /\ s \in Snapshots
  BY RootIs DEF Legal
<1>3. q \in Seq(States) /\ Actions(d.entry, q) = EntryActions(d, d.root, NoState)
      /\ EntryActions(d, d.root, NoState) \in Nat
  <2>1. q \in Seq(States)
    BY <1>2, EnteredIsRest
  <2>2. Actions(d.entry, q) = EntryActions(d, d.root, NoState) /\ EntryActions(d, d.root, NoState) \in Nat
    BY <1>2, EntriesAre
  <2> QED  BY <2>1, <2>2
<1>4. Started(s, e) \in Snapshots
  BY <1>2, StartedIs
<1> HIDE DEF q
<1>5. g \in Seq(Groups) /\ Weight(g) = Actions(d.entry, q)
  BY <1>3, <1>4, EntersWeigh
<1> HIDE DEF g
<1>6. <<>> \o g = g
  BY <1>5
<1>7. Size(plan) = Weight(g)
  BY <1>1, <1>6, SizeIs
<1> QED  BY <1>3, <1>5, <1>7, MaxPlanIs

(* A stop leaves one path below a root child, which is the costliest at most. *)
LEMMA StopFits ==
    ASSUME NEW d, Compiled(d), NEW s, Legal(d, s),
           NEW plan, plan = Stop(d, s), ~IsRejected(plan)
    PROVE  Size(plan) <= MaxPlanActions(d)
<1> DEFINE path == s.path
           L == Len(path)
           f == Leaving(d, path)
           y == path[1].state
<1>1. plan.records = Exits(d, path) /\ s.lifecycle = "Running"
  BY StopIs
<1>2. LegalPath(d, path, s.next) /\ path \in Seq(Activations) /\ path # <<>>
  BY <1>1 DEF Legal, LegalPath
<1>3. L \in Nat /\ L >= 1 /\ 1 \in 1 .. L
  BY <1>2
<1>4. y \in States /\ d.parent[y] = NoState
  <2>1. Nested(d, Along(path)) /\ Len(Along(path)) = L /\ Along(path)[1] = y /\ y \in States
    BY <1>2, <1>3, AlongIs DEF LegalPath
  <2> QED  BY <1>3, <2>1 DEF Nested
<1>5. Weight(Exits(d, path)) = Stretch(f, 0, L)
  <2>1. SubSeq(path, 1, L) = path
    BY <1>2, SubSeqFull
  <2>2. 0 \in 0 .. Len(path) /\ 0 + 1 = 1 /\ L - 0 = L
    BY <1>3
  <2>3. Weight(Exits(d, SubSeq(path, 0 + 1, L))) = Stretch(f, 0, L - 0)
    <3> HIDE DEF path
    <3> QED  BY <1>2, <2>2, ExitsWeigh
  <2> QED  BY <2>1, <2>2, <2>3
<1>6. \A i \in 1 .. L : f[i] = d.exit[path[L - i + 1].state] /\ f[i] \in Nat
  BY <1>2, LeavingIs
<1>7. f[L] = d.exit[y] /\ f[L] \in Nat
  <2>1. L \in 1 .. L /\ L - L + 1 = 1
    BY <1>3
  <2> HIDE DEF f, L
  <2> QED  BY <1>6, <2>1
<1>8. Stretch(f, 0, L - 1) \in Nat /\ Stretch(f, 0, L - 1) <= MaxExitBelow(d, y)
  <2> HIDE DEF path
  <2> QED  BY <1>2, <1>3, BelowFits
<1> HIDE DEF f, y, L, path
<1>9. Stretch(f, 0, L) = Stretch(f, 0, L - 1) + Stretch(f, L - 1, L)
  <2>1. L - 1 \in Nat /\ 1 \in Nat /\ L = (L - 1) + 1 /\ \A i \in 1 .. L : f[i] \in Nat
    BY <1>3, <1>6
  <2> QED  BY <2>1, SumCut
<1>10. Stretch(f, L - 1, L) = f[L]
  <2>1. (L - 1) + 1 .. L = {L}
    BY <1>3
  <2>2. SumFunctionOnSet(f, {L}) = f[L] + SumFunctionOnSet(f, {})
    <3>1. IsFiniteSet({L}) /\ {L} \ {L} = {} /\ L \in {L} /\ \A x \in {L} : f[x] \in Nat
      BY <1>7, FS_Singleton
    <3> QED  BY <3>1, SumRemove
  <2>3. Stretch(f, L - 1, L) = SumFunctionOnSet(f, {L})
    BY <2>1, Zenon DEF Stretch
  <2>4. SumFunctionOnSet(f, {}) = 0
    BY SumEmpty
  <2> QED  BY <1>7, <2>2, <2>3, <2>4
<1>11. d.exit[y] + MaxExitBelow(d, y) <= MaxPlanActions(d) /\ MaxPlanActions(d) \in Nat
  BY <1>4, MaxPlanIs
<1>12. MaxExitBelow(d, y) \in Nat
  BY <1>4, MaxExitBelowIs
<1>13. Size(plan) = Stretch(f, 0, L)
  BY <1>1, <1>5, SizeIs
<1> QED  BY <1>7, <1>8, <1>9, <1>10, <1>11, <1>12, <1>13

(* A transition leaves what compile counted for its source at most, and enters*)
(* what compile counted for its target.                                      *)
LEMMA TransitionFits ==
    ASSUME NEW d, Compiled(d), NEW s, Legal(d, s),
           NEW level \in 1 .. Len(s.path), NEW t \in Own(d, s.path[level].state),
           NEW plan, plan = Transition(d, s, level, t), ~IsRejected(plan)
    PROVE  Size(plan) <= MaxPlanActions(d)
<1> DEFINE path == s.path
           L == Len(path)
           f == Leaving(d, path)
           b == Boundary(d, t)
           q == EnteredBy(d, t)
           keep == Kept(d, s, level, t)
           x == Exits(d, SubSeq(path, keep + 1, L))
           r == Records("Transition", path[level], t.actions)
           g == Enters(d, Activated(s, q))
<1>1. s \in Snapshots /\ LegalPath(d, path, s.next) /\ path \in Seq(Activations)
  BY DEF Legal, LegalPath
<1>2. L \in Nat /\ level \in Nat /\ level <= L /\ path[level] \in Activations
  BY <1>1
<1>3. /\ t.source = path[level].state /\ t.source \in States /\ t.actions \in Nat
      /\ t.kind \in {"Internal", "Local", "External"}
      /\ t.kind # "Internal" => t.target \in States
      /\ \E i \in DOMAIN d.transitions : t = d.transitions[i]
  BY OwnIs
<1>4. /\ t.kind = "Internal" => keep = L
      /\ t.kind # "Internal" =>
            /\ b # NoState => b \in Above(d, t.target) /\ b \in Above(d, t.source)
            /\ keep = Level(d, b) /\ keep \in 0 .. level
            /\ t.kind = "Local" => keep = level
  <2> HIDE DEF b, keep
  <2> QED  BY <1>1, KeptIs DEF b, keep
<1>5. keep \in 0 .. L
  BY <1>2, <1>3, <1>4
<1>6. plan.records = Append(x, r) \o g
  BY TransitionedIs
<1>7. Append(x, r) = x \o <<r>>
  <2> HIDE DEF keep
  <2> QED  BY <1>5, RecordsJoin
<1>8. q \in Seq(States)
  BY <1>1, TransitionIs
<1>9. g \in Seq(Groups) /\ Weight(g) = Actions(d.entry, q)
  <2> HIDE DEF q
  <2> QED  BY <1>1, <1>8, EntersWeigh
<1>10. x \in Seq(Groups) /\ Weight(x) = Stretch(f, 0, L - keep)
  <2> HIDE DEF path, keep
  <2> QED  BY <1>1, <1>5, ExitsWeigh
<1>11. r \in Groups /\ r.count = t.actions
  BY <1>2, <1>3, RecordsIs
<1>12. Size(plan) = Stretch(f, 0, L - keep) + t.actions + Actions(d.entry, q)
  <2> HIDE DEF x, r, g, f, keep, q, L
  <2>1. <<r>> \in Seq(Groups) /\ Weight(<<r>>) = t.actions
    BY <1>11, WeightOfOne
  <2>2. x \o <<r>> \in Seq(Groups) /\ Weight(x \o <<r>>) = Weight(x) + Weight(<<r>>)
    BY <1>10, <2>1, ConcatProperties, WeightJoins
  <2>3. Weight((x \o <<r>>) \o g) = Weight(x \o <<r>>) + Weight(g)
    BY <1>9, <2>2, WeightJoins
  <2>4. Size(plan) = Weight((x \o <<r>>) \o g)
    BY <1>6, <1>7, SizeIs
  <2> QED  BY <1>9, <1>10, <2>1, <2>2, <2>3, <2>4
<1>13. WorstCase(d, t) <= MaxPlanActions(d) /\ WorstCase(d, t) \in Nat /\ MaxPlanActions(d) \in Nat
  BY <1>3, MaxPlanIs, WorstCaseIs
<1> DEFINE E == EntryActions(d, t.target, b)
           M == MaxExitBelow(d, t.source)
           U == Actions(d.exit, UpTo(d, t.source, b))
<1>14. /\ t.kind # "Internal" => M \in Nat /\ E \in Nat
       /\ t.kind = "Internal" => WorstCase(d, t) = t.actions
       /\ t.kind = "Local" => WorstCase(d, t) = M + t.actions + E
       /\ t.kind = "External" => U \in Nat /\ WorstCase(d, t) = M + U + t.actions + E
  BY WorstCaseIs
<1>15. t.kind = "Internal" => Actions(d.entry, q) = 0
  <2>1. t.kind = "Internal" => q = <<>>
    BY DEF EnteredBy
  <2> QED  BY <2>1, <1>8, CompiledTyped, ActionsIs
<1>16. t.kind # "Internal" => Actions(d.entry, q) = E
  <2>1. t.kind # "Internal" => q = Entered(d, t.target, b)
    BY DEF EnteredBy
  <2>2. t.kind # "Internal" => Actions(d.entry, Entered(d, t.target, b)) = E
    BY <1>3, <1>4, EntriesAre
  <2> QED  BY <2>1, <2>2
<1> DEFINE B == Stretch(f, 0, L - level)
<1>17. B \in Nat /\ B <= M
  <2> HIDE DEF path
  <2>1. B <= MaxExitBelow(d, path[level].state) /\ B \in Nat
    BY <1>1, BelowFits DEF path
  <2> QED  BY <1>3, <2>1
<1>18. t.kind = "Internal" => Stretch(f, 0, L - keep) = 0
  <2>1. keep = L => 0 + 1 .. L - keep = {}
    BY <1>2
  <2> HIDE DEF f, L, keep
  <2> QED  BY <1>4, <2>1, SumEmpty DEF Stretch
<1>19. t.kind = "Local" => Stretch(f, 0, L - keep) = B
  BY <1>4
<1>20. t.kind = "External" => Stretch(f, 0, L - keep) = B + U
  <2> SUFFICES ASSUME t.kind = "External" PROVE Stretch(f, 0, L - keep) = B + U
    OBVIOUS
  <2> HIDE DEF keep, b
  <2>1. keep = Level(d, b) /\ keep \in 0 .. level /\ (b # NoState => b \in Above(d, path[level].state))
    BY <1>3, <1>4
  <2> DEFINE m == L - level
             l == L - keep
  <2>2. m \in Nat /\ level - keep \in Nat /\ l = m + (level - keep)
    <3>1. L \in Nat /\ level \in Nat /\ level <= L /\ keep \in 0 .. level
      BY <1>2, <2>1
    <3> HIDE DEF L
    <3> QED  BY ONLY <3>1
  <2>3. \A i \in 1 .. l : f[i] \in Nat
    <3>1. \A i \in 1 .. L : f[i] \in Nat
      BY <1>1, LeavingIs
    <3>2. \A i \in 1 .. l : i \in 1 .. L
      BY <1>2, <2>1
    <3> QED  BY <3>1, <3>2
  <2>4. m = L - level /\ l = L - keep
    OBVIOUS
  <2>5. Stretch(f, m, l) = Actions(d.exit, UpTo(d, path[level].state, b))
    <3> HIDE DEF m, l, path
    <3> QED  BY <1>1, <2>1, <2>4, SourceWeighs DEF path
  <2>6. Stretch(f, 0, l) = Stretch(f, 0, m) + Stretch(f, m, l)
    <3> HIDE DEF m, l, f
    <3> QED  BY <2>2, <2>3, SumCut
  <2>7. U = Actions(d.exit, UpTo(d, path[level].state, b))
    BY <1>3
  <2> QED  BY <2>5, <2>6, <2>7
<1> HIDE DEF path, L, f, b, q, keep, x, r, g, E, M, U, B
<1>21. CASE t.kind = "Internal"
  BY <1>3, <1>12, <1>13, <1>14, <1>15, <1>18, <1>21
<1>22. CASE t.kind = "Local"
  BY <1>3, <1>12, <1>13, <1>14, <1>16, <1>17, <1>19, <1>22
<1>23. CASE t.kind = "External"
  BY <1>3, <1>12, <1>13, <1>14, <1>16, <1>17, <1>20, <1>23
<1> QED  BY <1>3, <1>21, <1>22, <1>23

(* A plan without records fits any bound. *)
LEMMA UnhandledFits ==
    ASSUME NEW d, Compiled(d), NEW s, Legal(d, s),
           NEW plan, plan = Planned(d, s, "Unhandled", s.path, <<>>, <<>>), ~IsRejected(plan)
    PROVE  Size(plan) <= MaxPlanActions(d)
<1>1. plan.records = <<>> \o Enters(d, Activated(s, <<>>))
  BY UnhandledIs
<1>2. s \in Snapshots /\ <<>> \in Seq(States)
  BY DEF Legal
<1> DEFINE g == Enters(d, Activated(s, <<>>))
<1>3. g \in Seq(Groups) /\ Weight(g) = Actions(d.entry, <<>>)
  BY <1>2, EntersWeigh
<1>4. Actions(d.entry, <<>>) = 0
  BY <1>2, CompiledTyped, ActionsIs
<1> HIDE DEF g
<1>5. <<>> \o g = g
  BY <1>3
<1>6. Size(plan) = Weight(g)
  BY <1>1, <1>5, SizeIs DEF g
<1> QED  BY <1>3, <1>4, <1>6, MaxPlanIs

(* Every plan of a legal snapshot fits. *)
LEMMA BoundFollows == IInv => PlansFitTheBound
<1> SUFFICES ASSUME IInv,
                    NEW plan \in {Start(def, snap, epoch), Stop(def, snap)}
                                    \cup {Event(def, snap, frame, NoScope) : frame \in Frames},
                    ~IsRejected(plan)
             PROVE  Size(plan) <= MaxPlanActions(def)
  BY DEF PlansFitTheBound
<1>1. Compiled(def) /\ Legal(def, snap) /\ epoch \in Nat /\ snap.path \in Seq(Activations)
  BY DEF IInv, Legal, LegalPath
<1>2. CASE plan = Start(def, snap, epoch)
  BY <1>1, <1>2, StartFits
<1>3. CASE plan = Stop(def, snap)
  BY <1>1, <1>3, StopFits
<1>4. ASSUME NEW frame \in Frames, plan = Event(def, snap, frame, NoScope)
      PROVE  Size(plan) <= MaxPlanActions(def)
  <2>1. CASE plan = Planned(def, snap, "Unhandled", snap.path, <<>>, <<>>)
    BY <1>1, <2>1, UnhandledFits
  <2>2. ASSUME plan # Planned(def, snap, "Unhandled", snap.path, <<>>, <<>>)
        PROVE  Size(plan) <= MaxPlanActions(def)
    <3> DEFINE c == Head(Select(def, snap, frame))
    <3>1. Select(def, snap, frame) # <<>> /\ plan = Transition(def, snap, c.level, c.transition)
      BY <1>4, <2>2, EventIs
    <3>2. c.level \in 1 .. Len(snap.path) /\ c.transition \in Own(def, snap.path[c.level].state)
      BY <1>1, <3>1, SelectIs
    <3> HIDE DEF c
    <3> QED  BY <1>1, <3>1, <3>2, TransitionFits
  <2> QED  BY <2>1, <2>2
<1> QED  BY <1>2, <1>3, <1>4

(* The bound holds. *)
THEOREM BoundHolds == Spec => []PlansFitTheBound
BY Inductive, BoundFollows, PTL

-----------------------------------------------------------------------------
(* Plans of a batch *)

(* A plan that is refused, or lists what the types say. *)
WellFormed(plan) ==
    ~IsRejected(plan) => plan.next \in Snapshots /\ plan.records \in Seq(Groups)

(* A start, *)
LEMMA StartForms ==
    ASSUME NEW d, Compiled(d), NEW s, Legal(d, s), NEW e \in Nat, NEW plan, plan = Start(d, s, e)
    PROVE  WellFormed(plan)
<1> SUFFICES ASSUME ~IsRejected(plan) PROVE WellFormed(plan)
  BY DEF WellFormed
<1> DEFINE q == Entered(d, d.root, NoState)
           g == Enters(d, Activated(Started(s, e), q))
<1>1. Follows(d, s, plan.next) /\ plan.records = <<>> \o g
  BY StartIs
<1>2. q \in Seq(States) /\ Started(s, e) \in Snapshots
  BY RootIs, EnteredIsRest, StartedIs DEF Legal
<1> HIDE DEF q
<1>3. g \in Seq(Groups)
  BY <1>2, EntersWeigh
<1> HIDE DEF g
<1>4. <<>> \o g = g
  BY <1>3
<1> QED  BY <1>1, <1>3, <1>4 DEF WellFormed, Follows, Legal

(* a stop, *)
LEMMA StopForms ==
    ASSUME NEW d, Compiled(d), NEW s, Legal(d, s), NEW plan, plan = Stop(d, s)
    PROVE  WellFormed(plan)
<1> SUFFICES ASSUME ~IsRejected(plan) PROVE WellFormed(plan)
  BY DEF WellFormed
<1>1. Follows(d, s, plan.next) /\ plan.records = Exits(d, s.path)
  BY StopIs
<1>2. Exits(d, s.path) \in Seq(Groups)
  BY ExitsIs DEF Legal, LegalPath
<1> QED  BY <1>1, <1>2 DEF WellFormed, Follows, Legal

(* and an event give such a plan. *)
LEMMA EventForms ==
    ASSUME NEW d, Compiled(d), NEW s, Legal(d, s), NEW frame, NEW scope,
           NEW plan, plan = Event(d, s, frame, scope)
    PROVE  WellFormed(plan)
<1> SUFFICES ASSUME ~IsRejected(plan) PROVE WellFormed(plan)
  BY DEF WellFormed
<1>1. Follows(d, s, plan.next)
  BY EventFollows
<1>2. s \in Snapshots /\ s.path \in Seq(Activations) /\ Len(s.path) \in Nat
  BY DEF Legal, LegalPath
<1>3. CASE plan = Planned(d, s, "Unhandled", s.path, <<>>, <<>>)
  <2> DEFINE none == <<>>
             g == Enters(d, Activated(s, none))
  <2>1. none \in Seq(States)
    OBVIOUS
  <2>2. plan.records = <<>> \o g
    BY <1>3, UnhandledIs
  <2> HIDE DEF none
  <2>3. g \in Seq(Groups)
    BY <1>2, <2>1, EntersWeigh
  <2> HIDE DEF g
  <2>4. <<>> \o g = g
    BY <2>3
  <2> QED  BY <1>1, <2>2, <2>3, <2>4 DEF WellFormed, Follows, Legal
<1>4. CASE /\ Select(d, s, frame) # <<>>
           /\ plan = Transition(d, s, Head(Select(d, s, frame)).level,
                                Head(Select(d, s, frame)).transition)
  <2> DEFINE c == Head(Select(d, s, frame))
             level == c.level
             t == c.transition
             exits == Exits(d, SubSeq(s.path, Kept(d, s, level, t) + 1, Len(s.path)))
             group == Records("Transition", s.path[level], t.actions)
             g == Enters(d, Activated(s, EnteredBy(d, t)))
  <2>1. level \in 1 .. Len(s.path) /\ t \in Own(d, s.path[level].state)
    BY <1>2, <1>4, SelectIs
  <2>2. plan = Transition(d, s, level, t)
    BY <1>4
  <2> HIDE DEF level, t, c
  <2>3. plan.records = Append(exits, group) \o g
    BY <2>1, <2>2, TransitionedIs
  <2>4. EnteredBy(d, t) \in Seq(States)
    BY <2>1, TransitionIs DEF Legal
  <2>5. g \in Seq(Groups)
    BY <1>2, <2>4, EntersWeigh
  <2>6. Kept(d, s, level, t) \in 0 .. Len(s.path)
    BY <1>2, <2>1, KeptIs DEF Legal
  <2>7. SubSeq(s.path, Kept(d, s, level, t) + 1, Len(s.path)) \in Seq(Activations)
    <3> DEFINE k == Kept(d, s, level, t) + 1
    <3>1. k \in Int /\ Len(s.path) \in Int /\ \A i \in k .. Len(s.path) : s.path[i] \in Activations
      BY <1>2, <2>6
    <3> HIDE DEF k
    <3>2. SubSeq(s.path, k, Len(s.path)) \in Seq(Activations)
      BY <3>1, SubSeqProperties
    <3> QED  BY <3>2 DEF k
  <2>8. exits \in Seq(Groups)
    BY <2>7, ExitsIs
  <2>9. group \in Groups
    <3>1. s.path[level] \in Activations /\ t.actions \in Nat
      BY <1>2, <2>1, OwnIs
    <3> QED  BY <3>1, RecordsIs
  <2> HIDE DEF exits, group, g
  <2>10. Append(exits, group) \o g \in Seq(Groups)
    BY <2>5, <2>8, <2>9
  <2> QED  BY <1>1, <2>3, <2>10 DEF WellFormed, Follows, Legal
<1> QED  BY <1>3, <1>4, EventIs

(* So do the items a host of machine 1 asks for, *)
LEMMA OwnForms ==
    ASSUME IInv, NEW own \in OwnItems
    PROVE  WellFormed(Evaluate(own))
<1>1. Compiled(def) /\ Legal(def, snap) /\ Legal(def, NotStarted) /\ epoch \in Nat
  BY NotStartedIs DEF IInv
<1>2. own.snapshot = snap /\ own.epoch = epoch /\ own.kind \in {"Start", "Stop", "Event"}
  <2> DEFINE item == [key |-> 1, kind |-> "Start", owner |-> 1, snapshot |-> snap, epoch |-> epoch,
                      frame |-> <<>>, scope |-> NoScope]
  <2>1. \/ own = [item EXCEPT !.owner = 2] \/ own = item \/ own = [item EXCEPT !.kind = "Stop"]
        \/ \E f : own = [item EXCEPT !.kind = "Event", !.frame = f]
    <3>1. own \in {[item EXCEPT !.owner = 2]} \cup
                  IF snap.lifecycle # "Running" THEN {item}
                  ELSE {[item EXCEPT !.kind = "Stop"]}
                       \cup {[item EXCEPT !.kind = "Event", !.frame = f] : f \in [Guards -> BOOLEAN]}
      BY Zenon DEF OwnItems
    <3> HIDE DEF item
    <3> QED  BY <3>1
  <2>2. CASE own = [item EXCEPT !.owner = 2]
    BY <2>2
  <2>3. CASE own = item
    BY <2>3
  <2>4. CASE own = [item EXCEPT !.kind = "Stop"]
    BY <2>4
  <2>5. ASSUME NEW f, own = [item EXCEPT !.kind = "Event", !.frame = f]
        PROVE  own.snapshot = snap /\ own.epoch = epoch /\ own.kind = "Event"
    BY <2>5
  <2> QED  BY <2>1, <2>2, <2>3, <2>4, <2>5
<1> DEFINE plan == Evaluate(own)
<1> SUFFICES WellFormed(plan)
  OBVIOUS
<1>3. \/ plan = Rejected("LifecycleViolation") \/ plan = Rejected("MachineKeyMismatch")
      \/ plan = Start(def, NotStarted, epoch) \/ plan = Start(def, snap, epoch)
      \/ plan = Stop(def, snap) \/ plan = Event(def, snap, own.frame, own.scope)
  BY <1>2, Zenon DEF Evaluate
<1>4. CASE plan = Rejected("LifecycleViolation") \/ plan = Rejected("MachineKeyMismatch")
  BY <1>4 DEF WellFormed, IsRejected, Rejected
<1> HIDE DEF plan
<1>5. CASE plan = Start(def, NotStarted, epoch) \/ plan = Start(def, snap, epoch)
  BY <1>1, <1>5, StartForms
<1>6. CASE plan = Stop(def, snap)
  BY <1>1, <1>6, StopForms
<1>7. CASE plan = Event(def, snap, own.frame, own.scope)
  BY <1>1, <1>7, EventForms
<1> QED  BY <1>3, <1>4, <1>5, <1>6, <1>7

(* and a machine nobody started. *)
LEMMA FreshForms == ASSUME IInv PROVE WellFormed(Evaluate(Fresh(2)))
<1> DEFINE plan == Evaluate(Fresh(2))
<1>1. plan = Start(def, NotStarted, 1)
  BY Zenon DEF Evaluate, Fresh
<1>2. Compiled(def) /\ Legal(def, NotStarted) /\ 1 \in Nat
  BY NotStartedIs DEF IInv
<1> HIDE DEF plan
<1>3. WellFormed(plan)
  BY <1>1, <1>2, StartForms
<1> QED  BY <1>3 DEF plan

-----------------------------------------------------------------------------
(* Action records one by one *)

Single == [phase : {"Exit", "Transition", "Enter"}, state : States, seq : Nat]

(* What a group of n stands for. *)
Copied(group) ==
    [k \in 1 .. group.count |-> [phase |-> group.phase, state |-> group.state, seq |-> group.seq]]

ExpandedFrom(records, g) ==
    [n \in 0 .. Len(records) |-> IF n = 0 THEN <<>> ELSE g[n - 1] \o Copied(records[n])]

(* A group of n gives n records. *)
LEMMA CopiedIs ==
    ASSUME NEW group \in Groups
    PROVE  Copied(group) \in Seq(Single) /\ Len(Copied(group)) = group.count /\ group.count \in Nat
<1>1. group.count \in Nat
  BY DEF Groups
<1>2. Copied(group) \in [1 .. group.count -> Single]
  BY DEF Copied, Groups, Single
<1> QED  BY <1>1, <1>2, FunctionIsSeq

(* The records of a plan are as many as its groups weigh. *)
LEMMA ExpandedIs ==
    ASSUME NEW records \in Seq(Groups)
    PROVE  Expanded(records) \in Seq(Single) /\ Len(Expanded(records)) = Weight(records)
<1> DEFINE X == Seq(Single)
           M == Len(records)
           F == [n \in 1 .. M |-> [q \in X |-> q \o Copied(records[n])]]
           upTo == CHOOSE g : g = ExpandedFrom(records, g)
           c == Counts(records)
<1>1. Expanded(records) = upTo[M]
  BY Zenon DEF Expanded, ExpandedFrom, Copied
<1>2. M \in Nat /\ <<>> \in X /\ \A n \in 1 .. M : records[n] \in Groups
  OBVIOUS
<1>3. F \in [1 .. M -> [X -> X]]
  <2>1. ASSUME NEW n \in 1 .. M, NEW q \in X PROVE q \o Copied(records[n]) \in X
    <3>1. Copied(records[n]) \in X
      BY <1>2, CopiedIs
    <3> QED  BY <3>1
  <2> HIDE DEF X
  <2> QED  BY <2>1
<1>4. \E g \in [0 .. M -> X] : Runs(F, M, <<>>, g)
  <2> HIDE DEF X, F, M
  <2> QED  BY <1>2, <1>3, Recursion
<1>5. \E g : g = ExpandedFrom(records, g)
  <2>1. PICK g \in [0 .. M -> X] : g[0] = <<>> /\ \A n \in 1 .. M : g[n] = F[n][g[n - 1]]
    <3> HIDE DEF F, X
    <3> QED  BY <1>4 DEF Runs
  <2>2. ASSUME NEW n \in 0 .. M, n # 0
        PROVE  g[n] = g[n - 1] \o Copied(records[n])
    <3>1. n \in 1 .. M /\ n - 1 \in 0 .. M /\ g[n - 1] \in X
      BY <1>2, <2>2
    <3> QED  BY <2>1, <3>1
  <2>3. g = [n \in 0 .. M |-> g[n]]
    OBVIOUS
  <2>4. g = [n \in 0 .. M |-> IF n = 0 THEN <<>> ELSE g[n - 1] \o Copied(records[n])]
    <3> HIDE DEF F, X
    <3> QED  BY <2>1, <2>2, <2>3
  <2> QED  BY <2>4, Zenon DEF ExpandedFrom
<1>6. upTo = ExpandedFrom(records, upTo)
  <2> HIDE DEF upTo
  <2> QED  BY <1>1, <1>5, Zenon DEF upTo
<1> HIDE DEF upTo
<1>7. upTo[0] = <<>>
  BY <1>2, <1>6 DEF ExpandedFrom
<1>8. ASSUME NEW n \in 1 .. M PROVE upTo[n] = upTo[n - 1] \o Copied(records[n])
  <2>1. n \in 0 .. M /\ n # 0
    BY <1>2
  <2> QED  BY <1>6, <2>1, Zenon DEF ExpandedFrom
<1>9. \A n \in 0 .. M : upTo[n] \in X
  <2>1. ASSUME NEW n \in 1 .. M, upTo[n - 1] \in X PROVE upTo[n] = F[n][upTo[n - 1]]
    <3> HIDE DEF X
    <3> QED  BY <1>8, <2>1
  <2> HIDE DEF X, F, M
  <2> QED  BY <1>2, <1>3, <1>7, <2>1, RecursionStays
<1>10. /\ c \in Seq(Nat) /\ Len(c) = M /\ \A i \in 1 .. M : c[i] = records[i].count /\ c[i] \in Nat
  BY <1>2, CountsIs
<1>11. SumFunction(c) = Stretch(c, 0, M)
  <2>1. SumFunction(c) = SumFunctionOnSet(c, 1 .. M)
    <3> HIDE DEF c
    <3> QED  BY <1>10, TotalIs
  <2>2. 0 + 1 .. M = 1 .. M
    OBVIOUS
  <2> QED  BY <2>1, <2>2, Zenon DEF Stretch
<1> HIDE DEF c, F
<1> DEFINE P == {n \in 0 .. M : Len(upTo[n]) = Stretch(c, 0, n)}
<1>12. 0 \in P
  <2>1. 0 + 1 .. 0 = {} /\ Len(<<>>) = 0
    OBVIOUS
  <2>2. Stretch(c, 0, 0) = 0
    BY <2>1, SumEmpty DEF Stretch
  <2> QED  BY <1>2, <1>7, <2>1, <2>2
<1>13. \A n \in 0 .. M - 1 : n \in P => n + 1 \in P
  <2> TAKE n \in 0 .. M - 1
  <2> HAVE n \in P
  <2>1. n \in Nat /\ n + 1 \in 1 .. M /\ n + 1 \in 0 .. M /\ n \in 0 .. M /\ (n + 1) - 1 = n
    BY <1>2
  <2> DEFINE r == records[n + 1]
             l == n + 1
  <2>2. Copied(r) \in X /\ Len(Copied(r)) = c[l]
    BY <1>2, <1>10, <2>1, CopiedIs
  <2>3. upTo[l] = upTo[n] \o Copied(r)
    BY <1>8, <2>1
  <2>4. Len(upTo[l]) = Len(upTo[n]) + c[l]
    <3>1. upTo[n] \in X
      BY <1>9, <2>1
    <3> DEFINE u == upTo[n]
               v == Copied(r)
    <3>2. u \in Seq(Single) /\ v \in Seq(Single) /\ Len(v) = c[l] /\ upTo[l] = u \o v
      BY <2>2, <2>3, <3>1
    <3> HIDE DEF u, v, r, l
    <3>3. Len(u \o v) = Len(u) + Len(v)
      BY ONLY <3>2, ConcatProperties
    <3> QED  BY <3>2, <3>3 DEF u
  <2>5. Stretch(c, 0, l) = Stretch(c, 0, n) + Stretch(c, n, l)
    <3>1. n \in Nat /\ 1 \in Nat /\ l = n + 1 /\ \A i \in 1 .. l : c[i] \in Nat
      BY <1>10, <2>1
    <3> HIDE DEF l
    <3> QED  BY <3>1, SumCut
  <2>6. Stretch(c, n, l) = c[l]
    <3>1. n + 1 .. l = {l} /\ c[l] \in Nat
      BY <1>10, <2>1
    <3> HIDE DEF l
    <3>2. SumFunctionOnSet(c, {l}) = c[l]
      <4>1. IsFiniteSet({l}) /\ {l} \ {l} = {} /\ (\A x \in {l} : c[x] \in Nat) /\ l \in {l}
        BY <3>1, FS_Singleton
      <4>2. SumFunctionOnSet(c, {l}) = c[l] + SumFunctionOnSet(c, {})
        BY <4>1, SumRemove
      <4> QED  BY <3>1, <4>2, SumEmpty
    <3> QED  BY <3>1, <3>2, Zenon DEF Stretch
  <2> QED  BY <2>1, <2>4, <2>5, <2>6
<1>14. 0 .. M \subseteq P
  <2> HIDE DEF P, M
  <2> QED  BY <1>2, <1>12, <1>13, Upwards
<1>15. M \in 0 .. M
  BY <1>2
<1>16. Len(upTo[M]) = Stretch(c, 0, M)
  BY <1>14, <1>15
<1> QED  BY <1>1, <1>9, <1>11, <1>15, <1>16 DEF Weight, c

-----------------------------------------------------------------------------
(* What the loop leaves in scratch memory *)

PathOf(plan) == IF IsRejected(plan) THEN <<>> ELSE plan.next.path

ActionsOf(plan) == IF IsRejected(plan) THEN <<>> ELSE Expanded(plan.records)

(* The item of a plan whose slices begin at start. *)
ItemOf(plan, start) ==
    [outcome |-> plan.outcome, next |-> Header(plan), start |-> start,
     length |-> [paths |-> Len(PathOf(plan)), actions |-> Len(ActionsOf(plan))]]

(* The types of what a plan contributes, and what it takes. *)
LEMMA PartsAre ==
    ASSUME NEW plan, WellFormed(plan)
    PROVE  /\ PathOf(plan) \in Seq(Activations) /\ Len(PathOf(plan)) = Taken(plan)[1]
           /\ ActionsOf(plan) \in Seq(Single) /\ Len(ActionsOf(plan)) = Taken(plan)[2]
           /\ Len(PathOf(plan)) \in Nat /\ Len(ActionsOf(plan)) \in Nat
<1>1. CASE IsRejected(plan)
  <2>1. PathOf(plan) = <<>> /\ ActionsOf(plan) = <<>> /\ Taken(plan) = <<0, 0>>
    BY <1>1, Zenon DEF PathOf, ActionsOf, Taken
  <2> QED  BY <2>1
<1>2. CASE ~IsRejected(plan)
  <2> DEFINE p == plan.next.path
             a == Expanded(plan.records)
  <2>1. PathOf(plan) = p /\ ActionsOf(plan) = a /\ Taken(plan) = <<Len(p), Size(plan)>>
    BY <1>2, Zenon DEF PathOf, ActionsOf, Taken
  <2>2. p \in Seq(Activations)
    BY <1>2 DEF WellFormed, Snapshots
  <2>3. a \in Seq(Single) /\ Len(a) = Size(plan)
    BY <1>2, ExpandedIs, SizeIs DEF WellFormed
  <2> HIDE DEF p, a
  <2> QED  BY <2>1, <2>2, <2>3
<1> QED  BY <1>1, <1>2

(* A turn of the loop appends the parts of its plan, nothing of a rejected one. *)
LEMMA EvaluatedIs ==
    ASSUME NEW plan, WellFormed(plan), NEW items, NEW P \in Seq(Activations), NEW A \in Seq(Single)
    PROVE  Evaluated([items |-> items, paths |-> P, actions |-> A], plan)
              = [items |-> Append(items, ItemOf(plan, [paths |-> Len(P), actions |-> Len(A)])),
                 paths |-> P \o PathOf(plan), actions |-> A \o ActionsOf(plan)]
<1> DEFINE scratch == [items |-> items, paths |-> P, actions |-> A]
           p == PathOf(plan)
           a == ActionsOf(plan)
           start == [paths |-> Len(P), actions |-> Len(A)]
           pushed == [paths |-> P \o Pushed(plan), actions |-> A \o Expanded(plan.records)]
           kept == RolledBack([paths |-> P, actions |-> A], pushed, plan)
           length == IF IsRejected(plan) THEN [paths |-> 0, actions |-> 0]
                     ELSE [paths |-> Len(kept.paths) - Len(P), actions |-> Len(kept.actions) - Len(A)]
<1>1. Evaluated(scratch, plan)
         = [items |-> Append(items, [outcome |-> plan.outcome, next |-> Header(plan),
                                     start |-> start, length |-> length]),
            paths |-> kept.paths, actions |-> kept.actions]
  BY DEF Evaluated
<1>2. /\ p \in Seq(Activations) /\ a \in Seq(Single) /\ Len(p) \in Nat /\ Len(a) \in Nat
  BY PartsAre
<1>3. Len(P) \in Nat /\ Len(A) \in Nat
  OBVIOUS
<1>4. kept = [paths |-> P \o p, actions |-> A \o a]
  <2>1. CASE IsRejected(plan)
    <3>1. kept = [paths |-> P, actions |-> A] /\ p = <<>> /\ a = <<>>
      BY <2>1, Zenon DEF RolledBack, PathOf, ActionsOf
    <3>2. P \o <<>> = P /\ A \o <<>> = A
      OBVIOUS
    <3> QED  BY <3>1, <3>2
  <2>2. CASE ~IsRejected(plan)
    BY <2>2, Zenon DEF RolledBack, Pushed, PathOf, ActionsOf
  <2> QED  BY <2>1, <2>2
<1>5. length = [paths |-> Len(p), actions |-> Len(a)]
  <2>1. CASE IsRejected(plan)
    <3>1. p = <<>> /\ a = <<>>
      BY <2>1, Zenon DEF PathOf, ActionsOf
    <3>2. Len(p) = 0 /\ Len(a) = 0
      BY <3>1
    <3> HIDE DEF p, a
    <3> QED  BY <2>1, <3>2
  <2>2. CASE ~IsRejected(plan)
    <3> HIDE DEF p, a, kept
    <3>1. Len(P \o p) = Len(P) + Len(p) /\ Len(A \o a) = Len(A) + Len(a)
      BY <1>2, ConcatProperties
    <3>2. kept.paths = P \o p /\ kept.actions = A \o a
      BY <1>4
    <3>3. Len(kept.paths) - Len(P) = Len(p) /\ Len(kept.actions) - Len(A) = Len(a)
      BY <1>2, <1>3, <3>1, <3>2
    <3> QED  BY <2>2, <3>3
  <2> QED  BY <2>1, <2>2
<1> HIDE DEF length, kept, p, a
<1>6. kept.paths = P \o p /\ kept.actions = A \o a
  BY <1>4
<1>7. ItemOf(plan, start) = [outcome |-> plan.outcome, next |-> Header(plan), start |-> start,
                             length |-> length]
  BY <1>5, Zenon DEF ItemOf, p, a
<1> QED  BY <1>1, <1>6, <1>7, Zenon DEF p, a

StagedFrom(plans, g) ==
    [n \in 0 .. Len(plans) |-> IF n = 0 THEN Cleared ELSE Evaluated(g[n - 1], plans[n])]

(* Two turns. *)
LEMMA StagedTwice ==
    ASSUME NEW p, NEW q
    PROVE  Staged(<<p, q>>) = Evaluated(Evaluated(Cleared, p), q)
<1> DEFINE plans == <<p, q>>
           after == CHOOSE g : g = StagedFrom(plans, g)
           first == Evaluated(Cleared, p)
           second == Evaluated(first, q)
           h == [n \in 0 .. 2 |-> IF n = 0 THEN Cleared ELSE IF n = 1 THEN first ELSE second]
<1>1. Staged(plans) = after[Len(plans)]
  BY Zenon DEF Staged, StagedFrom
<1>2. Len(plans) = 2 /\ plans[1] = p /\ plans[2] = q
  OBVIOUS
<1> HIDE DEF plans
<1>3. h = StagedFrom(plans, h)
  <2> HIDE DEF first
  <2>1. h[0] = Cleared /\ h[1] = first /\ h[2] = second
    OBVIOUS
  <2>2. h = [n \in 0 .. 2 |-> h[n]]
    OBVIOUS
  <2> HIDE DEF h
  <2>3. ASSUME NEW n \in 0 .. 2
        PROVE  h[n] = IF n = 0 THEN Cleared ELSE Evaluated(h[n - 1], plans[n])
    <3>1. CASE n = 0
      BY <2>1, <3>1
    <3>2. CASE n = 1
      BY <1>2, <2>1, <3>2 DEF first
    <3>3. CASE n = 2
      BY <1>2, <2>1, <3>3
    <3> QED  BY <3>1, <3>2, <3>3
  <2>4. h = [n \in 0 .. 2 |-> IF n = 0 THEN Cleared ELSE Evaluated(h[n - 1], plans[n])]
    BY <2>2, <2>3
  <2> QED  BY <1>2, <2>4, Zenon DEF StagedFrom
<1> HIDE DEF h
<1>4. after = StagedFrom(plans, after)
  BY <1>3, Zenon DEF after
<1> HIDE DEF after
<1>5. after = [n \in 0 .. 2 |-> IF n = 0 THEN Cleared ELSE Evaluated(after[n - 1], plans[n])]
  BY <1>2, <1>4, Zenon DEF StagedFrom
<1>6. after[0] = Cleared
  BY <1>5
<1>7. after[1] = first
  <2>1. 1 \in 0 .. 2 /\ 1 # 0 /\ 1 - 1 = 0
    OBVIOUS
  <2>2. after[1] = Evaluated(after[1 - 1], plans[1])
    BY <1>5, <2>1, Zenon
  <2> QED  BY <1>2, <1>6, <2>1, <2>2
<1>8. after[2] = second
  <2>1. 2 \in 0 .. 2 /\ 2 # 0 /\ 2 - 1 = 1
    OBVIOUS
  <2>2. after[2] = Evaluated(after[2 - 1], plans[2])
    BY <1>5, <2>1, Zenon
  <2> HIDE DEF first
  <2> QED  BY <1>2, <1>7, <2>1, <2>2
<1> QED  BY <1>1, <1>2, <1>8 DEF plans

(* Scratch memory after two items. *)
LEMMA StagedIs ==
    ASSUME NEW p, NEW q, WellFormed(p), WellFormed(q)
    PROVE  Staged(<<p, q>>)
              = [items |-> <<ItemOf(p, [paths |-> 0, actions |-> 0]),
                             ItemOf(q, [paths |-> Len(PathOf(p)), actions |-> Len(ActionsOf(p))])>>,
                 paths |-> PathOf(p) \o PathOf(q), actions |-> ActionsOf(p) \o ActionsOf(q)]
<1> DEFINE none == <<>>
           x == ItemOf(p, [paths |-> 0, actions |-> 0])
           y == ItemOf(q, [paths |-> Len(PathOf(p)), actions |-> Len(ActionsOf(p))])
           P == PathOf(p)
           A == ActionsOf(p)
           R == PathOf(q)
           B == ActionsOf(q)
           items == <<x>>
<1>1. P \in Seq(Activations) /\ A \in Seq(Single)
  BY PartsAre
<1>2. none \in Seq(Activations) /\ none \in Seq(Single) /\ Len(none) = 0 /\ Append(none, x) = items
      /\ Append(items, y) = <<x, y>>
  <2>1. none \in Seq(Activations) /\ none \in Seq(Single) /\ Len(none) = 0
    OBVIOUS
  <2> HIDE DEF x, y
  <2>2. Append(none, x) = items
    OBVIOUS
  <2>3. Append(items, y) = <<x, y>>
    <3> DEFINE longer == Append(items, y)
               two == <<x, y>>
    <3>1. items \in Seq({x, y}) /\ Len(items) = 1 /\ items[1] = x
      OBVIOUS
    <3> HIDE DEF items
    <3>2. longer \in Seq({x, y}) /\ Len(longer) = 2 /\ longer[1] = x /\ longer[2] = y
      <4> DEFINE T == {x, y}
      <4>1. items \in Seq(T) /\ y \in T /\ 1 \in 1 .. Len(items) /\ Len(items) + 1 = 2
        BY <3>1
      <4> HIDE DEF T
      <4>2. Append(items, y) \in Seq(T) /\ Len(Append(items, y)) = Len(items) + 1
            /\ Append(items, y)[1] = items[1] /\ Append(items, y)[Len(items) + 1] = y
        BY ONLY <4>1, AppendProperties
      <4> QED  BY <3>1, <4>1, <4>2 DEF longer, T
    <3>3. two \in Seq({x, y}) /\ Len(two) = 2 /\ two[1] = x /\ two[2] = y
      OBVIOUS
    <3> HIDE DEF longer, two
    <3>4. \A i \in 1 .. 2 : longer[i] = two[i]
      <4>1. \A i \in 1 .. 2 : i = 1 \/ i = 2
        OBVIOUS
      <4> QED  BY <3>2, <3>3, <4>1
    <3>5. longer = two
      BY ONLY <3>2, <3>3, <3>4, SeqEqual
    <3> QED  BY <3>5 DEF longer, two
  <2> QED  BY <2>1, <2>2, <2>3
<1>3. Cleared = [items |-> none, paths |-> none, actions |-> none]
  BY DEF Cleared
<1>4. none \o P = P /\ none \o A = A
  <2> HIDE DEF P, A
  <2> QED  BY <1>1
<1> HIDE DEF none
<1>5. Evaluated(Cleared, p) = [items |-> items, paths |-> P, actions |-> A]
  <2>1. Evaluated([items |-> none, paths |-> none, actions |-> none], p)
           = [items |-> Append(none, ItemOf(p, [paths |-> Len(none), actions |-> Len(none)])),
              paths |-> none \o PathOf(p), actions |-> none \o ActionsOf(p)]
    BY <1>2, EvaluatedIs
  <2> QED  BY <1>2, <1>3, <1>4, <2>1, Zenon
<1> HIDE DEF items
<1>6. Evaluated([items |-> items, paths |-> P, actions |-> A], q)
         = [items |-> Append(items, y), paths |-> P \o R, actions |-> A \o B]
  BY <1>1, EvaluatedIs
<1>7. Staged(<<p, q>>) = [items |-> <<x, y>>, paths |-> P \o R, actions |-> A \o B]
  BY <1>2, <1>5, <1>6, StagedTwice, Zenon
<1> QED  BY <1>7

-----------------------------------------------------------------------------
(* What the caller receives *)

Blank(n) == [i \in 1 .. n |-> NoSnapshot]

(* Buffers have the room they were made with. *)
LEMMA BuffersAre ==
    ASSUME NEW a \in Nat, NEW b \in Nat, NEW c \in Nat, NEW room, room = <<a, b, c>>
    PROVE  /\ Buffers(room) = [items |-> Blank(a), paths |-> Blank(b), actions |-> Blank(c)]
           /\ Room(Buffers(room)) = room
<1>1. ASSUME NEW n \in Nat PROVE Len(Blank(n)) = n
  <2>1. Blank(n) \in [1 .. n -> {NoSnapshot}]
    BY DEF Blank
  <2> QED  BY <2>1, FunctionIsSeq
<1>2. room[1] = a /\ room[2] = b /\ room[3] = c
  OBVIOUS
<1>3. Buffers(room) = [items |-> Blank(a), paths |-> Blank(b), actions |-> Blank(c)]
  BY <1>2, Zenon DEF Buffers, Blank
<1>4. Room(Buffers(room)) = <<Len(Blank(a)), Len(Blank(b)), Len(Blank(c))>>
  BY <1>3 DEF Room
<1> QED  BY <1>1, <1>3, <1>4

(* A buffer of just the length is overwritten altogether. *)
LEMMA OverwrittenIs ==
    ASSUME NEW S, NEW q \in Seq(S)
    PROVE  Overwritten(Blank(Len(q)), q) = q
<1>1. Len(q) \in Nat /\ DOMAIN q = 1 .. Len(q) /\ q = [i \in 1 .. Len(q) |-> q[i]]
  OBVIOUS
<1>2. DOMAIN Blank(Len(q)) = 1 .. Len(q)
  BY DEF Blank
<1>3. Overwritten(Blank(Len(q)), q) = [i \in 1 .. Len(q) |-> IF i \in 1 .. Len(q) THEN q[i]
                                                           ELSE Blank(Len(q))[i]]
  BY <1>1, <1>2, Zenon DEF Overwritten
<1> QED  BY <1>1, <1>3

(* Scratch memory of the types and sizes named. *)
Scratch(S, items, P, A, needed) ==
    /\ items \in Seq(S) /\ P \in Seq(Activations) /\ A \in Seq(Single)
    /\ needed = <<Len(items), Len(P), Len(A)>>

(* Buffers of the needed size receive all of scratch. *)
LEMMA FullIs ==
    ASSUME NEW S, NEW items, NEW P, NEW A, NEW needed, Scratch(S, items, P, A, needed),
           NEW scratch, scratch = [items |-> items, paths |-> P, actions |-> A]
    PROVE  Delivered(scratch, Buffers(needed))
              = [answer |-> "Ok", required |-> needed, out |-> scratch]
<1> DEFINE a == Len(items)
           b == Len(P)
           c == Len(A)
           out == Buffers(needed)
<1>1. a \in Nat /\ b \in Nat /\ c \in Nat /\ needed = <<a, b, c>>
  BY DEF Scratch
<1>2. Room(scratch) = needed
  BY <1>1 DEF Room
<1>3. Overwritten(Blank(a), items) = items /\ Overwritten(Blank(b), P) = P
      /\ Overwritten(Blank(c), A) = A
  BY OverwrittenIs DEF Scratch
<1> HIDE DEF a, b, c
<1>4. out = [items |-> Blank(a), paths |-> Blank(b), actions |-> Blank(c)] /\ Room(out) = needed
  BY <1>1, BuffersAre
<1>5. out.items = Blank(a) /\ out.paths = Blank(b) /\ out.actions = Blank(c)
  <2> HIDE DEF out
  <2> QED  BY <1>4
<1> HIDE DEF out
<1>6. FitsIn(Room(scratch), Room(out))
  <2>1. \A i \in 1 .. 3 : needed[i] <= needed[i]
    BY <1>1
  <2> QED  BY <1>2, <1>4, <2>1 DEF FitsIn
<1>7. scratch.items = items /\ scratch.paths = P /\ scratch.actions = A
  OBVIOUS
<1>8. Delivered(scratch, out)
         = [answer |-> "Ok", required |-> needed,
            out |-> [items |-> Overwritten(out.items, scratch.items),
                     paths |-> Overwritten(out.paths, scratch.paths),
                     actions |-> Overwritten(out.actions, scratch.actions)]]
  BY <1>2, <1>6, Zenon DEF Delivered
<1>9. [items |-> Overwritten(out.items, scratch.items),
       paths |-> Overwritten(out.paths, scratch.paths),
       actions |-> Overwritten(out.actions, scratch.actions)] = scratch
  BY <1>3, <1>5, <1>7
<1> QED  BY <1>8, <1>9, Zenon DEF out

(* Buffers that miss a place receive nothing. *)
LEMMA TightIs ==
    ASSUME NEW S, NEW items, NEW P, NEW A, NEW needed, Scratch(S, items, P, A, needed),
           NEW scratch, scratch = [items |-> items, paths |-> P, actions |-> A]
    PROVE  RefusesTight(scratch, needed)
<1>1. Len(items) \in Nat /\ Len(P) \in Nat /\ Len(A) \in Nat
      /\ needed = <<Len(items), Len(P), Len(A)>>
  BY DEF Scratch
<1>2. Room(scratch) = needed
  BY <1>1 DEF Room
<1>3. ASSUME NEW k \in 1 .. 3, needed[k] > 0
      PROVE  Delivered(scratch, Buffers([needed EXCEPT ![k] = @ - 1]))
                = [answer |-> "BufferTooSmall", required |-> needed,
                   out |-> Buffers([needed EXCEPT ![k] = @ - 1])]
  <2> DEFINE room == [needed EXCEPT ![k] = @ - 1]
             a == room[1]
             b == room[2]
             c == room[3]
  <2>1. a \in Nat /\ b \in Nat /\ c \in Nat /\ room = <<a, b, c>> /\ room[k] = needed[k] - 1
        /\ needed[k] \in Nat
    <3>1. k = 1 \/ k = 2 \/ k = 3
      OBVIOUS
    <3>2. CASE k = 1
      BY <1>1, <1>3, <3>2
    <3>3. CASE k = 2
      BY <1>1, <1>3, <3>3
    <3>4. CASE k = 3
      BY <1>1, <1>3, <3>4
    <3> QED  BY <3>1, <3>2, <3>3, <3>4
  <2> HIDE DEF a, b, c, room
  <2>2. Room(Buffers(room)) = room
    BY <2>1, BuffersAre
  <2>3. ~FitsIn(Room(scratch), Room(Buffers(room)))
    <3>1. ~(needed[k] <= room[k])
      BY <2>1
    <3> QED  BY <1>2, <2>2, <3>1 DEF FitsIn
  <2> QED  BY <1>2, <2>3, Zenon DEF Delivered, room
<1> QED  BY <1>3, Zenon DEF RefusesTight

(* An item whose slices hold the parts of its plan gives the plan. *)
LEMMA AloneIs ==
    ASSUME NEW plan, WellFormed(plan), NEW start, NEW out,
           Slice(out.paths, start.paths, Len(PathOf(plan))) = PathOf(plan),
           Slice(out.actions, start.actions, Len(ActionsOf(plan))) = ActionsOf(plan)
    PROVE  AsIfAlone(ItemOf(plan, start), plan, out)
<1> DEFINE item == ItemOf(plan, start)
           length == [paths |-> Len(PathOf(plan)), actions |-> Len(ActionsOf(plan))]
<1>1. /\ item.outcome = plan.outcome /\ item.next = Header(plan) /\ item.start = start
      /\ item.length = length
  BY DEF ItemOf
<1>2. length.paths = Len(PathOf(plan)) /\ length.actions = Len(ActionsOf(plan))
  OBVIOUS
<1>3. CASE IsRejected(plan)
  <2>1. PathOf(plan) = <<>> /\ ActionsOf(plan) = <<>> /\ Header(plan) = NoSnapshot
    BY <1>3, Zenon DEF PathOf, ActionsOf, Header
  <2>2. length = [paths |-> 0, actions |-> 0]
    BY <2>1
  <2> HIDE DEF item, length
  <2> QED  BY <1>1, <1>3, <2>1, <2>2 DEF AsIfAlone, item
<1>4. CASE ~IsRejected(plan)
  <2> DEFINE n == plan.next
  <2>1. PathOf(plan) = n.path /\ ActionsOf(plan) = Expanded(plan.records)
        /\ Header(plan) = [n EXCEPT !.path = <<>>]
    BY <1>4, Zenon DEF PathOf, ActionsOf, Header
  <2>2. n \in Snapshots
    BY <1>4 DEF WellFormed
  <2> HIDE DEF item, length, n
  <2>3. [[n EXCEPT !.path = <<>>] EXCEPT !.path = n.path] = n
    BY <2>2 DEF Snapshots
  <2>4. FromPlan(item, out.paths) = [item.next EXCEPT !.path = Slice(out.paths, start.paths, length.paths)]
    BY <1>1, Zenon DEF FromPlan
  <2>5. Slice(out.paths, start.paths, length.paths) = n.path
        /\ Slice(out.actions, item.start.actions, item.length.actions) = Expanded(plan.records)
    BY <1>1, <1>2, <2>1
  <2>6. FromPlan(item, out.paths) = n
    BY <1>1, <2>1, <2>3, <2>4, <2>5
  <2> QED  BY <1>1, <1>4, <2>5, <2>6, Zenon DEF AsIfAlone, item, n
<1> QED  BY <1>3, <1>4

(* The slices of two sequences one after the other. *)
LEMMA SlicesAre ==
    ASSUME NEW S, NEW a \in Seq(S), NEW b \in Seq(S), NEW q, q = a \o b
    PROVE  Slice(q, 0, Len(a)) = a /\ Slice(q, Len(a), Len(b)) = b
<1>1. /\ SubSeq(q, 1, Len(a)) = a /\ SubSeq(q, Len(a) + 1, Len(q)) = b
      /\ Len(q) = Len(a) + Len(b) /\ Len(a) \in Nat
  BY JoinSplits DEF Splits
<1>2. 0 + 1 = 1 /\ 0 + Len(a) = Len(a)
  BY <1>1
<1> QED  BY <1>1, <1>2 DEF Slice

(* Two well-formed plans share scratch memory without touching each other. *)
LEMMA ItemwiseIs ==
    ASSUME NEW p, NEW q, WellFormed(p), WellFormed(q)
    PROVE  Itemwise(p, q)
<1> DEFINE zero == [paths |-> 0, actions |-> 0]
           P == PathOf(p)
           A == ActionsOf(p)
           R == PathOf(q)
           B == ActionsOf(q)
           after == [paths |-> Len(P), actions |-> Len(A)]
           x == ItemOf(p, zero)
           y == ItemOf(q, after)
           items == <<x, y>>
           U == P \o R
           V == A \o B
           scratch == [items |-> items, paths |-> U, actions |-> V]
           needed == Needed(p, q)
<1>1. Staged(<<p, q>>) = scratch
  BY StagedIs
<1>2. /\ P \in Seq(Activations) /\ Len(P) = Taken(p)[1] /\ R \in Seq(Activations) /\ Len(R) = Taken(q)[1]
      /\ A \in Seq(Single) /\ Len(A) = Taken(p)[2] /\ B \in Seq(Single) /\ Len(B) = Taken(q)[2]
  BY PartsAre
<1>3. Slice(U, 0, Len(P)) = P /\ Slice(U, Len(P), Len(R)) = R
  BY <1>2, SlicesAre
<1>4. Slice(V, 0, Len(A)) = A /\ Slice(V, Len(A), Len(B)) = B
  BY <1>2, SlicesAre
<1>5. zero.paths = 0 /\ zero.actions = 0 /\ after.paths = Len(P) /\ after.actions = Len(A)
  OBVIOUS
<1>6. scratch.items = items /\ scratch.paths = U /\ scratch.actions = V
  OBVIOUS
<1>7. AsIfAlone(x, p, scratch)
  <2> HIDE DEF scratch, zero
  <2>1. Slice(scratch.paths, zero.paths, Len(PathOf(p))) = PathOf(p)
        /\ Slice(scratch.actions, zero.actions, Len(ActionsOf(p))) = ActionsOf(p)
    BY <1>3, <1>4, <1>5, <1>6
  <2> QED  BY <2>1, AloneIs
<1>8. AsIfAlone(y, q, scratch)
  <2> HIDE DEF scratch, after
  <2>1. Slice(scratch.paths, after.paths, Len(PathOf(q))) = PathOf(q)
        /\ Slice(scratch.actions, after.actions, Len(ActionsOf(q))) = ActionsOf(q)
    BY <1>3, <1>4, <1>5, <1>6
  <2> QED  BY <2>1, AloneIs
<1>9. Scratch({x, y}, items, U, V, needed)
  <2> HIDE DEF P, A, R, B, x, y
  <2>1. items \in Seq({x, y}) /\ Len(items) = 2
    OBVIOUS
  <2>2. U \in Seq(Activations) /\ Len(U) = Len(P) + Len(R) /\ V \in Seq(Single)
        /\ Len(V) = Len(A) + Len(B)
    BY <1>2, ConcatProperties
  <2> HIDE DEF items, U, V
  <2>3. needed = <<Len(items), Len(U), Len(V)>>
    BY <1>2, <2>1, <2>2 DEF Needed
  <2> HIDE DEF needed
  <2> QED  BY <2>1, <2>2, <2>3 DEF Scratch
<1>10. items[1] = x /\ items[2] = y /\ <<p, q>>[1] = p /\ <<p, q>>[2] = q
  <2> HIDE DEF x, y
  <2> QED  OBVIOUS
<1> DEFINE two == <<p, q>>
<1> HIDE DEF two, x, y, U, V, needed, items
<1>11. Delivered(scratch, Buffers(needed)) = [answer |-> "Ok", required |-> needed, out |-> scratch]
  BY <1>9, FullIs
<1>12. RefusesTight(scratch, needed)
  BY <1>9, TightIs
<1> HIDE DEF scratch
<1>13. DeliversAll(scratch, two, needed)
  <2> DEFINE full == Delivered(scratch, Buffers(needed))
  <2>1. full.answer = "Ok" /\ full.required = needed /\ full.out = scratch
    BY <1>11
  <2> HIDE DEF full
  <2>2. ASSUME NEW i \in 1 .. 2 PROVE AsIfAlone(full.out.items[i], two[i], full.out)
    <3>1. i = 1 \/ i = 2
      OBVIOUS
    <3>2. two[1] = p /\ two[2] = q
      BY <1>10 DEF two
    <3> QED  BY <1>6, <1>7, <1>8, <1>10, <2>1, <3>1, <3>2
  <2> QED  BY <2>1, <2>2, Zenon DEF DeliversAll, full
<1> QED  BY <1>1, <1>12, <1>13, Zenon DEF Itemwise, two, needed

(* Batches of a host whose snapshot is legal are itemwise. *)
LEMMA BatchFollows == IInv => BatchIsItemwise
<1> SUFFICES ASSUME IInv, NEW own \in OwnItems
             PROVE  /\ Itemwise(Evaluate(own), Evaluate(Fresh(2)))
                    /\ 2 <= MaxBatch =>
                          EvaluateBatch(<<own, own>>, Cleared).answer = "DuplicateMachineInBatch"
  BY DEF BatchIsItemwise
<1>1. Itemwise(Evaluate(own), Evaluate(Fresh(2)))
  BY OwnForms, FreshForms, ItemwiseIs
<1>2. ASSUME 2 <= MaxBatch
      PROVE  EvaluateBatch(<<own, own>>, Cleared).answer = "DuplicateMachineInBatch"
  <2> DEFINE items == <<own, own>>
  <2>1. DOMAIN items = 1 .. 2 /\ Len(items) = 2 /\ items[1] = items[2]
    OBVIOUS
  <2> HIDE DEF items
  <2>2. KeysRepeat(items)
    <3>1. 1 \in DOMAIN items /\ 2 \in DOMAIN items /\ 1 # 2
      BY <2>1
    <3> QED  BY <2>1, <3>1 DEF KeysRepeat
  <2>3. ~(Len(items) > MaxBatch)
    BY <1>2, <2>1, BatchAssumption
  <2>4. EvaluateBatch(items, Cleared) = Refused("DuplicateMachineInBatch", Cleared)
    BY <2>2, <2>3, Zenon DEF EvaluateBatch
  <2>5. Refused("DuplicateMachineInBatch", Cleared).answer = "DuplicateMachineInBatch"
    BY DEF Refused
  <2> QED  BY <2>4, <2>5 DEF items
<1> QED  BY <1>1, <1>2

(* The items of a batch do not touch each other, a batch that does not fit leaves *)
(* the caller's buffers alone, and one that names a machine twice is refused     *)
(* (evaluate.rs:106, :201).                                                       *)
THEOREM BatchHolds == Spec => []BatchIsItemwise
BY Inductive, BatchFollows, PTL
=============================================================================
