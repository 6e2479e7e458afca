------------------------------ MODULE SumLemmas ------------------------------
(***************************************************************************)
(* What SumFunctionOnSet computes for every finite set, and the two ways to  *)
(* argue by induction that the proofs of this project use: a least natural   *)
(* number, and a smallest subset of a finite set.                            *)
(***************************************************************************)
EXTENDS Integers, FiniteSets, Functions, FiniteSetTheorems, WellFoundedInduction, TLAPS

(* SumFunctionOnSet takes one element after the other out of the set; SumTable *)
(* is the function on subsets by which it recurs.                            *)
Chosen(s) == CHOOSE x \in s : TRUE

SumStep(f, S, g) ==
    [s \in SUBSET S |-> IF s = {} THEN 0 ELSE f[Chosen(s)] + g[s \ {Chosen(s)}]]

SumTable(f, S) == CHOOSE g : g = SumStep(f, S, g)

LEMMA SumIsTable ==
    ASSUME NEW f, NEW S
    PROVE  SumFunctionOnSet(f, S) = SumTable(f, S)[S]
BY Zenon DEF SumFunctionOnSet, FoldFunctionOnSet, MapThenFoldSet, SumTable, SumStep, Chosen

(* A property that fails for some subset of a finite set fails for a smallest *)
(* one.                                                                      *)
LEMMA MinimalSubset ==
    ASSUME NEW S, IsFiniteSet(S), NEW T, T \subseteq SUBSET S, T # {}
    PROVE  \E x \in T : \A y \in T : y \subseteq x => y = x
<1>1. \E x \in T : \A y \in T : ~ (<<y, x>> \in StrictSubsetOrdering(S))
  BY FS_StrictSubsetOrderingWellFounded, FS_FiniteSubsetsOfFinite, WFMin, Zenon
<1>2. \A x, y \in T : y \subseteq x /\ y # x => <<y, x>> \in StrictSubsetOrdering(S)
  BY DEF StrictSubsetOrdering
<1> QED  BY <1>1, <1>2

(* A property that fails for some number fails for a least one. *)
LEMMA LeastNatural ==
    ASSUME NEW T, T \subseteq Nat, T # {}
    PROVE  \E n \in T : \A m \in T : n <= m
<1>1. PICK k \in T : TRUE
  OBVIOUS
<1> DEFINE Starts == {0 .. m : m \in {i \in T : i <= k}}
<1>2. \E s \in Starts : \A r \in Starts : r \subseteq s => r = s
  <2>1. Starts \subseteq SUBSET (0 .. k) /\ Starts # {}
    <3>1. \A i \in T : i <= k => 0 .. i \in SUBSET (0 .. k)
      BY <1>1
    <3>2. k <= k
      BY <1>1
    <3> QED  BY <1>1, <3>1, <3>2
  <2>2. IsFiniteSet(0 .. k)
    BY <1>1, FS_Interval
  <2> DEFINE K == 0 .. k
  <2>3. IsFiniteSet(K) /\ Starts \subseteq SUBSET K /\ Starts # {}
    BY <2>1, <2>2
  <2> HIDE DEF Starts, K
  <2> QED  BY <2>3, MinimalSubset
<1>3. PICK n \in T : n <= k /\ \A m \in T : m <= k /\ 0 .. m \subseteq 0 .. n => 0 .. m = 0 .. n
  <2>1. PICK s \in Starts : \A r \in Starts : r \subseteq s => r = s
    BY <1>2
  <2>2. PICK n \in T : n <= k /\ s = 0 .. n
    OBVIOUS
  <2>3. \A m \in T : m <= k => 0 .. m \in Starts
    OBVIOUS
  <2> HIDE DEF Starts
  <2> QED  BY <2>1, <2>2, <2>3
<1>4. ASSUME NEW m \in T, m < n PROVE FALSE
  <2>1. m <= k /\ 0 .. m \subseteq 0 .. n /\ n \in 0 .. n /\ n \notin 0 .. m
    BY <1>1, <1>3, <1>4
  <2> QED  BY <2>1, <1>3
<1>5. n \in Nat /\ T \subseteq Nat
  OBVIOUS
<1> QED  BY <1>4, <1>5

LEMMA ChosenIsIn == ASSUME NEW s, s # {} PROVE Chosen(s) \in s
BY DEF Chosen

(* A table is determined by its function, whatever set it was made for. *)
LEMMA TablesAgree ==
    ASSUME NEW f, NEW S, IsFiniteSet(S), NEW U \in SUBSET S, NEW g, NEW h,
           g = SumStep(f, S, g), h = SumStep(f, U, h)
    PROVE  \A s \in SUBSET U : g[s] = h[s]
<1> DEFINE Bad == {s \in SUBSET U : g[s] # h[s]}
<1> SUFFICES ASSUME Bad # {} PROVE FALSE
  OBVIOUS
<1>1. PICK s \in Bad : \A y \in Bad : y \subseteq s => y = s
  <2>1. Bad \subseteq SUBSET S
    OBVIOUS
  <2> HIDE DEF Bad
  <2> QED  BY <2>1, MinimalSubset
<1>2. s \in SUBSET S /\ s \in SUBSET U
  OBVIOUS
<1>3. g[s] = IF s = {} THEN 0 ELSE f[Chosen(s)] + g[s \ {Chosen(s)}]
  BY <1>2, Zenon DEF SumStep
<1>4. h[s] = IF s = {} THEN 0 ELSE f[Chosen(s)] + h[s \ {Chosen(s)}]
  BY <1>2, Zenon DEF SumStep
<1>5. CASE s = {}
  BY <1>3, <1>4, <1>5
<1>6. CASE s # {}
  <2>1. Chosen(s) \in s
    BY <1>6, ChosenIsIn
  <2>2. s \ {Chosen(s)} \notin Bad
    BY <1>1, <2>1
  <2> QED  BY <2>2, <1>2, <1>3, <1>4, <1>6
<1> QED  BY <1>5, <1>6

(* Every finite set has a table, so the recursion defines something. *)
LEMMA TableExists ==
    ASSUME NEW f, NEW S, IsFiniteSet(S)
    PROVE  SumTable(f, S) = SumStep(f, S, SumTable(f, S))
<1> DEFINE Bad == {T \in SUBSET S : ~ \E g : g = SumStep(f, T, g)}
<1>1. Bad = {}
  <2> SUFFICES ASSUME Bad # {} PROVE FALSE
    OBVIOUS
  <2>1. PICK T \in Bad : \A y \in Bad : y \subseteq T => y = T
    <3>1. Bad \subseteq SUBSET S
      OBVIOUS
    <3> HIDE DEF Bad
    <3> QED  BY <3>1, MinimalSubset
  <2> DEFINE H(U) == SumTable(f, U)[U]
  <2> DEFINE G == [s \in SUBSET T |-> IF s = {} THEN 0 ELSE f[Chosen(s)] + H(s \ {Chosen(s)})]
  <2>2. ASSUME NEW U \in SUBSET T, U # T
        PROVE  SumTable(f, U) = SumStep(f, U, SumTable(f, U))
    <3>1. U \notin Bad
      BY <2>1, <2>2
    <3>2. \E g : g = SumStep(f, U, g)
      BY <3>1, <2>1
    <3> QED  BY <3>2, Zenon DEF SumTable
  <2>3. ASSUME NEW U \in SUBSET T, U # T
        PROVE  H(U) = G[U]
    <3>1. SumTable(f, U)[U] = IF U = {} THEN 0 ELSE f[Chosen(U)] + SumTable(f, U)[U \ {Chosen(U)}]
      <4>1. U \in SUBSET U
        OBVIOUS
      <4> QED  BY <4>1, <2>2, <2>3, Zenon DEF SumStep
    <3>2. ASSUME U # {}
          PROVE  SumTable(f, U)[U \ {Chosen(U)}] = H(U \ {Chosen(U)})
      <4> DEFINE V == U \ {Chosen(U)}
      <4>1. V \in SUBSET U /\ V \in SUBSET T /\ V # T /\ V \in SUBSET V
        BY <3>2, ChosenIsIn, <2>3
      <4>2. SumTable(f, V) = SumStep(f, V, SumTable(f, V))
        BY <4>1, <2>2
      <4>3. SumTable(f, U) = SumStep(f, U, SumTable(f, U))
        BY <2>2, <2>3
      <4>4. IsFiniteSet(U)
        BY FS_Subset, <2>1, <2>3
      <4> HIDE DEF V, G, H, Bad
      <4>5. \A s \in SUBSET V : SumTable(f, U)[s] = SumTable(f, V)[s]
        BY <4>1, <4>2, <4>3, <4>4, TablesAgree
      <4> QED  BY <4>1, <4>5 DEF V, H
    <3>3. G[U] = IF U = {} THEN 0 ELSE f[Chosen(U)] + H(U \ {Chosen(U)})
      BY <2>3, Zenon
    <3> QED  BY <3>1, <3>2, <3>3, Zenon
  <2>4. ASSUME NEW s \in SUBSET T
        PROVE  G[s] = IF s = {} THEN 0 ELSE f[Chosen(s)] + G[s \ {Chosen(s)}]
    <3>1. G[s] = IF s = {} THEN 0 ELSE f[Chosen(s)] + H(s \ {Chosen(s)})
      BY <2>4, Zenon
    <3>2. ASSUME s # {}
          PROVE  H(s \ {Chosen(s)}) = G[s \ {Chosen(s)}]
      <4>1. s \ {Chosen(s)} \in SUBSET T /\ s \ {Chosen(s)} # T
        BY <3>2, ChosenIsIn, <2>4
      <4> HIDE DEF H, G
      <4> QED  BY <4>1, <2>3, Zenon
    <3> HIDE DEF H, G
    <3> QED  BY <3>1, <3>2, Zenon
  <2>5. G = SumStep(f, T, G)
    <3>1. SumStep(f, T, G) = [s \in SUBSET T |-> IF s = {} THEN 0 ELSE f[Chosen(s)] + G[s \ {Chosen(s)}]]
      BY Zenon DEF SumStep
    <3>2. G = [s \in SUBSET T |-> G[s]]
      OBVIOUS
    <3> HIDE DEF G
    <3> QED  BY <3>1, <3>2, <2>4, Zenon
  <2> HIDE DEF G
  <2> QED  BY <2>1, <2>5
<1>2. \E g : g = SumStep(f, S, g)
  BY <1>1
<1> QED  BY <1>2, Zenon DEF SumTable

(* The sum over no element is zero: an unused budget is empty. *)
THEOREM SumEmpty == \A f : SumFunctionOnSet(f, {}) = 0
<1> TAKE f
<1>1. SumTable(f, {}) = SumStep(f, {}, SumTable(f, {}))
  BY TableExists, FS_EmptySet
<1>2. {} \in SUBSET {}
  OBVIOUS
<1>3. SumTable(f, {})[{}] = 0
  BY <1>1, <1>2, Zenon DEF SumStep
<1> QED  BY <1>3, SumIsTable

LEMMA SumUnfolds ==
    ASSUME NEW f, NEW S, IsFiniteSet(S), S # {}
    PROVE  SumFunctionOnSet(f, S) = f[Chosen(S)] + SumFunctionOnSet(f, S \ {Chosen(S)})
<1> DEFINE V == S \ {Chosen(S)}
<1>1. SumTable(f, S) = SumStep(f, S, SumTable(f, S)) /\ SumTable(f, V) = SumStep(f, V, SumTable(f, V))
  BY TableExists, FS_RemoveElement
<1>2. S \in SUBSET S /\ V \in SUBSET S /\ V \in SUBSET V
  OBVIOUS
<1>3. SumTable(f, S)[S] = f[Chosen(S)] + SumTable(f, S)[V]
  BY <1>1, <1>2, Zenon DEF SumStep
<1> HIDE DEF V
<1>4. \A s \in SUBSET V : SumTable(f, S)[s] = SumTable(f, V)[s]
  BY <1>1, <1>2, TablesAgree
<1> QED  BY <1>2, <1>3, <1>4, SumIsTable, Zenon DEF V

(* Any element may be taken out first: what a MemoryBudget holds does not      *)
(* depend on the order in which reservations are released.                   *)
LEMMA SumRemove ==
    ASSUME NEW f, NEW S, IsFiniteSet(S), NEW e \in S,
           \A x \in S : f[x] \in Nat
    PROVE  SumFunctionOnSet(f, S) = f[e] + SumFunctionOnSet(f, S \ {e})
<1> DEFINE Sum(T) == SumFunctionOnSet(f, T)
<1> DEFINE Bad == {T \in SUBSET S : Sum(T) \notin Nat \/ \E x \in T : Sum(T) # f[x] + Sum(T \ {x})}
<1> SUFFICES Bad = {}
  OBVIOUS
<1> SUFFICES ASSUME Bad # {} PROVE FALSE
  OBVIOUS
<1>1. PICK T \in Bad : \A y \in Bad : y \subseteq T => y = T
  <2>1. Bad \subseteq SUBSET S
    OBVIOUS
  <2> HIDE DEF Bad
  <2> QED  BY <2>1, MinimalSubset
<1>2. T \in SUBSET S
  OBVIOUS
<1>3. ASSUME NEW y \in T
      PROVE  Sum(T \ {y}) \in Nat /\ \A x \in T \ {y} : Sum(T \ {y}) = f[x] + Sum((T \ {y}) \ {x})
  <2>1. T \ {y} \notin Bad /\ T \ {y} \in SUBSET S
    BY <1>1, <1>2, <1>3
  <2> HIDE DEF Sum
  <2> QED  BY <2>1
<1>4. ASSUME T = {} PROVE FALSE
  BY <1>4, SumEmpty
<1>5. ASSUME T # {} PROVE FALSE
  <2> DEFINE c == Chosen(T)
  <2>1. c \in T /\ f[c] \in Nat
    BY <1>5, <1>2, ChosenIsIn
  <2>2. Sum(T) = f[c] + Sum(T \ {c})
    BY <1>5, <1>2, FS_Subset, SumUnfolds
  <2> HIDE DEF c, Sum
  <2>3. Sum(T \ {c}) \in Nat
    BY <1>3, <2>1
  <2>4. ASSUME NEW x \in T, x # c PROVE Sum(T) = f[x] + Sum(T \ {x})
    <3> DEFINE R == (T \ {c}) \ {x}
    <3>0. R = (T \ {x}) \ {c} /\ f[x] \in Nat
      BY <1>2
    <3>1. Sum(T \ {c}) = f[x] + Sum(R)
      BY <1>3, <2>1, <2>4
    <3>2. Sum(T \ {x}) = f[c] + Sum(R) /\ Sum(T \ {x}) \in Nat
      BY <1>3, <2>1, <2>4, <3>0
    <3>3. R \notin Bad /\ R \in SUBSET S
      BY <1>1, <1>2, <2>1
    <3>4. Sum(R) \in Nat
      BY <3>3
    <3> HIDE DEF R, Bad
    <3> QED  BY <2>1, <2>2, <2>3, <3>0, <3>1, <3>2, <3>4
  <2>5. Sum(T) \in Nat
    BY <2>1, <2>2, <2>3
  <2>6. \A x \in T : Sum(T) = f[x] + Sum(T \ {x})
    BY <2>2, <2>4
  <2> QED  BY <2>5, <2>6
<1> QED  BY <1>4, <1>5

(* A sum of byte counts is a byte count. *)
THEOREM SumIsNat ==
    ASSUME NEW f, NEW S, IsFiniteSet(S), \A x \in S : f[x] \in Nat
    PROVE  SumFunctionOnSet(f, S) \in Nat
<1> DEFINE Bad == {T \in SUBSET S : SumFunctionOnSet(f, T) \notin Nat}
<1> SUFFICES ASSUME Bad # {} PROVE FALSE
  OBVIOUS
<1>1. PICK T \in Bad : \A y \in Bad : y \subseteq T => y = T
  <2>1. Bad \subseteq SUBSET S
    OBVIOUS
  <2> HIDE DEF Bad
  <2> QED  BY <2>1, MinimalSubset
<1>2. T # {}
  BY SumEmpty
<1>3. PICK e \in T : TRUE
  BY <1>2
<1>4. SumFunctionOnSet(f, T \ {e}) \in Nat /\ f[e] \in Nat
  BY <1>1
<1>5. SumFunctionOnSet(f, T) = f[e] + SumFunctionOnSet(f, T \ {e})
  BY FS_Subset, SumRemove
<1> QED  BY <1>4, <1>5

(* One more reservation adds its bytes. *)
THEOREM SumAdd ==
    ASSUME NEW f, NEW S, IsFiniteSet(S), NEW e, e \notin S,
           f[e] \in Nat, \A x \in S : f[x] \in Nat
    PROVE  SumFunctionOnSet(f, S \cup {e}) = f[e] + SumFunctionOnSet(f, S)
<1>1. IsFiniteSet(S \cup {e}) /\ e \in S \cup {e} /\ (S \cup {e}) \ {e} = S
  BY FS_AddElement
<1>2. \A x \in S \cup {e} : f[x] \in Nat
  OBVIOUS
<1> QED  BY <1>1, <1>2, SumRemove

(* The sum depends only on the values over the set. *)
THEOREM SumSame ==
    ASSUME NEW f, NEW g, NEW S, IsFiniteSet(S),
           \A x \in S : f[x] \in Nat, \A x \in S : g[x] = f[x]
    PROVE  SumFunctionOnSet(g, S) = SumFunctionOnSet(f, S)
<1> DEFINE Bad == {T \in SUBSET S : SumFunctionOnSet(g, T) # SumFunctionOnSet(f, T)}
<1> SUFFICES ASSUME Bad # {} PROVE FALSE
  OBVIOUS
<1>1. PICK T \in Bad : \A y \in Bad : y \subseteq T => y = T
  <2>1. Bad \subseteq SUBSET S
    OBVIOUS
  <2> HIDE DEF Bad
  <2> QED  BY <2>1, MinimalSubset
<1>2. T # {}
  BY SumEmpty
<1>3. PICK e \in T : TRUE
  BY <1>2
<1>4. SumFunctionOnSet(g, T \ {e}) = SumFunctionOnSet(f, T \ {e})
  BY <1>1
<1>5. SumFunctionOnSet(f, T) = f[e] + SumFunctionOnSet(f, T \ {e})
  BY FS_Subset, SumRemove
<1>6. SumFunctionOnSet(g, T) = g[e] + SumFunctionOnSet(g, T \ {e})
  BY FS_Subset, SumRemove
<1> QED  BY <1>4, <1>5, <1>6

(* Reservations that two holders keep apart add up. *)
THEOREM SumUnion ==
    ASSUME NEW f, NEW S, IsFiniteSet(S), NEW U, IsFiniteSet(U), S \cap U = {},
           \A x \in S \cup U : f[x] \in Nat
    PROVE  SumFunctionOnSet(f, S \cup U) = SumFunctionOnSet(f, S) + SumFunctionOnSet(f, U)
<1> DEFINE Bad == {T \in SUBSET S : SumFunctionOnSet(f, T \cup U)
                                      # SumFunctionOnSet(f, T) + SumFunctionOnSet(f, U)}
<1> SUFFICES ASSUME Bad # {} PROVE FALSE
  OBVIOUS
<1>0. SumFunctionOnSet(f, U) \in Nat
  BY SumIsNat
<1>1. PICK T \in Bad : \A y \in Bad : y \subseteq T => y = T
  <2>1. Bad \subseteq SUBSET S
    OBVIOUS
  <2> HIDE DEF Bad
  <2> QED  BY <2>1, MinimalSubset
<1>2. T # {}
  <2> SUFFICES ASSUME T = {} PROVE FALSE
    OBVIOUS
  <2>1. T \cup U = U
    OBVIOUS
  <2> QED  BY <2>1, <1>0, SumEmpty
<1>3. PICK e \in T : TRUE
  BY <1>2
<1>4. SumFunctionOnSet(f, (T \ {e}) \cup U) = SumFunctionOnSet(f, T \ {e}) + SumFunctionOnSet(f, U)
  BY <1>1
<1>5. SumFunctionOnSet(f, T) = f[e] + SumFunctionOnSet(f, T \ {e})
  BY FS_Subset, SumRemove
<1>6. SumFunctionOnSet(f, T \cup U) = f[e] + SumFunctionOnSet(f, (T \ {e}) \cup U)
  <2>1. IsFiniteSet(T \cup U)
    BY FS_Subset, FS_Union
  <2>2. (T \cup U) \ {e} = (T \ {e}) \cup U
    OBVIOUS
  <2> QED  BY <2>1, <2>2, SumRemove
<1>7. f[e] \in Nat /\ SumFunctionOnSet(f, T \ {e}) \in Nat
  <2>1. IsFiniteSet(T \ {e})
    BY FS_Subset
  <2> QED  BY <2>1, SumIsNat
<1>8. SumFunctionOnSet(f, T \cup U) # SumFunctionOnSet(f, T) + SumFunctionOnSet(f, U)
  OBVIOUS
<1> HIDE DEF Bad
<1> QED  BY <1>0, <1>4, <1>5, <1>6, <1>7, <1>8

(* A sum of ones and zeros counts the ones. *)
THEOREM SumCounts ==
    ASSUME NEW f, NEW S, IsFiniteSet(S), NEW T \in SUBSET S,
           \A x \in S : f[x] = IF x \in T THEN 1 ELSE 0
    PROVE  SumFunctionOnSet(f, S) = Cardinality(T)
<1> DEFINE Bad == {U \in SUBSET S : SumFunctionOnSet(f, U) # Cardinality(U \cap T)}
<1> SUFFICES Bad = {}
  <2>1. ASSUME Bad = {} PROVE SumFunctionOnSet(f, S) = Cardinality(S \cap T)
    BY <2>1
  <2>2. S \cap T = T
    OBVIOUS
  <2> QED  BY <2>1, <2>2
<1> SUFFICES ASSUME Bad # {} PROVE FALSE
  OBVIOUS
<1>1. PICK U \in Bad : \A y \in Bad : y \subseteq U => y = U
  <2>1. Bad \subseteq SUBSET S
    OBVIOUS
  <2> HIDE DEF Bad
  <2> QED  BY <2>1, MinimalSubset
<1>2. U # {}
  <2> SUFFICES ASSUME U = {} PROVE FALSE
    OBVIOUS
  <2>1. U \cap T = {}
    OBVIOUS
  <2> QED  BY <2>1, SumEmpty, FS_EmptySet
<1>3. PICK e \in U : TRUE
  BY <1>2
<1> DEFINE V == U \ {e}
<1>4. SumFunctionOnSet(f, V) = Cardinality(V \cap T)
  BY <1>1
<1>5. IsFiniteSet(U) /\ IsFiniteSet(V \cap T)
  BY FS_Subset
<1>6. SumFunctionOnSet(f, U) = f[e] + SumFunctionOnSet(f, V)
  <2>1. \A x \in U : f[x] \in Nat
    OBVIOUS
  <2> QED  BY <1>5, <2>1, SumRemove
<1>7. Cardinality(V \cap T) \in Nat
  BY <1>5, FS_CardinalityType
<1>8. CASE e \in T
  <2>1. U \cap T = (V \cap T) \cup {e} /\ e \notin V \cap T /\ f[e] = 1
    BY <1>8
  <2>2. Cardinality(U \cap T) = Cardinality(V \cap T) + 1
    BY <2>1, <1>5, FS_AddElement
  <2> QED  BY <2>1, <2>2, <1>4, <1>6, <1>7
<1>9. CASE e \notin T
  <2>1. U \cap T = V \cap T /\ f[e] = 0
    BY <1>9
  <2> QED  BY <2>1, <1>4, <1>6, <1>7
<1> QED  BY <1>8, <1>9
=============================================================================
