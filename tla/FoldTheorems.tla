----------------------------- MODULE FoldTheorems -----------------------------
(***************************************************************************)
(* Induction without an operator as parameter: over the members of a set   *)
(* of numbers, and of a set of subsets of a finite set.  From it, what     *)
(* recursive functions compute: the sum over a finite set that             *)
(* FiniteSetsExt defines by a fold.                                        *)
(***************************************************************************)
EXTENDS FiniteSetsExt, FiniteSetTheorems, TLAPS

(* A nonempty set of natural numbers has a least member. *)
LEMMA LeastNumber ==
    ASSUME NEW U \in SUBSET Nat, U # {}
    PROVE  \E n \in U : \A k \in U : n <= k
<1> DEFINE less == {ss \in Nat \X Nat : ss[1] < ss[2]}
<1>1. IsWellFoundedOn(less, Nat)
  BY NatLessThanWellFounded, Zenon DEF OpToRel
<1> HIDE DEF less
<1>2. PICK n \in U : \A k \in U : ~(<<k, n>> \in less)
  BY <1>1, WFMin
<1>3. \A k \in U : ~(k < n)
  BY <1>2 DEF less
<1> QED BY <1>3

(* A set of natural numbers that has 0 and what follows its members is Nat. *)
LEMMA SetInduction ==
    ASSUME NEW S \in SUBSET Nat, 0 \in S, \A i \in S : i + 1 \in S
    PROVE  S = Nat
<1> SUFFICES ASSUME S # Nat PROVE FALSE
  OBVIOUS
<1>1. PICK n \in Nat \ S : \A k \in Nat \ S : n <= k
  BY LeastNumber
<1>2. n - 1 \in S
  BY <1>1
<1> QED BY <1>1, <1>2

(* A set of subsets of a finite set has them all, if it has every one that  *)
(* without any of its elements is a member; in particular the empty one.    *)
LEMMA SubsetInduction ==
    ASSUME NEW S, IsFiniteSet(S), NEW F \in SUBSET SUBSET S,
           \A T \in SUBSET S : (\A x \in T : T \ {x} \in F) => T \in F
    PROVE  F = SUBSET S
<1> SUFFICES ASSUME F # SUBSET S PROVE FALSE
  OBVIOUS
<1>1. IsWellFoundedOn(StrictSubsetOrdering(S), SUBSET S)
  <2>1. FiniteSubsetsOf(S) = SUBSET S
    BY FS_FiniteSubsetsOfFinite
  <2>2. IsWellFoundedOn(StrictSubsetOrdering(S), FiniteSubsetsOf(S))
    BY FS_StrictSubsetOrderingWellFounded
  <2> QED BY <2>1, <2>2
<1> DEFINE Others == (SUBSET S) \ F
<1>2. Others # {} /\ Others \subseteq SUBSET S
  OBVIOUS
<1> HIDE DEF Others
<1>3. PICK T \in Others : \A U \in Others : ~(<<U, T>> \in StrictSubsetOrdering(S))
  BY <1>1, <1>2, WFMin
<1> USE DEF Others
<1>4. ASSUME NEW x \in T PROVE T \ {x} \in F
  <2>1. <<T \ {x}, T>> \in StrictSubsetOrdering(S)
    BY DEF StrictSubsetOrdering
  <2> QED BY <1>3, <2>1
<1> QED BY <1>3, <1>4

(* A function may be defined by its value at 0 and a step from each number  *)
(* to the next.                                                             *)
IsRun(g, n, V, v, step) ==
    g \in [0..n -> V] /\ g[0] = v /\ \A i \in 1..n : g[i] = step[i][g[i - 1]]

(* There is such a function.                                                *)
LEMMA Recursion ==
    ASSUME NEW n \in Nat, NEW V, NEW v \in V, NEW step \in [1..n -> [V -> V]]
    PROVE  \E g : IsRun(g, n, V, v, step)
<1> DEFINE Runs(k) == {g \in [0..k -> V] :
                         g[0] = v /\ \A i \in 1..k : g[i] = step[i][g[i - 1]]}
           S == {k \in Nat : k <= n => Runs(k) # {}}
<1>1. Runs(0) # {}
  <2>1. [i \in 0..0 |-> v] \in Runs(0)
    OBVIOUS
  <2> QED BY <2>1
<1>2. ASSUME NEW k \in Nat, k + 1 <= n, Runs(k) # {} PROVE Runs(k + 1) # {}
  <2>1. PICK g \in [0..k -> V] : g[0] = v /\ \A i \in 1..k : g[i] = step[i][g[i - 1]]
    BY <1>2
  <2> DEFINE h == [i \in 0..(k + 1) |-> IF i = k + 1 THEN step[k + 1][g[k]] ELSE g[i]]
  <2>2. step[k + 1][g[k]] \in V /\ g[k] \in V
    <3>1. k \in 0..k /\ k + 1 \in 1..n
      BY <1>2
    <3> QED BY <2>1, <3>1
  <2>3. h \in [0..(k + 1) -> V]
    BY <2>1, <2>2
  <2>4. h[k + 1] = step[k + 1][g[k]] /\ \A i \in 0..k : h[i] = g[i]
    OBVIOUS
  <2>5. h[0] = v
    BY <2>1, <2>4
  <2>6. ASSUME NEW i \in 1..(k + 1) PROVE h[i] = step[i][h[i - 1]]
    <3> HIDE DEF h
    <3>1. CASE i = k + 1
      <4>1. i - 1 = k /\ k \in 0..k
        BY <3>1
      <4> QED BY <2>4, <3>1, <4>1
    <3>2. CASE i \in 1..k
      <4>1. i - 1 \in 0..k /\ i \in 0..k
        BY <3>2
      <4> QED BY <2>1, <2>4, <3>2, <4>1
    <3> QED BY <3>1, <3>2
  <2> HIDE DEF h
  <2>7. h \in Runs(k + 1)
    BY <2>3, <2>5, <2>6
  <2> QED BY <2>7
<1>3. S = Nat
  <2> HIDE DEF Runs
  <2>1. 0 \in S /\ S \in SUBSET Nat
    BY <1>1
  <2>2. \A k \in S : k + 1 \in S
    BY <1>2
  <2> HIDE DEF S
  <2> QED BY <2>1, <2>2, SetInduction
<1>4. Runs(n) # {}
  <2> HIDE DEF Runs
  <2> QED BY <1>3
<1> QED BY <1>4 DEF IsRun

(* The running sum of n numbers exists.                                     *)
LEMMA RunningSum ==
    ASSUME NEW n \in Nat, NEW w \in [1..n -> Nat]
    PROVE  \E g \in [0..n -> Nat] : g[0] = 0 /\ \A i \in 1..n : g[i] = g[i - 1] + w[i]
<1> DEFINE step == [i \in 1..n |-> [x \in Nat |-> x + w[i]]]
<1>1. step \in [1..n -> [Nat -> Nat]]
  OBVIOUS
<1>2. \A i \in 1..n, x \in Nat : step[i][x] = x + w[i]
  OBVIOUS
<1> HIDE DEF step
<1>3. PICK g \in [0..n -> Nat] : g[0] = 0 /\ \A i \in 1..n : g[i] = step[i][g[i - 1]]
  <2>1. 0 \in Nat
    OBVIOUS
  <2>2. \E g : IsRun(g, n, Nat, 0, step)
    BY <1>1, <2>1, Recursion
  <2> QED BY <2>2 DEF IsRun
<1>4. \A i \in 1..n : i - 1 \in 0..n
  OBVIOUS
<1>5. ASSUME NEW i \in 1..n PROVE g[i] = g[i - 1] + w[i]
  <2>1. g[i - 1] \in Nat
    BY <1>4
  <2>2. g[i] = step[i][g[i - 1]]
    BY <1>3
  <2>3. step[i][g[i - 1]] = g[i - 1] + w[i]
    BY <1>2, <2>1, Zenon
  <2> QED BY <2>2, <2>3, Zenon
<1>6. g[0] = 0
  BY <1>3
<1> QED BY <1>5, <1>6, Zenon

-----------------------------------------------------------------------------
(* Sums *)

(* f[x] pieces for each x of s. *)
Pieces(f, s) == {p \in s \X Nat : p[2] \in 1..f[p[1]]}

(* The pieces of one element. *)
LEMMA PiecesOfOne ==
    ASSUME NEW f, NEW s, NEW x \in s, f[x] \in Nat
    PROVE  /\ Pieces(f, s) = Pieces(f, s \ {x}) \cup ({x} \X (1..f[x]))
           /\ Pieces(f, s \ {x}) \cap ({x} \X (1..f[x])) = {}
           /\ IsFiniteSet({x} \X (1..f[x]))
           /\ Cardinality({x} \X (1..f[x])) = f[x]
<1>1. /\ Pieces(f, s) = Pieces(f, s \ {x}) \cup ({x} \X (1..f[x]))
      /\ Pieces(f, s \ {x}) \cap ({x} \X (1..f[x])) = {}
  BY DEF Pieces
<1>2. IsFiniteSet(1..f[x]) /\ Cardinality(1..f[x]) = f[x]
  <2>1. /\ IsFiniteSet(1..f[x])
        /\ Cardinality(1..f[x]) = IF 1 > f[x] THEN 0 ELSE f[x] - 1 + 1
    BY FS_Interval, 1 \in Int, f[x] \in Int
  <2> QED BY <2>1
<1>3. IsFiniteSet({x}) /\ Cardinality({x}) = 1
  BY FS_Singleton
<1>4. /\ IsFiniteSet({x} \X (1..f[x]))
      /\ Cardinality({x} \X (1..f[x])) = Cardinality({x}) * Cardinality(1..f[x])
  BY <1>2, <1>3, FS_Product
<1>5. Cardinality({x}) * Cardinality(1..f[x]) = f[x]
  BY <1>2, <1>3
<1> QED BY <1>1, <1>4, <1>5

(* The pieces of finitely many elements are finitely many, and those of     *)
(* each element count for themselves.                                       *)
LEMMA PiecesCount ==
    ASSUME NEW S, IsFiniteSet(S), NEW f \in [S -> Nat], NEW s \in SUBSET S
    PROVE  /\ IsFiniteSet(Pieces(f, s))
           /\ \A x \in s :
                 Cardinality(Pieces(f, s)) = f[x] + Cardinality(Pieces(f, s \ {x}))
<1> DEFINE F == {T \in SUBSET S : IsFiniteSet(Pieces(f, T))}
<1>1. {} \in F
  <2>1. Pieces(f, {}) = {}
    BY DEF Pieces
  <2> QED BY <2>1, FS_EmptySet
<1>2. ASSUME NEW T \in SUBSET S, \A x \in T : T \ {x} \in F, T # {}
      PROVE  T \in F
  <2>0. PICK x \in T : TRUE
    BY <1>2
  <2>1. IsFiniteSet(Pieces(f, T \ {x})) /\ IsFiniteSet({x} \X (1..f[x]))
    BY <1>2, PiecesOfOne
  <2>2. IsFiniteSet(Pieces(f, T \ {x}) \cup ({x} \X (1..f[x])))
    BY <2>1, FS_Union
  <2>3. Pieces(f, T) = Pieces(f, T \ {x}) \cup ({x} \X (1..f[x]))
    BY PiecesOfOne
  <2> QED BY <2>2, <2>3
<1>3. F = SUBSET S
  <2> HIDE DEF F
  <2>1. F \in SUBSET SUBSET S
    BY DEF F
  <2>2. \A T \in SUBSET S : (\A x \in T : T \ {x} \in F) => T \in F
    BY <1>1, <1>2
  <2> QED BY <2>1, <2>2, SubsetInduction
<1>4. ASSUME NEW x \in s
      PROVE  Cardinality(Pieces(f, s)) = f[x] + Cardinality(Pieces(f, s \ {x}))
  <2> DEFINE A == Pieces(f, s \ {x})
             B == {x} \X (1..f[x])
  <2>1. IsFiniteSet(A)
    BY <1>3
  <2>2. /\ Pieces(f, s) = A \cup B /\ A \cap B = {}
        /\ IsFiniteSet(B) /\ Cardinality(B) = f[x] /\ f[x] \in Nat
    BY PiecesOfOne
  <2>3. Cardinality(A) \in Nat
    BY <2>1, FS_CardinalityType
  <2> HIDE DEF A, B
  <2>4. Cardinality(A \cup B) = Cardinality(A) + Cardinality(B) - Cardinality(A \cap B)
    BY <2>1, <2>2, FS_Union
  <2>5. Cardinality(A \cap B) = 0
    BY <2>2, FS_EmptySet
  <2>6. Cardinality(A \cup B) = f[x] + Cardinality(A)
    BY <2>2, <2>3, <2>4, <2>5
  <2> QED BY <2>2, <2>6 DEF A
<1> QED BY <1>3, <1>4

(* The sum over a finite set counts the pieces. *)
LEMMA SumCounts ==
    ASSUME NEW S, IsFiniteSet(S), NEW f \in [S -> Nat]
    PROVE  MapThenSumSet(LAMBDA x : f[x], S) = Cardinality(Pieces(f, S))
<1> DEFINE pick(s)  == CHOOSE x \in s : TRUE
           rec(g)   == [s \in SUBSET S |->
                          IF s = {} THEN 0 ELSE f[pick(s)] + g[s \ {pick(s)}]]
           sum      == CHOOSE g : g = rec(g)
           counts   == [s \in SUBSET S |-> Cardinality(Pieces(f, s))]
<1>1. MapThenSumSet(LAMBDA x : f[x], S) = sum[S]
  BY DEF MapThenSumSet, MapThenFoldSet
<1>2. counts = rec(counts)
  <2>1. ASSUME NEW s \in SUBSET S, s # {}
        PROVE  counts[s] = f[pick(s)] + counts[s \ {pick(s)}]
    <3>1. pick(s) \in s
      BY <2>1
    <3> HIDE DEF pick
    <3>2. Cardinality(Pieces(f, s)) = f[pick(s)] + Cardinality(Pieces(f, s \ {pick(s)}))
      BY <3>1, PiecesCount
    <3> QED BY <3>2
  <2>2. counts[{}] = 0
    <3>1. Pieces(f, {}) = {}
      BY DEF Pieces
    <3> QED BY <3>1, FS_EmptySet
  <2> QED BY <2>1, <2>2
<1>3. sum = rec(sum)
  <2> HIDE DEF counts
  <2> QED BY <1>2
<1>4. S \in {s \in SUBSET S : sum[s] = counts[s]}
  <2> DEFINE F == {s \in SUBSET S : sum[s] = counts[s]}
  <2>1. {} \in F
    BY <1>2, <1>3
  <2>2. ASSUME NEW s \in SUBSET S, \A x \in s : s \ {x} \in F, s # {}
        PROVE  s \in F
    <3> DEFINE x == pick(s)
    <3>1. x \in s
      BY <2>2
    <3> HIDE DEF pick
    <3>2. sum[s \ {x}] = counts[s \ {x}]
      BY <2>2, <3>1
    <3> HIDE DEF sum, counts, x
    <3>3. sum[s] = f[x] + sum[s \ {x}]
      BY <1>3, <2>2 DEF x
    <3>4. counts[s] = f[x] + counts[s \ {x}]
      BY <1>2, <2>2 DEF x
    <3> QED BY <3>2, <3>3, <3>4
  <2>3. F \in SUBSET SUBSET S
    OBVIOUS
  <2> HIDE DEF F
  <2>4. \A s \in SUBSET S : (\A x \in s : s \ {x} \in F) => s \in F
    BY <2>1, <2>2
  <2>5. F = SUBSET S
    BY <2>3, <2>4, SubsetInduction
  <2> QED BY <2>5 DEF F
<1> QED BY <1>1, <1>4
=============================================================================
