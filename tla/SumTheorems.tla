----------------------------- MODULE SumTheorems ----------------------------
(* Sums of a function over a finite set, as MapThenSumSet computes them: the *)
(* order in which it takes the elements does not matter.  The proofs are by  *)
(* induction over sets: a set of natural numbers, or of finite sets, with    *)
(* the base and closed under the step is all of them.                        *)
EXTENDS Integers, FiniteSetsExt, FiniteSetTheorems, WellFoundedInduction, TLAPS

SumOver(f, S) == MapThenSumSet(LAMBDA x : f[x], S)

-----------------------------------------------------------------------------
(* Induction.                                                                *)

\* A set of natural numbers that has a member has a least one.
LEMMA LeastNumber ==
  ASSUME NEW X, X \subseteq Nat, X # {}
  PROVE  \E x \in X : \A y \in X : ~(y < x)
  <1> DEFINE R == OpToRel(<, Nat)
  <1>1. IsWellFoundedOn(R, Nat)
    BY NatLessThanWellFounded
  <1> HIDE DEF R
  <1>2. PICK x \in X : \A y \in X : ~(<<y, x>> \in R)
    BY <1>1, WFMin
  <1> QED
    BY <1>2 DEF R, OpToRel

\* A set with zero and with the successor of each of its numbers has them all.
LEMMA NumberInduction ==
  ASSUME NEW X, 0 \in X, \A n \in Nat : n \in X => n + 1 \in X
  PROVE  \A n \in Nat : n \in X
  <1> SUFFICES ASSUME Nat \ X # {} PROVE FALSE
    OBVIOUS
  <1>1. PICK m \in Nat \ X : \A y \in Nat \ X : ~(y < m)
    <2> PICK Y : Y = Nat \ X
      OBVIOUS
    <2> QED
      BY LeastNumber
  <1>2. m # 0 /\ m - 1 \in Nat /\ m - 1 < m
    OBVIOUS
  <1>3. m - 1 \in X
    BY <1>1, <1>2
  <1> QED
    BY <1>2, <1>3

\* The cardinality of a finite set without one of its elements.
LEMMA OneLess ==
  ASSUME NEW T, IsFiniteSet(T), NEW x \in T, NEW n \in Nat, Cardinality(T) <= n + 1
  PROVE  IsFiniteSet(T \ {x}) /\ Cardinality(T \ {x}) <= n
  <1>1. IsFiniteSet(T \ {x}) /\ Cardinality(T \ {x}) = Cardinality(T) - 1
    BY FS_RemoveElement
  <1>2. Cardinality(T) \in Nat
    BY FS_CardinalityType
  <1> QED
    BY <1>1, <1>2

\* A set of sets with the empty set, and with a set whenever it has that set
\* without one of its elements, has every finite set.
LEMMA SetInduction ==
  ASSUME NEW S, IsFiniteSet(S), NEW X, {} \in X,
         \A T \in SUBSET S : \A x \in T : T \ {x} \in X => T \in X
  PROVE  S \in X
  <1> DEFINE N == {n \in Nat : \A T \in SUBSET S : Cardinality(T) <= n => T \in X}
  <1>1. \A T \in SUBSET S : IsFiniteSet(T) /\ Cardinality(T) \in Nat
    BY FS_Subset, FS_CardinalityType
  <1>2. 0 \in N
    <2> SUFFICES ASSUME NEW T \in SUBSET S, Cardinality(T) <= 0
                 PROVE  T \in X
      OBVIOUS
    <2>1. Cardinality(T) = 0
      BY <1>1
    <2>2. T = {}
      BY <1>1, <2>1, FS_EmptySet
    <2> QED
      BY <2>2
  <1>3. ASSUME NEW n \in Nat, n \in N
        PROVE  n + 1 \in N
    <2> SUFFICES ASSUME NEW T \in SUBSET S, Cardinality(T) <= n + 1
                 PROVE  T \in X
      OBVIOUS
    <2>1. CASE T = {}
      BY <2>1
    <2>2. CASE T # {}
      <3> PICK x \in T : TRUE
        BY <2>2
      <3>1. Cardinality(T \ {x}) <= n
        BY <1>1, OneLess
      <3>2. T \ {x} \in X
        BY <1>3, <3>1
      <3> QED
        BY <3>2
    <2> QED
      BY <2>1, <2>2
  <1>4. Cardinality(S) \in N
    <2> HIDE DEF N
    <2>1. \A n \in Nat : n \in N
      BY <1>2, <1>3, NumberInduction
    <2> QED
      BY <1>1, <2>1
  <1>5. Cardinality(S) <= Cardinality(S)
    BY <1>1
  <1> QED
    BY <1>4, <1>5

-----------------------------------------------------------------------------
(* The recursive function by which the sum is defined.                       *)

Pick(s) == CHOOSE x \in s : TRUE

Rest(s) == s \ {Pick(s)}

Body(f, S, h) == [s \in SUBSET S |-> IF s = {} THEN 0 ELSE f[Pick(s)] + h[s \ {Pick(s)}]]

\* It exists: sets of n + 1 elements are summed once those of n are.
LEMMA SumExists ==
  ASSUME NEW f, NEW S, IsFiniteSet(S)
  PROVE  \E h : h = Body(f, S, h)
  <1> DEFINE Next(s, h) == IF s = {} THEN 0 ELSE f[Pick(s)] + h[Rest(s)]
             Solves(h, n) == \A s \in SUBSET S : Cardinality(s) <= n => h[s] = Next(s, h)
             N == {n \in Nat : \E h : Solves(h, n)}
  <1>1. \A T \in SUBSET S : IsFiniteSet(T) /\ Cardinality(T) \in Nat
    BY FS_Subset, FS_CardinalityType
  <1>2. 0 \in N
    <2> DEFINE h == [s \in SUBSET S |-> 0]
    <2>1. \A s \in SUBSET S : Cardinality(s) <= 0 => s = {}
      <3> SUFFICES ASSUME NEW s \in SUBSET S, Cardinality(s) <= 0
                   PROVE  s = {}
        OBVIOUS
      <3>1. Cardinality(s) = 0
        BY <1>1
      <3> QED
        BY <1>1, <3>1, FS_EmptySet
    <2>2. Solves(h, 0)
      BY <2>1
    <2> HIDE DEF h, Solves
    <2> QED
      BY <2>2
  <1>3. ASSUME NEW n \in Nat, n \in N
        PROVE  n + 1 \in N
    <2> PICK h : Solves(h, n)
      BY <1>3
    <2> DEFINE g == [s \in SUBSET S |-> IF Cardinality(s) <= n THEN h[s] ELSE Next(s, h)]
    <2>1. ASSUME NEW s \in SUBSET S, Cardinality(s) <= n + 1
          PROVE  g[s] = Next(s, g)
      <3>1. g[s] = Next(s, h)
        OBVIOUS
      <3>2. CASE s = {}
        BY <3>1, <3>2
      <3>3. CASE s # {}
        <4>1. Pick(s) \in s
          BY <3>3 DEF Pick
        <4>2. Rest(s) \in SUBSET S /\ Cardinality(Rest(s)) <= n
          BY <1>1, <2>1, <4>1, OneLess DEF Rest
        <4>3. g[Rest(s)] = h[Rest(s)]
          BY <4>2
        <4> HIDE DEF g
        <4> QED
          BY <3>1, <3>3, <4>3
      <3> QED
        BY <3>2, <3>3
    <2>2. Solves(g, n + 1)
      BY <2>1
    <2> HIDE DEF g, Solves
    <2> QED
      BY <2>2
  <1>4. Cardinality(S) \in N
    <2> HIDE DEF N
    <2>1. \A n \in Nat : n \in N
      BY <1>2, <1>3, NumberInduction
    <2> QED
      BY <1>1, <2>1
  <1> PICK h : Solves(h, Cardinality(S))
    BY <1>4
  <1>5. \A s \in SUBSET S : Cardinality(s) <= Cardinality(S)
    BY FS_Subset
  <1> DEFINE g == [s \in SUBSET S |-> h[s]]
  <1>6. \A s \in SUBSET S : s # {} => s \ {Pick(s)} \in SUBSET S
    OBVIOUS
  <1>7. \A s \in SUBSET S : g[s] = IF s = {} THEN 0 ELSE f[Pick(s)] + g[s \ {Pick(s)}]
    BY <1>5, <1>6 DEF Rest
  <1>8. g = [s \in SUBSET S |-> IF s = {} THEN 0 ELSE f[Pick(s)] + g[s \ {Pick(s)}]]
    BY <1>7
  <1> HIDE DEF g
  <1> QED
    BY <1>8 DEF Body

LEMMA SumUnfold ==
  ASSUME NEW f, NEW S, IsFiniteSet(S)
  PROVE  \E h : h = Body(f, S, h) /\ SumOver(f, S) = h[S]
  <1> DEFINE H == CHOOSE h : h = Body(f, S, h)
  <1>1. H = Body(f, S, H)
    BY SumExists
  <1>2. SumOver(f, S) = H[S]
    BY Zenon DEF SumOver, MapThenSumSet, MapThenFoldSet, Body, Pick
  <1> QED
    BY <1>1, <1>2

\* The functions for two sets agree on their common subsets.
LEMMA SumAgree ==
  ASSUME NEW f, NEW S, NEW T \in SUBSET S, IsFiniteSet(S), NEW h, NEW k,
         h = Body(f, S, h), k = Body(f, T, k)
  PROVE  h[T] = k[T]
  <1>1. /\ \A s \in SUBSET S : h[s] = IF s = {} THEN 0 ELSE f[Pick(s)] + h[s \ {Pick(s)}]
        /\ \A s \in SUBSET T : k[s] = IF s = {} THEN 0 ELSE f[Pick(s)] + k[s \ {Pick(s)}]
    BY DEF Body
  <1> DEFINE N == {n \in Nat : \A s \in SUBSET T : Cardinality(s) <= n => h[s] = k[s]}
  <1>2. \A s \in SUBSET T : IsFiniteSet(s) /\ Cardinality(s) \in Nat
    BY FS_Subset, FS_CardinalityType
  <1>3. ASSUME NEW s \in SUBSET T, s # {} => h[s \ {Pick(s)}] = k[s \ {Pick(s)}]
        PROVE  h[s] = k[s]
    BY <1>1, <1>3
  <1>4. 0 \in N
    <2> SUFFICES ASSUME NEW s \in SUBSET T, Cardinality(s) <= 0
                 PROVE  h[s] = k[s]
      OBVIOUS
    <2>1. Cardinality(s) = 0
      BY <1>2
    <2>2. s = {}
      BY <1>2, <2>1, FS_EmptySet
    <2> QED
      BY <1>3, <2>2
  <1>5. ASSUME NEW n \in Nat, n \in N
        PROVE  n + 1 \in N
    <2> SUFFICES ASSUME NEW s \in SUBSET T, Cardinality(s) <= n + 1
                 PROVE  h[s] = k[s]
      OBVIOUS
    <2>1. s # {} => Pick(s) \in s
      BY DEF Pick
    <2>2. s # {} => s \ {Pick(s)} \in SUBSET T /\ Cardinality(s \ {Pick(s)}) <= n
      BY <1>2, <2>1, OneLess
    <2>3. s # {} => h[s \ {Pick(s)}] = k[s \ {Pick(s)}]
      BY <1>5, <2>2
    <2> QED
      BY <1>3, <2>3
  <1>6. Cardinality(T) \in N
    <2> HIDE DEF N
    <2>1. \A n \in Nat : n \in N
      BY <1>4, <1>5, NumberInduction
    <2> QED
      BY <1>2, <2>1
  <1>7. Cardinality(T) <= Cardinality(T)
    BY <1>2
  <1> QED
    BY <1>6, <1>7

\* The sum takes its elements one by one.
LEMMA SumPick ==
  ASSUME NEW f, NEW S, IsFiniteSet(S)
  PROVE  SumOver(f, S) = IF S = {} THEN 0 ELSE f[Pick(S)] + SumOver(f, Rest(S))
  <1> PICK h : h = Body(f, S, h) /\ SumOver(f, S) = h[S]
    BY SumUnfold
  <1>1. h[S] = IF S = {} THEN 0 ELSE f[Pick(S)] + h[S \ {Pick(S)}]
    BY DEF Body
  <1>2. IsFiniteSet(Rest(S)) /\ Rest(S) \in SUBSET S
    BY FS_Subset DEF Rest
  <1> PICK k : k = Body(f, Rest(S), k) /\ SumOver(f, Rest(S)) = k[Rest(S)]
    BY <1>2, SumUnfold
  <1>3. h[Rest(S)] = k[Rest(S)]
    BY <1>2, SumAgree
  <1> QED
    BY <1>1, <1>3 DEF Rest

-----------------------------------------------------------------------------
(* Laws of sums.                                                             *)

LEMMA SumEmpty ==
  ASSUME NEW f
  PROVE  SumOver(f, {}) = 0
  BY SumPick, FS_EmptySet

IntegerOn(f, S) == \A x \in S : f[x] \in Int

\* A sum of integers is an integer.
LEMMA SumType ==
  ASSUME NEW f, NEW S, IsFiniteSet(S), IntegerOn(f, S)
  PROVE  SumOver(f, S) \in Int
  <1> DEFINE N == {n \in Nat : \A T \in SUBSET S : Cardinality(T) <= n => SumOver(f, T) \in Int}
  <1>1. \A T \in SUBSET S : IsFiniteSet(T) /\ Cardinality(T) \in Nat
    BY FS_Subset, FS_CardinalityType
  <1>2. 0 \in N
    <2> SUFFICES ASSUME NEW T \in SUBSET S, Cardinality(T) <= 0
                 PROVE  SumOver(f, T) \in Int
      OBVIOUS
    <2>1. Cardinality(T) = 0
      BY <1>1
    <2>2. T = {}
      BY <1>1, <2>1, FS_EmptySet
    <2> QED
      BY <2>2, SumEmpty
  <1>3. ASSUME NEW n \in Nat, n \in N
        PROVE  n + 1 \in N
    <2> SUFFICES ASSUME NEW T \in SUBSET S, Cardinality(T) <= n + 1
                 PROVE  SumOver(f, T) \in Int
      OBVIOUS
    <2>1. CASE T = {}
      BY <2>1, SumEmpty
    <2>2. CASE T # {}
      <3>1. Pick(T) \in T
        BY <2>2 DEF Pick
      <3>2. Rest(T) \in SUBSET S /\ Cardinality(Rest(T)) <= n
        BY <1>1, <3>1, OneLess DEF Rest
      <3>3. SumOver(f, Rest(T)) \in Int /\ f[Pick(T)] \in Int
        BY <1>3, <3>1, <3>2 DEF IntegerOn
      <3> QED
        BY <1>1, <2>2, <3>3, SumPick
    <2> QED
      BY <2>1, <2>2
  <1>4. Cardinality(S) \in N
    <2> HIDE DEF N
    <2>1. \A n \in Nat : n \in N
      BY <1>2, <1>3, NumberInduction
    <2> QED
      BY <1>1, <2>1
  <1>5. Cardinality(S) <= Cardinality(S)
    BY <1>1
  <1> QED
    BY <1>4, <1>5

\* Any element may be taken first.
LEMMA SumRemove ==
  ASSUME NEW f, NEW S, IsFiniteSet(S), IntegerOn(f, S), NEW e \in S
  PROVE  SumOver(f, S) = f[e] + SumOver(f, S \ {e})
  <1> DEFINE N == {n \in Nat : \A T \in SUBSET S : Cardinality(T) <= n =>
                     \A x \in T : SumOver(f, T) = f[x] + SumOver(f, T \ {x})}
  <1>1. \A T \in SUBSET S : IsFiniteSet(T) /\ Cardinality(T) \in Nat /\ SumOver(f, T) \in Int
    BY FS_Subset, FS_CardinalityType, SumType DEF IntegerOn
  <1>2. 0 \in N
    <2> SUFFICES ASSUME NEW T \in SUBSET S, Cardinality(T) <= 0, NEW x \in T
                 PROVE  FALSE
      OBVIOUS
    <2>1. Cardinality(T) = 0
      BY <1>1
    <2> QED
      BY <1>1, <2>1, FS_EmptySet
  <1>3. ASSUME NEW n \in Nat, n \in N
        PROVE  n + 1 \in N
    <2> SUFFICES ASSUME NEW T \in SUBSET S, Cardinality(T) <= n + 1, NEW x \in T
                 PROVE  SumOver(f, T) = f[x] + SumOver(f, T \ {x})
      OBVIOUS
    <2> PICK p : p = Pick(T)
      OBVIOUS
    <2>1. p \in T /\ SumOver(f, T) = f[p] + SumOver(f, T \ {p})
      BY <1>1, SumPick DEF Pick, Rest
    <2>2. CASE x = p
      BY <2>1, <2>2
    <2>3. CASE x # p
      <3>1. /\ T \ {p} \in SUBSET S /\ Cardinality(T \ {p}) <= n
            /\ T \ {x} \in SUBSET S /\ Cardinality(T \ {x}) <= n
        BY <1>1, <2>1, OneLess
      <3>2. SumOver(f, T \ {p}) = f[x] + SumOver(f, (T \ {p}) \ {x})
        BY <1>3, <2>3, <3>1
      <3>3. SumOver(f, T \ {x}) = f[p] + SumOver(f, (T \ {x}) \ {p})
        BY <1>3, <2>1, <2>3, <3>1
      <3> PICK U \in SUBSET S : U = (T \ {p}) \ {x}
        OBVIOUS
      <3>4. (T \ {x}) \ {p} = U
        OBVIOUS
      <3>5. f[x] \in Int /\ f[p] \in Int /\ SumOver(f, U) \in Int
        BY <1>1, <2>1 DEF IntegerOn
      <3>6. f[p] + (f[x] + SumOver(f, U)) = f[x] + (f[p] + SumOver(f, U))
        BY <3>5
      <3> QED
        BY <2>1, <3>2, <3>3, <3>4, <3>6
    <2> QED
      BY <2>2, <2>3
  <1>4. Cardinality(S) \in N
    <2> HIDE DEF N
    <2>1. \A n \in Nat : n \in N
      BY <1>2, <1>3, NumberInduction
    <2> QED
      BY <1>1, <2>1
  <1>5. Cardinality(S) <= Cardinality(S)
    BY <1>1
  <1> QED
    BY <1>4, <1>5

\* A sum depends on the values on its set only.
LEMMA SumSame ==
  ASSUME NEW f, NEW g, NEW S, IsFiniteSet(S), IntegerOn(f, S), \A x \in S : f[x] = g[x]
  PROVE  SumOver(f, S) = SumOver(g, S)
  <1> DEFINE X == {T \in SUBSET S : SumOver(f, T) = SumOver(g, T)}
  <1>1. {} \in X
    BY SumEmpty
  <1>2. ASSUME NEW T \in SUBSET S, NEW x \in T, T \ {x} \in X
        PROVE  T \in X
    <2>1. IsFiniteSet(T) /\ IntegerOn(f, T) /\ IntegerOn(g, T)
      BY FS_Subset DEF IntegerOn
    <2>2. SumOver(f, T) = f[x] + SumOver(f, T \ {x}) /\ SumOver(g, T) = g[x] + SumOver(g, T \ {x})
      BY <2>1, SumRemove
    <2> QED
      BY <1>2, <2>2
  <1> HIDE DEF X
  <1>3. S \in X
    BY <1>1, <1>2, SetInduction
  <1> QED
    BY <1>3 DEF X

\* The sum over two sets that have nothing in common.
LEMMA SumUnion ==
  ASSUME NEW f, NEW S, NEW R, IsFiniteSet(S), IsFiniteSet(R), S \cap R = {},
         IntegerOn(f, S), IntegerOn(f, R)
  PROVE  SumOver(f, S \cup R) = SumOver(f, S) + SumOver(f, R)
  <1> DEFINE X == {T \in SUBSET S : SumOver(f, T \cup R) = SumOver(f, T) + SumOver(f, R)}
  <1>1. SumOver(f, R) \in Int
    BY SumType
  <1>2. {} \in X
    <2>1. {} \cup R = R
      OBVIOUS
    <2> QED
      BY <1>1, <2>1, SumEmpty
  <1>3. ASSUME NEW T \in SUBSET S, NEW x \in T, T \ {x} \in X
        PROVE  T \in X
    <2>1. /\ IsFiniteSet(T) /\ IsFiniteSet(T \ {x}) /\ IsFiniteSet(T \cup R)
          /\ IntegerOn(f, T) /\ IntegerOn(f, T \ {x}) /\ IntegerOn(f, T \cup R)
      BY FS_Subset, FS_Union DEF IntegerOn
    <2>2. /\ SumOver(f, T) = f[x] + SumOver(f, T \ {x})
          /\ SumOver(f, T \cup R) = f[x] + SumOver(f, (T \cup R) \ {x})
      BY <2>1, SumRemove
    <2>3. (T \cup R) \ {x} = (T \ {x}) \cup R
      OBVIOUS
    <2>4. SumOver(f, (T \ {x}) \cup R) = SumOver(f, T \ {x}) + SumOver(f, R)
      BY <1>3
    <2>5. SumOver(f, T \ {x}) \in Int /\ f[x] \in Int
      BY <2>1, SumType DEF IntegerOn
    <2>6. f[x] + (SumOver(f, T \ {x}) + SumOver(f, R)) = (f[x] + SumOver(f, T \ {x})) + SumOver(f, R)
      BY <1>1, <2>5
    <2> QED
      BY <2>2, <2>3, <2>4, <2>6
  <1> HIDE DEF X
  <1>4. S \in X
    BY <1>2, <1>3, SetInduction
  <1> QED
    BY <1>4 DEF X

\* Sums of sums.
LEMMA SumPlus ==
  ASSUME NEW f, NEW g, NEW h, NEW S, IsFiniteSet(S), IntegerOn(f, S), IntegerOn(g, S),
         \A x \in S : h[x] = f[x] + g[x]
  PROVE  SumOver(h, S) = SumOver(f, S) + SumOver(g, S)
  <1> DEFINE X == {T \in SUBSET S : SumOver(h, T) = SumOver(f, T) + SumOver(g, T)}
  <1>1. {} \in X
    BY SumEmpty
  <1>2. ASSUME NEW T \in SUBSET S, NEW x \in T, T \ {x} \in X
        PROVE  T \in X
    <2>1. /\ IsFiniteSet(T) /\ IsFiniteSet(T \ {x})
          /\ IntegerOn(f, T) /\ IntegerOn(g, T) /\ IntegerOn(h, T)
          /\ IntegerOn(f, T \ {x}) /\ IntegerOn(g, T \ {x})
      BY FS_Subset DEF IntegerOn
    <2> PICK a : a = SumOver(f, T \ {x})
      OBVIOUS
    <2> PICK b : b = SumOver(g, T \ {x})
      OBVIOUS
    <2>2. SumOver(f, T) = f[x] + a /\ SumOver(g, T) = g[x] + b
      BY <2>1, SumRemove
    <2>3. SumOver(h, T) = h[x] + SumOver(h, T \ {x})
      BY <2>1, SumRemove
    <2>4. SumOver(h, T \ {x}) = a + b
      BY <1>2
    <2>5. a \in Int /\ b \in Int /\ f[x] \in Int /\ g[x] \in Int /\ h[x] = f[x] + g[x]
      BY <2>1, SumType DEF IntegerOn
    <2>6. (f[x] + g[x]) + (a + b) = (f[x] + a) + (g[x] + b)
      BY <2>5
    <2> QED
      BY <2>2, <2>3, <2>4, <2>5, <2>6
  <1> HIDE DEF X
  <1>3. S \in X
    BY <1>1, <1>2, SetInduction
  <1> QED
    BY <1>3 DEF X

\* The values of a function on a finite set are finitely many.
LEMMA FiniteImage ==
  ASSUME NEW e, NEW S, IsFiniteSet(S)
  PROVE  IsFiniteSet({e[x] : x \in S})
  <1> DEFINE T == {e[x] : x \in S}
             h == [x \in S |-> e[x]]
  <1>1. h \in Surjection(S, T)
    BY DEF Surjection
  <1> QED
    BY <1>1, FS_Surjection

\* The sum over an image under a function that tells its arguments apart.
LEMMA SumImage ==
  ASSUME NEW f, NEW g, NEW e, NEW S, IsFiniteSet(S), IntegerOn(f, S),
         \A x \in S : g[e[x]] = f[x],
         \A x, y \in S : e[x] = e[y] => x = y
  PROVE  SumOver(g, {e[x] : x \in S}) = SumOver(f, S)
  <1> DEFINE Im(T) == {e[x] : x \in T}
             X == {T \in SUBSET S : SumOver(g, Im(T)) = SumOver(f, T)}
  <1>1. {} \in X
    <2>1. Im({}) = {}
      OBVIOUS
    <2> QED
      BY <2>1, SumEmpty
  <1>2. ASSUME NEW T \in SUBSET S, NEW x \in T, T \ {x} \in X
        PROVE  T \in X
    <2>1. IsFiniteSet(T) /\ IntegerOn(f, T)
      BY FS_Subset DEF IntegerOn
    <2>2. IsFiniteSet(Im(T))
      BY <2>1, FiniteImage
    <2>3. IntegerOn(g, Im(T))
      BY DEF IntegerOn
    <2>4. Im(T \ {x}) = Im(T) \ {e[x]} /\ e[x] \in Im(T)
      OBVIOUS
    <2> HIDE DEF Im
    <2>5. SumOver(g, Im(T)) = g[e[x]] + SumOver(g, Im(T \ {x}))
      BY <2>2, <2>3, <2>4, SumRemove
    <2>6. SumOver(f, T) = f[x] + SumOver(f, T \ {x})
      BY <2>1, SumRemove
    <2>7. SumOver(g, Im(T \ {x})) = SumOver(f, T \ {x}) /\ g[e[x]] = f[x]
      BY <1>2
    <2> QED
      BY <2>5, <2>6, <2>7
  <1> HIDE DEF X
  <1>3. S \in X
    BY <1>1, <1>2, SetInduction
  <1> QED
    BY <1>3 DEF X

\* A sum of zeros.
LEMMA SumZero ==
  ASSUME NEW f, NEW S, IsFiniteSet(S), \A x \in S : f[x] = 0
  PROVE  SumOver(f, S) = 0
  <1> DEFINE X == {T \in SUBSET S : SumOver(f, T) = 0}
  <1>1. {} \in X
    BY SumEmpty
  <1>2. ASSUME NEW T \in SUBSET S, NEW x \in T, T \ {x} \in X
        PROVE  T \in X
    <2>1. IsFiniteSet(T) /\ IntegerOn(f, T)
      BY FS_Subset DEF IntegerOn
    <2>2. SumOver(f, T) = f[x] + SumOver(f, T \ {x})
      BY <2>1, SumRemove
    <2> QED
      BY <1>2, <2>2
  <1> HIDE DEF X
  <1>3. S \in X
    BY <1>1, <1>2, SetInduction
  <1> QED
    BY <1>3 DEF X

\* A sum of numbers that are not negative is not negative.
LEMMA SumNatural ==
  ASSUME NEW f, NEW S, IsFiniteSet(S), \A x \in S : f[x] \in Nat
  PROVE  SumOver(f, S) \in Nat
  <1> DEFINE X == {T \in SUBSET S : SumOver(f, T) \in Nat}
  <1>1. {} \in X
    BY SumEmpty
  <1>2. ASSUME NEW T \in SUBSET S, NEW x \in T, T \ {x} \in X
        PROVE  T \in X
    <2>1. IsFiniteSet(T) /\ IntegerOn(f, T)
      BY FS_Subset DEF IntegerOn
    <2>2. SumOver(f, T) = f[x] + SumOver(f, T \ {x})
      BY <2>1, SumRemove
    <2> QED
      BY <1>2, <2>2
  <1> HIDE DEF X
  <1>3. S \in X
    BY <1>1, <1>2, SetInduction
  <1> QED
    BY <1>3 DEF X

\* The value at one place changes.
LEMMA SumChange ==
  ASSUME NEW f, NEW g, NEW S, IsFiniteSet(S), IntegerOn(f, S), IntegerOn(g, S),
         NEW e \in S, \A x \in S \ {e} : f[x] = g[x]
  PROVE  SumOver(g, S) = SumOver(f, S) - f[e] + g[e]
  <1>1. IsFiniteSet(S \ {e}) /\ IntegerOn(f, S \ {e})
    BY FS_Subset DEF IntegerOn
  <1> PICK a : a = SumOver(f, S \ {e})
    OBVIOUS
  <1>2. a \in Int /\ f[e] \in Int /\ g[e] \in Int
    BY <1>1, SumType DEF IntegerOn
  <1>3. SumOver(f, S) = f[e] + a /\ SumOver(g, S) = g[e] + SumOver(g, S \ {e})
    BY SumRemove
  <1>4. SumOver(g, S \ {e}) = a
    BY <1>1, SumSame
  <1>5. g[e] + a = (f[e] + a) - f[e] + g[e]
    BY <1>2
  <1> QED
    BY <1>3, <1>4, <1>5
=============================================================================
