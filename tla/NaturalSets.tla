---------------------------- MODULE NaturalSets ----------------------------
(***************************************************************************)
(* Facts that several proofs need.  About natural numbers: induction,      *)
(* least and greatest elements, and functions defined by recursion on a    *)
(* prefix of the naturals.  About sums over finite sets, which are folds   *)
(* of the community modules: they grow by one element at a time, split     *)
(* over groups and are linear.  All are stated with sets and functions, so *)
(* that they can be used where an operator could not be instantiated.      *)
(***************************************************************************)
EXTENDS Integers, FiniteSets, Functions, FiniteSetTheorems, WellFoundedInduction, TLAPS

-----------------------------------------------------------------------------
(* Natural numbers.                                                        *)

(* A nonempty set of naturals has a least element. *)
LEMMA LeastNatural ==
  ASSUME NEW T \in SUBSET Nat, T # {} PROVE \E n \in T : \A m \in T : n <= m
<1> DEFINE R == OpToRel(<, Nat)
<1>1. IsWellFoundedOn(R, Nat)
  BY NatLessThanWellFounded
<1>2. \A i, j \in Nat : <<i, j>> \in R <=> i < j
  BY DEF OpToRel
<1> HIDE DEF R
<1>3. \E x \in T : \A y \in T : ~ (<<y, x>> \in R)
  BY <1>1, WFMin
<1>4. PICK n \in T : \A m \in T : ~ (<<m, n>> \in R)
  BY <1>3
<1>5. ASSUME NEW m \in T PROVE n <= m
  <2>1. n \in Nat /\ m \in Nat /\ <<m, n>> \notin R
    BY <1>4
  <2> QED BY <1>2, <2>1
<1> QED BY <1>5

(* A set that has 0 and, with a natural, the next one has them all. *)
LEMMA InductionOnSet ==
  ASSUME NEW S, 0 \in S, \A n \in Nat : n \in S => n + 1 \in S
  PROVE  Nat \subseteq S
<1> SUFFICES ASSUME NEW k \in Nat, k \notin S PROVE FALSE
  OBVIOUS
<1> DEFINE T == {n \in Nat : n \notin S}
<1>1. PICK n \in T : \A m \in T : n <= m
  BY LeastNatural
<1>2. n # 0 /\ n - 1 \in Nat
  BY <1>1
<1>3. n - 1 \in S
  BY <1>1, <1>2
<1> QED BY <1>1, <1>2, <1>3

(* A nonempty set of naturals with an upper bound has a greatest element. *)
LEMMA GreatestNatural ==
  ASSUME NEW T \in SUBSET Nat, T # {}, NEW b \in Nat, \A n \in T : n <= b
  PROVE  \E n \in T : \A m \in T : m <= n
<1> DEFINE B == {c \in Nat : \A n \in T : n <= c}
<1>1. b \in B
  OBVIOUS
<1>2. PICK c \in B : \A d \in B : c <= d
  BY <1>1, LeastNatural
<1>3. CASE c \in T
  BY <1>2, <1>3
<1>4. CASE c \notin T
  <2>1. \A n \in T : n <= c /\ n # c /\ n \in Nat
    BY <1>2, <1>4
  <2>2. PICK m \in T : TRUE
    OBVIOUS
  <2>3. c - 1 \in Nat /\ \A n \in T : n <= c - 1
    BY <1>2, <2>1, <2>2
  <2> QED BY <1>2, <2>3
<1> QED BY <1>3, <1>4

(* Finitely many naturals have an upper bound. *)
LEMMA BoundOfImage ==
  ASSUME NEW n \in Nat, NEW f \in [1 .. n -> Nat]
  PROVE  \E b \in Nat : \A i \in 1 .. n : f[i] <= b
<1> DEFINE S == {k \in Nat : k <= n => \E b \in Nat : \A i \in 1 .. k : f[i] <= b}
<1>1. 0 \in S
  OBVIOUS
<1>2. ASSUME NEW k \in Nat, k \in S PROVE k + 1 \in S
  <2> SUFFICES ASSUME k + 1 <= n PROVE \E b \in Nat : \A i \in 1 .. k + 1 : f[i] <= b
    OBVIOUS
  <2>1. PICK b \in Nat : \A i \in 1 .. k : f[i] <= b
    BY <1>2
  <2>2. f[k + 1] \in Nat
    OBVIOUS
  <2> DEFINE c == b + f[k + 1]
  <2>3. c \in Nat /\ \A i \in 1 .. k + 1 : f[i] <= c
    <3>1. ASSUME NEW i \in 1 .. k + 1 PROVE f[i] <= c
      <4>1. i \in 1 .. k \/ i = k + 1
        OBVIOUS
      <4> QED BY <2>1, <2>2, <4>1
    <3> QED BY <2>2, <3>1
  <2> QED BY <2>3
<1> HIDE DEF S
<1>3. Nat \subseteq S
  BY <1>1, <1>2, InductionOnSet
<1>4. n \in S
  BY <1>3
<1> QED BY <1>4 DEF S

(* A value for each number, computed from those of the numbers before it:   *)
(* G is the step, f the function that the steps define.                    *)
Steps(n, V) == [UNION {{i} \X [1 .. i - 1 -> V] : i \in 1 .. n} -> V]
Follows(f, G, n) == \A i \in 1 .. n : f[i] = G[<<i, [j \in 1 .. i - 1 |-> f[j]]>>]

LEMMA PrefixRecursion ==
  ASSUME NEW n \in Nat, NEW V, NEW G \in Steps(n, V)
  PROVE  \E f \in [1 .. n -> V] : Follows(f, G, n)
<1> DEFINE Solves(f, k) ==
             /\ f \in [1 .. k -> V]
             /\ \A i \in 1 .. k : f[i] = G[<<i, [j \in 1 .. i - 1 |-> f[j]]>>]
           S == {k \in Nat : k <= n => \E f : Solves(f, k)}
<1>0. \A k \in Nat : k \in S <=> (k <= n => \E f : Solves(f, k))
  OBVIOUS
<1> HIDE DEF S
<1>1. 0 \in S
  <2>1. Solves([j \in 1 .. 0 |-> 0], 0)
    OBVIOUS
  <2> QED BY <1>0, <2>1
<1>2. ASSUME NEW k \in Nat, k \in S PROVE k + 1 \in S
  <2> SUFFICES ASSUME k + 1 <= n PROVE \E f : Solves(f, k + 1)
    <3> HIDE DEF Solves
    <3>1. k + 1 \in Nat
      OBVIOUS
    <3> QED BY <1>0, <3>1
  <2>0. \E f : Solves(f, k)
    <3> HIDE DEF Solves
    <3> QED BY <1>0, <1>2
  <2>1. PICK f : Solves(f, k)
    BY <2>0
  <2> DEFINE g == [j \in 1 .. k + 1 |-> IF j <= k THEN f[j] ELSE G[<<k + 1, f>>]]
  <2>2. G[<<k + 1, f>>] \in V
    <3>1. k + 1 \in 1 .. n /\ f \in [1 .. (k + 1) - 1 -> V]
      BY <2>1
    <3>2. <<k + 1, f>> \in UNION {{i} \X [1 .. i - 1 -> V] : i \in 1 .. n}
      BY <3>1
    <3> QED BY <3>2 DEF Steps
  <2>3. g \in [1 .. k + 1 -> V] /\ (\A j \in 1 .. k : g[j] = f[j]) /\ g[k + 1] = G[<<k + 1, f>>]
    BY <2>1, <2>2
  <2> HIDE DEF g
  <2>4. ASSUME NEW i \in 1 .. k + 1
        PROVE  g[i] = G[<<i, [j \in 1 .. i - 1 |-> g[j]]>>]
    <3>1. CASE i \in 1 .. k
      <4>1. [j \in 1 .. i - 1 |-> g[j]] = [j \in 1 .. i - 1 |-> f[j]]
        BY <2>3, <3>1
      <4> QED BY <2>1, <2>3, <3>1, <4>1
    <3>2. CASE i = k + 1
      <4>1. [j \in 1 .. i - 1 |-> g[j]] = f
        BY <2>1, <2>3, <3>2
      <4> QED BY <2>3, <3>2, <4>1
    <3>3. i \in 1 .. k \/ i = k + 1
      OBVIOUS
    <3> QED BY <3>1, <3>2, <3>3
  <2> QED BY <2>3, <2>4
<1>3. n \in S
  <2>1. Nat \subseteq S
    BY <1>1, <1>2, InductionOnSet
  <2> QED BY <2>1
<1>4. \E f : Solves(f, n)
  <2> HIDE DEF Solves
  <2> QED BY <1>0, <1>3
<1> QED BY <1>4 DEF Follows

(* A value for each number, computed from that of the number before it.     *)
Iterates(f, v, T, n) == f = [i \in 0 .. n |-> IF i = 0 THEN v ELSE T[<<i, f[i - 1]>>]]

LEMMA SimpleRecursion ==
  ASSUME NEW n \in Nat, NEW V, NEW v \in V, NEW T \in [(1 .. n) \X V -> V]
  PROVE  \E f \in [0 .. n -> V] : Iterates(f, v, T, n)
<1> DEFINE Solves(f, k) ==
             /\ f \in [0 .. k -> V] /\ f[0] = v
             /\ \A i \in 1 .. k : f[i] = T[<<i, f[i - 1]>>]
           S == {k \in Nat : k <= n => \E f : Solves(f, k)}
<1>0. \A k \in Nat : k \in S <=> (k <= n => \E f : Solves(f, k))
  OBVIOUS
<1> HIDE DEF S
<1>1. 0 \in S
  <2>1. Solves([j \in 0 .. 0 |-> v], 0)
    OBVIOUS
  <2> QED BY <1>0, <2>1
<1>2. ASSUME NEW k \in Nat, k \in S PROVE k + 1 \in S
  <2> SUFFICES ASSUME k + 1 <= n PROVE \E f : Solves(f, k + 1)
    <3> HIDE DEF Solves
    <3>1. k + 1 \in Nat
      OBVIOUS
    <3> QED BY <1>0, <3>1
  <2>0. \E f : Solves(f, k)
    <3> HIDE DEF Solves
    <3> QED BY <1>0, <1>2
  <2>1. PICK f : Solves(f, k)
    BY <2>0
  <2>2. PICK x : x = T[<<k + 1, f[k]>>]
    OBVIOUS
  <2>3. x \in V
    <3>1. k + 1 \in 1 .. n /\ f[k] \in V
      BY <2>1
    <3> QED BY <2>2, <3>1
  <2> DEFINE g == [j \in 0 .. k + 1 |-> IF j <= k THEN f[j] ELSE x]
  <2>4. g \in [0 .. k + 1 -> V] /\ (\A j \in 0 .. k : g[j] = f[j]) /\ g[k + 1] = x
    BY <2>1, <2>3
  <2> HIDE DEF g
  <2>5. ASSUME NEW i \in 1 .. k + 1 PROVE g[i] = T[<<i, g[i - 1]>>]
    <3>1. CASE i \in 1 .. k
      <4>1. g[i] = f[i] /\ g[i - 1] = f[i - 1]
        BY <2>4, <3>1
      <4> QED BY <2>1, <3>1, <4>1
    <3>2. CASE i = k + 1
      <4>1. i - 1 = k /\ k \in 0 .. k
        BY <3>2
      <4> QED BY <2>2, <2>4, <3>2, <4>1
    <3>3. i \in 1 .. k \/ i = k + 1
      OBVIOUS
    <3> QED BY <3>1, <3>2, <3>3
  <2>6. g[0] = v
    <3>1. 0 \in 0 .. k
      OBVIOUS
    <3> QED BY <2>1, <2>4, <3>1
  <2> QED BY <2>4, <2>5, <2>6
<1>3. n \in S
  <2>1. Nat \subseteq S
    BY <1>1, <1>2, InductionOnSet
  <2> QED BY <2>1
<1>4. \E f : Solves(f, n)
  <2> HIDE DEF Solves
  <2> QED BY <1>0, <1>3
<1>5. PICK f : Solves(f, n)
  BY <1>4
<1>6. \A i \in 0 .. n : f[i] = IF i = 0 THEN v ELSE T[<<i, f[i - 1]>>]
  <2>1. \A i \in 0 .. n : i # 0 => i \in 1 .. n
    OBVIOUS
  <2> QED BY <1>5, <2>1
<1> QED BY <1>5, <1>6 DEF Iterates
-----------------------------------------------------------------------------
(* Sums over finite sets.                                                  *)

(* Sets that include the empty one, and with a set one of an element more. *)
LEMMA InductionOnFiniteSet ==
  ASSUME NEW S, IsFiniteSet(S), NEW C, {} \in C,
         \A T \in SUBSET S : \A x \in S \ T : T \in C => T \cup {x} \in C
  PROVE  S \in C
<1> DEFINE K == {k \in Nat : \A T \in SUBSET S : Cardinality(T) <= k => T \in C}
<1>1. \A T \in SUBSET S : IsFiniteSet(T) /\ Cardinality(T) \in Nat
  BY FS_Subset, FS_CardinalityType
<1>2. 0 \in K
  <2>1. \A T \in SUBSET S : Cardinality(T) <= 0 => T = {}
    BY <1>1, FS_EmptySet
  <2> QED BY <2>1
<1>3. ASSUME NEW k \in Nat, k \in K PROVE k + 1 \in K
  <2>1. ASSUME NEW T \in SUBSET S, Cardinality(T) <= k + 1 PROVE T \in C
    <3>1. CASE T = {}
      BY <3>1
    <3>2. CASE T # {}
      <4>1. PICK x : x \in T
        BY <3>2
      <4>2. T \ {x} \in SUBSET S /\ Cardinality(T \ {x}) <= k /\ x \in S \ (T \ {x})
        BY <1>1, <2>1, <4>1, FS_RemoveElement
      <4>3. T \ {x} \in C /\ (T \ {x}) \cup {x} = T
        BY <1>3, <4>1, <4>2
      <4> QED BY <4>2, <4>3
    <3> QED BY <3>1, <3>2
  <2> QED BY <2>1
<1> HIDE DEF K
<1>4. Nat \subseteq K
  BY <1>2, <1>3, InductionOnSet
<1> QED BY <1>1, <1>4 DEF K

One(s) == CHOOSE x \in s : TRUE
IsSum(g, f, S) == g = [s \in SUBSET S |-> IF s = {} THEN 0 ELSE f[One(s)] + g[s \ {One(s)}]]

LEMMA SumIs ==
  ASSUME NEW f, NEW S
  PROVE  SumFunctionOnSet(f, S) = (CHOOSE g : IsSum(g, f, S))[S]
BY DEF SumFunctionOnSet, FoldFunctionOnSet, MapThenFoldSet, IsSum, One

(* What the sum of a set is decided by its subsets.                        *)
LEMMA SumsAgree ==
  ASSUME NEW f, NEW S, IsFiniteSet(S), NEW T \in SUBSET S,
         NEW g, IsSum(g, f, S), NEW h, IsSum(h, f, T)
  PROVE  \A s \in SUBSET T : g[s] = h[s]
<1> DEFINE K == {k \in Nat : \A s \in SUBSET T : Cardinality(s) <= k => g[s] = h[s]}
<1>1. \A s \in SUBSET T : IsFiniteSet(s) /\ Cardinality(s) \in Nat
  BY FS_Subset, FS_CardinalityType
<1>2. 0 \in K
  <2>1. ASSUME NEW s \in SUBSET T, Cardinality(s) <= 0 PROVE g[s] = h[s]
    <3>1. s = {}
      BY <1>1, <2>1, FS_EmptySet
    <3> QED BY <3>1 DEF IsSum
  <2> QED BY <2>1
<1>3. ASSUME NEW k \in Nat, k \in K PROVE k + 1 \in K
  <2>1. ASSUME NEW s \in SUBSET T, Cardinality(s) <= k + 1 PROVE g[s] = h[s]
    <3>1. CASE s = {}
      BY <3>1 DEF IsSum
    <3>2. CASE s # {}
      <4>1. One(s) \in s
        BY <3>2 DEF One
      <4>2. s \ {One(s)} \in SUBSET T /\ Cardinality(s \ {One(s)}) <= k
        BY <1>1, <2>1, <4>1, FS_RemoveElement
      <4>3. g[s \ {One(s)}] = h[s \ {One(s)}]
        BY <1>3, <4>2
      <4> QED BY <3>2, <4>3 DEF IsSum
    <3> QED BY <3>1, <3>2
  <2> QED BY <2>1
<1> HIDE DEF K
<1>4. Nat \subseteq K
  BY <1>2, <1>3, InductionOnSet
<1> QED BY <1>1, <1>4 DEF K

(* There is a sum of each subset of a finite set.                          *)
LEMMA SumExists ==
  ASSUME NEW f, NEW S, IsFiniteSet(S), \A x \in S : f[x] \in Int
  PROVE  \E g \in [SUBSET S -> Int] : IsSum(g, f, S)
<1> DEFINE Small(k) == {s \in SUBSET S : Cardinality(s) <= k}
           Sums(g, k) == /\ g \in [Small(k) -> Int]
                         /\ \A s \in Small(k) : g[s] = IF s = {} THEN 0 ELSE f[One(s)] + g[s \ {One(s)}]
           K == {k \in Nat : \E g : Sums(g, k)}
<1>1. \A s \in SUBSET S : IsFiniteSet(s) /\ Cardinality(s) \in Nat /\ Cardinality(s) <= Cardinality(S)
  BY FS_Subset, FS_CardinalityType
<1>2. 0 \in K
  <2>1. \A s \in Small(0) : s = {}
    BY <1>1, FS_EmptySet
  <2>2. Sums([s \in Small(0) |-> 0], 0)
    BY <2>1
  <2> QED BY <2>2
<1>3. ASSUME NEW k \in Nat, k \in K PROVE k + 1 \in K
  <2>1. PICK g : Sums(g, k)
    BY <1>3
  <2> DEFINE h == [s \in Small(k + 1) |-> IF s \in Small(k) THEN g[s] ELSE f[One(s)] + g[s \ {One(s)}]]
  <2>2. ASSUME NEW s \in Small(k + 1), s # {} PROVE One(s) \in s /\ s \ {One(s)} \in Small(k)
    <3>1. One(s) \in s
      BY <2>2 DEF One
    <3> QED BY <1>1, <2>2, <3>1, FS_RemoveElement
  <2>3. {} \in Small(k)
    BY FS_EmptySet
  <2>4. ASSUME NEW s \in Small(k + 1)
        PROVE  h[s] \in Int /\ h[s] = IF s = {} THEN 0 ELSE f[One(s)] + h[s \ {One(s)}]
    <3>1. CASE s = {}
      BY <2>1, <2>3, <3>1
    <3>2. CASE s # {} /\ s \in Small(k)
      <4>1. s \ {One(s)} \in Small(k) /\ s \ {One(s)} \in Small(k + 1)
        BY <1>1, <2>2, <3>2
      <4> QED BY <2>1, <3>2, <4>1
    <3>3. CASE s # {} /\ s \notin Small(k)
      <4>1. s \ {One(s)} \in Small(k) /\ s \ {One(s)} \in Small(k + 1) /\ f[One(s)] \in Int
        BY <1>1, <2>2, <3>3
      <4> QED BY <2>1, <3>3, <4>1
    <3> QED BY <3>1, <3>2, <3>3
  <2>5. Sums(h, k + 1)
    <3>1. h \in [Small(k + 1) -> Int]
      BY <2>4
    <3> HIDE DEF h, Small
    <3> QED BY <2>4, <3>1
  <2> HIDE DEF Sums
  <2> QED BY <2>5
<1>4. Cardinality(S) \in K
  <2> HIDE DEF K
  <2> QED BY <1>1, <1>2, <1>3, InductionOnSet
<1>5. PICK g : Sums(g, Cardinality(S))
  BY <1>4
<1>6. Small(Cardinality(S)) = SUBSET S
  BY <1>1
<1> QED BY <1>5, <1>6 DEF IsSum

Sum(f, S) == SumFunctionOnSet(f, S)

LEMMA SumOfSubset ==
  ASSUME NEW f, NEW S, IsFiniteSet(S), \A x \in S : f[x] \in Int,
         NEW g, IsSum(g, f, S), NEW T \in SUBSET S
  PROVE  Sum(f, T) = g[T]
<1>1. IsFiniteSet(T)
  BY FS_Subset
<1> DEFINE h == CHOOSE h : IsSum(h, f, T)
<1>2. IsSum(h, f, T)
  BY <1>1, SumExists
<1>3. Sum(f, T) = h[T]
  BY SumIs DEF Sum
<1> HIDE DEF h
<1>4. \A s \in SUBSET T : g[s] = h[s]
  BY <1>2, SumsAgree
<1> QED BY <1>3, <1>4

(* The library's definition, element by element in an order of its own.    *)
LEMMA SumByOne ==
  ASSUME NEW f, NEW S, IsFiniteSet(S), \A x \in S : f[x] \in Int
  PROVE  /\ Sum(f, {}) = 0
         /\ Sum(f, S) \in Int
         /\ S # {} => One(S) \in S /\ Sum(f, S) = f[One(S)] + Sum(f, S \ {One(S)})
<1>1. PICK g \in [SUBSET S -> Int] : IsSum(g, f, S)
  BY SumExists
<1>2. \A T \in SUBSET S : Sum(f, T) = g[T]
  BY <1>1, SumOfSubset
<1>3. S # {} => One(S) \in S
  BY DEF One
<1>4. {} \in SUBSET S /\ S \in SUBSET S /\ S \ {One(S)} \in SUBSET S
  OBVIOUS
<1>5. g[S] \in Int
  BY <1>1, <1>4
<1>6. \A s \in SUBSET S : g[s] = IF s = {} THEN 0 ELSE f[One(s)] + g[s \ {One(s)}]
  BY <1>1 DEF IsSum
<1>7. g[{}] = 0 /\ (S # {} => g[S] = f[One(S)] + g[S \ {One(S)}])
  BY <1>4, <1>6
<1>8. Sum(f, {}) = g[{}] /\ Sum(f, S) = g[S] /\ Sum(f, S \ {One(S)}) = g[S \ {One(S)}]
  BY <1>2, <1>4
<1> QED BY <1>3, <1>5, <1>7, <1>8

(* The order does not matter.                                              *)
LEMMA SumRemove ==
  ASSUME NEW f, NEW S, IsFiniteSet(S), \A x \in S : f[x] \in Int, NEW x \in S
  PROVE  Sum(f, S) = f[x] + Sum(f, S \ {x})
<1> DEFINE K == {k \in Nat : \A T \in SUBSET S : Cardinality(T) <= k =>
                                \A y \in T : Sum(f, T) = f[y] + Sum(f, T \ {y})}
<1>1. \A T \in SUBSET S : IsFiniteSet(T) /\ Cardinality(T) \in Nat /\ Sum(f, T) \in Int
  BY FS_Subset, FS_CardinalityType, SumByOne
<1>2. 0 \in K
  <2>1. \A T \in SUBSET S : Cardinality(T) <= 0 => T = {}
    BY <1>1, FS_EmptySet
  <2> QED BY <2>1
<1>3. ASSUME NEW k \in Nat, k \in K PROVE k + 1 \in K
  <2>1. ASSUME NEW T \in SUBSET S, Cardinality(T) <= k + 1, NEW y \in T
        PROVE  Sum(f, T) = f[y] + Sum(f, T \ {y})
    <3>1. PICK c \in T : Sum(f, T) = f[c] + Sum(f, T \ {c})
      BY <1>1, <2>1, SumByOne
    <3>2. CASE c = y
      BY <3>1, <3>2
    <3>3. CASE c # y
      <4>1. /\ T \ {c} \in SUBSET S /\ Cardinality(T \ {c}) <= k
            /\ T \ {y} \in SUBSET S /\ Cardinality(T \ {y}) <= k
        BY <1>1, <2>1, FS_RemoveElement
      <4>2. y \in T \ {c} /\ c \in T \ {y}
        BY <3>3
      <4>3. Sum(f, T \ {c}) = f[y] + Sum(f, (T \ {c}) \ {y})
        BY <1>3, <4>1, <4>2
      <4>4. Sum(f, T \ {y}) = f[c] + Sum(f, (T \ {y}) \ {c})
        BY <1>3, <4>1, <4>2
      <4>5. (T \ {c}) \ {y} = (T \ {y}) \ {c} /\ (T \ {c}) \ {y} \in SUBSET S
        OBVIOUS
      <4>6. Sum(f, (T \ {c}) \ {y}) \in Int /\ f[c] \in Int /\ f[y] \in Int
        BY <1>1, <4>5
      <4> DEFINE rest == Sum(f, (T \ {c}) \ {y})
      <4>7. /\ Sum(f, T \ {c}) = f[y] + rest /\ Sum(f, T \ {y}) = f[c] + rest
            /\ rest \in Int
        BY <4>3, <4>4, <4>5, <4>6
      <4> HIDE DEF rest
      <4> QED BY <3>1, <4>6, <4>7
    <3> QED BY <3>2, <3>3
  <2> QED BY <2>1
<1> HIDE DEF K
<1>4. Nat \subseteq K
  BY <1>2, <1>3, InductionOnSet
<1> QED BY <1>1, <1>4 DEF K

LEMMA SumAdd ==
  ASSUME NEW f, NEW S, IsFiniteSet(S), NEW x, x \notin S, f[x] \in Int, \A y \in S : f[y] \in Int
  PROVE  Sum(f, S \cup {x}) = f[x] + Sum(f, S) /\ Sum(f, S) \in Int
<1>1. IsFiniteSet(S \cup {x}) /\ (S \cup {x}) \ {x} = S
  BY FS_AddElement
<1>2. Sum(f, S \cup {x}) = f[x] + Sum(f, (S \cup {x}) \ {x})
  BY <1>1, SumRemove
<1> QED BY <1>1, <1>2, SumByOne

LEMMA SumEmpty ==
  ASSUME NEW f
  PROVE  Sum(f, {}) = 0
<1>1. IsFiniteSet({}) /\ \A x \in {} : f[x] \in Int
  BY FS_EmptySet
<1> QED BY <1>1, SumByOne

LEMMA SumSplit ==
  ASSUME NEW f, NEW S, IsFiniteSet(S), NEW T, IsFiniteSet(T), S \cap T = {},
         \A x \in S \cup T : f[x] \in Int
  PROVE  Sum(f, S \cup T) = Sum(f, S) + Sum(f, T)
<1> DEFINE C == {U \in SUBSET T : Sum(f, S \cup U) = Sum(f, S) + Sum(f, U)}
<1>1. \A U \in SUBSET T : /\ IsFiniteSet(U) /\ IsFiniteSet(S \cup U)
                          /\ Sum(f, U) \in Int /\ Sum(f, S) \in Int
  BY FS_Subset, FS_Union, SumByOne
<1>2. {} \in C
  <2>1. Sum(f, {}) = 0 /\ S \cup {} = S /\ Sum(f, S) \in Int
    BY <1>1, SumEmpty
  <2> QED BY <2>1
<1>3. ASSUME NEW U \in SUBSET T, NEW x \in T \ U, U \in C PROVE U \cup {x} \in C
  <2>1. f[x] \in Int /\ x \notin S \cup U /\ x \notin U /\ S \cup (U \cup {x}) = (S \cup U) \cup {x}
    OBVIOUS
  <2>2. \A y \in S \cup U : f[y] \in Int
    OBVIOUS
  <2>3. Sum(f, (S \cup U) \cup {x}) = f[x] + Sum(f, S \cup U)
    BY <1>1, <2>1, <2>2, SumAdd
  <2>4. Sum(f, U \cup {x}) = f[x] + Sum(f, U)
    BY <1>1, <2>1, <2>2, SumAdd
  <2>5. Sum(f, S \cup U) = Sum(f, S) + Sum(f, U)
    BY <1>3
  <2>6. Sum(f, S \cup (U \cup {x})) = Sum(f, S) + Sum(f, U \cup {x})
    <3>1. PICK a, b, d \in Int : a = f[x] /\ b = Sum(f, S) /\ d = Sum(f, U)
      BY <1>1, <2>1
    <3>2. Sum(f, U \cup {x}) = a + d
      BY <2>4, <3>1
    <3>3. Sum(f, S \cup (U \cup {x})) = a + (b + d)
      BY <2>1, <2>3, <2>5, <3>1
    <3>4. a + (b + d) = b + (a + d)
      OBVIOUS
    <3> QED BY <3>1, <3>2, <3>3, <3>4
  <2> QED BY <2>6
<1> HIDE DEF C
<1>4. T \in C
  BY <1>2, <1>3, InductionOnFiniteSet
<1> QED BY <1>4 DEF C

LEMMA SumLinear ==
  ASSUME NEW S, IsFiniteSet(S), NEW f, NEW g, NEW h, NEW c \in Int, NEW d \in Int,
         \A x \in S : f[x] \in Int /\ g[x] \in Int /\ h[x] = c * f[x] + d * g[x]
  PROVE  Sum(h, S) = c * Sum(f, S) + d * Sum(g, S)
<1> DEFINE C == {U \in SUBSET S : Sum(h, U) = c * Sum(f, U) + d * Sum(g, U)}
<1>1. \A x \in S : h[x] \in Int
  OBVIOUS
<1>2. \A U \in SUBSET S : /\ IsFiniteSet(U)
                          /\ Sum(f, U) \in Int /\ Sum(g, U) \in Int /\ Sum(h, U) \in Int
                          /\ Sum(f, {}) = 0 /\ Sum(g, {}) = 0 /\ Sum(h, {}) = 0
  <2>1. ASSUME NEW U \in SUBSET S PROVE IsFiniteSet(U) /\ \A x \in U : f[x] \in Int /\ g[x] \in Int /\ h[x] \in Int
    BY <1>1, FS_Subset
  <2> QED BY <2>1, SumByOne
<1>3. {} \in C
  BY <1>2
<1>4. ASSUME NEW U \in SUBSET S, NEW x \in S \ U, U \in C PROVE U \cup {x} \in C
  <2>1. Sum(f, U \cup {x}) = f[x] + Sum(f, U)
    BY <1>2, SumAdd
  <2>2. Sum(g, U \cup {x}) = g[x] + Sum(g, U)
    BY <1>2, SumAdd
  <2>3. Sum(h, U \cup {x}) = h[x] + Sum(h, U)
    BY <1>1, <1>2, SumAdd
  <2>4. Sum(h, U) = c * Sum(f, U) + d * Sum(g, U)
    BY <1>4
  <2>5. ASSUME NEW a \in Int, NEW b \in Int, NEW u \in Int, NEW v \in Int
        PROVE  (c * a + d * b) + (c * u + d * v) = c * (a + u) + d * (b + v)
    OBVIOUS
  <2>6. Sum(h, U \cup {x}) = c * Sum(f, U \cup {x}) + d * Sum(g, U \cup {x})
    BY <1>2, <2>1, <2>2, <2>3, <2>4, <2>5
  <2> QED BY <2>6
<1> HIDE DEF C
<1>5. S \in C
  BY <1>3, <1>4, InductionOnFiniteSet
<1> QED BY <1>5 DEF C

LEMMA SumSame ==
  ASSUME NEW S, IsFiniteSet(S), NEW f, NEW g, \A x \in S : f[x] \in Int /\ g[x] = f[x]
  PROVE  Sum(g, S) = Sum(f, S)
<1>1. \A x \in S : g[x] = 1 * f[x] + 0 * f[x]
  OBVIOUS
<1>2. Sum(f, S) \in Int
  BY SumByOne
<1>3. Sum(g, S) = 1 * Sum(f, S) + 0 * Sum(f, S)
  BY <1>1, SumLinear
<1> QED BY <1>2, <1>3

LEMMA SumOfNaturals ==
  ASSUME NEW S, IsFiniteSet(S), NEW f, \A x \in S : f[x] \in Nat
  PROVE  Sum(f, S) \in Nat /\ \A T \in SUBSET S : Sum(f, T) \in Nat /\ Sum(f, T) <= Sum(f, S)
<1> DEFINE C == {U \in SUBSET S : Sum(f, U) \in Nat}
<1>1. \A U \in SUBSET S : IsFiniteSet(U)
  BY FS_Subset
<1>2. {} \in C
  BY SumEmpty
<1>3. \A V \in SUBSET S : \A U \in SUBSET V : \A x \in V \ U : U \in C => U \cup {x} \in C
  BY <1>1, SumAdd
<1>4. ASSUME NEW V \in SUBSET S PROVE V \in C
  <2> HIDE DEF C
  <2> QED BY <1>1, <1>2, <1>3, InductionOnFiniteSet
<1>5. ASSUME NEW T \in SUBSET S PROVE Sum(f, T) <= Sum(f, S)
  <2>1. T \cup (S \ T) = S /\ T \cap (S \ T) = {} /\ IsFiniteSet(T) /\ IsFiniteSet(S \ T)
    BY <1>1
  <2>2. Sum(f, S) = Sum(f, T) + Sum(f, S \ T)
    BY <2>1, SumSplit
  <2>3. Sum(f, T) \in Nat /\ Sum(f, S \ T) \in Nat
    BY <1>4
  <2> QED BY <2>2, <2>3
<1> QED BY <1>4, <1>5

LEMMA SumOfMultiples ==
  ASSUME NEW S, IsFiniteSet(S), NEW f, NEW d \in {2, 4}, \A x \in S : f[x] \in Nat /\ f[x] % d = 0
  PROVE  Sum(f, S) % d = 0
<1> DEFINE C == {U \in SUBSET S : Sum(f, U) % d = 0}
<1>1. \A U \in SUBSET S : IsFiniteSet(U) /\ Sum(f, U) \in Int /\ Sum(f, {}) = 0
  <2>1. ASSUME NEW U \in SUBSET S PROVE IsFiniteSet(U) /\ \A x \in U : f[x] \in Int
    BY FS_Subset
  <2> QED BY <2>1, SumByOne
<1>2. {} \in C
  BY <1>1
<1>3. ASSUME NEW U \in SUBSET S, NEW x \in S \ U, U \in C PROVE U \cup {x} \in C
  <2>1. Sum(f, U \cup {x}) = f[x] + Sum(f, U)
    BY <1>1, SumAdd
  <2>2. Sum(f, U) % d = 0 /\ f[x] % d = 0 /\ f[x] \in Int
    BY <1>3
  <2>3. (f[x] + Sum(f, U)) % d = 0
    <3>1. Sum(f, U) \in Int
      BY <1>1
    <3>2. CASE d = 2
      BY <2>2, <3>1, <3>2
    <3>3. CASE d = 4
      BY <2>2, <3>1, <3>3
    <3> QED BY <3>2, <3>3
  <2> QED BY <2>1, <2>3
<1> HIDE DEF C
<1>4. S \in C
  BY <1>2, <1>3, InductionOnFiniteSet
<1> QED BY <1>4 DEF C

(* A sum over disjoint groups is a sum of the sums over each group.        *)
LEMMA SumOfGroups ==
  ASSUME NEW G, IsFiniteSet(G), \A s \in G : IsFiniteSet(s),
         \A s, t \in G : s # t => s \cap t = {},
         NEW f, \A x \in UNION G : f[x] \in Int,
         NEW h, \A s \in G : h[s] = Sum(f, s)
  PROVE  Sum(h, G) = Sum(f, UNION G)
<1> DEFINE C == {H \in SUBSET G : Sum(h, H) = Sum(f, UNION H)}
<1>1. \A H \in SUBSET G : IsFiniteSet(H) /\ IsFiniteSet(UNION H)
  <2>1. ASSUME NEW H \in SUBSET G PROVE IsFiniteSet(H) /\ \A s \in H : IsFiniteSet(s)
    BY FS_Subset
  <2> QED BY <2>1, FS_UNION
<1>2. ASSUME NEW s \in G PROVE h[s] \in Int
  <2>1. IsFiniteSet(s) /\ \A x \in s : f[x] \in Int
    OBVIOUS
  <2>2. h[s] = Sum(f, s)
    OBVIOUS
  <2>3. Sum(f, s) \in Int
    BY <2>1, SumByOne
  <2> QED BY <2>2, <2>3
<1>3. {} \in C
  <2>1. UNION {} = {} /\ Sum(h, {}) = 0 /\ Sum(f, {}) = 0
    BY SumEmpty
  <2> QED BY <2>1
<1>4. ASSUME NEW H \in SUBSET G, NEW s \in G \ H, H \in C PROVE H \cup {s} \in C
  <2>1. UNION (H \cup {s}) = (UNION H) \cup s /\ (UNION H) \cap s = {}
    OBVIOUS
  <2>2. Sum(h, H \cup {s}) = h[s] + Sum(h, H)
    BY <1>1, <1>2, SumAdd
  <2>3. Sum(f, (UNION H) \cup s) = Sum(f, UNION H) + Sum(f, s)
    <3>1. IsFiniteSet(UNION H) /\ IsFiniteSet(s) /\ \A x \in (UNION H) \cup s : f[x] \in Int
      BY <1>1
    <3> QED BY <2>1, <3>1, SumSplit
  <2>4. Sum(f, UNION H) \in Int /\ Sum(f, s) \in Int
    <3>1. \A x \in UNION H : f[x] \in Int
      OBVIOUS
    <3>2. \A x \in s : f[x] \in Int
      OBVIOUS
    <3> QED BY <1>1, <3>1, <3>2, SumByOne
  <2>5. Sum(h, H) = Sum(f, UNION H) /\ h[s] = Sum(f, s)
    BY <1>4
  <2>6. Sum(h, H \cup {s}) = Sum(f, (UNION H) \cup s)
    BY <2>2, <2>3, <2>4, <2>5
  <2>7. Sum(h, H \cup {s}) = Sum(f, UNION (H \cup {s}))
    BY <2>1, <2>6
  <2> QED BY <2>7
<1> HIDE DEF C
<1>5. G \in C
  BY <1>3, <1>4, InductionOnFiniteSet
<1> QED BY <1>5 DEF C

(* A sum over a set, its elements taken in an order.                       *)
Seen(t, n) == {t[i] : i \in 1 .. n}
Orders(t, m, S) == t \in [1 .. m -> S] /\ \A i, j \in 1 .. m : i # j => t[i] # t[j]

LEMMA SumInOrder ==
  ASSUME NEW S, NEW f, \A x \in S : f[x] \in Int,
         NEW m \in Nat, NEW t, Orders(t, m, S),
         NEW h, \A i \in 1 .. m : h[i] = f[t[i]]
  PROVE  \A n \in 0 .. m : Sum(h, 1 .. n) = Sum(f, Seen(t, n))
<1> DEFINE K == {n \in Nat : n <= m => /\ IsFiniteSet(Seen(t, n)) /\ Sum(h, 1 .. n) = Sum(f, Seen(t, n))}
<1>1. 0 \in K
  <2>1. 1 .. 0 = {} /\ Seen(t, 0) = {}
    BY DEF Seen
  <2>2. IsFiniteSet({}) /\ Sum(f, {}) = 0 /\ Sum(h, {}) = 0
    BY FS_EmptySet, SumEmpty
  <2> QED BY <2>1, <2>2
<1>2. ASSUME NEW n \in Nat, n \in K PROVE n + 1 \in K
  <2> SUFFICES ASSUME n + 1 <= m
               PROVE  /\ IsFiniteSet(Seen(t, n + 1)) /\ Sum(h, 1 .. n + 1) = Sum(f, Seen(t, n + 1))
    OBVIOUS
  <2>1. IsFiniteSet(Seen(t, n)) /\ Sum(h, 1 .. n) = Sum(f, Seen(t, n))
    BY <1>2
  <2>2. n + 1 \in 1 .. m /\ n + 1 \notin 1 .. n /\ 1 .. n + 1 = (1 .. n) \cup {n + 1} /\ 1 .. n \subseteq 1 .. m
    OBVIOUS
  <2>3. Seen(t, n + 1) = Seen(t, n) \cup {t[n + 1]} /\ t[n + 1] \notin Seen(t, n) /\ t[n + 1] \in S /\ Seen(t, n) \subseteq S
    BY <2>2 DEF Seen, Orders
  <2>4. Sum(f, Seen(t, n) \cup {t[n + 1]}) = f[t[n + 1]] + Sum(f, Seen(t, n))
    <3>1. f[t[n + 1]] \in Int /\ \A x \in Seen(t, n) : f[x] \in Int
      BY <2>3
    <3> QED BY <2>1, <2>3, <3>1, SumAdd
  <2>5. Sum(h, (1 .. n) \cup {n + 1}) = h[n + 1] + Sum(h, 1 .. n)
    <3>1. \A i \in 1 .. m : h[i] \in Int
      BY DEF Orders
    <3>2. IsFiniteSet(1 .. n)
      BY FS_Interval
    <3> QED BY <2>2, <3>1, <3>2, SumAdd
  <2>6. IsFiniteSet(Seen(t, n + 1))
    BY <2>1, <2>3, FS_AddElement
  <2> QED BY <2>1, <2>2, <2>3, <2>4, <2>5, <2>6
<1> HIDE DEF K
<1>3. Nat \subseteq K
  BY <1>1, <1>2, InductionOnSet
<1>4. ASSUME NEW n \in 0 .. m PROVE Sum(h, 1 .. n) = Sum(f, Seen(t, n))
  <2>1. n \in K /\ n <= m
    BY <1>3
  <2> QED BY <2>1 DEF K
<1> QED BY <1>4
=============================================================================
