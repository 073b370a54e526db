---------------------- MODULE AllocateWarpGroupsProofs ----------------------
(***************************************************************************)
(* For every set of kernels: the teams of an op's partitions share out the *)
(* worker warps, partitions that meet in a warpgroup agree on their        *)
(* registers, the registers fit those of the launch, and what the          *)
(* optimizer has taken warps from still holds its tensors.                 *)
(*                                                                         *)
(* The first lemmas are about the computations: padding sizes add up to    *)
(* what is missing, start ids pack the teams, a warpgroup lies in one      *)
(* group, and the budget is what is left of the launch.  The inductive     *)
(* invariant relates the walks.                                            *)
(***************************************************************************)
EXTENDS AllocateWarpGroups, NaturalSets, SequenceTheorems, FiniteSetTheorems

-----------------------------------------------------------------------------
(* Sums of lists.                                                          *)

(* A list is summed up as far as each of its elements.                     *)
LEMMA SumOfList ==
  ASSUME NEW s \in Seq(Int)
  PROVE  SumFunction(s) = Sum(s, 1 .. Len(s)) /\ SumFunction(s) \in Int
<1>1. DOMAIN s = 1 .. Len(s) /\ \A i \in 1 .. Len(s) : s[i] \in Int
  OBVIOUS
<1>2. IsFiniteSet(1 .. Len(s))
  BY FS_Interval
<1> QED BY <1>1, <1>2, SumByOne DEF SumFunction, Sum

LEMMA SumOfConcat ==
  ASSUME NEW s \in Seq(Int), NEW t \in Seq(Int)
  PROVE  SumFunction(s \o t) = SumFunction(s) + SumFunction(t)
<1> DEFINE u == s \o t
           m == Len(s)
           K == {k \in Nat : k <= Len(t) => Sum(u, 1 .. m + k) = Sum(s, 1 .. m) + Sum(t, 1 .. k)}
<1>1. /\ u \in Seq(Int) /\ m \in Nat /\ Len(t) \in Nat /\ Len(u) = m + Len(t)
      /\ \A i \in 1 .. m : u[i] = s[i] /\ s[i] \in Int
      /\ \A i \in 1 .. Len(t) : u[m + i] = t[i] /\ t[i] \in Int
      /\ \A i \in 1 .. Len(u) : u[i] \in Int
  OBVIOUS
<1>2. \A i \in Int : IsFiniteSet(1 .. i)
  BY FS_Interval
<1> HIDE DEF u, m
<1>3. Sum(s, 1 .. m) \in Int
  <2>1. IsFiniteSet(1 .. m) /\ \A i \in 1 .. m : s[i] \in Int
    BY <1>1, <1>2
  <2> QED BY <2>1, SumByOne
<1>4. 0 \in K
  <2>1. Sum(u, 1 .. m) = Sum(s, 1 .. m)
    <3>1. IsFiniteSet(1 .. m) /\ \A i \in 1 .. m : s[i] \in Int /\ u[i] = s[i]
      BY <1>1, <1>2
    <3> QED BY <3>1, SumSame
  <2>2. Sum(t, {}) = 0 /\ 1 .. 0 = {} /\ m + 0 = m
    BY <1>1, SumEmpty
  <2>3. Sum(u, 1 .. m + 0) = Sum(s, 1 .. m) + Sum(t, 1 .. 0)
    BY <1>3, <2>1, <2>2
  <2> QED BY <2>3
<1>5. ASSUME NEW k \in Nat, k \in K PROVE k + 1 \in K
  <2> SUFFICES ASSUME k + 1 <= Len(t) PROVE Sum(u, 1 .. m + (k + 1)) = Sum(s, 1 .. m) + Sum(t, 1 .. k + 1)
    OBVIOUS
  <2>1. m \in Nat /\ Len(t) \in Nat /\ k + 1 <= Len(t) /\ Len(u) = m + Len(t)
    BY <1>1
  <2>2. 1 .. m + (k + 1) = (1 .. m + k) \cup {m + (k + 1)} /\ m + (k + 1) \notin 1 .. m + k
    BY <2>1
  <2>3. 1 .. k + 1 = (1 .. k) \cup {k + 1} /\ k + 1 \notin 1 .. k /\ k + 1 \in 1 .. Len(t)
    BY <2>1
  <2>4. 1 .. m + k \subseteq 1 .. Len(u) /\ 1 .. k \subseteq 1 .. Len(t) /\ m + k \in Int /\ k \in Int
    BY <2>1
  <2>5. /\ 1 .. m + (k + 1) = (1 .. m + k) \cup {m + (k + 1)} /\ m + (k + 1) \notin 1 .. m + k
        /\ 1 .. k + 1 = (1 .. k) \cup {k + 1} /\ k + 1 \notin 1 .. k /\ k + 1 \in 1 .. Len(t)
        /\ 1 .. m + k \subseteq 1 .. Len(u) /\ 1 .. k \subseteq 1 .. Len(t) /\ m + k \in Int /\ k \in Int
    BY <2>2, <2>3, <2>4
  <2>6. u[m + (k + 1)] = t[k + 1] /\ t[k + 1] \in Int
    BY <1>1, <2>5
  <2>7. Sum(u, 1 .. m + (k + 1)) = t[k + 1] + Sum(u, 1 .. m + k)
    <3>1. \A y \in 1 .. m + k : u[y] \in Int
      BY <1>1, <2>5
    <3>2. IsFiniteSet(1 .. m + k) /\ u[m + (k + 1)] \in Int
      BY <1>2, <2>5, <2>6
    <3>3. Sum(u, (1 .. m + k) \cup {m + (k + 1)}) = u[m + (k + 1)] + Sum(u, 1 .. m + k)
      BY <2>5, <3>1, <3>2, SumAdd
    <3> QED BY <2>5, <2>6, <3>3
  <2>8. Sum(t, 1 .. k + 1) = t[k + 1] + Sum(t, 1 .. k) /\ Sum(t, 1 .. k) \in Int
    <3>1. \A y \in 1 .. k : t[y] \in Int
      BY <1>1, <2>5
    <3>2. IsFiniteSet(1 .. k)
      BY <1>2
    <3>3. Sum(t, (1 .. k) \cup {k + 1}) = t[k + 1] + Sum(t, 1 .. k) /\ Sum(t, 1 .. k) \in Int
      BY <2>5, <2>6, <3>1, <3>2, SumAdd
    <3> QED BY <2>5, <3>3
  <2>9. Sum(s, 1 .. m) \in Int /\ k + 1 <= Len(t) /\ Len(t) \in Nat
    BY <1>1, <1>3
  <2>10. Sum(u, 1 .. m + k) = Sum(s, 1 .. m) + Sum(t, 1 .. k)
    BY <1>5
  <2> QED BY <2>6, <2>7, <2>8, <2>9, <2>10
<1> HIDE DEF K
<1>6. Nat \subseteq K
  BY <1>4, <1>5, InductionOnSet
<1>7. Sum(u, 1 .. m + Len(t)) = Sum(s, 1 .. m) + Sum(t, 1 .. Len(t))
  BY <1>1, <1>6 DEF K
<1> QED BY <1>1, <1>7, SumOfList DEF u, m

-----------------------------------------------------------------------------
(* Padding.                                                                *)

(* Warp counts whose sums, the larger ones first, begin warpgroups where a *)
(* team needs one: powers of two, and all that matters of these.           *)
WarpCounts == {1, 2} \cup {n \in Nat \ {0} : n % 4 = 0}

LEMMA TwiceAWarpCount ==
  ASSUME NEW q \in WarpCounts
  PROVE  q \in Nat /\ 2 * q \in WarpCounts
<1>1. CASE q = 1
  BY <1>1 DEF WarpCounts
<1>2. CASE q = 2
  BY <1>2 DEF WarpCounts
<1>3. CASE q \notin {1, 2}
  <2>1. q \in Nat \ {0} /\ q % 4 = 0
    BY <1>3 DEF WarpCounts
  <2>2. 2 * q \in Nat \ {0} /\ (2 * q) % 4 = 0
    BY <2>1
  <2> QED BY <2>1, <2>2 DEF WarpCounts
<1> QED BY <1>1, <1>2, <1>3

LEMMA TwiceBetween ==
  ASSUME NEW q \in Nat, NEW h \in Nat, NEW m \in Nat,
         q <= h, h < 2 * q, 2 * h <= m, m < 2 * h + 2
  PROVE  2 * q <= m /\ m < 2 * (2 * q)
OBVIOUS

LEMMA LargestPow2Is ==
  ASSUME NEW n \in Nat \ {0}
  PROVE  LargestPow2(n) \in WarpCounts /\ LargestPow2(n) <= n
<1> DEFINE Pairs == UNION {{i} \X [1 .. i - 1 -> Nat] : i \in 1 .. n}
           G == [x \in Pairs |-> IF x[1] = 1 THEN 1 ELSE 2 * x[2][x[1] \div 2]]
           IsPow(p) == p = [k \in 1 .. n |-> IF k = 1 THEN 1 ELSE 2 * p[k \div 2]]
           pow == CHOOSE p : IsPow(p)
<1>1. \A k \in 1 .. n : k # 1 => k \div 2 \in 1 .. k - 1 /\ k \div 2 \in 1 .. n
  OBVIOUS
<1>2. G \in Steps(n, Nat)
  <2>1. ASSUME NEW i \in 1 .. n, NEW g \in [1 .. i - 1 -> Nat] PROVE G[<<i, g>>] \in Nat
    <3>1. <<i, g>> \in Pairs
      OBVIOUS
    <3>2. i # 1 => g[i \div 2] \in Nat
      BY <1>1
    <3> QED BY <3>1, <3>2
  <2>2. \A x \in Pairs : \E i \in 1 .. n : \E g \in [1 .. i - 1 -> Nat] : x = <<i, g>>
    OBVIOUS
  <2>3. \A x \in Pairs : G[x] \in Nat
    <3> HIDE DEF G, Pairs
    <3> QED BY <2>1, <2>2
  <2> QED BY <2>3 DEF Steps
<1>3. PICK p \in [1 .. n -> Nat] : Follows(p, G, n)
  <2> HIDE DEF G
  <2> QED BY <1>2, PrefixRecursion
<1>4. IsPow(p)
  <2>1. ASSUME NEW k \in 1 .. n PROVE p[k] = IF k = 1 THEN 1 ELSE 2 * p[k \div 2]
    <3> DEFINE g == [j \in 1 .. k - 1 |-> p[j]]
    <3>1. g \in [1 .. k - 1 -> Nat] /\ <<k, g>> \in Pairs
      <4>1. \A j \in 1 .. k - 1 : j \in 1 .. n
        OBVIOUS
      <4>2. g \in [1 .. k - 1 -> Nat]
        BY <1>3, <4>1
      <4> HIDE DEF g
      <4> QED BY <4>2
    <3>2. p[k] = G[<<k, g>>]
      BY <1>3 DEF Follows
    <3>3. G[<<k, g>>] = IF k = 1 THEN 1 ELSE 2 * g[k \div 2]
      <4> HIDE DEF Pairs, g
      <4> QED BY <3>1
    <3>4. k # 1 => g[k \div 2] = p[k \div 2]
      BY <1>1
    <3> QED BY <3>2, <3>3, <3>4
  <2> QED BY <2>1
<1>5. IsPow(pow)
  BY <1>4
<1>6. LargestPow2(n) = pow[n]
  BY DEF LargestPow2
<1> HIDE DEF pow
<1> DEFINE Good(k) == pow[k] \in WarpCounts /\ pow[k] <= k /\ k < 2 * pow[k]
           K == {k \in Nat : \A i \in 1 .. k : i <= n => Good(i)}
<1>7. 0 \in K
  OBVIOUS
<1>8. ASSUME NEW k \in Nat, k \in K PROVE k + 1 \in K
  <2> SUFFICES ASSUME k + 1 <= n PROVE Good(k + 1)
    <3> HIDE DEF Good
    <3>1. \A i \in 1 .. k + 1 : i \in 1 .. k \/ i = k + 1
      OBVIOUS
    <3> QED BY <1>8, <3>1
  <2> DEFINE h == (k + 1) \div 2
  <2>1. CASE k = 0
    <3>1. pow[1] = 1
      BY <1>5
    <3> QED BY <2>1, <3>1 DEF WarpCounts
  <2>2. CASE k # 0
    <3>1. h \in 1 .. k /\ h <= n /\ 2 * h <= k + 1 /\ k + 1 < 2 * h + 2
      BY <2>2
    <3>2. Good(h)
      BY <1>8, <3>1
    <3>3. pow[k + 1] = 2 * pow[h]
      BY <1>5, <2>2
    <3> HIDE DEF h
    <3>4. pow[h] \in WarpCounts /\ pow[h] <= h /\ h < 2 * pow[h]
      BY <3>2
    <3>5. h \in Nat /\ k + 1 \in Nat
      BY <3>1
    <3>6. PICK q : q = pow[h]
      OBVIOUS
    <3>7. q \in Nat /\ 2 * q \in WarpCounts
      BY <3>4, <3>6, TwiceAWarpCount
    <3>8. q <= h /\ h < 2 * q
      BY <3>4, <3>6
    <3>9. 2 * q <= k + 1 /\ k + 1 < 2 * (2 * q)
      BY <3>1, <3>5, <3>7, <3>8, TwiceBetween
    <3> QED BY <3>3, <3>6, <3>7, <3>9
  <2> QED BY <2>1, <2>2
<1> HIDE DEF K
<1>9. n \in K
  BY <1>7, <1>8, InductionOnSet
<1> QED BY <1>6, <1>9 DEF K

(* The padding of padToMaxWarpGroups fills what there is to fill.          *)
LEMMA PaddingIs ==
  ASSUME NEW w \in Nat
  PROVE  PaddingSizes(w) \in Seq(WarpCounts) /\ SumFunction(PaddingSizes(w)) = w
<1> DEFINE V == Seq(WarpCounts)
           Pairs == UNION {{i} \X [1 .. i - 1 -> V] : i \in 1 .. w + 1}
           G == [x \in Pairs |-> IF x[1] = 1 THEN <<>>
                                 ELSE <<LargestPow2(x[1] - 1)>> \o x[2][x[1] - LargestPow2(x[1] - 1)]]
           IsPad(p) == p = [n \in 0 .. w |-> IF n = 0 THEN <<>>
                                             ELSE <<LargestPow2(n)>> \o p[n - LargestPow2(n)]]
           sizes == CHOOSE p : IsPad(p)
<1>1. \A n \in 1 .. w : /\ LargestPow2(n) \in WarpCounts /\ LargestPow2(n) \in Nat \ {0}
                        /\ LargestPow2(n) <= n
  BY LargestPow2Is DEF WarpCounts
<1>2. G \in Steps(w + 1, V)
  <2>1. ASSUME NEW i \in 1 .. w + 1, NEW g \in [1 .. i - 1 -> V] PROVE G[<<i, g>>] \in V
    <3>1. <<i, g>> \in Pairs
      OBVIOUS
    <3>2. CASE i = 1
      BY <3>1, <3>2
    <3>3. CASE i # 1
      <4> DEFINE l == LargestPow2(i - 1)
      <4>1. l \in WarpCounts /\ i - l \in 1 .. i - 1
        <5>1. i - 1 \in 1 .. w
          BY <3>3
        <5> QED BY <1>1, <5>1
      <4>2. G[<<i, g>>] = <<l>> \o g[i - l]
        BY <3>1, <3>3
      <4>3. g[i - l] \in V
        BY <4>1
      <4> HIDE DEF l, G
      <4> QED BY <4>1, <4>2, <4>3
    <3> QED BY <3>2, <3>3
  <2>2. \A x \in Pairs : \E i \in 1 .. w + 1 : \E g \in [1 .. i - 1 -> V] : x = <<i, g>>
    OBVIOUS
  <2>3. \A x \in Pairs : G[x] \in V
    <3> HIDE DEF G, Pairs
    <3> QED BY <2>1, <2>2
  <2> QED BY <2>3 DEF Steps
<1>3. PICK p \in [1 .. w + 1 -> V] : Follows(p, G, w + 1)
  <2>1. w + 1 \in Nat
    OBVIOUS
  <2> HIDE DEF G, V
  <2> QED BY <1>2, <2>1, PrefixRecursion
<1> DEFINE q == [n \in 0 .. w |-> p[n + 1]]
<1>4. IsPad(q)
  <2>1. ASSUME NEW n \in 0 .. w
        PROVE  q[n] = IF n = 0 THEN <<>> ELSE <<LargestPow2(n)>> \o q[n - LargestPow2(n)]
    <3> DEFINE i == n + 1
               g == [j \in 1 .. i - 1 |-> p[j]]
    <3>1. i \in 1 .. w + 1 /\ i - 1 = n
      OBVIOUS
    <3>2. g \in [1 .. i - 1 -> V] /\ <<i, g>> \in Pairs
      BY <3>1
    <3>3. p[i] = G[<<i, g>>]
      BY <1>3, <3>1 DEF Follows
    <3>4. G[<<i, g>>] = IF i = 1 THEN <<>> ELSE <<LargestPow2(i - 1)>> \o g[i - LargestPow2(i - 1)]
      <4> HIDE DEF Pairs, g, i
      <4> QED BY <3>2
    <3>5. n # 0 => LargestPow2(n) \in Nat \ {0} /\ LargestPow2(n) <= n
      BY <1>1
    <3>6. n # 0 => g[i - LargestPow2(n)] = q[n - LargestPow2(n)]
      <4> SUFFICES ASSUME n # 0 PROVE g[i - LargestPow2(n)] = q[n - LargestPow2(n)]
        OBVIOUS
      <4>1. PICK l \in Nat \ {0} : l = LargestPow2(n) /\ l <= n
        BY <3>5
      <4>2. n - l \in 0 .. w /\ i - l \in 1 .. i - 1 /\ i - l = (n - l) + 1
        BY <4>1
      <4>3. g[i - l] = p[i - l] /\ q[n - l] = p[(n - l) + 1]
        BY <4>2
      <4> QED BY <4>1, <4>2, <4>3
    <3>7. q[n] = p[i]
      OBVIOUS
    <3>8. CASE n = 0
      BY <3>1, <3>3, <3>4, <3>7, <3>8
    <3>9. CASE n # 0
      <4>1. i # 1
        BY <3>1, <3>9
      <4>2. q[n] = <<LargestPow2(n)>> \o g[i - LargestPow2(n)]
        <5> HIDE DEF G, g, q, i
        <5> QED BY <3>1, <3>3, <3>4, <3>7, <4>1
      <4> HIDE DEF G, g, q, i
      <4> QED BY <3>6, <3>9, <4>2
    <3> HIDE DEF G, g, q
    <3> QED BY <3>8, <3>9
  <2> HIDE DEF G
  <2> QED BY <2>1
<1>5. IsPad(sizes)
  <2> HIDE DEF q
  <2> QED BY <1>4
<1>6. PaddingSizes(w) = sizes[w]
  BY DEF PaddingSizes
<1> HIDE DEF sizes
<1> DEFINE Good(n) == sizes[n] \in V /\ SumFunction(sizes[n]) = n
           K == {k \in Nat : \A n \in 0 .. k : n <= w => Good(n)}
<1>7. Good(0)
  <2>1. sizes[0] = <<>>
    BY <1>5
  <2>2. SumFunction(<<>>) = 0
    BY SumEmpty, EmptySeq DEF SumFunction, Sum
  <2> QED BY <2>1, <2>2
<1>8. ASSUME NEW k \in Nat, k \in K PROVE k + 1 \in K
  <2> SUFFICES ASSUME k + 1 <= w PROVE Good(k + 1)
    <3> HIDE DEF Good
    <3>1. \A i \in 0 .. k + 1 : i \in 0 .. k \/ i = k + 1
      OBVIOUS
    <3> QED BY <1>8, <3>1
  <2>1. PICK m \in 1 .. w : m = k + 1
    OBVIOUS
  <2>2. PICK l \in Nat \ {0} : l \in WarpCounts /\ l <= m /\ l = LargestPow2(m)
    BY <1>1
  <2>3. PICK rest : rest = sizes[m - l]
    OBVIOUS
  <2>4. sizes[m] = <<l>> \o rest
    <3>1. \A n \in 0 .. w : n # 0 => sizes[n] = <<LargestPow2(n)>> \o sizes[n - LargestPow2(n)]
      BY <1>5
    <3>2. m \in 0 .. w /\ m # 0
      OBVIOUS
    <3> QED BY <2>2, <2>3, <3>1, <3>2
  <2>5. rest \in V /\ SumFunction(rest) = m - l
    <3>1. m - l \in 0 .. k /\ m - l <= w
      BY <2>1, <2>2
    <3>2. Good(m - l)
      BY <1>8, <3>1
    <3> QED BY <2>3, <3>2
  <2>6. SumFunction(<<l>>) = l
    <3>1. <<l>> \in Seq(Int) /\ Len(<<l>>) = 1 /\ <<l>>[1] = l
      BY <2>2
    <3>2. SumFunction(<<l>>) = Sum(<<l>>, {} \cup {1})
      <4>1. 1 .. 1 = {} \cup {1}
        OBVIOUS
      <4> QED BY <3>1, <4>1, SumOfList
    <3>3. Sum(<<l>>, {} \cup {1}) = <<l>>[1] + Sum(<<l>>, {})
      <4>1. IsFiniteSet({}) /\ 1 \notin {} /\ <<l>>[1] \in Int /\ \A y \in {} : <<l>>[y] \in Int
        BY <2>2, <3>1, FS_EmptySet
      <4> QED BY <4>1, SumAdd
    <3> QED BY <2>2, <3>1, <3>2, <3>3, SumEmpty
  <2>7. <<l>> \in Seq(Int) /\ rest \in Seq(Int)
    <3>1. WarpCounts \subseteq Int
      BY DEF WarpCounts
    <3>2. ASSUME NEW s \in Seq(WarpCounts) PROVE s \in Seq(Int)
      BY <3>1, SeqMonotonic
    <3>3. <<l>> \in Seq(Int)
      BY <2>2
    <3> QED BY <2>5, <3>2, <3>3
  <2>8. SumFunction(sizes[m]) = SumFunction(<<l>>) + SumFunction(rest)
    BY <2>4, <2>7, SumOfConcat
  <2>9. sizes[m] \in V
    <3>1. <<l>> \in Seq(WarpCounts) /\ rest \in Seq(WarpCounts)
      BY <2>2, <2>5
    <3> QED BY <2>4, <3>1
  <2>10. l + (m - l) = m
    BY <2>1, <2>2
  <2> QED BY <2>1, <2>5, <2>6, <2>8, <2>9, <2>10
<1> HIDE DEF K
<1>9. w \in K
  <2>1. 0 \in K
    BY <1>7 DEF K
  <2> QED BY <1>8, <2>1, InductionOnSet
<1> QED BY <1>6, <1>9 DEF K

-----------------------------------------------------------------------------
(* Where teams lie.                                                        *)

(* llvm::sort leaves all partitions, the largest first.                    *)
LEMMA SortedIsOrder ==
  ASSUME NEW nums \in Seq(WarpCounts), NEW idx \in SortedIdx(nums)
  PROVE  /\ idx \in [1 .. Len(nums) -> 1 .. Len(nums)]
         /\ \A i, j \in 1 .. Len(nums) : i # j => idx[i] # idx[j]
         /\ \A p \in 1 .. Len(nums) : \E i \in 1 .. Len(nums) : idx[i] = p
         /\ \A j \in 1 .. Len(nums) : \A i \in 1 .. j : nums[idx[i]] >= nums[idx[j]]
         /\ \A k \in 1 .. Len(nums) : Before(idx, idx[k]) = {idx[i] : i \in 1 .. k - 1}
<1> DEFINE n == Len(nums)
           D == 1 .. n
<1>1. n \in Nat /\ DOMAIN nums = D /\ \A p \in D : nums[p] \in Nat
  BY DEF WarpCounts
<1>2. IsFiniteSet(D) /\ Cardinality(D) = n
  BY <1>1, FS_Interval
<1>3. idx \in [D -> D] /\ \A i, j \in D : i # j => idx[i] # idx[j]
  BY <1>1, <1>2 DEF SortedIdx, SetToSeqs
<1>4. \A p \in D : \E i \in D : idx[i] = p
  <2>1. IsInjective(idx)
    BY <1>3 DEF IsInjective
  <2>2. idx \in Injection(D, D)
    BY <1>3, <2>1 DEF Injection
  <2>3. idx \in Surjection(D, D)
    BY <1>2, <2>2, FS_Injection
  <2> QED BY <2>3 DEF Surjection
<1>5. idx \in Seq(D) /\ Len(idx) = n /\ DOMAIN idx = D
  BY <1>1, <1>3
<1>6. \A i \in 2 .. n : nums[idx[i - 1]] >= nums[idx[i]]
  BY <1>5 DEF SortedIdx
<1>7. \A j \in D : \A i \in 1 .. j : nums[idx[i]] >= nums[idx[j]]
  <2> DEFINE K == {k \in Nat : k <= n => \A i \in 1 .. k : nums[idx[i]] >= nums[idx[k]]}
  <2>1. 0 \in K
    OBVIOUS
  <2>2. ASSUME NEW k \in Nat, k \in K PROVE k + 1 \in K
    <3> SUFFICES ASSUME k + 1 <= n, NEW i \in 1 .. k + 1 PROVE nums[idx[i]] >= nums[idx[k + 1]]
      OBVIOUS
    <3>1. \A j \in D : nums[idx[j]] \in Nat
      BY <1>1, <1>3
    <3>2. CASE i = k + 1
      BY <1>1, <3>1, <3>2
    <3>3. CASE i # k + 1
      <4>1. k + 1 \in 2 .. n /\ i \in 1 .. k /\ k \in D /\ i \in D /\ k + 1 \in D /\ (k + 1) - 1 = k
        BY <1>1, <3>3
      <4>2. nums[idx[k]] >= nums[idx[k + 1]] /\ nums[idx[i]] >= nums[idx[k]]
        BY <1>6, <2>2, <4>1
      <4> QED BY <3>1, <4>1, <4>2
    <3> QED BY <3>2, <3>3
  <2> HIDE DEF K
  <2>3. Nat \subseteq K
    BY <2>1, <2>2, InductionOnSet
  <2> QED BY <1>1, <2>3 DEF K
<1>8. ASSUME NEW k \in D PROVE Before(idx, idx[k]) = {idx[i] : i \in 1 .. k - 1}
  <2>1. ASSUME NEW i \in D PROVE (\E j \in i + 1 .. n : idx[j] = idx[k]) <=> i \in 1 .. k - 1
    <3>1. ASSUME NEW j \in i + 1 .. n, idx[j] = idx[k] PROVE i \in 1 .. k - 1
      <4>1. j \in D
        BY <1>1
      <4>2. j = k
        BY <1>3, <3>1, <4>1
      <4> QED BY <1>1, <4>2
    <3>2. ASSUME i \in 1 .. k - 1 PROVE k \in i + 1 .. n
      BY <1>1, <3>2
    <3> QED BY <3>1, <3>2
  <2>2. {i \in D : \E j \in i + 1 .. n : idx[j] = idx[k]} = 1 .. k - 1
    <3>1. \A i \in 1 .. k - 1 : i \in D
      BY <1>1
    <3> QED BY <2>1, <3>1
  <2> QED BY <1>5, <2>2 DEF Before
<1> QED BY <1>3, <1>4, <1>7, <1>8

(* Teams fill the worker warps one after another, and those that need it   *)
(* start where a warpgroup or a pair does.                                 *)
Packed(base, nums, starts) ==
    LET end == base + SumFunction(nums) IN
    /\ SumFunction(nums) \in Nat
    /\ starts \in [DOMAIN nums -> Nat]
    /\ \A p \in DOMAIN nums : base <= starts[p] /\ starts[p] + nums[p] <= end
    /\ \A p, q \in DOMAIN nums : p # q => \/ starts[p] + nums[p] <= starts[q]
                                          \/ starts[q] + nums[q] <= starts[p]
    /\ \A w \in base .. end - 1 : \E p \in DOMAIN nums : starts[p] <= w /\ w < starts[p] + nums[p]
    /\ \A p \in DOMAIN nums : /\ nums[p] % 4 = 0 => (starts[p] - base) % 4 = 0
                              /\ nums[p] = 2 => (starts[p] - base) % 2 = 0

LEMMA StartIdsPack ==
  ASSUME NEW base \in Nat \ {0}, NEW nums \in Seq(WarpCounts), NEW idx \in SortedIdx(nums)
  PROVE  Packed(base, nums, StartIds(base, nums, idx))
<1> DEFINE n == Len(nums)
           D == 1 .. n
           B(k) == {idx[i] : i \in 1 .. k - 1}
           s == [k \in 1 .. n + 1 |-> base + Sum(nums, B(k))]
           starts == StartIds(base, nums, idx)
           end == base + SumFunction(nums)
<1>1. /\ n \in Nat /\ DOMAIN nums = D /\ IsFiniteSet(D)
      /\ \A p \in D : nums[p] \in Nat \ {0} /\ nums[p] \in WarpCounts
  <2>1. n \in Nat /\ DOMAIN nums = D /\ \A p \in D : nums[p] \in WarpCounts
    OBVIOUS
  <2>2. IsFiniteSet(D)
    BY <2>1, FS_Interval
  <2> QED BY <2>1, <2>2 DEF WarpCounts
<1>2. /\ idx \in [D -> D]
      /\ \A i, j \in D : i # j => idx[i] # idx[j]
      /\ \A p \in D : \E i \in D : idx[i] = p
      /\ \A j \in D : \A i \in 1 .. j : nums[idx[i]] >= nums[idx[j]]
      /\ \A k \in D : Before(idx, idx[k]) = B(k)
  BY SortedIsOrder
<1>3. ASSUME NEW k \in 1 .. n + 1
      PROVE  B(k) \subseteq D /\ IsFiniteSet(B(k)) /\ Sum(nums, B(k)) \in Nat /\ s[k] \in Nat
             /\ s[k] = base + Sum(nums, B(k))
  <2>1. B(k) \subseteq D
    <3>1. \A i \in 1 .. k - 1 : i \in D
      BY <1>1
    <3>2. \A i \in D : idx[i] \in D
      BY <1>2
    <3> HIDE DEF D
    <3> QED BY <3>1, <3>2
  <2>2. IsFiniteSet(B(k)) /\ \A x \in B(k) : nums[x] \in Nat
    BY <1>1, <2>1, FS_Subset
  <2>3. Sum(nums, B(k)) \in Nat
    <3> HIDE DEF B
    <3> QED BY <2>2, SumOfNaturals
  <2> QED BY <2>1, <2>2, <2>3
<1>4. ASSUME NEW k \in D PROVE s[k + 1] = s[k] + nums[idx[k]]
  <2>1. k \in 1 .. n + 1 /\ k + 1 \in 1 .. n + 1
    BY <1>1
  <2>2. B(k + 1) = B(k) \cup {idx[k]}
    <3>1. 1 .. (k + 1) - 1 = (1 .. k - 1) \cup {k}
      BY <1>1
    <3> QED BY <3>1
  <2>3. idx[k] \notin B(k)
    BY <1>1, <1>2
  <2>4. nums[idx[k]] \in Int /\ IsFiniteSet(B(k)) /\ \A y \in B(k) : nums[y] \in Int
    <3>1. IsFiniteSet(B(k)) /\ B(k) \subseteq D
      BY <1>3, <2>1
    <3>2. \A y \in D : nums[y] \in Int
      BY <1>1
    <3>3. idx[k] \in D
      BY <1>2
    <3> HIDE DEF B, D
    <3> QED BY <3>1, <3>2, <3>3
  <2>5. Sum(nums, B(k) \cup {idx[k]}) = nums[idx[k]] + Sum(nums, B(k))
    <3> HIDE DEF B
    <3> QED BY <2>3, <2>4, SumAdd
  <2>6. /\ s[k] = base + Sum(nums, B(k)) /\ s[k + 1] = base + Sum(nums, B(k + 1))
        /\ Sum(nums, B(k)) \in Nat
    BY <1>3, <2>1
  <2>7. s[k + 1] = base + Sum(nums, B(k) \cup {idx[k]})
    <3> HIDE DEF s, B
    <3> QED BY <2>2, <2>6
  <2> HIDE DEF s, B
  <2> QED BY <2>4, <2>5, <2>6, <2>7
<1>5. s[1] = base /\ s[n + 1] = end /\ SumFunction(nums) \in Nat
  <2>1. B(1) = {} /\ B(n + 1) = D
    <3>1. 1 .. 1 - 1 = {} /\ (n + 1) - 1 = n
      BY <1>1
    <3>2. {idx[i] : i \in D} = D
      <4>1. \A i \in D : idx[i] \in D
        BY <1>2
      <4>2. \A q \in D : \E i \in D : idx[i] = q
        BY <1>2
      <4> HIDE DEF D
      <4> QED BY <4>1, <4>2
    <3> QED BY <3>1, <3>2
  <2>2. Sum(nums, {}) = 0
    BY SumEmpty
  <2>3. SumFunction(nums) = Sum(nums, D)
    BY <1>1 DEF SumFunction, Sum
  <2>4. 1 \in 1 .. n + 1 /\ n + 1 \in 1 .. n + 1
    BY <1>1
  <2>5. /\ s[1] = base + Sum(nums, B(1)) /\ s[n + 1] = base + Sum(nums, B(n + 1))
        /\ Sum(nums, B(n + 1)) \in Nat
    BY <1>3, <2>4
  <2>6. s[1] = base + 0 /\ s[n + 1] = base + SumFunction(nums) /\ SumFunction(nums) \in Nat
    <3> HIDE DEF B, s, D, end
    <3> QED BY <2>1, <2>2, <2>3, <2>5
  <2> QED BY <2>6
<1>6. ASSUME NEW k \in 1 .. n + 1, NEW l \in 1 .. n + 1, k <= l PROVE s[k] <= s[l]
  <2>1. B(k) \in SUBSET B(l)
    BY <1>1, <1>6
  <2>2. IsFiniteSet(B(l)) /\ \A x \in B(l) : nums[x] \in Nat
    BY <1>1, <1>3
  <2>3. Sum(nums, B(k)) <= Sum(nums, B(l))
    <3> HIDE DEF B
    <3> QED BY <2>1, <2>2, SumOfNaturals
  <2>4. /\ s[k] = base + Sum(nums, B(k)) /\ s[l] = base + Sum(nums, B(l))
        /\ Sum(nums, B(k)) \in Nat /\ Sum(nums, B(l)) \in Nat
    BY <1>3
  <2> HIDE DEF s, B
  <2> QED BY <2>3, <2>4
<1>7. ASSUME NEW k \in D PROVE starts[idx[k]] = s[k]
  <2>1. idx[k] \in DOMAIN nums
    <3> HIDE DEF D, s
    <3> QED BY <1>1, <1>2
  <2>2. idx[k] \in DOMAIN nums /\ k \in 1 .. n + 1
    BY <1>1, <2>1
  <2>3. starts[idx[k]] = base + Sum(nums, Before(idx, idx[k]))
    BY <2>2 DEF StartIds, Sum
  <2>4. s[k] = base + Sum(nums, B(k))
    BY <1>3, <2>2
  <2>5. Before(idx, idx[k]) = B(k)
    BY <1>2
  <2> HIDE DEF B, s, starts
  <2> QED BY <2>3, <2>4, <2>5
<1>8. DOMAIN starts = D
  BY <1>1 DEF StartIds
<1>9. \A k \in 1 .. n + 1 : s[k] \in Nat
  BY <1>3
<1> HIDE DEF s, starts, end
<1>10. starts \in [D -> Nat]
  <2>1. \A p \in D : starts[p] \in Nat
    <3> TAKE p \in D
    <3>1. PICK k \in D : idx[k] = p
      BY <1>2
    <3>2. k \in 1 .. n + 1
      BY <1>1
    <3> QED BY <1>7, <1>9, <3>1, <3>2
  <2> QED BY <1>8, <2>1 DEF StartIds, starts
<1>11. ASSUME NEW p \in D PROVE base <= starts[p] /\ starts[p] + nums[p] <= end
  <2>1. PICK k \in D : idx[k] = p
    BY <1>2
  <2>2. k \in 1 .. n + 1 /\ k + 1 \in 1 .. n + 1 /\ 1 \in 1 .. n + 1 /\ n + 1 \in 1 .. n + 1
        /\ 1 <= k /\ k + 1 <= n + 1
    BY <1>1
  <2>3. s[1] <= s[k] /\ s[k + 1] <= s[n + 1]
    BY <1>6, <2>2
  <2> QED BY <1>4, <1>5, <1>7, <2>1, <2>3
<1>12. ASSUME NEW p \in D, NEW q \in D, p # q
       PROVE  starts[p] + nums[p] <= starts[q] \/ starts[q] + nums[q] <= starts[p]
  <2>1. PICK k \in D : idx[k] = p
    BY <1>2
  <2>2. PICK l \in D : idx[l] = q
    BY <1>2
  <2>3. ASSUME NEW i \in D, NEW j \in D, i < j PROVE s[i] + nums[idx[i]] <= s[j]
    <3>1. i + 1 \in 1 .. n + 1 /\ j \in 1 .. n + 1 /\ i + 1 <= j
      BY <1>1, <2>3
    <3> QED BY <1>4, <1>6, <3>1
  <2>4. k < l \/ l < k
    BY <1>1, <1>12, <2>1, <2>2
  <2>5. starts[p] = s[k] /\ starts[q] = s[l]
    BY <1>7, <2>1, <2>2
  <2> QED BY <2>1, <2>2, <2>3, <2>4, <2>5
<1>13. ASSUME NEW w \in base .. end - 1
       PROVE  \E p \in D : starts[p] <= w /\ w < starts[p] + nums[p]
  <2> DEFINE T == {k \in D : s[k] <= w}
  <2>1. end \in Nat /\ w \in Nat /\ base <= w /\ w < end
    BY <1>5 DEF end
  <2>2. n # 0
    BY <1>5, <2>1
  <2>3. 1 \in T
    BY <1>1, <1>5, <2>1, <2>2
  <2>4. PICK k \in T : \A m \in T : m <= k
    <3>1. T \in SUBSET Nat /\ n \in Nat /\ \A m \in T : m <= n
      BY <1>1
    <3> HIDE DEF T
    <3> QED BY <2>3, <3>1, GreatestNatural
  <2>5. w < s[k + 1]
    <3>1. CASE k = n
      BY <1>5, <2>1, <3>1
    <3>2. CASE k # n
      <4>1. k \in D /\ k \in Nat /\ n \in Nat
        BY <1>1
      <4>2. k + 1 \in D
        <5> HIDE DEF T, n
        <5> QED BY <3>2, <4>1
      <4>3. k + 1 \notin T
        <5> HIDE DEF T
        <5> QED BY <2>4, <4>1
      <4>4. k + 1 \in D /\ k + 1 \notin T
        BY <4>2, <4>3
      <4>5. s[k + 1] \in Nat
        BY <1>1, <1>9, <4>4
      <4> QED BY <2>1, <4>4, <4>5
    <3> QED BY <3>1, <3>2
  <2>6. k \in D /\ idx[k] \in D /\ s[k] <= w
    BY <1>2
  <2> QED BY <1>4, <1>7, <2>5, <2>6
<1>14. ASSUME NEW p \in D, NEW d \in {2, 4}, IF d = 4 THEN nums[p] % 4 = 0 ELSE nums[p] = 2
       PROVE  (starts[p] - base) % d = 0
  <2>1. PICK k \in D : idx[k] = p
    BY <1>2
  <2>2. k \in 1 .. n + 1
    BY <1>1
  <2>3. ASSUME NEW x \in B(k) PROVE nums[x] \in Nat /\ nums[x] % d = 0
    <3>1. PICK i \in 1 .. k - 1 : x = idx[i]
      OBVIOUS
    <3>2. i \in 1 .. k /\ i \in D
      BY <1>1
    <3>3. x \in D /\ nums[x] >= nums[p]
      BY <1>2, <2>1, <3>1, <3>2
    <3>4. nums[x] \in WarpCounts /\ nums[x] \in Nat /\ nums[p] \in Nat \ {0}
      BY <1>1, <3>3
    <3>5. CASE d = 4
      BY <1>14, <3>3, <3>4, <3>5 DEF WarpCounts
    <3>6. CASE d = 2
      <4>1. nums[x] >= 2
        BY <1>14, <3>3, <3>6
      <4>2. CASE nums[x] = 2
        BY <3>6, <4>2
      <4>3. CASE nums[x] # 2
        <5>1. nums[x] % 4 = 0
          BY <3>4, <4>1, <4>3 DEF WarpCounts
        <5> QED BY <3>4, <3>6, <5>1
      <4> QED BY <4>2, <4>3
    <3> QED BY <3>5, <3>6
  <2>4. IsFiniteSet(B(k)) /\ s[k] = base + Sum(nums, B(k)) /\ Sum(nums, B(k)) \in Nat
    BY <1>3, <2>2
  <2>5. Sum(nums, B(k)) % d = 0
    <3> HIDE DEF B
    <3> QED BY <2>3, <2>4, SumOfMultiples
  <2>6. starts[p] - base = Sum(nums, B(k))
    <3> HIDE DEF B
    <3> QED BY <1>7, <2>1, <2>4
  <2> QED BY <2>5, <2>6
<1> HIDE DEF D
<1>15. \A p \in D : /\ nums[p] % 4 = 0 => (starts[p] - base) % 4 = 0
                    /\ nums[p] = 2 => (starts[p] - base) % 2 = 0
  BY <1>14
<1> QED BY <1>1, <1>5, <1>10, <1>11, <1>12, <1>13, <1>15 DEF Packed, end, starts

-----------------------------------------------------------------------------
(* Warpgroups.                                                             *)

LEMMA MaxIs ==
  ASSUME NEW S \in SUBSET Nat, S # {}, NEW b \in Nat, \A x \in S : x <= b
  PROVE  Max(S) \in S /\ \A x \in S : x <= Max(S)
<1>1. PICK m \in S : \A x \in S : x <= m
  BY GreatestNatural
<1>2. m \in S /\ \A x \in S : m >= x
  BY <1>1
<1>3. Max(S) \in S /\ \A x \in S : Max(S) >= x
  BY <1>2 DEF Max
<1> QED BY <1>3

OpenersOf(starts, p) == {starts[q] : q \in {r \in DOMAIN starts : starts[r] % 4 = 0 /\ starts[r] <= starts[p]}}

\* What the opener of p is: a start, a multiple of four, the last up to that of p.
LEMMA OpenerIs ==
  ASSUME NEW D, NEW starts \in [D -> Nat], NEW p \in D, NEW r \in D,
         starts[r] % 4 = 0, starts[r] <= starts[p]
  PROVE  /\ Opener(starts, p) \in OpenersOf(starts, p)
         /\ \A x \in OpenersOf(starts, p) : x <= Opener(starts, p)
<1>1. OpenersOf(starts, p) \in SUBSET Nat /\ \A x \in OpenersOf(starts, p) : x <= starts[p]
  BY DEF OpenersOf
<1>2. starts[r] \in OpenersOf(starts, p) /\ starts[p] \in Nat
  BY DEF OpenersOf
<1>3. Opener(starts, p) = Max(OpenersOf(starts, p))
  BY DEF Opener, OpenersOf
<1> HIDE DEF OpenersOf
<1> QED BY <1>1, <1>2, <1>3, MaxIs

\* A team that begins in the block of four warps from b has the opener b.
LEMMA OpenerOfBlock ==
  ASSUME NEW base \in Nat \ {0}, base % 4 = 0, NEW D, NEW nums, DOMAIN nums = D, NEW starts,
         Packed(base, nums, starts), NEW b \in Nat, b % 4 = 0,
         NEW r \in D, starts[r] = b,
         NEW p \in D, b <= starts[p], starts[p] <= b + 3
  PROVE  Opener(starts, p) = b
<1>1. starts \in [D -> Nat] /\ DOMAIN starts = D
  BY DEF Packed
<1>2. /\ Opener(starts, p) \in OpenersOf(starts, p)
      /\ \A x \in OpenersOf(starts, p) : x <= Opener(starts, p)
  BY <1>1, OpenerIs
<1>3. b \in OpenersOf(starts, p)
  BY <1>1 DEF OpenersOf
<1>4. PICK q \in D : /\ Opener(starts, p) = starts[q]
                               /\ starts[q] % 4 = 0 /\ starts[q] <= starts[p]
  BY <1>1, <1>2 DEF OpenersOf
<1>5. b <= starts[q] /\ starts[q] <= b + 3 /\ starts[q] \in Nat
  BY <1>1, <1>2, <1>3, <1>4
<1>6. starts[q] = b
  BY <1>4, <1>5
<1> QED BY <1>4, <1>6

\* A team of whole warpgroups that touches a block of four warps contains it.
LEMMA WholeWarpgroups ==
  ASSUME NEW base \in Nat, NEW s \in Nat, NEW n \in Nat, NEW b \in Nat, NEW x \in b .. b + 3,
         base % 4 = 0, (s - base) % 4 = 0, n % 4 = 0, b % 4 = 0, s <= x, x < s + n
  PROVE  s <= b /\ b + 3 < s + n
<1>1. PICK i \in Int : base = 4 * i
  OBVIOUS
<1>2. PICK j \in Int : s = 4 * j
  BY <1>1
<1>3. PICK k \in Int : n = 4 * k
  OBVIOUS
<1>4. PICK l \in Int : b = 4 * l
  OBVIOUS
<1> QED BY <1>2, <1>3, <1>4

\* A team of one or two warps that touches a block lies in it.
LEMMA SmallTeam ==
  ASSUME NEW base \in Nat, NEW s \in Nat, NEW n \in {1, 2}, NEW b \in Nat, NEW x \in b .. b + 3,
         base % 4 = 0, n = 2 => (s - base) % 2 = 0, b % 4 = 0, s <= x, x < s + n
  PROVE  b <= s
<1>1. CASE n = 1
  BY <1>1
<1>2. CASE n = 2
  <2>1. PICK i \in Int : base = 4 * i
    OBVIOUS
  <2>2. PICK j \in Int : s = 2 * j
    BY <1>2, <2>1
  <2>3. PICK l \in Int : b = 4 * l
    OBVIOUS
  <2> QED BY <1>2, <2>2, <2>3
<1> QED BY <1>1, <1>2

\* The teams of p and q have warps in the same warpgroup.
Neighbours(nums, starts, p, q) ==
    \E v \in starts[p] .. starts[p] + nums[p] - 1, w \in starts[q] .. starts[q] + nums[q] - 1 :
       v \div 4 = w \div 4

\* Such partitions are in one group.
LEMMA BlockIsGroup ==
  ASSUME NEW base \in Nat \ {0}, base % 4 = 0, NEW D, NEW nums, DOMAIN nums = D, NEW starts,
         Packed(base, nums, starts), NEW p \in D, NEW q \in D, \A r \in D : nums[r] \in WarpCounts,
         Neighbours(nums, starts, p, q)
  PROVE  GroupOf(starts, p) = GroupOf(starts, q)
<1> DEFINE Has(r, x) == starts[r] <= x /\ x < starts[r] + nums[r]
<1>1. PICK e \in Nat : e = base + SumFunction(nums)
  BY DEF Packed
<1>2. \A r \in D : starts[r] \in Nat /\ nums[r] \in Nat
  BY DEF Packed, WarpCounts
<1>3. \A r \in D : /\ base <= starts[r] /\ starts[r] + nums[r] <= e
                   /\ nums[r] % 4 = 0 => (starts[r] - base) % 4 = 0
                   /\ nums[r] = 2 => (starts[r] - base) % 2 = 0
  BY <1>1 DEF Packed
<1>4. PICK v \in starts[p] .. starts[p] + nums[p] - 1, w \in starts[q] .. starts[q] + nums[q] - 1 :
         v \div 4 = w \div 4
  BY DEF Neighbours
<1>5. /\ v \in Nat /\ starts[p] <= v /\ v < starts[p] + nums[p]
      /\ w \in Nat /\ starts[q] <= w /\ w < starts[q] + nums[q]
  BY <1>2
<1>6. PICK b \in Nat : b % 4 = 0 /\ v \in b .. b + 3 /\ w \in b .. b + 3
  <2>1. PICK k \in Nat : k = v \div 4
    BY <1>5
  <2>2. v \in 4 * k .. 4 * k + 3 /\ w \in 4 * k .. 4 * k + 3 /\ 4 * k \in Nat /\ (4 * k) % 4 = 0
    BY <1>4, <1>5, <2>1
  <2> QED BY <2>2
<1>7. ASSUME NEW r \in D, NEW x \in b .. b + 3, Has(r, x), nums[r] % 4 = 0
      PROVE  starts[r] <= b /\ b + 3 < starts[r] + nums[r]
  <2>1. PICK s \in Nat : s = starts[r]
    BY <1>2
  <2>2. PICK n \in Nat : n = nums[r]
    BY <1>2
  <2>3. n % 4 = 0 /\ (s - base) % 4 = 0 /\ s <= x /\ x < s + n
    BY <1>7, <1>3, <2>1, <2>2
  <2>4. s <= b /\ b + 3 < s + n
    BY <1>6, <2>3, WholeWarpgroups
  <2> QED BY <2>1, <2>2, <2>4
<1>8. ASSUME NEW r \in D, NEW x \in b .. b + 3, Has(r, x), nums[r] % 4 # 0
      PROVE  b <= starts[r]
  <2>1. PICK s \in Nat : s = starts[r]
    BY <1>2
  <2>2. PICK n \in {1, 2} : n = nums[r]
    BY <1>8 DEF WarpCounts
  <2>3. (n = 2 => (s - base) % 2 = 0) /\ s <= x /\ x < s + n
    BY <1>8, <1>3, <2>1, <2>2
  <2>4. b <= s
    BY <1>6, <2>3, SmallTeam
  <2> QED BY <2>1, <2>4
<1>9. ASSUME NEW r \in D, NEW t \in D, NEW x \in Nat, Has(r, x), Has(t, x)
      PROVE  r = t
  <2> SUFFICES ASSUME r # t PROVE FALSE
    OBVIOUS
  <2>1. starts[r] + nums[r] <= starts[t] \/ starts[t] + nums[t] <= starts[r]
    BY DEF Packed
  <2>2. starts[r] \in Nat /\ nums[r] \in Nat /\ starts[t] \in Nat /\ nums[t] \in Nat
    BY <1>2
  <2> QED BY <1>9, <2>1, <2>2
<1>10. CASE p = q
  BY <1>10
<1>11. CASE p # q
  <2>1. starts[p] \in Nat /\ nums[p] \in Nat /\ starts[q] \in Nat /\ nums[q] \in Nat
    BY <1>2
  <2>2. nums[p] % 4 # 0
    <3> SUFFICES ASSUME nums[p] % 4 = 0 PROVE FALSE
      OBVIOUS
    <3>1. starts[p] <= b /\ b + 3 < starts[p] + nums[p]
      BY <1>5, <1>6, <1>7
    <3>2. Has(p, w)
      BY <1>5, <1>6, <2>1, <3>1
    <3> QED BY <1>5, <1>9, <1>11, <3>2
  <2>3. nums[q] % 4 # 0
    <3> SUFFICES ASSUME nums[q] % 4 = 0 PROVE FALSE
      OBVIOUS
    <3>1. starts[q] <= b /\ b + 3 < starts[q] + nums[q]
      BY <1>5, <1>6, <1>7
    <3>2. Has(q, v)
      BY <1>5, <1>6, <2>1, <3>1
    <3> QED BY <1>5, <1>9, <1>11, <3>2
  <2>4. b <= starts[p] /\ b <= starts[q]
    BY <1>5, <1>6, <1>8, <2>2, <2>3
  <2>5. PICK r \in D : Has(r, b)
    <3>1. base <= starts[p] /\ starts[p] + nums[p] <= e
      BY <1>3
    <3>2. base % 4 = 0 /\ base <= v /\ v < e
      BY <1>5, <2>1, <3>1
    <3>3. base <= b /\ b < e
      BY <1>6, <3>2
    <3>4. \A x \in base .. e - 1 : \E r \in D : Has(r, x)
      BY <1>1 DEF Packed
    <3>5. b \in base .. e - 1
      BY <3>3
    <3> QED BY <3>4, <3>5
  <2>6. starts[r] = b
    <3>1. starts[r] \in Nat /\ nums[r] \in Nat
      BY <1>2
    <3>2. b \in b .. b + 3
      BY <1>6
    <3>3. CASE nums[r] % 4 = 0
      <4>1. starts[r] <= b /\ b + 3 < starts[r] + nums[r]
        BY <1>7, <2>5, <3>2, <3>3
      <4>2. Has(r, v)
        BY <1>5, <1>6, <3>1, <4>1
      <4>3. r = p
        BY <1>5, <1>9, <4>2
      <4> QED BY <2>2, <3>3, <4>3
    <3>4. CASE nums[r] % 4 # 0
      <4>1. b <= starts[r]
        BY <1>8, <2>5, <3>2, <3>4
      <4> QED BY <1>6, <2>5, <3>1, <4>1
    <3> QED BY <3>3, <3>4
  <2>7. starts[p] <= b + 3 /\ starts[q] <= b + 3
    BY <1>5, <1>6, <2>1
  <2>8. Opener(starts, p) = b
    BY <1>6, <2>4, <2>6, <2>7, OpenerOfBlock
  <2>9. Opener(starts, q) = b
    BY <1>6, <2>4, <2>6, <2>7, OpenerOfBlock
  <2> QED BY <2>8, <2>9 DEF GroupOf
<1> QED BY <1>10, <1>11

-----------------------------------------------------------------------------
(* Registers.                                                              *)

LEMMA RequestIs ==
  ASSUME NEW req \in Seq(Nat), NEW wg \in SUBSET DOMAIN req, wg # {}
  PROVE  maxRequestedRegs(req, wg) \in Nat
<1> DEFINE f == [i \in 1 .. Len(req) |-> 8 * CeilDiv(req[i], 8)]
           S == {8 * CeilDiv(req[p], 8) : p \in wg}
<1>1. \A i \in 1 .. Len(req) : 8 * CeilDiv(req[i], 8) \in Nat
  BY DEF CeilDiv
<1>2. Len(req) \in Nat /\ DOMAIN req = 1 .. Len(req)
  OBVIOUS
<1>3. f \in [1 .. Len(req) -> Nat]
  BY <1>1
<1>4. PICK b \in Nat : \A i \in 1 .. Len(req) : f[i] <= b
  BY <1>2, <1>3, BoundOfImage
<1>5. S \in SUBSET Nat /\ S # {} /\ \A x \in S : x <= b
  BY <1>1, <1>2, <1>4
<1>6. Max(S) \in S
  <2> HIDE DEF S
  <2> QED BY <1>5, MaxIs
<1>7. maxRequestedRegs(req, wg) = Max(S)
  BY DEF maxRequestedRegs
<1> HIDE DEF S
<1> QED BY <1>5, <1>6, <1>7

\* Every group leaves what its largest request, which is that of its members, leaves.
IsSpare(spare, G, nums, most, regs) ==
    \A wg \in G : \E m \in Nat : /\ \A p \in wg : most[p] = m
                                 /\ spare[wg] = (regs - m) * Sum(nums, wg) * 32
IsProduct(taken, nums, most, D) ==
    \A p \in D : nums[p] \in Nat /\ most[p] \in Nat /\ taken[p] = nums[p] * most[p]
IsPartition(G, D) ==
    /\ IsFiniteSet(G) /\ UNION G = D /\ \A wg \in G : IsFiniteSet(wg)
    /\ \A s, t \in G : s # t => s \cap t = {}

\* What the groups leave of their share is what all the partitions leave of theirs.
LEMMA SpareOfGroups ==
  ASSUME NEW D, IsFiniteSet(D), NEW nums, NEW most, NEW taken,
         NEW regs \in Nat, NEW G, NEW spare,
         IsProduct(taken, nums, most, D), IsPartition(G, D), IsSpare(spare, G, nums, most, regs)
  PROVE  /\ Sum(nums, D) \in Nat /\ Sum(taken, D) \in Nat
         /\ Sum(spare, G) = 32 * (regs * Sum(nums, D) - Sum(taken, D))
<1>1. PICK f : f = [p \in D |-> (regs - most[p]) * nums[p] * 32]
  OBVIOUS
<1>2. \A p \in D : nums[p] \in Nat /\ most[p] \in Nat /\ taken[p] = nums[p] * most[p]
  BY DEF IsProduct
<1>3. \A p \in D : f[p] \in Int /\ taken[p] \in Nat /\ nums[p] \in Nat
  BY <1>2, <1>1
<1>4. ASSUME NEW wg \in G PROVE spare[wg] = Sum(f, wg)
  <2>1. PICK m \in Nat : /\ \A p \in wg : most[p] = m
                         /\ spare[wg] = (regs - m) * Sum(nums, wg) * 32
    BY DEF IsSpare
  <2>2. PICK c \in Int : c = (regs - m) * 32
    OBVIOUS
  <2>3. \A p \in wg : p \in D
    BY DEF IsPartition
  <2>4. \A p \in wg : nums[p] \in Int /\ f[p] = c * nums[p]
    <3> TAKE p \in wg
    <3>1. nums[p] \in Nat /\ f[p] = (regs - m) * nums[p] * 32
      BY <1>2, <1>1, <2>1, <2>3
    <3> QED BY <2>2, <3>1
  <2>5. \A p \in wg : nums[p] \in Int /\ nums[p] \in Int /\ f[p] = c * nums[p] + 0 * nums[p]
    BY <2>4
  <2>6. IsFiniteSet(wg) /\ 0 \in Int
    BY DEF IsPartition
  <2>7. Sum(f, wg) = c * Sum(nums, wg) + 0 * Sum(nums, wg)
    BY <2>5, <2>6, SumLinear
  <2>8. Sum(nums, wg) \in Int
    BY <2>4, <2>6, SumByOne
  <2> QED BY <2>1, <2>2, <2>7, <2>8
<1>5. Sum(spare, G) = Sum(f, D)
  BY <1>3, <1>4, SumOfGroups DEF IsPartition
<1>6. PICK c \in Int : c = 32 * regs
  OBVIOUS
<1>7. PICK d \in Int : d = 0 - 32
  OBVIOUS
<1>8. \A p \in D : nums[p] \in Int /\ taken[p] \in Int /\ f[p] = c * nums[p] + d * taken[p]
  <2> TAKE p \in D
  <2>1. PICK m \in Nat : m = most[p]
    BY <1>2
  <2>2. PICK n \in Nat : n = nums[p]
    BY <1>2
  <2>3. f[p] = (regs - m) * n * 32 /\ taken[p] = n * m
    BY <1>2, <1>1, <2>1, <2>2
  <2>4. (regs - m) * n * 32 = (32 * regs) * n + (0 - 32) * (n * m)
    OBVIOUS
  <2> QED BY <1>6, <1>7, <2>2, <2>3, <2>4
<1>9. Sum(f, D) = c * Sum(nums, D) + d * Sum(taken, D)
  BY <1>8, SumLinear
<1>10. Sum(nums, D) \in Nat /\ Sum(taken, D) \in Nat
  BY <1>3, SumOfNaturals
<1> QED BY <1>5, <1>6, <1>7, <1>9, <1>10

\* The registers that the partitions take, for one thread of each warp.
IsTaken(taken, nums, req, starts) ==
    taken = [p \in DOMAIN nums |-> nums[p] * maxRequestedRegs(req, GroupOf(starts, p))]

\* The budget is what the launch gives to all warps less what the partitions take.
LEMMA BudgetIs ==
  ASSUME NEW base \in Nat \ {0}, NEW regs \in Nat, NEW nums \in Seq(Nat),
         NEW req \in Seq(Nat), Len(req) = Len(nums), NEW starts, DOMAIN starts = DOMAIN nums,
         NEW taken, IsTaken(taken, nums, req, starts)
  PROVE  /\ SumFunction(nums) \in Nat /\ SumFunction(taken) \in Nat
         /\ registerBudget(base, regs, nums, req, starts)
              = 32 * (regs * (base + SumFunction(nums)) - SumFunction(taken))
<1>1. PICK D : D = DOMAIN nums
  OBVIOUS
<1> DEFINE G == {GroupOf(starts, p) : p \in D}
           most == [p \in D |-> maxRequestedRegs(req, GroupOf(starts, p))]
           spare == [wg \in G |-> (regs - maxRequestedRegs(req, wg)) * SumFunctionOnSet(nums, wg) * 32]
<1>2. DOMAIN req = D /\ DOMAIN starts = D /\ DOMAIN taken = D /\ IsFiniteSet(D) /\ \A p \in D : nums[p] \in Nat
  <2>1. Len(nums) \in Nat /\ D = 1 .. Len(nums)
    BY <1>1
  <2>2. DOMAIN req = D /\ DOMAIN starts = D /\ DOMAIN taken = D
    BY <1>1, <2>1 DEF IsTaken
  <2>3. IsFiniteSet(D)
    BY <2>1, FS_Interval
  <2>4. \A p \in D : nums[p] \in Nat
    BY <1>1
  <2> QED BY <2>2, <2>3, <2>4
<1>3. \A p \in D : p \in GroupOf(starts, p) /\ GroupOf(starts, p) \in SUBSET D
  BY <1>2 DEF GroupOf
<1>4. \A p, q \in D : q \in GroupOf(starts, p) => GroupOf(starts, q) = GroupOf(starts, p)
  BY DEF GroupOf
<1>5. \A p \in D : most[p] \in Nat /\ taken[p] = nums[p] * most[p]
  BY <1>1, <1>2, <1>3, RequestIs DEF IsTaken
<1>6. UNION G = D /\ (\A s, t \in G : s # t => s \cap t = {}) /\ IsFiniteSet(G) /\ \A s \in G : IsFiniteSet(s)
  <2>1. ASSUME NEW s \in G, NEW t \in G, s # t PROVE s \cap t = {}
    <3>1. PICK p \in D : s = GroupOf(starts, p)
      OBVIOUS
    <3>2. PICK q \in D : t = GroupOf(starts, q)
      OBVIOUS
    <3>3. \A x \in s \cap t : x \in D /\ GroupOf(starts, x) = s /\ GroupOf(starts, x) = t
      BY <1>3, <1>4, <3>1, <3>2
    <3> QED BY <2>1, <3>3
  <2>2. UNION G = D /\ G \in SUBSET SUBSET D
    BY <1>3
  <2>3. IsFiniteSet(SUBSET D)
    BY <1>2, FS_SUBSET
  <2> HIDE DEF G
  <2>4. IsFiniteSet(G)
    BY <2>2, <2>3, FS_Subset
  <2>5. \A s \in G : IsFiniteSet(s)
    BY <1>2, <2>2, FS_Subset
  <2> QED BY <2>1, <2>2, <2>4, <2>5
<1>7. \A wg \in G : \E m \in Nat : /\ \A p \in wg : most[p] = m
                                   /\ spare[wg] = (regs - m) * Sum(nums, wg) * 32
  <2> TAKE wg \in G
  <2>1. PICK q \in D : wg = GroupOf(starts, q)
    OBVIOUS
  <2>2. PICK m \in Nat : m = most[q]
    BY <1>5
  <2>3. m = maxRequestedRegs(req, wg)
    BY <2>1, <2>2
  <2>4. \A p \in wg : most[p] = m
    BY <1>3, <1>4, <2>1, <2>3
  <2>5. spare[wg] = (regs - m) * Sum(nums, wg) * 32
    BY <2>3 DEF Sum
  <2> QED BY <2>4, <2>5
<1>8. /\ SumFunction(nums) = Sum(nums, D) /\ SumFunction(taken) = Sum(taken, D)
      /\ SumFunction(spare) = Sum(spare, G)
  BY <1>1, <1>2 DEF SumFunction, Sum
<1>9. registerBudget(base, regs, nums, req, starts) = regs * base * 32 + SumFunction(spare)
  BY <1>2 DEF registerBudget
<1> HIDE DEF most, spare, G
<1>10. \A p \in D : nums[p] \in Nat /\ most[p] \in Nat /\ taken[p] = nums[p] * most[p]
  BY <1>2, <1>5
<1>11. /\ Sum(nums, D) \in Nat /\ Sum(taken, D) \in Nat
       /\ Sum(spare, G) = 32 * (regs * Sum(nums, D) - Sum(taken, D))
  <2>1. IsProduct(taken, nums, most, D)
    BY <1>10 DEF IsProduct
  <2>2. IsPartition(G, D)
    BY <1>6 DEF IsPartition
  <2>3. IsSpare(spare, G, nums, most, regs)
    BY <1>7 DEF IsSpare
  <2> QED BY <1>2, <2>1, <2>2, <2>3, SpareOfGroups
<1> QED BY <1>8, <1>9, <1>11

\* What the default warps are given fits the budget.
LEMMA LeftoverFits ==
  ASSUME NEW base \in Nat \ {0}, NEW budget \in Nat
  PROVE  leftover(base, budget) \in Nat /\ base * leftover(base, budget) * 32 <= budget
<1> DEFINE d == base * 32
           s == budget \div d
           l == 8 * (s \div 8)
<1>1. d \in Nat \ {0}
  OBVIOUS
<1>2. s \in Nat /\ d * s <= budget
  <2> HIDE DEF d
  <2> QED BY <1>1
<1>3. l \in Nat /\ l <= s
  <2> HIDE DEF s
  <2> QED BY <1>2
<1>4. leftover(base, budget) = l
  BY DEF leftover, RoundDown8
<1> HIDE DEF l, s
<1>5. d * l <= d * s
  <2> HIDE DEF d
  <2> QED BY <1>1, <1>2, <1>3
<1>6. base * l * 32 = d * l
  BY <1>3
<1>7. d * l \in Int /\ d * s \in Int
  BY <1>1, <1>2, <1>3
<1> HIDE DEF d
<1> QED BY <1>2, <1>3, <1>4, <1>5, <1>6, <1>7

\* What every partition asks for, within what the launch has.
Granted(base, regs, nums, req, starts, act) ==
    /\ req # <<>>
    /\ \A p \in DOMAIN nums : act[p + 1] = maxRequestedRegs(req, GroupOf(starts, p))
    /\ base * act[1] + SumFunction([p \in DOMAIN nums |-> nums[p] * act[p + 1]])
         <= regs * (base + SumFunction(nums))

\* What the pass gives: nothing, or that.
LEMMA ActIs ==
  ASSUME NEW base \in Nat \ {0}, NEW regs \in Nat, NEW nums \in Seq(Nat), NEW req \in Seq(Nat),
         NEW starts \in [DOMAIN nums -> Nat], req # <<>> => Len(req) = Len(nums),
         NEW act, act = ActualRegisters(base, regs, nums, req, starts)
  PROVE  act \in Seq(Nat) /\ (act # <<>> => Granted(base, regs, nums, req, starts, act))
<1>1. CASE act = <<>>
  BY <1>1
<1>2. CASE act # <<>>
  <2>1. PICK budget : budget = registerBudget(base, regs, nums, req, starts)
    OBVIOUS
  <2>2. PICK n \in Nat : n = Len(nums)
    OBVIOUS
  <2>3. PICK most : most = [p \in 1 .. n |-> maxRequestedRegs(req, GroupOf(starts, p))]
    OBVIOUS
  <2>4. DOMAIN nums = 1 .. n
    BY <2>2
  <2>5. /\ req # <<>> /\ ~ (budget <= 0) /\ ~ (leftover(base, budget) < 24)
        /\ act = <<leftover(base, budget)>> \o most
    BY <1>2, <2>1, <2>3, <2>4 DEF ActualRegisters
  <2>6. Len(req) = Len(nums) /\ DOMAIN req = 1 .. n
    BY <2>2, <2>5
  <2>7. \A p \in 1 .. n : most[p] \in Nat
    <3> TAKE p \in 1 .. n
    <3>1. GroupOf(starts, p) \in SUBSET (1 .. n) /\ p \in GroupOf(starts, p)
      BY <2>4 DEF GroupOf
    <3> QED BY <2>3, <2>6, <3>1, RequestIs
  <2>8. PICK taken : IsTaken(taken, nums, req, starts)
    BY DEF IsTaken
  <2>9. /\ SumFunction(nums) \in Nat /\ SumFunction(taken) \in Nat
        /\ budget = 32 * (regs * (base + SumFunction(nums)) - SumFunction(taken))
    <3>1. /\ SumFunction(nums) \in Nat /\ SumFunction(taken) \in Nat
          /\ registerBudget(base, regs, nums, req, starts)
               = 32 * (regs * (base + SumFunction(nums)) - SumFunction(taken))
      <4>1. DOMAIN starts = DOMAIN nums
        OBVIOUS
      <4> QED BY <2>6, <2>8, <4>1, BudgetIs
    <3> QED BY <2>1, <3>1
  <2>10. PICK total \in Nat : total = regs * (base + SumFunction(nums))
    BY <2>9
  <2>11. PICK spent \in Nat : spent = SumFunction(taken)
    BY <2>9
  <2>12. budget \in Nat /\ budget = 32 * (total - spent)
    <3>1. budget = 32 * (total - spent)
      BY <2>9, <2>10, <2>11
    <3> QED BY <2>5, <3>1
  <2>13. PICK left \in Nat : left = leftover(base, budget) /\ base * left * 32 <= budget
    BY <2>12, LeftoverFits
  <2>14. base * left + spent <= total
    <3>1. PICK own \in Nat : own = base * left
      OBVIOUS
    <3>2. own * 32 <= 32 * (total - spent)
      BY <2>12, <2>13, <3>1
    <3> QED BY <3>1, <3>2
  <2>15. most \in Seq(Nat) /\ Len(most) = n
    BY <2>3, <2>7
  <2>16. act = <<left>> \o most
    BY <2>5, <2>13
  <2>17. act \in Seq(Nat) /\ act[1] = left /\ \A p \in 1 .. n : act[p + 1] = most[p]
    BY <2>15, <2>16
  <2>18. taken = [p \in 1 .. n |-> nums[p] * act[p + 1]]
    <3>1. taken = [p \in 1 .. n |-> nums[p] * maxRequestedRegs(req, GroupOf(starts, p))]
      BY <2>4, <2>8 DEF IsTaken
    <3>2. \A p \in 1 .. n : act[p + 1] = maxRequestedRegs(req, GroupOf(starts, p))
      BY <2>3, <2>17
    <3> QED BY <3>1, <3>2
  <2>19. base * act[1] + SumFunction([p \in DOMAIN nums |-> nums[p] * act[p + 1]])
           <= regs * (base + SumFunction(nums))
    BY <2>4, <2>10, <2>11, <2>14, <2>17, <2>18
  <2> QED BY <2>3, <2>4, <2>5, <2>17, <2>19 DEF Granted
<1> QED BY <1>1, <1>2

\* Whole warpgroups for the largest of some totals.
LEMMA ExtraWarpGroups ==
  ASSUME NEW T \in SUBSET Nat, NEW b \in Nat, \A t \in T : t <= b,
         NEW w, w = 4 * numExtraWarpGroups(T)
  PROVE  /\ w \in Nat /\ w % 4 = 0 /\ \A t \in T : t <= w
         /\ \A t \in T : t % 4 = 0 /\ (\A u \in T : u <= t) => w = t
<1>1. PICK m : m = Max({0} \cup T)
  OBVIOUS
<1>2. m \in {0} \cup T /\ \A x \in {0} \cup T : x <= m
  <2>1. {0} \cup T \in SUBSET Nat /\ {0} \cup T # {} /\ \A x \in {0} \cup T : x <= b
    OBVIOUS
  <2> QED BY <1>1, <2>1, MaxIs
<1>3. m \in Nat /\ w = 4 * ((m + 4 - 1) \div 4)
  BY <1>1, <1>2 DEF numExtraWarpGroups, CeilDiv
<1>4. w \in Nat /\ w % 4 = 0 /\ m <= w /\ (m % 4 = 0 => w = m)
  BY <1>3
<1>5. \A t \in T : t <= w
  BY <1>2, <1>3, <1>4
<1>6. ASSUME NEW t \in T, t % 4 = 0, \A u \in T : u <= t PROVE w = t
  <2>1. m = t
    BY <1>2, <1>3, <1>6
  <2> QED BY <1>4, <1>6, <2>1
<1> QED BY <1>4, <1>5, <1>6

LEMMA LaunchRegistersAre ==
  ASSUME NEW user \in Nat, NEW n \in Nat \ {0}
  PROVE  maxnreg(user, n) \in Nat
<1>1. PICK a \in Nat : a = (64 * 1024) \div n
  OBVIOUS
<1>2. PICK c \in Nat : c = a \div 32
  OBVIOUS
<1>3. 8 * (c \div 8) \in Nat
  OBVIOUS
<1> QED BY <1>1, <1>2, <1>3 DEF maxnreg, RoundDown8

LEMMA SumOfTeams ==
  ASSUME NEW nums \in Seq(WarpCounts)
  PROVE  SumFunction(nums) \in Nat /\ nums \in Seq(Nat) /\ nums \in Seq(Int)
<1>1. WarpCounts \subseteq Nat /\ Nat \subseteq Int
  BY DEF WarpCounts
<1>2. nums \in Seq(Nat) /\ nums \in Seq(Int)
  BY <1>1, SeqMonotonic
<1>3. Len(nums) \in Nat /\ \A i \in 1 .. Len(nums) : nums[i] \in Nat
  BY <1>2
<1>4. IsFiniteSet(1 .. Len(nums))
  BY <1>3, FS_Interval
<1>5. Sum(nums, 1 .. Len(nums)) \in Nat
  BY <1>3, <1>4, SumOfNaturals
<1> QED BY <1>2, <1>5, SumOfList

-----------------------------------------------------------------------------
(* The inductive invariant.                                                *)

Op == [nums : Seq(WarpCounts), req : Seq(Nat), starts : Seq(Nat), act : Seq(Nat)]

\* The partitions of the program are the first ones, and only the optimizer changes them.
OpOK(i) ==
    /\ ops[i] \in Op
    /\ ops[i].req # <<>> => Len(ops[i].req) = Len(ops[i].nums) /\ kernel.base % 4 = 0
    /\ DOMAIN kernel.ops[i].nums \subseteq DOMAIN ops[i].nums
    /\ ~ kernel.auto => \A p \in DOMAIN kernel.ops[i].nums : ops[i].nums[p] = kernel.ops[i].nums[p]

\* What the optimizer works on has not been padded yet.
Unpadded(i) == ops[i].nums \in Seq({1, 2, 4, 8, 16}) /\ Len(ops[i].nums) = Len(kernel.ops[i].nums)

\* The walk that pads has been at op i.
Padded(i) == walk \in {"alloc", "done"} \/ (walk = "pad" /\ i < at)

\* What the last walk has decided for op i.
Allocated(i) ==
    /\ Packed(kernel.base, ops[i].nums, ops[i].starts)
    /\ ops[i].act = ActualRegisters(kernel.base, Regs, ops[i].nums, ops[i].req, ops[i].starts)

IInv ==
    /\ kernel \in Kernels /\ at \in Nat \ {0}
    /\ walk \in {"optimize", "pad", "alloc", "done"}
    /\ DOMAIN ops = DOMAIN kernel.ops
    /\ \A i \in DOMAIN ops :
          /\ OpOK(i)
          /\ walk = "optimize" => kernel.auto /\ Unpadded(i)
          /\ walk \in {"optimize", "pad"} => ops[i].starts = <<>> /\ ops[i].act = <<>>
          /\ Padded(i) => SumFunction(ops[i].nums) = NumWorker
          /\ ops[i].starts # <<>> => Allocated(i)
          /\ ops[i].act # <<>> => attr = Regs
    /\ TensorsFit

-----------------------------------------------------------------------------
(* What the kernels are, and the number of warps.                          *)

LEMMA KernelIs ==
  ASSUME kernel \in Kernels
  PROVE  /\ kernel.base \in Nat \ {0} /\ kernel.maxnreg \in Nat /\ kernel.auto \in BOOLEAN
         /\ \E n \in Nat : DOMAIN kernel.ops = 1 .. n
         /\ \A i \in DOMAIN kernel.ops :
               /\ kernel.ops[i].nums \in Seq({1, 2, 4, 8, 16}) /\ kernel.ops[i].req \in Seq(Nat)
               /\ kernel.ops[i].req # <<>> => /\ Len(kernel.ops[i].req) = Len(kernel.ops[i].nums)
                                              /\ kernel.base % 4 = 0
               /\ kernel.auto => /\ kernel.base % 4 = 0
                                 /\ kernel.ops[i].tensors \in Seq(Nat)
                                 /\ kernel.ops[i].least \in Seq({1, 2, 4})
                                 /\ Len(kernel.ops[i].tensors) = Len(kernel.ops[i].nums)
                                 /\ Len(kernel.ops[i].least) = Len(kernel.ops[i].nums)
<1> DEFINE R == [nums : Seq({1, 2, 4, 8, 16}), req : Seq(Nat), tensors : Seq(Nat), least : Seq({1, 2, 4})]
<1>1. kernel.base \in Nat \ {0} /\ kernel.maxnreg \in Nat /\ kernel.auto \in BOOLEAN
  BY KernelsAssumption
<1>2. kernel.ops \in Seq(R)
  BY KernelsAssumption
<1>3. PICK n \in Nat : DOMAIN kernel.ops = 1 .. n
  <2> HIDE DEF R
  <2>1. Len(kernel.ops) \in Nat /\ DOMAIN kernel.ops = 1 .. Len(kernel.ops)
    BY <1>2
  <2> QED BY <2>1
<1>4. ASSUME NEW i \in DOMAIN kernel.ops
      PROVE  /\ kernel.ops[i].nums \in Seq({1, 2, 4, 8, 16}) /\ kernel.ops[i].req \in Seq(Nat)
             /\ kernel.ops[i].tensors \in Seq(Nat) /\ kernel.ops[i].least \in Seq({1, 2, 4})
  <2>1. kernel.ops[i] \in R
    <3> HIDE DEF R
    <3> QED BY <1>2
  <2> QED BY <2>1
<1>5. ASSUME NEW i \in DOMAIN kernel.ops
      PROVE  /\ Len(kernel.ops[i].req) \in {0, Len(kernel.ops[i].nums)}
             /\ kernel.auto => /\ Len(kernel.ops[i].tensors) = Len(kernel.ops[i].nums)
                               /\ Len(kernel.ops[i].least) = Len(kernel.ops[i].nums)
             /\ kernel.auto \/ kernel.ops[i].req # <<>> => kernel.base % 4 = 0
  BY KernelsAssumption
<1>6. ASSUME NEW i \in DOMAIN kernel.ops, kernel.ops[i].req # <<>>
      PROVE  Len(kernel.ops[i].req) = Len(kernel.ops[i].nums)
  BY <1>4, <1>5, <1>6
<1> QED BY <1>1, <1>3, <1>4, <1>5, <1>6

LEMMA WorkersAre ==
  ASSUME NEW n \in Nat, NEW f, \A i \in 1 .. n : f[i] \in Nat,
         NEW w, w = 4 * numExtraWarpGroups({f[i] : i \in 1 .. n})
  PROVE  /\ w \in Nat /\ w % 4 = 0 /\ \A i \in 1 .. n : f[i] <= w
         /\ \A i \in 1 .. n : f[i] % 4 = 0 /\ (\A j \in 1 .. n : f[j] <= f[i]) => w = f[i]
<1> DEFINE T == {f[i] : i \in 1 .. n}
<1>1. T \in SUBSET Nat
  OBVIOUS
<1>2. PICK g \in [1 .. n -> Nat] : \A i \in 1 .. n : g[i] = f[i]
  <2>1. [i \in 1 .. n |-> f[i]] \in [1 .. n -> Nat]
    OBVIOUS
  <2> QED BY <2>1
<1>3. PICK b \in Nat : \A i \in 1 .. n : g[i] <= b
  BY BoundOfImage
<1>4. \A t \in T : t <= b
  BY <1>2, <1>3
<1>5. \A i \in 1 .. n : f[i] \in T
  OBVIOUS
<1>6. \A t \in T : \E i \in 1 .. n : t = f[i]
  OBVIOUS
<1> HIDE DEF T
<1>7. w = 4 * numExtraWarpGroups(T)
  BY DEF T
<1>8. /\ w \in Nat /\ w % 4 = 0 /\ \A t \in T : t <= w
      /\ \A t \in T : t % 4 = 0 /\ (\A u \in T : u <= t) => w = t
  BY <1>1, <1>4, <1>7, ExtraWarpGroups
<1>9. ASSUME NEW i \in 1 .. n, f[i] % 4 = 0, \A j \in 1 .. n : f[j] <= f[i] PROVE w = f[i]
  <2>1. f[i] \in T /\ \A u \in T : u <= f[i]
    BY <1>5, <1>6, <1>9
  <2> QED BY <1>8, <1>9, <2>1
<1> QED BY <1>5, <1>8, <1>9

\* In every state of the invariant.
LEMMA NumWorkerIs ==
  ASSUME IInv
  PROVE  /\ NumWorker \in Nat /\ NumWorker % 4 = 0 /\ NumWarps \in Nat \ {0} /\ Regs \in Nat
         /\ \A i \in DOMAIN ops : SumFunction(ops[i].nums) \in Nat /\ SumFunction(ops[i].nums) <= NumWorker
<1>1. PICK n \in Nat : DOMAIN ops = 1 .. n
  BY KernelIs DEF IInv
<1>2. PICK f : f = [i \in 1 .. n |-> SumFunction(ops[i].nums)]
  OBVIOUS
<1>3. \A i \in 1 .. n : f[i] = SumFunction(ops[i].nums) /\ f[i] \in Nat
  <2> TAKE i \in 1 .. n
  <2>1. ops[i].nums \in Seq(WarpCounts)
    BY <1>1 DEF IInv, OpOK, Op
  <2>2. SumFunction(ops[i].nums) \in Nat
    BY <2>1, SumOfTeams
  <2> QED BY <1>2, <2>2
<1>4. NumWorker = 4 * numExtraWarpGroups({f[i] : i \in 1 .. n})
  BY <1>1, <1>3 DEF NumWorker
<1>5. NumWorker \in Nat /\ NumWorker % 4 = 0 /\ \A i \in 1 .. n : f[i] <= NumWorker
  BY <1>3, <1>4, WorkersAre
<1>6. kernel.base \in Nat \ {0} /\ kernel.maxnreg \in Nat
  BY KernelIs DEF IInv
<1>7. NumWarps \in Nat \ {0}
  BY <1>5, <1>6 DEF NumWarps
<1>8. Regs \in Nat
  BY <1>6, <1>7, LaunchRegistersAre DEF Regs
<1> QED BY <1>1, <1>3, <1>5, <1>7, <1>8

-----------------------------------------------------------------------------
(* The invariant is inductive.                                             *)

LEMMA OpWithNums ==
  ASSUME NEW o \in Op, NEW new \in Seq(WarpCounts)
  PROVE  LET q == [o EXCEPT !.nums = new]
         IN  q \in Op /\ q.nums = new /\ q.req = o.req /\ q.starts = o.starts /\ q.act = o.act
BY DEF Op

LEMMA OpWithReq ==
  ASSUME NEW o \in Op, NEW req \in Seq(Nat)
  PROVE  LET q == [o EXCEPT !.req = req]
         IN  q \in Op /\ q.req = req /\ q.nums = o.nums /\ q.starts = o.starts /\ q.act = o.act
BY DEF Op

LEMMA SmallCounts ==
  Seq({1, 2, 4, 8, 16}) \subseteq Seq(WarpCounts)
<1>1. {1, 2, 4, 8, 16} \subseteq WarpCounts
  BY DEF WarpCounts
<1> QED BY <1>1, SeqMonotonic

LEMMA InitInvariant == Init => IInv
<1> SUFFICES ASSUME Init PROVE IInv
  OBVIOUS
<1>1. /\ kernel \in Kernels /\ attr = kernel.maxnreg /\ at = 1
      /\ walk = (IF kernel.auto THEN "optimize" ELSE "pad")
      /\ DOMAIN ops = DOMAIN kernel.ops
      /\ \A i \in DOMAIN ops : ops[i] = [nums |-> kernel.ops[i].nums, req |-> kernel.ops[i].req,
                                         starts |-> <<>>, act |-> <<>>]
  BY DEF Init
<1>2. PICK n \in Nat : DOMAIN ops = 1 .. n
  BY <1>1, KernelIs
<1>3. ASSUME NEW i \in DOMAIN ops
      PROVE  /\ ops[i].nums = kernel.ops[i].nums /\ ops[i].req = kernel.ops[i].req
             /\ ops[i].starts = <<>> /\ ops[i].act = <<>> /\ ops[i] \in Op
             /\ ops[i].nums \in Seq({1, 2, 4, 8, 16})
  <2>1. /\ kernel.ops[i].nums \in Seq({1, 2, 4, 8, 16}) /\ kernel.ops[i].nums \in Seq(WarpCounts)
        /\ kernel.ops[i].req \in Seq(Nat)
    BY <1>1, KernelIs, SmallCounts
  <2>2. ops[i] = [nums |-> kernel.ops[i].nums, req |-> kernel.ops[i].req, starts |-> <<>>, act |-> <<>>]
    BY <1>1
  <2>3. <<>> \in Seq(Nat)
    OBVIOUS
  <2> QED BY <2>1, <2>2, <2>3 DEF Op
<1>4. ASSUME NEW i \in DOMAIN ops
      PROVE  /\ OpOK(i) /\ Unpadded(i) /\ ~ Padded(i)
             /\ ops[i].starts = <<>> /\ ops[i].act = <<>>
  <2>1. OpOK(i)
    BY <1>1, <1>3, KernelIs DEF OpOK
  <2>2. Unpadded(i)
    BY <1>3 DEF Unpadded
  <2>3. ~ Padded(i)
    BY <1>1, <1>2 DEF Padded
  <2> QED BY <1>3, <2>1, <2>2, <2>3
<1>5. TensorsFit
  <2>1. ASSUME NEW i \in DOMAIN ops, NEW p \in DOMAIN kernel.ops[i].nums
        PROVE  ~ (ops[i].nums[p] < kernel.ops[i].nums[p])
    <3>1. kernel.ops[i].nums[p] \in {1, 2, 4, 8, 16} /\ ops[i].nums = kernel.ops[i].nums
      BY <1>1, <1>3, KernelIs
    <3> QED BY <3>1
  <2> QED BY <2>1 DEF TensorsFit, Fits
<1>6. walk \in {"optimize", "pad"} /\ (walk = "optimize" => kernel.auto)
  BY <1>1
<1> QED BY <1>1, <1>4, <1>5, <1>6 DEF IInv

LEMMA QuotientGrows ==
  ASSUME NEW c \in Nat, NEW d \in Nat \ {0}, NEW e \in Nat \ {0}, d <= e
  PROVE  c \div e <= c \div d
<1>1. PICK q \in Nat : q = c \div e /\ q * e <= c
  <2>1. c \div e \in Nat /\ (c \div e) * e <= c
    OBVIOUS
  <2> QED BY <2>1
<1>2. PICK r \in Nat : r = c \div d /\ c < (r + 1) * d
  <2>1. c \div d \in Nat /\ c < (c \div d + 1) * d
    OBVIOUS
  <2> QED BY <2>1
<1>3. q * d <= q * e
  OBVIOUS
<1>4. q <= r
  <2> SUFFICES ASSUME r + 1 <= q PROVE FALSE
    BY <1>1, <1>2
  <2>1. (r + 1) * d <= q * d
    OBVIOUS
  <2>2. q * d \in Nat /\ q * e \in Nat /\ (r + 1) * d \in Nat
    OBVIOUS
  <2> QED BY <1>1, <1>2, <1>3, <2>1, <2>2
<1> QED BY <1>1, <1>2, <1>4

\* A list one of whose sizes is halved has a sum smaller by the other half.
LEMMA SumHalved ==
  ASSUME NEW nums \in Seq({1, 2, 4, 8, 16}), NEW p \in DOMAIN nums, nums[p] # 1,
         NEW new, new = [nums EXCEPT ![p] = nums[p] \div 2]
  PROVE  /\ new \in Seq({1, 2, 4, 8, 16}) /\ Len(new) = Len(nums)
         /\ SumFunction(new) = SumFunction(nums) - nums[p] \div 2
<1>1. PICK D : D = DOMAIN nums
  OBVIOUS
<1>2. nums[p] \in {2, 4, 8, 16} /\ nums[p] \div 2 \in {1, 2, 4, 8}
  BY <1>1
<1>3. new \in Seq({1, 2, 4, 8, 16}) /\ Len(new) = Len(nums)
  BY <1>2
<1>4. /\ DOMAIN new = D /\ IsFiniteSet(D) /\ IsFiniteSet(D \ {p}) /\ p \in D
      /\ \A x \in D : nums[x] \in Int /\ new[x] \in Int
      /\ \A x \in D \ {p} : nums[x] \in Int /\ new[x] = nums[x]
      /\ new[p] = nums[p] \div 2
  <2>1. D = 1 .. Len(nums) /\ Len(nums) \in Nat
    BY <1>1
  <2>2. IsFiniteSet(D)
    <3>1. PICK n \in Nat : D = 1 .. n
      BY <2>1
    <3> QED BY <3>1, FS_Interval
  <2>3. IsFiniteSet(D \ {p})
    BY <2>2, FS_Subset
  <2>4. DOMAIN new = D /\ p \in D
    BY <1>1
  <2>5. \A x \in D : nums[x] \in Int
    BY <2>1
  <2>6. \A x \in D \ {p} : new[x] = nums[x]
    BY <1>1
  <2>7. new[p] = nums[p] \div 2
    BY <1>1
  <2>8. \A x \in D : new[x] \in Int
    BY <1>2, <2>5, <2>6, <2>7
  <2> QED BY <2>2, <2>3, <2>4, <2>5, <2>6, <2>7, <2>8
<1>5. Sum(nums, D) = nums[p] + Sum(nums, D \ {p})
  BY <1>4, SumRemove
<1>6. Sum(new, D) = new[p] + Sum(new, D \ {p})
  <2>1. \A f : (\A x \in D : f[x] \in Int) => Sum(f, D) = f[p] + Sum(f, D \ {p})
    BY <1>4, SumRemove
  <2>2. \A x \in D : new[x] \in Int
    BY <1>4
  <2> QED BY <2>1, <2>2
<1>7. Sum(new, D \ {p}) = Sum(nums, D \ {p})
  BY <1>4, SumSame
<1>8. Sum(nums, D \ {p}) \in Int
  BY <1>4, SumByOne
<1>9. SumFunction(nums) = Sum(nums, D) /\ SumFunction(new) = Sum(new, D)
  BY <1>1, <1>4 DEF SumFunction, Sum
<1>10. PICK a \in Int : a = Sum(nums, D \ {p})
  BY <1>8
<1>11. \A z \in {2, 4, 8, 16} : (z \div 2) + a = (z + a) - (z \div 2)
  OBVIOUS
<1>12. SumFunction(nums) = nums[p] + a /\ SumFunction(new) = (nums[p] \div 2) + a
  BY <1>4, <1>5, <1>6, <1>7, <1>9, <1>10
<1>13. (nums[p] \div 2) + a = (nums[p] + a) - (nums[p] \div 2)
  BY <1>2, <1>11
<1> QED BY <1>3, <1>12, <1>13

LEMMA MinIs ==
  ASSUME NEW S \in SUBSET Nat, S # {}
  PROVE  Min(S) \in S
<1>1. PICK m \in S : \A x \in S : m <= x
  BY LeastNatural
<1> QED BY <1>1 DEF Min

\* A step that takes half of its warps from one partition.
LEMMA HalveKeeps ==
  ASSUME IInv, Halve
  PROVE  IInv'
<1>1. /\ kernel' = kernel /\ attr' = attr /\ walk' = walk /\ at' = at
      /\ walk = "optimize" /\ at \in DOMAIN ops /\ kernel.auto
      /\ DOMAIN ops = DOMAIN kernel.ops
  BY DEF Halve, IInv
<1>2. PICK nums : nums = ops[at].nums
  OBVIOUS
<1>3. PICK k : k = kernel.ops[at]
  OBVIOUS
<1>4. PICK base \in Nat \ {0} : base = kernel.base
  BY KernelIs DEF IInv
<1>5. /\ nums \in Seq({1, 2, 4, 8, 16}) /\ k.nums \in Seq({1, 2, 4, 8, 16})
      /\ k.tensors \in Seq(Nat) /\ k.least \in Seq({1, 2, 4})
      /\ Len(nums) = Len(k.nums) /\ Len(k.tensors) = Len(nums) /\ Len(k.least) = Len(nums)
  <2>1. Unpadded(at) /\ kernel \in Kernels
    BY <1>1 DEF IInv
  <2> QED BY <1>1, <1>2, <1>3, <2>1, KernelIs DEF Unpadded
<1>6. PICK op : op = [nums |-> nums, tensors |-> k.tensors, least |-> k.least]
  OBVIOUS
<1>7. PICK p \in Shrinkable(base, op) : ops' = [ops EXCEPT ![at].nums[p] = @ \div 2]
  <2>1. op = Optimizing
    BY <1>2, <1>3, <1>6 DEF Optimizing
  <2>2. Shrinkable(base, op) # {} /\ Shrinkable(base, op) \in SUBSET Nat
    <3>1. Shrinkable(base, op) # {}
      BY <1>4, <2>1 DEF Halve
    <3>2. DOMAIN op.nums \in SUBSET Nat
      BY <1>5, <1>6
    <3> QED BY <3>1, <3>2 DEF Shrinkable
  <2>3. Min(Shrinkable(base, op)) \in Shrinkable(base, op)
    BY <2>2, MinIs
  <2> QED BY <1>4, <2>1, <2>3 DEF Halve
<1>8. /\ p \in DOMAIN nums /\ nums[p] > k.least[p]
      /\ (k.tensors[p] \div 32) \div (nums[p] \div 2)
           <= ((64 * 1024) \div 32) \div (base + SumFunction(nums) - nums[p] \div 2)
  BY <1>6 DEF Shrinkable, halfFits
<1>9. nums[p] # 1
  <2>1. k.least[p] \in {1, 2, 4} /\ nums[p] \in {1, 2, 4, 8, 16}
    BY <1>5, <1>8
  <2> QED BY <1>8, <2>1
<1>10. PICK new : new = [nums EXCEPT ![p] = nums[p] \div 2]
  OBVIOUS
<1>11. /\ new \in Seq({1, 2, 4, 8, 16}) /\ Len(new) = Len(nums)
       /\ SumFunction(new) = SumFunction(nums) - nums[p] \div 2
  BY <1>5, <1>8, <1>9, <1>10, SumHalved
<1>12. \A i \in DOMAIN ops : ops[i] \in Op /\ ops[i].starts = <<>> /\ ops[i].act = <<>>
  BY <1>1 DEF IInv, OpOK
<1>13. /\ DOMAIN ops' = DOMAIN ops /\ \A i \in DOMAIN ops : i # at => ops'[i] = ops[i]
       /\ ops'[at] = [ops[at] EXCEPT !.nums = new]
  BY <1>1, <1>2, <1>7, <1>10
<1>14. /\ ops'[at].nums = new /\ ops'[at].req = ops[at].req
       /\ ops'[at].starts = <<>> /\ ops'[at].act = <<>> /\ ops'[at] \in Op
  <2>1. new \in Seq(WarpCounts)
    BY <1>11, SmallCounts
  <2>2. ops[at] \in Op /\ ops[at].starts = <<>> /\ ops[at].act = <<>>
    BY <1>1, <1>12
  <2> QED BY <1>13, <2>1, <2>2, OpWithNums
<1>15. ASSUME NEW i \in DOMAIN ops PROVE OpOK(i)' /\ Unpadded(i)' /\ Fits(i)'
  <2>1. OpOK(i) /\ Unpadded(i) /\ Fits(i)
    BY <1>1 DEF IInv, TensorsFit
  <2>2. CASE i # at
    <3>1. ops'[i] = ops[i]
      BY <1>13, <2>2
    <3> QED BY <1>1, <2>1, <3>1 DEF OpOK, Unpadded, Fits
  <2>3. CASE i = at
    <3>1. Unpadded(i)'
      BY <1>1, <1>3, <1>5, <1>11, <1>14, <2>3 DEF Unpadded
    <3>2. DOMAIN new = DOMAIN nums /\ DOMAIN k.nums = DOMAIN nums
      BY <1>5, <1>11
    <3>3. OpOK(i)'
      BY <1>1, <1>2, <1>3, <1>11, <1>14, <2>1, <2>3, <3>2 DEF OpOK
    <3>4. Fits(i)'
      <4>1. ASSUME NEW q \in DOMAIN nums, new[q] < k.nums[q]
            PROVE  (k.tensors[q] \div 32) \div new[q]
                     <= ((64 * 1024) \div 32) \div (base + SumFunction(new))
        <5>1. CASE q = p
          <6>1. new[p] = nums[p] \div 2
            BY <1>8, <1>10
          <6>2. SumFunction(nums) \in Nat /\ nums[p] \in Nat
            <7>1. nums \in Seq(WarpCounts)
              BY <1>5, SmallCounts
            <7> QED BY <1>5, <1>8, <7>1, SumOfTeams
          <6>3. base + SumFunction(new) = base + SumFunction(nums) - nums[p] \div 2
            BY <1>11, <6>2
          <6> QED BY <1>8, <5>1, <6>1, <6>3
        <5>2. CASE q # p
          <6>1. new[q] = nums[q]
            BY <1>8, <1>10, <5>2
          <6>2. (k.tensors[q] \div 32) \div nums[q]
                  <= ((64 * 1024) \div 32) \div (base + SumFunction(nums))
            <7>1. [r \in DOMAIN k.nums |-> nums[r]] = nums
              BY <1>5, <3>2
            <7>2. (k.tensors[q] \div 32) \div nums[q]
                    <= ((64 * 1024) \div 32) \div (base + SumFunction([r \in DOMAIN k.nums |-> nums[r]]))
              BY <1>2, <1>3, <1>4, <2>1, <2>3, <3>2, <4>1, <6>1 DEF Fits
            <7> QED BY <7>1, <7>2
          <6>3. PICK s \in Nat : s = SumFunction(nums)
            <7>1. nums \in Seq(WarpCounts)
              BY <1>5, SmallCounts
            <7> QED BY <7>1, SumOfTeams
          <6>4. PICK t \in Nat : t = SumFunction(new) /\ t <= s
            <7>1. new \in Seq(WarpCounts)
              BY <1>11, SmallCounts
            <7>2. SumFunction(new) \in Nat
              BY <7>1, SumOfTeams
            <7>3. nums[p] \div 2 \in Nat
              <8>1. nums[p] \in {1, 2, 4, 8, 16}
                BY <1>5, <1>8
              <8> QED BY <8>1
            <7> QED BY <1>11, <6>3, <7>2, <7>3
          <6>5. PICK c \in Nat : c = (64 * 1024) \div 32
            OBVIOUS
          <6>6. c \div (base + s) <= c \div (base + t) /\ c \div (base + s) \in Nat /\ c \div (base + t) \in Nat
            <7>1. PICK e \in Nat \ {0} : e = base + s
              OBVIOUS
            <7>2. PICK d \in Nat \ {0} : d = base + t
              OBVIOUS
            <7>3. c \div e <= c \div d
              <8>1. d <= e
                BY <6>4, <7>1, <7>2
              <8> QED BY <8>1, QuotientGrows
            <7>4. c \div e \in Nat /\ c \div d \in Nat
              OBVIOUS
            <7> QED BY <7>1, <7>2, <7>3, <7>4
          <6>7. PICK a \in Nat : a = (k.tensors[q] \div 32) \div nums[q]
            <7>1. k.tensors[q] \in Nat /\ nums[q] \in {1, 2, 4, 8, 16}
              BY <1>5
            <7> QED BY <7>1
          <6>8. a <= c \div (base + t)
            BY <6>2, <6>3, <6>5, <6>6, <6>7
          <6> QED BY <6>1, <6>4, <6>5, <6>7, <6>8
        <5> QED BY <5>1, <5>2
      <4>2. [r \in DOMAIN k.nums |-> new[r]] = new
        BY <1>11, <3>2
      <4> QED BY <1>1, <1>3, <1>4, <1>14, <2>3, <3>2, <4>1, <4>2 DEF Fits
    <3> QED BY <3>1, <3>3, <3>4
  <2> QED BY <2>2, <2>3
<1>16. \A i \in DOMAIN ops : ops'[i].starts = <<>> /\ ops'[i].act = <<>> /\ ~ Padded(i)'
  BY <1>1, <1>12, <1>13, <1>14 DEF Padded
<1> QED BY <1>1, <1>13, <1>15, <1>16 DEF IInv, TensorsFit

\* What fits goes on fitting while the partitions of the program keep their warps.
LEMMA FitsKept ==
  ASSUME kernel' = kernel, NEW i, Fits(i),
         \A p \in DOMAIN kernel.ops[i].nums : ops'[i].nums[p] = ops[i].nums[p]
  PROVE  Fits(i)'
<1>1. PICK own : own = DOMAIN kernel.ops[i].nums
  OBVIOUS
<1>2. PICK all : all = [q \in own |-> ops[i].nums[q]]
  OBVIOUS
<1>3. all = [q \in own |-> ops'[i].nums[q]]
  BY <1>1, <1>2
<1>4. \A p \in own : ops[i].nums[p] < kernel.ops[i].nums[p] =>
         (kernel.ops[i].tensors[p] \div 32) \div ops[i].nums[p]
            <= ((64 * 1024) \div 32) \div (kernel.base + SumFunction(all))
  BY <1>1, <1>2 DEF Fits
<1>5. \A p \in own : ops'[i].nums[p] < kernel.ops[i].nums[p] =>
         (kernel.ops[i].tensors[p] \div 32) \div ops'[i].nums[p]
            <= ((64 * 1024) \div 32) \div (kernel.base + SumFunction(all))
  BY <1>1, <1>4
<1> QED BY <1>1, <1>3, <1>5 DEF Fits

\* A step that sets the requests of an op.
LEMMA EstimateKeeps ==
  ASSUME IInv, Estimate
  PROVE  IInv'
<1>1. /\ kernel' = kernel /\ attr' = attr /\ walk' = walk /\ at' = at + 1
      /\ walk = "optimize" /\ at \in DOMAIN ops /\ kernel.auto /\ kernel \in Kernels
      /\ DOMAIN ops = DOMAIN kernel.ops /\ at \in Nat \ {0}
  BY DEF Estimate, IInv
<1>2. PICK req : req = estRegUsage(Optimizing)
  OBVIOUS
<1>3. PICK nums : nums = ops[at].nums
  OBVIOUS
<1>4. nums \in Seq(WarpCounts) /\ kernel.base % 4 = 0
  BY <1>1, <1>3, KernelIs DEF IInv, OpOK, Op
<1>5. req \in Seq(Nat) /\ Len(req) = Len(nums)
  <2>1. req = [p \in DOMAIN nums |-> IF kernel.ops[at].tensors[p] > 0 THEN 88 ELSE 24]
    BY <1>2, <1>3 DEF estRegUsage, Optimizing
  <2>2. PICK n \in Nat : n = Len(nums) /\ DOMAIN nums = 1 .. n
    BY <1>4
  <2>3. req \in [1 .. n -> Nat]
    BY <2>1, <2>2
  <2> QED BY <2>2, <2>3
<1>6. /\ DOMAIN ops' = DOMAIN ops /\ \A i \in DOMAIN ops : i # at => ops'[i] = ops[i]
      /\ ops'[at] = [ops[at] EXCEPT !.req = req]
  BY <1>1, <1>2 DEF Estimate
<1>7. \A i \in DOMAIN ops : ops[i] \in Op /\ ops[i].starts = <<>> /\ ops[i].act = <<>>
  BY <1>1 DEF IInv, OpOK
<1>8. /\ ops'[at].nums = nums /\ ops'[at].req = req /\ ops'[at] \in Op
      /\ ops'[at].starts = <<>> /\ ops'[at].act = <<>>
  <2>1. ops[at] \in Op /\ ops[at].starts = <<>> /\ ops[at].act = <<>>
    BY <1>1, <1>7
  <2> QED BY <1>3, <1>5, <1>6, <2>1, OpWithReq
<1>9. ASSUME NEW i \in DOMAIN ops PROVE OpOK(i)' /\ Unpadded(i)' /\ Fits(i)'
  <2>1. OpOK(i) /\ Unpadded(i) /\ Fits(i)
    BY <1>1 DEF IInv, TensorsFit
  <2>2. ops'[i].nums = ops[i].nums
    BY <1>3, <1>6, <1>8
  <2>3. /\ ops'[i] \in Op
        /\ ops'[i].req # <<>> => Len(ops'[i].req) = Len(ops'[i].nums) /\ kernel.base % 4 = 0
    <3>1. CASE i = at
      BY <1>4, <1>5, <1>8, <3>1
    <3>2. CASE i # at
      BY <1>6, <2>1, <3>2 DEF OpOK
    <3> QED BY <3>1, <3>2
  <2>4. OpOK(i)'
    BY <1>1, <2>1, <2>2, <2>3 DEF OpOK
  <2>5. Unpadded(i)'
    BY <1>1, <2>1, <2>2 DEF Unpadded
  <2>6. Fits(i)'
    BY <1>1, <2>1, <2>2, FitsKept
  <2> QED BY <2>4, <2>5, <2>6
<1>10. \A i \in DOMAIN ops : ops'[i].starts = <<>> /\ ops'[i].act = <<>> /\ ~ Padded(i)'
  BY <1>1, <1>6, <1>7, <1>8 DEF Padded
<1>11. at' \in Nat \ {0}
  BY <1>1
<1> QED BY <1>1, <1>6, <1>9, <1>10, <1>11 DEF IInv, TensorsFit

LEMMA PaddedOp ==
  ASSUME NEW op \in Op, NEW w \in Nat, SumFunction(op.nums) <= w,
         op.req # <<>> => Len(op.req) = Len(op.nums),
         NEW new, new = padToMaxWarpGroups(op, w)
  PROVE  /\ new \in Op /\ new.starts = op.starts /\ new.act = op.act
         /\ SumFunction(new.nums) = w
         /\ DOMAIN op.nums \subseteq DOMAIN new.nums
         /\ \A p \in DOMAIN op.nums : new.nums[p] = op.nums[p]
         /\ new.req # <<>> => op.req # <<>> /\ Len(new.req) = Len(new.nums)
<1>1. PICK padding : padding = PaddingSizes(w - SumFunction(op.nums))
  OBVIOUS
<1>2. PICK nums : nums = op.nums
  OBVIOUS
<1>3. PICK req : req = op.req
  OBVIOUS
<1>4. nums \in Seq(WarpCounts) /\ req \in Seq(Nat)
  BY <1>2, <1>3 DEF Op
<1>5. SumFunction(nums) \in Nat /\ SumFunction(nums) <= w
  BY <1>2, <1>4, SumOfTeams
<1>6. padding \in Seq(WarpCounts) /\ SumFunction(padding) = w - SumFunction(nums)
  <2>1. w - SumFunction(nums) \in Nat
    BY <1>5
  <2> QED BY <1>1, <1>2, <2>1, PaddingIs
<1>7. PICK more : more = [i \in DOMAIN padding |-> 16]
  OBVIOUS
<1>8. more \in Seq(Nat) /\ Len(more) = Len(padding)
  <2>1. PICK m \in Nat : m = Len(padding) /\ DOMAIN padding = 1 .. m
    BY <1>6
  <2>2. more \in [1 .. m -> Nat]
    BY <1>7, <2>1
  <2> QED BY <2>1, <2>2
<1>9. PICK newreq : newreq = IF req = <<>> THEN req ELSE req \o more
  OBVIOUS
<1>10. new = [op EXCEPT !.nums = nums \o padding, !.req = newreq]
  BY <1>1, <1>2, <1>3, <1>7, <1>9 DEF padToMaxWarpGroups
<1>11. nums \o padding \in Seq(WarpCounts) /\ newreq \in Seq(Nat)
  BY <1>4, <1>6, <1>8, <1>9
<1>12. new.nums = nums \o padding /\ new.req = newreq /\ new.starts = op.starts /\ new.act = op.act /\ new \in Op
  BY <1>10, <1>11 DEF Op
<1>13. SumFunction(nums \o padding) = w
  <2>1. nums \in Seq(Int) /\ padding \in Seq(Int)
    BY <1>4, <1>6, SumOfTeams
  <2>2. SumFunction(nums \o padding) = SumFunction(nums) + SumFunction(padding)
    BY <2>1, SumOfConcat
  <2> QED BY <1>5, <1>6, <2>2
<1>14. /\ DOMAIN nums \subseteq DOMAIN (nums \o padding)
       /\ \A p \in DOMAIN nums : (nums \o padding)[p] = nums[p]
       /\ Len(nums \o padding) = Len(nums) + Len(padding)
  <2>1. Len(nums) \in Nat /\ Len(padding) \in Nat /\ DOMAIN nums = 1 .. Len(nums)
    BY <1>4, <1>6
  <2>2. Len(nums \o padding) = Len(nums) + Len(padding) /\ DOMAIN (nums \o padding) = 1 .. Len(nums) + Len(padding)
    BY <1>4, <1>6
  <2>3. \A p \in DOMAIN nums : (nums \o padding)[p] = nums[p]
    BY <1>4, <1>6
  <2> QED BY <2>1, <2>2, <2>3
<1>15. newreq # <<>> => req # <<>> /\ Len(newreq) = Len(nums \o padding)
  <2>1. SUFFICES ASSUME req # <<>> PROVE Len(newreq) = Len(nums \o padding)
    BY <1>9
  <2>2. Len(newreq) = Len(req) + Len(more) /\ Len(req) = Len(nums)
    <3>1. newreq = req \o more /\ Len(req) = Len(nums)
      BY <1>2, <1>3, <1>9, <2>1
    <3>2. Len(req \o more) = Len(req) + Len(more)
      <4>1. req \in Seq(Nat) /\ more \in Seq(Nat)
        BY <1>4, <1>8
      <4> QED BY <4>1, ConcatProperties
    <3> QED BY <3>1, <3>2
  <2> QED BY <1>8, <1>14, <2>2
<1> QED BY <1>2, <1>3, <1>12, <1>13, <1>14, <1>15

\* A step that pads an op to whole warpgroups.
LEMMA PadKeeps ==
  ASSUME IInv, Pad
  PROVE  IInv'
<1>1. /\ kernel' = kernel /\ attr' = attr /\ walk' = walk /\ at' = at + 1
      /\ walk = "pad" /\ at \in DOMAIN ops /\ kernel \in Kernels
      /\ DOMAIN ops = DOMAIN kernel.ops /\ at \in Nat \ {0}
  BY DEF Pad, IInv
<1>2. PICK n \in Nat : DOMAIN ops = 1 .. n
  BY <1>1, KernelIs
<1>3. PICK w \in Nat : w = NumWorker /\ w % 4 = 0
  BY NumWorkerIs
<1>4. PICK new : new = padToMaxWarpGroups(ops[at], w)
  OBVIOUS
<1>5. DOMAIN ops' = DOMAIN ops /\ ops'[at] = new /\ \A i \in DOMAIN ops : i # at => ops'[i] = ops[i]
  BY <1>1, <1>3, <1>4 DEF Pad
<1>6. \A i \in DOMAIN ops : /\ OpOK(i) /\ ops[i].starts = <<>> /\ ops[i].act = <<>> /\ Fits(i)
                           /\ SumFunction(ops[i].nums) \in Nat /\ SumFunction(ops[i].nums) <= w
  BY <1>1, <1>3, NumWorkerIs DEF IInv, TensorsFit
<1>7. /\ new \in Op /\ new.starts = <<>> /\ new.act = <<>> /\ SumFunction(new.nums) = w
      /\ DOMAIN ops[at].nums \subseteq DOMAIN new.nums
      /\ \A p \in DOMAIN ops[at].nums : new.nums[p] = ops[at].nums[p]
      /\ new.req # <<>> => ops[at].req # <<>> /\ Len(new.req) = Len(new.nums)
  <2>1. /\ ops[at] \in Op /\ SumFunction(ops[at].nums) <= w
        /\ ops[at].req # <<>> => Len(ops[at].req) = Len(ops[at].nums)
    BY <1>1, <1>6 DEF OpOK
  <2> QED BY <1>1, <1>4, <1>6, <2>1, PaddedOp
<1>8. NumWorker' = w
  <2>1. PICK f : f = [i \in 1 .. n |-> SumFunction(ops'[i].nums)]
    OBVIOUS
  <2>2. \A i \in 1 .. n : f[i] = SumFunction(ops'[i].nums) /\ f[i] \in Nat /\ f[i] <= w
    BY <1>2, <1>3, <1>5, <1>6, <1>7, <2>1
  <2>3. at \in 1 .. n /\ f[at] = w
    BY <1>1, <1>2, <1>5, <1>7, <2>2
  <2>4. NumWorker' = 4 * numExtraWarpGroups({f[i] : i \in 1 .. n})
    BY <1>2, <1>5, <2>2 DEF NumWorker
  <2>5. f[at] % 4 = 0 /\ \A j \in 1 .. n : f[j] <= f[at]
    BY <1>3, <2>2, <2>3
  <2>6. PICK v : v = 4 * numExtraWarpGroups({f[i] : i \in 1 .. n})
    OBVIOUS
  <2>7. v = f[at]
    BY <2>2, <2>3, <2>5, <2>6, WorkersAre
  <2> QED BY <2>3, <2>4, <2>6, <2>7
<1>9. ASSUME NEW i \in DOMAIN ops
      PROVE  OpOK(i)' /\ Fits(i)' /\ ops'[i].starts = <<>> /\ ops'[i].act = <<>>
  <2>1. \A p \in DOMAIN kernel.ops[i].nums : ops'[i].nums[p] = ops[i].nums[p]
    BY <1>5, <1>6, <1>7 DEF OpOK
  <2>2. Fits(i)'
    BY <1>1, <1>6, <2>1, FitsKept
  <2>3. CASE i # at
    <3>1. ops'[i] = ops[i]
      BY <1>5, <2>3
    <3> QED BY <1>1, <1>6, <2>2, <3>1 DEF OpOK
  <2>4. CASE i = at
    <3>1. OpOK(i)'
      BY <1>1, <1>5, <1>6, <1>7, <2>1, <2>4 DEF OpOK
    <3> QED BY <1>5, <1>7, <2>2, <2>4, <3>1
  <2> QED BY <2>3, <2>4
<1>10. ASSUME NEW i \in DOMAIN ops, Padded(i)' PROVE SumFunction(ops'[i].nums) = NumWorker'
  <2>1. CASE i = at
    BY <1>5, <1>7, <1>8, <2>1
  <2>2. CASE i # at
    <3>1. Padded(i)
      BY <1>1, <1>2, <1>10, <2>2 DEF Padded
    <3>2. SumFunction(ops[i].nums) = w
      BY <1>3, <3>1 DEF IInv
    <3> QED BY <1>5, <1>8, <2>2, <3>2
  <2> QED BY <2>1, <2>2
<1>11. at' \in Nat \ {0}
  BY <1>1
<1> QED BY <1>1, <1>5, <1>9, <1>10, <1>11 DEF IInv, TensorsFit

\* A step that gives the partitions of an op their warps and registers.
LEMMA AllocateKeeps ==
  ASSUME IInv, Allocate
  PROVE  IInv'
<1>1. /\ kernel' = kernel /\ walk' = walk /\ at' = at + 1
      /\ walk = "alloc" /\ at \in DOMAIN ops /\ kernel \in Kernels
      /\ DOMAIN ops = DOMAIN kernel.ops /\ at \in Nat \ {0}
  BY DEF Allocate, IInv
<1>2. PICK base \in Nat \ {0} : base = kernel.base
  BY <1>1, KernelIs
<1>3. PICK regs \in Nat : regs = Regs
  BY NumWorkerIs
<1>4. PICK nums : nums = ops[at].nums
  OBVIOUS
<1>5. PICK req : req = ops[at].req
  OBVIOUS
<1>6. PICK idx \in SortedIdx(nums) :
         LET s == StartIds(base, nums, idx)
             a == ActualRegisters(base, regs, nums, req, s)
         IN /\ ops' = [ops EXCEPT ![at].starts = s, ![at].act = a]
            /\ attr' = IF a = <<>> THEN attr ELSE regs
  BY <1>2, <1>3, <1>4, <1>5 DEF Allocate
<1>7. PICK starts : starts = StartIds(base, nums, idx)
  OBVIOUS
<1>8. PICK act : act = ActualRegisters(base, regs, nums, req, starts)
  OBVIOUS
<1>9. /\ starts = StartIds(base, nums, idx) /\ act = ActualRegisters(base, regs, nums, req, starts)
      /\ ops' = [ops EXCEPT ![at].starts = starts, ![at].act = act]
      /\ attr' = IF act = <<>> THEN attr ELSE regs
  BY <1>6, <1>7, <1>8
<1>10. \A i \in DOMAIN ops : OpOK(i) /\ Fits(i) /\ ops[i] \in Op
  BY DEF IInv, TensorsFit, OpOK
<1>11. nums \in Seq(WarpCounts) /\ req \in Seq(Nat) /\ (req # <<>> => Len(req) = Len(nums))
  BY <1>1, <1>4, <1>5, <1>10 DEF OpOK, Op
<1>12. Packed(base, nums, starts)
  BY <1>9, <1>11, StartIdsPack
<1>13. starts \in [DOMAIN nums -> Nat] /\ starts \in Seq(Nat)
  <2>1. starts \in [DOMAIN nums -> Nat]
    BY <1>12 DEF Packed
  <2>2. PICK m \in Nat : DOMAIN nums = 1 .. m
    BY <1>11
  <2> QED BY <2>1, <2>2
<1>14. act \in Seq(Nat)
  BY <1>9, <1>11, <1>13, SumOfTeams, ActIs
<1>15. /\ DOMAIN ops' = DOMAIN ops /\ \A i \in DOMAIN ops : i # at => ops'[i] = ops[i]
       /\ ops'[at] = [ops[at] EXCEPT !.starts = starts, !.act = act]
  BY <1>1, <1>9
<1>16. /\ ops'[at].nums = nums /\ ops'[at].req = req /\ ops'[at].starts = starts
       /\ ops'[at].act = act /\ ops'[at] \in Op
  BY <1>1, <1>4, <1>5, <1>10, <1>13, <1>14, <1>15 DEF Op
<1>17. \A i \in DOMAIN ops : ops'[i].nums = ops[i].nums /\ ops'[i].req = ops[i].req /\ ops'[i] \in Op
  BY <1>4, <1>5, <1>10, <1>15, <1>16
<1>18. NumWorker' = NumWorker /\ Regs' = regs
  <2>1. NumWorker' = NumWorker
    <3>1. {SumFunction(ops'[i].nums) : i \in DOMAIN ops'} = {SumFunction(ops[i].nums) : i \in DOMAIN ops}
      BY <1>15, <1>17
    <3> QED BY <3>1 DEF NumWorker
  <2> QED BY <1>1, <1>3, <2>1 DEF Regs, NumWarps
<1>19. ASSUME NEW i \in DOMAIN ops PROVE OpOK(i)' /\ Fits(i)' /\ SumFunction(ops'[i].nums) = NumWorker'
  <2>1. OpOK(i)'
    BY <1>1, <1>10, <1>17 DEF OpOK
  <2>2. Fits(i)'
    BY <1>1, <1>10, <1>17, FitsKept
  <2>3. SumFunction(ops[i].nums) = NumWorker
    BY <1>1 DEF IInv, Padded
  <2> QED BY <1>17, <1>18, <2>1, <2>2, <2>3
<1>20. ASSUME NEW i \in DOMAIN ops
       PROVE  /\ ops'[i].starts # <<>> => Allocated(i)'
              /\ ops'[i].act # <<>> => attr' = Regs'
  <2>1. CASE i = at
    <3>1. Allocated(i)'
      BY <1>1, <1>2, <1>9, <1>12, <1>16, <1>18, <2>1 DEF Allocated
    <3>2. ops'[i].act # <<>> => attr' = Regs'
      BY <1>9, <1>16, <1>18, <2>1
    <3> QED BY <3>1, <3>2
  <2>2. CASE i # at
    <3>1. /\ ops'[i] = ops[i] /\ (ops[i].starts # <<>> => Allocated(i)) /\ (ops[i].act # <<>> => attr = regs)
      BY <1>3, <1>15, <2>2 DEF IInv
    <3>2. ops'[i].starts # <<>> => Allocated(i)'
      BY <1>1, <1>3, <1>18, <3>1 DEF Allocated
    <3>3. ops'[i].act # <<>> => attr' = Regs'
      BY <1>9, <1>18, <3>1
    <3> QED BY <3>2, <3>3
  <2> QED BY <2>1, <2>2
<1>21. at' \in Nat \ {0}
  BY <1>1
<1> QED BY <1>1, <1>15, <1>19, <1>20, <1>21 DEF IInv, TensorsFit

\* A walk begins where the one before it has visited every op.
LEMMA NextWalkKeeps ==
  ASSUME IInv, NextWalk
  PROVE  IInv'
<1>1. /\ kernel' = kernel /\ ops' = ops /\ attr' = attr /\ at' = 1 /\ at \notin DOMAIN ops
      /\ kernel \in Kernels /\ DOMAIN ops = DOMAIN kernel.ops /\ at \in Nat \ {0}
  BY DEF NextWalk, IInv
<1>2. \/ walk = "optimize" /\ walk' = "pad"
      \/ walk = "pad" /\ walk' = "alloc"
      \/ walk = "alloc" /\ walk' = "done"
  BY DEF NextWalk, IInv
<1>3. PICK n \in Nat : DOMAIN ops = 1 .. n
  BY <1>1, KernelIs
<1>4. NumWorker' = NumWorker /\ Regs' = Regs
  BY <1>1 DEF NumWorker, Regs, NumWarps
<1>5. ASSUME NEW i \in DOMAIN ops
      PROVE  /\ OpOK(i)' /\ Fits(i)'
             /\ walk' \in {"optimize", "pad"} => ops'[i].starts = <<>> /\ ops'[i].act = <<>>
             /\ Padded(i)' => SumFunction(ops'[i].nums) = NumWorker'
             /\ ops'[i].starts # <<>> => Allocated(i)'
             /\ ops'[i].act # <<>> => attr' = Regs'
  <2>1. /\ OpOK(i) /\ Fits(i)
        /\ walk \in {"optimize", "pad"} => ops[i].starts = <<>> /\ ops[i].act = <<>>
        /\ Padded(i) => SumFunction(ops[i].nums) = NumWorker
        /\ ops[i].starts # <<>> => Allocated(i)
        /\ ops[i].act # <<>> => attr = Regs
    BY DEF IInv, TensorsFit
  <2>2. OpOK(i)'
    BY <1>1, <2>1 DEF OpOK
  <2>3. Fits(i)'
    BY <1>1, <2>1, FitsKept
  <2>4. Padded(i)' => Padded(i)
    <3>1. i < at /\ ~ (i < 1)
      BY <1>1, <1>3
    <3> QED BY <1>1, <1>2, <3>1 DEF Padded
  <2>5. Allocated(i) => Allocated(i)'
    BY <1>1, <1>4 DEF Allocated
  <2> QED BY <1>1, <1>2, <1>4, <2>1, <2>2, <2>3, <2>4, <2>5
<1>6. at' \in Nat \ {0} /\ walk' \in {"pad", "alloc", "done"}
  BY <1>1, <1>2
<1> QED BY <1>1, <1>5, <1>6 DEF IInv, TensorsFit

LEMMA StutterKeeps ==
  ASSUME IInv, UNCHANGED vars
  PROVE  IInv'
<1>1. kernel' = kernel /\ ops' = ops /\ attr' = attr /\ walk' = walk /\ at' = at
  BY DEF vars
<1>2. NumWorker' = NumWorker /\ Regs' = Regs
  BY <1>1 DEF NumWorker, Regs, NumWarps
<1>3. ASSUME NEW i \in DOMAIN ops
      PROVE  /\ OpOK(i)' /\ Fits(i)' /\ (Unpadded(i) => Unpadded(i)') /\ (Padded(i)' => Padded(i))
             /\ Allocated(i) => Allocated(i)'
  <2>1. OpOK(i) /\ Fits(i)
    BY DEF IInv, TensorsFit
  <2>2. Fits(i)'
    BY <1>1, <2>1, FitsKept
  <2>3. OpOK(i)'
    BY <1>1, <2>1 DEF OpOK
  <2>4. (Unpadded(i) => Unpadded(i)') /\ (Padded(i)' => Padded(i))
    BY <1>1 DEF Unpadded, Padded
  <2>5. Allocated(i) => Allocated(i)'
    BY <1>1, <1>2 DEF Allocated
  <2> QED BY <2>2, <2>3, <2>4, <2>5
<1> QED BY <1>1, <1>2, <1>3 DEF IInv, TensorsFit

-----------------------------------------------------------------------------
(* The theorems.                                                           *)

(* The optimizer only takes warps; padding adds partitions after those of    *)
(* the program, and brings every op to the number of warps that the module   *)
(* reported before the walk; the last walk decides once per op.              *)
THEOREM Invariance == Spec => []IInv
<1>1. ASSUME IInv, [Next]_vars PROVE IInv'
  <2>1. CASE UNCHANGED vars
    BY <1>1, <2>1, StutterKeeps
  <2>2. CASE Halve
    BY <1>1, <2>2, HalveKeeps
  <2>3. CASE Estimate
    BY <1>1, <2>3, EstimateKeeps
  <2>4. CASE Pad
    BY <1>1, <2>4, PadKeeps
  <2>5. CASE Allocate
    BY <1>1, <2>5, AllocateKeeps
  <2>6. CASE NextWalk
    BY <1>1, <2>6, NextWalkKeeps
  <2>7. CASE Terminated
    BY <2>1, <2>7 DEF Terminated
  <2> QED BY <1>1, <2>1, <2>2, <2>3, <2>4, <2>5, <2>6, <2>7 DEF Next
<1> QED BY <1>1, InitInvariant, PTL DEF Spec

(* A partition that optimizePartitionNumWarps has taken warps from can hold  *)
(* its tensors in an even share of the registers, and the warps it takes     *)
(* from others afterwards do not change that.                                *)
THEOREM TensorsGoOnFitting == Spec => []TensorsFit
<1>1. IInv => TensorsFit
  BY DEF IInv
<1> QED BY <1>1, Invariance, PTL

\* What is known of an op whose warps have been given out.
LEMMA DoneIs ==
  ASSUME IInv, NEW i, Done(i)
  PROVE  /\ i \in DOMAIN ops /\ ops[i].nums \in Seq(WarpCounts) /\ ops[i].req \in Seq(Nat)
         /\ ops[i].req # <<>> => Len(ops[i].req) = Len(ops[i].nums) /\ kernel.base % 4 = 0
         /\ Packed(kernel.base, ops[i].nums, ops[i].starts)
         /\ ops[i].starts \in [DOMAIN ops[i].nums -> Nat]
         /\ ops[i].act = ActualRegisters(kernel.base, Regs, ops[i].nums, ops[i].req, ops[i].starts)
         /\ SumFunction(ops[i].nums) = NumWorker
         /\ kernel.base \in Nat \ {0} /\ NumWorker \in Nat /\ Regs \in Nat
<1>1. i \in DOMAIN ops /\ ops[i].starts # <<>>
  BY DEF Done
<1>2. OpOK(i) /\ Allocated(i) /\ Padded(i)
  BY <1>1 DEF IInv, Padded
<1>3. SumFunction(ops[i].nums) = NumWorker
  BY <1>1, <1>2 DEF IInv
<1>4. kernel.base \in Nat \ {0} /\ NumWorker \in Nat /\ Regs \in Nat
  BY KernelIs, NumWorkerIs DEF IInv
<1>5. ops[i].starts \in [DOMAIN ops[i].nums -> Nat]
  BY <1>2 DEF Allocated, Packed
<1> QED BY <1>1, <1>2, <1>3, <1>4, <1>5 DEF OpOK, Op, Allocated

(* The teams of an op's partitions, which the pass lays out from the         *)
(* largest to the smallest, are disjoint and are together the worker warps,  *)
(* in whatever order equal sizes are sorted.                                 *)
THEOREM WorkersShared == Spec => []TeamsShareOutWorkers
<1>1. ASSUME IInv PROVE TeamsShareOutWorkers
  <2> SUFFICES ASSUME NEW i \in DOMAIN ops, Done(i)
               PROVE  /\ UNION {Team(i, p) : p \in DOMAIN ops[i].nums} = kernel.base .. NumWarps - 1
                      /\ \A p, q \in DOMAIN ops[i].nums : p # q => Team(i, p) \cap Team(i, q) = {}
    BY DEF TeamsShareOutWorkers
  <2>1. PICK D : D = DOMAIN ops[i].nums
    OBVIOUS
  <2>2. PICK starts \in [D -> Nat] : starts = ops[i].starts
    BY <1>1, <2>1, DoneIs
  <2>3. PICK size \in [D -> Nat \ {0}] : size = ops[i].nums
    <3>1. PICK s \in Seq(WarpCounts) : s = ops[i].nums
      BY <1>1, DoneIs
    <3>2. DOMAIN s = D /\ \A p \in D : s[p] \in WarpCounts
      BY <2>1, <3>1
    <3>3. \A p \in D : s[p] \in Nat \ {0}
      BY <3>2 DEF WarpCounts
    <3>4. s = [p \in D |-> s[p]]
      BY <3>1, <3>2
    <3> QED BY <3>1, <3>3, <3>4
  <2>4. PICK base \in Nat : base = kernel.base
    BY <1>1, DoneIs
  <2>5. PICK end \in Nat : end = NumWarps /\ end = base + SumFunction(size)
    BY <1>1, <2>3, <2>4, DoneIs DEF NumWarps
  <2>6. Packed(base, size, starts)
    BY <1>1, <2>2, <2>3, <2>4, DoneIs
  <2>7. DOMAIN size = D
    BY <2>1, <2>3
  <2>8. /\ \A p \in D : base <= starts[p] /\ starts[p] + size[p] <= end
        /\ \A p, q \in D : p # q => \/ starts[p] + size[p] <= starts[q]
                                   \/ starts[q] + size[q] <= starts[p]
    BY <2>5, <2>6, <2>7 DEF Packed
  <2>9. \A w \in base .. end - 1 : \E p \in D : starts[p] <= w /\ w < starts[p] + size[p]
    BY <2>5, <2>6, <2>7 DEF Packed
  <2>10. \A p \in D : Team(i, p) = starts[p] .. starts[p] + size[p] - 1
    BY <2>2, <2>3 DEF Team
  <2>11. \A p \in D : \A w \in Team(i, p) : w \in Int /\ starts[p] <= w /\ w < starts[p] + size[p]
    BY <2>10
  <2>12. UNION {Team(i, p) : p \in D} = base .. end - 1
    <3>1. ASSUME NEW p \in D, NEW w \in Team(i, p) PROVE w \in base .. end - 1
      <4>1. w \in Int /\ starts[p] <= w /\ w < starts[p] + size[p]
        BY <2>11
      <4>2. base <= starts[p] /\ starts[p] + size[p] <= end
        BY <2>8
      <4> QED BY <4>1, <4>2
    <3>2. ASSUME NEW w \in base .. end - 1 PROVE \E p \in D : w \in Team(i, p)
      <4>1. PICK p \in D : starts[p] <= w /\ w < starts[p] + size[p]
        BY <2>9
      <4>2. w \in Team(i, p)
        BY <2>10, <4>1
      <4> QED BY <4>2
    <3> QED BY <3>1, <3>2
  <2>13. ASSUME NEW p \in D, NEW q \in D, p # q PROVE Team(i, p) \cap Team(i, q) = {}
    <3> SUFFICES ASSUME NEW w \in Team(i, p), w \in Team(i, q) PROVE FALSE
      OBVIOUS
    <3>1. w \in Int /\ starts[p] <= w /\ w < starts[p] + size[p] /\ starts[q] <= w /\ w < starts[q] + size[q]
      BY <2>11
    <3> QED BY <2>8, <2>13, <3>1
  <2> QED BY <2>1, <2>4, <2>5, <2>12, <2>13
<1> QED BY <1>1, Invariance, PTL

(* Partitions that have warps in one warpgroup, on which setmaxnreg acts,    *)
(* are in one group of the walk of warpGroupStartIds, so that the largest    *)
(* of their requests is what each of them is given.                          *)
THEOREM WarpgroupsAgreeAlways == Spec => []WarpgroupsAgree
<1>1. ASSUME IInv PROVE WarpgroupsAgree
  <2> SUFFICES ASSUME NEW i \in DOMAIN ops, Done(i), ops[i].act # <<>>,
                      NEW p \in DOMAIN ops[i].nums, NEW q \in DOMAIN ops[i].nums,
                      NEW v \in Team(i, p), NEW w \in Team(i, q), v \div 4 = w \div 4
               PROVE  ops[i].act[p + 1] = ops[i].act[q + 1]
    BY DEF WarpgroupsAgree
  <2>1. PICK nums \in Seq(WarpCounts) : nums = ops[i].nums
    BY <1>1, DoneIs
  <2>2. PICK req \in Seq(Nat) : req = ops[i].req
    BY <1>1, DoneIs
  <2>3. PICK starts \in [DOMAIN nums -> Nat] : starts = ops[i].starts
    BY <1>1, <2>1, DoneIs
  <2>4. PICK act : act = ops[i].act
    OBVIOUS
  <2>5. /\ nums = ops[i].nums /\ req = ops[i].req /\ starts = ops[i].starts /\ act = ops[i].act
    BY <2>1, <2>2, <2>3, <2>4
  <2>6. PICK base \in Nat \ {0} : base = kernel.base
    BY <1>1, DoneIs
  <2>7. PICK regs \in Nat : regs = Regs
    BY <1>1, DoneIs
  <2>8. /\ Packed(base, nums, starts) /\ starts \in [DOMAIN nums -> Nat]
        /\ act = ActualRegisters(base, regs, nums, req, starts) /\ act # <<>>
        /\ req # <<>> => Len(req) = Len(nums) /\ base % 4 = 0
    BY <1>1, <2>5, <2>6, <2>7, DoneIs
  <2>9. nums \in Seq(Nat) /\ (req # <<>> => Len(req) = Len(nums))
    BY <2>8, SumOfTeams
  <2>10. Granted(base, regs, nums, req, starts, act)
    BY <2>8, <2>9, ActIs
  <2>11. /\ req # <<>>
        /\ \A r \in DOMAIN nums : act[r + 1] = maxRequestedRegs(req, GroupOf(starts, r))
    BY <2>10 DEF Granted
  <2>12. /\ p \in DOMAIN nums /\ q \in DOMAIN nums
        /\ v \in starts[p] .. starts[p] + nums[p] - 1 /\ w \in starts[q] .. starts[q] + nums[q] - 1
    BY <2>5 DEF Team
  <2>13. GroupOf(starts, p) = GroupOf(starts, q)
    <3>1. \A r \in DOMAIN nums : nums[r] \in WarpCounts
      OBVIOUS
    <3>2. base % 4 = 0 /\ Packed(base, nums, starts)
      BY <2>8, <2>11
    <3>3. Neighbours(nums, starts, p, q)
      BY <2>12 DEF Neighbours
    <3> QED BY <2>12, <3>1, <3>2, <3>3, BlockIsGroup
  <2> QED BY <2>5, <2>11, <2>12, <2>13
<1> QED BY <1>1, Invariance, PTL

(* What the pass leaves to the default warps, rounded down, and what the     *)
(* partitions ask for, rounded up, are together within the registers that    *)
(* every warp has at launch.                                                 *)
THEOREM RegistersAlwaysFit == Spec => []RegistersFit
<1>1. ASSUME IInv PROVE RegistersFit
  <2> SUFFICES ASSUME NEW i \in DOMAIN ops, Done(i), ops[i].act # <<>>
               PROVE  kernel.base * ops[i].act[1]
                        + SumFunction([p \in DOMAIN ops[i].nums |-> ops[i].nums[p] * ops[i].act[p + 1]])
                      <= attr * NumWarps
    BY DEF RegistersFit
  <2>1. PICK nums \in Seq(WarpCounts) : nums = ops[i].nums
    BY <1>1, DoneIs
  <2>2. PICK req \in Seq(Nat) : req = ops[i].req
    BY <1>1, DoneIs
  <2>3. PICK starts \in [DOMAIN nums -> Nat] : starts = ops[i].starts
    BY <1>1, <2>1, DoneIs
  <2>4. PICK act : act = ops[i].act
    OBVIOUS
  <2>5. /\ nums = ops[i].nums /\ req = ops[i].req /\ starts = ops[i].starts /\ act = ops[i].act
    BY <2>1, <2>2, <2>3, <2>4
  <2>6. PICK base \in Nat \ {0} : base = kernel.base
    BY <1>1, DoneIs
  <2>7. PICK regs \in Nat : regs = Regs
    BY <1>1, DoneIs
  <2>8. /\ starts \in [DOMAIN nums -> Nat]
        /\ act = ActualRegisters(base, regs, nums, req, starts) /\ act # <<>>
        /\ req # <<>> => Len(req) = Len(nums)
    BY <1>1, <2>5, <2>6, <2>7, DoneIs
  <2>9. nums \in Seq(Nat) /\ (req # <<>> => Len(req) = Len(nums))
    BY <2>8, SumOfTeams
  <2>10. Granted(base, regs, nums, req, starts, act)
    BY <2>8, <2>9, ActIs
  <2>11. base * act[1] + SumFunction([p \in DOMAIN nums |-> nums[p] * act[p + 1]])
          <= regs * (base + SumFunction(nums))
    BY <2>10 DEF Granted
  <2>12. attr = regs /\ base + SumFunction(nums) = NumWarps
    BY <1>1, <2>5, <2>6, <2>7, DoneIs DEF IInv, NumWarps
  <2> QED BY <2>5, <2>6, <2>11, <2>12
<1> QED BY <1>1, Invariance, PTL
=============================================================================
