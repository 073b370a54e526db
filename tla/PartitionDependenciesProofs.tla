--------------------- MODULE PartitionDependenciesProofs ---------------------
(***************************************************************************)
(* Proofs about the partitioned loop, for every loop, schedule, trip count *)
(* and speed of the partitions: that the buffers are used by one side at a *)
(* time (BuffersAreExclusive), and that every partition reads what the     *)
(* undivided loop would have read (ReadsAreSequential).                    *)
(*                                                                         *)
(* The invariant of the first speaks of bits.  An end's index and phase    *)
(* give, for each buffer of the ring, the parity of the round in which the *)
(* end comes to it next.  A consumer whose bit differs from the producer's *)
(* is behind: it has yet to load what is stored there.  The barriers say   *)
(* the same from their side: ready has the producer's parity, and empty    *)
(* counts the consumers that are behind.  That is why a wait which ends    *)
(* has found the buffer free, or full.                                     *)
(*                                                                         *)
(* The invariant of the second counts.  Turn(e) is how often an end has    *)
(* been served, known from where its partition is; NextTurn(e, n) is then  *)
(* the iteration whose value buffer n has for it next.  The producer's is  *)
(* that of a consumer, and a ring's length more if the consumer is behind. *)
(***************************************************************************)
EXTENDS PartitionDependencies, NaturalSets, SequenceTheorems

-----------------------------------------------------------------------------
(* The loop.                                                               *)

\* What an operation or the yield may use.
N == Len(loop.yield)
Operand == OpIds \cup {v \in Int : -v \in Args}

\* The loop's operations, iter args and partitions, and what they may use.
LEMMA LoopIs ==
  ASSUME loop \in Loops
  PROVE  /\ OpIds = 1 .. Len(loop.part) /\ Len(loop.part) \in Nat
         /\ Args = 1 .. N /\ N \in Nat
         /\ Partitions = 1 .. Len(loop.stage) /\ Len(loop.stage) \in Nat
         /\ \A P \in Partitions : loop.stage[P] \in Int
         /\ \A k \in OpIds : loop.part[k] \in Partitions /\ loop.uses[k] \subseteq Operand
         /\ \A a \in Args : loop.yield[a] \in Operand
         /\ Operand \subseteq Int /\ 0 \notin Operand
<1>1. PICK L : L = loop
  OBVIOUS
<1>2. /\ L.stage \in Seq(Int) /\ L.yield \in Seq(Int) /\ L.uses \in Seq(SUBSET Int)
      /\ L.part \in Seq(DOMAIN L.stage) /\ Len(L.uses) = Len(L.part)
      /\ \A k \in DOMAIN L.uses : \A v \in L.uses[k] : v < k /\ v # 0 /\ -v <= Len(L.yield)
      /\ \A a \in DOMAIN L.yield : L.yield[a] \in DOMAIN L.part \/ -L.yield[a] \in DOMAIN L.yield
  BY <1>1, LoopsAssumption
<1>3. /\ OpIds = 1 .. Len(L.part) /\ Len(L.part) \in Nat
      /\ Args = 1 .. N /\ N \in Nat
      /\ Partitions = 1 .. Len(L.stage) /\ Len(L.stage) \in Nat
      /\ DOMAIN L.uses = OpIds /\ DOMAIN L.stage = Partitions
      /\ DOMAIN L.part = OpIds /\ DOMAIN L.yield = Args /\ N = Len(L.yield)
  BY <1>1, <1>2, LenProperties DEF OpIds, Args, Partitions, N
<1>4. \A P \in Partitions : L.stage[P] \in Int
  BY <1>2, <1>3
<1>5. ASSUME NEW k \in OpIds PROVE L.part[k] \in Partitions /\ L.uses[k] \subseteq Operand
  <2>1. L.part[k] \in Partitions /\ L.uses[k] \in SUBSET Int
    <3>1. L.part[k] \in DOMAIN L.stage
      BY <1>2, <1>3, ElementOfSeq
    <3>2. L.uses[k] \in SUBSET Int
      BY <1>2, <1>3, ElementOfSeq
    <3> QED BY <1>3, <3>1, <3>2
  <2>2. ASSUME NEW v \in L.uses[k] PROVE v \in Operand
    <3>1. v \in Int /\ v < k /\ v # 0 /\ -v <= N
      BY <1>2, <1>3, <2>1
    <3>2. v \in 1 .. Len(L.part) \/ -v \in 1 .. N
      BY <1>3, <3>1
    <3> QED BY <1>3, <3>1, <3>2 DEF Operand
  <2> QED BY <2>1, <2>2
<1>6. ASSUME NEW a \in Args PROVE L.yield[a] \in Operand
  <2>1. L.yield[a] \in Int
    BY <1>2, <1>3
  <2> QED BY <1>2, <1>3, <2>1 DEF Operand
<1>7. Operand \subseteq Int /\ 0 \notin Operand
  BY <1>3 DEF Operand
<1> QED BY <1>1, <1>3, <1>4, <1>5, <1>6, <1>7

\* Following an operand through the yield.
LEMMA FollowIs ==
  ASSUME loop \in Loops, NEW v \in Operand
  PROVE  /\ Follow(v) \in [0 .. N -> Operand]
         /\ Follow(v)[0] = v
         /\ \A n \in 0 .. N - 1 :
               Follow(v)[n + 1] = IF Follow(v)[n] > 0 THEN Follow(v)[n] ELSE loop.yield[-Follow(v)[n]]
<1> DEFINE To(w) == IF w > 0 THEN w ELSE loop.yield[-w]
           IsFollow(f) == f = [n \in 0 .. N |-> IF n = 0 THEN v ELSE To(f[n - 1])]
<1>1. N \in Nat /\ Args = 1 .. N /\ Operand \subseteq Int /\ 0 \notin Operand
  BY LoopIs
<1>2. \A w \in Operand : To(w) \in Operand
  <2>1. ASSUME NEW w \in Operand PROVE To(w) \in Operand
    <3>1. w \in Int /\ (w > 0 \/ -w \in Args)
      BY <1>1, LoopIs DEF Operand
    <3> QED BY <3>1, LoopIs
  <2> QED BY <2>1
<1> DEFINE T == [x \in (1 .. N) \X Operand |-> To(x[2])]
<1>3. T \in [(1 .. N) \X Operand -> Operand]
  <2> HIDE DEF To
  <2> QED BY <1>2
<1>4. PICK g \in [0 .. N -> Operand] : Iterates(g, v, T, N)
  <2> HIDE DEF T
  <2> QED BY <1>1, <1>3, SimpleRecursion
<1>5. \A n \in 0 .. N : g[n] = IF n = 0 THEN v ELSE To(g[n - 1])
  <2>1. ASSUME NEW n \in 0 .. N PROVE g[n] = IF n = 0 THEN v ELSE To(g[n - 1])
    <3>1. g[n] = IF n = 0 THEN v ELSE T[<<n, g[n - 1]>>]
      <4> HIDE DEF T
      <4> QED BY <1>4 DEF Iterates
    <3>2. n # 0 => <<n, g[n - 1]>> \in (1 .. N) \X Operand
      BY <1>1
    <3>3. n # 0 => T[<<n, g[n - 1]>>] = To(g[n - 1])
      <4> HIDE DEF To
      <4> QED BY <3>2
    <3> HIDE DEF T, To
    <3> QED BY <3>1, <3>3
  <2> QED BY <2>1
<1>6. IsFollow(g)
  <2> HIDE DEF To
  <2> QED BY <1>5
<1>7. IsFollow(Follow(v))
  <2>1. Follow(v) = CHOOSE f : IsFollow(f)
    BY DEF Follow, N
  <2> HIDE DEF IsFollow
  <2> QED BY <1>6, <2>1
<1>8. PICK f : f = Follow(v) /\ IsFollow(f)
  BY <1>7
<1> HIDE DEF To
<1>9. /\ DOMAIN f = 0 .. N /\ f[0] = v
      /\ \A n \in 0 .. N - 1 : f[n + 1] = To(f[n])
  <2>1. \A n \in 0 .. N : f[n] = IF n = 0 THEN v ELSE To(f[n - 1])
    BY <1>8
  <2>2. \A n \in 0 .. N - 1 : n + 1 \in 0 .. N /\ n + 1 # 0 /\ (n + 1) - 1 = n
    BY <1>1
  <2>3. 0 \in 0 .. N
    BY <1>1
  <2>4. DOMAIN f = 0 .. N
    BY <1>8
  <2> QED BY <2>1, <2>2, <2>3, <2>4
<1>10. \A n \in 0 .. N : f[n] \in Operand
  <2> DEFINE K == {n \in Nat : n <= N => f[n] \in Operand}
  <2>1. 0 \in K
    BY <1>9
  <2>2. ASSUME NEW n \in Nat, n \in K PROVE n + 1 \in K
    <3>1. CASE n + 1 <= N
      <4>1. n \in 0 .. N - 1 /\ f[n] \in Operand
        BY <1>1, <2>2, <3>1
      <4> QED BY <1>2, <1>9, <4>1
    <3> QED BY <3>1
  <2> HIDE DEF K
  <2>3. Nat \subseteq K
    BY <2>1, <2>2, InductionOnSet
  <2>4. \A n \in 0 .. N : n \in K /\ n <= N
    BY <1>1, <2>3
  <2> QED BY <2>4 DEF K
<1>11. f \in [0 .. N -> Operand]
  <2>1. f = [n \in 0 .. N |-> f[n]]
    BY <1>8
  <2> QED BY <1>10, <2>1
<1> QED BY <1>8, <1>9, <1>11 DEF To

\* Once at an operation, it stays there.
LEMMA FollowStays ==
  ASSUME loop \in Loops, NEW v \in Operand, NEW n \in 0 .. N, Follow(v)[n] > 0
  PROVE  \A m \in n .. N : Follow(v)[m] = Follow(v)[n]
<1> DEFINE K == {i \in Nat : n + i <= N => Follow(v)[n + i] = Follow(v)[n]}
<1>1. N \in Nat
  BY LoopIs
<1>2. 0 \in K
  OBVIOUS
<1>3. ASSUME NEW i \in Nat, i \in K PROVE i + 1 \in K
  <2>1. CASE n + (i + 1) <= N
    <3>1. n + i \in 0 .. N - 1 /\ n + (i + 1) = (n + i) + 1 /\ Follow(v)[n + i] = Follow(v)[n]
      BY <1>1, <1>3, <2>1
    <3> QED BY <3>1, FollowIs
  <2> QED BY <2>1
<1> HIDE DEF K
<1>4. Nat \subseteq K
  BY <1>2, <1>3, InductionOnSet
<1>5. ASSUME NEW m \in n .. N PROVE Follow(v)[m] = Follow(v)[n]
  <2>1. m - n \in Nat /\ n + (m - n) = m /\ m <= N
    BY <1>1
  <2>2. m - n \in K
    BY <1>4, <2>1
  <2> QED BY <2>1, <2>2 DEF K
<1> QED BY <1>5

\* The distance is where the operation is first met.
LEMMA DistanceIs ==
  ASSUME loop \in Loops, NEW v \in Operand, Defined(v)
  PROVE  /\ Distance(v) \in 0 .. N /\ Origin(v) \in OpIds
         /\ \A n \in 0 .. N : n >= Distance(v) => Follow(v)[n] = Origin(v)
         /\ \A n \in 0 .. N : n < Distance(v) => -Follow(v)[n] \in Args
<1> DEFINE T == {n \in 0 .. N : Follow(v)[n] > 0}
<1>1. N \in Nat /\ Args = 1 .. N /\ Operand \subseteq Int /\ 0 \notin Operand /\ OpIds \subseteq Nat
      /\ \A n \in 0 .. N : Follow(v)[n] \in Operand
  BY LoopIs, FollowIs
<1>2. Origin(v) = Follow(v)[N] /\ Follow(v)[N] > 0
  BY DEF Origin, Defined, N
<1>3. T \in SUBSET Nat /\ T # {}
  BY <1>1, <1>2
<1> HIDE DEF T
<1>4. PICK d \in T : \A n \in T : d <= n
  BY <1>3, LeastNatural
<1>5. Distance(v) = Min(T)
  BY DEF Distance, T, N
<1>6. Distance(v) \in T /\ \A n \in T : Distance(v) <= n
  BY <1>4, <1>5 DEF Min
<1>7. Distance(v) \in 0 .. N /\ Follow(v)[Distance(v)] > 0
  BY <1>6 DEF T
<1>8. \A n \in Distance(v) .. N : Follow(v)[n] = Follow(v)[Distance(v)]
  BY <1>7, FollowStays
<1>9. PICK dist : dist = Distance(v)
  OBVIOUS
<1>10. dist \in 0 .. N /\ \A n \in dist .. N : Follow(v)[n] = Origin(v)
  <2>1. N \in dist .. N
    BY <1>1, <1>7, <1>9
  <2> QED BY <1>2, <1>7, <1>8, <1>9, <2>1
<1>11. Origin(v) \in OpIds
  <2>1. N \in 0 .. N
    BY <1>1
  <2>2. Origin(v) \in Operand
    BY <1>1, <1>2, <2>1
  <2>3. Origin(v) > 0 /\ Origin(v) \in Int
    BY <1>1, <1>2, <2>2
  <2> QED BY <1>1, <2>2, <2>3 DEF Operand
<1>12. ASSUME NEW n \in 0 .. N, n < dist PROVE -Follow(v)[n] \in Args
  <2>1. Follow(v)[n] \in Operand /\ Follow(v)[n] \in Int
    BY <1>1
  <2>2. n \notin T
    BY <1>1, <1>6, <1>9, <1>10, <1>12
  <2>3. ~ (Follow(v)[n] > 0)
    BY <2>2 DEF T
  <2> QED BY <1>1, <2>1, <2>3 DEF Operand
<1>13. ASSUME NEW n \in 0 .. N, n >= dist PROVE Follow(v)[n] = Origin(v)
  <2>1. n \in dist .. N
    BY <1>1, <1>10, <1>13
  <2> QED BY <1>10, <2>1
<1> QED BY <1>9, <1>10, <1>11, <1>12, <1>13

\* To follow from what is met after j steps is to go on.
LEMMA FollowShifts ==
  ASSUME loop \in Loops, NEW v \in Operand, NEW j \in 0 .. N
  PROVE  LET w == Follow(v)[j]
         IN  w \in Operand /\ \A n \in 0 .. N - j : Follow(w)[n] = Follow(v)[j + n]
<1> DEFINE w == Follow(v)[j]
           K == {n \in Nat : n <= N - j => Follow(w)[n] = Follow(v)[j + n]}
<1>1. N \in Nat /\ w \in Operand
  BY LoopIs, FollowIs
<1> HIDE DEF w
<1>2. 0 \in K
  <2>1. Follow(w)[0] = w
    BY <1>1, FollowIs
  <2>2. Follow(v)[j + 0] = w
    BY DEF w
  <2> QED BY <2>1, <2>2
<1>3. ASSUME NEW n \in Nat, n \in K PROVE n + 1 \in K
  <2>1. CASE n + 1 <= N - j
    <3>1. /\ n \in 0 .. N - 1 /\ j + n \in 0 .. N - 1 /\ j + (n + 1) = (j + n) + 1
          /\ Follow(w)[n] = Follow(v)[j + n]
      BY <1>1, <1>3, <2>1
    <3>2. Follow(w)[n + 1] = IF Follow(w)[n] > 0 THEN Follow(w)[n] ELSE loop.yield[-Follow(w)[n]]
      BY <1>1, <3>1, FollowIs
    <3>3. Follow(v)[(j + n) + 1] =
            IF Follow(v)[j + n] > 0 THEN Follow(v)[j + n] ELSE loop.yield[-Follow(v)[j + n]]
      BY <3>1, FollowIs
    <3> QED BY <3>1, <3>2, <3>3
  <2> QED BY <2>1
<1> HIDE DEF K
<1>4. Nat \subseteq K
  BY <1>2, <1>3, InductionOnSet
<1>5. ASSUME NEW n \in 0 .. N - j PROVE Follow(w)[n] = Follow(v)[j + n]
  <2>1. n \in K /\ n <= N - j
    BY <1>1, <1>4
  <2> QED BY <2>1 DEF K
<1> QED BY <1>1, <1>5 DEF w

\* What is met before the operation has the same one, and is that much nearer.
LEMMA DistanceShifts ==
  ASSUME loop \in Loops, NEW v \in Operand, Defined(v), NEW j \in 0 .. Distance(v)
  PROVE  LET w == Follow(v)[j]
         IN  /\ w \in Operand /\ Defined(w) /\ Origin(w) = Origin(v)
             /\ Distance(w) = Distance(v) - j
<1>1. PICK d, o : d = Distance(v) /\ o = Origin(v)
  OBVIOUS
<1>2. /\ N \in Nat /\ d \in 0 .. N /\ o \in OpIds /\ OpIds \subseteq Nat \ {0}
      /\ \A n \in 0 .. N : n >= d => Follow(v)[n] = o
      /\ \A n \in 0 .. N : n < d => -Follow(v)[n] \in Nat \ {0}
  BY <1>1, LoopIs, DistanceIs
<1>3. PICK w : w = Follow(v)[j]
  OBVIOUS
<1>4. j \in 0 .. N /\ j <= d
  BY <1>1, <1>2
<1>5. w \in Operand /\ \A n \in 0 .. N - j : Follow(w)[n] = Follow(v)[j + n]
  BY <1>3, <1>4, FollowShifts
<1>6. Follow(w)[N - j] = o
  BY <1>2, <1>4, <1>5
<1>7. Follow(w)[N] = o
  <2>1. N - j \in 0 .. N /\ N \in N - j .. N /\ Follow(w)[N - j] > 0
    BY <1>2, <1>4, <1>6
  <2> QED BY <1>5, <1>6, <2>1, FollowStays
<1>8. Defined(w) /\ Origin(w) = o
  BY <1>2, <1>7 DEF Defined, Origin, N
<1>9. PICK e : e = Distance(w)
  OBVIOUS
<1>10. /\ e \in 0 .. N
       /\ \A n \in 0 .. N : n >= e => Follow(w)[n] = o
       /\ \A n \in 0 .. N : n < e => -Follow(w)[n] \in Nat \ {0}
  BY <1>2, <1>5, <1>8, <1>9, LoopIs, DistanceIs
<1>11. e <= d - j
  <2> SUFFICES ASSUME d - j < e PROVE FALSE
    BY <1>2, <1>4, <1>10
  <2>1. d - j \in 0 .. N - j /\ d - j \in 0 .. N /\ j + (d - j) = d
    BY <1>2, <1>4
  <2>2. Follow(w)[d - j] = o
    BY <1>2, <1>5, <2>1
  <2>3. -o \in Nat \ {0} /\ o \in Nat \ {0}
    BY <1>2, <1>10, <2>1, <2>2
  <2> QED BY <2>3
<1>12. e >= d - j
  <2> SUFFICES ASSUME e < d - j PROVE FALSE
    BY <1>2, <1>4, <1>10
  <2>1. e \in 0 .. N - j /\ j + e \in 0 .. N /\ j + e < d
    BY <1>2, <1>4, <1>10
  <2>2. Follow(w)[e] = o /\ Follow(w)[e] = Follow(v)[j + e]
    BY <1>5, <1>10, <2>1
  <2>3. -o \in Nat \ {0} /\ o \in Nat \ {0}
    BY <1>2, <2>1, <2>2
  <2> QED BY <2>3
<1>13. e = d - j
  BY <1>2, <1>4, <1>10, <1>11, <1>12
<1> QED BY <1>1, <1>3, <1>5, <1>8, <1>9, <1>13

-----------------------------------------------------------------------------
(* Uses, values and consumers.                                             *)

\* The uses are finitely many, and each is of an operand that is defined.
LEMMA UsesAre ==
  ASSUME loop \in Loops
  PROVE  /\ IsFiniteSet(OpIds) /\ IsFiniteSet(Operand) /\ IsFiniteSet(Uses)
         /\ \A u \in Uses : /\ u = <<u[1], u[2]>> /\ u[1] \in OpIds /\ u[2] \in Operand
                            /\ u[2] \in loop.uses[u[1]] /\ Defined(u[2])
<1>1. /\ OpIds = 1 .. Len(loop.part) /\ Len(loop.part) \in Nat /\ Args = 1 .. N /\ N \in Nat
      /\ \A k \in OpIds : loop.uses[k] \subseteq Operand
  BY LoopIs
<1>2. IsFiniteSet(OpIds)
  <2>1. PICK n \in Nat : OpIds = 1 .. n
    BY <1>1
  <2>2. IsFiniteSet(1 .. n)
    BY <2>1, FS_Interval
  <2> QED BY <2>1, <2>2
<1>3. IsFiniteSet(Operand)
  <2>1. PICK m \in Int : m = -N
    BY <1>1
  <2>2. IsFiniteSet(m .. -1)
    BY FS_Interval
  <2>3. {v \in Int : -v \in Args} \subseteq m .. -1
    BY <1>1, <2>1
  <2>4. IsFiniteSet({v \in Int : -v \in Args})
    BY <2>2, <2>3, FS_Subset
  <2> QED BY <1>2, <2>4, FS_Union DEF Operand
<1>4. ASSUME NEW u \in Uses
      PROVE  /\ u = <<u[1], u[2]>> /\ u[1] \in OpIds /\ u[2] \in Operand
             /\ u[2] \in loop.uses[u[1]] /\ Defined(u[2])
  <2>1. PICK k \in OpIds : u \in {k} \X loop.uses[k]
    BY DEF Uses
  <2>2. Defined(u[2])
    BY DEF Uses
  <2> QED BY <1>1, <2>1, <2>2
<1>5. IsFiniteSet(Uses)
  <2>1. Uses \subseteq OpIds \X Operand
    BY <1>4
  <2>2. IsFiniteSet(OpIds \X Operand)
    BY <1>2, <1>3, FS_Product
  <2> QED BY <2>1, <2>2, FS_Subset
<1> QED BY <1>2, <1>3, <1>4, <1>5

\* A use of another partition's value belongs to a consumer.
LEMMA CrossingIs ==
  ASSUME loop \in Loops, NEW u \in Crossing
  PROVE  /\ u \in Uses /\ u[1] \in OpIds /\ u[2] \in Operand /\ Defined(u[2])
         /\ Origin(u[2]) \in OpIds /\ User(u) \in Partitions /\ Distance(u[2]) \in 0 .. N
         /\ Distance(u[2]) \in Nat /\ Definer(u) = loop.part[Origin(u[2])] /\ Definer(u) # User(u)
         /\ EndOf(u) \in Consumers /\ u \in UsesOf(EndOf(u))
<1>1. u \in Uses /\ Definer(u) # User(u)
  BY DEF Crossing
<1>2. u[1] \in OpIds /\ u[2] \in Operand /\ Defined(u[2])
  BY <1>1, UsesAre
<1>3. Origin(u[2]) \in OpIds /\ Distance(u[2]) \in 0 .. N
  BY <1>2, DistanceIs
<1>4. User(u) \in Partitions /\ Distance(u[2]) \in Nat
  BY <1>2, <1>3, LoopIs DEF User
<1> QED BY <1>1, <1>2, <1>3, <1>4 DEF Consumers, UsesOf, Definer

\* What a consumer is.
LEMMA ConsumersAre ==
  ASSUME loop \in Loops, NEW c \in Consumers
  PROVE  /\ c = <<c[1], c[2], c[3]>> /\ c[1] \in OpIds /\ c[1] \in Values /\ c[2] \in Partitions
         /\ c[2] # loop.part[c[1]] /\ c[3] \in 0 .. N /\ c[3] \in Nat /\ c \in ConsumersOf(c[1])
         /\ UsesOf(c) # {}
         /\ \A u \in UsesOf(c) : /\ u \in Crossing /\ u[1] \in OpIds /\ u[2] \in Operand /\ Defined(u[2])
                                 /\ Origin(u[2]) = c[1] /\ User(u) = c[2] /\ Distance(u[2]) = c[3]
         /\ earliestUser(c) \in OpIds /\ loop.part[earliestUser(c)] = c[2]
<1>1. PICK w \in Crossing : c = EndOf(w)
  BY DEF Consumers
<1>2. c = <<Origin(w[2]), User(w), Distance(w[2])>>
  BY <1>1 DEF EndOf
<1>3. /\ c = <<c[1], c[2], c[3]>> /\ c[1] \in OpIds /\ c[2] \in Partitions
      /\ c[2] # loop.part[c[1]] /\ c[3] \in 0 .. N /\ c[3] \in Nat
  BY <1>2, CrossingIs
<1>4. w \in UsesOf(c) /\ c[1] \in Values /\ c \in ConsumersOf(c[1])
  BY <1>1 DEF UsesOf, Values, ConsumersOf
<1>5. ASSUME NEW u \in UsesOf(c)
      PROVE  /\ u \in Crossing /\ u[1] \in OpIds /\ u[2] \in Operand /\ Defined(u[2])
             /\ Origin(u[2]) = c[1] /\ User(u) = c[2] /\ Distance(u[2]) = c[3]
  <2>1. u \in Crossing /\ c = <<Origin(u[2]), User(u), Distance(u[2])>>
    BY DEF UsesOf, EndOf
  <2> QED BY <2>1, CrossingIs
<1>6. earliestUser(c) \in OpIds /\ loop.part[earliestUser(c)] = c[2]
  <2> DEFINE T == {u[1] : u \in UsesOf(c)}
  <2>1. T \subseteq OpIds /\ T # {} /\ OpIds \subseteq Nat
    BY <1>4, <1>5, LoopIs
  <2>2. \A k \in T : loop.part[k] = c[2]
    BY <1>5 DEF User
  <2>3. earliestUser(c) = CHOOSE x \in T : \A y \in T : x <= y
    BY DEF earliestUser, Min
  <2> HIDE DEF T
  <2>4. \E x \in T : \A y \in T : x <= y
    BY <2>1, LeastNatural
  <2>5. earliestUser(c) \in T
    BY <2>3, <2>4
  <2> QED BY <2>1, <2>2, <2>5
<1> QED BY <1>3, <1>4, <1>5, <1>6

\* A value has consumers, finitely many.
LEMMA ValuesAre ==
  ASSUME loop \in Loops, NEW k \in Values
  PROVE  /\ k \in OpIds /\ loop.part[k] \in Partitions
         /\ IsFiniteSet(ConsumersOf(k)) /\ ConsumersOf(k) # {} /\ ConsumersOf(k) \subseteq Consumers
         /\ numConsumers(k) \in Nat \ {0} /\ numConsumers(k) = Cardinality(ConsumersOf(k))
<1>1. PICK c \in Consumers : c[1] = k
  BY DEF Values
<1>2. k \in OpIds /\ loop.part[k] \in Partitions
  BY <1>1, ConsumersAre, LoopIs
<1>3. c \in ConsumersOf(k) /\ ConsumersOf(k) \subseteq Consumers
  BY <1>1 DEF ConsumersOf
<1>4. IsFiniteSet(Consumers)
  <2> DEFINE f == [u \in Crossing |-> EndOf(u)]
  <2>1. IsFiniteSet(Crossing)
    BY UsesAre, FS_Subset DEF Crossing
  <2>2. f \in Surjection(Crossing, Consumers)
    BY DEF Surjection, Consumers
  <2> HIDE DEF f
  <2> QED BY <2>1, <2>2, FS_Surjection
<1>5. IsFiniteSet(ConsumersOf(k))
  BY <1>3, <1>4, FS_Subset
<1>6. Cardinality(ConsumersOf(k)) \in Nat /\ Cardinality(ConsumersOf(k)) # 0
  BY <1>3, <1>5, FS_CardinalityType, FS_EmptySet
<1> QED BY <1>2, <1>3, <1>5, <1>6 DEF numConsumers

\* The buffers behind the initial values are at least one.
LEMMA RingHasBuffers ==
  ASSUME loop \in Loops, verify, NEW k \in Values
  PROVE  maxUseDistance(k) \in Nat \ {0}
<1> DEFINE D(c) == loop.stage[c[2]] - loop.stage[loop.part[k]] + c[3]
           T == {D(c) : c \in ConsumersOf(k)}
           f == [c \in ConsumersOf(k) |-> D(c)]
<1>1. IsFiniteSet(ConsumersOf(k)) /\ ConsumersOf(k) # {} /\ ConsumersOf(k) \subseteq Consumers
  BY ValuesAre
<1>2. ASSUME NEW c \in ConsumersOf(k) PROVE D(c) \in Nat \ {0}
  <2>1. c \in Consumers /\ c[1] = k
    BY DEF ConsumersOf
  <2>2. PICK u \in UsesOf(c) : TRUE
    BY <2>1, ConsumersAre
  <2>3. u \in Crossing /\ Origin(u[2]) = k /\ User(u) = c[2] /\ Distance(u[2]) = c[3]
    BY <2>1, ConsumersAre
  <2>4. u \in Uses /\ Definer(u) # User(u) /\ Definer(u) = loop.part[k] /\ User(u) \in Partitions /\ Definer(u) \in Partitions
    BY <2>3, CrossingIs, LoopIs
  <2>5. loop.stage[loop.part[k]] < loop.stage[c[2]] + c[3]
    BY <2>3, <2>4 DEF verify
  <2>6. loop.stage[loop.part[k]] \in Int /\ loop.stage[c[2]] \in Int /\ c[3] \in Nat
    BY <2>1, <2>3, <2>4, LoopIs, ConsumersAre
  <2> QED BY <2>5, <2>6
<1>3. T \subseteq Nat \ {0} /\ T # {}
  BY <1>1, <1>2
<1>4. f \in Surjection(ConsumersOf(k), T)
  BY DEF Surjection
<1>5. maxUseDistance(k) = CHOOSE x \in T : \A y \in T : x >= y
  BY DEF maxUseDistance, Max
<1> HIDE DEF f, T, D
<1>6. IsFiniteSet(T)
  BY <1>1, <1>4, FS_Surjection
<1>7. PICK n \in Nat : ExistsSurjection(1 .. n, T)
  BY <1>6, FS_NatSurjection
<1>8. PICK g : g \in Surjection(1 .. n, T)
  BY <1>7 DEF ExistsSurjection
<1>9. g \in [1 .. n -> T] /\ \A t \in T : \E i \in 1 .. n : g[i] = t
  BY <1>8 DEF Surjection
<1>10. g \in [1 .. n -> Nat]
  BY <1>3, <1>9
<1>11. PICK b \in Nat : \A i \in 1 .. n : g[i] <= b
  BY <1>10, BoundOfImage
<1>12. T \in SUBSET Nat /\ \A t \in T : t <= b
  BY <1>3, <1>9, <1>11
<1>13. PICK x \in T : \A y \in T : y <= x
  BY <1>3, <1>12, GreatestNatural
<1>14. \E x0 \in T : \A y \in T : x0 >= y
  BY <1>12, <1>13
<1>15. maxUseDistance(k) \in T
  BY <1>5, <1>14
<1> QED BY <1>3, <1>15

-----------------------------------------------------------------------------
(* Branches of iter args, and their buffers.                               *)

\* An iter arg through which an operand is met.
LEMMA ArgIs ==
  ASSUME loop \in Loops, NEW a \in Args, Defined(-a)
  PROVE  /\ -a \in Operand /\ -(-a) = a /\ a \in Nat \ {0} /\ Follow(-a)[0] = -a
         /\ Distance(-a) \in 1 .. N /\ Distance(-a) \in Nat
<1>1. N \in Nat /\ Args = 1 .. N
  BY LoopIs
<1>2. a \in Nat \ {0} /\ -a \in Int /\ -(-a) = a
  BY <1>1
<1>3. -a \in Operand
  BY <1>1, <1>2 DEF Operand
<1>4. Follow(-a)[0] = -a
  BY <1>3, FollowIs
<1>5. Distance(-a) \in 0 .. N /\ Distance(-a) # 0
  <2>1. Distance(-a) \in 0 .. N /\ Origin(-a) \in OpIds /\ \A n \in 0 .. N : n >= Distance(-a) => Follow(-a)[n] = Origin(-a)
    BY <1>3, DistanceIs
  <2>2. 0 \in 0 .. N /\ OpIds \subseteq Nat \ {0}
    BY <1>1, LoopIs
  <2>3. Distance(-a) = 0 => Origin(-a) = -a
    BY <1>4, <2>1, <2>2
  <2>4. Origin(-a) \in Nat
    BY <2>1, <2>2
  <2> QED BY <1>2, <2>1, <2>3, <2>4
<1> QED BY <1>1, <1>2, <1>3, <1>4, <1>5

\* What is met on the way from b.
Met(b, j) == -Follow(-b)[j]

\* The path to an iter arg, read from either end.
LEMMA PathIs ==
  ASSUME loop \in Loops, NEW b \in Args, Defined(-b)
  PROVE  /\ DOMAIN Path(b) = 1 .. Distance(-b)
         /\ \A i \in 1 .. Distance(-b) : Path(b)[i] = Met(b, Distance(-b) - i)
         /\ \A j \in 0 .. Distance(-b) - 1 : Path(b)[Distance(-b) - j] = Met(b, j) /\ Met(b, j) \in Range(Path(b))
         /\ \A a \in Range(Path(b)) : \E j \in 0 .. Distance(-b) - 1 : a = Met(b, j)
         /\ \A j \in 0 .. Distance(-b) - 1 :
               /\ Met(b, j) \in Args /\ -Met(b, j) = Follow(-b)[j] /\ Defined(-Met(b, j))
               /\ Origin(-Met(b, j)) = Origin(-b) /\ Distance(-Met(b, j)) = Distance(-b) - j
<1>1. PICK d : d = Distance(-b)
  OBVIOUS
<1>2. d \in 1 .. N /\ d \in Nat /\ -b \in Operand /\ N \in Nat /\ Args = 1 .. N
  BY <1>1, ArgIs, LoopIs
<1>3. DOMAIN Path(b) = 1 .. d /\ \A i \in 1 .. d : Path(b)[i] = Met(b, d - i)
  BY <1>1 DEF Path, Met
<1>4. ASSUME NEW j \in 0 .. d - 1
      PROVE  Path(b)[d - j] = Met(b, j) /\ Met(b, j) \in Range(Path(b))
  <2>1. d - j \in 1 .. d /\ d - (d - j) = j
    BY <1>2
  <2> QED BY <1>3, <2>1 DEF Range
<1>5. ASSUME NEW a \in Range(Path(b)) PROVE \E j \in 0 .. d - 1 : a = Met(b, j)
  <2>1. PICK i \in 1 .. d : a = Path(b)[i]
    BY <1>3 DEF Range
  <2>2. d - i \in 0 .. d - 1 /\ a = Met(b, d - i)
    BY <1>2, <1>3, <2>1
  <2> QED BY <2>2
<1>6. ASSUME NEW j \in 0 .. d - 1
      PROVE  /\ Met(b, j) \in Args /\ -Met(b, j) = Follow(-b)[j] /\ Defined(-Met(b, j))
             /\ Origin(-Met(b, j)) = Origin(-b) /\ Distance(-Met(b, j)) = d - j
  <2>1. j \in 0 .. d /\ j \in 0 .. N /\ j < d
    BY <1>2
  <2>2. PICK w : w = Follow(-b)[j]
    OBVIOUS
  <2>3. w \in Operand /\ Defined(w) /\ Origin(w) = Origin(-b) /\ Distance(w) = d - j
    BY <1>1, <1>2, <2>1, <2>2, DistanceShifts
  <2>4. -w \in Args
    BY <1>1, <1>2, <2>1, <2>2, DistanceIs
  <2>5. w \in Int /\ -(-w) = w
    BY <2>3, LoopIs
  <2>6. Met(b, j) = -w
    BY <2>2 DEF Met
  <2> QED BY <2>2, <2>3, <2>4, <2>5, <2>6
<1> QED BY <1>1, <1>3, <1>4, <1>5, <1>6

\* The tree of a value has only iter args that come from it.
LEMMA NodesAre ==
  ASSUME loop \in Loops, NEW k, NEW a \in Nodes(k)
  PROVE  /\ a \in Args /\ Defined(-a) /\ Origin(-a) = k /\ Distance(-a) \in 1 .. N
         /\ Range(Path(a)) \subseteq Nodes(k)
<1>1. PICK u \in Crossing : Origin(u[2]) = k /\ u[2] < 0 /\ a \in Range(Path(-u[2]))
  BY DEF Nodes
<1>2. u[2] \in Operand /\ Defined(u[2]) /\ u[2] \in Int
  BY <1>1, CrossingIs, LoopIs
<1>3. PICK b : b = -u[2]
  OBVIOUS
<1>4. b \in Args /\ -b = u[2] /\ Defined(-b) /\ Origin(-b) = k /\ a \in Range(Path(b))
  <2>1. u[2] \notin OpIds
    BY <1>1, <1>2, LoopIs
  <2>2. -b = u[2]
    BY <1>2, <1>3
  <2> QED BY <1>1, <1>2, <1>3, <2>1, <2>2 DEF Operand
<1>5. PICK j \in 0 .. Distance(-b) - 1 : a = Met(b, j)
  BY <1>4, PathIs
<1>6. /\ a \in Args /\ -a = Follow(-b)[j] /\ Defined(-a) /\ Origin(-a) = k
      /\ Distance(-a) = Distance(-b) - j
  BY <1>4, <1>5, PathIs
<1>7. Distance(-a) \in 1 .. N
  BY <1>6, ArgIs
<1>8. ASSUME NEW x \in Range(Path(a)) PROVE x \in Nodes(k)
  <2>1. PICK i \in 0 .. Distance(-a) - 1 : x = Met(a, i)
    BY <1>6, PathIs
  <2>2. PICK d, e \in Nat : d = Distance(-b) /\ e = Distance(-a)
    BY <1>4, <1>6, ArgIs
  <2>3. d \in 1 .. N /\ N \in Nat
    BY <1>4, <2>2, ArgIs, LoopIs
  <2>4. e = d - j /\ j \in 0 .. d - 1 /\ i \in 0 .. e - 1
    BY <1>6, <2>1, <2>2
  <2>5. j \in 0 .. N /\ i \in 0 .. N - j /\ j + i \in 0 .. d - 1
    BY <2>2, <2>3, <2>4
  <2>6. Follow(-a)[i] = Follow(-b)[j + i]
    BY <1>2, <1>4, <1>6, <2>5, FollowShifts
  <2>7. x = Met(b, j + i)
    BY <2>1, <2>6 DEF Met
  <2>8. x \in Range(Path(b))
    BY <1>4, <2>2, <2>5, <2>7, PathIs
  <2> QED BY <1>1, <1>3, <2>8 DEF Nodes
<1> QED BY <1>6, <1>7, <1>8

\* Every iter arg of a branch is on the path of a leaf.
LEMMA LeafAbove ==
  ASSUME loop \in Loops, NEW k, NEW a \in Nodes(k)
  PROVE  \E b \in Leaves(k) : a \in Range(Path(b))
<1>1. N \in Nat
  BY LoopIs
<1> DEFINE T == {Distance(-b) : b \in {x \in Nodes(k) : a \in Range(Path(x))}}
<1>2. a \in Range(Path(a))
  <2>1. a \in Args /\ Defined(-a) /\ Distance(-a) \in 1 .. N
    BY NodesAre
  <2>2. 0 \in 0 .. Distance(-a) - 1
    BY <1>1, <2>1
  <2>3. Met(a, 0) = a
    BY <2>1, ArgIs DEF Met
  <2> QED BY <2>1, <2>2, <2>3, PathIs
<1>3. T \in SUBSET Nat /\ T # {} /\ \A n \in T : n <= N
  <2>1. \A b \in Nodes(k) : Distance(-b) \in 1 .. N
    BY NodesAre
  <2>2. \A n \in T : n \in 1 .. N
    BY <2>1
  <2> QED BY <1>1, <1>2, <2>2
<1>4. PICK n \in T : \A m \in T : m <= n
  <2> HIDE DEF T
  <2> QED BY <1>1, <1>3, GreatestNatural
<1>5. PICK b \in Nodes(k) : a \in Range(Path(b)) /\ Distance(-b) = n
  OBVIOUS
<1>6. ASSUME NEW x \in Nodes(k), loop.yield[x] = -b PROVE FALSE
  <2>1. /\ x \in Args /\ Defined(-x) /\ Distance(-x) \in 1 .. N /\ -x \in Operand
        /\ b \in Args /\ Defined(-b) /\ Distance(-b) \in 1 .. N /\ -b \in Operand
        /\ Follow(-x)[0] = -x /\ -(-x) = x /\ x \in Nat \ {0} /\ b \in Nat \ {0}
    BY NodesAre, ArgIs
  <2>2. 1 \in 0 .. N /\ 0 \in 0 .. N - 1 /\ 0 + 1 = 1
    BY <1>1, <2>1
  <2>3. Follow(-x)[1] = -b
    <3>1. ~ (-x > 0)
      BY <2>1
    <3>2. Follow(-x)[0 + 1] = IF Follow(-x)[0] > 0 THEN Follow(-x)[0] ELSE loop.yield[-Follow(-x)[0]]
      BY <2>1, <2>2, FollowIs
    <3> QED BY <1>6, <2>1, <2>2, <3>1, <3>2
  <2>4. PICK d, e \in Nat : d = Distance(-x) /\ e = Distance(-b)
    BY <1>1, <2>1
  <2>5. e = d - 1
    <3>1. 1 \in 0 .. Distance(-x)
      BY <2>1
    <3> QED BY <2>1, <2>3, <2>4, <3>1, DistanceShifts
  <2>6. PICK j \in 0 .. e - 1 : a = Met(b, j)
    BY <1>5, <2>1, <2>4, PathIs
  <2>7. j \in 0 .. N - 1 /\ 1 + j \in 0 .. d - 1
    BY <1>1, <2>1, <2>4, <2>5
  <2>8. Follow(-b)[j] = Follow(-x)[1 + j]
    BY <2>1, <2>2, <2>3, <2>7, FollowShifts
  <2>9. a = Met(x, 1 + j)
    BY <2>6, <2>8 DEF Met
  <2>10. a \in Range(Path(x))
    BY <2>1, <2>4, <2>7, <2>9, PathIs
  <2>11. d \in T
    BY <2>4, <2>10
  <2>12. d <= n
    BY <1>4, <2>11
  <2> QED BY <1>5, <2>4, <2>5, <2>12
<1> QED BY <1>5, <1>6 DEF Leaves

\* The initial values have a buffer for each iter arg of each leaf's path.
Depths(k) == [a \in Leaves(k) |-> Distance(-a)]

\* The first buffers are as many as the depths of the leaves together.
LEMMA LeavesAre ==
  ASSUME loop \in Loops, NEW k
  PROVE  /\ Leaves(k) \subseteq Nodes(k) /\ IsFiniteSet(Leaves(k))
         /\ \A a \in Leaves(k) : Depths(k)[a] = Distance(-a) /\ Depths(k)[a] \in Nat
         /\ getTotalBranchDepth(k) = Sum(Depths(k), Leaves(k)) /\ getTotalBranchDepth(k) \in Nat
<1>1. Leaves(k) \subseteq Nodes(k) /\ N \in Nat /\ Args = 1 .. N
  BY LoopIs DEF Leaves
<1>2. IsFiniteSet(Leaves(k))
  <2>1. Leaves(k) \subseteq 1 .. N
    BY <1>1, NodesAre
  <2>2. IsFiniteSet(1 .. N)
    BY <1>1, FS_Interval
  <2> QED BY <2>1, <2>2, FS_Subset
<1>3. \A a \in Leaves(k) : Depths(k)[a] = Distance(-a) /\ Depths(k)[a] \in Nat
  BY <1>1, NodesAre DEF Depths
<1>4. getTotalBranchDepth(k) = Sum(Depths(k), Leaves(k))
  <2>1. DOMAIN Depths(k) = Leaves(k)
    BY DEF Depths
  <2>2. getTotalBranchDepth(k) = SumFunctionOnSet(Depths(k), DOMAIN Depths(k))
    BY DEF getTotalBranchDepth, SumFunction, SumFunctionOnSet, FoldFunction, Depths
  <2> QED BY <2>1, <2>2 DEF Sum
<1>5. Sum(Depths(k), Leaves(k)) \in Nat
  BY <1>2, <1>3, SumOfNaturals
<1> QED BY <1>1, <1>2, <1>3, <1>4, <1>5

\* A traversal numbers the leaves.
LEMMA TraversalIs ==
  ASSUME loop \in Loops, NEW k, NEW t \in Traversals(k)
  PROVE  /\ Len(t) \in Nat /\ DOMAIN t = 1 .. Len(t) /\ t \in [1 .. Len(t) -> Leaves(k)]
         /\ \A i, j \in 1 .. Len(t) : i # j => t[i] # t[j]
         /\ \A b \in Leaves(k) : \E i \in 1 .. Len(t) : t[i] = b
<1>1. IsFiniteSet(Leaves(k))
  BY LeavesAre
<1>2. PICK m \in Nat : m = Cardinality(Leaves(k))
  BY <1>1, FS_CardinalityType
<1>3. t \in [1 .. m -> Leaves(k)] /\ \A i, j \in 1 .. m : i # j => t[i] # t[j]
  BY <1>2 DEF Traversals, SetToSeqs
<1>4. t \in Seq(Leaves(k))
  BY <1>3, SeqDef
<1>5. Len(t) = m
  <2>1. Len(t) \in Nat /\ DOMAIN t = 1 .. Len(t)
    BY <1>4, LenProperties
  <2> QED BY <1>2, <1>3, <2>1
<1>6. t \in Surjection(1 .. m, Leaves(k))
  <2>1. t \in Injection(1 .. m, Leaves(k))
    BY <1>3 DEF Injection, IsInjective
  <2>2. Cardinality(1 .. m) = m
    BY <1>2, FS_Interval
  <2> QED BY <1>1, <1>2, <2>1, <2>2, FS_Injection
<1>7. \A b \in Leaves(k) : \E i \in 1 .. m : t[i] = b
  BY <1>6 DEF Surjection
<1> QED BY <1>2, <1>3, <1>5, <1>7

\* The branches of a traversal follow each other and are all of the buffers.
LEMMA SegmentsAre ==
  ASSUME loop \in Loops, NEW k, NEW t \in Traversals(k), NEW n \in 1 .. Len(t)
  PROVE  /\ Distance(-t[n]) \in Nat /\ SegStart(t, n) \in Nat
         /\ SegEnd(t, n) = SegStart(t, n) + Distance(-t[n])
         /\ SegEnd(t, n) \in Nat /\ SegEnd(t, n) <= getTotalBranchDepth(k)
         /\ n = Len(t) => SegEnd(t, n) = getTotalBranchDepth(k)
         /\ SegStart(t, n + 1) = SegEnd(t, n) /\ SegStart(t, 1) = 0
<1> DEFINE h == [i \in DOMAIN t |-> Distance(-t[i])]
<1>1. PICK m \in Nat : m = Len(t)
  BY TraversalIs
<1>2. /\ t \in [1 .. m -> Leaves(k)] /\ \A i, j \in 1 .. m : i # j => t[i] # t[j]
      /\ \A b \in Leaves(k) : \E i \in 1 .. m : t[i] = b
      /\ n \in 1 .. m /\ DOMAIN t = 1 .. m
  BY <1>1, TraversalIs
<1>3. PICK f : f = Depths(k)
  OBVIOUS
<1>4. \A b \in Leaves(k) : f[b] = Distance(-b) /\ f[b] \in Nat
  BY <1>3, LeavesAre
<1>5. \A i \in 1 .. m : h[i] = f[t[i]] /\ h[i] \in Nat /\ h[i] = Distance(-t[i])
  BY <1>2, <1>4
<1>6. SegStart(t, n) = Sum(h, 1 .. n - 1)
  BY DEF SegStart, Sum
<1>7. SegStart(t, n + 1) = Sum(h, 1 .. (n + 1) - 1) /\ (n + 1) - 1 = n
  BY <1>2 DEF SegStart, Sum
<1>8. SegStart(t, 1) = Sum(h, 1 .. 1 - 1)
  BY DEF SegStart, Sum
<1> HIDE DEF h
<1>9. SegStart(t, 1) = 0
  <2>1. 1 .. 1 - 1 = {}
    OBVIOUS
  <2> QED BY <1>8, <2>1, SumEmpty
<1>10. IsFiniteSet(1 .. m)
  BY FS_Interval
<1>11. \A T \in SUBSET (1 .. m) : Sum(h, T) \in Nat /\ Sum(h, T) <= Sum(h, 1 .. m)
  BY <1>5, <1>10, SumOfNaturals
<1>12. Sum(h, 1 .. m) = getTotalBranchDepth(k)
  <2>1. Sum(h, 1 .. m) = Sum(f, Seen(t, m))
    <3>1. \A b \in Leaves(k) : f[b] \in Int
      BY <1>4
    <3>2. Orders(t, m, Leaves(k))
      BY <1>2 DEF Orders
    <3>3. \A i \in 1 .. m : h[i] = f[t[i]]
      BY <1>5
    <3>4. \A i \in 0 .. m : Sum(h, 1 .. i) = Sum(f, Seen(t, i))
      BY <3>1, <3>2, <3>3, SumInOrder
    <3>5. m \in 0 .. m
      OBVIOUS
    <3> QED BY <3>4, <3>5
  <2>2. Seen(t, m) = Leaves(k)
    BY <1>2 DEF Seen
  <2> QED BY <1>3, <2>1, <2>2, LeavesAre
<1>13. Sum(h, 1 .. n) = h[n] + Sum(h, 1 .. n - 1)
  <2>1. 1 .. n - 1 \subseteq 1 .. m /\ n \notin 1 .. n - 1 /\ 1 .. n = (1 .. n - 1) \cup {n}
    BY <1>2
  <2>2. IsFiniteSet(1 .. n - 1)
    BY <1>10, <2>1, FS_Subset
  <2>3. h[n] \in Int /\ \A i \in 1 .. n - 1 : h[i] \in Int
    BY <1>2, <1>5, <2>1
  <2> QED BY <2>1, <2>2, <2>3, SumAdd
<1>14. /\ Sum(h, 1 .. n - 1) \in Nat /\ h[n] \in Nat /\ h[n] = Distance(-t[n])
       /\ Sum(h, 1 .. n) \in Nat /\ Sum(h, 1 .. n) <= Sum(h, 1 .. m)
  <2>1. 1 .. n - 1 \in SUBSET (1 .. m) /\ 1 .. n \in SUBSET (1 .. m)
    BY <1>2
  <2> QED BY <1>2, <1>5, <1>11, <2>1
<1>15. SegEnd(t, n) = SegStart(t, n) + Distance(-t[n])
  BY DEF SegEnd
<1>16. SegEnd(t, n) = Sum(h, 1 .. n)
  BY <1>6, <1>13, <1>14, <1>15
<1>17. SegStart(t, n + 1) = SegEnd(t, n)
  BY <1>16, <1>7
<1> QED BY <1>1, <1>6, <1>12, <1>14, <1>15, <1>16, <1>9, <1>17

\* The branch of a node is one whose path it is on.
LEMMA BranchIs ==
  ASSUME loop \in Loops, NEW k, NEW t \in Traversals(k), NEW a \in Nodes(k)
  PROVE  /\ BranchOf(t, a) \in 1 .. Len(t) /\ a \in Range(Path(t[BranchOf(t, a)]))
         /\ t[BranchOf(t, a)] \in Args /\ Defined(-t[BranchOf(t, a)])
         /\ Distance(-a) \in Nat /\ Distance(-a) <= Distance(-t[BranchOf(t, a)])
<1>1. PICK b \in Leaves(k) : a \in Range(Path(b))
  BY LeafAbove
<1>2. Len(t) \in Nat /\ DOMAIN t = 1 .. Len(t) /\ t \in [1 .. Len(t) -> Leaves(k)]
  BY TraversalIs
<1>3. PICK i \in 1 .. Len(t) : t[i] = b
  BY TraversalIs
<1>4. Below(a, t) \in SUBSET Nat /\ Below(a, t) # {}
  BY <1>1, <1>2, <1>3 DEF Below
<1>5. PICK n \in Below(a, t) : \A m \in Below(a, t) : n <= m
  BY <1>4, LeastNatural
<1>6. BranchOf(t, a) \in Below(a, t)
  BY <1>5 DEF BranchOf, Min
<1>7. BranchOf(t, a) \in 1 .. Len(t) /\ a \in Range(Path(t[BranchOf(t, a)]))
  BY <1>2, <1>6 DEF Below
<1>8. PICK x : x = t[BranchOf(t, a)]
  OBVIOUS
<1>9. x \in Args /\ Defined(-x)
  BY <1>2, <1>7, <1>8, LeavesAre, NodesAre
<1>10. Distance(-a) <= Distance(-x)
  <2>1. PICK j \in 0 .. Distance(-x) - 1 : a = Met(x, j)
    BY <1>7, <1>8, <1>9, PathIs
  <2>2. Distance(-a) = Distance(-x) - j /\ Distance(-x) \in Nat
    BY <1>9, <2>1, PathIs, ArgIs
  <2> QED BY <2>1, <2>2
<1>11. Distance(-a) \in Nat
  BY NodesAre, LoopIs
<1> QED BY <1>7, <1>8, <1>9, <1>10, <1>11

-----------------------------------------------------------------------------
(* The inductive invariant.                                                *)

Ends == Consumers \cup {Producer(k) : k \in Values}
First(k) == getTotalBranchDepth(k)
Size(k) == First(k) + maxUseDistance(k)
Ring(k) == First(k) .. Size(k) - 1

\* The end is at its buffer; it is through with buffer n in this round; the
\* parity of the round in which it comes to buffer n next, or is at it.
Holds(e) == pc[e[2]].held /\ pc[e[2]].end = e
Past(e, n) == n < async[e].idx \/ (n = async[e].idx /\ ~ Holds(e))
Bit(e, n) == IF Past(e, n) THEN 1 - async[e].phase ELSE async[e].phase
\* The consumers that have yet to load what is stored in buffer n.
Behind(k, n) == {c \in ConsumersOf(k) : Bit(c, n) # Bit(Producer(k), n)}

Where(e) ==
    LET x == code.index[e]
    IN /\ x.first = First(e[1]) /\ x.size = Size(e[1])
       /\ IF e \in Consumers /\ e[3] > 0
          THEN /\ x.start \in Nat /\ x.start + e[3] <= x.first
               /\ \/ x.leave = x.start + e[3]
                  \/ x.leave = 0 /\ x.start + e[3] = x.first
          ELSE x.start = x.first /\ x.leave = 0
Loads(k) == {c \in Consumers : earliestUser(c) = k}
CodeOK ==
    /\ DOMAIN code.index = Ends /\ \A e \in Ends : Where(e)
    /\ code.loads = [k \in OpIds |-> Loads(k)] /\ code.stores = Values

Barrier(b) == b = [count |-> b.count, pending |-> b.pending, parity |-> b.parity]
ReadyOK(b) == Barrier(b) /\ b.count = 1 /\ b.pending = 1
EmptyOK(k, b) == Barrier(b) /\ b.count = numConsumers(k) /\ b.pending \in 1 .. numConsumers(k)
BarriersOK ==
    /\ DOMAIN ready = Values /\ DOMAIN empty = Values /\ DOMAIN buf = Values
    /\ \A k \in Values :
          /\ DOMAIN ready[k] = Slots(k) /\ DOMAIN empty[k] = Slots(k)
          /\ \A n \in Slots(k) : ReadyOK(ready[k][n]) /\ EmptyOK(k, empty[k][n])
RingIsEmpty(k) ==
    \A n \in Ring(k) : /\ ready[k][n].parity = 0
                       /\ empty[k][n].parity = 1 /\ empty[k][n].pending = numConsumers(k)

\* A partition is at an end of its own, or through.
AtEnd(P, q) ==
    /\ q = [it |-> q.it, op |-> q.op, left |-> q.left, end |-> q.end, held |-> q.held]
    /\ q.it \in 0 .. trip - 1 /\ q.op \in OpIds /\ loop.part[q.op] = P /\ q.held \in BOOLEAN
    /\ q.left \subseteq Loads(q.op)
    /\ \/ q.end \in Loads(q.op) \ q.left
       \/ q.op \in Values /\ q.end = Producer(q.op) /\ q.left = {}
Placed(P, q) == q = Finished \/ AtEnd(P, q)

IndexOK(e) ==
    LET a == async[e]
    IN /\ a.idx \in Int /\ a.phase \in {0, 1}
       /\ a.idx < Size(e[1])
       /\ a.idx < First(e[1]) => a.phase = 0
       /\ e \notin Consumers => a.idx >= First(e[1]) - 1

\* A full buffer waits for the consumers that are behind, an empty one for the
\* producer.
BufferOK(k, n) ==
    LET b == Bit(Producer(k), n)
    IN /\ ready[k][n].parity = b
       /\ IF Behind(k, n) = {}
          THEN empty[k][n].pending = numConsumers(k) /\ empty[k][n].parity = 1 - b
          ELSE empty[k][n].pending = Cardinality(Behind(k, n)) /\ empty[k][n].parity = b
RingOK(k) == \A n \in Ring(k) : BufferOK(k, n)
HeldOK(e) ==
    Holds(e) =>
      IF e \in Consumers THEN async[e].idx >= First(e[1]) => e \in Behind(e[1], async[e].idx)
      ELSE async[e].idx >= First(e[1]) /\ Behind(e[1], async[e].idx) = {}

Running ==
    /\ DOMAIN pc = Partitions /\ DOMAIN async = Ends /\ DOMAIN got = Consumers
    /\ \A P \in Partitions : Placed(P, pc[P])
    /\ \A e \in Ends : IndexOK(e)
    /\ \A e \in Ends : HeldOK(e)
    /\ \A k \in Values : RingOK(k)

Phases == {"verify", "rewrite", "enter", "run", "done", "rejected"}
IInv ==
    /\ loop \in Loops /\ trip \in Trips /\ phase \in Phases
    /\ phase \in {"rewrite", "enter", "run"} => verify
    /\ phase \in {"enter", "run"} => CodeOK /\ BarriersOK
    /\ phase = "enter" => \A k \in Values : RingIsEmpty(k)
    /\ phase = "run" => Running

-----------------------------------------------------------------------------
(* The loop stays as it is, and all that is said of it.                    *)

Same1 == /\ OpIds' = OpIds /\ Args' = Args /\ Partitions' = Partitions
         /\ \A v : Follow(v)' = Follow(v)
Same2 == /\ \A v : Origin(v)' = Origin(v) /\ Distance(v)' = Distance(v)
         /\ \A v : Defined(v)' <=> Defined(v)
Same3 == /\ Uses' = Uses
         /\ \A u : Definer(u)' = Definer(u) /\ User(u)' = User(u) /\ EndOf(u)' = EndOf(u)
Same4 == /\ Crossing' = Crossing /\ Consumers' = Consumers
Same5 == /\ Values' = Values
         /\ \A k : ConsumersOf(k)' = ConsumersOf(k) /\ Producer(k)' = Producer(k)
         /\ \A c : UsesOf(c)' = UsesOf(c)
Same6 == /\ \A k : maxUseDistance(k)' = maxUseDistance(k) /\ numConsumers(k)' = numConsumers(k)
         /\ \A c : earliestUser(c)' = earliestUser(c)
         /\ \A k : getTotalBranchDepth(k)' = getTotalBranchDepth(k)
Same7 == /\ Ends' = Ends /\ \A k : First(k)' = First(k) /\ Size(k)' = Size(k) /\ Ring(k)' = Ring(k) /\ Slots(k)' = Slots(k)
         /\ \A k : Loads(k)' = Loads(k)
         /\ verify' <=> verify

\* Everything that is defined from the loop alone.
LEMMA SameLoop ==
  ASSUME loop' = loop
  PROVE  Same1 /\ Same2 /\ Same3 /\ Same4 /\ Same5 /\ Same6 /\ Same7
<1>1. Same1
  BY DEF Same1, OpIds, Args, Partitions, Follow
<1>2. Same2
  <2>1. \A v : Origin(v)' = Origin(v)
    BY <1>1 DEF Same1, Origin
  <2>2. \A v : Distance(v)' = Distance(v)
    BY <1>1 DEF Same1, Distance, Min
  <2> QED BY <2>1, <2>2 DEF Same2, Defined
<1>3. Same3
  <2>1. Uses' = Uses
    BY <1>1, <1>2 DEF Same1, Same2, Uses
  <2>2. \A u : Definer(u)' = Definer(u) /\ User(u)' = User(u)
    BY <1>2 DEF Same2, Definer, User
  <2> QED BY <1>2, <2>1, <2>2 DEF Same2, Same3, EndOf
<1>4. Same4
  BY <1>3 DEF Same3, Same4, Crossing, Consumers
<1>5. Same5
  <2>1. Values' = Values /\ \A k : ConsumersOf(k)' = ConsumersOf(k) /\ Producer(k)' = Producer(k)
    BY <1>4 DEF Same4, Values, ConsumersOf, Producer
  <2>2. \A c : UsesOf(c)' = UsesOf(c)
    BY <1>3, <1>4 DEF Same3, Same4, UsesOf
  <2> QED BY <2>1, <2>2 DEF Same5
<1>6. Same6
  <2>1. \A k : maxUseDistance(k)' = maxUseDistance(k)
    BY <1>5 DEF Same5, maxUseDistance, Max
  <2>2. \A k : numConsumers(k)' = numConsumers(k)
    BY <1>5 DEF Same5, numConsumers
  <2>3. \A c : earliestUser(c)' = earliestUser(c)
    BY <1>5 DEF Same5, earliestUser, Min
  <2>4. \A a : Path(a)' = Path(a)
    BY <1>1, <1>2 DEF Same1, Same2, Path
  <2>5. \A k : Nodes(k)' = Nodes(k)
    <3>1. \A u : Range(Path(-u[2]))' = Range(Path(-u[2]))
      BY <2>4 DEF Range
    <3>2. \A k : {w \in Crossing : Origin(w[2]) = k /\ w[2] < 0}' = {w \in Crossing : Origin(w[2]) = k /\ w[2] < 0}
      BY <1>2, <1>4 DEF Same2, Same4
    <3> QED BY <3>1, <3>2 DEF Nodes
  <2>6. \A k : Leaves(k)' = Leaves(k)
    BY <2>5 DEF Leaves
  <2>7. \A k : getTotalBranchDepth(k)' = getTotalBranchDepth(k)
    BY <1>2, <2>6 DEF Same2, getTotalBranchDepth
  <2> QED BY <2>1, <2>2, <2>3, <2>7 DEF Same6
<1>7. Same7
  <2>1. \A k : First(k)' = First(k) /\ Size(k)' = Size(k) /\ Ring(k)' = Ring(k)
    BY <1>6 DEF Same6, First, Size, Ring
  <2>2. \A k : Slots(k)' = Slots(k)
    BY <1>6 DEF Same6, Slots
  <2>3. Ends' = Ends
    BY <1>4, <1>5 DEF Same4, Same5, Ends
  <2>4. \A k : Loads(k)' = Loads(k)
    BY <1>4, <1>6 DEF Same4, Same6, Loads
  <2>5. verify' <=> verify
    BY <1>2, <1>3 DEF Same2, Same3, verify
  <2> QED BY <2>1, <2>2, <2>3, <2>4, <2>5 DEF Same7
<1> QED BY <1>1, <1>2, <1>3, <1>4, <1>5, <1>6, <1>7

-----------------------------------------------------------------------------
(* Ends, and the places of a partition.                                    *)

\* An end is a consumer or the producer of a value, and has a partition.
LEMMA EndIs ==
  ASSUME loop \in Loops, NEW e \in Ends
  PROVE  /\ e[1] \in Values /\ e[2] \in Partitions /\ e # None
         /\ e \in Consumers \/ e = Producer(e[1])
         /\ e \in Consumers <=> e # Producer(e[1])
         /\ e \in ConsumersOf(e[1]) \cup {Producer(e[1])}
<1>1. CASE e \in Consumers
  <2>1. e[1] \in Values /\ e[2] \in Partitions /\ e = <<e[1], e[2], e[3]>> /\ e[2] # loop.part[e[1]] /\ e \in ConsumersOf(e[1])
    BY <1>1, ConsumersAre
  <2>2. e # Producer(e[1])
    <3>1. Producer(e[1])[2] = loop.part[e[1]]
      BY DEF Producer
    <3> QED BY <2>1, <3>1
  <2>3. e # None
    BY <2>1 DEF None
  <2> QED BY <1>1, <2>1, <2>2, <2>3
<1>2. CASE e \notin Consumers
  <2>1. PICK k \in Values : e = Producer(k)
    BY <1>2 DEF Ends
  <2>2. e[1] = k /\ e[2] = loop.part[k] /\ e # None
    BY <2>1 DEF Producer, None
  <2>3. loop.part[k] \in Partitions
    BY ValuesAre
  <2> QED BY <1>2, <2>1, <2>2, <2>3
<1> QED BY <1>1, <1>2

\* The producer of a value is an end, and no consumer.
LEMMA ProducerIs ==
  ASSUME loop \in Loops, NEW k \in Values
  PROVE  /\ Producer(k) \in Ends /\ Producer(k) \notin Consumers /\ Producer(k) \notin ConsumersOf(k)
         /\ Producer(k)[1] = k /\ Producer(k)[2] = loop.part[k]
<1>1. Producer(k) \in Ends /\ Producer(k)[1] = k /\ Producer(k)[2] = loop.part[k]
  BY DEF Ends, Producer
<1>2. Producer(k) \notin Consumers
  BY <1>1, EndIs
<1> QED BY <1>1, <1>2 DEF ConsumersOf

\* What a partition is at is an end of its own.
LEMMA AtEndIs ==
  ASSUME loop \in Loops, NEW P, NEW q, AtEnd(P, q)
  PROVE  /\ q.end \in Ends /\ q.end[2] = P
         /\ q.end \notin Consumers => q.op \in Values /\ q.end = Producer(q.op) /\ q.end[1] = q.op
<1>1. CASE q.end \in Loads(q.op)
  <2>1. q.end \in Consumers /\ earliestUser(q.end) = q.op
    BY <1>1 DEF Loads
  <2>2. loop.part[q.op] = q.end[2]
    BY <2>1, ConsumersAre
  <2> QED BY <2>1, <2>2 DEF AtEnd, Ends
<1>2. CASE q.op \in Values /\ q.end = Producer(q.op)
  <2>1. q.end \in Ends /\ q.end[1] = q.op /\ q.end[2] = loop.part[q.op]
    BY <1>2, ProducerIs
  <2> QED BY <1>2, <2>1 DEF AtEnd
<1> QED BY <1>1, <1>2 DEF AtEnd

\* A partition at an end is not through.
LEMMA PlacedIs ==
  ASSUME loop \in Loops, NEW P, NEW q, Placed(P, q), q.end # None \/ q.held
  PROVE  AtEnd(P, q) /\ q.end \in Ends /\ q.end[2] = P
<1>1. q # Finished
  BY DEF Finished, At
<1> QED BY <1>1, AtEndIs DEF Placed

\* Entering an operation, a partition is at one of its ends.
LEMMA EnterIs ==
  ASSUME loop \in Loops, CodeOK, NEW P, NEW it \in 0 .. trip - 1, NEW k \in OpIds, Busy(P, k),
         NEW q \in Enter(it, k)
  PROVE  AtEnd(P, q) /\ q.held = FALSE
<1>1. loop.part[k] = P /\ code.loads[k] = Loads(k) /\ (Loads(k) # {} \/ k \in Values)
  BY DEF Busy, CodeOK
<1>2. CASE Loads(k) # {}
  <2>1. PICK e \in Loads(k) : q = At(it, k, Loads(k) \ {e}, e)
    BY <1>1, <1>2 DEF Enter
  <2> QED BY <1>1, <2>1 DEF At, AtEnd
<1>3. CASE Loads(k) = {}
  <2>1. q = At(it, k, {}, Producer(k)) /\ k \in Values
    BY <1>1, <1>3 DEF Enter
  <2> QED BY <1>1, <2>1 DEF At, AtEnd
<1> QED BY <1>2, <1>3

\* So it is after one, or through.
LEMMA AfterIs ==
  ASSUME loop \in Loops, trip \in Nat, CodeOK, NEW P, NEW it \in -1 .. trip - 1, NEW k \in Nat,
         it = -1 => k >= Len(loop.part), NEW q \in After(P, it, k)
  PROVE  Placed(P, q) /\ q.held = FALSE
<1> DEFINE later == {n \in OpIds : n > k /\ Busy(P, n)}
           all   == {n \in OpIds : Busy(P, n)}
<1>1. OpIds = 1 .. Len(loop.part) /\ Len(loop.part) \in Nat
  BY LoopIs
<1>2. ASSUME NEW T \in SUBSET all, T # {} PROVE Min(T) \in OpIds /\ Busy(P, Min(T))
  <2>1. T \in SUBSET Nat
    BY <1>1
  <2>2. \E x \in T : \A y \in T : x <= y
    BY <1>2, <2>1, LeastNatural
  <2>3. Min(T) \in T
    BY <2>2 DEF Min
  <2> QED BY <2>3
<1>3. later \in SUBSET all
  OBVIOUS
<1>4. CASE later # {}
  <2>1. it \in 0 .. trip - 1
    BY <1>1, <1>4
  <2>2. q \in Enter(it, Min(later))
    BY <1>4 DEF After
  <2> QED BY <1>2, <1>3, <1>4, <2>1, <2>2, EnterIs DEF Placed
<1>5. CASE later = {} /\ it + 1 < trip /\ all # {}
  <2>1. it + 1 \in 0 .. trip - 1
    BY <1>5
  <2>2. q \in Enter(it + 1, Min(all))
    BY <1>5 DEF After
  <2> QED BY <1>2, <1>5, <2>1, <2>2, EnterIs DEF Placed
<1>6. CASE later = {} /\ ~ (it + 1 < trip /\ all # {})
  <2>1. q = Finished
    BY <1>6 DEF After
  <2> QED BY <2>1 DEF Placed, Finished, At
<1> QED BY <1>4, <1>5, <1>6

\* So it is after an end.
LEMMA FollowingIs ==
  ASSUME loop \in Loops, trip \in Nat, CodeOK, NEW P, AtEnd(P, pc[P]), NEW q \in Following(P)
  PROVE  Placed(P, q) /\ q.held = FALSE
<1>1. PICK p : p = pc[P]
  OBVIOUS
<1>2. AtEnd(P, p)
  BY <1>1
<1>3. p.it \in 0 .. trip - 1 /\ p.op \in OpIds /\ loop.part[p.op] = P /\ p.left \subseteq Loads(p.op)
  BY <1>2 DEF AtEnd
<1>4. CASE p.left # {}
  <2>1. PICK e \in p.left : q = At(p.it, p.op, p.left \ {e}, e)
    BY <1>1, <1>4 DEF Following
  <2> QED BY <1>3, <2>1 DEF At, AtEnd, Placed
<1>5. CASE p.left = {} /\ p.end # Producer(p.op) /\ p.op \in code.stores
  <2>1. q = At(p.it, p.op, {}, Producer(p.op)) /\ p.op \in Values
    BY <1>1, <1>5 DEF Following, CodeOK
  <2> QED BY <1>3, <2>1 DEF At, AtEnd, Placed
<1>6. CASE p.left = {} /\ ~ (p.end # Producer(p.op) /\ p.op \in code.stores)
  <2>1. q \in After(P, p.it, p.op)
    BY <1>1, <1>6 DEF Following
  <2>2. p.it \in -1 .. trip - 1 /\ p.it # -1 /\ p.op \in Nat
    BY <1>3, LoopIs
  <2> QED BY <2>1, <2>2, AfterIs
<1> QED BY <1>4, <1>5, <1>6

-----------------------------------------------------------------------------
(* What a step leaves alone.                                               *)

\* The place of a partition, of the loop and the trip count alone.
LEMMA PlacedStays ==
  ASSUME loop' = loop, trip' = trip, NEW P, NEW q
  PROVE  (AtEnd(P, q) => AtEnd(P, q)') /\ (Placed(P, q) => Placed(P, q)')
<1>1. OpIds' = OpIds /\ Loads(q.op)' = Loads(q.op) /\ Values' = Values /\ Producer(q.op)' = Producer(q.op)
  BY SameLoop DEF Same1, Same5, Same7
<1>2. AtEnd(P, q) => AtEnd(P, q)'
  BY <1>1 DEF AtEnd
<1> QED BY <1>2 DEF Placed, Finished, At

\* The generated code.
LEMMA CodeStays ==
  ASSUME loop' = loop, code' = code, CodeOK
  PROVE  CodeOK'
<1>1. /\ Ends' = Ends /\ OpIds' = OpIds /\ Values' = Values /\ Consumers' = Consumers
      /\ \A k : Loads(k)' = Loads(k) /\ First(k)' = First(k) /\ Size(k)' = Size(k)
  BY SameLoop DEF Same1, Same4, Same5, Same7
<1>2. \A e \in Ends : Where(e) => Where(e)'
  BY <1>1 DEF Where
<1> QED BY <1>1, <1>2 DEF CodeOK

\* The index of an end that is not at work.
LEMMA IndexStays ==
  ASSUME loop' = loop, NEW e, async'[e] = async[e], IndexOK(e)
  PROVE  IndexOK(e)'
<1>1. Consumers' = Consumers /\ First(e[1])' = First(e[1]) /\ Size(e[1])' = Size(e[1])
  BY SameLoop DEF Same4, Same7
<1> QED BY <1>1 DEF IndexOK

\* The state of a buffer as its ends and its barriers say.
LEMMA BehindStays ==
  ASSUME loop \in Loops, loop' = loop, NEW k \in Values, NEW n,
         \A e \in ConsumersOf(k) \cup {Producer(k)} : Bit(e, n)' = Bit(e, n)
  PROVE  Behind(k, n)' = Behind(k, n) /\ Bit(Producer(k), n)' = Bit(Producer(k), n)
<1>1. ConsumersOf(k)' = ConsumersOf(k) /\ Producer(k)' = Producer(k)
  BY SameLoop DEF Same5
<1>2. PICK p : p = Producer(k)
  OBVIOUS
<1>3. Bit(p, n)' = Bit(p, n)
  BY <1>2
<1>4. Bit(Producer(k), n)' = Bit(p, n)' /\ Bit(Producer(k), n) = Bit(p, n)
  BY <1>1, <1>2
<1>5. Behind(k, n) = {c \in ConsumersOf(k) : Bit(c, n) # Bit(p, n)}
  BY <1>2 DEF Behind
<1>6. Behind(k, n)' = {c \in ConsumersOf(k) : Bit(c, n)' # Bit(p, n)'}
  BY <1>1, <1>4 DEF Behind
<1>7. \A c \in ConsumersOf(k) : Bit(c, n)' = Bit(c, n)
  OBVIOUS
<1> QED BY <1>3, <1>4, <1>5, <1>6, <1>7

\* A buffer that no step touches.
LEMMA BufferStays ==
  ASSUME loop \in Loops, loop' = loop, NEW k \in Values, NEW n,
         \A e \in ConsumersOf(k) \cup {Producer(k)} : Bit(e, n)' = Bit(e, n),
         ready'[k][n] = ready[k][n], empty'[k][n] = empty[k][n], BufferOK(k, n)
  PROVE  BufferOK(k, n)'
<1>1. Behind(k, n)' = Behind(k, n) /\ Bit(Producer(k), n)' = Bit(Producer(k), n)
  BY BehindStays
<1>2. numConsumers(k)' = numConsumers(k)
  BY SameLoop DEF Same6
<1> QED BY <1>1, <1>2 DEF BufferOK

\* Where an end starts, and where it leaves the initial values.
LEMMA WhereIs ==
  ASSUME loop \in Loops, NEW e \in Ends, Where(e)
  PROVE  LET x == code.index[e]
         IN /\ x.first = First(e[1]) /\ x.size = Size(e[1]) /\ x.first \in Nat
            /\ x.start \in Nat /\ x.start <= x.first
            /\ x.leave \in Nat /\ x.leave <= x.first
            /\ e \notin Consumers => x.start = x.first /\ x.leave = 0
<1>1. First(e[1]) \in Nat
  BY EndIs, LeavesAre DEF First
<1>2. e \in Consumers => e[3] \in Nat
  BY ConsumersAre
<1>3. CASE e \in Consumers /\ e[3] > 0
  BY <1>1, <1>2, <1>3 DEF Where
<1>4. CASE ~ (e \in Consumers /\ e[3] > 0)
  BY <1>1, <1>4 DEF Where
<1> QED BY <1>3, <1>4

\* The next index of an end leaves the round of each buffer of the ring as it is.
LEMMA NextAsyncIs ==
  ASSUME loop \in Loops, verify, CodeOK, NEW e \in Ends, IndexOK(e)
  PROVE  LET a == NextAsync(e)
             x == async[e]
         IN /\ a.idx \in Int /\ a.phase \in {0, 1} /\ a.idx < Size(e[1])
            /\ a.idx < First(e[1]) => a.phase = 0 /\ a.idx = x.idx + 1
            /\ e \notin Consumers => a.idx >= First(e[1])
            /\ \A n \in Ring(e[1]) :
                  (IF n < a.idx THEN 1 - a.phase ELSE a.phase) = (IF n <= x.idx THEN 1 - x.phase ELSE x.phase)
<1>1. PICK i, f : i = async[e].idx /\ f = async[e].phase
  OBVIOUS
<1>2. PICK first, size, leave \in Nat : first = First(e[1]) /\ size = Size(e[1]) /\ leave = code.index[e].leave
  BY EndIs, LeavesAre, RingHasBuffers, WhereIs DEF CodeOK, First, Size
<1>3. first < size
  BY <1>2, EndIs, LeavesAre, RingHasBuffers DEF First, Size
<1>4. /\ i \in Int /\ f \in {0, 1} /\ i < size /\ (i < first => f = 0)
      /\ e \notin Consumers => i >= first - 1 /\ leave = 0
  <2>1. e \notin Consumers => leave = 0
    BY <1>2, WhereIs DEF CodeOK
  <2> QED BY <1>1, <1>2, <2>1 DEF IndexOK
<1>5. leave <= first /\ code.index[e].first = first /\ code.index[e].size = size
  BY <1>2, WhereIs DEF CodeOK
<1>6. PICK a : a = NextAsync(e)
  OBVIOUS
<1>7. a = [idx |-> IF i + 1 = size \/ (leave # 0 /\ i + 1 = leave) THEN first ELSE i + 1,
           phase |-> IF i + 1 = size THEN 1 - f ELSE f]
  BY <1>1, <1>2, <1>5, <1>6 DEF NextAsync
<1>8. \A n \in Ring(e[1]) : n \in Int /\ first <= n /\ n < size
  BY <1>2 DEF Ring
<1>9. CASE i + 1 = size
  BY <1>1, <1>2, <1>3, <1>4, <1>5, <1>6, <1>7, <1>8, <1>9
<1>10. CASE i + 1 # size /\ leave # 0 /\ i + 1 = leave
  BY <1>1, <1>2, <1>3, <1>4, <1>5, <1>6, <1>7, <1>8, <1>10
<1>11. CASE i + 1 # size /\ ~ (leave # 0 /\ i + 1 = leave)
  <2>1. a.idx = i + 1 /\ a.phase = f
    BY <1>7, <1>11
  <2> QED BY <1>1, <1>2, <1>3, <1>4, <1>5, <1>6, <2>1, <1>8, <1>11
<1> QED BY <1>9, <1>10, <1>11

-----------------------------------------------------------------------------
(* The steps of a partition.                                               *)

\* A partition that waits or holds a buffer is at an end of its own.
LEMMA AtWorkIs ==
  ASSUME loop \in Loops, Running, NEW P \in Partitions, pc[P].end # None \/ pc[P].held
  PROVE  /\ AtEnd(P, pc[P]) /\ pc[P].end \in Ends /\ pc[P].end[2] = P
         /\ Loading(P) <=> pc[P].end \in Consumers
         /\ IndexOK(pc[P].end) /\ HeldOK(pc[P].end)
<1>1. Placed(P, pc[P])
  BY DEF Running
<1>2. AtEnd(P, pc[P]) /\ pc[P].end \in Ends /\ pc[P].end[2] = P
  BY <1>1, PlacedIs
<1> QED BY <1>2 DEF Running, Loading

\* No bit changes.
BitsStay == \A v \in Values : \A f \in ConsumersOf(v) \cup {Producer(v)} : \A n \in Ring(v) : Bit(f, n)' = Bit(f, n)

\* WaitBarrier moves the end to its next buffer, and changes no bit.
LEMMA WaitIs ==
  ASSUME loop \in Loops, verify, CodeOK, Running, NEW P \in Partitions, WaitBarrier(P),
         NEW e, e = pc[P].end
  PROVE  /\ pc'[P].end = e /\ pc'[P].held = TRUE
         /\ \A Q \in Partitions \ {P} : pc'[Q] = pc[Q]
         /\ async'[e] = NextAsync(e)
         /\ \A f \in Ends \ {e} : async'[f] = async[f]
         /\ DOMAIN pc' = Partitions /\ DOMAIN async' = Ends
         /\ ~ Holds(e) /\ Holds(e)'
         /\ \A f \in Ends \ {e} : Holds(f)' <=> Holds(f)
         /\ BitsStay
<1>1. e = pc[P].end
  OBVIOUS
<1>2. PICK x : x = async[e]
  OBVIOUS
<1>3. PICK a : a = NextAsync(e)
  OBVIOUS
<1>4. /\ phase = "run" /\ e # None /\ ~ pc[P].held
      /\ Complete(IF Loading(P) THEN ready[e[1]][a.idx] ELSE empty[e[1]][a.idx], a.phase)
      /\ async' = [async EXCEPT ![e] = a] /\ pc' = [pc EXCEPT ![P].held = TRUE]
      /\ loop' = loop /\ trip' = trip /\ phase' = phase /\ code' = code
      /\ ready' = ready /\ empty' = empty /\ buf' = buf /\ got' = got
  BY <1>1, <1>3 DEF WaitBarrier, Waiting
<1>5. AtEnd(P, pc[P]) /\ e \in Ends /\ e[2] = P /\ IndexOK(e) /\ (Loading(P) <=> e \in Consumers)
  BY <1>1, <1>4, AtWorkIs
<1>6. PICK k : k = e[1]
  OBVIOUS
<1>7. k \in Values /\ (e \in Consumers \/ e = Producer(k)) /\ e \in ConsumersOf(k) \cup {Producer(k)}
  BY <1>5, <1>6, EndIs
<1>8. /\ a.idx \in Int /\ a.phase \in {0, 1} /\ a.idx < Size(k)
      /\ a.idx < First(k) => a.phase = 0
      /\ e \notin Consumers => a.idx >= First(k)
      /\ \A n \in Ring(k) :
            (IF n < a.idx THEN 1 - a.phase ELSE a.phase) = (IF n <= x.idx THEN 1 - x.phase ELSE x.phase)
  BY <1>2, <1>3, <1>5, <1>6, NextAsyncIs
<1>9. /\ DOMAIN pc = Partitions /\ DOMAIN async = Ends /\ DOMAIN got = Consumers
      /\ \A Q \in Partitions : Placed(Q, pc[Q])
      /\ \A f \in Ends : IndexOK(f) /\ HeldOK(f)
      /\ \A v \in Values : RingOK(v)
  BY DEF Running
<1>10. /\ pc'[P].end = e /\ pc'[P].held = TRUE
       /\ \A Q \in Partitions \ {P} : pc'[Q] = pc[Q]
       /\ async'[e] = a /\ \A f \in Ends \ {e} : async'[f] = async[f]
       /\ DOMAIN pc' = Partitions /\ DOMAIN async' = Ends
  <2>1. DOMAIN pc = Partitions /\ DOMAIN async = Ends /\ P \in Partitions /\ e \in Ends
    BY <1>5, <1>9
  <2>2. pc[P] = [it |-> pc[P].it, op |-> pc[P].op, left |-> pc[P].left, end |-> pc[P].end, held |-> pc[P].held]
    BY <1>5 DEF AtEnd
  <2>3. pc'[P] = [pc[P] EXCEPT !.held = TRUE]
    BY <1>4, <2>1
  <2>4. pc'[P].end = e /\ pc'[P].held = TRUE
    BY <1>1, <2>2, <2>3
  <2> QED BY <1>4, <2>1, <2>4
<1>11. /\ Ends' = Ends /\ Values' = Values /\ Consumers' = Consumers /\ Partitions' = Partitions
       /\ \A v : Ring(v)' = Ring(v) /\ First(v)' = First(v) /\ Size(v)' = Size(v) /\ Slots(v)' = Slots(v)
       /\ \A v : numConsumers(v)' = numConsumers(v)
  BY <1>4, SameLoop DEF Same1, Same4, Same5, Same6, Same7
<1>12. ~ Holds(e) /\ Holds(e)' /\ \A f \in Ends \ {e} : Holds(f)' <=> Holds(f)
  <2>1. ~ Holds(e) /\ Holds(e)'
    BY <1>4, <1>5, <1>10 DEF Holds
  <2>2. ASSUME NEW f \in Ends \ {e} PROVE Holds(f)' <=> Holds(f)
    <3>1. f[2] \in Partitions
      BY EndIs
    <3>2. CASE f[2] = P
      BY <1>1, <1>10, <3>2 DEF Holds
    <3>3. CASE f[2] # P
      BY <1>10, <3>1, <3>3 DEF Holds
    <3> QED BY <3>2, <3>3
  <2> QED BY <2>1, <2>2
<1>13. ASSUME NEW v \in Values, NEW f \in ConsumersOf(v) \cup {Producer(v)}, NEW n \in Ring(v)
       PROVE  Bit(f, n)' = Bit(f, n)
  <2>1. f \in Ends /\ f[1] = v
    BY ProducerIs DEF ConsumersOf, Ends
  <2>2. CASE f # e
    BY <1>10, <1>12, <2>1, <2>2 DEF Bit, Past
  <2>3. CASE f = e
    <3>1. v = k
      BY <1>6, <2>1, <2>3
    <3>2. Bit(e, n) = IF n <= x.idx THEN 1 - x.phase ELSE x.phase
      <4>1. n \in Int /\ x.idx \in Int
        BY <1>2, <1>5, <3>1, EndIs, LeavesAre, RingHasBuffers DEF IndexOK, Ring, First, Size
      <4> QED BY <1>2, <1>12, <4>1 DEF Bit, Past
    <3>3. Bit(e, n)' = IF n < a.idx THEN 1 - a.phase ELSE a.phase
      <4>1. Past(e, n)' <=> n < a.idx
        BY <1>10, <1>12 DEF Past
      <4> QED BY <1>10, <4>1 DEF Bit
    <3> QED BY <1>8, <2>3, <3>1, <3>2, <3>3
  <2> QED BY <2>2, <2>3
<1>14. BitsStay
  BY <1>13 DEF BitsStay
<1> QED BY <1>3, <1>10, <1>12, <1>14

\* WaitBarrier: the barrier's parity tells that the buffer is the end's to use.
LEMMA WaitKeeps ==
  ASSUME loop \in Loops, verify, CodeOK, BarriersOK, Running, NEW P \in Partitions, WaitBarrier(P)
  PROVE  CodeOK' /\ BarriersOK' /\ Running'
<1>1. PICK e : e = pc[P].end
  OBVIOUS
<1>2. PICK x : x = async[e]
  OBVIOUS
<1>3. PICK a : a = NextAsync(e)
  OBVIOUS
<1>4. /\ phase = "run" /\ e # None /\ ~ pc[P].held
      /\ Complete(IF Loading(P) THEN ready[e[1]][a.idx] ELSE empty[e[1]][a.idx], a.phase)
      /\ async' = [async EXCEPT ![e] = a] /\ pc' = [pc EXCEPT ![P].held = TRUE]
      /\ loop' = loop /\ trip' = trip /\ phase' = phase /\ code' = code
      /\ ready' = ready /\ empty' = empty /\ buf' = buf /\ got' = got
  BY <1>1, <1>3 DEF WaitBarrier, Waiting
<1>5. AtEnd(P, pc[P]) /\ e \in Ends /\ e[2] = P /\ IndexOK(e) /\ (Loading(P) <=> e \in Consumers)
  BY <1>1, <1>4, AtWorkIs
<1>6. PICK k : k = e[1]
  OBVIOUS
<1>7. k \in Values /\ (e \in Consumers \/ e = Producer(k)) /\ e \in ConsumersOf(k) \cup {Producer(k)}
  BY <1>5, <1>6, EndIs
<1>8. /\ a.idx \in Int /\ a.phase \in {0, 1} /\ a.idx < Size(k)
      /\ a.idx < First(k) => a.phase = 0
      /\ e \notin Consumers => a.idx >= First(k)
      /\ \A n \in Ring(k) :
            (IF n < a.idx THEN 1 - a.phase ELSE a.phase) = (IF n <= x.idx THEN 1 - x.phase ELSE x.phase)
  BY <1>2, <1>3, <1>5, <1>6, NextAsyncIs
<1>9. /\ DOMAIN pc = Partitions /\ DOMAIN async = Ends /\ DOMAIN got = Consumers
      /\ \A Q \in Partitions : Placed(Q, pc[Q])
      /\ \A f \in Ends : IndexOK(f) /\ HeldOK(f)
      /\ \A v \in Values : RingOK(v)
  BY DEF Running
<1>10. /\ pc'[P].end = e /\ pc'[P].held = TRUE
       /\ \A Q \in Partitions \ {P} : pc'[Q] = pc[Q]
       /\ async'[e] = a
       /\ \A f \in Ends \ {e} : async'[f] = async[f]
       /\ DOMAIN pc' = Partitions /\ DOMAIN async' = Ends
       /\ ~ Holds(e) /\ Holds(e)'
       /\ \A f \in Ends \ {e} : Holds(f)' <=> Holds(f)
       /\ BitsStay
  BY <1>1, <1>3, WaitIs
<1>11. /\ Ends' = Ends /\ Values' = Values /\ Consumers' = Consumers /\ Partitions' = Partitions
       /\ \A v : Ring(v)' = Ring(v) /\ First(v)' = First(v) /\ Size(v)' = Size(v) /\ Slots(v)' = Slots(v)
       /\ \A v : numConsumers(v)' = numConsumers(v)
  BY <1>4, SameLoop DEF Same1, Same4, Same5, Same6, Same7
<1>12. ~ Holds(e) /\ Holds(e)' /\ \A f \in Ends \ {e} : Holds(f)' <=> Holds(f)
  BY <1>10
<1>13. ASSUME NEW v \in Values, NEW f \in ConsumersOf(v) \cup {Producer(v)}, NEW n \in Ring(v)
       PROVE  Bit(f, n)' = Bit(f, n)
  BY <1>10 DEF BitsStay
<1>14. ASSUME NEW v \in Values, NEW n \in Ring(v)
       PROVE  Behind(v, n)' = Behind(v, n) /\ BufferOK(v, n)'
  <2>1. BufferOK(v, n)
    BY <1>9 DEF RingOK
  <2>2. \A f \in ConsumersOf(v) \cup {Producer(v)} : Bit(f, n)' = Bit(f, n)
    BY <1>13
  <2> QED BY <1>4, <2>1, <2>2, BehindStays, BufferStays
<1>15. CodeOK'
  BY <1>4, CodeStays
<1>16. BarriersOK'
  <2>1. \A v, b : EmptyOK(v, b) => EmptyOK(v, b)'
    BY <1>11 DEF EmptyOK, Barrier
  <2> QED BY <1>4, <1>11, <2>1 DEF BarriersOK, ReadyOK, Barrier
<1>17. ASSUME NEW Q \in Partitions PROVE Placed(Q, pc[Q])'
  <2>1. CASE Q # P
    <3>1. PICK q : q = pc[Q]
      OBVIOUS
    <3>2. Placed(Q, q)'
      BY <1>4, <1>9, <3>1, PlacedStays
    <3>3. pc'[Q] = q
      BY <1>10, <2>1, <3>1
    <3> QED BY <3>2, <3>3
  <2>2. CASE Q = P
    <3>1. PICK q : q = pc'[P]
      OBVIOUS
    <3>2. AtEnd(P, q)
      <4>1. pc[P] = [it |-> pc[P].it, op |-> pc[P].op, left |-> pc[P].left, end |-> pc[P].end, held |-> pc[P].held]
        BY <1>5 DEF AtEnd
      <4>2. q = [pc[P] EXCEPT !.held = TRUE]
        BY <1>4, <1>9, <3>1
      <4>3. /\ q = [it |-> q.it, op |-> q.op, left |-> q.left, end |-> q.end, held |-> q.held] /\ q.held = TRUE
            /\ q.it = pc[P].it /\ q.op = pc[P].op /\ q.left = pc[P].left /\ q.end = pc[P].end
        BY <4>1, <4>2
      <4> QED BY <1>5, <4>3 DEF AtEnd
    <3>3. Placed(P, q)'
      BY <1>4, <3>2, PlacedStays DEF Placed
    <3> QED BY <2>2, <3>1, <3>3
  <2> QED BY <2>1, <2>2
<1>18. ASSUME NEW f \in Ends PROVE IndexOK(f)'
  <2>1. CASE f = e
    <3>1. async'[f] = a /\ f[1] = k /\ First(k)' = First(k) /\ Size(k)' = Size(k) /\ Consumers' = Consumers
      BY <1>6, <1>10, <1>11, <2>1
    <3>2. First(k) \in Int
      BY <1>7, LeavesAre DEF First
    <3>3. e \notin Consumers => a.idx >= First(k) - 1
      BY <1>8, <3>2
    <3> QED BY <1>8, <2>1, <3>1, <3>3 DEF IndexOK
  <2>2. CASE f # e
    BY <1>4, <1>9, <1>10, <2>2, IndexStays
  <2> QED BY <2>1, <2>2
<1>19. ASSUME NEW f \in Ends PROVE HeldOK(f)'
  <2>1. PICK v : v = f[1]
    OBVIOUS
  <2>2. v \in Values
    BY <2>1, EndIs
  <2>3. PICK m : m = async'[f].idx
    OBVIOUS
  <2>4. m \in Int /\ m < Size(v) /\ First(v) \in Int /\ Size(v) \in Int
    BY <1>11, <1>18, <2>1, <2>2, <2>3, LeavesAre, RingHasBuffers DEF IndexOK, First, Size
  <2>5. m >= First(v) => m \in Ring(v)
    BY <2>4 DEF Ring
  <2>6. CASE f # e
    <3>1. HeldOK(f) /\ (Holds(f)' <=> Holds(f)) /\ m = async[f].idx
      BY <1>9, <1>10, <1>12, <2>3, <2>6
    <3>2. m >= First(v) => Behind(v, m)' = Behind(v, m)
      BY <1>14, <2>2, <2>5
    <3> QED BY <1>11, <2>1, <2>3, <3>1, <3>2 DEF HeldOK
  <2>7. CASE f = e
    <3>1. v = k /\ m = a.idx
      BY <1>6, <1>10, <2>1, <2>3, <2>7
    <3>2. ASSUME m >= First(v)
          PROVE  IF e \in Consumers THEN e \in Behind(v, m) ELSE Behind(v, m) = {}
      <4>1. m \in Ring(v) /\ BufferOK(v, m)
        BY <1>9, <2>2, <2>5, <3>2 DEF RingOK
      <4>2. Bit(e, m) = a.phase
        <5>1. Bit(e, m)' = Bit(e, m)
          BY <1>7, <1>13, <2>2, <3>1, <4>1
        <5>2. ~ (Past(e, m)')
          <6>1. ~ (m < m)
            BY <2>4
          <6> QED BY <1>12, <2>3, <2>7, <6>1 DEF Past
        <5> QED BY <1>10, <5>1, <5>2 DEF Bit
      <4>3. CASE e \in Consumers
        <5>1. ready[v][m].parity # a.phase
          BY <1>4, <1>5, <1>6, <3>1, <4>3 DEF Complete
        <5>2. e \in ConsumersOf(v)
          BY <1>6, <3>1, <4>3 DEF ConsumersOf
        <5> QED BY <4>1, <4>2, <4>3, <5>1, <5>2 DEF BufferOK, Behind
      <4>4. CASE e \notin Consumers
        <5>1. empty[v][m].parity # a.phase
          BY <1>4, <1>5, <1>6, <3>1, <4>4 DEF Complete
        <5>2. Bit(Producer(v), m) = a.phase
          BY <1>7, <3>1, <4>2, <4>4
        <5> QED BY <4>1, <4>4, <5>1, <5>2 DEF BufferOK
      <4> QED BY <4>3, <4>4
    <3>3. m >= First(v) => Behind(v, m)' = Behind(v, m)
      BY <1>14, <2>2, <2>5
    <3>4. e \notin Consumers => m >= First(v)
      BY <1>8, <3>1
    <3> QED BY <1>11, <2>1, <2>3, <2>7, <3>2, <3>3, <3>4 DEF HeldOK
  <2> QED BY <2>6, <2>7
<1>20. ASSUME NEW v \in Values PROVE RingOK(v)'
  BY <1>11, <1>14 DEF RingOK
<1>21. Running'
  BY <1>4, <1>9, <1>10, <1>11, <1>17, <1>18, <1>19, <1>20 DEF Running
<1> QED BY <1>15, <1>16, <1>21

OtherBitsStay(e, n) == \A f \in Ends : \A m \in Int : f # e \/ m # n => Bit(f, m)' = Bit(f, m)

\* Load and Store give up a buffer: of the ends, only that one's bit changes, and
\* only that buffer's.
LEMMA ReleaseIs ==
  ASSUME loop \in Loops, trip \in Trips, CodeOK, Running, NEW P \in Partitions, pc[P].held,
         loop' = loop, trip' = trip, code' = code, async' = async,
         NEW q \in Following(P), pc' = [pc EXCEPT ![P] = q],
         NEW e, e = pc[P].end, NEW n, n = async[e].idx
  PROVE  /\ DOMAIN pc' = Partitions
         /\ \A Q \in Partitions : Placed(Q, pc[Q])'
         /\ \A f \in Ends : IndexOK(f)'
         /\ Holds(e) /\ ~ Holds(e)'
         /\ Bit(e, n) = async[e].phase /\ Bit(e, n)' = 1 - async[e].phase
         /\ OtherBitsStay(e, n)
         /\ \A f \in Ends \ {e} : Holds(f)' <=> Holds(f)
<1>1. e = pc[P].end
  OBVIOUS
<1>2. AtEnd(P, pc[P]) /\ e \in Ends /\ e[2] = P /\ IndexOK(e)
  BY <1>1, AtWorkIs
<1>3. n = async[e].idx
  OBVIOUS
<1>4. n \in Int /\ async[e].phase \in {0, 1}
  BY <1>2, <1>3 DEF IndexOK
<1>5. Placed(P, q) /\ q.held = FALSE
  <2>1. trip \in Nat
    BY LoopsAssumption
  <2> QED BY <1>2, <2>1, FollowingIs
<1>6. /\ DOMAIN pc = Partitions /\ DOMAIN pc' = Partitions /\ pc'[P] = q
      /\ \A Q \in Partitions \ {P} : pc'[Q] = pc[Q]
  BY DEF Running
<1>7. ASSUME NEW Q \in Partitions PROVE Placed(Q, pc[Q])'
  <2>1. PICK r : r = pc'[Q]
    OBVIOUS
  <2>2. Placed(Q, r)
    BY <1>5, <1>6, <2>1 DEF Running
  <2>3. Placed(Q, r)'
    BY <2>2, PlacedStays
  <2> QED BY <2>1, <2>3
<1>8. \A f \in Ends : IndexOK(f)'
  BY IndexStays DEF Running
<1>9. Holds(e) /\ ~ Holds(e)'
  BY <1>1, <1>2, <1>5, <1>6 DEF Holds
<1>10. ASSUME NEW f \in Ends \ {e} PROVE Holds(f)' <=> Holds(f)
  <2>1. f[2] \in Partitions
    BY EndIs
  <2>2. CASE f[2] = P
    BY <1>1, <1>5, <1>6, <2>2 DEF Holds
  <2>3. CASE f[2] # P
    BY <1>6, <2>1, <2>3 DEF Holds
  <2> QED BY <2>2, <2>3
<1>11. Bit(e, n) = async[e].phase /\ Bit(e, n)' = 1 - async[e].phase
  <2>1. ~ Past(e, n) /\ Past(e, n)'
    BY <1>3, <1>4, <1>9 DEF Past
  <2> QED BY <2>1 DEF Bit
<1>12. ASSUME NEW f \in Ends, NEW m \in Int, f # e \/ m # n PROVE Bit(f, m)' = Bit(f, m)
  <2>1. Past(f, m)' <=> Past(f, m)
    BY <1>3, <1>10, <1>12 DEF Past
  <2> QED BY <2>1 DEF Bit
<1>13. OtherBitsStay(e, n)
  BY <1>12 DEF OtherBitsStay
<1> QED BY <1>6, <1>7, <1>8, <1>9, <1>10, <1>11, <1>13

\* Load: the consumer is no longer behind; the last one empties the buffer.
LEMMA LoadKeeps ==
  ASSUME loop \in Loops, trip \in Trips, verify, CodeOK, BarriersOK, Running,
         NEW P \in Partitions, Load(P)
  PROVE  CodeOK' /\ BarriersOK' /\ Running'
<1>1. PICK e : e = pc[P].end
  OBVIOUS
<1>2. PICK n : n = async[e].idx
  OBVIOUS
<1>3. /\ phase = "run" /\ pc[P].held /\ Loading(P)
      /\ empty' = [empty EXCEPT ![e[1]][n] = Arrive(@, 1)]
      /\ got' = [got EXCEPT ![e] = [it |-> pc[P].it, val |-> buf[e[1]][n]]]
      /\ loop' = loop /\ trip' = trip /\ phase' = phase /\ code' = code
      /\ ready' = ready /\ buf' = buf /\ async' = async
  BY <1>1, <1>2 DEF Load, Holding, Slot
<1>4. PICK q \in Following(P) : pc' = [pc EXCEPT ![P] = q]
  BY DEF Load
<1>5. e \in Ends /\ e \in Consumers /\ IndexOK(e) /\ HeldOK(e)
  BY <1>1, <1>3, AtWorkIs
<1>6. PICK k : k = e[1]
  OBVIOUS
<1>7. k \in Values /\ e \in ConsumersOf(k) /\ e # Producer(k)
  BY <1>5, <1>6, EndIs DEF ConsumersOf
<1>8. /\ DOMAIN pc' = Partitions
      /\ \A Q \in Partitions : Placed(Q, pc[Q])'
      /\ \A f \in Ends : IndexOK(f)'
      /\ Holds(e) /\ ~ Holds(e)'
      /\ Bit(e, n) = async[e].phase /\ Bit(e, n)' = 1 - async[e].phase
      /\ OtherBitsStay(e, n)
      /\ \A f \in Ends \ {e} : Holds(f)' <=> Holds(f)
  <2>1. pc[P].held /\ loop' = loop /\ trip' = trip /\ code' = code /\ async' = async
    BY <1>3
  <2> QED BY <1>1, <1>2, <1>4, <2>1, ReleaseIs
<1>9. /\ Ends' = Ends /\ Values' = Values /\ Consumers' = Consumers /\ Partitions' = Partitions
      /\ \A v : Ring(v)' = Ring(v) /\ First(v)' = First(v) /\ Size(v)' = Size(v) /\ Slots(v)' = Slots(v)
      /\ \A v : numConsumers(v)' = numConsumers(v)
  BY <1>3, SameLoop DEF Same1, Same4, Same5, Same6, Same7
<1>10. /\ DOMAIN pc = Partitions /\ DOMAIN async = Ends /\ DOMAIN got = Consumers
       /\ \A f \in Ends : IndexOK(f) /\ HeldOK(f)
       /\ \A v \in Values : RingOK(v)
  BY DEF Running
<1>11. /\ DOMAIN empty' = Values /\ DOMAIN empty = Values
       /\ \A v \in Values : DOMAIN empty'[v] = Slots(v) /\ DOMAIN empty[v] = Slots(v)
       /\ \A v \in Values : \A m \in Slots(v) :
             empty'[v][m] = IF v = k /\ m = n THEN Arrive(empty[v][m], 1) ELSE empty[v][m]
  <2>1. DOMAIN empty = Values /\ \A v \in Values : DOMAIN empty[v] = Slots(v)
    BY DEF BarriersOK
  <2>2. empty' = [empty EXCEPT ![k] = [empty[k] EXCEPT ![n] = Arrive(empty[k][n], 1)]]
    BY <1>3, <1>6
  <2> QED BY <1>7, <2>1, <2>2
<1>12. \A v \in Values : numConsumers(v) \in Nat \ {0}
  BY ValuesAre
<1>13. ASSUME NEW v \in Values, NEW m \in Slots(v)
       PROVE  ReadyOK(ready[v][m]) /\ EmptyOK(v, empty[v][m]) /\ EmptyOK(v, empty'[v][m])
  <2>1. ReadyOK(ready[v][m]) /\ EmptyOK(v, empty[v][m])
    BY DEF BarriersOK
  <2>2. PICK b : b = empty[v][m]
    OBVIOUS
  <2>3. EmptyOK(v, Arrive(b, 1))
    <3>1. b = [count |-> b.count, pending |-> b.pending, parity |-> b.parity] /\ b.count = numConsumers(v) /\ b.pending \in 1 .. numConsumers(v)
      BY <2>1, <2>2 DEF EmptyOK, Barrier
    <3>2. CASE b.pending = 1
      <4>1. Arrive(b, 1) = [count |-> b.count, pending |-> b.count, parity |-> 1 - b.parity]
        BY <3>1, <3>2 DEF Arrive
      <4> QED BY <1>12, <3>1, <4>1 DEF EmptyOK, Barrier
    <3>3. CASE b.pending # 1
      <4>1. Arrive(b, 1) = [count |-> b.count, pending |-> b.pending - 1, parity |-> b.parity]
        BY <3>1, <3>3 DEF Arrive
      <4>2. b.pending - 1 \in 1 .. numConsumers(v)
        BY <1>12, <3>1, <3>3
      <4> QED BY <3>1, <4>1, <4>2 DEF EmptyOK, Barrier
    <3> QED BY <3>2, <3>3
  <2> QED BY <1>11, <2>1, <2>2, <2>3
<1>14. \A v \in Values : Ring(v) \subseteq Slots(v) /\ Ring(v) \subseteq Int
  <2>1. ASSUME NEW v \in Values PROVE Ring(v) \subseteq Slots(v) /\ Ring(v) \subseteq Int
    <3>1. First(v) \in Nat /\ Size(v) \in Nat /\ Slots(v) = 0 .. Size(v) - 1
      BY LeavesAre, RingHasBuffers DEF First, Size, Slots
    <3> QED BY <3>1 DEF Ring
  <2> QED BY <2>1
<1>15. ASSUME NEW v \in Values, NEW m \in Ring(v), ~ (v = k /\ m = n)
       PROVE  Behind(v, m)' = Behind(v, m) /\ BufferOK(v, m)'
  <2>1. \A f \in ConsumersOf(v) \cup {Producer(v)} : f \in Ends /\ f[1] = v
    BY ProducerIs DEF ConsumersOf, Ends
  <2>2. \A f \in ConsumersOf(v) \cup {Producer(v)} : Bit(f, m)' = Bit(f, m)
    BY <1>6, <1>8, <1>14, <1>15, <2>1 DEF OtherBitsStay
  <2>3. ready'[v][m] = ready[v][m] /\ empty'[v][m] = empty[v][m] /\ BufferOK(v, m)
    BY <1>3, <1>10, <1>11, <1>14, <1>15 DEF RingOK
  <2> QED BY <1>3, <2>2, <2>3, BehindStays, BufferStays
<1>16. ASSUME n \in Ring(k)
       PROVE  Behind(k, n)' = Behind(k, n) \ {e} /\ BufferOK(k, n)'
  <2>1. PICK p : p = Producer(k)
    OBVIOUS
  <2>2. ConsumersOf(k)' = ConsumersOf(k) /\ Producer(k)' = p
    BY <1>3, <2>1, SameLoop DEF Same5
  <2>3. PICK b : b = Bit(p, n)
    OBVIOUS
  <2>4. n \in Int /\ p \in Ends /\ p # e /\ Bit(p, n)' = b
    BY <1>7, <1>8, <1>14, <1>16, <2>1, <2>3, ProducerIs DEF OtherBitsStay
  <2>5. BufferOK(k, n) /\ e \in Behind(k, n)
    <3>1. n >= First(k)
      <4>1. First(k) \in Int /\ Size(k) \in Int
        BY <1>7, LeavesAre, RingHasBuffers DEF First, Size
      <4> QED BY <1>16, <4>1 DEF Ring
    <3>2. e \in Behind(k, n)
      BY <1>2, <1>5, <1>6, <1>8, <3>1 DEF HeldOK
    <3> QED BY <1>7, <1>10, <1>16, <3>2 DEF RingOK
  <2>6. async[e].phase # b /\ async[e].phase \in {0, 1} /\ b \in {0, 1}
    <3>1. async[e].phase # b
      BY <1>8, <2>1, <2>3, <2>5 DEF Behind
    <3>2. async[p].phase \in {0, 1} /\ async[e].phase \in {0, 1}
      BY <1>5, <1>10, <2>4 DEF IndexOK
    <3> QED BY <2>3, <3>1, <3>2 DEF Bit
  <2>7. Bit(e, n)' = b
    BY <1>8, <2>6
  <2>8. Behind(k, n)' = Behind(k, n) \ {e}
    <3>1. Behind(k, n) = {c \in ConsumersOf(k) : Bit(c, n) # b}
      BY <2>1, <2>3 DEF Behind
    <3>2. Behind(k, n)' = {c \in ConsumersOf(k) : Bit(c, n)' # b}
      <4>1. Bit(Producer(k), n)' = b
        BY <2>2, <2>4
      <4> QED BY <2>2, <4>1 DEF Behind
    <3>3. \A c \in ConsumersOf(k) \ {e} : Bit(c, n)' = Bit(c, n)
      BY <1>8, <2>4 DEF ConsumersOf, Ends, OtherBitsStay
    <3> QED BY <2>7, <3>1, <3>2, <3>3
  <2>9. PICK r : r = empty[k][n]
    OBVIOUS
  <2>10. /\ r.pending = Cardinality(Behind(k, n)) /\ r.parity = b /\ r.count = numConsumers(k)
         /\ r = [count |-> r.count, pending |-> r.pending, parity |-> r.parity]
    <3>1. EmptyOK(k, r)
      BY <1>7, <1>13, <1>14, <1>16, <2>9
    <3> QED BY <2>1, <2>3, <2>5, <2>9, <3>1 DEF BufferOK, EmptyOK, Barrier
  <2>11. empty'[k][n] = Arrive(r, 1)
    BY <1>7, <1>11, <1>14, <1>16, <2>9
  <2>12. ready'[k][n].parity = b
    BY <1>3, <2>1, <2>3, <2>5 DEF BufferOK
  <2>13. Bit(Producer(k), n)' = b /\ numConsumers(k)' = numConsumers(k)
    BY <1>9, <2>2, <2>4
  <2>14. /\ IsFiniteSet(Behind(k, n)) /\ Cardinality(Behind(k, n)) \in Nat
         /\ Cardinality(Behind(k, n) \ {e}) = Cardinality(Behind(k, n)) - 1
         /\ Cardinality(Behind(k, n) \ {e}) = 0 <=> Behind(k, n) \ {e} = {}
    <3>1. Behind(k, n) \subseteq ConsumersOf(k) /\ IsFiniteSet(ConsumersOf(k))
      BY <1>7, ValuesAre DEF Behind
    <3>2. IsFiniteSet(Behind(k, n))
      BY <3>1, FS_Subset
    <3> QED BY <2>5, <3>2, FS_CardinalityType, FS_RemoveElement, FS_EmptySet
  <2>15. CASE Behind(k, n) \ {e} = {}
    <3>1. r.pending = 1
      BY <2>10, <2>14, <2>15
    <3>2. Arrive(r, 1) = [count |-> r.count, pending |-> r.count, parity |-> 1 - r.parity]
      BY <2>10, <3>1 DEF Arrive
    <3>3. empty'[k][n].pending = numConsumers(k) /\ empty'[k][n].parity = 1 - b
      BY <2>10, <2>11, <3>2
    <3> QED BY <2>8, <2>12, <2>13, <2>15, <3>3 DEF BufferOK
  <2>16. CASE Behind(k, n) \ {e} # {}
    <3>1. r.pending # 1
      BY <2>10, <2>14, <2>16
    <3>2. Arrive(r, 1) = [count |-> r.count, pending |-> r.pending - 1, parity |-> r.parity]
      BY <2>10, <3>1 DEF Arrive
    <3>3. empty'[k][n].pending = Cardinality(Behind(k, n) \ {e}) /\ empty'[k][n].parity = b
      BY <2>10, <2>11, <2>14, <3>2
    <3> QED BY <2>8, <2>12, <2>13, <2>16, <3>3 DEF BufferOK
  <2> QED BY <2>8, <2>15, <2>16
<1>17. CodeOK'
  BY <1>3, CodeStays
<1>18. BarriersOK'
  <2>1. \A v, b : EmptyOK(v, b) => EmptyOK(v, b)'
    BY <1>9 DEF EmptyOK, Barrier
  <2>2. \A v \in Values : \A m \in Slots(v) : EmptyOK(v, empty[v][m])'
    <3>1. ASSUME NEW v \in Values, NEW m \in Slots(v) PROVE EmptyOK(v, empty[v][m])'
      <4>1. PICK b : b = empty'[v][m]
        OBVIOUS
      <4>2. EmptyOK(v, b)'
        BY <1>13, <2>1, <4>1
      <4> QED BY <4>1, <4>2
    <3> QED BY <3>1
  <2>3. \A v \in Values : \A m \in Slots(v) : ReadyOK(ready[v][m])'
    BY <1>3, <1>13 DEF ReadyOK, Barrier
  <2>4. DOMAIN ready' = Values /\ DOMAIN buf' = Values /\ \A v \in Values : DOMAIN ready'[v] = Slots(v)
    BY <1>3 DEF BarriersOK
  <2> QED BY <1>9, <1>11, <2>2, <2>3, <2>4 DEF BarriersOK
<1>19. ASSUME NEW f \in Ends PROVE HeldOK(f)'
  <2>1. CASE f = e
    BY <1>8, <2>1 DEF HeldOK
  <2>2. CASE f # e
    <3>1. PICK v, m : v = f[1] /\ m = async[f].idx
      OBVIOUS
    <3>2. HeldOK(f) /\ (Holds(f)' <=> Holds(f)) /\ async'[f].idx = m /\ IndexOK(f) /\ v \in Values
      BY <1>3, <1>8, <1>10, <2>2, <3>1, EndIs
    <3>3. m >= First(v) => m \in Ring(v)
      <4>1. m \in Int /\ m < Size(v) /\ First(v) \in Int /\ Size(v) \in Int
        BY <3>1, <3>2, LeavesAre, RingHasBuffers DEF IndexOK, First, Size
      <4> QED BY <4>1 DEF Ring
    <3>4. ASSUME m >= First(v), f \in Behind(v, m) PROVE f \in Behind(v, m)'
      BY <1>15, <1>16, <2>2, <3>2, <3>3, <3>4
    <3>5. ASSUME m >= First(v), Behind(v, m) = {} PROVE Behind(v, m)' = {}
      BY <1>15, <1>16, <3>2, <3>3, <3>5
    <3> QED BY <1>9, <3>1, <3>2, <3>4, <3>5 DEF HeldOK
  <2> QED BY <2>1, <2>2
<1>20. DOMAIN got' = Consumers /\ DOMAIN async' = Ends
  BY <1>3, <1>10
<1>21. \A v \in Values : RingOK(v)'
  BY <1>9, <1>15, <1>16 DEF RingOK
<1>22. Running'
  BY <1>8, <1>9, <1>19, <1>20, <1>21 DEF Running
<1> QED BY <1>17, <1>18, <1>22

\* Store: all consumers are behind again.
LEMMA StoreKeeps ==
  ASSUME loop \in Loops, trip \in Trips, verify, CodeOK, BarriersOK, Running,
         NEW P \in Partitions, Store(P)
  PROVE  CodeOK' /\ BarriersOK' /\ Running'
<1>1. PICK e : e = pc[P].end
  OBVIOUS
<1>2. PICK n : n = async[e].idx
  OBVIOUS
<1>3. PICK k : k = pc[P].op
  OBVIOUS
<1>4. /\ phase = "run" /\ pc[P].held /\ ~ Loading(P)
      /\ buf' = [buf EXCEPT ![k][n] = <<k, pc[P].it>>]
      /\ ready' = [ready EXCEPT ![k][n] = Arrive(@, 1)]
      /\ loop' = loop /\ trip' = trip /\ phase' = phase /\ code' = code
      /\ empty' = empty /\ got' = got /\ async' = async
  BY <1>1, <1>2, <1>3 DEF Store, Holding, Slot
<1>5. PICK q \in Following(P) : pc' = [pc EXCEPT ![P] = q]
  BY DEF Store
<1>6. /\ e \in Ends /\ e \notin Consumers /\ IndexOK(e) /\ HeldOK(e)
      /\ k \in Values /\ e = Producer(k) /\ e[1] = k
  BY <1>1, <1>3, <1>4, AtWorkIs, AtEndIs
<1>7. /\ DOMAIN pc' = Partitions
      /\ \A Q \in Partitions : Placed(Q, pc[Q])'
      /\ \A f \in Ends : IndexOK(f)'
      /\ Holds(e) /\ ~ Holds(e)'
      /\ Bit(e, n) = async[e].phase /\ Bit(e, n)' = 1 - async[e].phase
      /\ OtherBitsStay(e, n)
      /\ \A f \in Ends \ {e} : Holds(f)' <=> Holds(f)
  <2>1. pc[P].held /\ loop' = loop /\ trip' = trip /\ code' = code /\ async' = async
    BY <1>4
  <2> QED BY <1>1, <1>2, <1>5, <2>1, ReleaseIs
<1>8. /\ Ends' = Ends /\ Values' = Values /\ Consumers' = Consumers /\ Partitions' = Partitions
      /\ \A v : Ring(v)' = Ring(v) /\ First(v)' = First(v) /\ Size(v)' = Size(v) /\ Slots(v)' = Slots(v)
      /\ \A v : numConsumers(v)' = numConsumers(v) /\ ConsumersOf(v)' = ConsumersOf(v) /\ Producer(v)' = Producer(v)
  BY <1>4, SameLoop DEF Same1, Same4, Same5, Same6, Same7
<1>9. /\ DOMAIN pc = Partitions /\ DOMAIN async = Ends /\ DOMAIN got = Consumers
      /\ \A f \in Ends : IndexOK(f) /\ HeldOK(f)
      /\ \A v \in Values : RingOK(v)
  BY DEF Running
<1>10. /\ DOMAIN ready' = Values /\ DOMAIN buf' = Values
       /\ \A v \in Values : DOMAIN ready'[v] = Slots(v) /\ DOMAIN ready[v] = Slots(v)
       /\ \A v \in Values : \A m \in Slots(v) :
             ready'[v][m] = IF v = k /\ m = n THEN Arrive(ready[v][m], 1) ELSE ready[v][m]
  <2>1. DOMAIN ready = Values /\ DOMAIN buf = Values /\ \A v \in Values : DOMAIN ready[v] = Slots(v)
    BY DEF BarriersOK
  <2>2. /\ ready' = [ready EXCEPT ![k] = [ready[k] EXCEPT ![n] = Arrive(ready[k][n], 1)]]
        /\ buf' = [buf EXCEPT ![k] = [buf[k] EXCEPT ![n] = <<k, pc[P].it>>]]
    BY <1>4
  <2> QED BY <1>6, <2>1, <2>2
<1>11. ASSUME NEW v \in Values, NEW m \in Slots(v)
       PROVE  /\ EmptyOK(v, empty[v][m]) /\ ReadyOK(ready[v][m])
              /\ ReadyOK(Arrive(ready[v][m], 1)) /\ Arrive(ready[v][m], 1).parity = 1 - ready[v][m].parity
              /\ ReadyOK(ready'[v][m])
  <2>1. ReadyOK(ready[v][m]) /\ EmptyOK(v, empty[v][m])
    BY DEF BarriersOK
  <2>2. PICK b : b = ready[v][m]
    OBVIOUS
  <2>3. b = [count |-> b.count, pending |-> b.pending, parity |-> b.parity] /\ b.count = 1 /\ b.pending = 1
    BY <2>1, <2>2 DEF ReadyOK, Barrier
  <2>4. Arrive(b, 1) = [count |-> b.count, pending |-> b.count, parity |-> 1 - b.parity]
    BY <2>3 DEF Arrive
  <2>5. ReadyOK(Arrive(b, 1)) /\ Arrive(b, 1).parity = 1 - b.parity
    BY <2>3, <2>4 DEF ReadyOK, Barrier
  <2> QED BY <1>10, <2>1, <2>2, <2>5
<1>12. \A v \in Values : /\ Ring(v) \subseteq Slots(v) /\ Ring(v) \subseteq Int
                         /\ First(v) \in Int /\ Size(v) \in Int
  <2>1. ASSUME NEW v \in Values PROVE Ring(v) \subseteq Slots(v) /\ Ring(v) \subseteq Int /\ First(v) \in Int /\ Size(v) \in Int
    <3>1. First(v) \in Nat /\ Size(v) \in Nat /\ Slots(v) = 0 .. Size(v) - 1
      BY LeavesAre, RingHasBuffers DEF First, Size, Slots
    <3> QED BY <3>1 DEF Ring
  <2> QED BY <2>1
<1>13. ASSUME NEW v \in Values, NEW m \in Ring(v), ~ (v = k /\ m = n)
       PROVE  Behind(v, m)' = Behind(v, m) /\ BufferOK(v, m)'
  <2>1. \A f \in ConsumersOf(v) \cup {Producer(v)} : f \in Ends /\ f[1] = v
    BY ProducerIs DEF ConsumersOf, Ends
  <2>2. \A f \in ConsumersOf(v) \cup {Producer(v)} : Bit(f, m)' = Bit(f, m)
    BY <1>6, <1>7, <1>12, <1>13, <2>1 DEF OtherBitsStay
  <2>3. ready'[v][m] = ready[v][m] /\ empty'[v][m] = empty[v][m] /\ BufferOK(v, m)
    BY <1>4, <1>9, <1>10, <1>12, <1>13 DEF RingOK
  <2> QED BY <1>4, <2>2, <2>3, BehindStays, BufferStays
<1>14. n \in Ring(k) /\ Behind(k, n) = {} /\ BufferOK(k, n)
  <2>1. n >= First(k) /\ Behind(k, n) = {}
    BY <1>2, <1>6, <1>7 DEF HeldOK
  <2>2. n \in Int /\ n < Size(k)
    BY <1>2, <1>6 DEF IndexOK
  <2>3. n \in Ring(k)
    BY <1>6, <1>12, <2>1, <2>2 DEF Ring
  <2> QED BY <1>6, <1>9, <2>1, <2>3 DEF RingOK
<1>15. Behind(k, n)' = ConsumersOf(k) /\ BufferOK(k, n)'
  <2>1. PICK b : b = async[e].phase
    OBVIOUS
  <2>2. b \in {0, 1} /\ Bit(e, n) = b /\ Bit(e, n)' = 1 - b
    BY <1>6, <1>7, <2>1 DEF IndexOK
  <2>3. Producer(k) = e /\ Producer(k)' = e /\ Bit(Producer(k), n) = b /\ Bit(Producer(k), n)' = 1 - b
    BY <1>6, <1>8, <2>2
  <2>4. \A c \in ConsumersOf(k) : Bit(c, n) = b
    BY <1>14, <2>3 DEF Behind
  <2>5. \A c \in ConsumersOf(k) : Bit(c, n)' = b
    <3>1. ASSUME NEW c \in ConsumersOf(k) PROVE Bit(c, n)' = b
      <4>1. c \in Ends /\ c # e /\ n \in Int
        BY <1>6, <1>12, <1>14 DEF ConsumersOf, Ends
      <4> QED BY <1>7, <2>4, <4>1 DEF OtherBitsStay
    <3> QED BY <3>1
  <2>6. Behind(k, n)' = ConsumersOf(k)
    <3>1. Behind(k, n)' = {c \in ConsumersOf(k) : Bit(c, n)' # 1 - b}
      BY <1>8, <2>3 DEF Behind
    <3>2. 1 - b # b
      BY <2>2
    <3> QED BY <2>5, <3>1, <3>2
  <2>7. ready'[k][n].parity = 1 - b
    <3>1. ready[k][n].parity = b
      BY <1>14, <2>3 DEF BufferOK
    <3>2. n \in Slots(k)
      BY <1>6, <1>12, <1>14
    <3>3. ready'[k][n] = Arrive(ready[k][n], 1)
      BY <1>6, <1>10, <3>2
    <3> QED BY <1>6, <1>11, <3>1, <3>2, <3>3
  <2>8. empty'[k][n].pending = numConsumers(k) /\ empty'[k][n].parity = 1 - b
    BY <1>4, <1>14, <2>3 DEF BufferOK
  <2>9. ConsumersOf(k) # {} /\ numConsumers(k) = Cardinality(ConsumersOf(k))
    BY <1>6, ValuesAre
  <2> QED BY <1>8, <2>3, <2>6, <2>7, <2>8, <2>9 DEF BufferOK
<1>16. CodeOK'
  BY <1>4, CodeStays
<1>17. BarriersOK'
  <2>1. \A v, b : EmptyOK(v, b) => EmptyOK(v, b)'
    BY <1>8 DEF EmptyOK, Barrier
  <2>2. \A v \in Values : \A m \in Slots(v) : EmptyOK(v, empty[v][m])'
    BY <1>4, <1>11, <2>1
  <2>3. \A v \in Values : \A m \in Slots(v) : ReadyOK(ready[v][m])'
    BY <1>11 DEF ReadyOK, Barrier
  <2>4. DOMAIN empty' = Values /\ \A v \in Values : DOMAIN empty'[v] = Slots(v)
    BY <1>4 DEF BarriersOK
  <2> QED BY <1>8, <1>10, <2>2, <2>3, <2>4 DEF BarriersOK
<1>18. ASSUME NEW f \in Ends PROVE HeldOK(f)'
  <2>1. CASE f = e
    BY <1>7, <2>1 DEF HeldOK
  <2>2. CASE f # e
    <3>1. PICK v, m : v = f[1] /\ m = async[f].idx
      OBVIOUS
    <3>2. HeldOK(f) /\ (Holds(f)' <=> Holds(f)) /\ async'[f].idx = m /\ IndexOK(f) /\ v \in Values
      BY <1>4, <1>7, <1>9, <2>2, <3>1, EndIs
    <3>3. m >= First(v) => m \in Ring(v)
      <4>1. m \in Int /\ m < Size(v) /\ First(v) \in Int /\ Size(v) \in Int
        BY <1>12, <3>1, <3>2 DEF IndexOK
      <4> QED BY <4>1 DEF Ring
    <3>4. CASE f \in Consumers
      <4>1. ASSUME m >= First(v), f \in Behind(v, m) PROVE f \in Behind(v, m)'
        BY <1>13, <1>14, <3>2, <3>3, <4>1
      <4> QED BY <1>8, <3>1, <3>2, <3>4, <4>1 DEF HeldOK
    <3>5. CASE f \notin Consumers
      <4>1. v # k
        BY <1>6, <2>2, <3>1, <3>5, EndIs
      <4>2. m >= First(v) => Behind(v, m)' = Behind(v, m)
        BY <1>13, <3>2, <3>3, <4>1
      <4> QED BY <1>8, <3>1, <3>2, <3>5, <4>2 DEF HeldOK
    <3> QED BY <3>4, <3>5
  <2> QED BY <2>1, <2>2
<1>19. DOMAIN got' = Consumers /\ DOMAIN async' = Ends
  BY <1>4, <1>9
<1>20. \A v \in Values : RingOK(v)'
  BY <1>8, <1>13, <1>15 DEF RingOK
<1>21. Running'
  BY <1>7, <1>8, <1>18, <1>19, <1>20 DEF Running
<1> QED BY <1>16, <1>17, <1>21

-----------------------------------------------------------------------------
(* The pass, and the start of the partitions.                              *)

\* A use at a distance is of an iter arg of the value's tree.
LEMMA ArgOfUse ==
  ASSUME loop \in Loops, NEW c \in Consumers, c[3] > 0, NEW u \in UsesOf(c), NEW a, a = -u[2]
  PROVE  a \in Nodes(c[1]) /\ a \in Args /\ -a = u[2] /\ Defined(-a) /\ Distance(-a) = c[3]
<1>1. u \in Crossing /\ u[2] \in Operand /\ Defined(u[2]) /\ Origin(u[2]) = c[1] /\ Distance(u[2]) = c[3]
  BY ConsumersAre
<1>2. u[2] \in Int /\ N \in Nat /\ OpIds \subseteq Nat \ {0} /\ c[3] \in Nat
  BY <1>1, LoopIs, ConsumersAre
<1>3. u[2] \notin OpIds
  <2> SUFFICES ASSUME u[2] \in OpIds PROVE FALSE
    OBVIOUS
  <2>1. 0 \in 0 .. N /\ 0 < Distance(u[2])
    BY <1>1, <1>2
  <2>2. -Follow(u[2])[0] \in Args
    BY <1>1, <2>1, DistanceIs
  <2>3. Follow(u[2])[0] = u[2]
    BY <1>1, FollowIs
  <2> QED BY <1>2, <2>2, <2>3, LoopIs
<1>4. a \in Args /\ -a = u[2] /\ u[2] < 0
  <2>1. -a = u[2]
    BY <1>2
  <2>2. a \in Args
    BY <1>1, <1>3 DEF Operand
  <2> QED BY <1>2, <2>1, <2>2, LoopIs
<1>5. Defined(-a) /\ Distance(-a) = c[3] /\ Origin(-a) = c[1]
  BY <1>1, <1>4
<1>6. a \in Range(Path(a))
  <2>1. 0 \in 0 .. Distance(-a) - 1
    BY <1>2, <1>5
  <2>2. Met(a, 0) = a
    BY <1>4, <1>5, ArgIs DEF Met
  <2> QED BY <1>4, <1>5, <2>1, <2>2, PathIs
<1>7. a \in Nodes(c[1])
  BY <1>1, <1>4, <1>6 DEF Nodes
<1> QED BY <1>4, <1>5, <1>7

\* The index of a consumer at a distance starts in the branch of its iter arg,
\* as far before the branch's end as the distance is.
LEMMA StartIs ==
  ASSUME loop \in Loops, NEW c \in Consumers, c[3] > 0, NEW u \in UsesOf(c), NEW a, a = -u[2],
         NEW t \in Traversals(c[1])
  PROVE  /\ StartOf(t, c, a) \in Nat /\ StartOf(t, c, a) + c[3] <= First(c[1])
         /\ \/ EndIfAsked(t, c, a) = StartOf(t, c, a) + c[3]
            \/ EndIfAsked(t, c, a) = 0 /\ StartOf(t, c, a) + c[3] = First(c[1])
<1>1. a \in Nodes(c[1]) /\ Distance(-a) = c[3] /\ c[3] \in Nat \ {0}
  BY ArgOfUse, ConsumersAre
<1>2. PICK n : n = BranchOf(t, a)
  OBVIOUS
<1>3. n \in 1 .. Len(t) /\ c[3] <= Distance(-t[n])
  BY <1>1, <1>2, BranchIs
<1>4. PICK first, end, start, d \in Nat :
         first = First(c[1]) /\ end = SegEnd(t, n) /\ start = SegStart(t, n) /\ d = Distance(-t[n])
  BY <1>3, SegmentsAre, LeavesAre DEF First
<1>5. end = start + d /\ end <= first /\ (n = Len(t) => end = first)
  BY <1>3, <1>4, SegmentsAre DEF First
<1>6. StartOf(t, c, a) = end - c[3] /\ EndIfAsked(t, c, a) = IF n = Len(t) THEN 0 ELSE end
  BY <1>1, <1>2, <1>4 DEF StartOf, EndIfAsked
<1>7. PICK q \in Nat \ {0} : q = c[3]
  BY <1>1
<1>8. end - q \in Nat /\ (end - q) + q = end
  <2>1. q <= d
    BY <1>3, <1>4, <1>7
  <2>2. end = start + d
    BY <1>5
  <2> QED BY <2>1, <2>2
<1>9. \/ EndIfAsked(t, c, a) = end
      \/ EndIfAsked(t, c, a) = 0 /\ end = first
  BY <1>5, <1>6
<1> QED BY <1>4, <1>5, <1>6, <1>7, <1>8, <1>9

\* Barriers with all arrivals of their first phase.
LEMMA ArriveAll ==
  ASSUME NEW n
  PROVE  Arrive(NewBarrier(n), n) = [count |-> n, pending |-> n, parity |-> 1]
<1>1. PICK b : b = NewBarrier(n)
  OBVIOUS
<1>2. b = [count |-> n, pending |-> n, parity |-> 0] /\ b.pending = n /\ b.count = n /\ b.parity = 0
  BY <1>1 DEF NewBarrier
<1>3. Arrive(b, n) = [b EXCEPT !.pending = n, !.parity = 1]
  BY <1>2 DEF Arrive
<1> QED BY <1>1, <1>2, <1>3

\* The pass gives the barriers and the indices that the invariant asks for.
LEMMA RewriteGives ==
  ASSUME loop \in Loops, verify, Rewrite
  PROVE  CodeOK' /\ BarriersOK' /\ \A k \in Values : RingIsEmpty(k)'
<1>1. PICK s \in [Values -> UNION {Traversals(k) : k \in Values}] : \E front \in [Consumers -> Crossing] :
         /\ \A k \in Values : s[k] \in Traversals(k)
         /\ \A c \in Consumers : front[c] \in UsesOf(c)
         /\ code' = Generated(s, front)
         /\ ready' = [k \in Values |-> [n \in Slots(k) |-> InitReady(k, n)]]
         /\ empty' = [k \in Values |-> [n \in Slots(k) |-> InitEmpty(k, n)]]
         /\ buf' = [k \in Values |-> [n \in Slots(k) |-> InitBuf(s, k, n)]]
  BY DEF Rewrite
<1>2. PICK front \in [Consumers -> Crossing] :
         /\ \A k \in Values : s[k] \in Traversals(k)
         /\ \A c \in Consumers : front[c] \in UsesOf(c)
         /\ code' = Generated(s, front)
         /\ ready' = [k \in Values |-> [n \in Slots(k) |-> InitReady(k, n)]]
         /\ empty' = [k \in Values |-> [n \in Slots(k) |-> InitEmpty(k, n)]]
         /\ buf' = [k \in Values |-> [n \in Slots(k) |-> InitBuf(s, k, n)]]
  BY <1>1
<1>3. loop' = loop
  BY DEF Rewrite
<1>4. /\ Ends' = Ends /\ Values' = Values /\ Consumers' = Consumers /\ OpIds' = OpIds
      /\ \A v : Ring(v)' = Ring(v) /\ First(v)' = First(v) /\ Size(v)' = Size(v) /\ Slots(v)' = Slots(v)
      /\ \A v : numConsumers(v)' = numConsumers(v) /\ Loads(v)' = Loads(v)
  BY <1>3, SameLoop DEF Same1, Same4, Same5, Same6, Same7
<1>5. /\ code'.index = Generated(s, front).index
      /\ code'.loads = [k \in OpIds |-> Loads(k)] /\ code'.stores = Values
  BY <1>2 DEF Generated, Loads
<1>6. /\ DOMAIN code'.index = Ends
      /\ \A e \in Ends : code'.index[e] =
            IF e \in Consumers
            THEN AsyncIndex(e[1], StartOf(s[e[1]], e, -front[e][2]), EndIfAsked(s[e[1]], e, -front[e][2]))
            ELSE AsyncIndex(e[1], getTotalBranchDepth(e[1]), 0)
  BY <1>5 DEF Generated, Ends
<1>7. ASSUME NEW e \in Ends PROVE Where(e)'
  <2>1. PICK x : x = code'.index[e]
    OBVIOUS
  <2>2. CASE e \in Consumers
    <3>1. PICK st, en : st = StartOf(s[e[1]], e, -front[e][2]) /\ en = EndIfAsked(s[e[1]], e, -front[e][2])
      OBVIOUS
    <3>2. x = AsyncIndex(e[1], st, en)
      BY <1>6, <2>1, <2>2, <3>1
    <3>3. x.first = First(e[1]) /\ x.size = Size(e[1]) /\ x.start = st /\ x.leave = en
      BY <3>2 DEF AsyncIndex, First, Size
    <3>4. s[e[1]] \in Traversals(e[1]) /\ front[e] \in UsesOf(e)
      BY <1>2, <2>2, ConsumersAre
    <3>5. CASE e[3] > 0
      <4>1. /\ st \in Nat /\ st + e[3] <= First(e[1])
            /\ en = st + e[3] \/ (en = 0 /\ st + e[3] = First(e[1]))
        BY <2>2, <3>1, <3>4, <3>5, StartIs
      <4> QED BY <1>4, <2>1, <2>2, <3>3, <3>5, <4>1 DEF Where
    <3>6. CASE ~ (e[3] > 0)
      <4>1. e[3] = 0
        BY <2>2, <3>6, ConsumersAre
      <4>2. st = First(e[1]) /\ en = 0
        BY <3>1, <4>1 DEF StartOf, EndIfAsked, First
      <4> QED BY <1>4, <2>1, <2>2, <3>3, <3>6, <4>2 DEF Where
    <3> QED BY <3>5, <3>6
  <2>3. CASE e \notin Consumers
    <3>1. x = AsyncIndex(e[1], First(e[1]), 0)
      BY <1>6, <2>1, <2>3 DEF First
    <3>2. x.first = First(e[1]) /\ x.size = Size(e[1]) /\ x.start = First(e[1]) /\ x.leave = 0
      BY <3>1 DEF AsyncIndex, First, Size
    <3> QED BY <1>4, <2>1, <2>3, <3>2 DEF Where
  <2> QED BY <2>2, <2>3
<1>8. CodeOK'
  BY <1>4, <1>5, <1>6, <1>7 DEF CodeOK
<1>9. \A v \in Values : numConsumers(v) \in Nat \ {0}
  BY ValuesAre
<1>10. ASSUME NEW v \in Values, NEW n \in Slots(v)
       PROVE  /\ ReadyOK(ready'[v][n]) /\ EmptyOK(v, empty'[v][n])
              /\ ~ HasInit(v, n) => /\ ready'[v][n].parity = 0
                                    /\ empty'[v][n].parity = 1 /\ empty'[v][n].pending = numConsumers(v)
  <2>1. ready'[v][n] = InitReady(v, n) /\ empty'[v][n] = InitEmpty(v, n)
    BY <1>2
  <2>2. PICK c \in Nat \ {0} : c = numConsumers(v)
    BY <1>9
  <2>3. CASE HasInit(v, n)
    <3>1. InitReady(v, n) = [count |-> 1, pending |-> 1, parity |-> 1]
      BY <2>3, ArriveAll DEF InitReady
    <3>2. InitEmpty(v, n) = [count |-> c, pending |-> c, parity |-> 0]
      BY <2>2, <2>3 DEF InitEmpty, NewBarrier
    <3> QED BY <2>1, <2>2, <2>3, <3>1, <3>2 DEF ReadyOK, EmptyOK, Barrier
  <2>4. CASE ~ HasInit(v, n)
    <3>1. InitReady(v, n) = [count |-> 1, pending |-> 1, parity |-> 0]
      BY <2>4 DEF InitReady, NewBarrier
    <3>2. InitEmpty(v, n) = [count |-> c, pending |-> c, parity |-> 1]
      BY <2>2, <2>4, ArriveAll DEF InitEmpty
    <3> QED BY <2>1, <2>2, <3>1, <3>2 DEF ReadyOK, EmptyOK, Barrier
  <2> QED BY <2>3, <2>4
<1>11. BarriersOK'
  <2>1. /\ DOMAIN ready' = Values /\ DOMAIN empty' = Values /\ DOMAIN buf' = Values
        /\ \A v \in Values : DOMAIN ready'[v] = Slots(v) /\ DOMAIN empty'[v] = Slots(v)
    BY <1>2
  <2>2. \A v, b : EmptyOK(v, b) => EmptyOK(v, b)'
    BY <1>4 DEF EmptyOK, Barrier
  <2>3. ASSUME NEW v \in Values, NEW n \in Slots(v) PROVE ReadyOK(ready[v][n])' /\ EmptyOK(v, empty[v][n])'
    <3>1. PICK b : b = empty'[v][n]
      OBVIOUS
    <3>2. EmptyOK(v, b)'
      BY <1>10, <2>2, <3>1
    <3> QED BY <1>10, <3>1, <3>2 DEF ReadyOK, Barrier
  <2> QED BY <1>4, <2>1, <2>3 DEF BarriersOK
<1>12. ASSUME NEW v \in Values PROVE RingIsEmpty(v)'
  <2>1. ASSUME NEW n \in Ring(v) PROVE n \in Slots(v) /\ ~ HasInit(v, n)
    <3>1. First(v) \in Nat /\ Size(v) \in Nat /\ Slots(v) = 0 .. Size(v) - 1 /\ getTotalBranchDepth(v) = First(v)
      BY LeavesAre, RingHasBuffers DEF First, Size, Slots
    <3> QED BY <3>1 DEF Ring, HasInit
  <2> QED BY <1>4, <1>10, <2>1 DEF RingIsEmpty
<1> QED BY <1>8, <1>11, <1>12

\* The partitions start with all buffers of the ring empty.
LEMMA ForkGives ==
  ASSUME loop \in Loops, trip \in Trips, verify, CodeOK, BarriersOK, \A k \in Values : RingIsEmpty(k), Fork
  PROVE  /\ CodeOK' /\ BarriersOK' /\ Running'
         /\ \A e \in Ends : ~ Holds(e)' /\ async'[e] = [idx |-> code.index[e].start - 1, phase |-> 0]
                            /\ code.index[e].start \in Nat /\ code.index[e].start <= First(e[1])
<1>1. /\ loop' = loop /\ trip' = trip /\ code' = code /\ ready' = ready /\ empty' = empty /\ buf' = buf
      /\ async' = [e \in DOMAIN code.index |-> [idx |-> code.index[e].start - 1, phase |-> 0]]
      /\ got' = [c \in Consumers |-> None]
  BY DEF Fork
<1>2. PICK p \in [Partitions -> UNION {Starts(P) : P \in Partitions}] :
         (\A P \in Partitions : p[P] \in Starts(P)) /\ pc' = p
  BY DEF Fork
<1>3. /\ Ends' = Ends /\ Values' = Values /\ Consumers' = Consumers /\ Partitions' = Partitions
      /\ \A v : Ring(v)' = Ring(v) /\ First(v)' = First(v) /\ Size(v)' = Size(v) /\ Slots(v)' = Slots(v)
      /\ \A v : numConsumers(v)' = numConsumers(v) /\ ConsumersOf(v)' = ConsumersOf(v) /\ Producer(v)' = Producer(v)
  BY <1>1, SameLoop DEF Same1, Same4, Same5, Same6, Same7
<1>4. CodeOK'
  BY <1>1, CodeStays
<1>5. BarriersOK'
  <2>1. \A v, b : EmptyOK(v, b) => EmptyOK(v, b)'
    BY <1>3 DEF EmptyOK, Barrier
  <2> QED BY <1>1, <1>3, <2>1 DEF BarriersOK, ReadyOK, Barrier
<1>6. DOMAIN pc' = Partitions /\ DOMAIN async' = Ends /\ DOMAIN got' = Consumers
  BY <1>1, <1>2 DEF CodeOK
<1>7. ASSUME NEW P \in Partitions PROVE Placed(P, pc[P])' /\ pc'[P].held = FALSE
  <2>1. PICK q : q = pc'[P]
    OBVIOUS
  <2>2. q \in After(P, -1, Len(loop.part))
    BY <1>2, <2>1 DEF Starts
  <2>3. trip \in Nat /\ -1 \in -1 .. trip - 1 /\ Len(loop.part) \in Nat /\ Len(loop.part) >= Len(loop.part)
    BY LoopsAssumption, LoopIs
  <2>4. Placed(P, q) /\ q.held = FALSE
    BY <2>2, <2>3, AfterIs
  <2>5. Placed(P, q)'
    BY <1>1, <2>4, PlacedStays
  <2> QED BY <2>1, <2>4, <2>5
<1>8. ASSUME NEW e \in Ends
      PROVE  /\ async'[e].idx \in Int /\ async'[e].phase = 0 /\ async'[e].idx < First(e[1])
             /\ ~ Holds(e)' /\ IndexOK(e)' /\ HeldOK(e)'
             /\ async'[e] = [idx |-> code.index[e].start - 1, phase |-> 0]
             /\ code.index[e].start \in Nat /\ code.index[e].start <= First(e[1])
  <2>1. PICK st, first, size \in Nat : st = code.index[e].start /\ first = First(e[1]) /\ size = Size(e[1])
    BY WhereIs, EndIs, LeavesAre, RingHasBuffers DEF CodeOK, First, Size
  <2>2. st <= first /\ first < size /\ (e \notin Consumers => st = first)
    <3>1. st <= first /\ (e \notin Consumers => st = first)
      BY <2>1, WhereIs DEF CodeOK
    <3> QED BY <2>1, <3>1, EndIs, LeavesAre, RingHasBuffers DEF First, Size
  <2>3. async'[e] = [idx |-> st - 1, phase |-> 0]
    BY <1>1, <2>1 DEF CodeOK
  <2>4. ~ Holds(e)'
    BY <1>7, EndIs DEF Holds
  <2>5. IndexOK(e)'
    BY <1>3, <2>1, <2>2, <2>3 DEF IndexOK
  <2>6. async'[e].idx \in Int /\ async'[e].phase = 0 /\ async'[e].idx < First(e[1])
    BY <2>1, <2>2, <2>3
  <2> QED BY <2>1, <2>2, <2>3, <2>4, <2>5, <2>6 DEF HeldOK
<1>9. ASSUME NEW v \in Values, NEW n \in Ring(v) PROVE BufferOK(v, n)'
  <2>1. n \in Int /\ First(v) \in Int /\ n >= First(v)
    BY LeavesAre, RingHasBuffers DEF Ring, First, Size
  <2>2. ASSUME NEW e \in ConsumersOf(v) \cup {Producer(v)} PROVE Bit(e, n)' = 0
    <3>1. e \in Ends /\ e[1] = v
      BY ProducerIs DEF ConsumersOf, Ends
    <3>2. async'[e].idx \in Int /\ async'[e].phase = 0 /\ async'[e].idx < First(v)
      BY <1>8, <3>1
    <3>3. ~ (n < async'[e].idx) /\ n # async'[e].idx
      BY <2>1, <3>2
    <3>4. ~ Past(e, n)'
      BY <3>3 DEF Past
    <3> QED BY <3>2, <3>4 DEF Bit
  <2>3. Bit(Producer(v), n)' = 0
    <3>1. PICK q : q = Producer(v)
      OBVIOUS
    <3>2. Bit(q, n)' = 0 /\ Producer(v)' = q
      BY <1>3, <2>2, <3>1
    <3> QED BY <3>2
  <2>4. Behind(v, n)' = {}
    <3>1. Behind(v, n)' = {c \in ConsumersOf(v) : Bit(c, n)' # 0}
      BY <1>3, <2>3 DEF Behind
    <3> QED BY <2>2, <3>1
  <2>5. ready'[v][n].parity = 0 /\ empty'[v][n].parity = 1 /\ empty'[v][n].pending = numConsumers(v)
    BY <1>1 DEF RingIsEmpty
  <2> QED BY <1>3, <2>3, <2>4, <2>5 DEF BufferOK
<1>10. \A v \in Values : RingOK(v)'
  BY <1>3, <1>9 DEF RingOK
<1>11. Running'
  BY <1>3, <1>6, <1>7, <1>8, <1>10 DEF Running
<1> QED BY <1>4, <1>5, <1>8, <1>11

-----------------------------------------------------------------------------
(* The invariant, and exclusive use of the buffers.                        *)

\* The initial states.
LEMMA InitHolds == Init => IInv
BY DEF Init, IInv, Phases

\* The steps that change nothing.
LEMMA StutterKeeps ==
  ASSUME IInv, UNCHANGED vars
  PROVE  IInv'
<1>1. /\ loop' = loop /\ trip' = trip /\ phase' = phase /\ code' = code /\ ready' = ready /\ empty' = empty
      /\ buf' = buf /\ async' = async /\ pc' = pc /\ got' = got
  BY DEF vars
<1>2. /\ Ends' = Ends /\ Values' = Values /\ Consumers' = Consumers /\ Partitions' = Partitions
      /\ \A v : Ring(v)' = Ring(v) /\ Slots(v)' = Slots(v) /\ First(v)' = First(v)
      /\ \A v : numConsumers(v)' = numConsumers(v) /\ ConsumersOf(v)' = ConsumersOf(v) /\ Producer(v)' = Producer(v)
      /\ verify' <=> verify
  BY <1>1, SameLoop DEF Same1, Same4, Same5, Same6, Same7
<1>3. CodeOK => CodeOK'
  BY <1>1, CodeStays
<1>4. BarriersOK => BarriersOK'
  BY <1>1, <1>2 DEF BarriersOK, ReadyOK, EmptyOK, Barrier
<1>5. (\A k \in Values : RingIsEmpty(k)) => (\A k \in Values : RingIsEmpty(k))'
  BY <1>1, <1>2 DEF RingIsEmpty
<1>6. Running => Running'
  <2> SUFFICES ASSUME Running PROVE Running'
    OBVIOUS
  <2>1. \A e : Holds(e)' <=> Holds(e)
    BY <1>1 DEF Holds
  <2>2. \A e, n : Bit(e, n)' = Bit(e, n)
    BY <1>1, <2>1 DEF Bit, Past
  <2>3. \A k, n : Behind(k, n)' = Behind(k, n)
    BY <1>2, <2>2 DEF Behind
  <2>4. ASSUME NEW P \in Partitions PROVE Placed(P, pc[P])'
    <3>1. PICK q : q = pc[P]
      OBVIOUS
    <3>2. Placed(P, q)'
      BY <1>1, <3>1, PlacedStays DEF Running
    <3> QED BY <1>1, <3>1, <3>2
  <2>5. \A e \in Ends : IndexOK(e)'
    BY <1>1, IndexStays DEF Running
  <2>6. \A e \in Ends : HeldOK(e)'
    BY <1>1, <1>2, <2>1, <2>3 DEF Running, HeldOK
  <2>7. ASSUME NEW k \in Values, NEW n \in Ring(k) PROVE BufferOK(k, n)'
    <3>1. loop \in Loops /\ BufferOK(k, n)
      BY DEF IInv, Running, RingOK
    <3>2. \A e \in ConsumersOf(k) \cup {Producer(k)} : Bit(e, n)' = Bit(e, n)
      BY <2>2
    <3> QED BY <1>1, <3>1, <3>2, BufferStays
  <2> QED BY <1>1, <1>2, <2>4, <2>5, <2>6, <2>7 DEF Running, RingOK
<1> QED BY <1>1, <1>2, <1>3, <1>4, <1>5, <1>6 DEF IInv

\* All the others, one case for each action.
LEMMA NextKeeps ==
  ASSUME IInv, Next
  PROVE  IInv'
<1>1. CASE Verify
  <2>1. /\ loop' = loop /\ trip' = trip /\ phase = "verify"
        /\ phase' = IF verify THEN "rewrite" ELSE "rejected"
    BY <1>1 DEF Verify
  <2>2. verify' <=> verify
    BY <2>1, SameLoop DEF Same7
  <2> QED BY <2>1, <2>2 DEF IInv, Phases
<1>2. CASE Rewrite
  <2>1. loop' = loop /\ trip' = trip /\ phase = "rewrite" /\ phase' = "enter"
    BY <1>2 DEF Rewrite
  <2>2. loop \in Loops /\ verify /\ (verify' <=> verify) /\ Values' = Values
    BY <2>1, SameLoop DEF IInv, Same5, Same7
  <2>3. CodeOK' /\ BarriersOK' /\ \A k \in Values : RingIsEmpty(k)'
    BY <1>2, <2>2, RewriteGives
  <2> QED BY <2>1, <2>2, <2>3 DEF IInv, Phases
<1>3. CASE Fork
  <2>1. loop' = loop /\ trip' = trip /\ phase = "enter" /\ phase' = "run"
    BY <1>3 DEF Fork
  <2>2. loop \in Loops /\ trip \in Trips /\ verify /\ (verify' <=> verify)
        /\ CodeOK /\ BarriersOK /\ \A k \in Values : RingIsEmpty(k)
    BY <2>1, SameLoop DEF IInv, Same7
  <2>3. CodeOK' /\ BarriersOK' /\ Running'
    BY <1>3, <2>2, ForkGives
  <2> QED BY <2>1, <2>2, <2>3 DEF IInv, Phases
<1>4. CASE Join
  <2>1. loop' = loop /\ trip' = trip /\ phase' = "done"
    BY <1>4 DEF Join
  <2> QED BY <2>1 DEF IInv, Phases
<1>5. ASSUME NEW P \in PartIds, Step(P) PROVE IInv'
  <2>1. phase = "run" /\ P \in Partitions
    BY <1>5 DEF Step
  <2>2. loop \in Loops /\ trip \in Trips /\ verify /\ CodeOK /\ BarriersOK /\ Running
    BY <2>1 DEF IInv
  <2>3. CASE SpinOnBarrier(P)
    BY <2>3, StutterKeeps DEF SpinOnBarrier
  <2>4. CASE WaitBarrier(P) \/ Load(P) \/ Store(P)
    <3>1. loop' = loop /\ trip' = trip /\ phase' = phase
      BY <2>4 DEF WaitBarrier, Load, Store
    <3>2. CodeOK' /\ BarriersOK' /\ Running'
      BY <2>1, <2>2, <2>4, WaitKeeps, LoadKeeps, StoreKeeps
    <3>3. verify'
      BY <2>2, <3>1, SameLoop DEF Same7
    <3> QED BY <2>1, <2>2, <3>1, <3>2, <3>3 DEF IInv, Phases
  <2> QED BY <1>5, <2>3, <2>4 DEF Step
<1>6. CASE Terminated
  BY <1>6, StutterKeeps DEF Terminated
<1> QED BY <1>1, <1>2, <1>3, <1>4, <1>5, <1>6 DEF Next, Compile

\* RewritePartitionDependencies.cpp: no partition stores to a buffer that another
\* has waited for and not given back, whatever the loop, its schedule and the
\* speeds of the partitions are; and no barrier is arrived at too often.
THEOREM BuffersAreExclusive == Spec => []BuffersExclusive
<1>1. Init => IInv
  BY InitHolds
<1>2. IInv /\ [Next]_vars => IInv'
  BY NextKeeps, StutterKeeps
<1>3. IInv => BuffersExclusive
  <2> SUFFICES ASSUME IInv, phase = "run"
               PROVE  BuffersExclusive
    BY DEF BuffersExclusive
  <2>1. loop \in Loops /\ verify /\ BarriersOK /\ Running
    BY DEF IInv
  <2>2. ASSUME NEW k \in DOMAIN buf, NEW n \in DOMAIN ready[k]
        PROVE  ready[k][n].pending \in 1 .. ready[k][n].count /\ empty[k][n].pending \in 1 .. empty[k][n].count
    <3>1. k \in Values /\ n \in Slots(k) /\ ReadyOK(ready[k][n]) /\ EmptyOK(k, empty[k][n])
      BY <2>1 DEF BarriersOK
    <3> QED BY <3>1 DEF ReadyOK, EmptyOK
  <2>3. ASSUME NEW P \in Partitions, NEW Q \in Partitions, P # Q, pc[P].held, pc[Q].held,
               pc[P].end[1] = pc[Q].end[1], Slot(P) = Slot(Q), ~ Loading(P)
        PROVE  FALSE
    <3>1. PICK e, f : e = pc[P].end /\ f = pc[Q].end
      OBVIOUS
    <3>2. /\ e \in Ends /\ e[2] = P /\ e \notin Consumers /\ HeldOK(e) /\ f \in Ends /\ f[2] = Q /\ HeldOK(f)
          /\ e[1] = f[1] /\ async[e].idx = async[f].idx
      BY <2>1, <2>3, <3>1, AtWorkIs DEF Slot
    <3>3. Holds(e) /\ Holds(f)
      BY <2>3, <3>1, <3>2 DEF Holds
    <3>4. async[e].idx >= First(e[1]) /\ Behind(e[1], async[e].idx) = {}
      BY <3>2, <3>3 DEF HeldOK
    <3>5. f \in Consumers
      BY <2>1, <2>3, <3>2, EndIs
    <3>6. f \in Behind(f[1], async[f].idx)
      BY <3>2, <3>3, <3>4, <3>5 DEF HeldOK
    <3> QED BY <3>2, <3>4, <3>6
  <2> QED BY <2>2, <2>3 DEF BuffersExclusive
<1> QED BY <1>1, <1>2, <1>3, PTL DEF Spec

-----------------------------------------------------------------------------
(* How often an end has been served, and what it will be served next.      *)

OpOf(e) == IF e \in Consumers THEN earliestUser(e) ELSE e[1]
Through(p, e) == \/ p.op > OpOf(e)
                 \/ p.op = OpOf(e) /\ e \in Consumers /\ e \notin p.left /\ e # p.end
TurnAt(p, e) == p.it + (IF Through(p, e) THEN 1 ELSE 0)
Turn(e) == TurnAt(pc[e[2]], e)

\* The end is at the initial values, where its index counts its turns.
InInit(e) == async[e].idx < First(e[1])
Latest(e) == IF Holds(e) THEN async[e].idx - 1 ELSE async[e].idx
InitPlace(e) ==
    InInit(e) => /\ Latest(e) = code.index[e].start - 1 + Turn(e) /\ Turn(e) <= e[3]
                 /\ Holds(e) => Turn(e) < e[3]

\* What buffer n holds for the end when it comes to it next, or is at it: the
\* value of that iteration.
NextTurn(e, n) ==
    IF InInit(e) THEN n - First(e[1])
    ELSE Turn(e) - e[3] - (IF Holds(e) THEN 0 ELSE 1) + (n - async[e].idx)
         + (IF Past(e, n) THEN maxUseDistance(e[1]) ELSE 0)

\* The operation that an end is served at.
LEMMA OpOfIs ==
  ASSUME loop \in Loops, NEW e \in Ends
  PROVE  /\ OpOf(e) \in OpIds /\ OpOf(e) \in Nat \ {0} /\ loop.part[OpOf(e)] = e[2]
         /\ CodeOK => Busy(e[2], OpOf(e))
         /\ e \in Consumers => e \in Loads(OpOf(e))
         /\ e \notin Consumers => OpOf(e) \in Values /\ e = Producer(OpOf(e))
<1>1. OpIds \subseteq Nat \ {0}
  BY LoopIs
<1>2. CASE e \in Consumers
  <2>1. OpOf(e) = earliestUser(e) /\ OpOf(e) \in OpIds /\ loop.part[OpOf(e)] = e[2]
    BY <1>2, ConsumersAre DEF OpOf
  <2>2. e \in Loads(OpOf(e))
    BY <1>2, <2>1 DEF Loads
  <2>3. CodeOK => Busy(e[2], OpOf(e))
    BY <2>1, <2>2 DEF CodeOK, Busy
  <2> QED BY <1>1, <1>2, <2>1, <2>2, <2>3
<1>3. CASE e \notin Consumers
  <2>1. OpOf(e) = e[1] /\ e[1] \in Values /\ e = Producer(e[1]) /\ e[1] \in OpIds
    BY <1>3, EndIs, ValuesAre DEF OpOf
  <2>2. loop.part[e[1]] = e[2]
    BY <2>1, ProducerIs
  <2>3. CodeOK => Busy(e[2], OpOf(e))
    BY <2>1, <2>2 DEF CodeOK, Busy
  <2> QED BY <1>1, <1>3, <2>1, <2>2, <2>3
<1> QED BY <1>2, <1>3

\* On entering an operation, its ends are still to be served.
LEMMA EnterTurn ==
  ASSUME loop \in Loops, CodeOK, NEW it \in Int, NEW k \in OpIds, NEW q \in Enter(it, k), NEW f \in Ends
  PROVE  TurnAt(q, f) = it + (IF OpOf(f) < k THEN 1 ELSE 0)
<1>1. k \in Nat /\ OpOf(f) \in Nat /\ (f \in Consumers => f \in Loads(OpOf(f)))
  BY OpOfIs, LoopIs
<1>2. code.loads[k] = Loads(k)
  BY DEF CodeOK
<1>3. CASE Loads(k) # {}
  <2>1. PICK e \in Loads(k) : q = At(it, k, Loads(k) \ {e}, e)
    BY <1>2, <1>3 DEF Enter
  <2>2. q.it = it /\ q.op = k /\ q.left = Loads(k) \ {e} /\ q.end = e
    BY <2>1 DEF At
  <2>3. Through(q, f) <=> OpOf(f) < k
    BY <1>1, <2>2 DEF Through
  <2> QED BY <2>2, <2>3 DEF TurnAt
<1>4. CASE Loads(k) = {}
  <2>1. q = At(it, k, {}, Producer(k))
    BY <1>2, <1>4 DEF Enter
  <2>2. q.it = it /\ q.op = k
    BY <2>1 DEF At
  <2>3. Through(q, f) <=> OpOf(f) < k
    BY <1>1, <1>4, <2>2 DEF Through
  <2> QED BY <2>2, <2>3 DEF TurnAt
<1> QED BY <1>3, <1>4

\* After operation k, its ends and the earlier ones have been served.
LEMMA AfterTurn ==
  ASSUME loop \in Loops, trip \in Nat, CodeOK, NEW it \in -1 .. trip - 1, NEW k \in Nat,
         it = -1 => k >= Len(loop.part), NEW f \in Ends, NEW q \in After(f[2], it, k)
  PROVE  TurnAt(q, f) = it + (IF OpOf(f) <= k THEN 1 ELSE 0)
<1> DEFINE P == f[2]
           later == {n \in OpIds : n > k /\ Busy(P, n)}
           all   == {n \in OpIds : Busy(P, n)}
<1>1. OpIds \subseteq Nat
  BY LoopIs
<1>2. PICK o \in Nat \ {0} : o = OpOf(f) /\ o \in all
  BY OpOfIs
<1>3. ASSUME NEW T \in SUBSET all, T # {} PROVE Min(T) \in T /\ Min(T) \in OpIds /\ Min(T) \in Nat /\ \A y \in T : Min(T) <= y
  <2>1. T \in SUBSET Nat
    BY <1>1
  <2>2. \E x \in T : \A y \in T : x <= y
    BY <1>3, <2>1, LeastNatural
  <2>3. Min(T) \in T /\ \A y \in T : Min(T) <= y
    BY <2>2 DEF Min
  <2> QED BY <2>1, <2>3
<1>4. CASE later # {}
  <2>1. later \in SUBSET all
    OBVIOUS
  <2>2. PICK n : n = Min(later)
    OBVIOUS
  <2>3. n \in later /\ n \in OpIds /\ n \in Nat /\ n > k /\ (o > k => n <= o)
    <3>1. n \in later /\ n \in OpIds /\ n \in Nat /\ \A y \in later : n <= y
      BY <1>3, <1>4, <2>1, <2>2
    <3> QED BY <1>2, <3>1
  <2>4. q \in Enter(it, n) /\ it \in Int
    BY <1>4, <2>2 DEF After
  <2>5. TurnAt(q, f) = it + (IF o < n THEN 1 ELSE 0)
    BY <1>2, <2>3, <2>4, EnterTurn
  <2>6. o < n <=> o <= k
    BY <1>2, <2>3
  <2> QED BY <1>2, <2>5, <2>6
<1>5. CASE later = {}
  <2>1. o <= k
    BY <1>2, <1>5
  <2>2. CASE it + 1 < trip
    <3>1. PICK n : n = Min(all)
      OBVIOUS
    <3>2. n \in OpIds /\ n \in Nat /\ n <= o
      BY <1>2, <1>3, <3>1
    <3>3. q \in Enter(it + 1, n) /\ it + 1 \in Int
      BY <1>2, <1>5, <2>2, <3>1 DEF After
    <3>4. TurnAt(q, f) = it + 1 + (IF o < n THEN 1 ELSE 0)
      BY <1>2, <3>2, <3>3, EnterTurn
    <3>5. ~ (o < n)
      BY <1>2, <3>2
    <3> QED BY <1>2, <2>1, <3>4, <3>5
  <2>3. CASE ~ (it + 1 < trip)
    <3>1. q = Finished
      BY <1>5, <2>3 DEF After
    <3>2. q.it = trip /\ q.op = 0
      BY <3>1 DEF Finished, At
    <3>3. ~ Through(q, f)
      BY <1>2, <3>2 DEF Through
    <3>4. trip = it + 1
      BY <2>3
    <3> QED BY <1>2, <2>1, <3>2, <3>3, <3>4 DEF TurnAt
  <2> QED BY <2>2, <2>3
<1> QED BY <1>4, <1>5

\* At the start no end has been served.
LEMMA StartTurn ==
  ASSUME loop \in Loops, trip \in Nat, CodeOK, NEW f \in Ends, NEW q \in Starts(f[2])
  PROVE  TurnAt(q, f) = 0
<1>1. OpOf(f) \in OpIds /\ OpIds = 1 .. Len(loop.part) /\ Len(loop.part) \in Nat
  BY OpOfIs, LoopIs
<1>2. -1 \in -1 .. trip - 1 /\ Len(loop.part) >= Len(loop.part) /\ OpOf(f) <= Len(loop.part)
  BY <1>1
<1>3. TurnAt(q, f) = -1 + (IF OpOf(f) <= Len(loop.part) THEN 1 ELSE 0)
  BY <1>1, <1>2, AfterTurn DEF Starts
<1> QED BY <1>2, <1>3

\* A partition that goes on has served the end that it was at, and no other.
LEMMA FollowingTurn ==
  ASSUME loop \in Loops, trip \in Nat, CodeOK, NEW P, AtEnd(P, pc[P]), NEW q \in Following(P),
         NEW p, p = pc[P], NEW f \in Ends, f[2] = P
  PROVE  /\ TurnAt(p, f) \in Nat
         /\ f = p.end => TurnAt(p, f) = p.it /\ TurnAt(q, f) = p.it + 1
         /\ f # p.end => TurnAt(q, f) = TurnAt(p, f)
<1>1. /\ AtEnd(P, p) /\ p.it \in 0 .. trip - 1 /\ p.op \in OpIds /\ p.left \subseteq Loads(p.op)
      /\ OpIds \subseteq Nat
  BY LoopIs DEF AtEnd
<1>2. PICK o \in Nat : o = OpOf(f)
  BY OpOfIs
<1>3. PICK i, op \in Nat : i = p.it /\ op = p.op
  BY <1>1
<1>4. /\ f \in Consumers => f \in Loads(o)
      /\ f \notin Consumers => o \in Values /\ f = Producer(o)
  BY <1>2, OpOfIs
<1>5. \A k : \A e \in Loads(k) : e \in Consumers /\ (\A v \in Values : e # Producer(v))
      /\ \A j : e \in Loads(j) => j = k
  BY ProducerIs DEF Loads
<1>6. f = p.end => o = op /\ ~ Through(p, f)
  <2> SUFFICES ASSUME f = p.end PROVE o = op /\ ~ Through(p, f)
    OBVIOUS
  <2>1. CASE p.end \in Loads(op)
    <3>1. o = op
      BY <1>4, <1>5, <2>1
    <3> QED BY <1>2, <1>3, <3>1 DEF Through
  <2>2. CASE op \in Values /\ p.end = Producer(op)
    <3>1. f \notin Consumers /\ Producer(op)[1] = op
      BY <2>2, ProducerIs
    <3>2. o = op
      BY <1>4, <2>2, <3>1, ProducerIs
    <3> QED BY <1>2, <1>3, <3>1, <3>2 DEF Through
  <2> QED BY <1>1, <1>3, <2>1, <2>2 DEF AtEnd
<1>7. TurnAt(p, f) = i + (IF Through(p, f) THEN 1 ELSE 0) /\ TurnAt(p, f) \in Nat
  BY <1>3 DEF TurnAt
<1>8. CASE p.left # {}
  <2>1. PICK e \in p.left : q = At(p.it, p.op, p.left \ {e}, e)
    BY <1>8 DEF Following
  <2>2. q.it = i /\ q.op = op /\ q.left = p.left \ {e} /\ q.end = e
    BY <1>3, <2>1 DEF At
  <2>3. p.end \in Loads(op) /\ p.end \notin p.left
    BY <1>1, <1>3, <1>8 DEF AtEnd
  <2>4. f = p.end => Through(q, f)
    BY <1>2, <1>3, <1>5, <1>6, <2>2, <2>3 DEF Through
  <2>5. f # p.end => (Through(q, f) <=> Through(p, f))
    BY <1>2, <1>3, <2>1, <2>2 DEF Through
  <2>6. TurnAt(q, f) = i + (IF Through(q, f) THEN 1 ELSE 0)
    BY <2>2 DEF TurnAt
  <2> QED BY <1>3, <1>6, <1>7, <2>4, <2>5, <2>6
<1>9. CASE p.left = {} /\ p.end # Producer(p.op) /\ p.op \in code.stores
  <2>1. q = At(p.it, p.op, {}, Producer(p.op))
    BY <1>9 DEF Following
  <2>2. q.it = i /\ q.op = op /\ q.left = {} /\ q.end = Producer(op) /\ op \in Values
    BY <1>3, <1>9, <2>1 DEF At, CodeOK
  <2>3. p.end \in Loads(op)
    BY <1>1, <1>3, <1>9 DEF AtEnd
  <2>4. f \in Consumers => f # Producer(op)
    BY <2>2, ProducerIs
  <2>5. f = p.end => Through(q, f)
    BY <1>2, <1>5, <1>6, <2>2, <2>3, <2>4 DEF Through
  <2>6. f # p.end => (Through(q, f) <=> Through(p, f))
    BY <1>2, <1>3, <1>9, <2>2, <2>4 DEF Through
  <2>7. TurnAt(q, f) = i + (IF Through(q, f) THEN 1 ELSE 0)
    BY <2>2 DEF TurnAt
  <2> QED BY <1>3, <1>6, <1>7, <2>5, <2>6, <2>7
<1>10. CASE p.left = {} /\ ~ (p.end # Producer(p.op) /\ p.op \in code.stores)
  <2>1. q \in After(f[2], i, op)
    BY <1>3, <1>10 DEF Following
  <2>2. TurnAt(q, f) = i + (IF o <= op THEN 1 ELSE 0)
    <3>1. i \in -1 .. trip - 1 /\ i # -1
      BY <1>1, <1>3
    <3> QED BY <1>2, <2>1, <3>1, AfterTurn
  <2>3. f # p.end => (Through(p, f) <=> o <= op)
    <3> SUFFICES ASSUME f # p.end, o = op PROVE f \in Consumers
      BY <1>2, <1>3, <1>10 DEF Through
    <3>1. f \notin Consumers => op \in Values /\ f = Producer(op)
      BY <1>4
    <3>2. op \in Values => p.end = Producer(op)
      BY <1>3, <1>10 DEF CodeOK
    <3> QED BY <3>1, <3>2
  <2> QED BY <1>2, <1>3, <1>6, <1>7, <2>2, <2>3
<1> QED BY <1>8, <1>9, <1>10

-----------------------------------------------------------------------------
(* How a step changes what an end is served next.                          *)

\* An end's place in the sequence of buffers is known from its turn.
PlacedByTurn(e) == /\ Turn(e) \in Nat /\ InitPlace(e)
                   /\ \A n \in Ring(e[1]) : NextTurn(e, n) \in Nat
TurnStays(e) == /\ PlacedByTurn(e)'
                /\ \A n \in Ring(e[1]) : NextTurn(e, n)' = NextTurn(e, n)
TurnMoves(e, m) == /\ PlacedByTurn(e)'
                   /\ \A n \in Ring(e[1]) :
                        NextTurn(e, n)' = NextTurn(e, n) + (IF n = m THEN maxUseDistance(e[1]) ELSE 0)

\* The types of what an end's turn is computed from.
LEMMA EndTypes ==
  ASSUME loop \in Loops, verify, NEW e \in Ends, IndexOK(e)
  PROVE  /\ First(e[1]) \in Nat /\ maxUseDistance(e[1]) \in Nat \ {0} /\ Size(e[1]) = First(e[1]) + maxUseDistance(e[1])
         /\ e[3] \in Nat /\ async[e].idx \in Int /\ async[e].phase \in {0, 1} /\ async[e].idx < Size(e[1])
         /\ \A n \in Ring(e[1]) : n \in Int /\ First(e[1]) <= n /\ n < Size(e[1])
         /\ e \notin Consumers => e[3] = 0
<1>1. e[1] \in Values
  BY EndIs
<1>2. First(e[1]) \in Nat /\ maxUseDistance(e[1]) \in Nat \ {0} /\ Size(e[1]) = First(e[1]) + maxUseDistance(e[1])
  BY <1>1, LeavesAre, RingHasBuffers DEF First, Size
<1>3. e[3] \in Nat /\ (e \notin Consumers => e[3] = 0)
  <2>1. CASE e \in Consumers
    BY <2>1, ConsumersAre
  <2>2. CASE e \notin Consumers
    BY <2>2, EndIs DEF Producer
  <2> QED BY <2>1, <2>2
<1>4. async[e].idx \in Int /\ async[e].phase \in {0, 1} /\ async[e].idx < Size(e[1])
  BY DEF IndexOK
<1>5. \A n \in Ring(e[1]) : n \in Int /\ First(e[1]) <= n /\ n < Size(e[1])
  BY <1>2 DEF Ring
<1> QED BY <1>2, <1>3, <1>4, <1>5

\* An end that a step does not work at.
LEMMA TurnUnmoved ==
  ASSUME loop' = loop, code' = code, NEW e \in Ends, async'[e] = async[e],
         Holds(e)' <=> Holds(e), Turn(e)' = Turn(e), PlacedByTurn(e)
  PROVE  TurnStays(e)
<1>1. First(e[1])' = First(e[1]) /\ Ring(e[1])' = Ring(e[1]) /\ maxUseDistance(e[1])' = maxUseDistance(e[1])
  BY SameLoop DEF Same6, Same7
<1>2. InInit(e)' <=> InInit(e)
  BY <1>1 DEF InInit
<1>3. InitPlace(e)'
  BY <1>2 DEF PlacedByTurn, InitPlace, Latest
<1>4. ASSUME NEW n PROVE NextTurn(e, n)' = NextTurn(e, n)
  <2>1. Past(e, n)' <=> Past(e, n)
    BY DEF Past
  <2> QED BY <1>1, <1>2, <2>1 DEF NextTurn
<1> QED BY <1>1, <1>3, <1>4 DEF TurnStays, PlacedByTurn

\* The end that waits: its next buffer is the one that its turn calls for.
LEMMA TurnOfWait ==
  ASSUME loop \in Loops, verify, CodeOK, loop' = loop, code' = code, NEW e \in Ends, IndexOK(e),
         async'[e] = NextAsync(e), ~ Holds(e), Holds(e)', Turn(e)' = Turn(e), PlacedByTurn(e)
  PROVE  TurnStays(e)
<1>1. PICK i, f, T : i = async[e].idx /\ f = async[e].phase /\ T = Turn(e)
  OBVIOUS
<1>2. PICK first, size, m, d \in Nat :
         first = First(e[1]) /\ size = Size(e[1]) /\ m = maxUseDistance(e[1]) /\ d = e[3]
  BY EndTypes
<1>3. /\ size = first + m /\ m # 0 /\ i \in Int /\ i < size /\ T \in Nat
      /\ \A n \in Ring(e[1]) : n \in Int /\ first <= n /\ n < size
  BY <1>1, <1>2, EndTypes DEF PlacedByTurn
<1>4. First(e[1])' = first /\ Ring(e[1])' = Ring(e[1]) /\ maxUseDistance(e[1])' = m /\ T = Turn(e)'
  BY <1>1, <1>2, SameLoop DEF Same6, Same7
<1>5. PICK x : x = code.index[e]
  OBVIOUS
<1>6. /\ x.first = first /\ x.size = size /\ x.start \in Nat /\ x.start <= first /\ x.leave \in Nat /\ x.leave <= first
      /\ \/ x.leave = x.start + d /\ d > 0
         \/ x.leave = 0 /\ x.start + d = first
  <2>1. Where(e)
    BY DEF CodeOK
  <2>2. CASE e \in Consumers /\ e[3] > 0
    BY <1>2, <1>5, <2>1, <2>2, WhereIs DEF Where
  <2>3. CASE ~ (e \in Consumers /\ e[3] > 0)
    <3>1. d = 0
      BY <1>2, <2>3, EndTypes
    <3> QED BY <1>2, <1>5, <2>1, <2>3, <3>1, WhereIs DEF Where
  <2> QED BY <2>2, <2>3
<1>7. PICK a : a = async'[e]
  OBVIOUS
<1>8. a.idx = IF i + 1 = size \/ (x.leave # 0 /\ i + 1 = x.leave) THEN first ELSE i + 1
  BY <1>1, <1>5, <1>6, <1>7 DEF NextAsync
<1>9. InInit(e) => i = x.start - 1 + T /\ T <= d
  BY <1>1, <1>2, <1>5 DEF PlacedByTurn, InitPlace, Latest
<1>10. (InInit(e) <=> i < first) /\ (InInit(e)' <=> a.idx < first)
  BY <1>1, <1>2, <1>4, <1>7 DEF InInit
<1>11. ASSUME i < first
       PROVE  \/ a.idx < first /\ a.idx = x.start + T /\ T < d
              \/ a.idx = first /\ T = d
  BY <1>2, <1>3, <1>6, <1>8, <1>9, <1>10, <1>11
<1>12. i >= first => a.idx >= first
  BY <1>2, <1>3, <1>6, <1>8
<1>13. InitPlace(e)'
  <2> SUFFICES ASSUME InInit(e)'
               PROVE  a.idx - 1 = x.start - 1 + T /\ T < d
    BY <1>1, <1>2, <1>3, <1>4, <1>5, <1>7 DEF InitPlace, Latest
  <2>1. i < first /\ a.idx < first
    BY <1>2, <1>3, <1>8, <1>10, <1>12
  <2> QED BY <1>2, <1>3, <1>6, <1>11, <2>1
<1>14. ASSUME NEW n \in Ring(e[1]) PROVE NextTurn(e, n)' = NextTurn(e, n)
  <2>1. n \in Int /\ first <= n /\ n < size
    BY <1>3
  <2>2. (Past(e, n) <=> n <= i) /\ (Past(e, n)' <=> n < a.idx)
    BY <1>1, <1>3, <1>7, <2>1 DEF Past
  <2>3. NextTurn(e, n) = IF i < first THEN n - first ELSE T - d - 1 + (n - i) + (IF n <= i THEN m ELSE 0)
    BY <1>1, <1>2, <1>10, <2>2 DEF NextTurn
  <2>4. NextTurn(e, n)' = IF a.idx < first THEN n - first ELSE T - d - 0 + (n - a.idx) + (IF n < a.idx THEN m ELSE 0)
    BY <1>1, <1>2, <1>4, <1>7, <1>10, <2>2 DEF NextTurn
  <2>5. CASE i < first
    BY <1>2, <1>3, <1>6, <1>11, <2>1, <2>3, <2>4, <2>5
  <2>6. CASE i >= first /\ i + 1 = size
    BY <1>2, <1>3, <1>6, <1>8, <2>1, <2>3, <2>4, <2>6
  <2>7. CASE i >= first /\ i + 1 # size
    <3>1. a.idx = i + 1
      BY <1>2, <1>3, <1>6, <1>8, <2>7
    <3> QED BY <1>2, <1>3, <2>1, <2>3, <2>4, <2>7, <3>1
  <2> QED BY <1>2, <1>3, <2>5, <2>6, <2>7
<1>15. PlacedByTurn(e)'
  BY <1>3, <1>4, <1>13, <1>14 DEF PlacedByTurn
<1> QED BY <1>14, <1>15 DEF TurnStays

\* The end that gives its buffer back: it comes to it again a round later.
LEMMA TurnOfRelease ==
  ASSUME loop \in Loops, verify, CodeOK, loop' = loop, code' = code, NEW e \in Ends, IndexOK(e),
         async'[e] = async[e], Holds(e), ~ Holds(e)', Turn(e)' = Turn(e) + 1, PlacedByTurn(e)
  PROVE  TurnMoves(e, async[e].idx)
<1>1. PICK i, T : i = async[e].idx /\ T = Turn(e)
  OBVIOUS
<1>2. PICK first, size, m, d \in Nat :
         first = First(e[1]) /\ size = Size(e[1]) /\ m = maxUseDistance(e[1]) /\ d = e[3]
  <2>1. /\ First(e[1]) \in Nat /\ maxUseDistance(e[1]) \in Nat \ {0} /\ e[3] \in Nat
        /\ Size(e[1]) = First(e[1]) + maxUseDistance(e[1])
    BY EndTypes
  <2>2. Size(e[1]) \in Nat /\ maxUseDistance(e[1]) \in Nat
    BY <2>1
  <2> QED BY <2>1, <2>2
<1>3. /\ size = first + m /\ m # 0 /\ i \in Int /\ i < size /\ T \in Nat
      /\ \A n \in Ring(e[1]) : n \in Int /\ first <= n /\ n < size
  BY <1>1, <1>2, EndTypes DEF PlacedByTurn
<1>4. First(e[1])' = first /\ Ring(e[1])' = Ring(e[1]) /\ maxUseDistance(e[1])' = m /\ Turn(e)' = T + 1
      /\ async'[e].idx = i
  BY <1>1, <1>2, SameLoop DEF Same6, Same7
<1>5. (InInit(e) <=> i < first) /\ (InInit(e)' <=> i < first)
  BY <1>1, <1>2, <1>4 DEF InInit
<1>6. InitPlace(e)'
  <2> SUFFICES ASSUME i < first
               PROVE  i = code.index[e].start - 1 + (T + 1) /\ T + 1 <= d
    BY <1>2, <1>4, <1>5 DEF InitPlace, Latest
  <2>1. i - 1 = code.index[e].start - 1 + T /\ T < d
    BY <1>1, <1>2, <1>5 DEF PlacedByTurn, InitPlace, Latest
  <2>2. PICK y \in Int : y = code.index[e].start
    BY WhereIs DEF CodeOK
  <2> QED BY <1>2, <1>3, <2>1, <2>2
<1>7. ASSUME NEW n \in Ring(e[1])
      PROVE  NextTurn(e, n)' = NextTurn(e, n) + (IF n = i THEN m ELSE 0)
  <2>1. n \in Int /\ first <= n /\ n < size
    BY <1>3
  <2>2. (Past(e, n) <=> n < i) /\ (Past(e, n)' <=> n <= i)
    BY <1>1, <1>3, <1>4, <2>1 DEF Past
  <2>3. NextTurn(e, n) = IF i < first THEN n - first ELSE T - d - 0 + (n - i) + (IF n < i THEN m ELSE 0)
    BY <1>1, <1>2, <1>5, <2>2 DEF NextTurn
  <2>4. NextTurn(e, n)' = IF i < first THEN n - first ELSE T + 1 - d - 1 + (n - i) + (IF n <= i THEN m ELSE 0)
    <3>1. (NextTurn(e, n))' = IF InInit(e)' THEN n - First(e[1])'
             ELSE Turn(e)' - e[3] - (IF Holds(e)' THEN 0 ELSE 1) + (n - async'[e].idx)
                  + (IF Past(e, n)' THEN maxUseDistance(e[1])' ELSE 0)
      BY DEF NextTurn
    <3>2. CASE i < first
      BY <1>4, <1>5, <3>1, <3>2
    <3>3. CASE ~ (i < first)
      <4>1. (NextTurn(e, n))' = Turn(e)' - e[3] - 1 + (n - async'[e].idx) + (IF Past(e, n)' THEN maxUseDistance(e[1])' ELSE 0)
        BY <1>5, <3>1, <3>3
      <4>2. (IF Past(e, n)' THEN maxUseDistance(e[1])' ELSE 0) = (IF n <= i THEN m ELSE 0)
        BY <1>4, <2>2
      <4>3. PICK w \in Nat : w = IF n <= i THEN m ELSE 0
        BY <1>2
      <4>4. (NextTurn(e, n))' = (T + 1) - d - 1 + (n - i) + w
        BY <1>2, <1>4, <4>1, <4>2, <4>3
      <4>5. (T + 1) - d - 1 + (n - i) + w = T + 1 - d - 1 + (n - i) + w
        BY <1>2, <1>3, <2>1
      <4> QED BY <3>3, <4>3, <4>4, <4>5
    <3> QED BY <3>2, <3>3
  <2>5. CASE i < first
    <3>1. n # i
      BY <1>2, <1>3, <2>1, <2>5
    <3> QED BY <1>2, <2>1, <2>3, <2>4, <2>5, <3>1
  <2>6. CASE ~ (i < first)
    <3>1. NextTurn(e, n) = T - d - 0 + (n - i) + (IF n < i THEN m ELSE 0)
      BY <2>3, <2>6
    <3>2. NextTurn(e, n)' = T + 1 - d - 1 + (n - i) + (IF n <= i THEN m ELSE 0)
      BY <2>4, <2>6
    <3> QED BY <1>2, <1>3, <2>1, <3>1, <3>2
  <2> QED BY <2>5, <2>6
<1>8. PlacedByTurn(e)'
  <2>1. \A n \in Ring(e[1]) : NextTurn(e, n) \in Nat
    BY DEF PlacedByTurn
  <2>2. \A n \in Ring(e[1]) : NextTurn(e, n)' \in Nat
    BY <1>2, <1>7, <2>1
  <2> QED BY <1>3, <1>4, <1>6, <2>2 DEF PlacedByTurn
<1> QED BY <1>1, <1>2, <1>7, <1>8 DEF TurnMoves

\* Turns are counted from where the partition is, and from the loop.
LEMMA TurnFrom ==
  ASSUME loop' = loop, NEW f, NEW q, pc'[f[2]] = q
  PROVE  Turn(f)' = TurnAt(q, f)
<1>1. Consumers' = Consumers /\ earliestUser(f)' = earliestUser(f)
  BY SameLoop DEF Same4, Same6
<1>2. OpOf(f)' = OpOf(f)
  BY <1>1 DEF OpOf
<1>3. Through(q, f)' <=> Through(q, f)
  BY <1>1, <1>2 DEF Through
<1>4. TurnAt(q, f)' = TurnAt(q, f)
  BY <1>3 DEF TurnAt
<1>5. Turn(f)' = TurnAt(q, f)'
  BY <1>1, <1>2 DEF Turn, TurnAt, Through
<1> QED BY <1>4, <1>5

Placing == \A e \in Ends : PlacedByTurn(e)
OtherTurnsStay(e) == \A f \in Ends \ {e} : TurnStays(f)

\* Waiting changes no end's turn.
LEMMA TurnsOfWait ==
  ASSUME loop \in Loops, verify, CodeOK, Running, Placing, NEW P \in Partitions, WaitBarrier(P),
         NEW e, e = pc[P].end
  PROVE  e \in Ends /\ TurnStays(e) /\ OtherTurnsStay(e)
<1>1. /\ pc'[P].end = e /\ pc'[P].held = TRUE
      /\ \A Q \in Partitions \ {P} : pc'[Q] = pc[Q]
      /\ async'[e] = NextAsync(e)
      /\ \A f \in Ends \ {e} : async'[f] = async[f]
      /\ ~ Holds(e) /\ Holds(e)'
      /\ \A f \in Ends \ {e} : Holds(f)' <=> Holds(f)
  BY WaitIs
<1>2. loop' = loop /\ code' = code /\ pc' = [pc EXCEPT ![P].held = TRUE] /\ e # None
  BY DEF WaitBarrier, Waiting
<1>3. AtEnd(P, pc[P]) /\ e \in Ends /\ e[2] = P /\ IndexOK(e)
  BY <1>2, AtWorkIs
<1>4. ASSUME NEW f \in Ends PROVE Turn(f)' = Turn(f)
  <2>1. f[2] \in Partitions
    BY EndIs
  <2>2. PICK q : q = pc'[f[2]]
    OBVIOUS
  <2>3. Turn(f)' = TurnAt(q, f)
    BY <1>2, <2>2, TurnFrom
  <2>4. q.it = pc[f[2]].it /\ q.op = pc[f[2]].op /\ q.left = pc[f[2]].left /\ q.end = pc[f[2]].end
    <3>1. CASE f[2] # P
      BY <1>1, <2>1, <2>2, <3>1
    <3>2. CASE f[2] = P
      <4>1. pc[P] = [it |-> pc[P].it, op |-> pc[P].op, left |-> pc[P].left, end |-> pc[P].end, held |-> pc[P].held]
        BY <1>3 DEF AtEnd
      <4>2. pc'[P] = [pc[P] EXCEPT !.held = TRUE]
        BY <1>2 DEF Running
      <4> QED BY <2>2, <3>2, <4>1, <4>2
    <3> QED BY <3>1, <3>2
  <2>5. TurnAt(q, f) = TurnAt(pc[f[2]], f)
    BY <2>4 DEF TurnAt, Through
  <2> QED BY <2>3, <2>5 DEF Turn
<1>5. TurnStays(e)
  <2>1. PlacedByTurn(e) /\ Turn(e)' = Turn(e)
    BY <1>3, <1>4 DEF Placing
  <2> QED BY <1>1, <1>2, <1>3, <2>1, TurnOfWait
<1>6. ASSUME NEW f \in Ends \ {e} PROVE TurnStays(f)
  <2>1. /\ PlacedByTurn(f) /\ Turn(f)' = Turn(f) /\ async'[f] = async[f] /\ (Holds(f)' <=> Holds(f)) /\ f \in Ends
        /\ loop' = loop /\ code' = code
    BY <1>1, <1>2, <1>4 DEF Placing
  <2> QED BY <2>1, TurnUnmoved
<1> QED BY <1>3, <1>5, <1>6 DEF OtherTurnsStay

\* An end that has loaded or stored is a turn further, and the others are not.
LEMMA TurnsOfRelease ==
  ASSUME loop \in Loops, trip \in Trips, verify, CodeOK, Running, Placing,
         NEW P \in Partitions, pc[P].held,
         loop' = loop, trip' = trip, code' = code, async' = async,
         NEW q \in Following(P), pc' = [pc EXCEPT ![P] = q],
         NEW e, e = pc[P].end
  PROVE  /\ e \in Ends /\ TurnMoves(e, async[e].idx) /\ OtherTurnsStay(e)
         /\ Turn(e) = pc[P].it
<1>1. PICK n : n = async[e].idx
  OBVIOUS
<1>2. Holds(e) /\ ~ Holds(e)' /\ \A f \in Ends \ {e} : Holds(f)' <=> Holds(f)
  BY <1>1, ReleaseIs
<1>3. AtEnd(P, pc[P]) /\ e \in Ends /\ e[2] = P /\ IndexOK(e)
  BY AtWorkIs
<1>4. trip \in Nat /\ pc'[P] = q /\ \A Q \in Partitions \ {P} : pc'[Q] = pc[Q]
  BY LoopsAssumption DEF Running
<1>5. PICK p : p = pc[P]
  OBVIOUS
<1>6. ASSUME NEW f \in Ends, f[2] = P
      PROVE  /\ f = e => Turn(f) = p.it /\ Turn(f)' = p.it + 1
             /\ f # e => Turn(f)' = Turn(f)
  <2>1. /\ f = p.end => TurnAt(p, f) = p.it /\ TurnAt(q, f) = p.it + 1
        /\ f # p.end => TurnAt(q, f) = TurnAt(p, f)
    BY <1>3, <1>4, <1>5, <1>6, FollowingTurn
  <2>2. Turn(f)' = TurnAt(q, f)
    BY <1>4, <1>6, TurnFrom
  <2>3. Turn(f) = TurnAt(p, f)
    BY <1>5, <1>6 DEF Turn
  <2> QED BY <1>5, <2>1, <2>2, <2>3
<1>7. ASSUME NEW f \in Ends \ {e} PROVE Turn(f)' = Turn(f)
  <2>1. CASE f[2] = P
    BY <1>6, <2>1
  <2>2. CASE f[2] # P
    <3>1. PICK r : r = pc[f[2]]
      OBVIOUS
    <3>2. f[2] \in Partitions
      BY EndIs
    <3>3. Turn(f)' = TurnAt(r, f)
      BY <1>4, <2>2, <3>1, <3>2, TurnFrom
    <3> QED BY <3>1, <3>3 DEF Turn
  <2> QED BY <2>1, <2>2
<1>8. TurnMoves(e, async[e].idx)
  <2>1. PlacedByTurn(e) /\ Turn(e)' = Turn(e) + 1 /\ async'[e] = async[e]
    BY <1>3, <1>6 DEF Placing
  <2> QED BY <1>2, <1>3, <2>1, TurnOfRelease
<1>9. ASSUME NEW f \in Ends \ {e} PROVE TurnStays(f)
  <2>1. PlacedByTurn(f) /\ Turn(f)' = Turn(f) /\ async'[f] = async[f] /\ (Holds(f)' <=> Holds(f)) /\ f \in Ends
    BY <1>2, <1>7 DEF Placing
  <2> QED BY <2>1, TurnUnmoved
<1>10. Turn(e) = pc[P].it
  BY <1>3, <1>5, <1>6
<1> QED BY <1>3, <1>8, <1>9, <1>10 DEF OtherTurnsStay

-----------------------------------------------------------------------------
(* What is in the buffers, and what is read.                               *)

\* The producer is a round ahead of the consumers that are behind.
RoundOK(c) ==
    \A n \in Ring(c[1]) :
       NextTurn(Producer(c[1]), n) =
          NextTurn(c, n) + (IF c \in Behind(c[1], n) THEN maxUseDistance(c[1]) ELSE 0)
\* A buffer holds the value of the iteration in which it was stored to.
StoredOK(k) ==
    \A n \in Ring(k) : \A i \in Nat :
       NextTurn(Producer(k), n) = i + maxUseDistance(k) => buf[k][n] = <<k, i>>
\* The first buffers hold the initial values that an end is to read.
InitBufOK(c) ==
    \A i \in 0 .. c[3] - 1 : \A u \in UsesOf(c) :
       buf[c[1]][code.index[c].start + i] = Sequential(u[2], i)
InitBuffers ==
    /\ \A k \in Values : DOMAIN buf[k] = Slots(k)
    /\ \A c \in Consumers : InitBufOK(c)
Reading ==
    /\ Placing
    /\ \A c \in Consumers : RoundOK(c)
    /\ \A k \in Values : StoredOK(k)
    /\ InitBuffers
GotOK == \A c \in DOMAIN got : got[c] # None => Correct(c, got[c])

Same8 == /\ \A v, i : Sequential(v, i)' = Sequential(v, i)
         /\ \A c, g : Correct(c, g)' <=> Correct(c, g)

\* What the undivided loop reads is defined from the loop alone.
LEMMA SameReads ==
  ASSUME loop' = loop
  PROVE  Same8
<1>1. /\ \A v : Follow(v)' = Follow(v) /\ Origin(v)' = Origin(v) /\ Distance(v)' = Distance(v)
      /\ \A c : UsesOf(c)' = UsesOf(c)
  BY SameLoop DEF Same1, Same2, Same5
<1>2. \A v, i : Sequential(v, i)' = Sequential(v, i)
  BY <1>1 DEF Sequential
<1> QED BY <1>1, <1>2 DEF Same8, Correct

\* The bits of the producer and a consumer tell whether that one is behind.
LEMMA BehindIs ==
  ASSUME loop \in Loops, loop' = loop, NEW c \in Consumers, NEW k, k = c[1], NEW p, p = Producer(k), NEW n
  PROVE  /\ c \in Behind(k, n) <=> Bit(c, n) # Bit(p, n)
         /\ c \in Behind(k, n)' <=> Bit(c, n)' # Bit(p, n)'
<1>1. c \in ConsumersOf(k) /\ ConsumersOf(k)' = ConsumersOf(k) /\ Producer(k)' = p
  BY SameLoop DEF Same5, ConsumersOf
<1>2. Behind(k, n) = {f \in ConsumersOf(k) : Bit(f, n) # Bit(p, n)}
  BY DEF Behind
<1>3. Behind(k, n)' = {f \in ConsumersOf(k) : Bit(f, n)' # Bit(p, n)'}
  BY <1>1 DEF Behind
<1> QED BY <1>1, <1>2, <1>3

\* The ring's buffers, after the first ones.
LEMMA RingIs ==
  ASSUME loop \in Loops, verify, NEW k \in Values
  PROVE  /\ Ring(k) \subseteq Slots(k) /\ Ring(k) \subseteq Int
         /\ First(k) \in Nat /\ Size(k) \in Nat /\ maxUseDistance(k) \in Nat \ {0}
         /\ \A n \in Int : n >= First(k) /\ n < Size(k) => n \in Ring(k)
         /\ \A n \in Ring(k) : n >= First(k) /\ n < Size(k)
         /\ Slots(k) = 0 .. Size(k) - 1
<1>1. First(k) \in Nat /\ Size(k) \in Nat /\ maxUseDistance(k) \in Nat \ {0} /\ Slots(k) = 0 .. Size(k) - 1
  BY LeavesAre, RingHasBuffers DEF First, Size, Slots
<1> QED BY <1>1 DEF Ring

\* What a step does to the next turns, buffer by buffer.
LEMMA RoundFrom ==
  ASSUME loop \in Loops, verify, loop' = loop, NEW c \in Consumers, NEW k, k = c[1], NEW p, p = Producer(k),
         RoundOK(c), PlacedByTurn(c), PlacedByTurn(p), NEW n \in Ring(k), NEW x, NEW y,
         NextTurn(c, n)' = NextTurn(c, n) + x, NextTurn(p, n)' = NextTurn(p, n) + y,
         LET d == maxUseDistance(k)
             b == c \in Behind(k, n)
             bb == c \in Behind(k, n)'
         IN \/ x = 0 /\ y = 0 /\ (b <=> bb)
            \/ x = d /\ y = 0 /\ b /\ ~ bb
            \/ x = 0 /\ y = d /\ ~ b /\ bb
  PROVE  NextTurn(p, n)' = NextTurn(c, n)' + (IF c \in Behind(k, n)' THEN maxUseDistance(k)' ELSE 0)
<1>1. k \in Values /\ p[1] = k /\ c \in Ends /\ p \in Ends
  BY EndIs, ProducerIs DEF Ends
<1>2. PICK d \in Nat : d = maxUseDistance(k) /\ d = maxUseDistance(k)'
  BY <1>1, RingIs, SameLoop DEF Same6
<1>3. PICK s, t \in Nat : s = NextTurn(c, n) /\ t = NextTurn(p, n)
  BY <1>1 DEF PlacedByTurn
<1>4. t = s + (IF c \in Behind(k, n) THEN d ELSE 0)
  BY <1>2, <1>3 DEF RoundOK
<1>5. PICK b \in BOOLEAN : b <=> c \in Behind(k, n)
  OBVIOUS
<1>6. PICK bb \in BOOLEAN : bb <=> c \in Behind(k, n)'
  OBVIOUS
<1>7. /\ t = s + (IF b THEN d ELSE 0)
      /\ \/ x = 0 /\ y = 0 /\ b = bb
         \/ x = d /\ y = 0 /\ b /\ ~ bb
         \/ x = 0 /\ y = d /\ ~ b /\ bb
  BY <1>2, <1>4, <1>5, <1>6
<1>8. t + y = s + x + (IF bb THEN d ELSE 0)
  BY <1>7
<1> QED BY <1>2, <1>3, <1>6, <1>8

RoundAt(c, p, n) == NextTurn(p, n)' = NextTurn(c, n)' + (IF c \in Behind(c[1], n)' THEN maxUseDistance(c[1])' ELSE 0)

\* The round of a consumer after a step, buffer by buffer.
LEMMA RoundAfter ==
  ASSUME loop' = loop, NEW c, NEW p, p = Producer(c[1]), \A n \in Ring(c[1]) : RoundAt(c, p, n)
  PROVE  RoundOK(c)'
<1>1. Ring(c[1])' = Ring(c[1]) /\ Producer(c[1])' = p
  BY SameLoop DEF Same5, Same7
<1>2. \A n \in Ring(c[1]) : NextTurn(Producer(c[1]), n)' = NextTurn(p, n)'
  BY <1>1
<1> QED BY <1>1, <1>2 DEF RoundOK, RoundAt

\* A consumer and a producer that a step does not serve.
LEMMA RoundStays ==
  ASSUME loop \in Loops, verify, loop' = loop, NEW c \in Consumers, NEW k, k = c[1], NEW p, p = Producer(k),
         RoundOK(c), Placing, NEW n \in Ring(k), NextTurn(c, n)' = NextTurn(c, n), NextTurn(p, n)' = NextTurn(p, n),
         Bit(c, n)' = Bit(c, n), Bit(p, n)' = Bit(p, n)
  PROVE  RoundAt(c, p, n)
<1>1. c \in Ends /\ p \in Ends /\ k \in Values /\ p[1] = k
  BY EndIs, ProducerIs DEF Ends
<1>2. c \in Behind(k, n)' <=> c \in Behind(k, n)
  BY BehindIs
<1>3. PlacedByTurn(c) /\ PlacedByTurn(p)
  BY <1>1 DEF Placing
<1>4. NextTurn(c, n) \in Nat /\ NextTurn(p, n) \in Nat
  BY <1>1, <1>3 DEF PlacedByTurn
<1>5. NextTurn(c, n)' = NextTurn(c, n) + 0 /\ NextTurn(p, n)' = NextTurn(p, n) + 0
  BY <1>4
<1>6. NextTurn(p, n)' = NextTurn(c, n)' + (IF c \in Behind(k, n)' THEN maxUseDistance(k)' ELSE 0)
  BY <1>2, <1>3, <1>5, RoundFrom
<1> QED BY <1>6 DEF RoundAt

\* No end is served.
TurnsStay == \A e \in Ends : TurnStays(e)

\* A step that serves no end and changes no buffer.
LEMMA ReadsStay ==
  ASSUME loop \in Loops, verify, Reading, GotOK, BitsStay, TurnsStay,
         loop' = loop, code' = code, buf' = buf, got' = got
  PROVE  Reading' /\ GotOK'
<1>1. loop' = loop /\ code' = code /\ buf' = buf /\ got' = got
  OBVIOUS
<1>2. BitsStay
  OBVIOUS
<1>3. /\ Ends' = Ends /\ Consumers' = Consumers /\ Values' = Values
      /\ \A k : Ring(k)' = Ring(k) /\ Producer(k)' = Producer(k) /\ maxUseDistance(k)' = maxUseDistance(k)
      /\ \A k : Slots(k)' = Slots(k)
      /\ \A c : UsesOf(c)' = UsesOf(c)
  BY <1>1, SameLoop DEF Same4, Same5, Same6, Same7
<1>4. \A f \in Ends : TurnStays(f)
  BY DEF TurnsStay
<1>5. Placing'
  BY <1>3, <1>4 DEF Placing, TurnStays
<1>6. ASSUME NEW c \in Consumers PROVE RoundOK(c)'
  <2>1. PICK k, p : k = c[1] /\ p = Producer(k)
    OBVIOUS
  <2>2. k \in Values /\ c \in Ends /\ p \in Ends /\ c \in ConsumersOf(k) /\ p[1] = k
    BY <2>1, EndIs, ProducerIs DEF Ends, ConsumersOf
  <2>3. ASSUME NEW n \in Ring(k) PROVE RoundAt(c, p, n)
    <3>1. NextTurn(c, n)' = NextTurn(c, n) /\ NextTurn(p, n)' = NextTurn(p, n)
      BY <1>4, <2>1, <2>2 DEF TurnStays
    <3>2. Bit(c, n)' = Bit(c, n) /\ Bit(p, n)' = Bit(p, n)
      BY <1>2, <2>1, <2>2 DEF BitsStay
    <3>3. RoundOK(c) /\ Placing
      BY DEF Reading
    <3> QED BY <1>1, <2>1, <3>1, <3>2, <3>3, RoundStays
  <2> QED BY <1>1, <2>1, <2>3, RoundAfter
<1>7. ASSUME NEW k \in Values PROVE StoredOK(k)'
  <2>1. PICK p : p = Producer(k)
    OBVIOUS
  <2>2. p \in Ends /\ p[1] = k /\ Producer(k)' = p
    BY <1>3, <2>1, ProducerIs
  <2>3. \A n \in Ring(k) : NextTurn(p, n)' = NextTurn(p, n)
    BY <1>4, <2>2 DEF TurnStays
  <2>4. \A n \in Ring(k) : NextTurn(Producer(k), n)' = NextTurn(Producer(k), n)
    BY <2>1, <2>2, <2>3
  <2> QED BY <1>1, <1>3, <2>4 DEF Reading, StoredOK
<1>8. InitBuffers'
  BY <1>1, <1>3, SameReads DEF Reading, InitBuffers, InitBufOK, Same8
<1>9. GotOK'
  BY <1>1, SameReads DEF GotOK, Same8
<1> QED BY <1>3, <1>5, <1>6, <1>7, <1>8, <1>9 DEF Reading

\* WaitBarrier serves no end yet.
LEMMA WaitReads ==
  ASSUME loop \in Loops, verify, CodeOK, Running, Reading, GotOK, NEW P \in Partitions, WaitBarrier(P)
  PROVE  Reading' /\ GotOK'
<1>1. PICK e : e = pc[P].end
  OBVIOUS
<1>2. loop' = loop /\ code' = code /\ buf' = buf /\ got' = got
  BY DEF WaitBarrier
<1>3. BitsStay
  BY <1>1, WaitIs
<1>4. TurnsStay
  <2>1. Placing
    BY DEF Reading
  <2>2. e \in Ends /\ TurnStays(e) /\ OtherTurnsStay(e)
    BY <1>1, <2>1, TurnsOfWait
  <2> QED BY <2>2 DEF OtherTurnsStay, TurnsStay
<1> QED BY <1>2, <1>3, <1>4, ReadsStay

\* The steps that change nothing.
LEMMA StutterReads ==
  ASSUME loop \in Loops, verify, Reading, GotOK, UNCHANGED vars
  PROVE  Reading' /\ GotOK'
<1>1. loop' = loop /\ code' = code /\ buf' = buf /\ got' = got /\ async' = async /\ pc' = pc
  BY DEF vars
<1>2. \A e : Holds(e)' <=> Holds(e)
  BY <1>1 DEF Holds
<1>3. BitsStay
  BY <1>1, <1>2 DEF BitsStay, Bit, Past
<1>4. ASSUME NEW e \in Ends PROVE TurnStays(e)
  <2>1. PICK q : q = pc[e[2]]
    OBVIOUS
  <2>2. Turn(e)' = Turn(e)
    BY <1>1, <2>1, TurnFrom DEF Turn
  <2>3. PlacedByTurn(e) /\ async'[e] = async[e] /\ (Holds(e)' <=> Holds(e))
    BY <1>1, <1>2 DEF Reading, Placing
  <2> QED BY <1>1, <2>2, <2>3, TurnUnmoved
<1> QED BY <1>1, <1>3, <1>4, ReadsStay DEF TurnsStay

\* What a consumer that has waited finds in its buffer.
LEMMA HeldValue ==
  ASSUME loop \in Loops, verify, CodeOK, Running, Reading,
         NEW e \in Consumers, Holds(e), NEW u \in UsesOf(e)
  PROVE  buf[e[1]][async[e].idx] = Sequential(u[2], Turn(e))
<1>1. PICK k, p, n, T : k = e[1] /\ p = Producer(k) /\ n = async[e].idx /\ T = Turn(e)
  OBVIOUS
<1>2. /\ e \in Ends /\ p \in Ends /\ k \in Values /\ p[1] = k /\ e \in ConsumersOf(k)
      /\ IndexOK(e) /\ HeldOK(e) /\ PlacedByTurn(e) /\ PlacedByTurn(p) /\ RoundOK(e) /\ StoredOK(k) /\ InitBufOK(e)
  BY <1>1, EndIs, ProducerIs DEF Ends, ConsumersOf, Running, Reading, Placing, InitBuffers
<1>3. PICK first, size, d, m \in Nat :
         first = First(k) /\ size = Size(k) /\ d = e[3] /\ m = maxUseDistance(k)
  BY <1>1, <1>2, EndTypes
<1>4. n \in Int /\ n < size /\ T \in Nat
  BY <1>1, <1>2, <1>3 DEF IndexOK, PlacedByTurn
<1>5. Origin(u[2]) = k /\ Distance(u[2]) = d
  BY <1>1, <1>3, ConsumersAre
<1>6. CASE n < first
  <2>1. n - 1 = code.index[e].start - 1 + T /\ T < d
    BY <1>1, <1>2, <1>3, <1>6 DEF PlacedByTurn, InitPlace, InInit, Latest
  <2>2. PICK y \in Int : y = code.index[e].start
    BY <1>2, WhereIs DEF CodeOK
  <2>3. n = y + T /\ T \in 0 .. d - 1
    BY <1>3, <1>4, <2>1, <2>2
  <2>4. n = code.index[e].start + T /\ T \in 0 .. e[3] - 1
    BY <1>3, <2>2, <2>3
  <2> QED BY <1>1, <1>2, <2>4 DEF InitBufOK
<1>7. CASE n >= first
  <2>1. n \in Ring(k) /\ e \in Behind(k, n)
    BY <1>1, <1>2, <1>3, <1>4, <1>7, RingIs DEF HeldOK
  <2>2. NextTurn(e, n) = T - d
    <3>1. ~ Past(e, n) /\ ~ InInit(e)
      BY <1>1, <1>3, <1>4, <1>7 DEF Past, InInit
    <3>2. NextTurn(e, n) = T - d - 0 + (n - n) + 0
      BY <1>1, <1>3, <3>1 DEF NextTurn
    <3> QED BY <1>3, <1>4, <3>2
  <2>3. PICK i \in Nat : i = T - d
    BY <1>1, <1>2, <2>1, <2>2 DEF PlacedByTurn
  <2>4. NextTurn(p, n) = i + m
    BY <1>1, <1>2, <1>3, <2>1, <2>2, <2>3 DEF RoundOK
  <2>5. buf[k][n] = <<k, i>>
    BY <1>1, <1>2, <1>3, <2>1, <2>4 DEF StoredOK
  <2>6. Sequential(u[2], T) = <<k, T - d>>
    BY <1>3, <1>4, <1>5, <2>3 DEF Sequential
  <2> QED BY <1>1, <2>3, <2>5, <2>6
<1> QED BY <1>3, <1>4, <1>6, <1>7

\* Load: the value is the one that the loop would have read.
LEMMA LoadReads ==
  ASSUME loop \in Loops, trip \in Trips, verify, CodeOK, Running, Reading, GotOK,
         NEW P \in Partitions, Load(P)
  PROVE  Reading' /\ GotOK'
<1>1. PICK e : e = pc[P].end
  OBVIOUS
<1>2. PICK n : n = async[e].idx
  OBVIOUS
<1>3. /\ pc[P].held /\ Loading(P)
      /\ got' = [got EXCEPT ![e] = [it |-> pc[P].it, val |-> buf[e[1]][n]]]
      /\ loop' = loop /\ trip' = trip /\ code' = code /\ buf' = buf /\ async' = async
  BY <1>1, <1>2 DEF Load, Holding, Slot
<1>4. PICK q \in Following(P) : pc' = [pc EXCEPT ![P] = q]
  BY DEF Load
<1>5. e \in Ends /\ e \in Consumers /\ IndexOK(e) /\ HeldOK(e) /\ e[2] = P
  BY <1>1, <1>3, AtWorkIs
<1>6. /\ Holds(e) /\ OtherBitsStay(e, n)
      /\ Bit(e, n) = async[e].phase /\ Bit(e, n)' = 1 - async[e].phase
  BY <1>1, <1>2, <1>3, <1>4, ReleaseIs
<1>7. TurnMoves(e, n) /\ OtherTurnsStay(e) /\ Turn(e) = pc[P].it
  <2>1. Placing
    BY DEF Reading
  <2> QED BY <1>1, <1>2, <1>3, <1>4, <2>1, TurnsOfRelease
<1>8. /\ Ends' = Ends /\ Consumers' = Consumers /\ Values' = Values
      /\ \A k : Ring(k)' = Ring(k) /\ Producer(k)' = Producer(k) /\ maxUseDistance(k)' = maxUseDistance(k)
      /\ \A k : Slots(k)' = Slots(k)
      /\ \A c : UsesOf(c)' = UsesOf(c)
  BY <1>3, SameLoop DEF Same4, Same5, Same6, Same7
<1>9. Placing'
  BY <1>7, <1>8 DEF Placing, OtherTurnsStay, TurnStays, TurnMoves
<1>10. ASSUME NEW k \in Values, NEW p, p = Producer(k), NEW m \in Ring(k)
       PROVE  /\ p \in Ends /\ p[1] = k /\ p # e /\ m \in Int
              /\ NextTurn(p, m)' = NextTurn(p, m) /\ Bit(p, m)' = Bit(p, m)
  <2>1. p \in Ends /\ p[1] = k /\ p # e /\ m \in Int
    BY <1>5, <1>10, ProducerIs, RingIs
  <2> QED BY <1>6, <1>7, <1>10, <2>1 DEF OtherBitsStay, OtherTurnsStay, TurnStays
<1>11. ASSUME NEW c \in Consumers PROVE RoundOK(c)'
  <2>1. PICK k, p : k = c[1] /\ p = Producer(k)
    OBVIOUS
  <2>2. k \in Values /\ c \in Ends
    BY <2>1, EndIs DEF Ends
  <2>3. RoundOK(c) /\ Placing /\ PlacedByTurn(c) /\ PlacedByTurn(p)
    BY <1>10, <2>1, <2>2, ProducerIs DEF Reading, Placing
  <2>4. ASSUME NEW m \in Ring(k) PROVE RoundAt(c, p, m)
    <3>1. NextTurn(p, m)' = NextTurn(p, m) /\ Bit(p, m)' = Bit(p, m) /\ m \in Int
      BY <1>10, <2>1, <2>2
    <3>2. CASE c # e \/ m # n
      <4>1. Bit(c, m)' = Bit(c, m)
        BY <1>6, <2>2, <3>1, <3>2 DEF OtherBitsStay
      <4>2. NextTurn(c, m)' = NextTurn(c, m)
        <5>1. CASE c # e
          BY <1>7, <2>1, <2>2, <5>1 DEF OtherTurnsStay, TurnStays
        <5>2. CASE c = e /\ m # n
          <6>1. NextTurn(c, m) \in Nat
            BY <2>1, <2>3 DEF PlacedByTurn
          <6>2. NextTurn(e, m)' = NextTurn(e, m) + 0
            BY <1>7, <2>1, <5>2 DEF TurnMoves
          <6> QED BY <5>2, <6>1, <6>2
        <5> QED BY <3>2, <5>1, <5>2
      <4> QED BY <1>3, <2>1, <2>3, <3>1, <4>1, <4>2, RoundStays
    <3>3. CASE c = e /\ m = n
      <4>1. c \in Behind(k, n)
        <5>1. n >= First(k)
          BY <2>2, <3>3, RingIs
        <5> QED BY <1>2, <1>5, <1>6, <2>1, <3>3, <5>1 DEF HeldOK
      <4>2. c \notin Behind(k, n)'
        <5>1. Bit(c, n) # Bit(p, n) /\ (c \in Behind(k, n)' <=> Bit(c, n)' # Bit(p, n)')
          BY <1>3, <2>1, <4>1, BehindIs
        <5>2. Bit(p, n) \in {0, 1} /\ async[e].phase \in {0, 1}
          <6>1. p \in Ends
            BY <2>1, <2>2, ProducerIs
          <6> QED BY <1>5, <6>1 DEF Bit, Running, IndexOK
        <5> QED BY <1>6, <3>1, <3>3, <5>1, <5>2
      <4>3. NextTurn(p, n)' = NextTurn(p, n) + 0
        <5>1. NextTurn(p, n) \in Nat
          BY <1>10, <2>1, <2>2, <2>3, <3>3 DEF PlacedByTurn
        <5> QED BY <3>1, <3>3, <5>1
      <4>4. NextTurn(c, n)' = NextTurn(c, n) + maxUseDistance(k)
        BY <1>7, <2>1, <3>3 DEF TurnMoves
      <4>5. NextTurn(p, n)' = NextTurn(c, n)' + (IF c \in Behind(k, n)' THEN maxUseDistance(k)' ELSE 0)
        BY <1>3, <2>1, <2>3, <3>3, <4>1, <4>2, <4>3, <4>4, RoundFrom
      <4> QED BY <2>1, <3>3, <4>5 DEF RoundAt
    <3> QED BY <3>2, <3>3
  <2> QED BY <1>3, <2>1, <2>4, RoundAfter
<1>12. ASSUME NEW k \in Values PROVE StoredOK(k)'
  <2>1. PICK p : p = Producer(k)
    OBVIOUS
  <2>2. p = Producer(k)' /\ \A m \in Ring(k) : NextTurn(p, m)' = NextTurn(p, m)
    BY <1>8, <1>10, <2>1
  <2>3. \A m \in Ring(k) : NextTurn(Producer(k), m)' = NextTurn(Producer(k), m)
    BY <2>1, <2>2
  <2> QED BY <1>3, <1>8, <2>3 DEF Reading, StoredOK
<1>13. InitBuffers'
  BY <1>3, <1>8, SameReads DEF Reading, InitBuffers, InitBufOK, Same8
<1>14. Correct(e, got'[e]) /\ DOMAIN got' = DOMAIN got /\ DOMAIN got = Consumers
  <2>1. DOMAIN got = Consumers
    BY DEF Running
  <2>2. got'[e].it = Turn(e) /\ got'[e].val = buf[e[1]][async[e].idx]
    BY <1>2, <1>3, <1>5, <1>7, <2>1
  <2>3. \A u \in UsesOf(e) : got'[e].val = Sequential(u[2], got'[e].it)
    BY <1>5, <1>6, <2>2, HeldValue
  <2> QED BY <1>3, <2>1, <2>3 DEF Correct
<1>15. ASSUME NEW c \in DOMAIN got', got'[c] # None PROVE Correct(c, got[c])'
  <2>1. PICK g : g = got'[c]
    OBVIOUS
  <2>2. Correct(c, g)
    <3>1. CASE c = e
      BY <1>14, <2>1, <3>1
    <3>2. CASE c # e
      <4>1. got'[c] = got[c] /\ c \in DOMAIN got
        BY <1>3, <1>14, <3>2
      <4> QED BY <1>15, <2>1, <4>1 DEF GotOK
    <3> QED BY <3>1, <3>2
  <2>3. Correct(c, g)'
    BY <1>3, <2>2, SameReads DEF Same8
  <2> QED BY <2>1, <2>3
<1>16. GotOK'
  <2>1. \A c \in DOMAIN got' : got'[c] # None => Correct(c, got[c])'
    BY <1>15
  <2> QED BY <2>1 DEF GotOK, None
<1> QED BY <1>8, <1>9, <1>11, <1>12, <1>13, <1>16 DEF Reading

\* Store: the buffer's next value, which all its consumers are to read.
LEMMA StoreReads ==
  ASSUME loop \in Loops, trip \in Trips, verify, CodeOK, BarriersOK, Running, Reading, GotOK,
         NEW P \in Partitions, Store(P)
  PROVE  Reading' /\ GotOK'
<1>1. PICK e : e = pc[P].end
  OBVIOUS
<1>2. PICK n : n = async[e].idx
  OBVIOUS
<1>3. PICK k, T : k = pc[P].op /\ T = pc[P].it
  OBVIOUS
<1>4. /\ pc[P].held /\ ~ Loading(P)
      /\ buf' = [buf EXCEPT ![k][n] = <<k, T>>]
      /\ loop' = loop /\ trip' = trip /\ code' = code /\ got' = got /\ async' = async
  BY <1>1, <1>2, <1>3 DEF Store, Holding, Slot
<1>5. PICK q \in Following(P) : pc' = [pc EXCEPT ![P] = q]
  BY DEF Store
<1>6. /\ e \in Ends /\ e \notin Consumers /\ IndexOK(e) /\ HeldOK(e)
      /\ k \in Values /\ e = Producer(k) /\ e[1] = k
  BY <1>1, <1>3, <1>4, AtWorkIs, AtEndIs
<1>7. /\ Holds(e) /\ OtherBitsStay(e, n)
      /\ Bit(e, n) = async[e].phase /\ Bit(e, n)' = 1 - async[e].phase
  BY <1>1, <1>2, <1>4, <1>5, ReleaseIs
<1>8. TurnMoves(e, n) /\ OtherTurnsStay(e) /\ Turn(e) = T
  <2>1. Placing
    BY DEF Reading
  <2> QED BY <1>1, <1>2, <1>3, <1>4, <1>5, <2>1, TurnsOfRelease
<1>9. /\ Ends' = Ends /\ Consumers' = Consumers /\ Values' = Values
      /\ \A v : Ring(v)' = Ring(v) /\ Producer(v)' = Producer(v) /\ maxUseDistance(v)' = maxUseDistance(v)
      /\ \A v : Slots(v)' = Slots(v)
      /\ \A c : UsesOf(c)' = UsesOf(c)
  BY <1>4, SameLoop DEF Same4, Same5, Same6, Same7
<1>10. Placing'
  BY <1>8, <1>9 DEF Placing, OtherTurnsStay, TurnStays, TurnMoves
<1>11. n \in Ring(k) /\ n >= First(k) /\ n \in Int /\ Behind(k, n) = {}
  <2>1. n >= First(k) /\ Behind(k, n) = {}
    BY <1>2, <1>6, <1>7 DEF HeldOK
  <2>2. n \in Int /\ n < Size(k)
    BY <1>2, <1>6 DEF IndexOK
  <2> QED BY <1>6, <2>1, <2>2, RingIs
<1>12. PICK d \in Nat \ {0} : d = maxUseDistance(k)
  BY <1>6, RingIs
<1>13. NextTurn(e, n) = T /\ T \in Nat
  <2>1. ~ Past(e, n) /\ ~ InInit(e) /\ PlacedByTurn(e) /\ e[3] = 0
    <3>1. First(k) \in Int
      BY <1>6, RingIs
    <3>2. ~ InInit(e)
      BY <1>2, <1>6, <1>11, <3>1 DEF InInit
    <3> QED BY <1>2, <1>6, <1>7, <1>11, <3>2, EndTypes DEF Past, Reading, Placing
  <2>2. T \in Nat
    BY <1>8, <2>1 DEF PlacedByTurn
  <2>3. NextTurn(e, n) = T - 0 - 0 + (n - n) + 0
    BY <1>2, <1>7, <1>8, <2>1 DEF NextTurn
  <2> QED BY <1>11, <2>2, <2>3
<1>14. ASSUME NEW c \in Consumers PROVE RoundOK(c)'
  <2>1. PICK v, p : v = c[1] /\ p = Producer(v)
    OBVIOUS
  <2>2. v \in Values /\ c \in Ends /\ p \in Ends /\ p[1] = v /\ c \in ConsumersOf(v) /\ c # e
    BY <1>6, <2>1, EndIs, ProducerIs DEF Ends, ConsumersOf
  <2>3. RoundOK(c) /\ Placing /\ PlacedByTurn(c) /\ PlacedByTurn(p)
    BY <2>1, <2>2 DEF Reading, Placing
  <2>4. ASSUME NEW m \in Ring(v) PROVE RoundAt(c, p, m)
    <3>1. m \in Int /\ NextTurn(c, m)' = NextTurn(c, m) /\ Bit(c, m)' = Bit(c, m)
      <4>1. m \in Int
        BY <2>2, RingIs
      <4> QED BY <1>7, <1>8, <2>1, <2>2, <4>1 DEF OtherBitsStay, OtherTurnsStay, TurnStays
    <3>2. CASE p # e \/ m # n
      <4>1. Bit(p, m)' = Bit(p, m)
        BY <1>7, <2>2, <3>1, <3>2 DEF OtherBitsStay
      <4>2. NextTurn(p, m)' = NextTurn(p, m)
        <5>1. CASE p # e
          BY <1>8, <2>2, <5>1 DEF OtherTurnsStay, TurnStays
        <5>2. CASE p = e /\ m # n
          <6>1. NextTurn(p, m) \in Nat
            BY <2>2, <2>3 DEF PlacedByTurn
          <6>2. NextTurn(e, m)' = NextTurn(e, m) + 0
            BY <1>8, <2>2, <5>2 DEF TurnMoves
          <6> QED BY <5>2, <6>1, <6>2
        <5> QED BY <3>2, <5>1, <5>2
      <4> QED BY <1>4, <2>1, <2>3, <3>1, <4>1, <4>2, RoundStays
    <3>3. CASE p = e /\ m = n
      <4>1. v = k
        BY <1>6, <2>2, <3>3
      <4>2. c \notin Behind(v, n)
        BY <1>11, <4>1
      <4>3. c \in Behind(v, n)'
        <5>1. Bit(c, n) = Bit(p, n) /\ (c \in Behind(v, n)' <=> Bit(c, n)' # Bit(p, n)')
          BY <1>4, <2>1, <4>2, BehindIs
        <5>2. async[e].phase \in {0, 1}
          BY <1>6 DEF IndexOK
        <5> QED BY <1>7, <3>1, <3>3, <5>1, <5>2
      <4>4. NextTurn(c, n)' = NextTurn(c, n) + 0
        <5>1. NextTurn(c, n) \in Nat
          BY <2>1, <2>3, <3>3 DEF PlacedByTurn
        <5> QED BY <3>1, <3>3, <5>1
      <4>5. NextTurn(p, n)' = NextTurn(p, n) + maxUseDistance(v)
        BY <1>6, <1>8, <1>11, <3>3, <4>1 DEF TurnMoves
      <4>6. NextTurn(p, n)' = NextTurn(c, n)' + (IF c \in Behind(v, n)' THEN maxUseDistance(v)' ELSE 0)
        <5>1. /\ loop \in Loops /\ verify /\ loop' = loop /\ v = c[1] /\ p = Producer(v) /\ n \in Ring(v)
              /\ RoundOK(c) /\ PlacedByTurn(c) /\ PlacedByTurn(p)
          BY <1>4, <2>1, <2>3, <3>3
        <5>2. PICK z : z = maxUseDistance(v)
          OBVIOUS
        <5>3. NextTurn(p, n)' = NextTurn(p, n) + z
          BY <4>5, <5>2
        <5>4. 0 = 0 /\ z = maxUseDistance(v) /\ ~ (c \in Behind(v, n)) /\ c \in Behind(v, n)'
          BY <4>2, <4>3, <5>2
        <5> QED BY <4>4, <5>1, <5>3, <5>4, RoundFrom
      <4> QED BY <2>1, <3>3, <4>6 DEF RoundAt
    <3> QED BY <3>2, <3>3
  <2> QED BY <1>4, <2>1, <2>4, RoundAfter
<1>15. /\ DOMAIN buf = Values
       /\ \A v \in Values : \A m : m \in Int /\ ~ (v = k /\ m = n) => buf'[v][m] = buf[v][m]
       /\ buf'[k][n] = <<k, T>>
       /\ \A v \in Values : DOMAIN buf'[v] = Slots(v)
  <2>1. DOMAIN buf = Values /\ \A v \in Values : DOMAIN buf[v] = Slots(v)
    BY DEF BarriersOK, Reading, InitBuffers
  <2>2. n \in Slots(k)
    BY <1>6, <1>11, RingIs
  <2>3. PICK b : b = buf[k]
    OBVIOUS
  <2>4. buf' = [buf EXCEPT ![k] = [b EXCEPT ![n] = <<k, T>>]]
    BY <1>4, <2>3
  <2> QED BY <1>6, <2>1, <2>2, <2>3, <2>4
<1>16. ASSUME NEW v \in Values PROVE StoredOK(v)'
  <2>1. PICK p : p = Producer(v)
    OBVIOUS
  <2>2. p \in Ends /\ p[1] = v /\ Producer(v)' = p /\ (v = k <=> p = e)
    BY <1>6, <1>9, <2>1, ProducerIs
  <2>3. ASSUME NEW m \in Ring(v), NEW i \in Nat, NextTurn(p, m)' = i + maxUseDistance(v)
        PROVE  buf'[v][m] = <<v, i>>
    <3>1. m \in Int /\ maxUseDistance(v) \in Nat
      BY RingIs
    <3>2. CASE p = e /\ m = n
      <4>1. v = k /\ NextTurn(e, n)' = T + d
        BY <1>6, <1>8, <1>11, <1>12, <1>13, <2>2, <3>2 DEF TurnMoves
      <4>2. i = T
        BY <1>12, <1>13, <2>3, <3>2, <4>1
      <4> QED BY <1>15, <3>2, <4>1, <4>2
    <3>3. CASE p # e \/ m # n
      <4>1. NextTurn(p, m)' = NextTurn(p, m)
        <5>1. CASE p # e
          BY <1>8, <2>2, <5>1 DEF OtherTurnsStay, TurnStays
        <5>2. CASE p = e /\ m # n
          <6>1. NextTurn(p, m) \in Nat
            BY <2>2 DEF Reading, Placing, PlacedByTurn
          <6>2. NextTurn(e, m)' = NextTurn(e, m) + 0
            BY <1>8, <2>2, <5>2 DEF TurnMoves
          <6> QED BY <5>2, <6>1, <6>2
        <5> QED BY <3>3, <5>1, <5>2
      <4>2. StoredOK(v) /\ NextTurn(Producer(v), m) = i + maxUseDistance(v)
        BY <2>1, <2>3, <4>1 DEF Reading
      <4>3. buf[v][m] = <<v, i>>
        BY <4>2 DEF StoredOK
      <4> QED BY <1>15, <2>2, <3>1, <3>3, <4>3
    <3> QED BY <3>2, <3>3
  <2>4. \A m \in Ring(v) : NextTurn(Producer(v), m)' = NextTurn(p, m)'
    BY <2>2
  <2> QED BY <1>9, <2>3, <2>4 DEF StoredOK
<1>17. InitBuffers'
  <2>1. ASSUME NEW c \in Consumers, NEW i \in 0 .. c[3] - 1, NEW u \in UsesOf(c)
        PROVE  buf'[c[1]][code.index[c].start + i] = Sequential(u[2], i)
    <3>1. PICK v : v = c[1]
      OBVIOUS
    <3>2. c \in Ends /\ v \in Values /\ c[3] \in Nat /\ First(v) \in Nat
      BY <3>1, EndIs, ConsumersAre, RingIs DEF Ends
    <3>3. c[3] > 0
      BY <3>2
    <3>4. PICK y \in Nat : y = code.index[c].start /\ y + c[3] <= First(v)
      BY <3>1, <3>2, <3>3 DEF CodeOK, Where
    <3>5. y + i \in Int /\ ~ (v = k /\ y + i = n)
      BY <1>11, <3>2, <3>4
    <3>6. buf[v][y + i] = Sequential(u[2], i)
      BY <3>1, <3>4 DEF Reading, InitBuffers, InitBufOK
    <3> QED BY <1>15, <3>1, <3>2, <3>4, <3>5, <3>6
  <2>2. \A c \in Consumers : InitBufOK(c)'
    BY <1>4, <1>9, <2>1, SameReads DEF InitBufOK, Same8
  <2>3. \A v \in Values : DOMAIN buf'[v] = Slots(v)'
    BY <1>9, <1>15
  <2> QED BY <1>9, <2>2, <2>3 DEF InitBuffers
<1>18. GotOK'
  BY <1>4, SameReads DEF GotOK, Same8
<1> QED BY <1>9, <1>10, <1>14, <1>16, <1>17, <1>18 DEF Reading

\* At the start all ends come to the buffers for the first time.
LEMMA ForkReads ==
  ASSUME loop \in Loops, trip \in Trips, verify, CodeOK, BarriersOK, \A k \in Values : RingIsEmpty(k),
         InitBuffers, Fork
  PROVE  Reading' /\ GotOK'
<1>1. loop' = loop /\ code' = code /\ buf' = buf /\ got' = [c \in Consumers |-> None]
  BY DEF Fork
<1>2. \A P \in Partitions : pc'[P] \in Starts(P)
  BY DEF Fork
<1>3. \A e \in Ends : /\ ~ Holds(e)' /\ async'[e] = [idx |-> code.index[e].start - 1, phase |-> 0]
                      /\ code.index[e].start \in Nat /\ code.index[e].start <= First(e[1])
  BY ForkGives
<1>4. /\ Ends' = Ends /\ Consumers' = Consumers /\ Values' = Values
      /\ \A k : Ring(k)' = Ring(k) /\ Producer(k)' = Producer(k) /\ maxUseDistance(k)' = maxUseDistance(k)
      /\ \A k : First(k)' = First(k) /\ Slots(k)' = Slots(k)
      /\ \A c : UsesOf(c)' = UsesOf(c)
  BY <1>1, SameLoop DEF Same4, Same5, Same6, Same7
<1>5. ASSUME NEW e \in Ends
      PROVE  /\ e[1] \in Values
             /\ Turn(e)' = 0 /\ InInit(e)' /\ InitPlace(e)'
             /\ \A n \in Ring(e[1]) : NextTurn(e, n)' = n - First(e[1]) /\ Bit(e, n)' = 0
             /\ PlacedByTurn(e)'
  <2>1. e[1] \in Values /\ e[2] \in Partitions
    BY EndIs
  <2>2. Turn(e)' = 0
    <3>1. PICK q : q = pc'[e[2]]
      OBVIOUS
    <3>2. trip \in Nat /\ q \in Starts(e[2])
      BY <1>2, <2>1, <3>1, LoopsAssumption
    <3>3. TurnAt(q, e) = 0
      BY <3>2, StartTurn
    <3> QED BY <1>1, <3>1, <3>3, TurnFrom
  <2>3. PICK st, first \in Nat : st = code.index[e].start /\ first = First(e[1]) /\ st <= first
    BY <1>3, <2>1, RingIs
  <2>4. async'[e].idx = st - 1 /\ async'[e].phase = 0 /\ ~ Holds(e)'
    <3>1. async'[e] = [idx |-> code.index[e].start - 1, phase |-> 0] /\ ~ Holds(e)'
      BY <1>3
    <3>2. async'[e] = [idx |-> st - 1, phase |-> 0]
      BY <2>3, <3>1
    <3> QED BY <3>1, <3>2
  <2>5. InInit(e)'
    BY <1>4, <2>3, <2>4 DEF InInit
  <2>6. e[3] \in Nat
    <3>1. CASE e \in Consumers
      BY <3>1, ConsumersAre
    <3>2. CASE e \notin Consumers
      BY <3>2, EndIs DEF Producer
    <3> QED BY <3>1, <3>2
  <2>7. InitPlace(e)'
    <3>1. Latest(e)' = st - 1 /\ code'.index[e].start = st
      BY <1>1, <2>3, <2>4 DEF Latest
    <3> QED BY <2>2, <2>3, <2>4, <2>6, <3>1 DEF InitPlace
  <2>8. ASSUME NEW n \in Ring(e[1])
        PROVE  NextTurn(e, n)' = n - first /\ Bit(e, n)' = 0 /\ n - first \in Nat
    <3>1. n \in Int /\ n >= first
      BY <2>1, <2>3, RingIs
    <3>2. NextTurn(e, n)' = n - first
      BY <1>4, <2>3, <2>5 DEF NextTurn
    <3>3. ~ Past(e, n)'
      BY <2>3, <2>4, <3>1 DEF Past
    <3> QED BY <2>4, <3>1, <3>2, <3>3 DEF Bit
  <2>9. PlacedByTurn(e)'
    BY <1>4, <2>2, <2>7, <2>8 DEF PlacedByTurn
  <2> QED BY <2>1, <2>2, <2>3, <2>5, <2>7, <2>8, <2>9
<1>6. Placing'
  BY <1>4, <1>5 DEF Placing
<1>7. ASSUME NEW c \in Consumers PROVE RoundOK(c)'
  <2>1. PICK k, p : k = c[1] /\ p = Producer(k)
    OBVIOUS
  <2>2. k \in Values /\ c \in Ends /\ p \in Ends /\ p[1] = k
    BY <2>1, EndIs, ProducerIs DEF Ends
  <2>3. ASSUME NEW n \in Ring(k) PROVE RoundAt(c, p, n)
    <3>1. NextTurn(c, n)' = n - First(k) /\ NextTurn(p, n)' = n - First(k) /\ Bit(c, n)' = 0 /\ Bit(p, n)' = 0
      BY <1>5, <2>1, <2>2
    <3>2. c \notin Behind(k, n)'
      BY <1>1, <2>1, <3>1, BehindIs
    <3>3. n \in Int /\ First(k) \in Int
      BY <2>2, RingIs
    <3> QED BY <2>1, <3>1, <3>2, <3>3 DEF RoundAt
  <2> QED BY <1>1, <2>1, <2>3, RoundAfter
<1>8. ASSUME NEW k \in Values PROVE StoredOK(k)'
  <2>1. PICK p : p = Producer(k)
    OBVIOUS
  <2>2. p \in Ends /\ p[1] = k /\ Producer(k)' = p
    BY <1>4, <2>1, ProducerIs
  <2>3. ASSUME NEW n \in Ring(k), NEW i \in Nat PROVE NextTurn(p, n)' # i + maxUseDistance(k)
    <3>1. PICK first, d \in Nat : first = First(k) /\ d = maxUseDistance(k) /\ Size(k) = first + d
      BY RingIs DEF Size
    <3>2. n \in Int /\ n < first + d /\ NextTurn(p, n)' = n - first
      BY <1>5, <2>2, <3>1, RingIs
    <3> QED BY <3>1, <3>2
  <2>4. \A n \in Ring(k) : NextTurn(Producer(k), n)' = NextTurn(p, n)'
    BY <2>2
  <2> QED BY <1>4, <2>3, <2>4 DEF StoredOK
<1>9. InitBuffers'
  BY <1>1, <1>4, SameReads DEF InitBuffers, InitBufOK, Same8
<1>10. GotOK'
  BY <1>1 DEF GotOK
<1> QED BY <1>4, <1>6, <1>7, <1>8, <1>9, <1>10 DEF Reading

-----------------------------------------------------------------------------
(* The initial values in the first buffers.                                *)

InitVals == {<<0, loop.init[a]>> : a \in Args}
Branch(b) == [i \in 1 .. Distance(-b) |-> <<0, loop.init[Path(b)[i]]>>]

\* The initial values of a branch.
LEMMA BranchValues ==
  ASSUME loop \in Loops, NEW k, NEW b \in Leaves(k)
  PROVE  Branch(b) \in Seq(InitVals) /\ Len(Branch(b)) = Distance(-b) /\ Distance(-b) \in Nat
<1>1. b \in Args /\ Defined(-b) /\ Distance(-b) \in Nat
  BY LeavesAre, NodesAre, ArgIs
<1>2. ASSUME NEW i \in 1 .. Distance(-b) PROVE <<0, loop.init[Path(b)[i]]>> \in InitVals
  <2>1. PICK d \in Nat : d = Distance(-b)
    BY <1>1
  <2>2. d - i \in 0 .. d - 1
    BY <2>1
  <2>3. Path(b)[i] = Met(b, d - i) /\ Met(b, d - i) \in Args
    BY <1>1, <2>1, <2>2, PathIs
  <2> QED BY <2>3 DEF InitVals
<1>3. Branch(b) \in [1 .. Distance(-b) -> InitVals]
  BY <1>2 DEF Branch
<1>4. Branch(b) \in Seq(InitVals)
  BY <1>1, <1>3, SeqDef
<1>5. Len(Branch(b)) = Distance(-b)
  <2>1. DOMAIN Branch(b) = 1 .. Distance(-b) /\ DOMAIN Branch(b) = 1 .. Len(Branch(b)) /\ Len(Branch(b)) \in Nat
    BY <1>3, <1>4, LenProperties
  <2> QED BY <1>1, <2>1
<1> QED BY <1>1, <1>4, <1>5

\* The branches one after the other.
LEMMA InitialValuesAre ==
  ASSUME loop \in Loops, NEW k, NEW t \in Traversals(k), NEW n \in 1 .. Len(t), NEW j \in 1 .. Distance(-t[n])
  PROVE  InitialValues(t)[SegStart(t, n) + j] = <<0, loop.init[Path(t[n])[j]]>>
<1>1. PICK m \in Nat : m = Len(t)
  BY TraversalIs
<1>2. t \in [1 .. m -> Leaves(k)]
  BY <1>1, TraversalIs
<1>3. \A i \in 1 .. m : /\ Branch(t[i]) \in Seq(InitVals) /\ Len(Branch(t[i])) = Distance(-t[i]) /\ Distance(-t[i]) \in Nat
                        /\ SegStart(t, i) \in Nat /\ SegStart(t, i + 1) = SegStart(t, i) + Distance(-t[i])
                        /\ SegStart(t, 1) = 0
  BY <1>1, <1>2, BranchValues, SegmentsAre
<1> DEFINE V == Seq(InitVals)
           T == [x \in (1 .. m) \X V |-> x[2] \o Branch(t[x[1]])]
           IsValues(f) == f = [i \in 0 .. m |-> IF i = 0 THEN <<>> ELSE f[i - 1] \o Branch(t[i])]
<1>4. <<>> \in V /\ T \in [(1 .. m) \X V -> V]
  <2>1. \A x \in (1 .. m) \X V : x[2] \o Branch(t[x[1]]) \in V
    BY <1>3, ConcatProperties
  <2> QED BY <2>1, EmptySeq
<1>5. PICK f \in [0 .. m -> V] : Iterates(f, <<>>, T, m)
  <2> HIDE DEF V, T
  <2> QED BY <1>4, SimpleRecursion
<1>6. \A i \in 0 .. m : f[i] = IF i = 0 THEN <<>> ELSE f[i - 1] \o Branch(t[i])
  <2>1. ASSUME NEW i \in 0 .. m PROVE f[i] = IF i = 0 THEN <<>> ELSE f[i - 1] \o Branch(t[i])
    <3>1. f[i] = IF i = 0 THEN <<>> ELSE T[<<i, f[i - 1]>>]
      <4> HIDE DEF T
      <4> QED BY <1>5 DEF Iterates
    <3>2. i # 0 => <<i, f[i - 1]>> \in (1 .. m) \X V
      BY <1>5
    <3>3. i # 0 => T[<<i, f[i - 1]>>] = f[i - 1] \o Branch(t[i])
      <4> HIDE DEF V
      <4> QED BY <3>2
    <3> HIDE DEF T
    <3> QED BY <3>1, <3>3
  <2> QED BY <2>1
<1>7. \E g : IsValues(g)
  BY <1>5, <1>6
<1>8. PICK g : IsValues(g) /\ InitialValues(t) = g[m]
  <2>1. InitialValues(t) = (CHOOSE g : IsValues(g))[m]
    BY <1>1 DEF InitialValues, Branch
  <2> HIDE DEF IsValues
  <2> QED BY <1>7, <2>1
<1>9. g[0] = <<>> /\ \A i \in 1 .. m : g[i] = g[i - 1] \o Branch(t[i])
  <2>1. \A i \in 0 .. m : g[i] = IF i = 0 THEN <<>> ELSE g[i - 1] \o Branch(t[i])
    BY <1>8
  <2>2. 0 \in 0 .. m /\ \A i \in 1 .. m : i \in 0 .. m /\ i # 0
    OBVIOUS
  <2> QED BY <2>1, <2>2
<1> DEFINE Good(s, l) ==
             /\ s \in Seq(InitVals) /\ Len(s) = SegStart(t, l + 1)
             /\ \A i \in 1 .. l : /\ SegStart(t, i + 1) <= SegStart(t, l + 1)
                                 /\ \A x \in 1 .. Distance(-t[i]) : s[SegStart(t, i) + x] = Branch(t[i])[x]
           K == {l \in Nat : l <= m => Good(g[l], l)}
<1> HIDE DEF T, V, IsValues
<1>10. 0 \in K
  <2>1. SegStart(t, 0 + 1) = 0
    BY <1>1, <1>3
  <2>2. g[0] \in Seq(InitVals) /\ Len(g[0]) = 0
    BY <1>9, EmptySeq
  <2> QED BY <2>1, <2>2
<1>11. ASSUME NEW l \in Nat, l \in K PROVE l + 1 \in K
  <2> SUFFICES ASSUME l + 1 <= m PROVE Good(g[l + 1], l + 1)
    OBVIOUS
  <2>1. PICK s, r, b : s = g[l] /\ r = g[l + 1] /\ b = Branch(t[l + 1])
    OBVIOUS
  <2>2. Good(s, l)
    BY <1>11, <2>1
  <2>3. PICK u, d \in Nat : u = SegStart(t, l + 1) /\ d = Distance(-t[l + 1])
    <3>1. l + 1 \in 1 .. m
      OBVIOUS
    <3>2. SegStart(t, l + 1) \in Nat /\ Distance(-t[l + 1]) \in Nat
      BY <1>3, <3>1
    <3> QED BY <3>2
  <2>4. r = s \o b /\ b \in Seq(InitVals) /\ Len(b) = d /\ SegStart(t, (l + 1) + 1) = u + d
    <3>1. l + 1 \in 1 .. m /\ (l + 1) - 1 = l
      OBVIOUS
    <3> QED BY <1>3, <1>9, <2>1, <2>3, <3>1
  <2>5. /\ r \in Seq(InitVals) /\ Len(r) = u + d
        /\ \A y \in 1 .. u : r[y] = s[y]
        /\ \A y \in 1 .. d : r[u + y] = b[y]
    <3>1. /\ r \in Seq(InitVals) /\ Len(r) = u + d
          /\ \A y \in 1 .. u + d : r[y] = IF y <= u THEN s[y] ELSE b[y - u]
      <4>1. s \in Seq(InitVals) /\ Len(s) = u /\ b \in Seq(InitVals) /\ Len(b) = d
        BY <2>2, <2>3, <2>4
      <4>2. /\ s \o b \in Seq(InitVals) /\ Len(s \o b) = Len(s) + Len(b)
            /\ \A y \in 1 .. Len(s) + Len(b) : (s \o b)[y] = IF y <= Len(s) THEN s[y] ELSE b[y - Len(s)]
        BY <4>1, ConcatProperties
      <4> QED BY <2>4, <4>1, <4>2
    <3>2. \A y \in 1 .. u : y \in 1 .. u + d /\ y <= u
      OBVIOUS
    <3>3. \A y \in 1 .. d : u + y \in 1 .. u + d /\ ~ (u + y <= u) /\ (u + y) - u = y
      OBVIOUS
    <3> QED BY <3>1, <3>2, <3>3
  <2>6. ASSUME NEW i \in 1 .. l + 1
        PROVE  /\ SegStart(t, i + 1) <= u + d
               /\ \A x \in 1 .. Distance(-t[i]) : r[SegStart(t, i) + x] = Branch(t[i])[x]
    <3>1. CASE i = l + 1
      <4>1. SegStart(t, i + 1) <= u + d
        BY <2>4, <3>1
      <4>2. \A x \in 1 .. d : r[u + x] = b[x]
        BY <2>5
      <4> QED BY <2>1, <2>3, <3>1, <4>1, <4>2
    <3>2. CASE i \in 1 .. l
      <4>1. PICK v, e \in Nat : v = SegStart(t, i) /\ e = Distance(-t[i]) /\ SegStart(t, i + 1) = v + e
        <5>1. i \in 1 .. m
          BY <3>2
        <5>2. SegStart(t, i) \in Nat /\ Distance(-t[i]) \in Nat /\ SegStart(t, i + 1) = SegStart(t, i) + Distance(-t[i])
          BY <1>3, <5>1
        <5> QED BY <5>2
      <4>2. v + e <= u /\ \A x \in 1 .. e : s[v + x] = Branch(t[i])[x]
        BY <2>2, <2>3, <3>2, <4>1
      <4>3. \A x \in 1 .. e : v + x \in 1 .. u
        BY <4>2
      <4>4. SegStart(t, i + 1) <= u + d
        BY <4>1, <4>2
      <4>5. \A x \in 1 .. e : r[v + x] = Branch(t[i])[x]
        BY <2>5, <4>2, <4>3
      <4> QED BY <4>1, <4>4, <4>5
    <3>3. i \in 1 .. l \/ i = l + 1
      OBVIOUS
    <3> QED BY <3>1, <3>2, <3>3
  <2>7. r \in Seq(InitVals) /\ Len(r) = SegStart(t, (l + 1) + 1)
    BY <2>4, <2>5
  <2>8. SegStart(t, (l + 1) + 1) = u + d
    BY <2>4
  <2>9. Good(r, l + 1)
    BY <2>6, <2>7, <2>8
  <2> QED BY <2>1, <2>9
<1>12. m \in K
  <2>1. Nat \subseteq K
    <3> HIDE DEF K
    <3> QED BY <1>10, <1>11, InductionOnSet
  <2> QED BY <2>1
<1>13. Good(g[m], m)
  <2> HIDE DEF Good
  <2> QED BY <1>12
<1>14. g[m][SegStart(t, n) + j] = Branch(t[n])[j]
  BY <1>1, <1>13
<1> QED BY <1>8, <1>14 DEF Branch

\* What an operand is at first, is the initial value of the branch that its iter
\* arg is on.
LEMMA FirstValue ==
  ASSUME loop \in Loops, UniformBranches, NEW c \in Consumers, NEW u \in UsesOf(c), NEW a, a = -u[2],
         NEW t \in Traversals(c[1]), NEW i \in 0 .. c[3] - 1
  PROVE  InitialValues(t)[StartOf(t, c, a) + i + 1] = Sequential(u[2], i)
<1>1. PICK k, d : k = c[1] /\ d = c[3]
  OBVIOUS
<1>2. k \in Values /\ d \in Nat \ {0} /\ i \in 0 .. d - 1
  BY <1>1, ConsumersAre
<1>3. a \in Nodes(k) /\ a \in Args /\ -a = u[2] /\ Defined(-a) /\ Distance(-a) = d
  BY <1>1, <1>2, ArgOfUse
<1>4. PICK n, b : n = BranchOf(t, a) /\ b = t[n]
  OBVIOUS
<1>5. n \in 1 .. Len(t) /\ a \in Range(Path(b)) /\ b \in Args /\ Defined(-b) /\ b \in Leaves(k)
  BY <1>1, <1>3, <1>4, BranchIs, TraversalIs
<1>6. PICK D, st \in Nat : D = Distance(-b) /\ st = SegStart(t, n) /\ SegEnd(t, n) = st + D
  BY <1>1, <1>4, <1>5, SegmentsAre
<1>7. PICK j \in 0 .. D - 1 : a = Met(b, j)
  BY <1>5, <1>6, PathIs
<1>8. d = D - j /\ -a = Follow(-b)[j] /\ -b \in Operand /\ D \in 0 .. N /\ N \in Nat
  <2>1. d = D - j /\ -a = Follow(-b)[j]
    BY <1>3, <1>5, <1>6, <1>7, PathIs
  <2>2. -b \in Operand /\ D \in 0 .. N /\ N \in Nat
    BY <1>5, <1>6, ArgIs, LoopIs
  <2> QED BY <2>1, <2>2
<1>9. j + i \in 0 .. D - 1 /\ D - (j + i) \in 1 .. D /\ ~ (i >= d)
  BY <1>2, <1>6, <1>8
<1>10. -Follow(-a)[i] = Met(b, j + i)
  <2>1. j \in 0 .. N /\ i \in 0 .. N - j
    BY <1>2, <1>6, <1>8
  <2>2. Follow(-a)[i] = Follow(-b)[j + i]
    BY <1>8, <2>1, FollowShifts
  <2> QED BY <2>2 DEF Met
<1>11. loop.init[Met(b, j + i)] = loop.init[b]
  <2>1. Met(b, j + i) \in Range(Path(b))
    BY <1>5, <1>6, <1>9, PathIs
  <2> QED BY <1>2, <1>5, <2>1 DEF UniformBranches
<1>12. Sequential(u[2], i) = <<0, loop.init[b]>>
  <2>1. Sequential(u[2], i) = <<0, loop.init[-Follow(-a)[i]]>>
    BY <1>3, <1>9 DEF Sequential
  <2> QED BY <1>10, <1>11, <2>1
<1>13. PICK x \in 1 .. D : x = D - d + i + 1
  BY <1>2, <1>6, <1>8
<1>14. InitialValues(t)[st + x] = <<0, loop.init[Path(b)[x]]>>
  BY <1>1, <1>4, <1>5, <1>6, InitialValuesAre
<1>15. loop.init[Path(b)[x]] = loop.init[b]
  <2>1. Path(b)[x] = Met(b, D - x) /\ D - x \in 0 .. D - 1
    <3>1. D - x \in 0 .. D - 1
      OBVIOUS
    <3>2. Path(b)[x] = Met(b, D - x)
      BY <1>5, <1>6, PathIs
    <3> QED BY <3>1, <3>2
  <2>2. Met(b, D - x) \in Range(Path(b))
    BY <1>5, <1>6, <2>1, PathIs
  <2> QED BY <1>2, <1>5, <2>1, <2>2 DEF UniformBranches
<1>16. StartOf(t, c, a) + i + 1 = st + x
  <2>1. StartOf(t, c, a) = st + D - d
    BY <1>1, <1>2, <1>3, <1>4, <1>6 DEF StartOf
  <2> QED BY <1>2, <1>6, <1>13, <2>1
<1> QED BY <1>12, <1>14, <1>15, <1>16

\* The pass fills the first buffers with what the consumers are to read there.
LEMMA RewriteReads ==
  ASSUME loop \in Loops, verify, SameStart, UniformBranches, Rewrite
  PROVE  InitBuffers'
<1>1. PICK s \in [Values -> UNION {Traversals(k) : k \in Values}] : \E front \in [Consumers -> Crossing] :
         /\ \A k \in Values : s[k] \in Traversals(k)
         /\ \A c \in Consumers : front[c] \in UsesOf(c)
         /\ code' = Generated(s, front)
         /\ buf' = [k \in Values |-> [n \in Slots(k) |-> InitBuf(s, k, n)]]
  BY DEF Rewrite
<1>2. PICK front \in [Consumers -> Crossing] :
         /\ \A k \in Values : s[k] \in Traversals(k)
         /\ \A c \in Consumers : front[c] \in UsesOf(c)
         /\ code' = Generated(s, front)
         /\ buf' = [k \in Values |-> [n \in Slots(k) |-> InitBuf(s, k, n)]]
  BY <1>1
<1>3. loop' = loop
  BY DEF Rewrite
<1>4. Consumers' = Consumers /\ Values' = Values /\ (\A k : Slots(k)' = Slots(k)) /\ \A c : UsesOf(c)' = UsesOf(c)
  BY <1>3, SameLoop DEF Same4, Same5, Same7
<1>5. ASSUME NEW c \in Consumers, NEW i \in 0 .. c[3] - 1, NEW u \in UsesOf(c)
      PROVE  buf'[c[1]][code'.index[c].start + i] = Sequential(u[2], i)
  <2>1. PICK k, t, w, a, st : k = c[1] /\ t = s[k] /\ w = front[c] /\ a = -w[2] /\ st = StartOf(t, c, a)
    OBVIOUS
  <2>2. k \in Values /\ t \in Traversals(k) /\ w \in UsesOf(c) /\ c[3] \in Nat /\ c[3] > 0
    BY <1>2, <2>1, ConsumersAre
  <2>3. code'.index[c].start = st
    <3>1. code'.index[c] = AsyncIndex(k, st, EndIfAsked(t, c, a))
      BY <1>2, <2>1 DEF Generated
    <3> QED BY <3>1 DEF AsyncIndex
  <2>4. st \in Nat /\ st + c[3] <= First(k)
    BY <2>1, <2>2, StartIs
  <2>5. st + i \in Slots(k) /\ HasInit(k, st + i)
    <3>1. First(k) \in Nat /\ Size(k) \in Nat /\ Slots(k) = 0 .. Size(k) - 1 /\ First(k) <= Size(k)
      BY <2>2, RingIs DEF Size
    <3>2. st + i \in 0 .. Size(k) - 1 /\ st + i < First(k)
      BY <2>2, <2>4, <3>1
    <3> QED BY <3>1, <3>2 DEF HasInit, First
  <2>6. buf'[k][st + i] = InitialValues(t)[st + i + 1]
    BY <1>2, <2>1, <2>2, <2>5 DEF InitBuf
  <2>7. InitialValues(t)[st + i + 1] = Sequential(w[2], i)
    BY <2>1, <2>2, FirstValue
  <2>8. Sequential(w[2], i) = Sequential(u[2], i)
    BY <2>2 DEF SameStart
  <2> QED BY <2>1, <2>3, <2>6, <2>7, <2>8
<1>6. \A c \in Consumers : InitBufOK(c)'
  BY <1>3, <1>4, <1>5, SameReads DEF InitBufOK, Same8
<1>7. \A k \in Values : DOMAIN buf'[k] = Slots(k)
  BY <1>2
<1> QED BY <1>4, <1>6, <1>7 DEF InitBuffers

-----------------------------------------------------------------------------
(* The invariant, and that what is read is what the loop would have read.   *)

RInv ==
    /\ IInv /\ Consistent
    /\ phase = "enter" => InitBuffers
    /\ phase = "run" => Reading
    /\ phase \in {"run", "done"} => GotOK

\* The assumption is about the loop alone.
LEMMA ConsistentStays ==
  ASSUME loop' = loop, Consistent
  PROVE  Consistent'
<1>1. /\ verify' <=> verify
      /\ Consumers' = Consumers /\ Values' = Values
      /\ \A c : UsesOf(c)' = UsesOf(c)
      /\ \A v, i : Sequential(v, i)' = Sequential(v, i)
      /\ \A v : Follow(v)' = Follow(v) /\ Distance(v)' = Distance(v) /\ Origin(v)' = Origin(v)
      /\ Crossing' = Crossing
  BY SameLoop, SameReads DEF Same1, Same2, Same4, Same5, Same7, Same8
<1>2. SameStart => SameStart'
  BY <1>1 DEF SameStart
<1>3. \A a : Path(a)' = Path(a)
  BY <1>1 DEF Path
<1>4. \A k : Nodes(k)' = Nodes(k)
  BY <1>1, <1>3 DEF Nodes, Range
<1>5. \A k : Leaves(k)' = Leaves(k)
  BY <1>4 DEF Leaves
<1>6. UniformBranches => UniformBranches'
  BY <1>1, <1>3, <1>5 DEF UniformBranches, Range
<1> QED BY <1>1, <1>2, <1>6 DEF Consistent

\* The steps that change nothing.
LEMMA StutterKeepsReads ==
  ASSUME RInv, UNCHANGED vars
  PROVE  RInv'
<1>1. loop' = loop /\ phase' = phase /\ got' = got /\ code' = code /\ buf' = buf
  BY DEF vars
<1>2. IInv' /\ Consistent'
  BY <1>1, StutterKeeps, ConsistentStays DEF RInv
<1>3. phase = "enter" => InitBuffers'
  <2>1. /\ Consumers' = Consumers /\ Values' = Values /\ (\A k : Slots(k)' = Slots(k)) /\ \A c : UsesOf(c)' = UsesOf(c)
    BY <1>1, SameLoop DEF Same4, Same5, Same7
  <2> QED BY <1>1, <2>1, SameReads DEF RInv, InitBuffers, InitBufOK, Same8
<1>4. phase = "run" => Reading'
  BY StutterReads DEF RInv, IInv
<1>5. phase \in {"run", "done"} => GotOK'
  BY <1>1, SameReads DEF RInv, GotOK, Same8
<1> QED BY <1>1, <1>2, <1>3, <1>4, <1>5 DEF RInv

\* All the others, one case for each action.
LEMMA NextReads ==
  ASSUME RInv, Next
  PROVE  RInv'
<1>1. IInv' /\ Consistent'
  <2>1. loop' = loop
    BY DEF Next, Compile, Verify, Rewrite, Fork, Join, Step, WaitBarrier, SpinOnBarrier, Load, Store, Terminated, vars
  <2> QED BY <2>1, NextKeeps, ConsistentStays DEF RInv
<1>2. CASE Verify
  <2>1. phase' \in {"rewrite", "rejected"}
    BY <1>2 DEF Verify
  <2> QED BY <1>1, <2>1 DEF RInv
<1>3. CASE Rewrite
  <2>1. phase = "rewrite" /\ phase' = "enter"
    BY <1>3 DEF Rewrite
  <2>2. loop \in Loops /\ verify /\ SameStart /\ UniformBranches
    BY <2>1 DEF RInv, IInv, Consistent
  <2> QED BY <1>1, <1>3, <2>1, <2>2, RewriteReads DEF RInv
<1>4. CASE Fork
  <2>1. phase = "enter" /\ phase' = "run"
    BY <1>4 DEF Fork
  <2>2. /\ loop \in Loops /\ trip \in Trips /\ verify /\ CodeOK /\ BarriersOK
        /\ \A k \in Values : RingIsEmpty(k)
    BY <2>1 DEF RInv, IInv
  <2>3. InitBuffers
    BY <2>1 DEF RInv
  <2>4. Reading' /\ GotOK'
    BY <1>4, <2>2, <2>3, ForkReads
  <2> QED BY <1>1, <2>1, <2>4 DEF RInv
<1>5. CASE Join
  <2>1. phase = "run" /\ phase' = "done" /\ loop' = loop /\ got' = got
    BY <1>5 DEF Join
  <2>2. GotOK'
    BY <2>1, SameReads DEF RInv, GotOK, Same8
  <2> QED BY <1>1, <2>1, <2>2 DEF RInv
<1>6. ASSUME NEW P \in PartIds, Step(P) PROVE RInv'
  <2>1. phase = "run" /\ P \in Partitions
    BY <1>6 DEF Step
  <2>2. /\ loop \in Loops /\ trip \in Trips /\ verify /\ CodeOK /\ BarriersOK /\ Running /\ Reading /\ GotOK
    BY <2>1 DEF RInv, IInv
  <2>3. phase' = phase /\ (WaitBarrier(P) \/ UNCHANGED vars \/ Load(P) \/ Store(P))
    BY <1>6 DEF Step, WaitBarrier, SpinOnBarrier, Load, Store, vars
  <2>4. Reading' /\ GotOK'
    BY <2>1, <2>2, <2>3, WaitReads, StutterReads, LoadReads, StoreReads
  <2> QED BY <1>1, <2>1, <2>3, <2>4 DEF RInv
<1>7. CASE Terminated
  <2>1. UNCHANGED vars
    BY <1>7 DEF Terminated
  <2> QED BY <2>1, StutterKeepsReads
<1> QED BY <1>2, <1>3, <1>4, <1>5, <1>6, <1>7 DEF Next, Compile

\* RewritePartitionDependencies.cpp: a partition reads, in every iteration, the
\* value that the loop would have read there before it was divided, whatever the
\* loop, its schedule and the speeds of the partitions are.  That needs the
\* initial values to be what the pass takes them for (see Consistent).
THEOREM ReadsAreSequential == Spec /\ Consistent => []ReadsAsSequential
<1>1. Init /\ Consistent => RInv
  BY InitHolds DEF Init, RInv
<1>2. RInv /\ [Next]_vars => RInv'
  BY NextReads, StutterKeepsReads
<1>3. RInv => ReadsAsSequential
  BY DEF RInv, ReadsAsSequential, GotOK
<1> QED BY <1>1, <1>2, <1>3, PTL DEF Spec
=============================================================================
