------------------------ MODULE SmemAllocationProofs ------------------------
(***************************************************************************)
(* The allocation of shared memory, for every list of buffers: the sweep   *)
(* never runs out of free space, and when the loop of colouring ends no    *)
(* two buffers that need their bytes at the same time share one.           *)
(***************************************************************************)
EXTENDS SmemKernel, NaturalSets, SequenceTheorems, FiniteSetTheorems

-----------------------------------------------------------------------------
(* The inductive invariant.                                                *)

Triple == {t \in [start : Nat, range : (0 .. MaxId) \X (0 .. MaxId)] : t.range[1] <= t.range[2]}

Aligned(off) == off \in [Ids -> Nat] /\ \A i \in Ids : off[i] % bufs[i].align = 0

\* A buffer that is still to be placed meets the range of some free space.
Covered(tm, ids) == \A k \in DOMAIN ids : \E m \in DOMAIN tm : intersects(Live(ids[k]), tm[m].range)

SweepOK ==
    /\ triples \in Seq(Triple) /\ todo \in Seq(Ids)
    /\ phase = "starts" => Covered(triples, todo)

\* What interferes is what the last offsets make interfere.
ColoringOK ==
    /\ interference \subseteq Ids \X Ids
    /\ sharedMemorySize \in Nat
    /\ phase \in {"starts", "color", "done"}
    /\ phase # "starts" => interference = InterferenceGraph(offset)
    /\ phase = "done" => /\ interference = {}
                         /\ \A i \in Ids : offset[i] + bufs[i].size <= sharedMemorySize

IInv == bufs \in Layouts /\ Aligned(offset) /\ SweepOK /\ ColoringOK

-----------------------------------------------------------------------------
(* Arithmetic.                                                             *)

\* alignTo of Allocation.h gives a multiple of the alignment.
LEMMA AlignToAligns ==
  ASSUME NEW n \in Nat, NEW a \in Nat \ {0}
  PROVE  alignTo(n, a) \in Nat /\ alignTo(n, a) % a = 0
<1> DEFINE q == (n + a - 1) \div a
<1>1. q \in Nat
  OBVIOUS
<1> HIDE DEF q
<1>2. a * q \in Nat /\ (a * q) % a = 0
  BY <1>1
<1>3. alignTo(n, a) = a * q
  BY DEF alignTo, q
<1> QED BY <1>2, <1>3

\* FirstOf and MaxOf give the least and the greatest of a set that has one.
LEMMA FirstIsLeast ==
  ASSUME NEW K \in SUBSET Nat, K # {}
  PROVE  FirstOf(K) \in K /\ \A l \in K : FirstOf(K) <= l
BY LeastNatural DEF FirstOf

LEMMA MaxIsGreatest ==
  ASSUME NEW S \in SUBSET Nat, S # {}, NEW b \in Nat, \A n \in S : n <= b
  PROVE  MaxOf(S) \in S /\ \A m \in S : m <= MaxOf(S)
BY GreatestNatural DEF MaxOf

-----------------------------------------------------------------------------
(* The sweep.                                                              *)

\* What calculateStarts reads of a buffer.
LEMMA BufferFacts ==
  ASSUME bufs \in Layouts
  PROVE  /\ Len(bufs) \in Nat /\ Ids = 1 .. Len(bufs) /\ MaxId \in Nat
         /\ \A i \in Ids : /\ bufs[i].size \in Nat \ {0} /\ bufs[i].align \in Nat \ {0}
                           /\ bufs[i].lo \in Nat /\ bufs[i].hi \in Nat
                           /\ bufs[i].lo < bufs[i].hi /\ bufs[i].hi <= MaxId
BY AllocationAssumption DEF Ids

\* A sequence of triples with all those of another one and a new one.
Extended(result, tm, new) ==
    /\ result \in Seq(Triple)
    /\ \A k \in DOMAIN tm : \E m \in DOMAIN result : result[m] = tm[k]
    /\ \E m \in DOMAIN result : result[m] = new

\* An insertion into the multimap keeps what is there and adds the new triple.
LEMMA InsertExtends ==
  ASSUME NEW tm \in Seq(Triple), NEW start, NEW range,
         [start |-> start, range |-> range] \in Triple
  PROVE  Extended(Insert(tm, start, range), tm, [start |-> start, range |-> range])
<1> DEFINE new == [start |-> start, range |-> range]
           K == {k \in DOMAIN tm : tm[k].start > start} \cup {Len(tm) + 1}
           n == FirstOf(K)
           left == SubSeq(tm, 1, n - 1)
           right == SubSeq(tm, n, Len(tm))
           one == << new >>
           s == SubSeq(tm, 1, n - 1) \o << new >> \o SubSeq(tm, n, Len(tm))
<1>1. n \in 1 .. Len(tm) + 1
  <2>1. K \in SUBSET (1 .. Len(tm) + 1) /\ K # {}
    OBVIOUS
  <2> HIDE DEF K
  <2>2. K \in SUBSET Nat
    BY <2>1
  <2> QED BY <2>1, <2>2, FirstIsLeast
<1>2. Insert(tm, start, range) = s
  BY DEF Insert
<1>3. new \in Triple
  OBVIOUS
<1> HIDE DEF n, new
<1> USE <1>1, <1>3
<1>4. /\ left \in Seq(Triple) /\ Len(left) = n - 1
      /\ \A k \in 1 .. n - 1 : left[k] = tm[k]
  <2>1. \A k \in 1 .. n - 1 : tm[k] \in Triple
    OBVIOUS
  <2> QED BY <2>1, SubSeqProperties
<1>5. /\ right \in Seq(Triple) /\ Len(right) = Len(tm) - n + 1
      /\ \A k \in 1 .. Len(tm) - n + 1 : right[k] = tm[n + k - 1]
  <2>1. \A k \in n .. Len(tm) : tm[k] \in Triple
    OBVIOUS
  <2> QED BY <2>1, SubSeqProperties
<1>6. one \in Seq(Triple) /\ Len(one) = 1 /\ one[1] = new
  OBVIOUS
<1>7. s = (left \o one) \o right
  OBVIOUS
<1> HIDE DEF left, right, one, s
<1> DEFINE front == left \o one
<1>8. /\ front \in Seq(Triple) /\ Len(front) = n
      /\ \A k \in 1 .. n : front[k] = IF k <= n - 1 THEN left[k] ELSE one[k - (n - 1)]
  <2>1. /\ front \in Seq(Triple) /\ Len(front) = Len(left) + Len(one)
        /\ \A k \in 1 .. Len(left) + Len(one) :
              front[k] = IF k <= Len(left) THEN left[k] ELSE one[k - Len(left)]
    BY <1>4, <1>6, ConcatProperties
  <2> QED BY <1>4, <1>6, <2>1
<1>9. (\A k \in 1 .. n - 1 : front[k] = tm[k]) /\ front[n] = new
  BY <1>4, <1>6, <1>8
<1>10. s = front \o right
  BY <1>7
<1> HIDE DEF front, s
<1>11. /\ s \in Seq(Triple) /\ Len(s) = Len(tm) + 1
      /\ \A k \in 1 .. Len(tm) + 1 : s[k] = IF k <= n THEN front[k] ELSE right[k - n]
  <2>1. /\ s \in Seq(Triple) /\ Len(s) = Len(front) + Len(right)
        /\ \A k \in 1 .. Len(front) + Len(right) :
              s[k] = IF k <= Len(front) THEN front[k] ELSE right[k - Len(front)]
    <3>1. front \in Seq(Triple) /\ right \in Seq(Triple)
      BY <1>5, <1>8
    <3> QED BY <3>1, <1>10, ConcatProperties
  <2>2. Len(front) + Len(right) = Len(tm) + 1
    BY <1>5, <1>8
  <2> QED BY <1>8, <2>1, <2>2
<1>12. DOMAIN s = 1 .. Len(tm) + 1 /\ DOMAIN tm = 1 .. Len(tm) /\ Len(tm) \in Nat
  BY <1>11, LenProperties
<1>13. ASSUME NEW k \in DOMAIN tm PROVE \E m \in DOMAIN s : s[m] = tm[k]
  <2>1. CASE k < n
    BY <2>1, <1>9, <1>11, <1>12
  <2>2. CASE k >= n
    <3>1. k + 1 \in DOMAIN s /\ s[k + 1] = right[k + 1 - n]
      BY <2>2, <1>11, <1>12
    <3>2. right[k + 1 - n] = tm[k]
      <4>1. k + 1 - n \in 1 .. Len(tm) - n + 1 /\ n + (k + 1 - n) - 1 = k
        BY <2>2
      <4> QED BY <4>1, <1>5
    <3> QED BY <3>1, <3>2
  <2> QED BY <2>1, <2>2, <1>12
<1>14. n \in DOMAIN s /\ s[n] = new
  BY <1>9, <1>11, <1>12
<1>15. Extended(s, tm, new)
  BY <1>11, <1>13, <1>14 DEF Extended
<1> QED BY <1>2, <1>15 DEF new

\* The free space around a placed buffer covers all that the triple covered.
LEMMA PlacementCovers ==
  ASSUME bufs \in Layouts, NEW tm \in Seq(Triple), NEW t \in Triple, NEW x \in Ids,
         intersects(Live(x), t.range)
  PROVE  LET after == AfterBuffer(BeforeBuffer(AboveBuffer(tm, t, x), t, x), t, x)
         IN  /\ after \in Seq(Triple)
             /\ \A k \in DOMAIN tm : \E m \in DOMAIN after : after[m] = tm[k]
             /\ \A y \in Ids : intersects(Live(y), t.range) =>
                   \E m \in DOMAIN after : intersects(Live(y), after[m].range)
<1> DEFINE a == t.range[1]
           b == t.range[2]
           above == AboveBuffer(tm, t, x)
           before == BeforeBuffer(above, t, x)
           after == AfterBuffer(before, t, x)
           behind == alignTo(t.start, bufs[x].align) + bufs[x].size
           aboveRange == <<Greater(a, bufs[x].lo), Lesser(b, bufs[x].hi)>>
<1>1. /\ a \in 0 .. MaxId /\ b \in 0 .. MaxId /\ a <= b /\ t.start \in Nat
      /\ t.range = <<a, b>> /\ MaxId \in Nat
  BY AllocationAssumption DEF Triple
<1>2. /\ bufs[x].lo \in Nat /\ bufs[x].hi \in Nat /\ bufs[x].lo < bufs[x].hi
      /\ bufs[x].hi <= MaxId /\ bufs[x].lo < b /\ a < bufs[x].hi
  BY BufferFacts DEF intersects, Live
<1>3. [start |-> behind, range |-> aboveRange] \in Triple
  <2>1. alignTo(t.start, bufs[x].align) \in Nat
    BY <1>1, BufferFacts, AlignToAligns
  <2>2. behind \in Nat
    BY <2>1, BufferFacts
  <2>3. Greater(a, bufs[x].lo) \in 0 .. MaxId /\ Lesser(b, bufs[x].hi) \in 0 .. MaxId
        /\ Greater(a, bufs[x].lo) <= Lesser(b, bufs[x].hi)
    BY <1>1, <1>2 DEF Greater, Lesser
  <2> HIDE DEF behind
  <2> QED BY <2>2, <2>3 DEF Triple
<1>4. a < bufs[x].lo => [start |-> t.start, range |-> <<a, bufs[x].hi>>] \in Triple
  BY <1>1, <1>2 DEF Triple
<1>5. bufs[x].hi < b => [start |-> t.start, range |-> <<bufs[x].lo, b>>] \in Triple
  BY <1>1, <1>2 DEF Triple
<1>6. /\ above \in Seq(Triple)
      /\ \A k \in DOMAIN tm : \E m \in DOMAIN above : above[m] = tm[k]
      /\ \E m \in DOMAIN above : above[m] = [start |-> behind, range |-> aboveRange]
  <2> HIDE DEF behind
  <2>1. above = Insert(tm, behind, aboveRange)
    BY DEF AboveBuffer, behind
  <2>2. Extended(above, tm, [start |-> behind, range |-> aboveRange])
    BY <1>3, <2>1, InsertExtends
  <2> QED BY <2>2 DEF Extended
<1> HIDE DEF behind, above
<1>7. /\ before \in Seq(Triple)
      /\ \A k \in DOMAIN above : \E m \in DOMAIN before : before[m] = above[k]
      /\ a < bufs[x].lo =>
            \E m \in DOMAIN before : before[m] = [start |-> t.start, range |-> <<a, bufs[x].hi>>]
  <2>1. CASE a < bufs[x].lo
    <3>1. before = Insert(above, t.start, <<a, bufs[x].hi>>)
      BY <2>1 DEF BeforeBuffer
    <3> HIDE DEF a, before
    <3>2. Extended(before, above, [start |-> t.start, range |-> <<a, bufs[x].hi>>])
      BY <1>4, <1>6, <2>1, <3>1, InsertExtends
    <3> QED BY <2>1, <3>2 DEF Extended
  <2>2. CASE ~ (a < bufs[x].lo)
    BY <1>6, <2>2 DEF BeforeBuffer
  <2> QED BY <2>1, <2>2
<1> HIDE DEF before
<1>8. /\ after \in Seq(Triple)
      /\ \A k \in DOMAIN before : \E m \in DOMAIN after : after[m] = before[k]
      /\ bufs[x].hi < b =>
            \E m \in DOMAIN after : after[m] = [start |-> t.start, range |-> <<bufs[x].lo, b>>]
  <2>1. CASE bufs[x].hi < b
    <3>1. after = Insert(before, t.start, <<bufs[x].lo, b>>)
      BY <2>1 DEF AfterBuffer
    <3> HIDE DEF b, after
    <3>2. Extended(after, before, [start |-> t.start, range |-> <<bufs[x].lo, b>>])
      BY <1>5, <1>7, <2>1, <3>1, InsertExtends
    <3> QED BY <2>1, <3>2 DEF Extended
  <2>2. CASE ~ (bufs[x].hi < b)
    BY <1>7, <2>2 DEF AfterBuffer
  <2> QED BY <2>1, <2>2
<1> HIDE DEF after
<1>9. \A k \in DOMAIN above : \E m \in DOMAIN after : after[m] = above[k]
  BY <1>7, <1>8
<1>10. \A k \in DOMAIN tm : \E m \in DOMAIN after : after[m] = tm[k]
  BY <1>6, <1>9
<1>11. ASSUME NEW y \in Ids, intersects(Live(y), t.range)
       PROVE  \E m \in DOMAIN after : intersects(Live(y), after[m].range)
  <2>1. /\ bufs[y].lo \in Nat /\ bufs[y].hi \in Nat /\ bufs[y].lo < bufs[y].hi
        /\ bufs[y].lo < b /\ a < bufs[y].hi
    BY <1>11, BufferFacts DEF intersects, Live
  <2>2. \/ intersects(Live(y), aboveRange)
        \/ a < bufs[x].lo /\ intersects(Live(y), <<a, bufs[x].hi>>)
        \/ bufs[x].hi < b /\ intersects(Live(y), <<bufs[x].lo, b>>)
    <3>1. PICK l, h, u, v \in Nat :
             l = bufs[x].lo /\ h = bufs[x].hi /\ u = bufs[y].lo /\ v = bufs[y].hi
      BY <1>2, <2>1
    <3>2. a \in Nat /\ b \in Nat
      BY <1>1
    <3> HIDE DEF a, b
    <3>3. l < h /\ l < b /\ a < h /\ u < v /\ u < b /\ a < v
      BY <1>2, <2>1, <3>1
    <3>4. \/ u < Lesser(b, h) /\ Greater(a, l) < v
          \/ a < l /\ u < h /\ a < v
          \/ h < b /\ u < b /\ l < v
      BY <3>1, <3>2, <3>3 DEF Greater, Lesser
    <3> QED BY <3>1, <3>4 DEF intersects, Live, aboveRange
  <2> HIDE DEF aboveRange, a, b
  <2>3. CASE intersects(Live(y), aboveRange)
    <3>1. PICK m \in DOMAIN after : after[m] = [start |-> behind, range |-> aboveRange]
      BY <1>6, <1>9
    <3> QED BY <2>3, <3>1
  <2>4. CASE a < bufs[x].lo /\ intersects(Live(y), <<a, bufs[x].hi>>)
    <3>1. PICK m \in DOMAIN after : after[m] = [start |-> t.start, range |-> <<a, bufs[x].hi>>]
      BY <1>7, <1>8, <2>4
    <3> QED BY <2>4, <3>1
  <2>5. CASE bufs[x].hi < b /\ intersects(Live(y), <<bufs[x].lo, b>>)
    <3>1. PICK m \in DOMAIN after : after[m] = [start |-> t.start, range |-> <<bufs[x].lo, b>>]
      BY <1>8, <2>5
    <3> QED BY <2>5, <3>1
  <2> QED BY <2>2, <2>3, <2>4, <2>5
<1> QED BY <1>8, <1>10, <1>11 DEF after, before, above

\* Removing an element of a sequence leaves elements of it.
LEMMA RemoveOne ==
  ASSUME NEW R, NEW s \in Seq(R), NEW k \in DOMAIN s
  PROVE  LET r == SubSeq(s, 1, k - 1) \o SubSeq(s, k + 1, Len(s))
         IN  r \in Seq(R) /\ \A j \in DOMAIN r : \E i \in DOMAIN s : r[j] = s[i]
<1> DEFINE left == SubSeq(s, 1, k - 1)
           right == SubSeq(s, k + 1, Len(s))
           r == left \o right
<1>0. DOMAIN s = 1 .. Len(s) /\ Len(s) \in Nat /\ k \in 1 .. Len(s)
  BY LenProperties
<1>1. /\ left \in Seq(R) /\ Len(left) = k - 1
      /\ \A j \in 1 .. k - 1 : left[j] = s[j]
  <2>1. \A j \in 1 .. k - 1 : s[j] \in R
    BY <1>0
  <2> QED BY <1>0, <2>1, SubSeqProperties
<1>2. /\ right \in Seq(R) /\ Len(right) = Len(s) - k
      /\ \A j \in 1 .. Len(s) - k : right[j] = s[k + j]
  <2>1. \A j \in k + 1 .. Len(s) : s[j] \in R
    BY <1>0
  <2> QED BY <1>0, <2>1, SubSeqProperties
<1> HIDE DEF left, right
<1>3. /\ r \in Seq(R) /\ Len(r) = Len(left) + Len(right)
      /\ \A j \in 1 .. Len(left) + Len(right) :
            r[j] = IF j <= Len(left) THEN left[j] ELSE right[j - Len(left)]
  BY <1>1, <1>2, ConcatProperties
<1> HIDE DEF r
<1>4. ASSUME NEW j \in DOMAIN r PROVE \E i \in DOMAIN s : r[j] = s[i]
  <2>0. j \in 1 .. Len(s) - 1
    BY <1>0, <1>1, <1>2, <1>3, LenProperties
  <2>1. CASE j <= k - 1
    <3>1. r[j] = s[j]
      BY <1>0, <1>1, <1>2, <1>3, <2>0, <2>1
    <3> QED BY <1>0, <2>0, <3>1
  <2>2. CASE j > k - 1
    <3>1. r[j] = right[j - (k - 1)]
      BY <1>0, <1>1, <1>2, <1>3, <2>0, <2>2
    <3>2. j - (k - 1) \in 1 .. Len(s) - k /\ k + (j - (k - 1)) = j + 1 /\ j + 1 \in DOMAIN s
      BY <1>0, <2>0, <2>2
    <3>3. right[j - (k - 1)] = s[j + 1]
      BY <1>2, <3>2
    <3> QED BY <3>1, <3>2, <3>3
  <2> QED BY <1>0, <2>0, <2>1, <2>2
<1> QED BY <1>3, <1>4 DEF r, left, right

\* A buffer to be placed meets the first triple alone, or one behind it.
LEMMA HeadOrTail ==
  ASSUME triples \in Seq(Triple), todo \in Seq(Ids), Covered(triples, todo), triples # <<>>,
         NEW k \in DOMAIN todo
  PROVE  \/ Fits(todo[k])
         \/ \E m \in DOMAIN Tail(triples) : intersects(Live(todo[k]), Tail(triples)[m].range)
<1>1. PICK m \in DOMAIN triples : intersects(Live(todo[k]), triples[m].range)
  BY DEF Covered
<1>2. /\ m \in 1 .. Len(triples) /\ Head(triples) = triples[1]
      /\ Tail(triples) \in Seq(Triple) /\ Len(Tail(triples)) = Len(triples) - 1
      /\ \A i \in 1 .. Len(Tail(triples)) : Tail(triples)[i] = triples[i + 1]
  BY HeadTailProperties, LenProperties
<1>3. CASE m = 1
  BY <1>1, <1>2, <1>3 DEF Fits
<1>4. CASE m > 1
  <2>1. m - 1 \in DOMAIN Tail(triples) /\ Tail(triples)[m - 1] = triples[m]
    <3>1. m - 1 \in 1 .. Len(Tail(triples)) /\ (m - 1) + 1 = m
      BY <1>2, <1>4
    <3> QED BY <1>2, <3>1, LenProperties
  <2> QED BY <1>1, <2>1
<1> QED BY <1>2, <1>3, <1>4

\* Placing a buffer keeps the invariant.
LEMMA PlaceBufferKeeps == IInv /\ PlaceBuffer => IInv'
<1> SUFFICES ASSUME IInv, PlaceBuffer PROVE IInv'
  OBVIOUS
<1> DEFINE k == FirstOf(Fitting)
           t == Head(triples)
<1> USE DEF IInv, SweepOK
<1>1. k \in Fitting
  <2>1. Fitting \in SUBSET Nat /\ Fitting # {}
    <3>1. DOMAIN todo = 1 .. Len(todo) /\ Len(todo) \in Nat
      BY LenProperties
    <3> QED BY <3>1 DEF Fitting, PlaceBuffer
  <2> QED BY <2>1, FirstIsLeast
<1>2. k \in DOMAIN todo /\ todo[k] \in Ids /\ intersects(Live(todo[k]), t.range)
  BY <1>1 DEF Fitting, Fits
<1>3. t \in Triple /\ Tail(triples) \in Seq(Triple)
  BY HeadTailProperties DEF PlaceBuffer
<1> HIDE DEF k
<1>4. PICK x \in Ids : x = todo[k]
  BY <1>2
<1> DEFINE after == AfterBuffer(BeforeBuffer(AboveBuffer(Tail(triples), t, x), t, x), t, x)
<1>5. /\ offset' = [offset EXCEPT ![x] = alignTo(t.start, bufs[x].align)]
      /\ triples' = after
      /\ todo' = SubSeq(todo, 1, k - 1) \o SubSeq(todo, k + 1, Len(todo))
      /\ UNCHANGED <<bufs, interference, sharedMemorySize, phase>> /\ phase = "starts"
  BY <1>4 DEF PlaceBuffer, k
<1>6. /\ after \in Seq(Triple)
      /\ \A m \in DOMAIN Tail(triples) : \E n \in DOMAIN after : after[n] = Tail(triples)[m]
      /\ \A y \in Ids : intersects(Live(y), t.range) =>
            \E n \in DOMAIN after : intersects(Live(y), after[n].range)
  <2> HIDE DEF IInv, SweepOK
  <2>1. bufs \in Layouts
    BY DEF IInv
  <2>2. PICK tm \in Seq(Triple) : tm = Tail(triples)
    BY <1>3
  <2>3. intersects(Live(x), t.range)
    BY <1>2, <1>4
  <2>4. after = AfterBuffer(BeforeBuffer(AboveBuffer(tm, t, x), t, x), t, x)
    BY <2>2
  <2> HIDE DEF after
  <2>5. t \in Triple
    BY <1>3
  <2> HIDE DEF t
  <2>6. /\ after \in Seq(Triple)
        /\ \A m \in DOMAIN tm : \E n \in DOMAIN after : after[n] = tm[m]
        /\ \A y \in Ids : intersects(Live(y), t.range) =>
              \E n \in DOMAIN after : intersects(Live(y), after[n].range)
    BY <2>1, <2>3, <2>4, <2>5, PlacementCovers
  <2> QED BY <2>2, <2>6
<1> HIDE DEF after
<1>7. /\ todo' \in Seq(Ids)
      /\ \A j \in DOMAIN todo' : \E i \in DOMAIN todo : todo'[j] = todo[i]
  BY <1>2, <1>5, RemoveOne
<1>8. ASSUME NEW i \in DOMAIN todo
      PROVE  \E n \in DOMAIN after : intersects(Live(todo[i]), after[n].range)
  <2>0. todo[i] \in Ids
    OBVIOUS
  <2>1. CASE Fits(todo[i])
    BY <1>6, <2>0, <2>1 DEF Fits
  <2>2. CASE ~ Fits(todo[i])
    <3>1. PICK m \in DOMAIN Tail(triples) : intersects(Live(todo[i]), Tail(triples)[m].range)
      BY <1>5, <2>2, HeadOrTail DEF PlaceBuffer
    <3>2. PICK n \in DOMAIN after : after[n] = Tail(triples)[m]
      BY <1>6
    <3> QED BY <3>1, <3>2
  <2> QED BY <2>1, <2>2
<1>9. Covered(triples, todo)'
  <2>1. \A i : Live(i)' = Live(i)
    BY <1>5 DEF Live
  <2> QED BY <1>5, <1>7, <1>8, <2>1 DEF Covered
<1>10. Aligned(offset)'
  <2>1. alignTo(t.start, bufs[x].align) \in Nat /\ alignTo(t.start, bufs[x].align) % bufs[x].align = 0
    <3>1. t.start \in Nat
      BY <1>3 DEF Triple
    <3> QED BY <3>1, BufferFacts, AlignToAligns
  <2> HIDE DEF t
  <2> QED BY <1>5, <2>1 DEF Aligned, Ids
<1>11. ColoringOK'
  BY <1>5 DEF ColoringOK, Ids
<1> QED BY <1>5, <1>6, <1>7, <1>9, <1>10, <1>11 DEF Ids

\* Dropping the first triple keeps the invariant: no buffer needs it.
LEMMA DropTripleKeeps == IInv /\ DropTriple => IInv'
<1> SUFFICES ASSUME IInv, DropTriple PROVE IInv'
  OBVIOUS
<1> USE DEF IInv, SweepOK
<1>1. /\ triples # <<>> /\ triples' = Tail(triples) /\ phase = "starts"
      /\ UNCHANGED <<bufs, offset, todo, interference, sharedMemorySize, phase>>
  BY DEF DropTriple
<1>2. Tail(triples) \in Seq(Triple)
  BY <1>1, HeadTailProperties
<1>3. Covered(triples', todo)
  <2> SUFFICES ASSUME NEW i \in DOMAIN todo
               PROVE  \E m \in DOMAIN Tail(triples) :
                         intersects(Live(todo[i]), Tail(triples)[m].range)
    BY <1>1 DEF Covered
  <2>1. ~ Fits(todo[i])
    BY DEF DropTriple, Fitting
  <2> QED BY <1>1, <2>1, HeadOrTail
<1>4. SweepOK'
  BY <1>1, <1>2, <1>3 DEF Covered, Live, Ids
<1> QED BY <1>1, <1>4 DEF Aligned, ColoringOK, Ids

-----------------------------------------------------------------------------
(* The rounds of colouring.                                                *)

\* The least color that none of the buffers K has.
IsFirst(c, n, p, K) == /\ c \in 0 .. n
                       /\ c \notin {p[j] : j \in K}
                       /\ \A m \in 0 .. c - 1 : m \in {p[j] : j \in K}

\* Of n + 1 colors one is left when fewer than n + 1 buffers have taken some.
LEMMA ColorIsLeft ==
  ASSUME NEW n \in Nat, NEW i \in 1 .. n, NEW p \in [1 .. i - 1 -> 0 .. n],
         NEW K \in SUBSET (1 .. i - 1)
  PROVE  \E c : IsFirst(c, n, p, K)
<1> DEFINE taken == {p[j] : j \in K}
           free == {c \in 0 .. n : c \notin taken}
<1>1. free # {}
  <2> SUFFICES ASSUME \A c \in 0 .. n : \E j \in K : c = p[j] PROVE FALSE
    OBVIOUS
  <2> DEFINE h == [c \in 0 .. n |-> CHOOSE j \in K : c = p[j]]
  <2>1. \A c \in 0 .. n : h[c] \in K /\ c = p[h[c]]
    OBVIOUS
  <2>2. h \in [0 .. n -> 1 .. i - 1]
    <3>1. \A c \in 0 .. n : h[c] \in 1 .. i - 1
      BY <2>1
    <3> QED BY <3>1
  <2> HIDE DEF h
  <2>3. /\ IsFiniteSet(0 .. n) /\ Cardinality(0 .. n) = n + 1
        /\ IsFiniteSet(1 .. i - 1) /\ Cardinality(1 .. i - 1) = i - 1
    <3>1. IsFiniteSet(0 .. n) /\ Cardinality(0 .. n) = IF 0 > n THEN 0 ELSE n - 0 + 1
      BY FS_Interval
    <3>2. /\ IsFiniteSet(1 .. i - 1)
          /\ Cardinality(1 .. i - 1) = IF 1 > i - 1 THEN 0 ELSE (i - 1) - 1 + 1
      BY FS_Interval
    <3> QED BY <3>1, <3>2
  <2>4. Cardinality(1 .. i - 1) < Cardinality(0 .. n)
    BY <2>3
  <2>5. \E x, y \in 0 .. n : x # y /\ h[x] = h[y]
    <3> DEFINE S == 0 .. n
               T == 1 .. i - 1
    <3>1. h \in [S -> T] /\ IsFiniteSet(S) /\ IsFiniteSet(T) /\ Cardinality(T) < Cardinality(S)
      BY <2>2, <2>3, <2>4
    <3> HIDE DEF S, T
    <3>2. \E x, y \in S : x # y /\ h[x] = h[y]
      BY ONLY <3>1, FS_PigeonHole
    <3> QED BY <3>2 DEF S
  <2> QED BY <2>1, <2>5
<1>2. free \in SUBSET Nat
  OBVIOUS
<1>3. PICK c \in free : \A m \in free : c <= m
  <2> HIDE DEF free
  <2> QED BY <1>1, <1>2, LeastNatural
<1>4. \A m \in 0 .. c - 1 : m \in taken
  BY <1>3
<1> QED BY <1>3, <1>4 DEF IsFirst

\* The colouring gives each buffer the first color that no neighbour before it has.
LEMMA ColorsAreFirst ==
  ASSUME bufs \in Layouts
  PROVE  /\ Colors \in [Ids -> 0 .. Len(bufs)]
         /\ \A i \in Ids : LET taken == {Colors[j] : j \in {k \in Neighbours(i) : k < i}}
                           IN  /\ Colors[i] \notin taken
                               /\ \A m \in 0 .. Colors[i] - 1 : m \in taken
<1> DEFINE n == Len(bufs)
           V == 0 .. n
           Before(i) == {k \in Neighbours(i) : k < i}
           Fit(c, i) == CHOOSE q \in V : /\ q \notin {c[j] : j \in Before(i)}
                                         /\ \A m \in 0 .. q - 1 : m \in {c[j] : j \in Before(i)}
           D == UNION {{i} \X [1 .. i - 1 -> V] : i \in 1 .. n}
           G == [z \in D |-> Fit(z[2], z[1])]
           IsColoring(c) == c = [i \in Ids |-> Fit(c, i)]
<1>1. n \in Nat /\ Ids = 1 .. n
  BY BufferFacts
<1>2. \A i \in Ids : Before(i) \in SUBSET (1 .. i - 1)
  BY <1>1 DEF Neighbours
<1> HIDE DEF n, Before
<1>3. ASSUME NEW i \in 1 .. n, NEW c, [j \in 1 .. i - 1 |-> c[j]] \in [1 .. i - 1 -> V]
      PROVE  /\ Fit(c, i) \in V
             /\ Fit(c, i) \notin {c[j] : j \in Before(i)}
             /\ \A m \in 0 .. Fit(c, i) - 1 : m \in {c[j] : j \in Before(i)}
             /\ Fit(c, i) = Fit([j \in 1 .. i - 1 |-> c[j]], i)
  <2> DEFINE p == [j \in 1 .. i - 1 |-> c[j]]
  <2>1. {p[j] : j \in Before(i)} = {c[j] : j \in Before(i)}
    BY <1>1, <1>2
  <2>2. p \in [1 .. i - 1 -> 0 .. n]
    BY <1>3
  <2> HIDE DEF p
  <2>3. \E q \in V : /\ q \notin {p[j] : j \in Before(i)}
                     /\ \A m \in 0 .. q - 1 : m \in {p[j] : j \in Before(i)}
    <3>1. PICK K \in SUBSET (1 .. i - 1) : K = Before(i)
      BY <1>1, <1>2
    <3>2. \E q : IsFirst(q, n, p, K)
      BY <1>1, <2>2, ColorIsLeft
    <3> QED BY <3>1, <3>2 DEF IsFirst
  <2>4. Fit(c, i) = Fit(p, i)
    BY <2>1
  <2> QED BY <2>1, <2>3, <2>4 DEF p
<1>4. G \in Steps(n, V)
  <2>1. ASSUME NEW z \in D PROVE Fit(z[2], z[1]) \in V
    <3>1. PICK i \in 1 .. n : z \in {i} \X [1 .. i - 1 -> V]
      OBVIOUS
    <3>2. z[1] = i /\ z[2] \in [1 .. i - 1 -> V]
      BY <3>1
    <3>3. [j \in 1 .. i - 1 |-> z[2][j]] \in [1 .. i - 1 -> V]
      BY <3>2
    <3> HIDE DEF D, V
    <3> QED BY <1>3, <3>2, <3>3
  <2> HIDE DEF V, Fit
  <2> QED BY <2>1 DEF Steps
<1>5. PICK f \in [1 .. n -> V] : Follows(f, G, n)
  <2> HIDE DEF G, V
  <2> QED BY <1>1, <1>4, PrefixRecursion
<1>6. \A i \in 1 .. n : f[i] = Fit(f, i)
  <2> SUFFICES ASSUME NEW i \in 1 .. n PROVE f[i] = Fit(f, i)
    OBVIOUS
  <2> DEFINE p == [j \in 1 .. i - 1 |-> f[j]]
  <2>1. p \in [1 .. i - 1 -> V]
    BY <1>1
  <2>2. <<i, p>> \in D
    <3>1. <<i, p>> \in {i} \X [1 .. i - 1 -> V]
      BY <2>1
    <3> HIDE DEF p
    <3> QED BY <3>1
  <2>3. Fit(f, i) = Fit(p, i)
    BY <1>3, <2>1
  <2> HIDE DEF p, D, Fit
  <2>4. G[<<i, p>>] = Fit(p, i)
    BY <2>2
  <2> QED BY <1>5, <2>3, <2>4 DEF p, Follows
<1>7. IsColoring(f)
  <2> HIDE DEF Fit
  <2> QED BY <1>1, <1>6
<1>8. IsColoring(Colors)
  <2>1. Colors = CHOOSE c : IsColoring(c)
    BY DEF Colors, n, Before
  <2> HIDE DEF IsColoring
  <2> QED BY <1>7, <2>1
<1>9. \A i \in Ids : Colors[i] = Fit(Colors, i) 
  <2> HIDE DEF Fit
  <2> QED BY <1>8
<1>10. \A i \in Ids : Colors[i] \in V
  <2> DEFINE S == {k \in Nat : \A i \in 1 .. n : i <= k => Colors[i] \in V}
  <2>1. 0 \in S
    OBVIOUS
  <2>2. ASSUME NEW k \in Nat, k \in S PROVE k + 1 \in S
    <3> SUFFICES ASSUME k + 1 \in 1 .. n PROVE Colors[k + 1] \in V
      BY <1>1, <2>2
    <3>1. [j \in 1 .. (k + 1) - 1 |-> Colors[j]] \in [1 .. (k + 1) - 1 -> V]
      BY <1>1, <2>2
    <3>2. Fit(Colors, k + 1) \in V
      BY <1>3, <3>1
    <3> QED BY <1>1, <1>9, <3>2
  <2> HIDE DEF S
  <2>3. Nat \subseteq S
    BY <2>1, <2>2, InductionOnSet
  <2> QED BY <1>1, <2>3 DEF S
<1>11. ASSUME NEW i \in Ids
       PROVE  /\ Colors[i] \notin {Colors[j] : j \in Before(i)}
              /\ \A m \in 0 .. Colors[i] - 1 : m \in {Colors[j] : j \in Before(i)}
  <2>1. [j \in 1 .. i - 1 |-> Colors[j]] \in [1 .. i - 1 -> V]
    BY <1>1, <1>10
  <2> HIDE DEF Fit
  <2>2. Colors[i] = Fit(Colors, i)
    BY <1>9
  <2> QED BY <1>1, <1>3, <2>1, <2>2
<1>12. Colors \in [Ids -> V]
  <2> HIDE DEF Fit, V
  <2> QED BY <1>8, <1>10
<1> QED BY <1>11, <1>12 DEF n, Before

\* MaxOf is defined for the ends of finitely many buffers, and for 0.
LEMMA MaxOfEnds ==
  ASSUME NEW n \in Nat, NEW e \in [1 .. n -> Nat], NEW K \in SUBSET (1 .. n),
         NEW S, S = {e[j] : j \in K} \/ S = {0} \cup {e[j] : j \in K}, S # {}
  PROVE  MaxOf(S) \in Nat /\ \A m \in S : m <= MaxOf(S)
<1>1. PICK b \in Nat : \A i \in 1 .. n : e[i] <= b
  BY BoundOfImage
<1>2. S \in SUBSET Nat /\ \A m \in S : m <= b
  BY <1>1
<1> QED BY <1>2, MaxIsGreatest

\* A buffer without neighbours keeps color 0.
LEMMA NoNeighboursNoColor ==
  ASSUME bufs \in Layouts, NEW i \in Ids, Neighbours(i) = {}
  PROVE  Colors[i] = 0
<1>1. Colors[i] \in 0 .. Len(bufs) /\ \A m \in 0 .. Colors[i] - 1 : m \in {}
  BY ColorsAreFirst
<1>2. Len(bufs) \in Nat
  BY BufferFacts
<1>3. ASSUME Colors[i] # 0 PROVE FALSE
  <2>1. 0 \in 0 .. Colors[i] - 1
    BY <1>1, <1>2, <1>3
  <2> QED BY <1>1, <2>1
<1> QED BY <1>3

\* The buffers get new offsets, which respect their alignment.
LEMMA BumpedIsAligned ==
  ASSUME bufs \in Layouts, Aligned(offset)
  PROVE  Aligned(Bumped)
<1> DEFINE n == Len(bufs)
           E(o, i, j) == (IF j < i THEN o[j] ELSE offset[j]) + bufs[j].size
           Moved(o, i) == LET ends == {(IF j < i THEN o[j] ELSE offset[j]) + bufs[j].size : j \in Neighbours(i)}
                          IN IF Colors[i] = 0 THEN offset[i] ELSE alignTo(MaxOf(ends), bufs[i].align)
           D == UNION {{i} \X [1 .. i - 1 -> Nat] : i \in 1 .. n}
           G == [z \in D |-> Moved(z[2], z[1])]
           IsMove(o) == o = [i \in Ids |-> Moved(o, i)]
<1>1. n \in Nat /\ Ids = 1 .. n /\ \A i \in Ids : Neighbours(i) \in SUBSET Ids
  BY BufferFacts DEF Neighbours
<1>2. \A i \in Ids : /\ offset[i] \in Nat /\ offset[i] % bufs[i].align = 0
                     /\ bufs[i].size \in Nat /\ bufs[i].align \in Nat \ {0}
  BY BufferFacts DEF Aligned
<1> HIDE DEF n
<1>3. ASSUME NEW i \in Ids, NEW o, [j \in 1 .. i - 1 |-> o[j]] \in [1 .. i - 1 -> Nat]
      PROVE  Moved(o, i) \in Nat /\ Moved(o, i) % bufs[i].align = 0
  <2>1. CASE Colors[i] = 0
    BY <1>2, <2>1
  <2>2. CASE Colors[i] # 0
    <3> DEFINE e == [j \in 1 .. n |-> E(o, i, j)]
               ends == {E(o, i, j) : j \in Neighbours(i)}
    <3>1. e \in [1 .. n -> Nat]
      <4>1. ASSUME NEW j \in 1 .. n PROVE E(o, i, j) \in Nat
        <5>1. j < i => o[j] \in Nat
          <6>1. j < i => j \in 1 .. i - 1
            BY <1>1
          <6> QED BY <1>3, <6>1
        <5> QED BY <1>1, <1>2, <5>1
      <4> QED BY <4>1
    <3>2. ends = {e[j] : j \in Neighbours(i)} /\ Neighbours(i) # {} /\ Neighbours(i) \in SUBSET (1 .. n)
      BY <1>1, <2>2, NoNeighboursNoColor
    <3>3. ends # {}
      BY <3>2
    <3> HIDE DEF e, ends
    <3>4. MaxOf(ends) \in Nat
      BY <1>1, <3>1, <3>2, <3>3, MaxOfEnds
    <3>5. Moved(o, i) = alignTo(MaxOf(ends), bufs[i].align)
      BY <2>2 DEF ends
    <3> QED BY <1>2, <3>4, <3>5, AlignToAligns
  <2> QED BY <2>1, <2>2
<1>4. ASSUME NEW i \in 1 .. n, NEW o
      PROVE  Moved([j \in 1 .. i - 1 |-> o[j]], i) = Moved(o, i)
  <2> DEFINE p == [j \in 1 .. i - 1 |-> o[j]]
  <2>1. \A j \in Neighbours(i) : j < i => p[j] = o[j]
    BY <1>1
  <2> HIDE DEF p
  <2>2. {(IF j < i THEN p[j] ELSE offset[j]) + bufs[j].size : j \in Neighbours(i)}
          = {(IF j < i THEN o[j] ELSE offset[j]) + bufs[j].size : j \in Neighbours(i)}
    BY <2>1
  <2>3. Moved(p, i) = Moved(o, i)
    BY <2>2
  <2> QED BY <2>3 DEF p
<1> HIDE DEF Moved
<1>5. G \in Steps(n, Nat)
  <2>1. ASSUME NEW z \in D PROVE Moved(z[2], z[1]) \in Nat
    <3>1. PICK i \in 1 .. n : z \in {i} \X [1 .. i - 1 -> Nat]
      OBVIOUS
    <3>2. z[1] = i /\ z[2] \in [1 .. i - 1 -> Nat]
      BY <3>1
    <3>3. [j \in 1 .. i - 1 |-> z[2][j]] \in [1 .. i - 1 -> Nat]
      BY <3>2
    <3> HIDE DEF D
    <3> QED BY <1>1, <1>3, <3>2, <3>3
  <2> QED BY <2>1 DEF Steps
<1>6. PICK f \in [1 .. n -> Nat] : Follows(f, G, n)
  <2> HIDE DEF G
  <2> QED BY <1>1, <1>5, PrefixRecursion
<1>7. \A i \in 1 .. n : f[i] = Moved(f, i)
  <2> SUFFICES ASSUME NEW i \in 1 .. n PROVE f[i] = Moved(f, i)
    OBVIOUS
  <2> DEFINE p == [j \in 1 .. i - 1 |-> f[j]]
  <2>1. p \in [1 .. i - 1 -> Nat]
    BY <1>1
  <2>2. <<i, p>> \in D
    <3>1. <<i, p>> \in {i} \X [1 .. i - 1 -> Nat]
      BY <2>1
    <3> HIDE DEF p
    <3> QED BY <3>1
  <2>3. Moved(p, i) = Moved(f, i)
    BY <1>4
  <2> HIDE DEF p, D
  <2>4. G[<<i, p>>] = Moved(p, i)
    BY <2>2
  <2> QED BY <1>6, <2>3, <2>4 DEF p, Follows
<1>8. IsMove(Bumped)
  <2>1. IsMove(f)
    BY <1>1, <1>7
  <2>2. Bumped = CHOOSE o : IsMove(o)
    BY DEF Bumped, Moved
  <2> HIDE DEF IsMove
  <2> QED BY <2>1, <2>2
<1>9. \A i \in Ids : Bumped[i] = Moved(Bumped, i)
  BY <1>8
<1>10. \A i \in Ids : Bumped[i] \in Nat
  <2> DEFINE S == {k \in Nat : \A i \in 1 .. n : i <= k => Bumped[i] \in Nat}
  <2>1. 0 \in S
    OBVIOUS
  <2>2. ASSUME NEW k \in Nat, k \in S PROVE k + 1 \in S
    <3> SUFFICES ASSUME k + 1 \in 1 .. n PROVE Bumped[k + 1] \in Nat
      BY <1>1, <2>2
    <3>1. [j \in 1 .. (k + 1) - 1 |-> Bumped[j]] \in [1 .. (k + 1) - 1 -> Nat]
      BY <1>1, <2>2
    <3>2. Moved(Bumped, k + 1) \in Nat
      BY <1>1, <1>3, <3>1
    <3> QED BY <1>1, <1>9, <3>2
  <2> HIDE DEF S
  <2>3. Nat \subseteq S
    BY <2>1, <2>2, InductionOnSet
  <2> QED BY <1>1, <2>3 DEF S
<1>11. ASSUME NEW i \in Ids PROVE Bumped[i] % bufs[i].align = 0
  <2>1. [j \in 1 .. i - 1 |-> Bumped[j]] \in [1 .. i - 1 -> Nat]
    BY <1>1, <1>10
  <2> QED BY <1>3, <1>9, <2>1
<1>12. Bumped \in [Ids -> Nat]
  BY <1>8, <1>10
<1> QED BY <1>11, <1>12 DEF Aligned

\* The first interference graph keeps the invariant.
LEMMA BuildInterferenceGraphKeeps == IInv /\ BuildInterferenceGraph => IInv'
<1> SUFFICES ASSUME IInv, BuildInterferenceGraph PROVE IInv'
  OBVIOUS
<1> USE DEF IInv
<1>1. /\ interference' = InterferenceGraph(offset) /\ phase' = "color"
      /\ UNCHANGED <<bufs, offset, triples, todo, sharedMemorySize>>
  BY DEF BuildInterferenceGraph
<1>2. InterferenceGraph(offset)' = InterferenceGraph(offset)
  BY <1>1 DEF InterferenceGraph, Space, LiveTogether, RunTogether, Live, Ids
<1>3. InterferenceGraph(offset) \subseteq Ids \X Ids
  BY DEF InterferenceGraph
<1>4. ColoringOK'
  BY <1>1, <1>2, <1>3 DEF ColoringOK, Ids
<1> QED BY <1>1, <1>4 DEF Aligned, SweepOK, Ids

\* A round of colouring keeps the invariant.
LEMMA AllocateKeeps == IInv /\ Allocate => IInv'
<1> SUFFICES ASSUME IInv, Allocate PROVE IInv'
  OBVIOUS
<1> USE DEF IInv
<1>0. PICK o : o = Bumped
  OBVIOUS
<1>1. /\ offset' = o /\ interference' = InterferenceGraph(o)
      /\ sharedMemorySize' = MaxOf({0} \cup {o[i] + bufs[i].size : i \in Ids})
      /\ phase' \in {"color", "done"} /\ (phase' = "done" => interference' = {})
      /\ UNCHANGED <<bufs, triples, todo>>
  BY <1>0 DEF Allocate
<1>2. Aligned(o)
  BY <1>0, BumpedIsAligned
<1>3. sharedMemorySize' \in Nat /\ \A i \in Ids : o[i] + bufs[i].size <= sharedMemorySize'
  <2> DEFINE n == Len(bufs)
             e == [i \in 1 .. n |-> o[i] + bufs[i].size]
             S == {0} \cup {e[i] : i \in 1 .. n}
  <2>1. n \in Nat /\ Ids = 1 .. n /\ e \in [1 .. n -> Nat]
    BY <1>2, BufferFacts DEF Aligned
  <2>2. S = {0} \cup {o[i] + bufs[i].size : i \in Ids}
    BY <2>1
  <2>3. \A i \in Ids : o[i] + bufs[i].size \in S
    BY <2>2
  <2>4. 1 .. n \in SUBSET (1 .. n) /\ S = {0} \cup {e[j] : j \in 1 .. n} /\ S # {}
    OBVIOUS
  <2> HIDE DEF n, e, S
  <2>5. MaxOf(S) \in Nat /\ \A m \in S : m <= MaxOf(S)
    BY <2>1, <2>4, MaxOfEnds
  <2> QED BY <1>1, <2>2, <2>3, <2>5
<1>4. Aligned(offset)'
  BY <1>1, <1>2 DEF Aligned, Ids
<1>5. InterferenceGraph(offset)' = InterferenceGraph(o)
  BY <1>1 DEF InterferenceGraph, Space, LiveTogether, RunTogether, Live, Ids
<1>6. InterferenceGraph(o) \subseteq Ids \X Ids
  BY DEF InterferenceGraph
<1>7. ColoringOK'
  BY <1>1, <1>3, <1>5, <1>6 DEF ColoringOK, Ids
<1>8. SweepOK'
  BY <1>1 DEF SweepOK, Ids
<1> QED BY <1>1, <1>4, <1>7, <1>8

-----------------------------------------------------------------------------
(* The allocation.                                                         *)

\* The invariant holds of every list of buffers before the sweep.
LEMMA StartIsOK == bufs \in Layouts /\ Start => IInv
<1> SUFFICES ASSUME bufs \in Layouts, Start PROVE IInv
  OBVIOUS
<1> DEFINE all == [start |-> 0, range |-> <<0, MaxId>>]
<1>1. /\ Len(bufs) \in Nat /\ Ids = 1 .. Len(bufs) /\ MaxId \in Nat
      /\ \A i \in Ids : /\ bufs[i].align \in Nat \ {0}
                        /\ bufs[i].lo \in Nat /\ bufs[i].hi \in Nat
                        /\ bufs[i].lo < bufs[i].hi /\ bufs[i].hi <= MaxId
  BY BufferFacts
<1>2. Aligned(offset)
  BY <1>1 DEF Start, Aligned
<1>3. all \in Triple
  BY <1>1 DEF Triple
<1>4. triples \in Seq(Triple) /\ DOMAIN triples = {1} /\ triples[1] = all
  <2> HIDE DEF all
  <2>1. triples = << all >>
    BY DEF Start, all
  <2> QED BY <1>3, <2>1
<1>5. todo \in Seq(Ids) /\ DOMAIN todo = Ids /\ \A i \in Ids : todo[i] = i
  BY <1>1 DEF Start
<1>6. Covered(triples, todo)
  <2>1. ASSUME NEW i \in Ids PROVE intersects(Live(i), all.range)
    BY <1>1 DEF intersects, Live
  <2> HIDE DEF all
  <2> QED BY <1>4, <1>5, <2>1 DEF Covered
<1>7. ColoringOK
  BY DEF Start, ColoringOK
<1> QED BY <1>2, <1>4, <1>5, <1>6, <1>7 DEF IInv, SweepOK

\* Every step of the allocation keeps the invariant.
LEMMA NextKeeps == IInv /\ [Next]_vars => IInv'
<1> SUFFICES ASSUME IInv, [Next]_vars PROVE IInv'
  OBVIOUS
<1>1. CASE PlaceBuffer
  BY <1>1, PlaceBufferKeeps
<1>2. CASE DropTriple
  BY <1>2, DropTripleKeeps
<1>3. CASE BuildInterferenceGraph
  BY <1>3, BuildInterferenceGraphKeeps
<1>4. CASE Allocate
  BY <1>4, AllocateKeeps
<1>5. CASE UNCHANGED vars
  BY <1>5 DEF vars, IInv, Aligned, SweepOK, ColoringOK, Covered, InterferenceGraph, Space,
              LiveTogether, RunTogether, Live, Ids
<1>6. CASE Terminated
  BY <1>5, <1>6 DEF Terminated
<1> QED BY <1>1, <1>2, <1>3, <1>4, <1>5, <1>6 DEF Next

\* The invariant gives the type invariant: a buffer that is still to be placed
\* meets free space, so there is some.
LEMMA InvariantIsTyped == IInv => TypeOK
<1> SUFFICES ASSUME IInv PROVE TypeOK
  OBVIOUS
<1> USE DEF IInv, SweepOK
<1>1. ASSUME NEW k \in DOMAIN triples
      PROVE  /\ triples[k].start \in Nat /\ triples[k].range \in (0 .. MaxId) \X (0 .. MaxId)
             /\ triples[k].range[1] <= triples[k].range[2]
  <2>1. triples[k] \in Triple
    OBVIOUS
  <2> QED BY <2>1 DEF Triple
<1>2. phase = "starts" /\ todo # <<>> => triples # <<>>
  <2> SUFFICES ASSUME phase = "starts", todo # <<>>, triples = <<>> PROVE FALSE
    OBVIOUS
  <2>1. 1 \in DOMAIN todo
    OBVIOUS
  <2>2. PICK m \in DOMAIN triples : TRUE
    BY <2>1 DEF Covered
  <2> QED BY <2>2
<1> QED BY <1>1, <1>2 DEF TypeOK, Aligned, ColoringOK

\* Buffers that need their bytes at the same time and do not interfere are apart.
LEMMA InvariantSeparates == IInv => NoOverlap
<1> SUFFICES ASSUME IInv, phase = "done" PROVE NoOverlap
  BY DEF NoOverlap, Ended
<1>1. /\ offset \in [Ids -> Nat] /\ InterferenceGraph(offset) = {}
      /\ \A i \in Ids : offset[i] + bufs[i].size <= sharedMemorySize
  BY DEF IInv, Aligned, ColoringOK
<1>2. ASSUME NEW i \in Ids, NEW j \in Ids, i # j,
             RunTogether(i, j) \/ \E t \in 0 .. MaxId : /\ bufs[i].lo <= t /\ t < bufs[i].hi
                                                        /\ bufs[j].lo <= t /\ t < bufs[j].hi
      PROVE  \/ offset[i] + bufs[i].size <= offset[j]
             \/ offset[j] + bufs[j].size <= offset[i]
  <2>1. /\ bufs[i].size \in Nat /\ bufs[j].size \in Nat /\ MaxId \in Nat
        /\ bufs[i].lo \in Nat /\ bufs[j].lo \in Nat /\ bufs[i].hi \in Nat /\ bufs[j].hi \in Nat
        /\ offset[i] \in Nat /\ offset[j] \in Nat
    BY <1>1, BufferFacts DEF IInv
  <2>2. LiveTogether(i, j) \/ RunTogether(i, j)
    BY <1>2, <2>1 DEF LiveTogether, Live, intersects
  <2>3. <<i, j>> \notin InterferenceGraph(offset)
    BY <1>1
  <2>4. ~ intersects(Space(offset, i), Space(offset, j))
    BY <1>2, <2>2, <2>3 DEF InterferenceGraph
  <2> QED BY <2>1, <2>4 DEF intersects, Space
<1> QED BY <1>1, <1>2 DEF NoOverlap, Ended

\* The allocation of every list of buffers keeps the invariant.
THEOREM Invariance == Spec => []IInv
<1>1. Init => IInv
  BY StartIsOK DEF Init
<1> QED BY <1>1, NextKeeps, PTL DEF Spec

\* Offsets are aligned in both phases and the sweep always has free space.
THEOREM AllocationIsTyped == Spec => []TypeOK
BY Invariance, InvariantIsTyped, PTL

\* When the rounds end, no two buffers that are live together, or are used in
\* regions that run together, share a byte.
THEOREM BuffersAreApart == Spec => []NoOverlap
BY Invariance, InvariantSeparates, PTL

\* The same for the buffers of a function, computed from its operations, and
\* while it runs.
THEOREM KernelBuffersAreApart == KernelSpec => [](TypeOK /\ NoOverlap)
<1>1. KernelInit => IInv
  <2> SUFFICES ASSUME KernelInit PROVE IInv
    OBVIOUS
  <2>1. bufs \in Layouts /\ Start
    BY KernelAssumption DEF KernelInit
  <2> QED BY <2>1, StartIsOK
<1>2. IInv /\ [KernelNext]_allVars => IInv'
  <2>1. [KernelNext]_allVars => [Next]_vars
    BY DEF KernelNext, allVars, vars
  <2> QED BY <2>1, NextKeeps
<1>3. KernelSpec => []IInv
  BY <1>1, <1>2, PTL DEF KernelSpec
<1> QED BY <1>3, InvariantIsTyped, InvariantSeparates, PTL
=============================================================================
