--------------------------- MODULE SmemAllocation ---------------------------
(***************************************************************************)
(* How Allocation.cpp gives the shared memory buffers of a function their  *)
(* offsets: first a sweep that packs them by live range (calculateStarts), *)
(* then rounds of graph colouring that move apart the buffers that still   *)
(* interfere (allocate, buildInterferenceGraph).                           *)
(*                                                                         *)
(* A buffer is a record: its size and alignment, its live range [lo, hi)   *)
(* in operation ids, and the region it is allocated in: ws is the          *)
(* warp_specialize op around it (0 for none), region the region of ws.     *)
(*                                                                         *)
(* A definition marked "bug:" is the next one with a mistake that the      *)
(* properties must catch; nothing uses it.                                 *)
(***************************************************************************)
EXTENDS Integers, Sequences, FiniteSets

CONSTANTS Layouts,   \* the possible buffers of a function, sorted by size
          MaxId      \* numeric_limits<size_t>::max() of an operation id

ASSUME AllocationAssumption ==
    /\ MaxId \in Nat
    /\ \A bufs \in Layouts :
          /\ Len(bufs) \in Nat /\ DOMAIN bufs = 1 .. Len(bufs)
          /\ \A i \in DOMAIN bufs :
                /\ bufs[i].size \in Nat \ {0} /\ bufs[i].align \in Nat \ {0}
                /\ bufs[i].lo \in Nat /\ bufs[i].hi \in Nat
                /\ bufs[i].lo < bufs[i].hi /\ bufs[i].hi <= MaxId
                /\ \A j \in 1 .. i : bufs[j].size >= bufs[i].size

VARIABLES bufs,      \* the buffers, in the order of the sort
          offset,    \* the offset of each buffer
          triples,   \* tripleMap: free space, by start, then by insertion
          todo,      \* xBuffers: the buffers the sweep has still to place
          interference,
          sharedMemorySize,
          phase

vars == <<bufs, offset, triples, todo, interference, sharedMemorySize, phase>>

Ids == DOMAIN bufs
Live(i) == <<bufs[i].lo, bufs[i].hi>>

-----------------------------------------------------------------------------
(* Interval and BufferT of Allocation.h.                                   *)

\* Intervals are half open: the end of one may be the start of another.
intersects(x, y) == x[1] < y[2] /\ y[1] < x[2]
Lesser(a, b) == IF a <= b THEN a ELSE b
Greater(a, b) == IF a <= b THEN b ELSE a
alignTo(n, a) == a * ((n + a - 1) \div a)

-----------------------------------------------------------------------------
(* calculateStarts                                                         *)

FirstOf(K) == CHOOSE k \in K : \A l \in K : k <= l
\* A multimap: a new triple goes behind those with the same start.
Insert(tm, start, range) ==
    LET k == FirstOf({k \in DOMAIN tm : tm[k].start > start} \cup {Len(tm) + 1})
    IN SubSeq(tm, 1, k - 1) \o << [start |-> start, range |-> range] >> \o SubSeq(tm, k, Len(tm))

\* The buffers that meet the live range of the first triple and of no other.
Fits(x) == /\ intersects(Live(x), Head(triples).range)
           /\ \A k \in DOMAIN Tail(triples) : ~ intersects(Live(x), Tail(triples)[k].range)
Fitting == {k \in DOMAIN todo : Fits(todo[k])}

\* The triples above buffer x, placed at the start of triple t, and beside it.
AboveBuffer(tm, t, x) ==
    Insert(tm, alignTo(t.start, bufs[x].align) + bufs[x].size,
           <<Greater(t.range[1], bufs[x].lo), Lesser(t.range[2], bufs[x].hi)>>)
BeforeBuffer(tm, t, x) ==
    IF t.range[1] < bufs[x].lo THEN Insert(tm, t.start, <<t.range[1], bufs[x].hi>>) ELSE tm
\* bug: the space after the buffer counts only when there is none before it.
AfterBufferElse(tm, t, x) ==
    IF bufs[x].hi < t.range[2] /\ t.range[1] >= bufs[x].lo
    THEN Insert(tm, t.start, <<bufs[x].lo, t.range[2]>>) ELSE tm
AfterBuffer(tm, t, x) ==
    IF bufs[x].hi < t.range[2] THEN Insert(tm, t.start, <<bufs[x].lo, t.range[2]>>) ELSE tm

PlaceBuffer ==
    /\ phase = "starts" /\ todo # <<>> /\ triples # <<>> /\ Fitting # {}
    /\ LET k == FirstOf(Fitting)
           x == todo[k]
           t == Head(triples)
       IN /\ offset' = [offset EXCEPT ![x] = alignTo(t.start, bufs[x].align)]
          /\ \E above \in {AboveBuffer(Tail(triples), t, x)} :
             \E before \in {BeforeBuffer(above, t, x)} : triples' = AfterBuffer(before, t, x)
          /\ todo' = SubSeq(todo, 1, k - 1) \o SubSeq(todo, k + 1, Len(todo))
    /\ UNCHANGED <<bufs, interference, sharedMemorySize, phase>>

DropTriple ==
    /\ phase = "starts" /\ todo # <<>> /\ triples # <<>> /\ Fitting = {}
    /\ triples' = Tail(triples)
    /\ UNCHANGED <<bufs, offset, todo, interference, sharedMemorySize, phase>>

-----------------------------------------------------------------------------
(* buildInterferenceGraph and allocate                                     *)

Space(off, i) == <<off[i], off[i] + bufs[i].size>>
LiveTogether(i, j) == intersects(Live(i), Live(j))
RunTogether(i, j) == /\ bufs[i].ws # 0 /\ bufs[i].ws = bufs[j].ws
                     /\ bufs[i].region # bufs[j].region
\* bug: only the live ranges count.
InterferenceGraphByLife(off) ==
    {e \in Ids \X Ids : /\ e[1] # e[2]
                        /\ intersects(Space(off, e[1]), Space(off, e[2]))
                        /\ LiveTogether(e[1], e[2])}
InterferenceGraph(off) ==
    {e \in Ids \X Ids : /\ e[1] # e[2]
                        /\ intersects(Space(off, e[1]), Space(off, e[2]))
                        /\ LiveTogether(e[1], e[2]) \/ RunTogether(e[1], e[2])}
Neighbours(i) == {j \in Ids : <<i, j>> \in interference}

BuildInterferenceGraph ==
    /\ phase = "starts" /\ todo = <<>>
    /\ interference' = InterferenceGraph(offset)
    /\ phase' = "color"
    /\ UNCHANGED <<bufs, offset, triples, todo, sharedMemorySize>>

\* bug: the colors of the buffers that follow are asked for, which have none.
ColorsOfNone == LET c[i \in Ids] == CHOOSE n \in 0 .. Len(bufs) : \A m \in 0 .. n - 1 : m \in {}
                IN c
\* First-fit colouring, in the order of the buffers.
Colors == LET c[i \in Ids] ==
                LET taken == {c[j] : j \in {k \in Neighbours(i) : k < i}}
                IN CHOOSE n \in 0 .. Len(bufs) :
                     n \notin taken /\ \A m \in 0 .. n - 1 : m \in taken
          IN c

MaxOf(S) == CHOOSE n \in S : \A m \in S : m <= n
\* A buffer whose color is not 0 moves behind all of its neighbours, which may
\* have moved before it.
Bumped == LET o[i \in Ids] ==
                LET ends == {(IF j < i THEN o[j] ELSE offset[j]) + bufs[j].size : j \in Neighbours(i)}
                IN IF Colors[i] = 0 THEN offset[i] ELSE alignTo(MaxOf(ends), bufs[i].align)
          IN o

Allocate ==
    /\ phase = "color"
    /\ offset' = Bumped
    /\ sharedMemorySize' = MaxOf({0} \cup {Bumped[i] + bufs[i].size : i \in Ids})
    /\ interference' = InterferenceGraph(Bumped)
    /\ phase' = IF interference' = {} THEN "done" ELSE "color"
    /\ UNCHANGED <<bufs, triples, todo>>

-----------------------------------------------------------------------------
Start == /\ offset = [i \in Ids |-> 0]
         /\ triples = << [start |-> 0, range |-> <<0, MaxId>>] >>
         /\ todo = [i \in Ids |-> i]
         /\ interference = {}
         /\ sharedMemorySize = 0
         /\ phase = "starts"
Init == bufs \in Layouts /\ Start

Terminated == phase = "done" /\ UNCHANGED vars

Next == PlaceBuffer \/ DropTriple \/ BuildInterferenceGraph \/ Allocate \/ Terminated

Spec == Init /\ [][Next]_vars
FairSpec == Spec /\ WF_vars(Next)

-----------------------------------------------------------------------------
Ended == phase = "done"

\* Every variable has its type; every offset respects the alignment of its
\* buffer whichever of the two phases has set it; and as long as a buffer is to
\* be placed a free space is left, for which the sweep, that takes
\* tripleMap.begin(), does not ask.
TypeOK ==
    /\ offset \in [Ids -> Nat] /\ \A i \in Ids : offset[i] % bufs[i].align = 0
    /\ \A k \in DOMAIN triples :
          LET t == triples[k]
          IN t.start \in Nat /\ t.range \in (0 .. MaxId) \X (0 .. MaxId) /\ t.range[1] <= t.range[2]
    /\ todo \in Seq(Ids)
    /\ phase = "starts" /\ todo # <<>> => triples # <<>>
    /\ interference \subseteq Ids \X Ids
    /\ sharedMemorySize \in Nat
    /\ phase \in {"starts", "color", "done"}

\* What allocation is for: at every operation the buffers live there have
\* disjoint bytes of the shared memory that the function asks for, and so have
\* buffers of regions that run at the same time, live or not.
NoOverlap ==
    Ended =>
      /\ \A i \in Ids : offset[i] + bufs[i].size <= sharedMemorySize
      /\ \A i, j \in Ids :
            i # j /\ (RunTogether(i, j) \/ \E t \in 0 .. MaxId : /\ bufs[i].lo <= t /\ t < bufs[i].hi
                                                                 /\ bufs[j].lo <= t /\ t < bufs[j].hi)
              => \/ offset[i] + bufs[i].size <= offset[j]
                 \/ offset[j] + bufs[j].size <= offset[i]

\* "Since we always increase the buffer offset and keep reducing conflicts, we
\* will eventually reach a fixed point": a buffer that moves may meet others,
\* and the conflicts need not get fewer.  Nevertheless the loop ends: the first
\* k buffers come to rest in turn.
Termination == <>Ended
=============================================================================
