------------------------- MODULE PartitionDependencies -------------------------
(***************************************************************************)
(* RewritePartitionDependencies.cpp: a loop whose operations are divided   *)
(* into partitions is rewritten so that values pass from one partition to  *)
(* another through rings of shared memory buffers, guarded by mbarriers.   *)
(* Then every partition runs the loop on its own.                          *)
(*                                                                         *)
(* A loop is a record: part[k] is the partition of operation k, uses[k]    *)
(* its operands, yield[a] and init[a] what iter arg a is given at the end  *)
(* of an iteration and at the start, stage[P] the stage of partition P.    *)
(* The operand k > 0 is the result of operation k, -a the iter arg a.      *)
(*                                                                         *)
(* A value is <<k, i>>, the result of operation k in iteration i, or       *)
(* <<0, n>>, an initial value.  An "end" is one of the places that work on *)
(* the buffers of a value, <<k, P, d>>: partition P uses the result of k   *)
(* at distance d, or, if P is the partition of k, produces it.             *)
(*                                                                         *)
(* A definition marked "bug:" is the next one with a mistake that the      *)
(* properties must catch; nothing uses it.                                 *)
(***************************************************************************)
EXTENDS Integers, FiniteSetsExt, SequencesExt

CONSTANTS Loops,   \* the loops with a schedule
          Trips    \* the numbers of iterations

\* SSA form: an operand is defined before it is used.
ASSUME LoopsAssumption ==
    /\ Trips \subseteq Nat
    /\ \A L \in Loops :
          /\ L.stage \in Seq(Int) /\ L.yield \in Seq(Int) /\ L.uses \in Seq(SUBSET Int)
          /\ L.part \in Seq(DOMAIN L.stage)
          /\ Len(L.uses) = Len(L.part) /\ Len(L.init) = Len(L.yield)
          /\ \A k \in DOMAIN L.uses : \A v \in L.uses[k] : v < k /\ v # 0 /\ -v <= Len(L.yield)
          /\ \A a \in DOMAIN L.yield : LET v == L.yield[a] IN
                v \in DOMAIN L.part \/ -v \in DOMAIN L.yield

VARIABLES loop, trip,   \* what is compiled, and how often it runs
          phase,        \* "verify", "rewrite", "run", "done", or "rejected"
          code,         \* what the pass has generated
          ready, empty, \* readyBars and emptyBars of each value
          buf,          \* its buffers
          async,        \* the index and the phase that each end carries
          pc,           \* where each partition is
          got           \* what a consumer has loaded last, and in which iteration

vars == <<loop, trip, phase, code, ready, empty, buf, async, pc, got>>

OpIds == DOMAIN loop.part
Args == DOMAIN loop.yield
Partitions == DOMAIN loop.stage
None == <<>>

-----------------------------------------------------------------------------
(* Uses and distances (Partition.cpp)                                      *)

\* From an operand through the yield to the operation that defines it.
Follow(v) ==
    LET f[n \in 0 .. Len(loop.yield)] ==
          IF n = 0 THEN v ELSE IF f[n - 1] > 0 THEN f[n - 1] ELSE loop.yield[-f[n - 1]]
    IN f
Origin(v) == Follow(v)[Len(loop.yield)]
Defined(v) == Origin(v) > 0
Distance(v) == Min({n \in 0 .. Len(loop.yield) : Follow(v)[n] > 0})

Uses == {u \in UNION {{k} \X loop.uses[k] : k \in OpIds} : Defined(u[2])}
Definer(u) == loop.part[Origin(u[2])]
User(u) == loop.part[u[1]]

\* The stage of a partition is less than that of its consumers plus the
\* distance; the partitions of an iteration then have no cycle.
verify ==
    \A u \in Uses : (Definer(u) # User(u) \/ Distance(u[2]) > 0) =>
        loop.stage[Definer(u)] < loop.stage[User(u)] + Distance(u[2])

-----------------------------------------------------------------------------
(* UseInfo and Multiplicity                                                *)

EndOf(u) == <<Origin(u[2]), User(u), Distance(u[2])>>
Crossing == {u \in Uses : Definer(u) # User(u)}
Consumers == {EndOf(u) : u \in Crossing}
ConsumersOf(k) == {c \in Consumers : c[1] = k}
Values == {c[1] : c \in Consumers}
Producer(k) == <<k, loop.part[k], 0>>
UsesOf(c) == {u \in Crossing : EndOf(u) = c}
earliestUser(c) == Min({u[1] : u \in UsesOf(c)})

\* bug: the barriers expect one arrival of each partition.
numConsumersPerPartition(k) == Cardinality({c[2] : c \in ConsumersOf(k)})
numConsumers(k) == Cardinality(ConsumersOf(k))
maxUseDistance(k) ==
    Max({loop.stage[c[2]] - loop.stage[loop.part[k]] + c[3] : c \in ConsumersOf(k)})

\* The iter args from operation k down to arg a.
Path(a) == [i \in 1 .. Distance(-a) |-> -Follow(-a)[Distance(-a) - i]]
Nodes(k) == UNION {Range(Path(-u[2])) : u \in {w \in Crossing : Origin(w[2]) = k /\ w[2] < 0}}
Leaves(k) == {a \in Nodes(k) : \A b \in Nodes(k) : loop.yield[b] # -a}
getTotalBranchDepth(k) == SumFunction([a \in Leaves(k) |-> Distance(-a)])

\* The orders in which a depth-first traversal can reach the leaves.
Below(a, s) == {i \in DOMAIN s : a \in Range(Path(s[i]))}
Traversals(k) ==
    {s \in SetToSeqs(Leaves(k)) :
       \A a \in Nodes(k) : \A i, j \in Below(a, s) : \A n \in i .. j : n \in Below(a, s)}

\* The leaf whose branch a node is numbered with, and the buffers of a branch.
BranchOf(s, a) == Min(Below(a, s))
SegStart(s, n) == SumFunctionOnSet([i \in DOMAIN s |-> Distance(-s[i])], 1 .. n - 1)
SegEnd(s, n) == SegStart(s, n) + Distance(-s[n])
\* The initial values in the first buffers, branch by branch.
InitialValues(s) ==
    LET values[n \in 0 .. Len(s)] ==
          IF n = 0 THEN <<>>
          ELSE values[n - 1] \o [i \in 1 .. Distance(-s[n]) |-> <<0, loop.init[Path(s[n])[i]]>>]
    IN values[Len(s)]

-----------------------------------------------------------------------------
(* Code generation                                                         *)

\* What createAndGetAsyncIndex builds: where the index starts, the index at
\* which it leaves the initial values (0 if it need not be asked for), and
\* the ring.
StartOf(s, c, arg) == IF c[3] = 0 THEN getTotalBranchDepth(c[1])
                      ELSE SegEnd(s, BranchOf(s, arg)) - Distance(-arg)
\* bug: the end is never asked for.
EndNeverAsked(s, c, arg) == 0
EndIfAsked(s, c, arg) ==
    IF c[3] = 0 \/ BranchOf(s, arg) = Len(s) THEN 0 ELSE SegEnd(s, BranchOf(s, arg))
AsyncIndex(k, start, leave) ==
    [start |-> start, leave |-> leave,
     first |-> getTotalBranchDepth(k), size |-> getTotalBranchDepth(k) + maxUseDistance(k)]

\* The code for the traversals s[k] and the uses front[c] that stand for an end.
Generated(s, front) ==
    [index |-> [e \in Consumers \cup {Producer(k) : k \in Values} |->
                  IF e \in Consumers
                  THEN AsyncIndex(e[1], StartOf(s[e[1]], e, -front[e][2]),
                                        EndIfAsked(s[e[1]], e, -front[e][2]))
                  ELSE AsyncIndex(e[1], getTotalBranchDepth(e[1]), 0)],
     loads |-> [k \in OpIds |-> {c \in Consumers : earliestUser(c) = k}],
     stores |-> Values]

NewBarrier(n) == [count |-> n, pending |-> n, parity |-> 0]
\* mbarrier.arrive with a count, which completes a phase when none is pending.
Arrive(bar, n) ==
    IF bar.pending = n THEN [bar EXCEPT !.pending = bar.count, !.parity = 1 - @]
    ELSE [bar EXCEPT !.pending = @ - n]
\* mbarrier.try_wait.parity: the phase of this parity is complete.
Complete(bar, parity) == bar.parity # parity

Slots(k) == 0 .. getTotalBranchDepth(k) + maxUseDistance(k) - 1
HasInit(k, n) == n < getTotalBranchDepth(k)
InitReady(k, n) == IF HasInit(k, n) THEN Arrive(NewBarrier(1), 1) ELSE NewBarrier(1)
\* bug: the buffers are not marked as empty.
InitEmptyBare(k, n) == NewBarrier(numConsumers(k))
InitEmpty(k, n) == IF HasInit(k, n) THEN NewBarrier(numConsumers(k))
                   ELSE Arrive(NewBarrier(numConsumers(k)), numConsumers(k))
Junk == <<0, -1>>
InitBuf(s, k, n) == IF HasInit(k, n) THEN InitialValues(s[k])[n + 1] ELSE Junk

\* The buffer index and the phase of an end in its next iteration.
NextAsync(e) ==
    LET c == code.index[e]
        i == async[e].idx + 1
        roll == i = c.size
    IN [idx |-> IF roll \/ (c.leave # 0 /\ i = c.leave) THEN c.first ELSE i,
        phase |-> IF roll THEN 1 - async[e].phase ELSE async[e].phase]

-----------------------------------------------------------------------------
(* Where a partition goes on: at the next operation that loads or stores.  *)
(* pc[P] holds the iteration, the operation, the ends that are still to be *)
(* loaded for it, the end at work and whether its buffer is held.          *)

Busy(P, k) == loop.part[k] = P /\ (code.loads[k] # {} \/ k \in code.stores)
At(it, k, left, e) == [it |-> it, op |-> k, left |-> left, end |-> e, held |-> FALSE]
Finished == At(trip, 0, {}, None)

\* Loads of one operation come in some order, fixed by the code; any will do.
Enter(it, k) == IF code.loads[k] # {} THEN {At(it, k, code.loads[k] \ {e}, e) : e \in code.loads[k]}
                ELSE {At(it, k, {}, Producer(k))}
After(P, it, k) ==
    LET later == {n \in OpIds : n > k /\ Busy(P, n)}
        all   == {n \in OpIds : Busy(P, n)}
    IN IF later # {} THEN Enter(it, Min(later))
       ELSE IF it + 1 < trip /\ all # {} THEN Enter(it + 1, Min(all))
       ELSE {Finished}
Starts(P) == After(P, -1, Len(loop.part))
\* From one end to the next.
Following(P) ==
    LET p == pc[P]
    IN IF p.left # {} THEN {At(p.it, p.op, p.left \ {e}, e) : e \in p.left}
       ELSE IF p.end # Producer(p.op) /\ p.op \in code.stores THEN {At(p.it, p.op, {}, Producer(p.op))}
       ELSE After(P, p.it, p.op)

-----------------------------------------------------------------------------
Init ==
    /\ loop \in Loops /\ trip \in Trips
    /\ phase = "verify"
    /\ code = None
    /\ ready = None /\ empty = None /\ buf = None /\ async = None /\ pc = None /\ got = None

Verify ==
    /\ phase = "verify"
    /\ phase' = IF verify THEN "rewrite" ELSE "rejected"
    /\ UNCHANGED <<loop, trip, code, ready, empty, buf, async, pc, got>>

\* The pass runs, and the code before the loop.
Rewrite ==
    /\ phase = "rewrite"
    /\ \E s \in [Values -> UNION {Traversals(k) : k \in Values}],
          front \in [Consumers -> Crossing] :
          /\ \A k \in Values : s[k] \in Traversals(k)
          /\ \A c \in Consumers : front[c] \in UsesOf(c)
          /\ code' = Generated(s, front)
          /\ ready' = [k \in Values |-> [n \in Slots(k) |-> InitReady(k, n)]]
          /\ empty' = [k \in Values |-> [n \in Slots(k) |-> InitEmpty(k, n)]]
          /\ buf' = [k \in Values |-> [n \in Slots(k) |-> InitBuf(s, k, n)]]
    /\ phase' = "enter"
    /\ UNCHANGED <<loop, trip, async, pc, got>>

\* The ttg.warp_specialize op: every partition starts the loop.
Fork ==
    /\ phase = "enter"
    /\ phase' = "run"
    /\ async' = [e \in DOMAIN code.index |-> [idx |-> code.index[e].start - 1, phase |-> 0]]
    /\ got' = [c \in Consumers |-> None]
    /\ \E p \in [Partitions -> UNION {Starts(P) : P \in Partitions}] :
          (\A P \in Partitions : p[P] \in Starts(P)) /\ pc' = p
    /\ UNCHANGED <<loop, trip, code, ready, empty, buf>>

Waiting(P) == phase = "run" /\ pc[P].end # None /\ ~ pc[P].held
Holding(P) == phase = "run" /\ pc[P].held
Loading(P) == pc[P].end \in DOMAIN got
Slot(P) == async[pc[P].end].idx

\* bug: the producer does not wait for the buffer.
WaitBarrierOfConsumers(P) ==
    /\ Waiting(P)
    /\ LET e == pc[P].end
           a == NextAsync(e)
       IN /\ Loading(P) => Complete(ready[e[1]][a.idx], a.phase)
          /\ async' = [async EXCEPT ![e] = a]
    /\ pc' = [pc EXCEPT ![P].held = TRUE]
    /\ UNCHANGED <<loop, trip, phase, code, ready, empty, buf, got>>

WaitBarrier(P) ==
    /\ Waiting(P)
    /\ LET e == pc[P].end
           a == NextAsync(e)
       IN /\ Complete(IF Loading(P) THEN ready[e[1]][a.idx] ELSE empty[e[1]][a.idx], a.phase)
          /\ async' = [async EXCEPT ![e] = a]
    /\ pc' = [pc EXCEPT ![P].held = TRUE]
    /\ UNCHANGED <<loop, trip, phase, code, ready, empty, buf, got>>

\* The wait is a loop that tries again.
SpinOnBarrier(P) ==
    /\ Waiting(P)
    /\ LET e == pc[P].end
           a == NextAsync(e)
       IN ~ Complete(IF Loading(P) THEN ready[e[1]][a.idx] ELSE empty[e[1]][a.idx], a.phase)
    /\ UNCHANGED vars

\* local_load and the arrival at the empty barrier.
Load(P) ==
    /\ Holding(P) /\ Loading(P)
    /\ LET e == pc[P].end
       IN /\ got' = [got EXCEPT ![e] = [it |-> pc[P].it, val |-> buf[e[1]][Slot(P)]]]
          /\ empty' = [empty EXCEPT ![e[1]][Slot(P)] = Arrive(@, 1)]
    /\ \E q \in Following(P) : pc' = [pc EXCEPT ![P] = q]
    /\ UNCHANGED <<loop, trip, phase, code, ready, buf, async>>

\* local_store and the arrival at the ready barrier.
Store(P) ==
    /\ Holding(P) /\ ~ Loading(P)
    /\ LET k == pc[P].op
       IN /\ buf' = [buf EXCEPT ![k][Slot(P)] = <<k, pc[P].it>>]
          /\ ready' = [ready EXCEPT ![k][Slot(P)] = Arrive(@, 1)]
    /\ \E q \in Following(P) : pc' = [pc EXCEPT ![P] = q]
    /\ UNCHANGED <<loop, trip, phase, code, empty, async, got>>

\* All partitions are through; the barriers are invalidated.
Join ==
    /\ phase = "run" /\ \A P \in Partitions : pc[P] = Finished
    /\ phase' = "done"
    /\ UNCHANGED <<loop, trip, code, ready, empty, buf, async, pc, got>>

Over == phase \in {"done", "rejected"}
Terminated == Over /\ UNCHANGED vars

Compile == Verify \/ Rewrite \/ Fork \/ Join
Step(P) == phase = "run" /\ P \in Partitions /\ (WaitBarrier(P) \/ SpinOnBarrier(P) \/ Load(P) \/ Store(P))
PartIds == 1 .. Max({Len(L.stage) : L \in Loops})
Next == Compile \/ (\E P \in PartIds : Step(P)) \/ Terminated

Spec == Init /\ [][Next]_vars
\* The warps of every partition are resident and run.
Fairness == WF_vars(Compile) /\ \A P \in PartIds : WF_vars(Step(P))
FairSpec == Spec /\ Fairness

-----------------------------------------------------------------------------
\* What the loop without partitions would find in an operand.
Sequential(v, i) == IF i >= Distance(v) THEN <<Origin(v), i - Distance(v)>>
                    ELSE <<0, loop.init[-Follow(v)[i]]>>
Correct(c, g) == \A u \in UsesOf(c) : g.val = Sequential(u[2], g.it)

\* The operands that an end stands for agree on what they are at first.
SameStart ==
    \A c \in Consumers : \A u, w \in UsesOf(c) : \A i \in 0 .. c[3] - 1 :
       Sequential(u[2], i) = Sequential(w[2], i)
\* The iter args of a branch have one initial value.
UniformBranches ==
    \A k \in Values : \A a \in Leaves(k) : \A b \in Range(Path(a)) : loop.init[b] = loop.init[a]
Consistent == verify => SameStart /\ UniformBranches

\* Whatever the partitions' speeds are, a use reads the value of the iteration
\* that it would read in the loop as it was written: no value is skipped, read
\* twice, read before it is stored or overwritten before it is read.
ReadsAsSequential ==
    phase \in {"run", "done"} => \A c \in DOMAIN got : got[c] # None => Correct(c, got[c])

\* A buffer that is being stored to is not in use by another partition, and no
\* barrier is arrived at more often than it expects, which is undefined.
BuffersExclusive ==
    phase = "run" =>
      /\ \A k \in DOMAIN buf : \A n \in DOMAIN ready[k] :
            /\ ready[k][n].pending \in 1 .. ready[k][n].count
            /\ empty[k][n].pending \in 1 .. empty[k][n].count
      /\ \A P, Q \in Partitions :
         P # Q /\ pc[P].held /\ pc[Q].held /\ pc[P].end[1] = pc[Q].end[1] /\ Slot(P) = Slot(Q)
           => Loading(P) /\ Loading(Q)

\* The partitions "may execute simultaneously" (Partition.h:51), and values are
\* buffered "based on the greatest distance to a consumer partition"
\* (RewritePartitionDependencies.cpp:423): whatever the partitions' speeds are, no
\* wait of theirs lasts for ever, and the loop ends.  It does not hold if two
\* partitions store before they load from each other, or if more values are left
\* at the end than there are buffers.
Termination == <>Over
=============================================================================
