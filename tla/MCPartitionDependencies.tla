------------------------ MODULE MCPartitionDependencies ------------------------
(* Loops of three or four operations and up to two iter args, with every      *)
(* choice of operands and stages, and those of the pass's own tests.          *)
EXTENDS PartitionDependencies

CONSTANTS Stages

LoopOf(part, uses, yield, init, stage) ==
    [part |-> part, uses |-> uses, yield |-> yield, init |-> init, stage |-> stage]

Operands(k, args) == (1 .. k - 1) \cup {-a : a \in 1 .. args}
UpTo(S, n) == {T \in SUBSET S : Cardinality(T) <= n}
Triples(part, yield, init) ==
    {LoopOf(part, <<{}, v, w>>, yield, init, st) :
        v \in UpTo(Operands(2, Len(init)), 2), w \in UpTo(Operands(3, Len(init)), 2),
        st \in [Range(part) -> Stages]}
Fours(part, yield, init) ==
    {LoopOf(part, <<t, u, v, w>>, yield, init, st) :
        t \in UpTo(Operands(1, 2), 1), u \in UpTo(Operands(2, 2), 1),
        v \in UpTo(Operands(3, 2), 1), w \in UpTo(Operands(4, 2), 1), st \in [Range(part) -> Stages]}

\* What must happen in the same step of the schedule (iteration plus stage) has
\* an order: the operations of a partition, loads before stores, and a store
\* behind the loads that free its buffer.
Precedes(x, y) ==
    \/ loop.part[x[1]] = loop.part[y[1]] /\ (x[1] < y[1] \/ (x[1] = y[1] /\ x[2] < y[2]))
    \/ /\ x[2] = 0 /\ y[2] = 1
       /\ \E c \in ConsumersOf(y[1]) :
             /\ earliestUser(c) = x[1]
             /\ loop.stage[c[2]] - loop.stage[loop.part[y[1]]] + c[3] = maxUseDistance(y[1])
NoWaitCycle ==
    \A S \in SUBSET ((DOMAIN loop.part) \X {0, 1}) \ {{}} : \E y \in S : \A x \in S : ~ Precedes(x, y)

\* The values that are never read, of the last iterations, fit in the ring.
FitsAtTheEnd ==
    \A k \in Values : \A c \in ConsumersOf(k) : c[3] <= maxUseDistance(k)

Sound == Consistent /\ (verify => NoWaitCycle /\ FitsAtTheEnd)
SoundInit == Init /\ Sound
SoundSpec == SoundInit /\ [][Next]_vars /\ Fairness

\* Loops of the pass's tests (rewrite-partition-dependencies.mlir).
ComplexCase == LoopOf(<<1, 2, 3, 3, 2, 3>>, <<{}, {-1}, {-1}, {-1}, {-2}, {-2}>>, <<1, -1>>, <<0, 0>>, <<0, 2, 2>>)
ReuseArgument == LoopOf(<<1, 2, 3>>, <<{}, {-2}, {-2}>>, <<1, -1>>, <<0, 1>>, <<1, 0, 0>>)
MultiplicityBranch ==
    LoopOf(<<1, 2, 3, 4>>, <<{}, {-1}, {-2}, {-3}>>, <<1, -1, -1>>, <<0, 1, 2>>, <<0, 0, 0, 0>>)
\* A branch of two iter args and one of one, with a use of each.
TwoBranches ==
    LoopOf(<<1, 2, 3, 2>>, <<{}, {-2}, {-3}, {-1}>>, <<1, -1, 1>>, <<7, 7, 8>>, <<0, 0, 1>>)
\* The tree of MultiplicityBranch, with one initial value.
UniformTree == [MultiplicityBranch EXCEPT !.init = <<7, 7, 7>>]

Small == Triples(<<1, 2, 1>>, <<1, 2>>, <<7, 8>>) \cup Triples(<<1, 2, 2>>, <<1, 1>>, <<7, 8>>)
         \cup Triples(<<1, 2, 3>>, <<1, -1>>, <<7, 7>>) \cup Fours(<<1, 2, 1, 2>>, <<1, 2>>, <<7, 8>>)
Trees == {ComplexCase, TwoBranches, UniformTree}
SmallAndTrees == Trees \cup Small
OnlyReuseArgument == {ReuseArgument}
================================================================================
