------------------------------ MODULE MCMembar ------------------------------
(* Modules whose control flow is a branch, a loop (with a branch in it), a    *)
(* warp_specialize op in a loop, or a call, with every choice of operations   *)
(* from a small set in the blocks.  A and B overlap, C is apart.              *)
EXTENDS Membar

CONSTANTS BodyKinds, EdgeKinds   \* names of operations: inside loops and branches, around them

A == <<0, 2>>
B == <<1, 3>>
C == <<3, 4>>
OpOf(kind, reads, writes) == [kind |-> kind, reads |-> reads, writes |-> writes, callee |-> 0, base |-> 0]
CallOf(f, base) == [kind |-> "call", reads |-> {}, writes |-> {}, callee |-> f, base |-> base]
Named == [readA |-> OpOf("memory", {A}, {}), writeA |-> OpOf("memory", {}, {A}),
          writeB |-> OpOf("memory", {}, {B}), readC |-> OpOf("memory", {C}, {}),
          copyAC |-> OpOf("memory", {A}, {C}),
          scratchB |-> OpOf("scratch", {B}, {B}), barrier |-> OpOf("barrier", {}, {}),
          wait |-> OpOf("wait", {}, {}), arrive |-> OpOf("arrive", {}, {})]
Ops(K) == {Named[k] : k \in K}
UpTo(K, n) == UNION {[1 .. m -> Ops(K)] : m \in 0 .. n}

BlockOf(ops, succs) == [ops |-> ops, succs |-> succs, ret |-> FALSE, sync |-> FALSE]
Return(ops) == [BlockOf(ops, <<>>) EXCEPT !.ret = TRUE]
Sync(ops, succs) == [BlockOf(ops, succs) EXCEPT !.sync = TRUE]
FunOf(blocks, starts) == [blocks |-> blocks, starts |-> starts]
ModOf(funs, filter) == [funcs |-> funs, filter |-> filter]

\* cf.cond_br with two targets that join.
Branches == {ModOf(<< FunOf(<< BlockOf(a, <<2, 3>>), BlockOf(b, <<4>>), BlockOf(c, <<4>>), Return(d) >>, <<1>>) >>, {}) :
                a \in UpTo(EdgeKinds, 1), b \in UpTo(BodyKinds, 1), c \in UpTo(BodyKinds, 1), d \in UpTo(EdgeKinds, 1)}
\* scf.for.
Loops == {ModOf(<< FunOf(<< BlockOf(a, <<2, 3>>), BlockOf(b, <<2, 3>>), Return(d) >>, <<1>>) >>, {}) :
             a \in UpTo(EdgeKinds, 1), b \in UpTo(BodyKinds, 2), d \in UpTo(BodyKinds, 1)}
\* scf.for around an scf.if with one arm.
NestedLoops == {ModOf(<< FunOf(<< BlockOf(a, <<2, 5>>), BlockOf(b, <<3, 4>>), BlockOf(c, <<4>>),
                            BlockOf(d, <<2, 5>>), Return(<<Named.readA>>) >>, <<1>>) >>, {}) :
             a \in UpTo(EdgeKinds, 1), b \in UpTo(BodyKinds, 1), c \in UpTo(BodyKinds, 1), d \in UpTo(BodyKinds, 1)}
\* A loop whose body is excused by the filter of a back end from one of its dependences.
Filtered == {[m EXCEPT !.filter = {<< <<1, 2, 1>>, <<1, 3, 1>> >>}] : m \in Branches}
\* ttg.warp_specialize in a loop: 3 is its default region, 6 a partition.
Specialized ==
    {ModOf(<< FunOf(<< BlockOf(a, <<2, 5>>), Sync(b, <<3>>), Sync(c, <<4>>), BlockOf(a, <<2, 5>>),
                       Return(b), BlockOf(c, <<>>) >>, <<1, 6>>) >>, {}) :
        a \in UpTo(EdgeKinds, 1), b \in UpTo(BodyKinds, 1), c \in UpTo(BodyKinds, 2)}
\* A function called in a loop by a function that the kernel calls.
Calls == {ModOf(<< FunOf(<< BlockOf(c, <<2, 3>>), BlockOf(b, <<2, 3>>), Return(<<>>) >>, <<1>>),
                   FunOf(<< BlockOf(a, <<2, 3>>), BlockOf(<<CallOf(1, 2)>> \o b, <<2, 3>>), Return(c) >>, <<1>>),
                   FunOf(<< Return(b \o <<CallOf(2, 0)>> \o a) >>, <<1>>) >>, {}) :
             a \in UpTo(EdgeKinds, 1), b \in UpTo(BodyKinds, 1), c \in UpTo(BodyKinds, 1)}

Straight == Branches \cup Loops \cup NestedLoops \cup Filtered
Regions == Specialized \cup Calls
StraightAndRegions == Straight \cup Regions
=============================================================================
