---------------------------- MODULE MCPipelinedLoop ----------------------------
(***************************************************************************)
(* The loops of the pipeliner's runs.  Ops are numbered in program order   *)
(* unless a loop says otherwise.                                           *)
(***************************************************************************)
EXTENDS PipelinedLoop

None(n) == [o \in 1 .. n |-> {}]
Body0(kinds, uses, carries, lat) ==
    LET n == Len(kinds)
    IN [order |-> [i \in 1 .. n |-> i], args |-> uses @@ None(n), prev |-> carries @@ None(n),
        kind |-> kinds, acc |-> None(n), latency |-> lat, stages |-> 0, asked |-> FALSE,
        live |-> {n}, peel |-> FALSE]
\* The same with so many stages instead of the user's latencies.
Staged(b, n) == [b EXCEPT !.latency = <<>>, !.stages = n]
Peeled(b) == [b EXCEPT !.peel = TRUE]
\* An accumulator that is dotted with what the ops of S give, and an iter arg.
Dot(n, S) == n :> S

\* Two operands, by pointers that are iter args; the accumulator is the last op.
Matmul(load, stages) ==
    Body0(<<load, load, "op", "op", "dot">>, 5 :> {1, 2},
          1 :> {3} @@ 2 :> {4} @@ 3 :> {3} @@ 4 :> {4} @@ 5 :> {5},
          1 :> stages - 1 @@ 2 :> stages - 1)
\* A load whose address is loaded.
Indirect(stages) ==
    Body0(<<"load", "load", "dot">>, 2 :> {1} @@ 3 :> {2}, 3 :> {3},
          1 :> (stages - 1) \div 2 @@ 2 :> (stages - 1) \div 2)
\* An operand that is also transformed on the way to the dot, and one with less latency.
Uneven(l1, l2) ==
    Body0(<<"load", "load", "op", "op">>, 3 :> {1} @@ 4 :> {1, 2, 3}, 4 :> {4}, 1 :> l1 @@ 2 :> l2)
\* An address that takes two ops.
Address == Body0(<<"op", "op", "load", "op">>, 2 :> {1} @@ 3 :> {2} @@ 4 :> {3}, 1 :> {1} @@ 4 :> {4}, 3 :> 2)
\* A condition's if before the load, another behind the accumulator.
WithIfs ==
    Body0(<<"op", "if", "load", "op", "if">>, 2 :> {1} @@ 3 :> {2} @@ 4 :> {3} @@ 5 :> {4},
          1 :> {1} @@ 4 :> {4} @@ 5 :> {5}, 3 :> 2)
\* TMA loads that share a barrier, and a cp.async load; the dots use them in turn.
Mixed(l1, l2, l3) ==
    Body0(<<"tma", "tma", "load", "op", "op">>, 4 :> {1, 2} @@ 5 :> {3, 4}, 4 :> {4} @@ 5 :> {5},
          1 :> l1 @@ 2 :> l2 @@ 3 :> l3)
\* An iter arg that is yielded a value from before the loop (a first-iteration flag).
Flag == Body0(<<"load", "op">>, 2 :> {1}, 2 :> {2, Outside}, 1 :> 2)
\* The address comes from the accumulator of the iteration before: refused.
Recurrence == Body0(<<"load", "op">>, 2 :> {1}, 1 :> {2} @@ 2 :> {2}, 1 :> 2)
\* Two dots, the second on what the first gives and with an accumulator that is
\* rescaled (attention), and two dots with different ways to one load.
Attention ==
    [Body0(<<"load", "load", "dot", "op", "dot">>, 3 :> {1} @@ 4 :> {3} @@ 5 :> {2, 3, 4},
           4 :> {5} @@ 5 :> {}, <<>>) EXCEPT !.acc[5] = {4}]
TwoWays == Body0(<<"load", "load", "dot", "dot">>, 2 :> {1} @@ 3 :> {2} @@ 4 :> {1}, 3 :> {3} @@ 4 :> {4}, <<>>)
\* No dot, and a load that is not worth it.
NoDot == [Body0(<<"scalar", "load", "op">>, 2 :> {1} @@ 3 :> {2}, 3 :> {3}, <<>>) EXCEPT !.asked = TRUE]
Plain == Body0(<<"op", "op">>, 2 :> {1}, 1 :> {2}, <<>>)
\* A load that the next iteration uses.
Late == Body0(<<"load", "op", "op">>, 2 :> {1} @@ 3 :> {2}, 3 :> {1, 3}, 1 :> 2)

Chosen ==
    {Matmul("load", 2), Matmul("load", 3), Matmul("tma", 3), Indirect(3), Indirect(5),
     Uneven(2, 1), Uneven(1, 2), Address, WithIfs, Mixed(2, 2, 1), Mixed(2, 1, 2),
     Flag, Recurrence, Plain, Late,
     Staged(Matmul("tma", 0), 4), Staged(Indirect(0), 2), Staged(Indirect(0), 4), Staged(Attention, 3),
     Staged(TwoWays, 3), Staged(NoDot, 3), Staged(NoDot, 1),
     Peeled(Matmul("load", 3)), Peeled(Indirect(3)), Peeled(Uneven(2, 1)), Peeled(WithIfs), Peeled(Late)}

\* All loops of three ops with a load first and an accumulator last and up to one
\* more iter arg.  Neither an if nor the next iteration uses a load directly.
Small ==
    {b \in {Body0(k, 2 :> a2 @@ 3 :> a3, [o \in 1 .. 3 |-> {d \in 1 .. 3 : <<o, d>> \in {e, <<3, 3>>}}], l) :
              k \in {"load", "tma"} \X {"load", "tma", "op", "if"} \X {"op", "if"},
              a2 \in SUBSET {1}, a3 \in {{2}, {1, 2}}, e \in (1 .. 3) \X (1 .. 3),
              l \in [1 .. 1 -> 1 .. 2] \cup [1 .. 2 -> 1 .. 2]} :
        /\ DOMAIN b.latency = {o \in 1 .. 3 : IsLoad(b, o)}
        /\ \A o, d \in 1 .. 3 : IsLoad(b, d) =>
              d \notin b.prev[o] /\ ~ (b.kind[o] = "if" /\ d \in b.args[o])}

\* The same for which only the number of stages is given.  No load is used by
\* another and also directly.
SmallStaged ==
    {Staged([b EXCEPT !.kind[3] = "dot"], n) : b \in {b \in Small : b.kind[3] = "op" /\ b.latency[1] = 1}, n \in 2 .. 4}
OneWay(b) == ~ (IsLoad(b, 2) /\ 1 \in b.args[2] \cap b.args[3])

MCLoops == Chosen \cup Small \cup {b \in SmallStaged : OneWay(b)}
MCTrips == 0 .. 4

================================================================================
