---------------------------- MODULE SequentialLoop ----------------------------
(***************************************************************************)
(* What a loop means, however it is scheduled: every op runs once for each *)
(* iteration, in the order of the iterations, after the ops whose results  *)
(* it uses, those of its own iteration and, through iter args, those of    *)
(* the one before; what is left of an iter arg is what the last iteration  *)
(* yielded, or its initial value.                                          *)
(***************************************************************************)
EXTENDS Integers, Sequences

CONSTANT Outside
VARIABLES loop,    \* [order, args, prev, live, ...]
          trips,   \* the number of iterations
          ran,     \* the iterations that each op has run for
          results  \* of the loop, once it is left: the iteration each is of

vars == <<loop, trips, ran, results>>
Ops == DOMAIN loop.args

Init == /\ ran = [o \in Ops |-> <<>>]
        /\ results = <<>>

Run(o) == LET i == Len(ran[o]) IN
    /\ i < trips
    /\ \A d \in loop.args[o] : Len(ran[d]) > i
    /\ \A d \in loop.prev[o] \ {Outside} : Len(ran[d]) >= i
    /\ ran' = [ran EXCEPT ![o] = Append(@, i)]
    /\ UNCHANGED <<loop, trips, results>>

Return == /\ \A o \in Ops : Len(ran[o]) = trips
          /\ results = <<>>
          /\ results' = <<[d \in loop.live |-> trips - 1]>>   \* -1: the initial value
          /\ UNCHANGED <<loop, trips, ran>>

Next == (\E o \in Ops : Run(o)) \/ Return
Spec == Init /\ [][Next]_vars
=============================================================================
