------------------------------ MODULE ForkJoin ------------------------------
(***************************************************************************)
(* What warp specialization promises: each execution of an op forks the    *)
(* CTA, every warp gets its region (and the captures of this execution)    *)
(* once and for all, and the op is left when all of them are through.      *)
(***************************************************************************)
EXTENDS Naturals, Sequences

CONSTANTS Default, Worker,
          Programs,   \* the sequences of op executions
          PartOf,     \* PartOf[o][w]: the partition of worker w in op o, 0 if none
          WithCaps    \* the ops that have captures

VARIABLES prog,   \* the executions of this run
          at,     \* how many have started
          stage,  \* "seq": default warps alone, "forked", or "exited"
          task,   \* while forked, what each worker has to run
          done    \* while forked, the warps that are through

vars == <<prog, at, stage, task, done>>

None == <<>>
Task(n, w) == LET o == prog[n] IN
    IF PartOf[o][w] = 0 THEN None
    ELSE <<o, PartOf[o][w], IF o \in WithCaps THEN n ELSE 0>>
Busy == Default \cup {w \in Worker : task[w] # None}

Init == /\ prog \in Programs
        /\ at = 0 /\ stage = "seq"
        /\ task = [w \in Worker |-> None] /\ done = {}

Fork == /\ stage = "seq" /\ at < Len(prog)
        /\ at' = at + 1 /\ stage' = "forked"
        /\ task' = [w \in Worker |-> Task(at + 1, w)]
        /\ done' = {}
        /\ UNCHANGED prog

Finish == /\ stage = "forked"
          /\ \E W \in SUBSET (Busy \ done) : done' = done \cup W
          /\ UNCHANGED <<prog, at, stage, task>>

Join == /\ stage = "forked" /\ done = Busy
        /\ stage' = "seq"
        /\ task' = [w \in Worker |-> None] /\ done' = {}
        /\ UNCHANGED <<prog, at>>

Return == /\ stage = "seq" /\ at = Len(prog)
          /\ stage' = "exited"
          /\ UNCHANGED <<prog, at, task, done>>

Next == Fork \/ Finish \/ Join \/ Return
Spec == Init /\ [][Next]_vars
=============================================================================
