----------------------------- MODULE LoopSchedule -----------------------------
(***************************************************************************)
(* The software pipeliner's scheduler (AssignLatencies.cpp,                *)
(* ScheduleLoops.cpp and the CoarseSchedule of Schedule.h/.cpp): some      *)
(* loads of a loop body get a latency, and from the latencies every op     *)
(* gets a stage and a cluster.  The generated code runs the clusters in    *)
(* order and, in one iteration of the new loop, stage s works for the      *)
(* iteration s behind the newest.                                          *)
(***************************************************************************)
EXTENDS Integers, SequencesExt

CONSTANT Loops
\* A loop has order (its ops in program order), args[o] (the ops whose results
\* o uses), prev[o] (the ops whose results reach o as an iter arg, one iteration
\* late; Outside for an iter arg that is yielded a value from before the loop),
\* kind[o], acc[o] (for a dot, what it adds to), live (the ops whose iter arg is
\* used after the loop) and peel (whether the epilogue is peeled); either latency
\* (of the ops that the user gave one) or stages, the number of them, which may be
\* asked for this loop (asked) or by default.  "load" and "tma" (by descriptor) can
\* be copied asynchronously; a "scalar" is a load too small or of another layout.
Outside == 0

Ops(b)      == Range(b.order)
Users(b, o) == {u \in Ops(b) : o \in b.args[u]}
UsedBy(b, o) == {u \in Ops(b) : o \in b.args[u] \cup b.prev[u]}
\* The smallest set that holds S and, with an op, its successors.
Closure(succ, S) ==
    LET n == Cardinality(DOMAIN succ)
        grow[k \in 0 .. n] ==
            IF k = 0 THEN S ELSE LET T == grow[k - 1] IN T \cup UNION {succ[o] : o \in T}
    IN grow[n]

VARIABLES loop,     \* the loop at hand, lowered in the course of the pass
          pass,     \* the pass to run next
          schedule  \* [at: op -> [stage, cluster], clusters: Seq(cluster), stages: Nat]

schedVars == <<loop, pass, schedule>>

(***************************************************************************)
(* CoarseSchedule.  A cluster is a name; clusters holds them in order.     *)
(***************************************************************************)
newAtBack(s)      == [s EXCEPT !.clusters = Append(@, Len(@) + 1)]
newAtFront(s)     == [s EXCEPT !.clusters = <<Len(@) + 1>> \o @]
newBefore(s, c)   == [s EXCEPT !.clusters =
                        InsertAt(@, CHOOSE i \in DOMAIN @ : @[i] = c, Len(@) + 1)]
Newest(s)         == Len(s.clusters)
Position(s, c)    == CHOOSE i \in DOMAIN s.clusters : s.clusters[i] = c
isBefore(s, c, d) == Position(s, c) < Position(s, d)

insert(s, S, stage, cluster) ==
    [s EXCEPT !.at = [o \in S |-> [stage |-> stage, cluster |-> cluster]] @@ @,
              !.stages = IF S = {} THEN @ ELSE Max({@, stage + 1})]
insertIfAbsent(s, S, stage, cluster) == insert(s, S \ DOMAIN s.at, stage, cluster)

\* What insertMinimum would move.
Later(s, o, stage, cluster) ==
    \/ o \notin DOMAIN s.at
    \/ stage < s.at[o].stage
    \/ stage = s.at[o].stage /\ isBefore(s, cluster, s.at[o].cluster)

\* Mutant: only what o itself uses is moved.
insertDepsOfOpFlat(b, s, o, stage, cluster, includeArg) ==
    insert(s, {d \in b.args[o] : Later(s, d, stage, cluster)}, stage, cluster)

\* insertDepsOfOp: what o needs is no later than o; an op that moves takes what
\* it needs along, one that stays put does not.
insertDepsOfOp(b, s, o, stage, cluster, includeArg) ==
    LET needs(u) == b.args[u] \cup (IF includeArg THEN b.prev[u] \ {Outside} ELSE {})
        moved == Closure([u \in Ops(b) |-> {d \in needs(u) : Later(s, d, stage, cluster)}], {o})
    IN insert(s, moved \ {o}, stage, cluster)

\* The ops in the order of the generated code.
getOpsInOrder(b, s) ==
    FlattenSeq([i \in DOMAIN s.clusters |->
        SelectSeq(b.order, LAMBDA o : o \in DOMAIN s.at /\ s.at[o].cluster = s.clusters[i])])

\* The ops of a stage at a time; places are those from before the pass.
scheduleDependencies(b, s) ==
    LET inOrder == getOpsInOrder(b, s)
        todo == FlattenSeq([i \in 1 .. s.stages |->
                    SelectSeq(inOrder, LAMBDA o : s.at[o].stage = i - 1)])
    IN FoldLeft(LAMBDA t, o : insertDepsOfOp(b, t, o, s.at[o].stage, s.at[o].cluster, FALSE), s, todo)

(***************************************************************************)
(* AssignLatencies.                                                        *)
(***************************************************************************)
IsLoad(b, o) == b.kind[o] \in {"load", "tma", "scalar"}

\* One visit of the depth-first search from a dot to the loads it needs: level is
\* the number of loads on the way.  Operands are visited up or down the program.
visit(b, up, t) ==
    LET o == Head(t.stack)[1]
        distance == Head(t.stack)[2]
        operands == SetToSortSeq(b.args[o] \ b.acc[o], LAMBDA x, y : up = (x < y))
        push(d) == [k \in DOMAIN operands |-> <<operands[k], d>>] \o Tail(t.stack)
        done == [t EXCEPT !.stack = Tail(@), !.seen = @ \cup {o}]
    IN CASE o \in t.seen \cup t.excluded \/ b.kind[o] = "scalar" -> done
         [] ~ IsLoad(b, o) -> [done EXCEPT !.stack = push(distance)]
         [] o \in DOMAIN t.level /\ t.level[o] # distance ->
              [done EXCEPT !.level = Restrict(@, DOMAIN @ \ {o}), !.excluded = @ \cup {o}]
         [] OTHER -> [done EXCEPT !.level = (o :> distance) @@ @, !.stack = push(distance + 1)]
search(b, up, t, o) ==
    FoldLeft(LAMBDA u, k : IF u.stack = <<>> THEN u ELSE visit(b, up, u),
             [t EXCEPT !.stack = << <<o, 0>> >>], [k \in 1 .. Len(b.order) * Len(b.order) |-> k])

\* Without a dot, and only if asked for this loop, from all ops but loads.
loadOpsToIndirectionLevel(b, up) ==
    LET dots == SelectSeq(b.order, LAMBDA o : b.kind[o] = "dot")
        others == SelectSeq(b.order, LAMBDA o : ~ IsLoad(b, o))
        none == [stack |-> <<>>, seen |-> {}, excluded |-> {}, level |-> <<>>]
    IN IF dots # <<>> THEN FoldLeft(LAMBDA t, o : search(b, up, [t EXCEPT !.seen = {}], o), none, dots).level
       ELSE IF b.asked THEN FoldLeft(LAMBDA t, o : search(b, up, t, o), none, others).level
       ELSE <<>>

\* Mutant: every load gets all the stages.
loadLatencyWhole(b, levels) == b.stages - 1
\* The loads on a way to a dot share the stages.
loadLatency(b, levels) == (b.stages - 1) \div (Max({0} \cup levels) + 1)
loadLatencies(b, up) ==
    LET level == loadOpsToIndirectionLevel(b, up)
        pipelined == {l \in DOMAIN level : level[l] < b.stages - 1}
    IN [l \in pipelined |-> loadLatency(b, {level[m] : m \in pipelined})]

(***************************************************************************)
(* The passes of scheduleLoop.                                             *)
(***************************************************************************)
LatencyOps(b) == DOMAIN b.latency
Reached(b)    == Closure([o \in Ops(b) |-> Users(b, o)], LatencyOps(b))
Ifs(b)        == {o \in Ops(b) : b.kind[o] = "if"}

\* The longest way, in latencies, to the end of the body.
Distance(b) ==
    LET far[o \in Ops(b)] ==
            (IF o \in LatencyOps(b) THEN b.latency[o] ELSE 0) + Max({0} \cup {far[u] : u \in Users(b, o)})
    IN far

keyOps(b) ==
    LET far   == Distance(b)
        most  == Max({far[o] : o \in Reached(b)})
        stage == [o \in Reached(b) |-> most - far[o]]
        top   == Max(Range(stage))
        \* the later a stage, the earlier its cluster; the last cluster is for ifs
        place == [o \in Reached(b) |->
                    [stage |-> stage[o],
                     cluster |-> IF /\ o \in Ifs(b) \ LatencyOps(b)
                                    /\ Closure([u \in Ops(b) |-> Users(b, u)], {o}) \cap Reached(b) = {o}
                                 THEN top + 2 ELSE top - stage[o] + 1]]
    IN [at |-> place, clusters |-> [i \in 1 .. top + 2 |-> i], stages |-> top + 1]

\* Ifs that a scheduled op needs run first, the other ifs last.
prologueAndEpilogue(b, s) ==
    LET before(o) == Closure([u \in Ops(b) |-> b.args[u]], {o}) \ {o}
        stageOf(f) == Min({s.at[o].stage : o \in {u \in DOMAIN s.at : f \in before(u)}})
        first == {f \in Ifs(b) : \E o \in DOMAIN s.at : f \in before(o)}
        front == newAtFront(s)
        s1 == IF first = {} THEN s
              ELSE FoldLeft(LAMBDA t, f : insertIfAbsent(t, {f}, stageOf(f), Newest(front)),
                            front, SetToSeq(first))
        s2 == newAtBack(s1)
    IN insertIfAbsent(s2, Ifs(b) \ first, s.stages - 1, Newest(s2))

\* An op that feeds an op of the next iteration may be a stage later than it.
distanceOne(b, s) ==
    LET one(t, d, here) ==
            IF d \in DOMAIN t.s.at THEN t
            ELSE IF b.kind[d] \in {"load", "scalar"}
            THEN [t EXCEPT !.s = insertDepsOfOp(b, insertIfAbsent(@, {d}, here.stage, here.cluster),
                                                d, here.stage, here.cluster, TRUE)]
            ELSE LET fresh == here.cluster \notin DOMAIN t.before
                     s1 == IF fresh THEN newBefore(t.s, here.cluster) ELSE t.s
                     c  == IF fresh THEN Newest(s1) ELSE t.before[here.cluster]
                 IN [s |-> insertDepsOfOp(b, insertIfAbsent(s1, {d}, here.stage + 1, c),
                                          d, here.stage + 1, c, TRUE),
                     before |-> (here.cluster :> c) @@ t.before]
        op(t, o) ==
            IF o \notin DOMAIN t.s.at THEN t
            ELSE IF t.s.at[o].stage = s.stages - 1 THEN t
            ELSE LET here == t.s.at[o]
                 IN FoldLeft(LAMBDA r, d : one(r, d, here), t,
                             SelectSeq(b.order, LAMBDA d : d \in b.prev[o]))
    IN FoldLeft(op, [s |-> s, before |-> <<>>], b.order).s

\* The rest goes to the last stage, behind what it needs there; afterPrologue is
\* the cluster that was first before a prologue cluster was put in front.
remainingToLastStage(b, s, afterPrologue) ==
    LET rest == Ops(b) \ DOMAIN s.at
        last == s.stages - 1
        feeds(o) == {p \in DOMAIN s.at :
                        /\ s.at[p].stage = last
                        /\ o \in Closure([u \in Ops(b) |-> Users(b, u) \cap rest], {p})}
        behind(o) == Max({Position(s, afterPrologue)} \cup {Position(s, s.at[p].cluster) : p \in feeds(o)})
    IN [s EXCEPT !.at = [o \in rest |-> [stage |-> last, cluster |-> s.clusters[behind(o)]]] @@ @]

(***************************************************************************)
(* The order and stages that are handed to the expander, and its check.    *)
(***************************************************************************)
StageOf(s) == [o \in DOMAIN s.at |-> s.at[o].stage]

\* When an op runs, in iterations of the new loop.
Cycle(order, stage, o) == stage[o] * Len(order) + (CHOOSE i \in DOMAIN order : order[i] = o)
verifySchedule(b, order, stage) ==
    \A o \in Ops(b) :
       /\ \A d \in b.args[o] : Cycle(order, stage, d) <= Cycle(order, stage, o)
       /\ \A d \in b.prev[o] \ {Outside} :
             Cycle(order, stage, d) - Len(order) <= Cycle(order, stage, o)

(***************************************************************************)
(* One action per pass.                                                    *)
(***************************************************************************)
Init == /\ loop \in Loops
        /\ pass = "latencies"
        /\ schedule = [at |-> <<>>, clusters |-> <<>>, stages |-> 0]

Run(from, to, s) == pass = from /\ pass' = to /\ schedule' = s /\ UNCHANGED loop

AssignLatencies ==
    /\ pass = "latencies" /\ loop.latency = <<>> /\ loop.stages > 1
    /\ \E up \in BOOLEAN : loop' = [loop EXCEPT !.latency = loadLatencies(loop, up)]
    /\ pass' = "keyOps"
    /\ UNCHANGED schedule
UserLatencies == (loop.latency # <<>> \/ loop.stages <= 1) /\ Run("latencies", "keyOps", schedule)
\* Without latencies there is nothing to schedule.
KeyOps == LatencyOps(loop) # {} /\ Run("keyOps", "ifs", keyOps(loop))
NoLatencies == LatencyOps(loop) = {} /\ Run("keyOps", "unscheduled", schedule)
PrologueAndEpilogue == Run("ifs", "dependencies", prologueAndEpilogue(loop, schedule))
Dependencies == Run("dependencies", "distanceOne", scheduleDependencies(loop, schedule))
DistanceOne == Run("distanceOne", "remaining", distanceOne(loop, schedule))
\* Cluster 1 is the first of keyOps.
Remaining == Run("remaining", "scheduled", remainingToLastStage(loop, schedule, 1))

Scheduling == \/ AssignLatencies \/ UserLatencies \/ KeyOps \/ NoLatencies \/ PrologueAndEpilogue
              \/ Dependencies \/ DistanceOne \/ Remaining

(***************************************************************************)
(* Properties                                                              *)
(***************************************************************************)
\* Every op has a stage and a cluster when the scheduler is through, and in an
\* iteration no op is put before one whose result it uses (the expander could
\* only give the loop up): whatever moved an op moved what it needs.
DefsBeforeUses ==
    pass = "scheduled" =>
       /\ DOMAIN schedule.at = Ops(loop)
       /\ \A o \in Ops(loop) : schedule.at[o].stage \in 0 .. schedule.stages - 1
       /\ LET order == getOpsInOrder(loop, schedule)
          IN \A o \in Ops(loop) : \A d \in loop.args[o] :
                Cycle(order, StageOf(schedule), d) <= Cycle(order, StageOf(schedule), o)

\* The latencies "cover all the stages with the sum of latencies in the chain from
\* the first load to the final dot op", and no more: the loop has no more stages,
\* and its loads no more buffers, than were asked for.
StagesAsAsked == pass = "scheduled" /\ loop.stages > 1 => schedule.stages <= loop.stages
=============================================================================
