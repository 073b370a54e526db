----------------------------- MODULE PipelinedLoop -----------------------------
(***************************************************************************)
(* A loop on its way through the software pipeliner and then at run time:  *)
(* scheduled (LoopSchedule), its loads made asynchronous and multiply      *)
(* buffered (lowerLoads), expanded into prologue, kernel and epilogue      *)
(* (PipelineExpander.cpp), and run while the copies land when they like.   *)
(*                                                                         *)
(* Values are terms: <<o, i>> is what op o computes in iteration i, and    *)
(* <<o, -1>> the initial value of the iter arg that o yields.  An op makes *)
(* its term only from the operands it has in the original loop.            *)
(***************************************************************************)
EXTENDS LoopSchedule

CONSTANT Trips

VARIABLES trips,    \* the trip count of this run
          code,     \* what the expander is given, <<>> before that
          part,     \* "compiling", "prologue", "kernel", "epilogue", "returned"
          turn,     \* the part of the prologue or epilogue, the kernel's iteration
          todo,     \* the ops of this part or iteration that are still to run
          env,      \* the values at hand
          mem,      \* the buffers: load -> slot -> value
          flight,   \* the committed cp.async groups, oldest first
          tma,      \* the TMA copies under way
          barrier,  \* of a group of TMA loads, by slot: [owed, done]
          ran,      \* of each op of the loop, the iterations it ran for
          results   \* of the loop

runVars == <<part, turn, todo, env, mem, flight, tma, barrier, ran, results>>
vars == <<schedVars, trips, code, runVars>>

\* The iter args, each named for the op that yields it.
Args(b) == b.live \cup UNION Range(b.prev)

(***************************************************************************)
(* lowerLoads                                                              *)
(***************************************************************************)
\* Ops that the lowering makes.  A load's own name goes to its copy.
Local(l)   == 100 + l   \* wait (cp.async) and local_load
Insert(n)  == 200 + n   \* the counters of the loads with n buffers
Extract(n) == 300 + n   \* this one with the phase
Expect(l)  == 400 + l   \* of the group of TMA loads that l leads
Wait(l)    == 500 + l

Cycles(b, s, o) == Cycle(getOpsInOrder(b, s), StageOf(s), o)
getDefUseStageDiff(b, s, l) ==
    IF UsedBy(b, l) = {} THEN 0
    ELSE Min({s.at[u].stage : u \in UsedBy(b, l)}) - s.at[l].stage
getFirstUse(b, s, L) ==
    LET users == UNION {UsedBy(b, l) : l \in L}
    IN CHOOSE u \in users : \A v \in users : Cycles(b, s, u) <= Cycles(b, s, v)

AsyncLoads(b, s) ==
    {l \in Ops(b) : ~ b.peel /\ b.kind[l] \in {"load", "tma"} /\ getDefUseStageDiff(b, s, l) # 0}

\* The groups of TMA loads that share a barrier: a load and those behind it with
\* its place and buffers, up to the first use of one of them.
WaitGroups(b, s) ==
    LET tmas == {l \in AsyncLoads(b, s) : b.kind[l] = "tma"}
        diff(l) == getDefUseStageDiff(b, s, l)
        add(g, o) ==
            IF \/ ~ g.open \/ o \in g.visited \/ b.args[o] \cap g.loads # {}
               \/ o \in tmas /\ diff(o) # diff(g.lead)
            THEN [g EXCEPT !.open = FALSE]
            ELSE IF o \in tmas /\ s.at[o] = s.at[g.lead] THEN [g EXCEPT !.loads = @ \cup {o}] ELSE g
        group(i, visited) ==
            FoldLeft(add, [lead |-> b.order[i], loads |-> {b.order[i]}, visited |-> visited, open |-> TRUE],
                     SubSeq(b.order, i + 1, Len(b.order)))
        groups[i \in 0 .. Len(b.order)] ==
            IF i = 0 THEN <<>>
            ELSE LET before == groups[i - 1]
                     visited == UNION Range(before)
                 IN IF b.order[i] \in tmas \ visited
                    THEN before @@ (b.order[i] :> group(i, visited).loads) ELSE before
    IN groups[Len(b.order)]

lowerLoads(b, s) ==
    LET loads == AsyncLoads(b, s)
        tmas  == {l \in loads : b.kind[l] = "tma"}
        groups == WaitGroups(b, s)
        leads == DOMAIN groups
        lead  == [l \in tmas |-> CHOOSE f \in leads : l \in groups[f]]
        bufs  == [l \in loads |-> getDefUseStageDiff(b, s, l)]
        counts == Range(bufs)
        counters == {Insert(n) : n \in counts} \cup {Extract(n) : n \in counts}
        value(d) == IF d \in loads THEN Local(d) ELSE d
        values(D) == {value(d) : d \in D}
        members(f) == SelectSeq(b.order, LAMBDA o : o \in groups[f])
        lowered(o) ==
            IF o \notin loads THEN <<o>>
            ELSE IF o \notin tmas THEN <<o, Local(o)>>
            ELSE (IF lead[o] = o THEN <<Expect(o)>> ELSE <<>>) \o <<o>>
              \o (IF o = Last(members(lead[o]))
                  THEN <<Wait(lead[o])>> \o [i \in DOMAIN members(lead[o]) |-> Local(Reverse(members(lead[o]))[i])]
                  ELSE <<>>)
        over(f, g) == g @@ f
        args == over([o \in Ops(b) |-> values(b.args[o]) \cup (IF o \in loads THEN {Insert(bufs[o])} ELSE {})],
                     [l \in {Local(l) : l \in loads} |->
                        {Extract(bufs[l - 100])} \cup (IF l - 100 \in tmas THEN {} ELSE {l - 100})]
                  @@ [e \in {Expect(f) : f \in leads} |-> {Insert(bufs[e - 400])}]
                  @@ [w \in {Wait(f) : f \in leads} |-> {Extract(bufs[w - 500])}]
                  @@ [c \in counters |-> {}])
        kind == over(b.kind,
                     [l \in loads |-> IF l \in tmas THEN "tma copy" ELSE "copy"]
                  @@ [l \in {Local(l) : l \in loads} |-> "local"]
                  @@ [e \in {Expect(f) : f \in leads} |-> "expect"]
                  @@ [w \in {Wait(f) : f \in leads} |-> "wait"]
                  @@ [c \in counters |-> "counter"])
        body == [order |-> SetToSeq(counters) \o FlattenSeq([i \in DOMAIN b.order |-> lowered(b.order[i])]),
                 args |-> args, kind |-> kind,
                 prev |-> [o \in DOMAIN args |->
                             IF o \in counters THEN {o} ELSE IF o \in Ops(b) THEN values(b.prev[o]) ELSE {}],
                 live |-> values(b.live), bufs |-> bufs, groups |-> groups]
        place == [l \in {Local(l) : l \in loads} |-> s.at[getFirstUse(b, s, {l - 100})]]
              @@ [e \in {Expect(f) : f \in leads} |-> s.at[e - 400]]
              @@ [w \in {Wait(f) : f \in leads} |-> s.at[getFirstUse(b, s, groups[w - 500])]]
    IN [body |-> body, schedule |-> scheduleDependencies(body, [s EXCEPT !.at = place @@ @])]

(***************************************************************************)
(* What the expander works from.                                           *)
(***************************************************************************)
Commits(c, S) == Cardinality({i \in S : c.body.kind[c.order[i]] = "copy"})
Place(c, o)   == CHOOSE i \in DOMAIN c.order : c.order[i] = o

\* How old a result (an iter arg) gets, in kernel iterations, until its last use.
\* An iter arg is as old as the op that yields it, and one use late for free.
resAge(c, d) == Max({0} \cup {c.stage[u] - c.stage[d] : u \in {u \in Ops(c.body) : d \in c.body.args[u]}})
argAge(c, d) == Max({0} \cup {c.stage[u] - c.stage[d] : u \in {u \in Ops(c.body) : d \in c.body.prev[u]}})

\* minNumInterleavedCommitOps, of the wait for load l in the kernel: over the
\* ways its token can have come, out of part p of the prologue or from the body,
\* the fewest commits behind the token's own.
minCommits(c, l) ==
    LET n     == Len(c.order)
        age   == c.stage[Local(l)] - c.stage[l]
        ahead == Commits(c, 1 .. Place(c, Local(l)) - 1)
        rest  == Commits(c, Place(c, l) + 1 .. n)
        inPart(p, S) == Cardinality({i \in S : c.body.kind[c.order[i]] = "copy" /\ c.stage[c.order[i]] <= p})
        prologue(p) == inPart(p, Place(c, l) + 1 .. n)
                     + FoldLeft(+, 0, [i \in 1 .. c.top - 1 - p |-> inPart(p + i, 1 .. n)])
    IN IF age = 0 THEN Commits(c, Place(c, l) + 1 .. Place(c, Local(l)) - 1)
       ELSE Min({ahead + (age - 1) * Commits(c, 1 .. n) + rest}
             \cup {ahead + (age - a) * Commits(c, 1 .. n) + prologue(c.top - a) : a \in 1 .. age})
\* Mutant: of two waits in a row the weaker one is kept.
waitNumberWeakest(c, l) ==
    LET together(k) == Commits(c, Min({Place(c, Local(l)), Place(c, Local(k))})
                                .. Max({Place(c, Local(l)), Place(c, Local(k))})) = 0
    IN Max({minCommits(c, k) : k \in {k \in DOMAIN c.body.bufs : c.body.kind[k] = "copy" /\ together(k)}})

\* combineRedundantWaitOps: waits without a commit between them become one.
waitNumber(c, l) ==
    LET together(k) == Commits(c, Min({Place(c, Local(l)), Place(c, Local(k))})
                                .. Max({Place(c, Local(l)), Place(c, Local(k))})) = 0
    IN Min({minCommits(c, k) : k \in {k \in DOMAIN c.body.bufs : c.body.kind[k] = "copy" /\ together(k)}})

\* A schedule that the expander refuses leaves the lowered loop as it stands.
Code(b, s) ==
    LET order == getOpsInOrder(b, s)
        ok    == s.at # <<>> /\ verifySchedule(b, order, StageOf(s))
        c     == [body |-> b, order |-> IF ok THEN order ELSE b.order,
                  stage |-> IF ok THEN StageOf(s) ELSE [o \in Ops(b) |-> 0],
                  top |-> IF ok THEN Max(Range(StageOf(s))) ELSE 0]
    IN [body |-> b, order |-> c.order, stage |-> c.stage, top |-> c.top,
        resAge |-> [d \in Ops(b) |-> resAge(c, d)],
        argAge |-> [d \in Args(b) \ {Outside} |-> argAge(c, d)],
        waits |-> [l \in {l \in DOMAIN b.bufs : b.kind[l] = "copy"} |-> waitNumber(c, l)]]

(***************************************************************************)
(* Running the expanded loop.                                              *)
(***************************************************************************)
Junk == <<-1, -1>>
Initial(d) == <<d, -1>>
Body == code.body
Carried == Args(Body)

\* The op at hand, its stage, and the iteration of the loop that it stands for:
\* versions of values are numbered by it in the prologue, and from what the
\* kernel leaves in the epilogue.
op == Head(todo)
stage == code.stage[op]
firstEpilogue == Max({0, trips - code.top})
version == IF part = "prologue" THEN turn - stage ELSE code.top - stage + turn
iteration ==
    CASE part = "prologue" -> version
      [] part = "kernel"   -> turn + code.top - stage
      [] part = "epilogue" -> firstEpilogue + version - 1

\* Mutant predicateForStageOneMore: one iteration too many.
\* emitPrologue and emitEpilogue predicate for loops whose trip count is not
\* known; the kernel predicates every stage but the last, or none if the
\* epilogue is peeled (emitPredicateForStage).
predicateForStageOneMore(s) == loop.peel \/ s = code.top \/ turn <= trips - (code.top - s)
predicateForStage(s) == loop.peel \/ s = code.top \/ turn < trips - (code.top - s)
predicate ==
    CASE part = "prologue" -> version < trips
      [] part = "kernel"   -> predicateForStage(stage)
      [] part = "epilogue" -> trips >= version
kernelTrips == IF loop.peel THEN Max({0, trips - code.top}) ELSE trips

\* What an operand is remapped to.
result(d) ==
    IF part # "kernel" THEN env.res[d][version]
    ELSE IF code.stage[d] = stage THEN env.now[d] ELSE env.res[d][stage - code.stage[d]]
iterArg(d) ==
    IF part # "kernel" THEN env.arg[d][version]
    ELSE IF d = Outside THEN IF stage # code.top THEN <<Outside, 0>> ELSE env.carry[d]
    ELSE IF code.stage[d] = stage THEN env.carry[d]
    ELSE IF code.stage[d] = stage + 1 THEN env.now[d]
    ELSE env.arg[d][stage - code.stage[d]]

\* What the operand is in the original loop.
Sequential(d) ==
    IF iteration = 0 THEN Initial(d) ELSE IF d = Outside THEN <<Outside, 0>> ELSE <<d, iteration - 1>>
OperandsRight == /\ \A d \in Body.args[op] : result(d) = <<d, iteration>>
                 /\ \A d \in Body.prev[op] : iterArg(d) = Sequential(d)

\* Mutant phaseFixed: the phase is not toggled.
\* The buffer: counters are modulo the number of buffers, their phase flips when
\* the extracting one wraps.
kind == Body.kind[op]
loadOf == IF kind = "local" THEN op - 100 ELSE op
leadOf == IF kind = "wait" THEN op - 500 ELSE IF kind = "expect" THEN op - 400
          ELSE CHOOSE f \in DOMAIN Body.groups : loadOf \in Body.groups[f]
buffers == Body.bufs[IF kind \in {"wait", "expect"} THEN leadOf ELSE loadOf]
counter == result(IF kind \in {"local", "wait"} THEN Extract(buffers) ELSE Insert(buffers))[2]
slot == counter % buffers
phaseFixed == 0
phase == (counter \div buffers) % 2
OwnCopy == mem[loadOf][slot] = <<loadOf, iteration>>

\* predicateOp masks what has effects; counters and local loads run in any case.
Pure == kind \in {"counter", "local"}
output == IF (predicate \/ Pure) /\ OperandsRight /\ (kind = "local" => OwnCopy)
          THEN <<op, iteration>> ELSE Junk

\* wait_group n lets the n newest groups be; in the prologue n is what was
\* committed behind the load's own group.  A barrier is waited for by its phase.
waitedFor(i) ==
    IF part = "kernel" THEN i <= Len(flight) - code.waits[loadOf]
    ELSE \E k \in i .. Len(flight) : flight[k].load = loadOf /\ flight[k].iteration = iteration
Ready == /\ kind = "local" /\ Body.kind[loadOf] = "copy" =>
               \A i \in DOMAIN flight : waitedFor(i) => flight[i].landed
         /\ kind = "wait" /\ predicate => barrier[leadOf][slot].done % 2 # phase

(***************************************************************************)
(* The steps of a part, and from part to part.                             *)
(***************************************************************************)
start(p, t, ops) ==
    /\ part' = p /\ turn' = t
    /\ todo' = SelectSeq(code.order, LAMBDA o : o \in ops)
startKernel(t) == start("kernel", t, IF t < kernelTrips THEN Ops(Body) ELSE {})
startPrologue(t) == start("prologue", t, {o \in Ops(Body) : code.stage[o] <= t})
startEpilogue(t) == start("epilogue", t, {o \in Ops(Body) : code.stage[o] >= t})

\* In the prologue a live iter arg keeps its last value once the trips are over.
bind ==
    IF part = "kernel" THEN [env EXCEPT !.now[op] = output]
    ELSE LET kept == IF part = "prologue" /\ op \in Body.live /\ ~ predicate
                     THEN env.arg[op][version] ELSE output
             bound == [env EXCEPT !.res[op][version] = output]
         IN IF op \in Carried /\ version < code.top
            THEN [bound EXCEPT !.arg[op][version + 1] = kept] ELSE bound

copies ==
    CASE kind = "copy" ->
           /\ flight' = Append(flight, [load |-> op, slot |-> slot, value |-> output,
                                        iteration |-> iteration, landed |-> FALSE])
           /\ UNCHANGED <<tma, barrier>>
      [] kind = "tma copy" /\ predicate ->
           /\ tma' = tma \cup {[load |-> op, slot |-> slot, value |-> output]}
           /\ UNCHANGED <<flight, barrier>>
      [] kind = "expect" /\ predicate ->
           /\ barrier' = [barrier EXCEPT ![op - 400][slot].owed = @ + Cardinality(Body.groups[op - 400])]
           /\ UNCHANGED <<flight, tma>>
      [] OTHER -> UNCHANGED <<flight, tma, barrier>>

\* An op counts as run when its result is there: a pipelined load's at its
\* local load.
original == IF kind = "local" THEN loadOf ELSE op
log == IF /\ predicate
          /\ original \in DOMAIN ran
          /\ kind \notin {"copy", "tma copy"}
       THEN [ran EXCEPT ![original] = Append(@, IF output = Junk THEN -1 ELSE iteration)]
       ELSE ran

RunOp == /\ todo # <<>> /\ Ready
         /\ todo' = Tail(todo)
         /\ env' = bind
         /\ copies
         /\ ran' = log
         /\ UNCHANGED <<schedVars, trips, code, part, turn, mem, results>>

NextPrologue ==
    /\ part = "prologue" /\ todo = <<>> /\ turn + 1 < code.top
    /\ startPrologue(turn + 1)
    /\ UNCHANGED <<schedVars, trips, code, env, mem, flight, tma, barrier, ran, results>>

\* createKernelLoop: what the prologue leaves, by age.
EnterKernel ==
    LET behind(d, age) == code.top - code.stage[d] - age
        byAge(d, of, oldest) == [a \in 0 .. code.top |-> IF a \in 1 .. oldest THEN of[behind(d, a)] ELSE Junk]
    IN /\ part = "prologue" /\ todo = <<>> /\ turn + 1 >= code.top
       /\ startKernel(0)
       /\ env' = [env EXCEPT
            !.carry = [d \in Carried |-> IF d = Outside THEN Initial(d) ELSE env.arg[d][behind(d, 0)]],
            !.res = [d \in Ops(Body) |-> byAge(d, env.res[d], code.resAge[d])],
            !.arg = [d \in Carried |-> IF d = Outside THEN env.arg[d]
                                       ELSE byAge(d, env.arg[d], code.argAge[d])]]
       /\ UNCHANGED <<schedVars, trips, code, mem, flight, tma, barrier, ran, results>>

\* createKernel's yield: a value that is used after the loop is held once its
\* stage is predicated off.
Yield ==
    LET older(of, newest, oldest) ==
            [a \in 0 .. code.top |-> IF a = 1 /\ oldest > 0 THEN newest
                                     ELSE IF a \in 2 .. oldest THEN of[a - 1] ELSE Junk]
        held(d) == /\ ~ loop.peel /\ d \in Body.live
                   /\ code.stage[d] < code.top /\ ~ predicateForStage(code.stage[d])
    IN /\ part = "kernel" /\ todo = <<>> /\ turn < kernelTrips
       /\ startKernel(turn + 1)
       /\ env' = [env EXCEPT
            !.carry = [d \in Carried |-> IF d = Outside THEN <<Outside, 0>>
                                         ELSE IF held(d) THEN env.carry[d] ELSE env.now[d]],
            !.res = [d \in Ops(Body) |-> older(env.res[d], env.now[d], code.resAge[d])],
            !.arg = [d \in Carried |-> IF d = Outside THEN env.arg[d]
                                       ELSE older(env.arg[d], env.carry[d], code.argAge[d])]]
       /\ UNCHANGED <<schedVars, trips, code, mem, flight, tma, barrier, ran, results>>

\* createKernel's value mapping for the epilogue, by version.
EnterEpilogue ==
    LET age(d, v) == code.top - code.stage[d] - v + 1
        kernels(d, of, oldest, v) == IF age(d, v) \in 1 .. oldest THEN of[age(d, v)] ELSE Junk
        arg(d, v) == IF d = Outside THEN <<Outside, 0>>
                     ELSE IF age(d, v) = 0 /\ code.stage[d] > 0 THEN env.carry[d]
                     ELSE kernels(d, env.arg[d], code.argAge[d], v)
    IN /\ part = "kernel" /\ turn = kernelTrips /\ loop.peel /\ code.top > 0
       /\ startEpilogue(1)
       /\ env' = [env EXCEPT
            !.res = [d \in Ops(Body) |-> [v \in 0 .. code.top |-> kernels(d, env.res[d], code.resAge[d], v)]],
            !.arg = [d \in Carried |-> [v \in 0 .. code.top |-> arg(d, v)]]]
       /\ UNCHANGED <<schedVars, trips, code, mem, flight, tma, barrier, ran, results>>

return(values) ==
    /\ part' = "returned"
    /\ results' = <<[d \in loop.live |->
                      LET v == values[IF d \in Body.live THEN d ELSE Local(d)]
                      IN IF v = Junk THEN -2 ELSE v[2]]>>

\* Without a peeled epilogue the kernel's results are the loop's.
Return == /\ part = "kernel" /\ turn = kernelTrips
          /\ ~ loop.peel \/ code.top = 0
          /\ return(env.carry)
          /\ UNCHANGED <<schedVars, trips, code, turn, todo, env, mem, flight, tma, barrier, ran>>

\* The end of a part of the epilogue: what was not to run leaves the iter args
\* and the results as they were.
EpilogueSelect ==
    LET here == {d \in Carried \ {Outside} : code.stage[d] >= turn}
        at(d) == code.top - code.stage[d] + turn
        select == [d \in here |-> IF trips >= at(d) THEN env.res[d][at(d)] ELSE env.arg[d][at(d)]]
    IN /\ part = "epilogue" /\ todo = <<>>
       /\ env' = [env EXCEPT
            !.carry = select @@ @,
            !.arg = [d \in Carried |-> IF d \in here /\ at(d) < code.top
                                       THEN [@[d] EXCEPT ![at(d) + 1] = select[d]] ELSE @[d]]]
       /\ IF turn < code.top THEN startEpilogue(turn + 1) /\ UNCHANGED results
          ELSE return(env'.carry) /\ UNCHANGED <<turn, todo>>
       /\ UNCHANGED <<schedVars, trips, code, mem, flight, tma, barrier, ran>>

(***************************************************************************)
(* The copies: each lands when it likes; a barrier's phase is done when    *)
(* the bytes it expects are there.                                         *)
(***************************************************************************)
LandGroup == \E i \in DOMAIN flight :
    LET f == flight[i]
        landed == [flight EXCEPT ![i].landed = TRUE]
        open == {j \in DOMAIN landed : ~ landed[j].landed}
    IN /\ ~ f.landed
       /\ mem' = [mem EXCEPT ![f.load][f.slot] = f.value]
       /\ flight' = IF open = {} THEN <<>> ELSE SubSeq(landed, Min(open), Len(landed))
       /\ UNCHANGED <<schedVars, trips, code, part, turn, todo, env, tma, barrier, ran, results>>

LandTMA == \E t \in tma :
    LET lead == CHOOSE f \in DOMAIN Body.groups : t.load \in Body.groups[f]
        left == barrier[lead][t.slot].owed - 1
    IN /\ mem' = [mem EXCEPT ![t.load][t.slot] = t.value]
       /\ tma' = tma \ {t}
       /\ barrier' = [barrier EXCEPT ![lead][t.slot] =
                        [owed |-> left, done |-> IF left = 0 THEN @.done + 1 ELSE @.done]]
       /\ UNCHANGED <<schedVars, trips, code, part, turn, todo, env, flight, ran, results>>

(***************************************************************************)
(* The specification                                                       *)
(***************************************************************************)
\* lowerLoops, of the loops that have a schedule.
Lower ==
    /\ pass = "scheduled" /\ pass' = "lowered"
    /\ code' = lowerLoads(loop, schedule)
    /\ UNCHANGED <<loop, schedule, trips, runVars>>

\* expandLoops.
Expand ==
    LET plain == [order |-> loop.order, args |-> loop.args, kind |-> loop.kind, prev |-> loop.prev,
                  live |-> loop.live, bufs |-> <<>>, groups |-> <<>>]
        body == code'.body
        slots(n) == 0 .. n - 1
    IN /\ pass \in {"lowered", "unscheduled"} /\ part = "compiling"
       /\ code' = IF pass = "lowered" THEN Code(code.body, code.schedule) ELSE Code(plain, schedule)
       /\ part' = "prologue" /\ turn' = 0
       /\ todo' = IF code'.top = 0 THEN <<>> ELSE SelectSeq(code'.order, LAMBDA o : code'.stage[o] = 0)
       /\ env' = [res |-> [d \in Ops(body) |-> [v \in 0 .. code'.top |-> Junk]],
                  arg |-> [d \in Args(body) |-> [v \in 0 .. code'.top |->
                             IF v = 0 THEN Initial(d)
                             ELSE IF d = Outside /\ v < code'.top THEN <<Outside, 0>> ELSE Junk]],
                  now |-> [d \in Ops(body) |-> Junk],
                  carry |-> [d \in Args(body) |-> Initial(d)]]
       /\ mem' = [l \in DOMAIN body.bufs |-> [i \in slots(body.bufs[l]) |-> Junk]]
       /\ barrier' = [f \in DOMAIN body.groups |-> [i \in slots(body.bufs[f]) |-> [owed |-> 0, done |-> 0]]]
       /\ UNCHANGED <<schedVars, trips, flight, tma, ran, results>>

Schedule == Scheduling /\ UNCHANGED <<trips, code, runVars>>
Step == RunOp \/ NextPrologue \/ EnterKernel \/ Yield \/ EnterEpilogue \/ EpilogueSelect \/ Return
Land == LandGroup \/ LandTMA
Next == Schedule \/ Lower \/ Expand \/ Step \/ Land

InitPipelined ==
    /\ Init
    /\ trips \in Trips
    /\ code = <<>> /\ part = "compiling" /\ turn = 0 /\ todo = <<>>
    /\ env = <<>> /\ mem = <<>> /\ barrier = <<>>
    /\ flight = <<>> /\ tma = {}
    /\ ran = [o \in Ops(loop) |-> <<>>]
    /\ results = <<>>

\* The thread goes on where it can, and the copies land.
Spec == InitPipelined /\ [][Next]_vars /\ WF_vars(Step) /\ WF_vars(Land)

(***************************************************************************)
(* Properties                                                              *)
(***************************************************************************)
\* A local load that may go on finds the copy of its own iteration: it has
\* landed, which the waits see to (cp.async groups by their count, TMA by the
\* barrier's phase), and no later one has been put into the same buffer.
ReadsOwnCopy ==
    todo # <<>> => (kind = "local" /\ predicate /\ Ready => OwnCopy)

\* The pipelined loop does what the loop does: each op runs once for each
\* iteration, in order, on the operands that it has in the loop, and the
\* results are those of the last iteration, for every trip count.
\* (The sequential loop knows no latencies.)
Original == INSTANCE SequentialLoop WITH loop <- [loop EXCEPT !.latency = <<>>]
ImplementsLoop == Original!Spec

\* Every run of the expanded loop ends: no wait is for a group that was not committed or
\* a phase that does not come.
Finishes == part # "compiling" ~> part = "returned"
================================================================================
