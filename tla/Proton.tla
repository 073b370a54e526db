------------------------------- MODULE Proton -------------------------------
(***************************************************************************)
(* Proton's GPU profiler (third_party/proton/csrc): sessions that are      *)
(* activated, deactivated and finalized, threads that launch kernels in    *)
(* ops, and the CUPTI thread that delivers the kernels' records.           *)
(*                                                                         *)
(* A thread enters a Triton op through libproton, with the interpreter's   *)
(* lock, and launches without it; the driver calls callbackFn at the start *)
(* and the end of the launch.  Any other launch ("api", or "graph" for one *)
(* of several kernels) becomes an op of its own in the callback.  A kernel *)
(* is <<correlation id, number>>; a scope is named by its op <<t, n>>, and *)
(* the scope of a kernel inside an op by both; a node of the tree is the   *)
(* thread whose context it is in and the name it has there.                *)
(*                                                                         *)
(* The session manager's mutex is only taken by calls from Python, which   *)
(* keep the interpreter's lock until they return: gil stands for both.     *)
(*                                                                         *)
(* A definition marked "bug:" is the next one with a mistake that the      *)
(* properties must catch; nothing uses it.                                 *)
(***************************************************************************)
EXTENDS Integers, Sequences, FiniteSets, Functions

CONSTANTS Threads, Sessions,
          Manager,      \* the thread that makes the session calls
          Current,      \* the threads with a current CUDA context
          Quiet,        \* whether sessions change only while no other thread is in an op
          MaxRetries,   \* of a flush (100 in the code)
          MaxOps,       \* bound: ops of all threads
          MaxCalls,     \* bound: session calls
          MaxFails      \* bound: launches that the driver refuses

ASSUME ProtonAssumption ==
    /\ Manager \in Threads /\ Current \subseteq Threads /\ Quiet \in BOOLEAN
    /\ MaxRetries \in Nat /\ MaxOps \in Nat /\ MaxCalls \in Nat /\ MaxFails \in Nat
    /\ "nobody" \notin Threads

VARIABLES
    pc,                 \* where a thread is
    op,                 \* its op: number, kind, correlation id, the data registered as it began
    gil,                \* who has the interpreter's lock
    externIdQueue, opInProgress, adding,   \* thread local; adding: data that startOp has still to tell
    started, dataSet, opCount,             \* Profiler, and the count of its OpInterface
    corrIdToExternId, apiExternIds, maxSubmitted, maxCompleted,
    active, live,       \* sessions that are active, that exist
    scopeIdToContextId, counted,           \* of each data; counted: the nodes a kernel was counted at
    call, calls,        \* the session call being made, and how many there were
    nextCorr, open, done,                  \* CUPTI's open buffers, kernels that ended
    unreported,         \* launches of which no record will come
    buffer, worker,     \* the records being delivered, and how far the CUPTI thread is
    home, due, crashed  \* what the properties ask: each launch's node, kernels each data must count

threadVars == <<pc, op, gil, externIdQueue, opInProgress, adding>>
profilerVars == <<started, dataSet, opCount>>
corrVars == <<corrIdToExternId, apiExternIds, maxSubmitted, maxCompleted>>
dataVars == <<scopeIdToContextId, counted>>
sessionVars == <<active, live, call, calls>>
gpuVars == <<nextCorr, open, done, unreported>>
workerVars == <<buffer, worker, crashed>>
ghostVars == <<home, due>>
vars == <<threadVars, profilerVars, corrVars, dataVars, sessionVars, gpuVars, workerVars, ghostVars>>

Nobody == "nobody"
Worker == "worker"
Idle == [stage |-> "idle", snap |-> {}, datas |-> {}, data |-> Nobody, scope |-> <<>>, max |-> 0]

Init ==
    /\ pc = [t \in Threads |-> "idle"]
    /\ op = [t \in Threads |-> [n |-> 0, kind |-> "none", corr |-> 0, seen |-> {}]]
    /\ gil = Nobody
    /\ externIdQueue = [t \in Threads |-> <<>>]
    /\ opInProgress = [t \in Threads |-> FALSE] /\ adding = [t \in Threads |-> {}]
    /\ started = FALSE /\ dataSet = {} /\ opCount = 0
    /\ corrIdToExternId = <<>> /\ apiExternIds = {} /\ maxSubmitted = 0 /\ maxCompleted = 0
    /\ active = {} /\ live = {}
    /\ scopeIdToContextId = [s \in Sessions |-> <<>>] /\ counted = [s \in Sessions |-> <<>>]
    /\ call = [kind |-> "none"] /\ calls = 0
    /\ nextCorr = 1 /\ open = {} /\ done = {} /\ unreported = {}
    /\ buffer = {} /\ worker = Idle
    /\ home = <<>> /\ due = [s \in Sessions |-> {}] /\ crashed = FALSE

AtomicMax(a, b) == IF a < b THEN b ELSE a
With(f, x, y) == [z \in DOMAIN f \cup {x} |-> IF z = x THEN y ELSE f[z]]
Without(f, S) == [z \in DOMAIN f \ S |-> f[z]]

-----------------------------------------------------------------------------
(* The data of a session: TreeData.                                          *)

Known(d, scope) == scope \in DOMAIN scopeIdToContextId[d]
AddNode(d, scope, node) == scopeIdToContextId' = [scopeIdToContextId EXCEPT ![d] = With(@, scope, node)]

\* addMetric: "The profile data is deactivated, ignore the metric".
AddMetric(d, scope, k) ==
    IF Known(d, scope)
    THEN counted' = [counted EXCEPT ![d] =
             With(@, k, (IF k \in DOMAIN @ THEN @[k] ELSE <<>>) \o <<scopeIdToContextId[d][scope]>>)]
    ELSE UNCHANGED counted

-----------------------------------------------------------------------------
(* Ops and launches.                                                         *)

Scope(t) == <<t, op[t].n>>
OpsLeft == FoldFunction(LAMBDA o, n : o.n + n, 0, op) < MaxOps
Begin(t, kind) ==
    /\ pc[t] = "idle" /\ OpsLeft
    /\ op' = [op EXCEPT ![t] = [n |-> @.n + 1, kind |-> kind, corr |-> 0, seen |-> dataSet]]

\* startOp: the scope is the last of the queue, and each registered data gets the op.
StartOp(t, scope, at) ==
    /\ externIdQueue' = [externIdQueue EXCEPT ![t] = Append(@, scope)]
    /\ adding' = [adding EXCEPT ![t] = dataSet]
    /\ pc' = [pc EXCEPT ![t] = at]

\* libproton.enter_op, from the launch hook of a Triton kernel.
EnterOp(t) ==
    /\ gil = Nobody /\ Begin(t, "triton")
    /\ IF opCount > 0 /\ ~opInProgress[t]
       THEN StartOp(t, <<t, op[t].n + 1>>, "entering") /\ gil' = t
       ELSE pc' = [pc EXCEPT ![t] = "entered"] /\ UNCHANGED <<gil, externIdQueue, adding>>
    /\ UNCHANGED <<opInProgress, profilerVars, corrVars, dataVars, sessionVars, gpuVars, workerVars, ghostVars>>

\* A launch of a kernel or of a graph outside Triton.
BeginApi(t, kind) ==
    /\ Begin(t, kind) /\ pc' = [pc EXCEPT ![t] = "entered"]
    /\ Quiet => call.kind = "none"
    /\ UNCHANGED <<gil, externIdQueue, opInProgress, adding, profilerVars, corrVars, dataVars,
                   sessionVars, gpuVars, workerVars, ghostVars>>

\* An op that the callback makes has no name: its node is the context itself.
AddOp(t, d) ==
    /\ d \in adding[t]
    /\ AddNode(d, Scope(t), <<t, IF pc[t] = "entering" THEN <<Scope(t)>> ELSE <<>> >>)
    /\ adding' = [adding EXCEPT ![t] = @ \ {d}]
    /\ UNCHANGED <<pc, op, gil, externIdQueue, opInProgress, profilerVars, corrVars, counted, sessionVars,
                   gpuVars, workerVars, ghostVars>>

Instances(t) == IF op[t].kind = "graph" THEN 2 ELSE 1
correlate(t, queue) ==
    /\ op' = [op EXCEPT ![t].corr = nextCorr] /\ nextCorr' = nextCorr + 1
    /\ corrIdToExternId' = IF queue = <<>> THEN corrIdToExternId
                           ELSE With(corrIdToExternId, nextCorr, <<queue[Len(queue)], Instances(t)>>)
    /\ pc' = [pc EXCEPT ![t] = "launching"]
    /\ UNCHANGED <<maxSubmitted, maxCompleted, open, done, unreported>>

Started(t) ==
    /\ pc[t] \in {"entering", "callback"} /\ adding[t] = {}
    /\ opInProgress' = [opInProgress EXCEPT ![t] = TRUE]
    /\ IF pc[t] = "entering"
       THEN /\ pc' = [pc EXCEPT ![t] = "entered"] /\ gil' = Nobody
            /\ UNCHANGED <<op, corrVars, gpuVars>>
       ELSE /\ apiExternIds' = apiExternIds \cup {Scope(t)}
            /\ correlate(t, externIdQueue[t]) /\ UNCHANGED gil
    /\ UNCHANGED <<externIdQueue, adding, profilerVars, dataVars, sessionVars, workerVars, ghostVars>>

\* callbackFn at CUPTI_API_ENTER: outside an op the launch is an op of its own.
CallbackEnter(t) ==
    /\ pc[t] = "entered" /\ started
    /\ IF opInProgress[t]
       THEN correlate(t, externIdQueue[t]) /\ UNCHANGED <<externIdQueue, adding, apiExternIds>>
       ELSE StartOp(t, Scope(t), "callback") /\ UNCHANGED <<op, corrVars, gpuVars>>
    /\ UNCHANGED <<gil, opInProgress, profilerVars, dataVars, sessionVars, workerVars, ghostVars>>

\* No kernel is launched (the grid is empty), or nothing watches it.
NoLaunch(t) ==
    /\ pc[t] = "entered" /\ (op[t].kind = "triton" \/ ~started)
    /\ pc' = [pc EXCEPT ![t] = "launched"]
    /\ UNCHANGED <<op, gil, externIdQueue, opInProgress, adding, profilerVars, corrVars, dataVars, sessionVars,
                   gpuVars, workerVars, ghostVars>>

\* The driver launches the kernels, or refuses.
Launch(t) ==
    /\ pc[t] = "launching" /\ pc' = [pc EXCEPT ![t] = "issued"]
    /\ LET c == op[t].corr
           ks == {c} \X (IF op[t].kind = "graph" THEN 1 .. 2 ELSE {0})
       IN \/ /\ open' = IF started THEN open \cup ks ELSE open
             /\ home' = With(home, c, <<t, IF op[t].kind = "triton" /\ op[t].seen # {}
                                           THEN <<Scope(t)>> ELSE <<>> >>)
             /\ due' = [d \in Sessions |-> IF d \in op[t].seen \cap dataSet THEN due[d] \cup ks ELSE due[d]]
             /\ UNCHANGED unreported
          \/ /\ Cardinality(unreported) < MaxFails /\ unreported' = unreported \cup {c}
             /\ UNCHANGED <<open, home, due>>
    /\ UNCHANGED <<op, gil, externIdQueue, opInProgress, adding, profilerVars, corrVars, dataVars, sessionVars,
                   nextCorr, done, workerVars>>

\* bug: the scope stays in the queue.
StopOpNoPop(t) == opInProgress' = [opInProgress EXCEPT ![t] = FALSE] /\ UNCHANGED externIdQueue

\* stopOp, if the op is in progress.
StopOp(t) ==
    IF opInProgress[t]
    THEN /\ externIdQueue' = [externIdQueue EXCEPT ![t] = Tail(@)]
         /\ opInProgress' = [opInProgress EXCEPT ![t] = FALSE]
    ELSE UNCHANGED <<externIdQueue, opInProgress>>

\* callbackFn at CUPTI_API_EXIT.
CallbackExit(t) ==
    /\ pc[t] = "issued" /\ pc' = [pc EXCEPT ![t] = "launched"]
    /\ IF started
       THEN StopOp(t) /\ maxSubmitted' = AtomicMax(maxSubmitted, op[t].corr)
       ELSE UNCHANGED <<externIdQueue, opInProgress, maxSubmitted>>
    /\ UNCHANGED <<op, gil, adding, profilerVars, corrIdToExternId, apiExternIds, maxCompleted, dataVars,
                   sessionVars, gpuVars, workerVars, ghostVars>>

\* libproton.exit_op, or the end of a launch that is no Triton op.
ExitOp(t) ==
    /\ pc[t] = "launched" /\ pc' = [pc EXCEPT ![t] = "idle"]
    /\ op[t].kind = "triton" => gil = Nobody
    /\ IF op[t].kind = "triton" /\ opCount > 0 THEN StopOp(t) ELSE UNCHANGED <<externIdQueue, opInProgress>>
    /\ op' = [op EXCEPT ![t] = [n |-> @.n, kind |-> "none", corr |-> 0, seen |-> {}]]
    /\ UNCHANGED <<gil, adding, profilerVars, corrVars, dataVars, sessionVars, gpuVars, workerVars, ghostVars>>

-----------------------------------------------------------------------------
(* Session calls.  All but the last of their steps are those of doFlush.     *)

At(p) == pc[Manager] = p
Goto(p) == pc' = [pc EXCEPT ![Manager] = p]
Call(kind, s, p) ==
    /\ At("idle") /\ gil = Nobody /\ calls < MaxCalls
    /\ Quiet => \A t \in Threads : pc[t] = "idle"
    /\ calls' = calls + 1 /\ gil' = Manager /\ Goto(p)
    /\ call' = [kind |-> kind, s |-> s, submitted |-> -1, retries |-> MaxRetries]
Return == Goto("idle") /\ gil' = Nobody /\ call' = [kind |-> "none"]

\* libproton.start and activate: the profiler is started with its first session.
Activate(s) ==
    /\ s \notin active /\ Call("activate", s, "sync")
    /\ active' = active \cup {s} /\ live' = live \cup {s} /\ started' = TRUE
    /\ IF s \in live THEN UNCHANGED <<scopeIdToContextId, counted>>
       ELSE /\ scopeIdToContextId' = [scopeIdToContextId EXCEPT ![s] = <<>>]
            /\ counted' = [counted EXCEPT ![s] = <<>>]
    /\ UNCHANGED <<op, externIdQueue, opInProgress, adding, dataSet, opCount, corrVars, gpuVars,
                   workerVars, ghostVars>>

Deactivate(s) ==
    /\ s \in active /\ Call("deactivate", s, "sync") /\ active' = active \ {s}
    /\ UNCHANGED <<op, externIdQueue, opInProgress, adding, profilerVars, corrVars, dataVars, live, gpuVars,
                   workerVars, ghostVars>>

Finalize(s) ==
    /\ s \in live /\ active' = active \ {s}
    /\ Call("finalize", s, IF s \in active THEN "sync" ELSE "stop")
    /\ UNCHANGED <<op, externIdQueue, opInProgress, adding, profilerVars, corrVars, dataVars, live, gpuVars,
                   workerVars, ghostVars>>

\* bug: the kernels are not waited for.
SynchronizeNot ==
    /\ At("sync") /\ Goto("flush")
    /\ UNCHANGED <<op, gil, externIdQueue, opInProgress, adding, profilerVars, corrVars, dataVars, sessionVars,
                   gpuVars, workerVars, ghostVars>>

\* ctxSynchronize: "If the current context is not set, we don't do any synchronization."
Synchronize ==
    /\ At("sync")
    /\ Manager \in Current => open \subseteq done
    /\ Goto("flush")
    /\ UNCHANGED <<op, gil, externIdQueue, opInProgress, adding, profilerVars, corrVars, dataVars, sessionVars,
                   gpuVars, workerVars, ghostVars>>

\* CUPTI gives the buffers with the records D to its thread.
Deliver(D) ==
    /\ worker.stage = "idle" /\ open' = open \ D /\ buffer' = D
    /\ worker' = IF D = {} THEN worker ELSE [worker EXCEPT !.stage = "called"]
    /\ UNCHANGED <<nextCorr, done, unreported, crashed>>
\* The buffers whose records are all complete: any of them, if others hold incomplete ones.
Complete(D) == D \subseteq open \cap done

\* activityFlushAll(0).
FlushAll ==
    /\ At("flush") /\ Goto("flushing")
    /\ \E D \in SUBSET open : Complete(D) /\ (open \subseteq done => D = open) /\ Deliver(D)
    /\ UNCHANGED <<op, gil, externIdQueue, opInProgress, adding, profilerVars, corrVars, dataVars, sessionVars,
                   ghostVars>>

\* The submitted id is read after the first flush, the completed one after each.
Retry ==
    /\ At("flushing") /\ worker.stage = "idle"
    /\ LET first == call.submitted = -1
           submitted == IF first THEN maxSubmitted ELSE call.submitted
       IN IF maxCompleted < submitted /\ call.retries > 0
          THEN /\ Goto("flush")
               /\ call' = [call EXCEPT !.submitted = submitted, !.retries = @ - 1]
          ELSE Goto("force") /\ UNCHANGED call
    /\ UNCHANGED <<op, gil, externIdQueue, opInProgress, adding, profilerVars, corrVars, dataVars, active, live,
                   calls, gpuVars, workerVars, ghostVars>>

\* CUPTI_ACTIVITY_FLAG_FLUSH_FORCED: "even incomplete activities are flushed".
FlushForced ==
    /\ At("force") /\ Goto("forced") /\ Deliver(open)
    /\ UNCHANGED <<op, gil, externIdQueue, opInProgress, adding, profilerVars, corrVars, dataVars, sessionVars,
                   ghostVars>>

Register ==
    /\ At("forced") /\ worker.stage = "idle" /\ call.kind = "activate"
    /\ dataSet' = dataSet \cup {call.s} /\ opCount' = opCount + 1
    /\ due' = [due EXCEPT ![call.s] = {}]
    /\ Return
    /\ UNCHANGED <<op, externIdQueue, opInProgress, adding, started, corrVars, dataVars, active, live, calls,
                   gpuVars, workerVars, home>>

\* bug: the data stays registered.
UnregisterNot ==
    /\ At("forced") /\ worker.stage = "idle" /\ call.kind # "activate" /\ Goto("unregistered")
    /\ UNCHANGED <<op, gil, externIdQueue, opInProgress, adding, profilerVars, corrVars, dataVars, sessionVars,
                   gpuVars, workerVars, ghostVars>>

Unregister ==
    /\ At("forced") /\ worker.stage = "idle" /\ call.kind # "activate"
    /\ dataSet' = dataSet \ {call.s} /\ Goto("unregistered")
    /\ UNCHANGED <<op, gil, externIdQueue, opInProgress, adding, started, opCount, corrVars, dataVars,
                   sessionVars, gpuVars, workerVars, ghostVars>>

\* data->clear() and the counts of the interfaces.
Clear ==
    /\ At("unregistered")
    /\ scopeIdToContextId' = [scopeIdToContextId EXCEPT ![call.s] = <<>>]
    /\ opCount' = opCount - 1
    /\ IF call.kind = "finalize" THEN Goto("stop") /\ UNCHANGED <<gil, call>> ELSE Return
    /\ UNCHANGED <<op, externIdQueue, opInProgress, adding, started, dataSet, corrVars, counted, active,
                   live, calls, gpuVars, workerVars, ghostVars>>

\* The profiler stops with its last data; the session's is written and destroyed.
Stop ==
    /\ At("stop")
    /\ started' = (dataSet # {})
    /\ IF dataSet = {} THEN open' = {} /\ unreported' = unreported \cup {k[1] : k \in open} /\ done' = done \ open
       ELSE UNCHANGED <<open, done, unreported>>
    /\ live' = live \ {call.s} /\ Return
    /\ UNCHANGED <<op, externIdQueue, opInProgress, adding, dataSet, opCount, corrVars, dataVars, active, calls,
                   nextCorr, workerVars, ghostVars>>

-----------------------------------------------------------------------------
(* The GPU, and the thread that CUPTI delivers buffers in.                   *)

KernelEnds(k) ==
    /\ k \in open \ done /\ done' = done \cup {k}
    /\ UNCHANGED <<threadVars, profilerVars, corrVars, dataVars, sessionVars, nextCorr, open, unreported,
                   workerVars, ghostVars>>

\* Buffers that are full are delivered when it suits CUPTI.
BufferFull ==
    /\ \E D \in SUBSET open \ {{}} : Complete(D) /\ Deliver(D)
    /\ UNCHANGED <<threadVars, profilerVars, corrVars, dataVars, sessionVars, ghostVars>>

\* completeBuffer works on a copy of the data set.
CompleteBuffer ==
    /\ worker.stage = "called"
    /\ worker' = [worker EXCEPT !.stage = "next", !.snap = dataSet, !.max = 0]
    /\ UNCHANGED <<threadVars, profilerVars, corrVars, dataVars, sessionVars, gpuVars, buffer, crashed, ghostVars>>

Rec == CHOOSE k \in buffer : \A j \in buffer : k[1] < j[1] \/ (k[1] = j[1] /\ k[2] <= j[2])
Extern == corrIdToExternId[Rec[1]][1]

\* processActivityKernel: a record of an unknown launch is skipped.
NextRecord ==
    /\ worker.stage = "next" /\ buffer # {}
    /\ IF Rec[1] \in DOMAIN corrIdToExternId
       THEN /\ worker' = [worker EXCEPT !.stage = "data", !.datas = worker.snap, !.max = AtomicMax(@, Rec[1])]
            /\ UNCHANGED <<buffer, done>>
       ELSE /\ worker' = [worker EXCEPT !.max = AtomicMax(@, Rec[1])]
            /\ buffer' = buffer \ {Rec} /\ done' = done \ {Rec}
    /\ UNCHANGED <<threadVars, profilerVars, corrVars, dataVars, sessionVars, nextCorr, open, unreported, crashed,
                   ghostVars>>

\* bug: only the kernels of graphs.
HasOwnNodeInGraph == Rec[2] > 0

\* A kernel of a graph, or of a launch that is no Triton op, gets a node of its own,
\* below that of its op or, if the data does not know the op, in the context of this thread.
HasOwnNode == Rec[2] > 0 \/ Extern \in apiExternIds
NeedsContexts(d) == ~ Known(d, Extern)

AddOpOfRecord(d) ==
    /\ worker.stage = "data" /\ d \in worker.datas /\ HasOwnNode
    /\ IF NeedsContexts(d)
       THEN AddNode(d, Extern, <<Worker, <<Rec>> >>)
       ELSE LET parent == scopeIdToContextId[d][Extern]
            IN AddNode(d, Append(Extern, Rec), <<parent[1], Append(parent[2], Rec)>>)
    /\ worker' = [worker EXCEPT !.stage = "metric", !.data = d,
                                !.scope = IF NeedsContexts(d) THEN Extern ELSE Append(Extern, Rec)]
    /\ UNCHANGED <<threadVars, profilerVars, corrVars, counted, sessionVars, gpuVars, buffer, crashed, ghostVars>>

\* addMetric reads the kind of the metric, of which an incomplete record has none.
AddMetricOfRecord(d) ==
    /\ d \in worker.datas
    /\ \/ worker.stage = "data" /\ ~ HasOwnNode
       \/ worker.stage = "metric" /\ worker.data = d
    /\ LET scope == IF worker.stage = "data" THEN Extern ELSE worker.scope
       IN AddMetric(d, scope, Rec) /\ crashed' = (Rec \notin done /\ Known(d, scope))
    /\ worker' = [worker EXCEPT !.stage = "data", !.datas = @ \ {d}]
    /\ UNCHANGED <<threadVars, profilerVars, corrVars, scopeIdToContextId, sessionVars, gpuVars, buffer,
                   ghostVars>>

\* bug: the correlation goes with the first of them.
ForgetAtOnce(c) == Without(corrIdToExternId, {c})

\* The instances of a graph share the correlation, which goes with the last of them.
Forget(c) ==
    LET numInstances == corrIdToExternId[c][2] - 1
    IN IF numInstances = 0 THEN Without(corrIdToExternId, {c})
       ELSE [corrIdToExternId EXCEPT ![c][2] = numInstances]

RecordDone ==
    /\ worker.stage = "data" /\ worker.datas = {}
    /\ apiExternIds' = apiExternIds \ {Extern} /\ corrIdToExternId' = Forget(Rec[1])
    /\ buffer' = buffer \ {Rec} /\ done' = done \ {Rec} /\ worker' = [worker EXCEPT !.stage = "next"]
    /\ UNCHANGED <<threadVars, profilerVars, maxSubmitted, maxCompleted, dataVars, sessionVars, nextCorr, open,
                   unreported, crashed, ghostVars>>

BufferDone ==
    /\ worker.stage = "next" /\ buffer = {}
    /\ maxCompleted' = AtomicMax(maxCompleted, worker.max) /\ worker' = Idle
    /\ UNCHANGED <<threadVars, profilerVars, corrIdToExternId, apiExternIds, maxSubmitted, dataVars, sessionVars,
                   gpuVars, buffer, crashed, ghostVars>>

-----------------------------------------------------------------------------
\* What a thread does of its own accord, and what it goes on with.
Begins(t) == EnterOp(t) \/ \E kind \in {"api", "graph"} : BeginApi(t, kind)
GoesOn(t) ==
    \/ \E d \in Sessions : AddOp(t, d)
    \/ Started(t) \/ CallbackEnter(t) \/ NoLaunch(t) \/ Launch(t) \/ CallbackExit(t) \/ ExitOp(t)
Calls == \E s \in Sessions : Activate(s) \/ Deactivate(s) \/ Finalize(s)
CallGoesOn == Synchronize \/ FlushAll \/ Retry \/ FlushForced \/ Register \/ Unregister \/ Clear \/ Stop
GPU == \E k \in open : KernelEnds(k)
CUPTI ==
    \/ CompleteBuffer \/ NextRecord \/ RecordDone \/ BufferDone
    \/ \E d \in Sessions : AddOpOfRecord(d) \/ AddMetricOfRecord(d)

Next ==
    /\ ~ crashed
    /\ \/ \E t \in Threads : Begins(t) \/ GoesOn(t)
       \/ Calls \/ CallGoesOn \/ GPU \/ CUPTI \/ BufferFull

Spec == Init /\ [][Next]_vars

-----------------------------------------------------------------------------
\* A kernel is counted where it belongs: at the node of the Triton op it was
\* launched in, or at one of its own in the context of the thread that launched
\* it; and not twice.  The tree is filled by the CUPTI thread, after the op is
\* gone and perhaps other sessions have come and gone.
CountedAtHome ==
    \A d \in Sessions : \A k \in DOMAIN counted[d] :
       LET h == home[k[1]]
       IN counted[d][k] = << IF h[2] = <<>> THEN <<h[1], <<k>> >> ELSE h >>

\* "Flush the profiler's data from the device to the host": when a session's data
\* leaves the profiler, every kernel launched by an op that began with the session
\* active has been counted.
AllCounted ==
    At("unregistered") => \A k \in due[call.s] : k \in DOMAIN counted[call.s]

\* Nobody works on the data of a session that was finalized.
DataAlive ==
    /\ worker.stage # "idle" => worker.datas \subseteq live
    /\ \A t \in Threads : adding[t] \subseteq live

\* When nothing is under way, the launches that CUPTI has reported are forgotten.
NothingLeft ==
    (\A t \in Threads : pc[t] = "idle") /\ open = {} /\ worker.stage = "idle"
      => /\ DOMAIN corrIdToExternId \subseteq unreported
         /\ apiExternIds \subseteq {corrIdToExternId[c][1] : c \in DOMAIN corrIdToExternId}
         /\ \A t \in Threads : externIdQueue[t] = <<>>

\* No metric is asked for the kind it has not: "else: not a valid kernel activity".
RecordsValid == ~ crashed
=============================================================================
