----------------------------- MODULE ProtonProofs -----------------------------
(***************************************************************************)
(* What Proton's profiler does with the records of kernels is right for    *)
(* any threads and sessions, when sessions change only while no other      *)
(* thread is in an op and the thread that changes them has a current       *)
(* context: then a call finds no launch under way, and waits for those     *)
(* that were.                                                              *)
(*                                                                         *)
(* The invariant ties together what the threads, the session calls and the *)
(* CUPTI thread know of a kernel from its launch to its last record.       *)
(***************************************************************************)
EXTENDS Proton, NaturalSets, FiniteSetTheorems, TLAPS

-----------------------------------------------------------------------------
CallPcs == {"sync", "flush", "flushing", "force", "forced", "unregistered", "stop"}
OpPcs == {"entering", "entered", "callback", "launching", "issued", "launched"}
Registered == {"sync", "flush", "flushing", "force", "forced"}

Ops == [n : Nat, kind : {"none", "triton", "api", "graph"}, corr : Nat, seen : SUBSET Sessions]

TypesOK ==
    /\ pc \in [Threads -> {"idle"} \cup OpPcs \cup CallPcs]
    /\ op \in [Threads -> Ops]
    /\ DOMAIN externIdQueue = Threads /\ opInProgress \in [Threads -> BOOLEAN]
    /\ adding \in [Threads -> SUBSET Sessions]
    /\ started \in BOOLEAN /\ dataSet \subseteq Sessions /\ IsFiniteSet(dataSet)
    /\ DOMAIN scopeIdToContextId = Sessions /\ DOMAIN counted = Sessions /\ DOMAIN due = Sessions
    /\ nextCorr \in Nat \ {0}
    /\ DOMAIN corrIdToExternId \subseteq 1 .. nextCorr - 1 /\ DOMAIN home \subseteq 1 .. nextCorr - 1

\* A session call has the interpreter's lock and every other thread idle; the data
\* that is registered is that of the active sessions, but for the one of the call.
CallOK ==
    /\ call.kind \in {"none", "activate", "deactivate", "finalize"}
    /\ call.kind = "none" <=> pc[Manager] \notin CallPcs
    /\ \A t \in Threads : t # Manager => pc[t] \notin CallPcs
    /\ call.kind # "none" => /\ call = [kind |-> call.kind, s |-> call.s, submitted |-> call.submitted,
                                        retries |-> call.retries]
                             /\ gil = Manager /\ call.s \in Sessions /\ call.s \in live
                             /\ \A t \in Threads : t # Manager => pc[t] = "idle"
    /\ active \subseteq live
    /\ call.kind = "none" => dataSet = active
    /\ call.kind = "activate" => /\ pc[Manager] \in Registered /\ started
                                 /\ call.s \in active /\ dataSet = active \ {call.s}
    /\ call.kind \in {"deactivate", "finalize"} =>
          /\ call.s \notin active
          /\ dataSet = IF pc[Manager] \in Registered THEN active \cup {call.s} ELSE active
    /\ opCount = Cardinality(dataSet) + IF pc[Manager] = "unregistered" THEN 1 ELSE 0
    /\ dataSet # {} => started

\* What a call has waited for.
FlushOK ==
    /\ pc[Manager] \in {"flush", "flushing", "force"} => open \subseteq done
    /\ pc[Manager] = "forced" => open = {}

-----------------------------------------------------------------------------
\* A Triton op that data is told of has a name.
Named(t) == op[t].kind = "triton" /\ op[t].seen # {}
Node(t) == <<t, IF Named(t) THEN <<Scope(t)>> ELSE <<>> >>
\* The data D know the op that thread t is in.
Told(t, D) == \A d \in D : Known(d, Scope(t)) /\ scopeIdToContextId[d][Scope(t)] = Node(t)
InQueue(t) == externIdQueue[t] = <<Scope(t)>>
NoQueue(t) == externIdQueue[t] = <<>>
\* No kernel has been launched in the op.
Unlaunched(t) == \A c \in DOMAIN corrIdToExternId : corrIdToExternId[c][1] # Scope(t)

LaunchingOK(t) ==
    LET c == op[t].corr
    IN /\ c \in DOMAIN corrIdToExternId /\ c \notin DOMAIN home
       /\ corrIdToExternId[c] = <<Scope(t), Instances(t)>>
       /\ Scope(t) \in apiExternIds <=> ~ Named(t)

ThreadOK(t) ==
    /\ pc[t] \notin OpPcs => NoQueue(t) /\ ~ opInProgress[t]
    /\ pc[t] \in OpPcs => op[t].seen = dataSet /\ op[t].n # 0
    /\ adding[t] \subseteq dataSet
    /\ pc[t] \notin {"entering", "callback"} => adding[t] = {}
    /\ pc[t] = "entering" => /\ gil = t /\ Named(t) /\ ~ opInProgress[t] /\ InQueue(t)
                             /\ Told(t, dataSet \ adding[t]) /\ Unlaunched(t)
    /\ pc[t] = "entered" => /\ Unlaunched(t)
                            /\ IF Named(t) THEN opInProgress[t] /\ InQueue(t) /\ Told(t, dataSet)
                                           ELSE ~ opInProgress[t] /\ NoQueue(t)
    /\ pc[t] = "callback" => /\ started /\ ~ Named(t) /\ ~ opInProgress[t] /\ InQueue(t)
                             /\ Told(t, dataSet \ adding[t]) /\ Unlaunched(t)
    /\ pc[t] = "launching" => started /\ opInProgress[t] /\ InQueue(t) /\ Told(t, dataSet) /\ LaunchingOK(t)
    /\ pc[t] = "issued" => started /\ opInProgress[t] /\ InQueue(t)
    /\ pc[t] = "launched" => IF opInProgress[t] THEN Named(t) /\ InQueue(t) ELSE NoQueue(t)

ThreadsOK == \A t \in Threads : ThreadOK(t)

-----------------------------------------------------------------------------
\* The kernels of launch c that CUPTI has not been through with.
Flying == open \cup buffer
FlyingOf(c) == {k \in Flying : k[1] = c}
Launches(c, n) == IF n = 1 THEN {{<<c, i>>} : i \in 0 .. 2} ELSE {{<<c, 1>>, <<c, 2>>}}
Launching(c) == \E t \in Threads : pc[t] = "launching" /\ op[t].corr = c

\* The count of a correlation is that of its kernels, when records of them will come.
CorrOK(c) ==
    /\ corrIdToExternId[c][2] \in {1, 2}
    /\ \E F \in Launches(c, corrIdToExternId[c][2]) :
          /\ FlyingOf(c) \subseteq F
          /\ FlyingOf(c) = F \/ c \in unreported \/ Launching(c)

ScopeOK(e) == e = <<e[1], e[2]>> /\ e[1] \in Threads /\ e[2] \in 1 .. op[e[1]].n

CorrsOK ==
    /\ open \cap buffer = {}
    /\ \A k \in Flying : /\ k = <<k[1], k[2]>> /\ k[2] \in 0 .. 2
                         /\ k[1] \in DOMAIN corrIdToExternId /\ k[1] \in DOMAIN home
    /\ \A c \in DOMAIN corrIdToExternId :
          /\ corrIdToExternId[c] = <<corrIdToExternId[c][1], corrIdToExternId[c][2]>>
          /\ ScopeOK(corrIdToExternId[c][1])
          /\ CorrOK(c)
    /\ \A c, b \in DOMAIN corrIdToExternId :
          corrIdToExternId[c][1] = corrIdToExternId[b][1] => c = b
    /\ apiExternIds \subseteq {corrIdToExternId[c][1] : c \in DOMAIN corrIdToExternId}

\* The registered data know the op of a kernel, at the node where the kernel belongs
\* or, if it has one of its own, below which it belongs.
HomeOK(k) ==
    LET e == corrIdToExternId[k[1]][1]
        h == home[k[1]]
    IN /\ \/ h = <<e[1], <<e>> >> /\ k[2] = 0 /\ e \notin apiExternIds
          \/ h = <<e[1], <<>> >> /\ (k[2] > 0 \/ e \in apiExternIds)
       /\ \A d \in dataSet : Known(d, e) /\ scopeIdToContextId[d][e] = h

HomesOK == \A k \in Flying : HomeOK(k)

-----------------------------------------------------------------------------
NodeOf(k) == LET h == home[k[1]] IN IF h[2] = <<>> THEN <<h[1], <<k>> >> ELSE h
AtRecord == worker.stage \in {"data", "metric"}

WorkerOK ==
    /\ worker = [stage |-> worker.stage, snap |-> worker.snap, datas |-> worker.datas,
                 data |-> worker.data, scope |-> worker.scope, max |-> worker.max]
    /\ worker.stage \in {"idle", "called", "next", "data", "metric"}
    /\ worker.stage = "idle" => worker = Idle /\ buffer = {}
    /\ AtRecord => buffer # {}
    /\ worker.datas \subseteq worker.snap /\ worker.snap \subseteq dataSet
    /\ buffer \subseteq done
    /\ worker.stage = "metric" =>
          /\ worker.data \in worker.datas /\ worker.scope = Append(Extern, Rec)
          /\ Known(worker.data, worker.scope)
          /\ scopeIdToContextId[worker.data][worker.scope] = NodeOf(Rec)
    /\ ~ crashed

CountedOK(d, k) ==
    /\ k[1] \in DOMAIN home /\ counted[d][k] = <<NodeOf(k)>> /\ k \notin open
    /\ k \in buffer => AtRecord /\ k = Rec /\ d \notin worker.datas

\* A kernel that data must count is counted, or will be.
DueOK(d, k) ==
    \/ k \in DOMAIN counted[d] \/ k \in open
    \/ /\ k \in buffer
       /\ worker.stage = "called" \/ d \in worker.snap
       /\ AtRecord /\ k = Rec => d \in worker.datas

CountsOK ==
    /\ \A d \in Sessions : \A k \in DOMAIN counted[d] : CountedOK(d, k)
    /\ \A d \in dataSet : \A k \in due[d] : DueOK(d, k)
    /\ pc[Manager] = "unregistered" => \A k \in due[call.s] : k \in DOMAIN counted[call.s]

IInv == TypesOK /\ CallOK /\ FlushOK /\ ThreadsOK /\ CorrsOK /\ HomesOK /\ WorkerOK /\ CountsOK

-----------------------------------------------------------------------------
(* Scopes and the queue of a thread. *)
LEMMA ScopeOfKernel ==
  ASSUME NEW a, NEW b, NEW k, NEW t, NEW n
  PROVE  Append(<<a, b>>, k) # <<t, n>>
BY Len(Append(<<a, b>>, k)) = 3 /\ Len(<<t, n>>) = 2

LEMMA QueueOfOne ==
  ASSUME NEW e
  PROVE  /\ Append(<<>>, e) = <<e>> /\ <<>> \o <<e>> = <<e>> /\ <<e>> # <<>>
         /\ Tail(<<e>>) = <<>> /\ <<e>>[Len(<<e>>)] = e
OBVIOUS

(* The record being processed is one of the buffer. *)
LEMMA RecIsDelivered ==
  ASSUME TypesOK, CorrsOK, buffer # {}
  PROVE  Rec \in buffer
<1>1. \A k \in buffer : k[1] \in Nat /\ k[2] \in Nat
  <2>1. \A k \in buffer : k[1] \in DOMAIN corrIdToExternId /\ k[2] \in 0 .. 2
    BY DEF CorrsOK, Flying
  <2> QED BY <2>1 DEF TypesOK
<1> DEFINE C == {k[1] : k \in buffer}
<1>2. C \in SUBSET Nat /\ C # {}
  BY <1>1
<1>3. PICK c \in C : \A b \in C : c <= b
  BY <1>2, LeastNatural
<1> DEFINE I == {k[2] : k \in {j \in buffer : j[1] = c}}
<1>4. I \in SUBSET Nat /\ I # {}
  BY <1>1, <1>3
<1>5. PICK i \in I : \A b \in I : i <= b
  BY <1>4, LeastNatural
<1>6. PICK k \in buffer : k[1] = c /\ k[2] = i
  BY <1>5
<1>7. ASSUME NEW j \in buffer PROVE k[1] < j[1] \/ (k[1] = j[1] /\ k[2] <= j[2])
  <2>1. k[1] <= j[1]
    BY <1>3, <1>6
  <2>2. k[1] = j[1] => k[2] <= j[2]
    BY <1>5, <1>6
  <2> QED BY <1>1, <2>1, <2>2
<1> QED BY <1>7 DEF Rec

LEMMA RecStays ==
  ASSUME buffer' = buffer PROVE Rec' = Rec
BY DEF Rec

-----------------------------------------------------------------------------
(* Who is where while a thread is in an op, or can begin one. *)
LEMMA NoCallDuringOp ==
  ASSUME CallOK, NEW t \in Threads,
         pc[t] \in OpPcs \/ gil = Nobody \/ call.kind = "none"
  PROVE  call.kind = "none" /\ pc[Manager] \notin CallPcs /\ pc[t] \notin CallPcs
BY ProtonAssumption DEF CallOK, OpPcs, CallPcs, Nobody

(* A step of a thread's op leaves the session calls alone. *)
LEMMA OpLeavesCalls ==
  ASSUME TypesOK, CallOK, NEW t \in Threads, NEW x \in {"idle"} \cup OpPcs,
         pc[t] \in OpPcs \/ gil = Nobody \/ call.kind = "none",
         pc' = [pc EXCEPT ![t] = x],
         UNCHANGED <<call, started, dataSet, opCount, active, live>>
  PROVE  CallOK' /\ FlushOK' /\ pc'[Manager] \notin CallPcs /\ pc[Manager] \notin CallPcs
<1>1. call.kind = "none" /\ pc[Manager] \notin CallPcs /\ x \notin CallPcs
  BY NoCallDuringOp DEF OpPcs, CallPcs
<1>2. pc'[Manager] \notin CallPcs
  BY <1>1, ProtonAssumption DEF TypesOK
<1>3. \A u \in Threads : u # Manager => pc'[u] \notin CallPcs
  BY <1>1 DEF TypesOK, CallOK
<1>4. CallOK'
  BY <1>1, <1>2, <1>3 DEF CallOK, CallPcs
<1> QED BY <1>1, <1>2, <1>4 DEF FlushOK, CallPcs

(* A step that changes neither the calls nor where threads are. *)
LEMMA CallsStay ==
  ASSUME CallOK, UNCHANGED <<pc, gil, call, started, dataSet, opCount, active, live>>
  PROVE  CallOK'
BY DEF CallOK

\* Nothing that thread u's part of the invariant is about has changed.
SameThread(u) ==
    /\ pc'[u] = pc[u] /\ op'[u] = op[u] /\ externIdQueue'[u] = externIdQueue[u]
    /\ opInProgress'[u] = opInProgress[u] /\ adding'[u] = adding[u]
    /\ (pc[u] = "entering" => gil' = gil) /\ dataSet' = dataSet /\ started' = started
NodesStay(D, e) ==
    \A d \in D : Known(d, e) => Known(d, e)' /\ scopeIdToContextId'[d][e] = scopeIdToContextId[d][e]

LEMMA OthersStay ==
  ASSUME NEW u \in Threads, ThreadOK(u), SameThread(u),
         NodesStay(dataSet, Scope(u)),
         Unlaunched(u) => Unlaunched(u)',
         pc[u] = "launching" /\ LaunchingOK(u) => LaunchingOK(u)'
  PROVE  ThreadOK(u)'
<1>1. Scope(u)' = Scope(u) /\ (Named(u)' <=> Named(u)) /\ Node(u)' = Node(u)
  BY DEF SameThread, Scope, Named, Node
<1>2. Told(u, dataSet) => Told(u, dataSet)'
  BY <1>1 DEF NodesStay, Told, SameThread
<1>3. Told(u, dataSet \ adding[u]) => Told(u, dataSet \ adding[u])'
  BY <1>1 DEF NodesStay, Told, SameThread
<1>4. (InQueue(u)' <=> InQueue(u)) /\ (NoQueue(u)' <=> NoQueue(u))
  BY <1>1 DEF InQueue, NoQueue, SameThread
<1> QED BY <1>1, <1>2, <1>3, <1>4 DEF ThreadOK, SameThread

\* What is known of launches and of their nodes may grow.
CorrGrows == \A c \in DOMAIN corrIdToExternId :
    c \in DOMAIN corrIdToExternId' /\ corrIdToExternId'[c] = corrIdToExternId[c]
HomeGrows == \A c \in DOMAIN home : c \in DOMAIN home' /\ home'[c] = home[c]

(* A step that begins or ends no launch and delivers nothing. *)
LEMMA CorrsStay ==
  ASSUME TypesOK, TypesOK', CorrsOK, HomeGrows,
         \A u \in Threads : op[u].n <= op'[u].n,
         \A c : Launching(c) => Launching(c)',
         UNCHANGED <<corrIdToExternId, apiExternIds, open, buffer, unreported>>
  PROVE  CorrsOK'
<1>1. Flying' = Flying /\ \A c : FlyingOf(c)' = FlyingOf(c)
  BY DEF Flying, FlyingOf
<1>2. ASSUME NEW c \in DOMAIN corrIdToExternId
      PROVE  ScopeOK(corrIdToExternId[c][1])' /\ CorrOK(c)'
  <2>1. CorrOK(c) /\ ScopeOK(corrIdToExternId[c][1])
    BY DEF CorrsOK
  <2>2. CorrOK(c)'
    BY <1>1, <2>1 DEF CorrOK
  <2>3. ScopeOK(corrIdToExternId[c][1])'
    <3> PICK e : e = corrIdToExternId[c][1]
      OBVIOUS
    <3>1. op[e[1]].n \in Nat /\ op'[e[1]].n \in Nat /\ op[e[1]].n <= op'[e[1]].n
      BY <2>1 DEF ScopeOK, TypesOK, Ops
    <3> QED BY <2>1, <3>1 DEF ScopeOK
  <2> QED BY <2>2, <2>3
<1> QED BY <1>1, <1>2 DEF CorrsOK, HomeGrows

(* Kernels stay at home while their nodes do. *)
LEMMA HomesStay ==
  ASSUME CorrsOK, HomesOK, CorrGrows, HomeGrows, Flying' \subseteq Flying, dataSet' \subseteq dataSet,
         \A k \in Flying' : LET e == corrIdToExternId[k[1]][1]
                            IN /\ NodesStay(dataSet', e)
                               /\ e \in apiExternIds' <=> e \in apiExternIds
  PROVE  HomesOK'
<1> SUFFICES ASSUME NEW k \in Flying' PROVE HomeOK(k)'
  BY DEF HomesOK
<1>1. /\ k \in Flying /\ HomeOK(k)
      /\ home'[k[1]] = home[k[1]] /\ corrIdToExternId'[k[1]] = corrIdToExternId[k[1]]
  BY DEF HomesOK, CorrsOK, CorrGrows, HomeGrows
<1> QED BY <1>1 DEF HomeOK, NodesStay

(* The CUPTI thread is where it was. *)
LEMMA WorkerStays ==
  ASSUME TypesOK, CorrsOK, WorkerOK, CorrGrows, HomeGrows, UNCHANGED <<worker, buffer, crashed>>,
         done \cap buffer \subseteq done', worker.snap \subseteq dataSet',
         worker.stage = "metric" => NodesStay({worker.data}, Append(Extern, Rec))
  PROVE  WorkerOK' /\ Rec' = Rec /\ AtRecord' = AtRecord
<1>1. Rec' = Rec /\ AtRecord' = AtRecord
  BY RecStays DEF AtRecord
<1>2. ASSUME AtRecord PROVE Extern' = Extern /\ NodeOf(Rec)' = NodeOf(Rec)
  <2>1. Rec \in buffer
    BY <1>2, RecIsDelivered DEF WorkerOK
  <2>2. Rec[1] \in DOMAIN corrIdToExternId /\ Rec[1] \in DOMAIN home
    BY <2>1 DEF CorrsOK, Flying
  <2> QED BY <1>1, <2>2 DEF CorrGrows, HomeGrows, Extern, NodeOf
<1> QED BY <1>1, <1>2 DEF WorkerOK, AtRecord, NodesStay

(* Nothing is delivered, counted or launched; data that is cleared is not registered. *)
LEMMA CountsStay ==
  ASSUME CountsOK, TypesOK', HomeGrows, Rec' = Rec, UNCHANGED <<open, buffer, worker>>,
         \A d \in Sessions : counted'[d] = counted[d] \/ (counted'[d] = <<>> /\ d \notin dataSet'),
         \A d \in dataSet' : due'[d] = {} \/ (d \in dataSet /\ due'[d] = due[d]),
         pc'[Manager] = "unregistered" => pc[Manager] = "unregistered" /\ UNCHANGED <<counted, due, call>>
  PROVE  CountsOK'
<1>1. AtRecord' = AtRecord
  BY DEF AtRecord
<1>2. ASSUME NEW d \in Sessions, NEW k \in DOMAIN counted'[d] PROVE CountedOK(d, k)'
  <2>1. counted'[d] = counted[d] /\ k \in DOMAIN counted[d]
    BY <1>2
  <2>2. CountedOK(d, k)
    BY <2>1 DEF CountsOK
  <2>3. NodeOf(k)' = NodeOf(k)
    BY <2>2 DEF CountedOK, NodeOf, HomeGrows
  <2> QED BY <1>1, <2>1, <2>2, <2>3 DEF CountedOK, HomeGrows
<1>3. ASSUME NEW d \in dataSet', NEW k \in due'[d] PROVE DueOK(d, k)'
  <2>1. d \in Sessions
    BY <1>3 DEF TypesOK
  <2>2. d \in dataSet /\ k \in due[d] /\ counted'[d] = counted[d]
    BY <1>3, <2>1
  <2>3. DueOK(d, k)
    BY <2>2 DEF CountsOK
  <2> QED BY <1>1, <2>2, <2>3 DEF DueOK
<1>4. pc'[Manager] = "unregistered" => \A k \in due'[call'.s] : k \in DOMAIN counted'[call'.s]
  BY DEF CountsOK
<1> QED BY <1>2, <1>3, <1>4 DEF CountsOK

(* A step of an op that does not touch what the records need. *)
LEMMA RecordsStay ==
  ASSUME TypesOK, TypesOK', CorrsOK, HomesOK, WorkerOK, CountsOK,
         pc'[Manager] = "unregistered" => pc[Manager] = "unregistered" /\ call' = call,
         \A u \in Threads : op[u].n <= op'[u].n,
         \A c : Launching(c) => Launching(c)',
         UNCHANGED <<corrIdToExternId, apiExternIds, home, open, buffer, unreported, dataSet,
                     scopeIdToContextId, counted, worker, done, crashed, due>>
  PROVE  CorrsOK' /\ HomesOK' /\ WorkerOK' /\ CountsOK'
<1>1. CorrGrows /\ HomeGrows /\ \A D, e : NodesStay(D, e)
  BY DEF CorrGrows, HomeGrows, NodesStay, Known
<1>2. CorrsOK'
  BY <1>1, CorrsStay
<1>3. HomesOK'
  BY <1>1, HomesStay DEF Flying
<1>4. WorkerOK' /\ Rec' = Rec
  BY <1>1, WorkerStays DEF WorkerOK
<1>5. CountsOK'
  BY <1>1, <1>4, CountsStay
<1> QED BY <1>2, <1>3, <1>4, <1>5

-----------------------------------------------------------------------------
(* The steps of ops. *)
LEMMA OpsOf ==
  ASSUME TypesOK, NEW t \in Threads, NEW n \in Nat, NEW kind \in {"none", "triton", "api", "graph"},
         NEW c \in Nat, NEW S \in SUBSET Sessions
  PROVE  [op EXCEPT ![t] = [n |-> n, kind |-> kind, corr |-> c, seen |-> S]] \in [Threads -> Ops]
<1> PICK o : o = [n |-> n, kind |-> kind, corr |-> c, seen |-> S]
  OBVIOUS
<1>1. o \in Ops
  BY DEF Ops
<1> QED BY <1>1 DEF TypesOK

(* A step of one thread that makes no node and no correlation leaves the others as they are. *)
LEMMA OthersUnmoved ==
  ASSUME ThreadsOK, NEW t \in Threads, \A u \in Threads : u # t => SameThread(u),
         UNCHANGED <<corrIdToExternId, apiExternIds, home, scopeIdToContextId>>
  PROVE  \A u \in Threads : u # t => ThreadOK(u)'
<1> SUFFICES ASSUME NEW u \in Threads, u # t PROVE ThreadOK(u)'
  OBVIOUS
<1>1. ThreadOK(u) /\ SameThread(u)
  BY DEF ThreadsOK
<1>2. /\ NodesStay(dataSet, Scope(u)) /\ Scope(u)' = Scope(u) /\ (Named(u)' <=> Named(u))
      /\ Instances(u)' = Instances(u)
  BY <1>1 DEF NodesStay, Known, SameThread, Scope, Named, Instances
<1> QED BY <1>1, <1>2, OthersStay DEF Unlaunched, LaunchingOK, SameThread

LEMMA EnterOpKeeps ==
  ASSUME IInv, NEW t \in Threads, EnterOp(t)
  PROVE  IInv'
<1>0. TypesOK /\ CallOK /\ FlushOK /\ ThreadsOK /\ CorrsOK /\ HomesOK /\ WorkerOK /\ CountsOK
  BY DEF IInv
<1>1. /\ gil = Nobody /\ pc[t] = "idle"
      /\ op' = [op EXCEPT ![t] = [n |-> @.n + 1, kind |-> "triton", corr |-> 0, seen |-> dataSet]]
      /\ UNCHANGED <<opInProgress, profilerVars, corrVars, dataVars, sessionVars, gpuVars, workerVars, ghostVars>>
  BY DEF EnterOp, Begin
<1>2. UNCHANGED <<opInProgress, started, dataSet, opCount, corrIdToExternId, apiExternIds, home, open, buffer,
                  unreported, scopeIdToContextId, counted, worker, done, crashed, due, call, active, live,
                  nextCorr>>
  BY <1>1 DEF profilerVars, corrVars, dataVars, sessionVars, gpuVars, workerVars, ghostVars
<1>3. call.kind = "none" /\ pc[Manager] \notin CallPcs
  BY <1>0, <1>1, NoCallDuringOp
<1>4. opCount > 0 <=> dataSet # {}
  BY <1>0, <1>3, FS_EmptySet, FS_CardinalityType DEF CallOK, CallPcs, TypesOK
<1>5. op[t] \in Ops /\ op[t].n \in Nat
  BY <1>0 DEF TypesOK, Ops
<1>6. /\ op'[t] = [n |-> op[t].n + 1, kind |-> "triton", corr |-> 0, seen |-> dataSet]
      /\ \A u \in Threads : u # t => op'[u] = op[u]
  BY <1>0, <1>1 DEF TypesOK
<1>7. NoQueue(t) /\ ~ opInProgress[t]
  BY <1>0, <1>1 DEF ThreadsOK, ThreadOK, OpPcs
<1>8. PICK x \in {"entering", "entered"} :
         /\ pc' = [pc EXCEPT ![t] = x]
         /\ x = "entering" => /\ dataSet # {} /\ gil' = t
                              /\ externIdQueue' = [externIdQueue EXCEPT ![t] = Append(@, <<t, op[t].n + 1>>)]
                              /\ adding' = [adding EXCEPT ![t] = dataSet]
         /\ x = "entered" => dataSet = {} /\ UNCHANGED <<gil, externIdQueue, adding>>
  BY <1>4, <1>7 DEF EnterOp, StartOp
<1>9. TypesOK'
  <2>1. op' \in [Threads -> Ops]
    <3>1. dataSet \in SUBSET Sessions /\ op[t].n + 1 \in Nat
      BY <1>0, <1>5 DEF TypesOK
    <3> QED BY <1>0, <1>1, <3>1, OpsOf
  <2>2. pc' \in [Threads -> {"idle"} \cup OpPcs \cup CallPcs]
    BY <1>0, <1>8 DEF TypesOK, OpPcs
  <2>3. DOMAIN externIdQueue' = Threads /\ adding' \in [Threads -> SUBSET Sessions]
    BY <1>0, <1>8 DEF TypesOK
  <2> QED BY <1>0, <1>2, <2>1, <2>2, <2>3 DEF TypesOK
<1>10. CallOK' /\ FlushOK' /\ pc'[Manager] \notin CallPcs
  BY <1>0, <1>1, <1>2, <1>8, OpLeavesCalls DEF OpPcs
<1>11. \A u \in Threads : u # t => ThreadOK(u)'
  <2>1. \A u \in Threads : pc[u] # "entering"
    BY <1>0, <1>1, ProtonAssumption DEF ThreadsOK, ThreadOK, Nobody
  <2>2. \A u \in Threads : u # t => SameThread(u)
    BY <1>0, <1>2, <1>6, <1>8, <2>1 DEF SameThread, TypesOK
  <2> QED BY <1>0, <1>2, <2>2, OthersUnmoved
<1>12. ThreadOK(t)'
  <2>1. pc'[t] = x /\ op'[t].seen = dataSet /\ op'[t].n # 0 /\ op'[t].kind = "triton" /\ Scope(t)' = <<t, op[t].n + 1>>
    BY <1>0, <1>5, <1>6, <1>8 DEF TypesOK, Scope
  <2>2. Unlaunched(t)'
    <3>1. \A c \in DOMAIN corrIdToExternId : ScopeOK(corrIdToExternId[c][1])
      BY <1>0 DEF CorrsOK
    <3> QED BY <1>2, <1>5, <2>1, <3>1 DEF Unlaunched, ScopeOK
  <2>3. CASE x = "entering"
    <3>1. externIdQueue'[t] = <<Scope(t)'>> /\ adding'[t] = dataSet
      BY <1>0, <1>7, <1>8, <2>1, <2>3, QueueOfOne DEF TypesOK, NoQueue
    <3> QED BY <1>2, <1>7, <1>8, <2>1, <2>2, <2>3, <3>1
        DEF ThreadOK, OpPcs, Named, InQueue, Told
  <2>4. CASE x = "entered"
    <3>1. NoQueue(t)' /\ adding'[t] = {} /\ dataSet = {}
      BY <1>0, <1>1, <1>7, <1>8, <2>4 DEF NoQueue, ThreadsOK, ThreadOK
    <3> QED BY <1>2, <1>7, <2>1, <2>2, <2>4, <3>1 DEF ThreadOK, OpPcs, Named
  <2> QED BY <1>8, <2>3, <2>4
<1>13. \A c : Launching(c) => Launching(c)'
  BY <1>0, <1>1, <1>6, <1>8 DEF Launching, TypesOK
<1>14. \A u \in Threads : op[u].n <= op'[u].n
  BY <1>0, <1>5, <1>6 DEF TypesOK, Ops
<1>15. CorrsOK' /\ HomesOK' /\ WorkerOK' /\ CountsOK'
  BY <1>0, <1>2, <1>9, <1>10, <1>13, <1>14, RecordsStay DEF CallPcs
<1> QED BY <1>9, <1>10, <1>11, <1>12, <1>15 DEF IInv, ThreadsOK

LEMMA BeginApiKeeps ==
  ASSUME IInv, Quiet, NEW t \in Threads, NEW kind \in {"api", "graph"}, BeginApi(t, kind)
  PROVE  IInv'
<1>0. TypesOK /\ CallOK /\ FlushOK /\ ThreadsOK /\ CorrsOK /\ HomesOK /\ WorkerOK /\ CountsOK
  BY DEF IInv
<1>1. /\ pc[t] = "idle" /\ pc' = [pc EXCEPT ![t] = "entered"] /\ call.kind = "none"
      /\ op' = [op EXCEPT ![t] = [n |-> @.n + 1, kind |-> kind, corr |-> 0, seen |-> dataSet]]
  BY DEF BeginApi, Begin
<1>2. UNCHANGED <<gil, externIdQueue, opInProgress, adding, started, dataSet, opCount, corrIdToExternId,
                  apiExternIds, home, open, buffer, unreported, scopeIdToContextId, counted, worker, done,
                  crashed, due, call, active, live, nextCorr>>
  BY DEF BeginApi, profilerVars, corrVars, dataVars, sessionVars, gpuVars, workerVars, ghostVars
<1>3. op[t] \in Ops /\ op[t].n \in Nat
  BY <1>0 DEF TypesOK, Ops
<1>4. /\ op'[t] = [n |-> op[t].n + 1, kind |-> kind, corr |-> 0, seen |-> dataSet]
      /\ \A u \in Threads : u # t => op'[u] = op[u]
  BY <1>0, <1>1 DEF TypesOK
<1>5. TypesOK'
  <2>1. op' \in [Threads -> Ops]
    <3>1. dataSet \in SUBSET Sessions /\ op[t].n + 1 \in Nat
      BY <1>0, <1>3 DEF TypesOK
    <3> QED BY <1>0, <1>1, <3>1, OpsOf
  <2>2. pc' \in [Threads -> {"idle"} \cup OpPcs \cup CallPcs]
    BY <1>0, <1>1 DEF TypesOK, OpPcs
  <2> QED BY <1>0, <1>2, <2>1, <2>2 DEF TypesOK
<1>6. CallOK' /\ FlushOK' /\ pc'[Manager] \notin CallPcs
  BY <1>0, <1>1, <1>2, OpLeavesCalls DEF OpPcs
<1>7. \A u \in Threads : u # t => ThreadOK(u)'
  <2>1. \A u \in Threads : u # t => SameThread(u)
    BY <1>0, <1>1, <1>2, <1>4 DEF SameThread, TypesOK
  <2> QED BY <1>0, <1>2, <2>1, OthersUnmoved
<1>8. ThreadOK(t)'
  <2>1. /\ pc'[t] = "entered" /\ op'[t].seen = dataSet /\ op'[t].kind = kind /\ op'[t].n # 0
        /\ Scope(t)' = <<t, op[t].n + 1>>
    BY <1>0, <1>1, <1>3, <1>4 DEF TypesOK, Scope
  <2>2. Unlaunched(t)'
    <3>1. \A c \in DOMAIN corrIdToExternId : ScopeOK(corrIdToExternId[c][1])
      BY <1>0 DEF CorrsOK
    <3> QED BY <1>2, <1>3, <2>1, <3>1 DEF Unlaunched, ScopeOK
  <2>3. NoQueue(t)' /\ ~ opInProgress[t] /\ adding[t] = {}
    BY <1>0, <1>1, <1>2 DEF ThreadsOK, ThreadOK, OpPcs, NoQueue
  <2> QED BY <1>2, <2>1, <2>2, <2>3 DEF ThreadOK, OpPcs, Named
<1>9. \A c : Launching(c) => Launching(c)'
  BY <1>0, <1>1, <1>4 DEF Launching, TypesOK
<1>10. \A u \in Threads : op[u].n <= op'[u].n
  BY <1>0, <1>3, <1>4 DEF TypesOK, Ops
<1>11. CorrsOK' /\ HomesOK' /\ WorkerOK' /\ CountsOK'
  BY <1>0, <1>2, <1>5, <1>6, <1>9, <1>10, RecordsStay DEF CallPcs
<1> QED BY <1>5, <1>6, <1>7, <1>8, <1>11 DEF IInv, ThreadsOK

(* What a node that is added leaves in place. *)
LEMMA OtherNodesStay ==
  ASSUME TypesOK, NEW d, NEW scope, NEW node, AddNode(d, scope, node), NEW e, e # scope
  PROVE  \A b \in Sessions : Known(b, e) => e \in DOMAIN scopeIdToContextId'[b]
                                          /\ scopeIdToContextId'[b][e] = scopeIdToContextId[b][e]
BY DEF TypesOK, AddNode, Known, With

LEMMA AddOpKeeps ==
  ASSUME IInv, NEW t \in Threads, NEW d \in Sessions, AddOp(t, d)
  PROVE  IInv'
<1>0. TypesOK /\ CallOK /\ FlushOK /\ ThreadsOK /\ CorrsOK /\ HomesOK /\ WorkerOK /\ CountsOK
  BY DEF IInv
<1>1. d \in adding[t] /\ adding' = [adding EXCEPT ![t] = @ \ {d}]
  BY DEF AddOp
<1>2. UNCHANGED <<pc, op, gil, externIdQueue, opInProgress, started, dataSet, opCount, corrIdToExternId,
                  apiExternIds, home, open, buffer, unreported, counted, worker, done, crashed, due, call,
                  active, live, nextCorr>>
  BY DEF AddOp, profilerVars, corrVars, dataVars, sessionVars, gpuVars, workerVars, ghostVars
<1>3. ThreadOK(t) /\ pc[t] \in {"entering", "callback"} /\ d \in dataSet
  BY <1>0, <1>1 DEF ThreadsOK, ThreadOK
<1>4. AddNode(d, Scope(t), Node(t)) /\ Unlaunched(t)
  BY <1>3 DEF AddOp, ThreadOK, Node
<1>5. TypesOK'
  BY <1>0, <1>1, <1>2, <1>4 DEF TypesOK, AddNode
<1>6. CallOK' /\ FlushOK'
  BY <1>0, <1>2, CallsStay DEF FlushOK
<1>7. \A e : e # Scope(t) => \A b \in Sessions : Known(b, e) =>
         e \in DOMAIN scopeIdToContextId'[b] /\ scopeIdToContextId'[b][e] = scopeIdToContextId[b][e]
  BY <1>0, <1>4, OtherNodesStay
<1>8. dataSet \subseteq Sessions
  BY <1>0 DEF TypesOK
<1>9. ASSUME NEW u \in Threads, u # t PROVE ThreadOK(u)'
  <2>1. ThreadOK(u) /\ SameThread(u)
    BY <1>0, <1>1, <1>2, <1>9 DEF ThreadsOK, SameThread, TypesOK
  <2>2. Scope(u)' = Scope(u) /\ (Named(u)' <=> Named(u)) /\ Instances(u)' = Instances(u) /\ Scope(u) # Scope(t)
    BY <1>2, <1>9 DEF Scope, Named, Instances
  <2>3. NodesStay(dataSet, Scope(u))
    BY <1>7, <1>8, <2>2 DEF NodesStay, Known
  <2> QED BY <1>2, <2>1, <2>2, <2>3, OthersStay DEF Unlaunched, LaunchingOK
<1>10. ThreadOK(t)'
  <2>1. /\ Scope(t)' = Scope(t) /\ (Named(t)' <=> Named(t)) /\ Node(t)' = Node(t)
        /\ Unlaunched(t)' /\ (InQueue(t)' <=> InQueue(t)) /\ adding'[t] = adding[t] \ {d}
    BY <1>0, <1>1, <1>2, <1>4 DEF Scope, Named, Node, Unlaunched, InQueue, TypesOK
  <2>2. Told(t, dataSet \ adding[t])
    BY <1>3 DEF ThreadOK
  <2>3. ASSUME NEW b \in dataSet \ adding'[t]
        PROVE  Known(b, Scope(t))' /\ scopeIdToContextId'[b][Scope(t)] = Node(t)
    <3>1. CASE b = d
      BY <1>0, <1>2, <1>4, <1>8, <2>1, <3>1 DEF AddNode, With, Known, TypesOK
    <3>2. CASE b # d
      BY <1>0, <1>1, <1>2, <1>4, <1>8, <2>1, <2>2, <3>2 DEF AddNode, Known, TypesOK, Told
    <3> QED BY <3>1, <3>2
  <2>4. Told(t, dataSet \ adding[t])'
    BY <1>2, <2>1, <2>3 DEF Told
  <2> QED BY <1>2, <1>3, <2>1, <2>4 DEF ThreadOK, OpPcs
<1>11. CorrGrows /\ HomeGrows /\ Flying' = Flying /\ \A c : Launching(c) => Launching(c)'
  BY <1>2 DEF CorrGrows, HomeGrows, Flying, Launching
<1>12. CorrsOK'
  BY <1>0, <1>2, <1>5, <1>11, CorrsStay DEF TypesOK, Ops
<1>13. HomesOK'
  <2>1. ASSUME NEW k \in Flying PROVE NodesStay(dataSet, corrIdToExternId[k[1]][1])
    <3>1. corrIdToExternId[k[1]][1] # Scope(t)
      BY <1>0, <1>4 DEF CorrsOK, Unlaunched
    <3> QED BY <1>2, <1>7, <1>8, <3>1 DEF NodesStay, Known
  <2> QED BY <1>0, <1>2, <1>11, <2>1, HomesStay
<1>14. WorkerOK' /\ Rec' = Rec
  <2>1. ASSUME worker.stage = "metric" PROVE NodesStay({worker.data}, Append(Extern, Rec))
    <3>1. Append(Extern, Rec) # Scope(t)
      <4>1. Rec \in buffer
        BY <1>0, <2>1, RecIsDelivered DEF WorkerOK, AtRecord
      <4>2. Extern = <<Extern[1], Extern[2]>>
        BY <1>0, <4>1 DEF CorrsOK, Flying, Extern, ScopeOK
      <4>3. Append(<<Extern[1], Extern[2]>>, Rec) # <<t, op[t].n>>
        BY ScopeOfKernel
      <4> QED BY <4>2, <4>3 DEF Scope
    <3>2. worker.data \in Sessions /\ Extern' = Extern /\ Rec' = Rec
      BY <1>0, <1>2, <1>8, <2>1, RecStays DEF WorkerOK, Extern
    <3> QED BY <1>7, <3>1, <3>2 DEF NodesStay, Known
  <2> QED BY <1>0, <1>2, <1>11, <2>1, WorkerStays DEF WorkerOK
<1>15. CountsOK'
  BY <1>0, <1>2, <1>5, <1>11, <1>14, CountsStay
<1> QED BY <1>5, <1>6, <1>9, <1>10, <1>12, <1>13, <1>14, <1>15 DEF IInv, ThreadsOK

(* The driver calls back at the start of a launch, in an op that data and queue know. *)
LEMMA CorrelateKeeps ==
  ASSUME IInv, NEW t \in Threads, pc[t] \in {"entered", "callback"}, started,
         InQueue(t), Told(t, dataSet), Unlaunched(t), adding[t] = {},
         correlate(t, externIdQueue[t]),
         opInProgress' = [opInProgress EXCEPT ![t] = TRUE],
         apiExternIds' = IF Named(t) THEN apiExternIds ELSE apiExternIds \cup {Scope(t)},
         UNCHANGED <<gil, externIdQueue, adding, profilerVars, dataVars, sessionVars, workerVars, ghostVars>>
  PROVE  IInv'
<1>0. TypesOK /\ CallOK /\ FlushOK /\ ThreadsOK /\ CorrsOK /\ HomesOK /\ WorkerOK /\ CountsOK
  BY DEF IInv
<1>1. PICK c : c = nextCorr
  OBVIOUS
<1>2. /\ op' = [op EXCEPT ![t].corr = c] /\ nextCorr' = c + 1 /\ pc' = [pc EXCEPT ![t] = "launching"]
      /\ corrIdToExternId' = With(corrIdToExternId, c, <<Scope(t), Instances(t)>>)
  BY <1>1, QueueOfOne DEF correlate, InQueue
<1>3. UNCHANGED <<gil, externIdQueue, adding, started, dataSet, opCount, home, open, buffer, unreported,
                  scopeIdToContextId, counted, worker, done, crashed, due, call, active, live>>
  BY DEF correlate, profilerVars, dataVars, sessionVars, workerVars, ghostVars
<1>4. c \in Nat \ {0} /\ c \notin DOMAIN corrIdToExternId /\ c \notin DOMAIN home
  BY <1>0, <1>1 DEF TypesOK
<1>5. /\ op[t] \in Ops /\ op'[t] = [op[t] EXCEPT !.corr = c]
      /\ \A u \in Threads : u # t => op'[u] = op[u]
  BY <1>0, <1>2 DEF TypesOK
<1>6. op'[t] \in Ops /\ op'[t].corr = c /\ op'[t].n = op[t].n /\ op'[t].kind = op[t].kind /\ op'[t].seen = op[t].seen
  BY <1>4, <1>5 DEF Ops
<1>7. \A u \in Threads : Scope(u)' = Scope(u) /\ (Named(u)' <=> Named(u)) /\ Instances(u)' = Instances(u)
                         /\ Node(u)' = Node(u)
  BY <1>5, <1>6 DEF Scope, Named, Instances, Node
<1>8. /\ DOMAIN corrIdToExternId' = DOMAIN corrIdToExternId \cup {c}
      /\ corrIdToExternId'[c] = <<Scope(t), Instances(t)>>
      /\ \A b \in DOMAIN corrIdToExternId : corrIdToExternId'[b] = corrIdToExternId[b]
  BY <1>2, <1>4 DEF With
<1>9. CorrGrows /\ HomeGrows /\ Flying' = Flying /\ \A D, e : NodesStay(D, e) <=> NodesStay(D, e)
  BY <1>3, <1>8 DEF CorrGrows, HomeGrows, Flying
<1>10. TypesOK'
  <2>1. op' \in [Threads -> Ops]
    BY <1>0, <1>2, <1>5, <1>6 DEF TypesOK
  <2>2. pc' \in [Threads -> {"idle"} \cup OpPcs \cup CallPcs]
    BY <1>0, <1>2 DEF TypesOK, OpPcs
  <2>3. DOMAIN corrIdToExternId' \subseteq 1 .. nextCorr' - 1 /\ DOMAIN home \subseteq 1 .. nextCorr' - 1
        /\ nextCorr' \in Nat \ {0}
    BY <1>0, <1>1, <1>2, <1>4, <1>8 DEF TypesOK
  <2> QED BY <1>0, <1>3, <2>1, <2>2, <2>3 DEF TypesOK
<1>11. CallOK' /\ FlushOK' /\ pc'[Manager] \notin CallPcs
  BY <1>0, <1>2, <1>3, OpLeavesCalls DEF OpPcs
<1>12. ASSUME NEW u \in Threads, u # t PROVE ThreadOK(u)'
  <2>1. ThreadOK(u) /\ SameThread(u)
    BY <1>0, <1>2, <1>3, <1>5, <1>12 DEF ThreadsOK, SameThread, TypesOK
  <2>2. Scope(u) # Scope(t) /\ NodesStay(dataSet, Scope(u))
    BY <1>3, <1>7, <1>12 DEF Scope, NodesStay, Known
  <2>3. Unlaunched(u) => Unlaunched(u)'
    BY <1>7, <1>8, <2>2 DEF Unlaunched
  <2>4. LaunchingOK(u) => LaunchingOK(u)'
    BY <1>3, <1>5, <1>7, <1>8, <1>12, <2>2 DEF LaunchingOK
  <2> QED BY <2>1, <2>2, <2>3, <2>4, OthersStay
<1>13. ThreadOK(t)'
  <2>1. pc'[t] = "launching" /\ opInProgress'[t] = TRUE /\ InQueue(t)' /\ Told(t, dataSet)'
    BY <1>0, <1>2, <1>3, <1>7 DEF TypesOK, InQueue, Told, Known
  <2>2. Scope(t) \notin apiExternIds
    BY <1>0 DEF CorrsOK, Unlaunched
  <2>3. LaunchingOK(t)'
    BY <1>3, <1>4, <1>6, <1>7, <1>8, <2>2 DEF LaunchingOK
  <2>4. op'[t].seen = dataSet /\ op'[t].n # 0
    BY <1>0, <1>6 DEF ThreadsOK, ThreadOK, OpPcs
  <2> QED BY <1>3, <2>1, <2>3, <2>4 DEF ThreadOK, OpPcs
<1>14. CorrsOK'
  <2>1. ASSUME NEW b PROVE FlyingOf(b)' = FlyingOf(b) /\ (Launching(b) => Launching(b)')
    BY <1>0, <1>2, <1>5, <1>9 DEF FlyingOf, Launching, TypesOK
  <2>2. ASSUME NEW b \in DOMAIN corrIdToExternId
        PROVE  /\ corrIdToExternId'[b] = <<corrIdToExternId'[b][1], corrIdToExternId'[b][2]>>
               /\ ScopeOK(corrIdToExternId[b][1])' /\ CorrOK(b)'
    <3>1. /\ corrIdToExternId[b] = <<corrIdToExternId[b][1], corrIdToExternId[b][2]>>
          /\ ScopeOK(corrIdToExternId[b][1]) /\ CorrOK(b)
      BY <1>0 DEF CorrsOK
    <3>2. CorrOK(b)'
      BY <1>3, <1>8, <2>1, <3>1 DEF CorrOK
    <3>3. ScopeOK(corrIdToExternId[b][1])'
      <4> PICK e : e = corrIdToExternId[b][1]
        OBVIOUS
      <4>1. op'[e[1]].n = op[e[1]].n
        BY <1>5, <1>6, <3>1 DEF ScopeOK
      <4> QED BY <1>8, <3>1, <4>1 DEF ScopeOK
    <3> QED BY <1>8, <3>1, <3>2, <3>3
  <2>3. corrIdToExternId'[c][1] = Scope(t) /\ corrIdToExternId'[c][2] = Instances(t)
        /\ corrIdToExternId'[c] = <<Scope(t), Instances(t)>>
    BY <1>8
  <2>4. ScopeOK(corrIdToExternId[c][1])'
    <3>1. op[t].n \in Nat \ {0}
      <4>1. op[t].n \in Nat
        BY <1>5 DEF Ops
      <4> QED BY <1>0, <4>1 DEF ThreadsOK, ThreadOK, OpPcs
    <3> QED BY <1>6, <2>3, <3>1 DEF ScopeOK, Scope
  <2>5. CorrOK(c)'
    <3>1. FlyingOf(c) = {}
      BY <1>0, <1>4 DEF FlyingOf, CorrsOK
    <3>2. Instances(t) \in {1, 2}
      BY DEF Instances
    <3>4. PICK F \in Launches(c, Instances(t)) : TRUE
      <4>1. {<<c, 0>>} \in Launches(c, 1) /\ {<<c, 1>>, <<c, 2>>} \in Launches(c, 2)
        BY DEF Launches
      <4> QED BY <3>2, <4>1
    <3>3. Launching(c)'
      BY <1>0, <1>2, <1>6 DEF Launching, TypesOK
    <3> QED BY <2>1, <2>3, <3>1, <3>2, <3>3, <3>4 DEF CorrOK
  <2>6. \A b \in DOMAIN corrIdToExternId : corrIdToExternId'[b][1] # Scope(t)
    BY <1>8 DEF Unlaunched
  <2>7. apiExternIds' \subseteq {corrIdToExternId'[b][1] : b \in DOMAIN corrIdToExternId'}
    <3>1. apiExternIds' \subseteq apiExternIds \cup {Scope(t)}
      OBVIOUS
    <3>2. apiExternIds \subseteq {corrIdToExternId[b][1] : b \in DOMAIN corrIdToExternId}
      BY <1>0 DEF CorrsOK
    <3> QED BY <1>8, <2>3, <3>1, <3>2
  <2>8. \A b, a \in DOMAIN corrIdToExternId' : corrIdToExternId'[b][1] = corrIdToExternId'[a][1] => b = a
    BY <1>0, <1>8, <2>3, <2>6 DEF CorrsOK
  <2>9. \A k \in Flying : k = <<k[1], k[2]>> /\ k[2] \in 0 .. 2 /\ k[1] \in DOMAIN corrIdToExternId
                          /\ k[1] \in DOMAIN home
    BY <1>0 DEF CorrsOK
  <2> QED BY <1>0, <1>3, <1>8, <1>9, <2>2, <2>3, <2>4, <2>5, <2>7, <2>8, <2>9 DEF CorrsOK
<1>15. HomesOK'
  <2>1. ASSUME NEW k \in Flying
        PROVE  LET e == corrIdToExternId[k[1]][1]
               IN NodesStay(dataSet, e) /\ (e \in apiExternIds' <=> e \in apiExternIds)
    <3>1. corrIdToExternId'[k[1]][1] = corrIdToExternId[k[1]][1] /\ corrIdToExternId[k[1]][1] # Scope(t)
      BY <1>0, <1>8 DEF CorrsOK, Unlaunched
    <3> QED BY <1>3, <3>1 DEF NodesStay, Known
  <2> QED BY <1>0, <1>3, <1>9, <2>1, HomesStay
<1>16. WorkerOK' /\ Rec' = Rec
  <2>1. ASSUME worker.stage = "metric" PROVE NodesStay({worker.data}, Append(Extern, Rec))
    <3>1. Rec \in buffer /\ Rec' = Rec
      BY <1>0, <1>3, <2>1, RecIsDelivered, RecStays DEF WorkerOK, AtRecord
    <3>2. Extern' = Extern
      BY <1>0, <1>8, <3>1 DEF CorrsOK, Flying, Extern
    <3> QED BY <1>3, <3>1, <3>2 DEF NodesStay, Known
  <2> QED BY <1>0, <1>3, <1>9, <2>1, WorkerStays DEF WorkerOK
<1>17. CountsOK'
  BY <1>0, <1>3, <1>9, <1>10, <1>11, <1>16, CountsStay DEF CallPcs
<1> QED BY <1>10, <1>11, <1>12, <1>13, <1>14, <1>15, <1>16, <1>17 DEF IInv, ThreadsOK

(* Any other step of an op: what is its own is right, and the rest is as it was. *)
LEMMA OpStepKeeps ==
  ASSUME IInv, NEW t \in Threads, NEW x \in {"idle"} \cup OpPcs, pc[t] \in OpPcs \ {"launching"},
         pc' = [pc EXCEPT ![t] = x], op' \in [Threads -> Ops], op'[t].n = op[t].n,
         DOMAIN externIdQueue' = Threads, opInProgress' \in [Threads -> BOOLEAN],
         adding' \in [Threads -> SUBSET Sessions],
         \A u \in Threads : u # t =>
            /\ op'[u] = op[u] /\ externIdQueue'[u] = externIdQueue[u] /\ opInProgress'[u] = opInProgress[u]
            /\ adding'[u] = adding[u] /\ (pc[u] = "entering" => gil' = gil),
         UNCHANGED <<profilerVars, corrIdToExternId, apiExternIds, dataVars, sessionVars, gpuVars,
                     workerVars, ghostVars>>,
         ThreadOK(t)'
  PROVE  IInv'
<1>0. TypesOK /\ CallOK /\ FlushOK /\ ThreadsOK /\ CorrsOK /\ HomesOK /\ WorkerOK /\ CountsOK
  BY DEF IInv
<1>1. UNCHANGED <<started, dataSet, opCount, corrIdToExternId, apiExternIds, home, open, buffer, unreported,
                  scopeIdToContextId, counted, worker, done, crashed, due, call, active, live, nextCorr>>
  BY DEF profilerVars, dataVars, sessionVars, gpuVars, workerVars, ghostVars
<1>2. pc' \in [Threads -> {"idle"} \cup OpPcs \cup CallPcs]
  BY <1>0 DEF TypesOK
<1>3. TypesOK'
  BY <1>0, <1>1, <1>2 DEF TypesOK
<1>4. CallOK' /\ FlushOK' /\ pc'[Manager] \notin CallPcs
  BY <1>0, <1>1, OpLeavesCalls
<1>5. \A u \in Threads : u # t => ThreadOK(u)'
  <2>1. \A u \in Threads : u # t => SameThread(u)
    BY <1>0, <1>1 DEF SameThread, TypesOK
  <2> QED BY <1>0, <1>1, <2>1, OthersUnmoved
<1>6. \A c : Launching(c) => Launching(c)'
  BY <1>0 DEF Launching, TypesOK
<1>7. \A u \in Threads : op[u].n <= op'[u].n
  BY <1>0 DEF TypesOK, Ops
<1>8. CorrsOK' /\ HomesOK' /\ WorkerOK' /\ CountsOK'
  BY <1>0, <1>1, <1>3, <1>4, <1>6, <1>7, RecordsStay DEF CallPcs
<1> QED BY <1>3, <1>4, <1>5, <1>8 DEF IInv, ThreadsOK

LEMMA StartedKeeps ==
  ASSUME IInv, NEW t \in Threads, Started(t)
  PROVE  IInv'
<1>0. TypesOK /\ CallOK /\ ThreadsOK /\ ThreadOK(t)
  BY DEF IInv, ThreadsOK
<1>1. /\ pc[t] \in {"entering", "callback"} /\ adding[t] = {}
      /\ opInProgress' = [opInProgress EXCEPT ![t] = TRUE]
      /\ UNCHANGED <<externIdQueue, adding, profilerVars, dataVars, sessionVars, workerVars, ghostVars>>
  BY DEF Started
<1>2. InQueue(t) /\ Told(t, dataSet) /\ Unlaunched(t)
  BY <1>0, <1>1 DEF ThreadOK
<1>3. CASE pc[t] = "callback"
  BY <1>0, <1>1, <1>2, <1>3, CorrelateKeeps DEF Started, ThreadOK
<1>4. CASE pc[t] = "entering"
  <2>1. pc' = [pc EXCEPT ![t] = "entered"] /\ gil' = Nobody /\ UNCHANGED <<op, corrVars, gpuVars>>
    BY <1>4 DEF Started
  <2>2. UNCHANGED <<corrIdToExternId, apiExternIds, dataSet, scopeIdToContextId>>
    BY <1>1, <2>1 DEF corrVars, profilerVars, dataVars
  <2>3. \A u \in Threads : u # t => pc[u] # "entering"
    BY <1>0, <1>4 DEF ThreadsOK, ThreadOK
  <2>4. ThreadOK(t)'
    <3>1. pc'[t] = "entered" /\ opInProgress'[t] = TRUE
      BY <1>0, <1>1, <2>1 DEF TypesOK
    <3>2. /\ Scope(t)' = Scope(t) /\ (Named(t)' <=> Named(t)) /\ (InQueue(t)' <=> InQueue(t))
          /\ (Told(t, dataSet)' <=> Told(t, dataSet)) /\ (Unlaunched(t)' <=> Unlaunched(t))
      BY <1>1, <2>1, <2>2 DEF Scope, Named, InQueue, Told, Node, Known, Unlaunched
    <3> QED BY <1>0, <1>1, <1>2, <1>4, <2>1, <2>2, <3>1, <3>2 DEF ThreadOK, OpPcs
  <2> QED BY <1>0, <1>1, <1>4, <2>1, <2>2, <2>3, <2>4, OpStepKeeps DEF OpPcs, TypesOK
<1> QED BY <1>1, <1>3, <1>4

LEMMA CallbackEnterKeeps ==
  ASSUME IInv, NEW t \in Threads, CallbackEnter(t)
  PROVE  IInv'
<1>0. TypesOK /\ CallOK /\ ThreadsOK /\ ThreadOK(t)
  BY DEF IInv, ThreadsOK
<1>1. /\ pc[t] = "entered" /\ started
      /\ UNCHANGED <<gil, opInProgress, profilerVars, dataVars, sessionVars, workerVars, ghostVars>>
  BY DEF CallbackEnter
<1>2. CASE opInProgress[t]
  <2>1. correlate(t, externIdQueue[t]) /\ UNCHANGED <<externIdQueue, adding, apiExternIds>>
    BY <1>2 DEF CallbackEnter
  <2>2. Named(t) /\ InQueue(t) /\ Told(t, dataSet) /\ Unlaunched(t) /\ adding[t] = {}
    BY <1>0, <1>1, <1>2 DEF ThreadOK
  <2>3. opInProgress' = [opInProgress EXCEPT ![t] = TRUE]
    BY <1>0, <1>1, <1>2 DEF TypesOK
  <2> QED BY <1>1, <2>1, <2>2, <2>3, CorrelateKeeps
<1>3. CASE ~ opInProgress[t]
  <2>1. /\ pc' = [pc EXCEPT ![t] = "callback"]
        /\ externIdQueue' = [externIdQueue EXCEPT ![t] = Append(@, Scope(t))]
        /\ adding' = [adding EXCEPT ![t] = dataSet] /\ UNCHANGED <<op, corrVars, gpuVars>>
    BY <1>3 DEF CallbackEnter, StartOp
  <2>2. UNCHANGED <<corrIdToExternId, apiExternIds, dataSet, scopeIdToContextId, started>>
    BY <1>1, <2>1 DEF corrVars, profilerVars, dataVars
  <2>3. ~ Named(t) /\ NoQueue(t) /\ Unlaunched(t)
    BY <1>0, <1>1, <1>3 DEF ThreadOK
  <2>4. ThreadOK(t)'
    <3>1. pc'[t] = "callback" /\ externIdQueue'[t] = <<Scope(t)>> /\ adding'[t] = dataSet
      BY <1>0, <2>1, <2>3, QueueOfOne DEF TypesOK, NoQueue
    <3>2. Scope(t)' = Scope(t) /\ (Named(t)' <=> Named(t)) /\ (Unlaunched(t)' <=> Unlaunched(t))
      BY <2>1, <2>2 DEF Scope, Named, Unlaunched
    <3>3. InQueue(t)' /\ Told(t, dataSet \ adding[t])'
      BY <2>2, <3>1, <3>2 DEF InQueue, Told
    <3> QED BY <1>0, <1>1, <1>3, <2>1, <2>2, <2>3, <3>1, <3>2, <3>3 DEF ThreadOK, OpPcs
  <2>5. dataSet \in SUBSET Sessions /\ adding' \in [Threads -> SUBSET Sessions]
    BY <1>0, <2>1 DEF TypesOK
  <2> QED BY <1>0, <1>1, <2>1, <2>2, <2>4, <2>5, OpStepKeeps DEF OpPcs, TypesOK
<1> QED BY <1>2, <1>3

LEMMA NoLaunchKeeps ==
  ASSUME IInv, NEW t \in Threads, NoLaunch(t)
  PROVE  IInv'
<1>0. TypesOK /\ CallOK /\ ThreadsOK /\ ThreadOK(t)
  BY DEF IInv, ThreadsOK
<1>1. /\ pc[t] = "entered" /\ pc' = [pc EXCEPT ![t] = "launched"]
      /\ UNCHANGED <<op, gil, externIdQueue, opInProgress, adding, profilerVars, corrVars, dataVars,
                     sessionVars, gpuVars, workerVars, ghostVars>>
  BY DEF NoLaunch
<1>2. UNCHANGED <<corrIdToExternId, apiExternIds, dataSet>>
  BY <1>1 DEF corrVars, profilerVars
<1>3. ThreadOK(t)'
  <2>1. pc'[t] = "launched"
    BY <1>0, <1>1 DEF TypesOK
  <2>2. Scope(t)' = Scope(t) /\ (Named(t)' <=> Named(t)) /\ (InQueue(t)' <=> InQueue(t))
        /\ (NoQueue(t)' <=> NoQueue(t))
    BY <1>1 DEF Scope, Named, InQueue, NoQueue
  <2> QED BY <1>0, <1>1, <1>2, <2>1, <2>2 DEF ThreadOK, OpPcs
<1> QED BY <1>0, <1>1, <1>2, <1>3, OpStepKeeps DEF OpPcs, TypesOK

LEMMA CallbackExitKeeps ==
  ASSUME IInv, NEW t \in Threads, CallbackExit(t)
  PROVE  IInv'
<1>0. TypesOK /\ CallOK /\ ThreadsOK /\ ThreadOK(t)
  BY DEF IInv, ThreadsOK
<1>1. /\ pc[t] = "issued" /\ pc' = [pc EXCEPT ![t] = "launched"]
      /\ UNCHANGED <<op, gil, adding, profilerVars, corrIdToExternId, apiExternIds, dataVars,
                     sessionVars, gpuVars, workerVars, ghostVars>>
  BY DEF CallbackExit
<1>2. started /\ opInProgress[t] /\ InQueue(t) /\ dataSet' = dataSet
  BY <1>0, <1>1 DEF ThreadOK, profilerVars
<1>3. /\ externIdQueue' = [externIdQueue EXCEPT ![t] = Tail(@)]
      /\ opInProgress' = [opInProgress EXCEPT ![t] = FALSE]
  BY <1>2 DEF CallbackExit, StopOp
<1>4. ThreadOK(t)'
  <2>1. pc'[t] = "launched" /\ externIdQueue'[t] = <<>> /\ opInProgress'[t] = FALSE
    BY <1>0, <1>1, <1>2, <1>3, QueueOfOne DEF TypesOK, InQueue
  <2> QED BY <1>0, <1>1, <1>2, <2>1 DEF ThreadOK, OpPcs, NoQueue
<1> QED BY <1>0, <1>1, <1>2, <1>3, <1>4, OpStepKeeps DEF OpPcs, TypesOK

LEMMA ExitOpKeeps ==
  ASSUME IInv, NEW t \in Threads, ExitOp(t)
  PROVE  IInv'
<1>0. TypesOK /\ CallOK /\ ThreadsOK /\ ThreadOK(t)
  BY DEF IInv, ThreadsOK
<1>1. /\ pc[t] = "launched" /\ pc' = [pc EXCEPT ![t] = "idle"]
      /\ op' = [op EXCEPT ![t] = [n |-> @.n, kind |-> "none", corr |-> 0, seen |-> {}]]
      /\ UNCHANGED <<gil, adding, profilerVars, corrIdToExternId, apiExternIds, dataVars,
                     sessionVars, gpuVars, workerVars, ghostVars>>
  BY DEF ExitOp, corrVars
<1>2. dataSet' = dataSet
  BY <1>1 DEF profilerVars
<1>3. call.kind = "none" /\ pc[Manager] \notin CallPcs
  BY <1>0, <1>1, NoCallDuringOp DEF OpPcs
<1>4. opCount > 0 <=> dataSet # {}
  BY <1>0, <1>3, FS_EmptySet, FS_CardinalityType DEF CallOK, CallPcs, TypesOK
<1>5. /\ externIdQueue'[t] = <<>> /\ opInProgress'[t] = FALSE
      /\ DOMAIN externIdQueue' = Threads /\ opInProgress' \in [Threads -> BOOLEAN]
      /\ \A u \in Threads : u # t => externIdQueue'[u] = externIdQueue[u] /\ opInProgress'[u] = opInProgress[u]
  <2>1. CASE opInProgress[t]
    <3>1. Named(t) /\ InQueue(t) /\ op[t].seen = dataSet
      BY <1>0, <1>1, <2>1 DEF ThreadOK, OpPcs
    <3>2. /\ externIdQueue' = [externIdQueue EXCEPT ![t] = Tail(@)]
          /\ opInProgress' = [opInProgress EXCEPT ![t] = FALSE]
      BY <1>4, <2>1, <3>1 DEF ExitOp, StopOp, Named
    <3> QED BY <1>0, <3>1, <3>2, QueueOfOne DEF TypesOK, InQueue
  <2>2. CASE ~ opInProgress[t]
    <3>1. NoQueue(t)
      BY <1>0, <1>1, <2>2 DEF ThreadOK
    <3>2. UNCHANGED <<externIdQueue, opInProgress>>
      BY <2>2 DEF ExitOp, StopOp
    <3> QED BY <1>0, <2>2, <3>1, <3>2 DEF TypesOK, NoQueue
  <2> QED BY <2>1, <2>2
<1>6. /\ op' \in [Threads -> Ops] /\ op'[t].n = op[t].n
      /\ \A u \in Threads : u # t => op'[u] = op[u]
  <2>1. op[t].n \in Nat
    BY <1>0 DEF TypesOK, Ops
  <2> QED BY <1>0, <1>1, <2>1, OpsOf DEF TypesOK
<1>7. ThreadOK(t)'
  <2>1. pc'[t] = "idle"
    BY <1>0, <1>1 DEF TypesOK
  <2> QED BY <1>0, <1>1, <1>2, <1>5, <2>1 DEF ThreadOK, OpPcs, NoQueue
<1> QED BY <1>0, <1>1, <1>5, <1>6, <1>7, OpStepKeeps DEF OpPcs, TypesOK

LEMMA LaunchKeeps ==
  ASSUME IInv, NEW t \in Threads, Launch(t)
  PROVE  IInv'
<1>0. TypesOK /\ CallOK /\ FlushOK /\ ThreadsOK /\ CorrsOK /\ HomesOK /\ WorkerOK /\ CountsOK /\ ThreadOK(t)
  BY DEF IInv, ThreadsOK
<1>1. /\ pc[t] = "launching" /\ pc' = [pc EXCEPT ![t] = "issued"]
      /\ UNCHANGED <<op, gil, externIdQueue, opInProgress, adding, profilerVars, corrVars, dataVars,
                     sessionVars, nextCorr, done, workerVars>>
  BY DEF Launch
<1>2. UNCHANGED <<op, gil, externIdQueue, opInProgress, adding, started, dataSet, opCount, corrIdToExternId,
                  apiExternIds, scopeIdToContextId, counted, active, live, call, nextCorr, done,
                  buffer, worker, crashed>>
  BY <1>1 DEF profilerVars, corrVars, dataVars, sessionVars, workerVars
<1>3. PICK c : c = op[t].corr
  OBVIOUS
<1>4. PICK ks : ks = {c} \X (IF op[t].kind = "graph" THEN 1 .. 2 ELSE {0})
  OBVIOUS
<1>5. started /\ opInProgress[t] /\ InQueue(t) /\ Told(t, dataSet) /\ LaunchingOK(t) /\ op[t].seen = dataSet
      /\ op[t].n # 0 /\ adding[t] = {}
  BY <1>0, <1>1 DEF ThreadOK, OpPcs
<1>6. /\ c \in DOMAIN corrIdToExternId /\ c \notin DOMAIN home
      /\ corrIdToExternId[c] = <<Scope(t), Instances(t)>>
      /\ Scope(t) \in apiExternIds <=> ~ Named(t)
  BY <1>3, <1>5 DEF LaunchingOK
<1>7. \/ /\ open' = open \cup ks /\ home' = With(home, c, Node(t)) /\ unreported' = unreported
         /\ due' = [d \in Sessions |-> IF d \in op[t].seen \cap dataSet THEN due[d] \cup ks ELSE due[d]]
      \/ UNCHANGED <<open, home, due>> /\ unreported \subseteq unreported' /\ c \in unreported'
  BY <1>3, <1>4, <1>5 DEF Launch, Node, Named
<1>8. PICK new : /\ new = {} \/ new = ks
                 /\ open' = open \cup new /\ unreported \subseteq unreported' /\ DOMAIN due' = Sessions
                 /\ \A d \in Sessions : due'[d] \subseteq due[d] \cup new
                 /\ DOMAIN home' \subseteq DOMAIN home \cup {c}
                 /\ \A b \in DOMAIN home : b \in DOMAIN home' /\ home'[b] = home[b]
                 /\ new = {} => c \in unreported'
                 /\ new = ks => c \in DOMAIN home' /\ home'[c] = Node(t)
  <2>1. CASE /\ open' = open \cup ks /\ home' = With(home, c, Node(t)) /\ unreported' = unreported
             /\ due' = [d \in Sessions |-> IF d \in op[t].seen \cap dataSet THEN due[d] \cup ks ELSE due[d]]
    <3>1. ks # {}
      <4>1. <<c, 0>> \in ks \/ <<c, 1>> \in ks
        BY <1>4
      <4> QED BY <4>1
    <3>2. /\ DOMAIN home' = DOMAIN home \cup {c} /\ home'[c] = Node(t)
          /\ \A b \in DOMAIN home : home'[b] = home[b]
      BY <1>6, <2>1 DEF With
    <3>3. DOMAIN due' = Sessions /\ \A d \in Sessions : due'[d] \subseteq due[d] \cup ks
      BY <2>1
    <3> QED BY <2>1, <3>1, <3>2, <3>3
  <2>2. CASE UNCHANGED <<open, home, due>> /\ unreported \subseteq unreported' /\ c \in unreported'
    <3>1. ks # {}
      <4>1. <<c, 0>> \in ks \/ <<c, 1>> \in ks
        BY <1>4
      <4> QED BY <4>1
    <3> QED BY <1>0, <2>2, <3>1 DEF TypesOK
  <2> QED BY <1>7, <2>1, <2>2
<1>9. \A k \in new : k = <<k[1], k[2]>> /\ k[1] = c /\ k[2] \in 0 .. 2 /\ c \in DOMAIN home'
                     /\ (k[2] > 0 \/ op[t].kind # "graph")
                     /\ (k[2] = 0 \/ op[t].kind = "graph")
  BY <1>4, <1>8
<1>10. \A k \in Flying : k[1] # c
  BY <1>0, <1>6 DEF CorrsOK
<1>11. Flying' = Flying \cup new
  BY <1>2, <1>8 DEF Flying
<1>12. TypesOK'
  <2>1. pc' \in [Threads -> {"idle"} \cup OpPcs \cup CallPcs]
    BY <1>0, <1>1 DEF TypesOK, OpPcs
  <2>2. DOMAIN home' \subseteq 1 .. nextCorr - 1
    BY <1>0, <1>6, <1>8 DEF TypesOK
  <2> QED BY <1>0, <1>2, <1>8, <2>1, <2>2 DEF TypesOK
<1>13. CallOK' /\ FlushOK' /\ pc'[Manager] \notin CallPcs
  BY <1>0, <1>1, <1>2, OpLeavesCalls DEF OpPcs
<1>14. ASSUME NEW u \in Threads, u # t PROVE ThreadOK(u)'
  <2>1. ThreadOK(u) /\ SameThread(u)
    BY <1>0, <1>1, <1>2, <1>14 DEF ThreadsOK, SameThread, TypesOK
  <2>2. Scope(u) # Scope(t) /\ NodesStay(dataSet, Scope(u)) /\ Scope(u)' = Scope(u)
        /\ (Named(u)' <=> Named(u)) /\ Instances(u)' = Instances(u)
    BY <1>2, <1>14 DEF Scope, NodesStay, Known, Named, Instances
  <2>3. LaunchingOK(u) => LaunchingOK(u)'
    <3>1. LaunchingOK(u) => op[u].corr # c
      BY <1>6, <2>2 DEF LaunchingOK
    <3> QED BY <1>2, <1>8, <2>2, <3>1 DEF LaunchingOK
  <2> QED BY <1>2, <2>1, <2>2, <2>3, OthersStay DEF Unlaunched
<1>15. ThreadOK(t)'
  <2>1. pc'[t] = "issued" /\ (InQueue(t)' <=> InQueue(t))
    BY <1>0, <1>1, <1>2 DEF TypesOK, InQueue, Scope
  <2> QED BY <1>2, <1>5, <2>1 DEF ThreadOK, OpPcs
<1>16. CorrsOK'
  <2>1. ASSUME NEW b \in DOMAIN corrIdToExternId PROVE CorrOK(b)'
    <3>1. CorrOK(b)
      BY <1>0 DEF CorrsOK
    <3>2. CASE b = c
      <4>1. FlyingOf(c)' = new
        BY <1>9, <1>10, <1>11 DEF FlyingOf
      <4>2. Instances(t) \in {1, 2} /\ corrIdToExternId[c][2] = Instances(t)
        BY <1>6 DEF Instances
      <4>3. ks \in Launches(c, Instances(t))
        <5>1. CASE op[t].kind = "graph"
          <6>1. ks = {<<c, 1>>, <<c, 2>>} /\ Instances(t) = 2
            BY <1>4, <5>1 DEF Instances
          <6> QED BY <6>1 DEF Launches
        <5>2. CASE op[t].kind # "graph"
          <6>1. ks = {<<c, 0>>} /\ Instances(t) = 1
            BY <1>4, <5>2 DEF Instances
          <6> QED BY <6>1 DEF Launches
        <5> QED BY <5>1, <5>2
      <4> QED BY <1>2, <1>8, <3>2, <4>1, <4>2, <4>3 DEF CorrOK
    <3>3. CASE b # c
      <4>1. FlyingOf(b)' = FlyingOf(b)
        BY <1>9, <1>11, <3>3 DEF FlyingOf
      <4>2. Launching(b) => Launching(b)'
        BY <1>0, <1>1, <1>2, <1>3, <3>3 DEF Launching, TypesOK
      <4> QED BY <1>2, <1>8, <3>1, <4>1, <4>2 DEF CorrOK
    <3> QED BY <3>2, <3>3
  <2>2. open' \cap buffer = {}
    <3>1. open \cap buffer = {}
      BY <1>0 DEF CorrsOK
    <3> QED BY <1>8, <1>9, <1>10, <3>1 DEF Flying
  <2>3. \A k \in Flying' : k = <<k[1], k[2]>> /\ k[2] \in 0 .. 2 /\ k[1] \in DOMAIN corrIdToExternId
                           /\ k[1] \in DOMAIN home'
    BY <1>0, <1>6, <1>8, <1>9, <1>11 DEF CorrsOK
  <2>4. \A b \in DOMAIN corrIdToExternId : ScopeOK(corrIdToExternId[b][1])'
    BY <1>0, <1>2 DEF CorrsOK, ScopeOK
  <2> QED BY <1>0, <1>2, <2>1, <2>2, <2>3, <2>4 DEF CorrsOK
<1>17. HomesOK'
  <2> SUFFICES ASSUME NEW k \in Flying' PROVE HomeOK(k)'
    BY DEF HomesOK
  <2>1. CASE k \in Flying
    <3>1. HomeOK(k) /\ home'[k[1]] = home[k[1]]
      BY <1>0, <1>8, <2>1 DEF HomesOK, CorrsOK
    <3> QED BY <1>2, <3>1 DEF HomeOK, Known
  <2>2. CASE k \in new
    <3>1. k[1] = c /\ home'[c] = Node(t) /\ corrIdToExternId'[c][1] = Scope(t)
      BY <1>2, <1>6, <1>8, <1>9, <2>2
    <3>2. \A d \in dataSet' : Known(d, Scope(t))' /\ scopeIdToContextId'[d][Scope(t)] = Node(t)
      BY <1>2, <1>5 DEF Told, Known, Scope
    <3>3. Scope(t)[1] = t
      BY DEF Scope
    <3>4. CASE Named(t)
      <4>1. k[2] = 0 /\ Node(t) = <<t, <<Scope(t)>> >> /\ Scope(t) \notin apiExternIds'
        BY <1>2, <1>6, <1>9, <2>2, <3>4 DEF Named, Node
      <4> QED BY <1>2, <3>1, <3>2, <3>3, <4>1 DEF HomeOK, Scope
    <3>5. CASE ~ Named(t)
      <4>1. Node(t) = <<t, <<>> >> /\ Scope(t) \in apiExternIds'
        BY <1>2, <1>6, <3>5 DEF Node
      <4> QED BY <1>2, <3>1, <3>2, <3>3, <4>1 DEF HomeOK, Scope
    <3> QED BY <3>4, <3>5
  <2> QED BY <1>11, <2>1, <2>2
<1>18. CorrGrows /\ HomeGrows
  BY <1>2, <1>8 DEF CorrGrows, HomeGrows
<1>19. WorkerOK' /\ Rec' = Rec /\ AtRecord' = AtRecord
  <2>1. worker.stage = "metric" => NodesStay({worker.data}, Append(Extern, Rec))
    BY <1>2, RecStays DEF NodesStay, Known, Extern
  <2> QED BY <1>0, <1>2, <1>18, <2>1, WorkerStays DEF WorkerOK
<1>20. CountsOK'
  <2>1. ASSUME NEW d \in Sessions, NEW k \in DOMAIN counted[d] PROVE CountedOK(d, k)'
    <3>1. CountedOK(d, k)
      BY <1>0 DEF CountsOK
    <3>2. k[1] # c /\ home'[k[1]] = home[k[1]] /\ k[1] \in DOMAIN home'
      BY <1>6, <1>8, <3>1 DEF CountedOK
    <3>3. NodeOf(k)' = NodeOf(k) /\ k \notin open'
      BY <1>8, <1>9, <3>1, <3>2 DEF NodeOf, CountedOK
    <3> QED BY <1>2, <1>19, <3>1, <3>2, <3>3 DEF CountedOK
  <2>2. ASSUME NEW d \in dataSet, NEW k \in due'[d] PROVE DueOK(d, k)'
    <3>1. k \in due[d] \/ k \in new
      BY <1>0, <1>8 DEF TypesOK
    <3> QED BY <1>0, <1>2, <1>8, <1>19, <3>1 DEF CountsOK, DueOK
  <2> QED BY <1>2, <1>13, <2>1, <2>2 DEF CountsOK, CallPcs
<1> QED BY <1>12, <1>13, <1>14, <1>15, <1>16, <1>17, <1>19, <1>20 DEF IInv, ThreadsOK

-----------------------------------------------------------------------------
(* The steps of session calls. *)
LEMMA NoOpDuringCall ==
  ASSUME CallOK, pc[Manager] \in CallPcs
  PROVE  /\ call.kind \in {"activate", "deactivate", "finalize"} /\ \A t \in Threads : pc[t] \notin OpPcs
         /\ call = [kind |-> call.kind, s |-> call.s, submitted |-> call.submitted, retries |-> call.retries]
         /\ gil = Manager /\ call.s \in Sessions /\ call.s \in live
         /\ \A t \in Threads : t # Manager => pc[t] = "idle"
BY ProtonAssumption DEF CallOK, CallPcs, OpPcs

(* No thread is in an op, and none begins one. *)
LEMMA ThreadsRest ==
  ASSUME TypesOK, ThreadsOK, \A t \in Threads : pc[t] \notin OpPcs, NEW x \in {"idle"} \cup CallPcs,
         pc' = [pc EXCEPT ![Manager] = x], UNCHANGED <<externIdQueue, opInProgress, adding>>
  PROVE  ThreadsOK' /\ \A c : ~ Launching(c)
<1>1. ASSUME NEW t \in Threads PROVE ThreadOK(t)'
  <2>1. pc'[t] \notin OpPcs /\ pc'[t] \notin {"entering", "entered", "callback", "launching", "issued", "launched"}
    BY DEF TypesOK, OpPcs, CallPcs
  <2>2. NoQueue(t) /\ ~ opInProgress[t] /\ adding[t] = {}
    BY DEF ThreadsOK, ThreadOK, OpPcs
  <2> QED BY <2>1, <2>2 DEF ThreadOK, NoQueue, InQueue
<1> QED BY <1>1 DEF ThreadsOK, Launching, OpPcs

LEMMA ActivateKeeps ==
  ASSUME IInv, Quiet, NEW s \in Sessions, Activate(s)
  PROVE  IInv'
<1>0. TypesOK /\ CallOK /\ FlushOK /\ ThreadsOK /\ CorrsOK /\ HomesOK /\ WorkerOK /\ CountsOK
  BY DEF IInv
<1>1. /\ s \notin active /\ pc[Manager] = "idle" /\ \A t \in Threads : pc[t] = "idle"
      /\ gil = Nobody /\ gil' = Manager /\ pc' = [pc EXCEPT ![Manager] = "sync"]
      /\ call' = [kind |-> "activate", s |-> s, submitted |-> -1, retries |-> MaxRetries]
      /\ active' = active \cup {s} /\ live' = live \cup {s} /\ started' = TRUE
  BY DEF Activate, Call, At, Goto
<1>2. UNCHANGED <<op, externIdQueue, opInProgress, adding, dataSet, opCount, corrIdToExternId, apiExternIds,
                  nextCorr, open, done, unreported, buffer, worker, crashed, home, due>>
  BY DEF Activate, corrVars, gpuVars, workerVars, ghostVars
<1>3. call.kind = "none" /\ dataSet = active /\ active \subseteq live /\ pc[Manager] \notin CallPcs
  BY <1>0, <1>1, NoCallDuringOp, ProtonAssumption DEF CallOK
<1>4. /\ DOMAIN scopeIdToContextId' = Sessions /\ DOMAIN counted' = Sessions
      /\ \A d \in Sessions : d # s => /\ scopeIdToContextId'[d] = scopeIdToContextId[d]
                                      /\ counted'[d] = counted[d]
      /\ counted'[s] = <<>> \/ counted'[s] = counted[s]
  BY <1>0 DEF Activate, TypesOK
<1>5. pc'[Manager] = "sync" /\ \A t \in Threads : t # Manager => pc'[t] = "idle"
  BY <1>0, <1>1, ProtonAssumption DEF TypesOK
<1>6. s \notin dataSet /\ dataSet \subseteq Sessions
  BY <1>0, <1>1, <1>3 DEF TypesOK
<1>7. TypesOK'
  <2>1. pc' \in [Threads -> {"idle"} \cup OpPcs \cup CallPcs]
    BY <1>0, <1>1 DEF TypesOK, CallPcs
  <2> QED BY <1>0, <1>1, <1>2, <1>4, <2>1 DEF TypesOK
<1>8. CallOK'
  <2>1. call'.kind = "activate" /\ call'.s = s
    BY <1>1
  <2>2. opCount' = Cardinality(dataSet') /\ Cardinality(dataSet') \in Nat
    BY <1>0, <1>2, <1>3, FS_CardinalityType DEF CallOK, CallPcs, TypesOK
  <2>3. dataSet' = active' \ {s}
    BY <1>1, <1>2, <1>3
  <2>4. /\ call' = [kind |-> call'.kind, s |-> call'.s, submitted |-> call'.submitted, retries |-> call'.retries]
        /\ gil' = Manager /\ call'.s \in Sessions /\ call'.s \in live' /\ call'.s \in active'
        /\ active' \subseteq live'
    BY <1>1, <1>3, <2>1
  <2>5. opCount' = Cardinality(dataSet') + IF pc'[Manager] = "unregistered" THEN 1 ELSE 0
    BY <1>5, <2>2
  <2> QED BY <1>1, <1>5, <2>1, <2>3, <2>4, <2>5 DEF CallOK, CallPcs, Registered
<1>9. FlushOK'
  BY <1>5 DEF FlushOK
<1>10. ThreadsOK' /\ \A c : ~ Launching(c)
  BY <1>0, <1>1, <1>2, ThreadsRest DEF CallPcs, OpPcs
<1>11. CorrGrows /\ HomeGrows /\ \A e : NodesStay(dataSet, e)
  BY <1>2, <1>4, <1>6 DEF CorrGrows, HomeGrows, NodesStay, Known
<1>12. CorrsOK'
  BY <1>0, <1>2, <1>7, <1>10, <1>11, CorrsStay DEF TypesOK, Ops
<1>13. HomesOK'
  BY <1>0, <1>2, <1>11, HomesStay DEF Flying
<1>14. WorkerOK' /\ Rec' = Rec
  <2>1. worker.stage = "metric" => NodesStay({worker.data}, Append(Extern, Rec))
    <3>1. NodesStay(dataSet, Append(Extern, Rec))
      BY <1>11
    <3>2. worker.stage = "metric" => worker.data \in dataSet
      BY <1>0 DEF WorkerOK
    <3> QED BY <3>1, <3>2 DEF NodesStay
  <2> QED BY <1>0, <1>2, <1>11, <2>1, WorkerStays DEF WorkerOK
<1>15. CountsOK'
  <2>1. \A d \in Sessions : counted'[d] = counted[d] \/ (counted'[d] = <<>> /\ d \notin dataSet')
    BY <1>2, <1>4, <1>6
  <2> QED BY <1>0, <1>2, <1>5, <1>7, <1>11, <1>14, <2>1, CountsStay
<1> QED BY <1>7, <1>8, <1>9, <1>10, <1>12, <1>13, <1>14, <1>15 DEF IInv

(* What begins the end of a session. *)
LEMMA EndingKeeps ==
  ASSUME IInv, Quiet, NEW s \in live \cap Sessions, NEW kind \in {"deactivate", "finalize"},
         kind = "deactivate" => s \in active,
         Call(kind, s, IF s \in active THEN "sync" ELSE "stop"), active' = active \ {s},
         UNCHANGED <<op, externIdQueue, opInProgress, adding, profilerVars, corrVars, dataVars, live, gpuVars,
                     workerVars, ghostVars>>
  PROVE  IInv'
<1>0. TypesOK /\ CallOK /\ FlushOK /\ ThreadsOK /\ CorrsOK /\ HomesOK /\ WorkerOK /\ CountsOK
  BY DEF IInv
<1>1. PICK x : x = IF s \in active THEN "sync" ELSE "stop"
  OBVIOUS
<1>2. /\ pc[Manager] = "idle" /\ \A t \in Threads : pc[t] = "idle"
      /\ gil = Nobody /\ gil' = Manager /\ pc' = [pc EXCEPT ![Manager] = x]
      /\ call' = [kind |-> kind, s |-> s, submitted |-> -1, retries |-> MaxRetries]
  BY <1>1 DEF Call, At, Goto
<1>3. UNCHANGED <<op, externIdQueue, opInProgress, adding, started, dataSet, opCount, corrIdToExternId,
                  apiExternIds, scopeIdToContextId, counted, live, nextCorr, open, done, unreported, buffer,
                  worker, crashed, home, due>>
  BY DEF profilerVars, corrVars, dataVars, gpuVars, workerVars, ghostVars
<1>4. call.kind = "none" /\ dataSet = active /\ active \subseteq live /\ pc[Manager] \notin CallPcs
  BY <1>0, <1>2, NoCallDuringOp, ProtonAssumption DEF CallOK
<1>5. pc'[Manager] = x /\ \A t \in Threads : t # Manager => pc'[t] = "idle"
  BY <1>0, <1>2, ProtonAssumption DEF TypesOK
<1>6. TypesOK'
  <2>1. pc' \in [Threads -> {"idle"} \cup OpPcs \cup CallPcs]
    BY <1>0, <1>1, <1>2 DEF TypesOK, CallPcs
  <2> QED BY <1>0, <1>3, <2>1 DEF TypesOK
<1>7. CallOK'
  <2>1. call'.kind = kind /\ call'.s = s
    BY <1>2
  <2>2. opCount' = Cardinality(dataSet') /\ Cardinality(dataSet') \in Nat
    BY <1>0, <1>3, <1>4, FS_CardinalityType DEF CallOK, CallPcs, TypesOK
  <2>3. s \notin active' /\ dataSet' = IF x = "sync" THEN active' \cup {s} ELSE active'
    BY <1>1, <1>3, <1>4
  <2>4. /\ call' = [kind |-> call'.kind, s |-> call'.s, submitted |-> call'.submitted, retries |-> call'.retries]
        /\ gil' = Manager /\ call'.s \in Sessions /\ call'.s \in live' /\ active' \subseteq live'
    BY <1>2, <1>3, <1>4, <2>1
  <2>5. opCount' = Cardinality(dataSet') + IF pc'[Manager] = "unregistered" THEN 1 ELSE 0
    BY <1>1, <1>5, <2>2
  <2>6. dataSet' # {} => started'
    BY <1>0, <1>3 DEF CallOK
  <2> QED BY <1>1, <1>2, <1>5, <2>1, <2>3, <2>4, <2>5, <2>6 DEF CallOK, CallPcs, Registered
<1>8. FlushOK'
  BY <1>1, <1>5 DEF FlushOK
<1>9. ThreadsOK' /\ \A c : ~ Launching(c)
  BY <1>0, <1>1, <1>2, <1>3, ThreadsRest DEF CallPcs, OpPcs
<1>10. CorrsOK' /\ HomesOK' /\ WorkerOK' /\ CountsOK'
  BY <1>0, <1>1, <1>3, <1>5, <1>6, <1>9, RecordsStay DEF TypesOK, Ops
<1> QED BY <1>6, <1>7, <1>8, <1>9, <1>10 DEF IInv

LEMMA DeactivateKeeps ==
  ASSUME IInv, Quiet, NEW s \in Sessions, Deactivate(s)
  PROVE  IInv'
<1>1. s \in live /\ s \in active
  BY DEF IInv, CallOK, Deactivate
<1> QED BY <1>1, EndingKeeps DEF Deactivate

LEMMA FinalizeKeeps ==
  ASSUME IInv, Quiet, NEW s \in Sessions, Finalize(s)
  PROVE  IInv'
BY EndingKeeps DEF Finalize

(* A step of a call that flushes: the call is the same, and the data is registered. *)
LEMMA CallGoesOnRegistered ==
  ASSUME TypesOK, CallOK, pc[Manager] \in Registered, NEW x \in Registered, pc' = [pc EXCEPT ![Manager] = x],
         call' = [kind |-> call.kind, s |-> call.s, submitted |-> call'.submitted, retries |-> call'.retries],
         UNCHANGED <<gil, started, dataSet, opCount, active, live>>
  PROVE  CallOK' /\ pc'[Manager] = x
<1>1. call.kind \in {"activate", "deactivate", "finalize"}
  BY NoOpDuringCall DEF CallPcs, Registered
<1>2. pc'[Manager] = x /\ \A t \in Threads : t # Manager => pc'[t] = pc[t]
  BY ProtonAssumption DEF TypesOK
<1>3. call'.kind = call.kind /\ call'.s = call.s
  OBVIOUS
<1>4. x \in CallPcs /\ x # "unregistered" /\ pc[Manager] # "unregistered"
  BY DEF Registered, CallPcs
<1> QED BY <1>1, <1>2, <1>3, <1>4 DEF CallOK

LEMMA SynchronizeKeeps ==
  ASSUME IInv, Manager \in Current, Synchronize
  PROVE  IInv'
<1>0. TypesOK /\ CallOK /\ FlushOK /\ ThreadsOK /\ CorrsOK /\ HomesOK /\ WorkerOK /\ CountsOK
  BY DEF IInv
<1>1. pc[Manager] = "sync" /\ pc' = [pc EXCEPT ![Manager] = "flush"] /\ open \subseteq done
  BY DEF Synchronize, At, Goto
<1>2. UNCHANGED <<op, gil, externIdQueue, opInProgress, adding, started, dataSet, opCount, corrIdToExternId,
                  apiExternIds, scopeIdToContextId, counted, active, live, call, nextCorr, open, done,
                  unreported, buffer, worker, crashed, home, due>>
  BY DEF Synchronize, profilerVars, corrVars, dataVars, sessionVars, gpuVars, workerVars, ghostVars
<1>3. /\ call = [kind |-> call.kind, s |-> call.s, submitted |-> call.submitted, retries |-> call.retries]
      /\ \A t \in Threads : pc[t] \notin OpPcs
  BY <1>0, <1>1, NoOpDuringCall DEF CallPcs
<1>4. CallOK' /\ pc'[Manager] = "flush"
  BY <1>0, <1>1, <1>2, <1>3, CallGoesOnRegistered DEF Registered
<1>5. TypesOK'
  <2>1. pc' \in [Threads -> {"idle"} \cup OpPcs \cup CallPcs]
    BY <1>0, <1>1 DEF TypesOK, CallPcs
  <2> QED BY <1>0, <1>2, <2>1 DEF TypesOK
<1>6. FlushOK'
  BY <1>1, <1>2, <1>4 DEF FlushOK
<1>7. ThreadsOK' /\ \A c : ~ Launching(c)
  BY <1>0, <1>1, <1>2, <1>3, ThreadsRest DEF CallPcs
<1>8. CorrsOK' /\ HomesOK' /\ WorkerOK' /\ CountsOK'
  BY <1>0, <1>2, <1>4, <1>5, <1>7, RecordsStay DEF TypesOK, Ops
<1> QED BY <1>4, <1>5, <1>6, <1>7, <1>8 DEF IInv

LEMMA RetryKeeps ==
  ASSUME IInv, Retry
  PROVE  IInv'
<1>0. TypesOK /\ CallOK /\ FlushOK /\ ThreadsOK /\ CorrsOK /\ HomesOK /\ WorkerOK /\ CountsOK
  BY DEF IInv
<1>1. pc[Manager] = "flushing" /\ \E x \in {"flush", "force"} : pc' = [pc EXCEPT ![Manager] = x]
  BY DEF Retry, At, Goto
<1>2. UNCHANGED <<op, gil, externIdQueue, opInProgress, adding, started, dataSet, opCount, corrIdToExternId,
                  apiExternIds, scopeIdToContextId, counted, active, live, nextCorr, open, done,
                  unreported, buffer, worker, crashed, home, due>>
  BY DEF Retry, profilerVars, corrVars, dataVars, gpuVars, workerVars, ghostVars
<1>3. /\ call = [kind |-> call.kind, s |-> call.s, submitted |-> call.submitted, retries |-> call.retries]
      /\ \A t \in Threads : pc[t] \notin OpPcs
  BY <1>0, <1>1, NoOpDuringCall DEF CallPcs
<1>4. call' = [kind |-> call.kind, s |-> call.s, submitted |-> call'.submitted, retries |-> call'.retries]
  <2>1. \/ call' = call
        \/ \E m : call' = [call EXCEPT !.submitted = m, !.retries = @ - 1]
    BY DEF Retry
  <2>2. CASE call' = call
    BY <1>3, <2>2
  <2>3. ASSUME NEW m, call' = [call EXCEPT !.submitted = m, !.retries = @ - 1]
        PROVE  call' = [kind |-> call.kind, s |-> call.s, submitted |-> call'.submitted, retries |-> call'.retries]
    BY <1>3, <2>3
  <2> QED BY <2>1, <2>2, <2>3
<1>5. PICK x \in {"flush", "force"} : pc' = [pc EXCEPT ![Manager] = x]
  BY <1>1
<1>6. CallOK' /\ pc'[Manager] = x
  BY <1>0, <1>1, <1>2, <1>4, <1>5, CallGoesOnRegistered DEF Registered
<1>7. TypesOK'
  <2>1. pc' \in [Threads -> {"idle"} \cup OpPcs \cup CallPcs]
    BY <1>0, <1>5 DEF TypesOK, CallPcs
  <2> QED BY <1>0, <1>2, <2>1 DEF TypesOK
<1>8. FlushOK'
  BY <1>0, <1>1, <1>2, <1>6 DEF FlushOK
<1>9. ThreadsOK' /\ \A c : ~ Launching(c)
  BY <1>0, <1>5, <1>2, <1>3, ThreadsRest DEF CallPcs
<1>10. CorrsOK' /\ HomesOK' /\ WorkerOK' /\ CountsOK'
  BY <1>0, <1>2, <1>6, <1>7, <1>9, RecordsStay DEF TypesOK, Ops
<1> QED BY <1>6, <1>7, <1>8, <1>9, <1>10 DEF IInv

(* CUPTI delivers records that are complete. *)
LEMMA DeliverKeeps ==
  ASSUME TypesOK, TypesOK', CorrsOK, HomesOK, WorkerOK, CountsOK,
         NEW D, D \subseteq open \cap done, Deliver(D), \A c : Launching(c) => Launching(c)',
         pc'[Manager] = "unregistered" => pc[Manager] = "unregistered",
         UNCHANGED <<op, corrIdToExternId, apiExternIds, dataSet, scopeIdToContextId, counted, home, due, call>>
  PROVE  CorrsOK' /\ HomesOK' /\ WorkerOK' /\ CountsOK' /\ open' = open \ D /\ done' = done
<1>1. /\ worker.stage = "idle" /\ open' = open \ D /\ buffer' = D
      /\ worker' = IF D = {} THEN worker ELSE [worker EXCEPT !.stage = "called"]
      /\ UNCHANGED <<done, unreported, crashed>>
  BY DEF Deliver
<1>2. worker = Idle /\ buffer = {} /\ ~ crashed
  BY <1>1 DEF WorkerOK
<1>3. Flying' = Flying /\ \A c : FlyingOf(c)' = FlyingOf(c)
  BY <1>1, <1>2 DEF Flying, FlyingOf
<1>4. CorrsOK'
  <2>1. ASSUME NEW c \in DOMAIN corrIdToExternId PROVE CorrOK(c)' /\ ScopeOK(corrIdToExternId[c][1])'
    <3>1. CorrOK(c) /\ ScopeOK(corrIdToExternId[c][1])
      BY DEF CorrsOK
    <3> QED BY <1>1, <1>3, <3>1 DEF CorrOK, ScopeOK
  <2> QED BY <1>1, <1>3, <2>1 DEF CorrsOK
<1>5. HomesOK'
  BY <1>3 DEF HomesOK, HomeOK, Known
<1>6. worker'.snap = {} /\ worker'.datas = {} /\ worker'.stage = (IF D = {} THEN "idle" ELSE "called")
      /\ worker' = [stage |-> worker'.stage, snap |-> {}, datas |-> {}, data |-> Nobody, scope |-> <<>>, max |-> 0]
  BY <1>1, <1>2 DEF Idle
<1>7. WorkerOK'
  <2>1. D = {} => worker' = Idle
    BY <1>1, <1>2
  <2> QED BY <1>1, <1>2, <1>6, <2>1 DEF WorkerOK, AtRecord
<1>8. CountsOK'
  <2>1. ASSUME NEW d \in Sessions, NEW k \in DOMAIN counted[d] PROVE CountedOK(d, k)'
    <3>1. CountedOK(d, k)
      BY DEF CountsOK
    <3>2. NodeOf(k)' = NodeOf(k)
      BY DEF NodeOf
    <3> QED BY <1>1, <3>1, <3>2 DEF CountedOK
  <2>2. ASSUME NEW d \in dataSet, NEW k \in due[d] PROVE DueOK(d, k)'
    <3>1. DueOK(d, k)
      BY DEF CountsOK
    <3>2. k \in DOMAIN counted[d] \/ k \in open
      BY <1>2, <3>1 DEF DueOK
    <3>3. k \in open => k \in open' \/ (k \in buffer' /\ worker'.stage = "called")
      BY <1>1, <1>6
    <3> QED BY <1>6, <3>2, <3>3 DEF DueOK, AtRecord
  <2> QED BY <2>1, <2>2 DEF CountsOK
<1> QED BY <1>1, <1>4, <1>5, <1>7, <1>8

LEMMA FlushAllKeeps ==
  ASSUME IInv, FlushAll
  PROVE  IInv'
<1>0. TypesOK /\ CallOK /\ FlushOK /\ ThreadsOK /\ CorrsOK /\ HomesOK /\ WorkerOK /\ CountsOK
  BY DEF IInv
<1>1. pc[Manager] = "flush" /\ pc' = [pc EXCEPT ![Manager] = "flushing"]
  BY DEF FlushAll, At, Goto
<1>2. UNCHANGED <<op, gil, externIdQueue, opInProgress, adding, started, dataSet, opCount, corrIdToExternId,
                  apiExternIds, scopeIdToContextId, counted, active, live, call, nextCorr, home, due>>
  BY DEF FlushAll, Deliver, profilerVars, corrVars, dataVars, sessionVars, ghostVars
<1>3. PICK D : D \subseteq open \cap done /\ Deliver(D)
  BY DEF FlushAll, Complete
<1>4. /\ call = [kind |-> call.kind, s |-> call.s, submitted |-> call.submitted, retries |-> call.retries]
      /\ \A t \in Threads : pc[t] \notin OpPcs
  BY <1>0, <1>1, NoOpDuringCall DEF CallPcs
<1>5. CallOK' /\ pc'[Manager] = "flushing"
  BY <1>0, <1>1, <1>2, <1>4, CallGoesOnRegistered DEF Registered
<1>6. TypesOK'
  <2>1. pc' \in [Threads -> {"idle"} \cup OpPcs \cup CallPcs]
    BY <1>0, <1>1 DEF TypesOK, CallPcs
  <2> QED BY <1>0, <1>2, <2>1 DEF TypesOK
<1>7. ThreadsOK' /\ \A c : ~ Launching(c)
  BY <1>0, <1>1, <1>2, <1>4, ThreadsRest DEF CallPcs
<1>8. CorrsOK' /\ HomesOK' /\ WorkerOK' /\ CountsOK' /\ open' = open \ D /\ done' = done
  BY <1>0, <1>2, <1>3, <1>5, <1>6, <1>7, DeliverKeeps
<1>9. FlushOK'
  BY <1>0, <1>1, <1>5, <1>8 DEF FlushOK
<1> QED BY <1>5, <1>6, <1>7, <1>8, <1>9 DEF IInv

LEMMA FlushForcedKeeps ==
  ASSUME IInv, FlushForced
  PROVE  IInv'
<1>0. TypesOK /\ CallOK /\ FlushOK /\ ThreadsOK /\ CorrsOK /\ HomesOK /\ WorkerOK /\ CountsOK
  BY DEF IInv
<1>1. pc[Manager] = "force" /\ pc' = [pc EXCEPT ![Manager] = "forced"] /\ Deliver(open)
  BY DEF FlushForced, At, Goto
<1>2. UNCHANGED <<op, gil, externIdQueue, opInProgress, adding, started, dataSet, opCount, corrIdToExternId,
                  apiExternIds, scopeIdToContextId, counted, active, live, call, nextCorr, home, due>>
  BY DEF FlushForced, Deliver, profilerVars, corrVars, dataVars, sessionVars, ghostVars
<1>3. open \subseteq open \cap done
  BY <1>0, <1>1 DEF FlushOK
<1>4. /\ call = [kind |-> call.kind, s |-> call.s, submitted |-> call.submitted, retries |-> call.retries]
      /\ \A t \in Threads : pc[t] \notin OpPcs
  BY <1>0, <1>1, NoOpDuringCall DEF CallPcs
<1>5. CallOK' /\ pc'[Manager] = "forced"
  BY <1>0, <1>1, <1>2, <1>4, CallGoesOnRegistered DEF Registered
<1>6. TypesOK'
  <2>1. pc' \in [Threads -> {"idle"} \cup OpPcs \cup CallPcs]
    BY <1>0, <1>1 DEF TypesOK, CallPcs
  <2> QED BY <1>0, <1>2, <2>1 DEF TypesOK
<1>7. ThreadsOK' /\ \A c : ~ Launching(c)
  BY <1>0, <1>1, <1>2, <1>4, ThreadsRest DEF CallPcs
<1>8. CorrsOK' /\ HomesOK' /\ WorkerOK' /\ CountsOK' /\ open' = open \ open
  BY <1>0, <1>1, <1>2, <1>3, <1>5, <1>6, <1>7, DeliverKeeps
<1>9. FlushOK'
  BY <1>5, <1>8 DEF FlushOK
<1> QED BY <1>5, <1>6, <1>7, <1>8, <1>9 DEF IInv

LEMMA BufferFullKeeps ==
  ASSUME IInv, BufferFull
  PROVE  IInv'
<1>0. TypesOK /\ CallOK /\ FlushOK /\ ThreadsOK /\ CorrsOK /\ HomesOK /\ WorkerOK /\ CountsOK
  BY DEF IInv
<1>1. UNCHANGED <<pc, op, gil, externIdQueue, opInProgress, adding, started, dataSet, opCount, corrIdToExternId,
                  apiExternIds, scopeIdToContextId, counted, active, live, call, nextCorr, home, due>>
  BY DEF BufferFull, Deliver, threadVars, profilerVars, corrVars, dataVars, sessionVars, ghostVars
<1>2. PICK D : D \subseteq open \cap done /\ Deliver(D)
  BY DEF BufferFull, Complete
<1>3. TypesOK'
  BY <1>0, <1>1 DEF TypesOK
<1>4. CallOK'
  BY <1>0, <1>1, CallsStay
<1>5. \A t \in Threads : ThreadOK(t)'
  <2> SUFFICES ASSUME NEW t \in Threads PROVE ThreadOK(t)'
    OBVIOUS
  <2>1. ThreadOK(t) /\ SameThread(t)
    BY <1>0, <1>1 DEF ThreadsOK, SameThread
  <2>2. /\ NodesStay(dataSet, Scope(t)) /\ Scope(t)' = Scope(t) /\ (Named(t)' <=> Named(t))
        /\ Instances(t)' = Instances(t)
    BY <1>1 DEF NodesStay, Known, Scope, Named, Instances
  <2> QED BY <1>1, <2>1, <2>2, OthersStay DEF Unlaunched, LaunchingOK
<1>6. \A c : Launching(c) => Launching(c)'
  BY <1>1 DEF Launching
<1>7. CorrsOK' /\ HomesOK' /\ WorkerOK' /\ CountsOK' /\ open' = open \ D /\ done' = done
  BY <1>0, <1>1, <1>2, <1>3, <1>6, DeliverKeeps
<1>8. FlushOK'
  BY <1>0, <1>1, <1>7 DEF FlushOK
<1> QED BY <1>3, <1>4, <1>5, <1>7, <1>8 DEF IInv, ThreadsOK

LEMMA RegisterKeeps ==
  ASSUME IInv, Register
  PROVE  IInv'
<1>0. TypesOK /\ CallOK /\ FlushOK /\ ThreadsOK /\ CorrsOK /\ HomesOK /\ WorkerOK /\ CountsOK
  BY DEF IInv
<1>1. /\ pc[Manager] = "forced" /\ worker.stage = "idle" /\ call.kind = "activate"
      /\ dataSet' = dataSet \cup {call.s} /\ opCount' = opCount + 1 /\ due' = [due EXCEPT ![call.s] = {}]
      /\ pc' = [pc EXCEPT ![Manager] = "idle"] /\ gil' = Nobody /\ call' = [kind |-> "none"]
  BY DEF Register, At, Return, Goto
<1>2. UNCHANGED <<op, externIdQueue, opInProgress, adding, started, corrIdToExternId, apiExternIds,
                  scopeIdToContextId, counted, active, live, nextCorr, open, done, unreported, buffer, worker,
                  crashed, home>>
  BY DEF Register, corrVars, dataVars, gpuVars, workerVars
<1>3. /\ call.s \in Sessions /\ \A t \in Threads : pc[t] \notin OpPcs
      /\ \A t \in Threads : t # Manager => pc[t] = "idle"
  BY <1>0, <1>1, NoOpDuringCall DEF CallPcs
<1>4. started /\ call.s \in active /\ dataSet = active \ {call.s} /\ active \subseteq live
  BY <1>0, <1>1 DEF CallOK
<1>5. open = {} /\ buffer = {} /\ worker = Idle
  BY <1>0, <1>1 DEF FlushOK, WorkerOK
<1>6. pc'[Manager] = "idle" /\ \A t \in Threads : t # Manager => pc'[t] = "idle"
  BY <1>0, <1>1, <1>3, ProtonAssumption DEF TypesOK
<1>7. TypesOK'
  <2>1. pc' \in [Threads -> {"idle"} \cup OpPcs \cup CallPcs]
    BY <1>0, <1>1 DEF TypesOK
  <2>2. IsFiniteSet(dataSet') /\ dataSet' \subseteq Sessions
    BY <1>0, <1>1, <1>3, FS_AddElement DEF TypesOK
  <2> QED BY <1>0, <1>1, <1>2, <2>1, <2>2 DEF TypesOK
<1>8. CallOK'
  <2>1. opCount' = Cardinality(dataSet') + 0
    <3>1. Cardinality(dataSet') = Cardinality(dataSet) + 1 /\ Cardinality(dataSet) \in Nat
      BY <1>0, <1>1, <1>4, FS_AddElement, FS_CardinalityType DEF TypesOK
    <3>2. opCount = Cardinality(dataSet) + 0
      BY <1>0, <1>1 DEF CallOK
    <3> QED BY <1>1, <3>1, <3>2
  <2>2. dataSet' = active'
    BY <1>1, <1>2, <1>4
  <2>3. call'.kind = "none"
    BY <1>1
  <2> QED BY <1>2, <1>4, <1>6, <2>1, <2>2, <2>3 DEF CallOK, CallPcs
<1>9. FlushOK'
  BY <1>6 DEF FlushOK
<1>10. ThreadsOK' /\ \A c : ~ Launching(c)
  BY <1>0, <1>1, <1>2, <1>3, ThreadsRest
<1>11. HomeGrows /\ CorrGrows /\ Rec' = Rec
  BY <1>2, RecStays DEF HomeGrows, CorrGrows
<1>12. CorrsOK'
  BY <1>0, <1>2, <1>7, <1>10, <1>11, CorrsStay DEF TypesOK, Ops
<1>13. HomesOK'
  BY <1>2, <1>5 DEF HomesOK, Flying
<1>14. WorkerOK'
  BY <1>0, <1>2, <1>5 DEF WorkerOK, AtRecord, Idle
<1>15. CountsOK'
  <2>1. \A d \in dataSet' : due'[d] = {} \/ (d \in dataSet /\ due'[d] = due[d])
    BY <1>0, <1>1, <1>3 DEF TypesOK
  <2> QED BY <1>0, <1>2, <1>6, <1>7, <1>11, <2>1, CountsStay
<1> QED BY <1>7, <1>8, <1>9, <1>10, <1>12, <1>13, <1>14, <1>15 DEF IInv

LEMMA UnregisterKeeps ==
  ASSUME IInv, Unregister
  PROVE  IInv'
<1>0. TypesOK /\ CallOK /\ FlushOK /\ ThreadsOK /\ CorrsOK /\ HomesOK /\ WorkerOK /\ CountsOK
  BY DEF IInv
<1>1. /\ pc[Manager] = "forced" /\ worker.stage = "idle" /\ call.kind # "activate"
      /\ dataSet' = dataSet \ {call.s} /\ pc' = [pc EXCEPT ![Manager] = "unregistered"]
  BY DEF Unregister, At, Goto
<1>2. UNCHANGED <<op, gil, externIdQueue, opInProgress, adding, started, opCount, corrIdToExternId, apiExternIds,
                  scopeIdToContextId, counted, active, live, call, nextCorr, open, done, unreported, buffer,
                  worker, crashed, home, due>>
  BY DEF Unregister, corrVars, dataVars, sessionVars, gpuVars, workerVars, ghostVars
<1>3. /\ call.s \in Sessions /\ \A t \in Threads : pc[t] \notin OpPcs /\ call.kind \in {"deactivate", "finalize"}
      /\ \A t \in Threads : t # Manager => pc[t] = "idle"
  BY <1>0, <1>1, NoOpDuringCall DEF CallPcs
<1>4. call.s \notin active /\ dataSet = active \cup {call.s}
  BY <1>0, <1>1, <1>3, ProtonAssumption DEF CallOK, Registered
<1>5. open = {} /\ buffer = {} /\ worker = Idle
  BY <1>0, <1>1 DEF FlushOK, WorkerOK
<1>6. pc'[Manager] = "unregistered" /\ \A t \in Threads : t # Manager => pc'[t] = "idle"
  BY <1>0, <1>1, <1>3, ProtonAssumption DEF TypesOK
<1>7. TypesOK'
  <2>1. pc' \in [Threads -> {"idle"} \cup OpPcs \cup CallPcs]
    BY <1>0, <1>1 DEF TypesOK, CallPcs
  <2>2. IsFiniteSet(dataSet') /\ dataSet' \subseteq Sessions
    BY <1>0, <1>1, <1>3, FS_RemoveElement DEF TypesOK
  <2> QED BY <1>0, <1>1, <1>2, <2>1, <2>2 DEF TypesOK
<1>8. CallOK'
  <2>1. opCount' = Cardinality(dataSet') + 1
    <3>1. Cardinality(dataSet') = Cardinality(dataSet) - 1 /\ Cardinality(dataSet) \in Nat
      BY <1>0, <1>1, <1>4, FS_RemoveElement, FS_CardinalityType DEF TypesOK
    <3>2. opCount = Cardinality(dataSet) + 0
      BY <1>0, <1>1 DEF CallOK
    <3> QED BY <1>2, <3>1, <3>2
  <2>2. dataSet' = active'
    BY <1>1, <1>2, <1>4
  <2>3. dataSet' # {} => started'
    BY <1>0, <1>1, <1>2 DEF CallOK
  <2> QED BY <1>0, <1>1, <1>2, <1>3, <1>4, <1>6, <2>1, <2>2, <2>3 DEF CallOK, CallPcs, Registered
<1>9. FlushOK'
  BY <1>6 DEF FlushOK
<1>10. ThreadsOK' /\ \A c : ~ Launching(c)
  BY <1>0, <1>1, <1>2, <1>3, ThreadsRest DEF CallPcs
<1>11. HomeGrows /\ CorrGrows /\ Rec' = Rec
  BY <1>2, RecStays DEF HomeGrows, CorrGrows
<1>12. CorrsOK'
  BY <1>0, <1>2, <1>7, <1>10, <1>11, CorrsStay DEF TypesOK, Ops
<1>13. HomesOK'
  BY <1>2, <1>5 DEF HomesOK, Flying
<1>14. WorkerOK'
  BY <1>0, <1>2, <1>5 DEF WorkerOK, AtRecord, Idle
<1>15. CountsOK'
  <2>1. ASSUME NEW d \in Sessions, NEW k \in DOMAIN counted[d] PROVE CountedOK(d, k)'
    <3>1. CountedOK(d, k)
      BY <1>0 DEF CountsOK
    <3>2. NodeOf(k)' = NodeOf(k)
      BY <1>2 DEF NodeOf
    <3> QED BY <1>2, <1>5, <3>1, <3>2 DEF CountedOK
  <2>2. ASSUME NEW d \in dataSet, NEW k \in due[d] PROVE k \in DOMAIN counted[d]
    <3>1. DueOK(d, k)
      BY <1>0 DEF CountsOK
    <3> QED BY <1>5, <3>1 DEF DueOK
  <2>3. \A d \in dataSet' : \A k \in due[d] : DueOK(d, k)'
    BY <1>1, <1>2, <2>2 DEF DueOK
  <2> QED BY <1>2, <1>4, <2>1, <2>2, <2>3 DEF CountsOK
<1> QED BY <1>7, <1>8, <1>9, <1>10, <1>12, <1>13, <1>14, <1>15 DEF IInv

LEMMA ClearKeeps ==
  ASSUME IInv, Clear
  PROVE  IInv'
<1>0. TypesOK /\ CallOK /\ FlushOK /\ ThreadsOK /\ CorrsOK /\ HomesOK /\ WorkerOK /\ CountsOK
  BY DEF IInv
<1>1. /\ pc[Manager] = "unregistered" /\ opCount' = opCount - 1
      /\ scopeIdToContextId' = [scopeIdToContextId EXCEPT ![call.s] = <<>>]
  BY DEF Clear, At
<1>2. UNCHANGED <<op, externIdQueue, opInProgress, adding, started, dataSet, corrIdToExternId, apiExternIds,
                  counted, active, live, nextCorr, open, done, unreported, buffer, worker, crashed, home, due>>
  BY DEF Clear, corrVars, gpuVars, workerVars, ghostVars
<1>3. /\ call.s \in Sessions /\ \A t \in Threads : pc[t] \notin OpPcs
      /\ \A t \in Threads : t # Manager => pc[t] = "idle"
  BY <1>0, <1>1, NoOpDuringCall DEF CallPcs
<1>4. call.kind \in {"deactivate", "finalize"} /\ call.s \notin active /\ dataSet = active
  BY <1>0, <1>1 DEF CallOK, Registered, CallPcs
<1>5. \/ call.kind = "finalize" /\ pc' = [pc EXCEPT ![Manager] = "stop"] /\ UNCHANGED <<gil, call>>
      \/ pc' = [pc EXCEPT ![Manager] = "idle"] /\ gil' = Nobody /\ call' = [kind |-> "none"]
  BY DEF Clear, Return, Goto
<1>6. PICK x \in {"stop", "idle"} : pc' = [pc EXCEPT ![Manager] = x]
  BY <1>5
<1>7. pc'[Manager] = x /\ \A t \in Threads : t # Manager => pc'[t] = "idle"
  BY <1>0, <1>3, <1>6, ProtonAssumption DEF TypesOK
<1>8. TypesOK'
  <2>1. pc' \in [Threads -> {"idle"} \cup OpPcs \cup CallPcs]
    BY <1>0, <1>6 DEF TypesOK, CallPcs
  <2> QED BY <1>0, <1>1, <1>2, <2>1 DEF TypesOK
<1>9. CallOK'
  <2>1. opCount' = Cardinality(dataSet') + 0
    <3>1. Cardinality(dataSet) \in Nat
      BY <1>0, FS_CardinalityType DEF TypesOK
    <3>2. opCount = Cardinality(dataSet) + 1
      BY <1>0, <1>1 DEF CallOK
    <3> QED BY <1>1, <1>2, <3>1, <3>2
  <2>2. dataSet' = active' /\ (dataSet' # {} => started') /\ active' \subseteq live'
    BY <1>0, <1>2, <1>4 DEF CallOK
  <2>3. CASE pc' = [pc EXCEPT ![Manager] = "stop"] /\ call.kind = "finalize" /\ UNCHANGED <<gil, call>>
    <3>1. pc'[Manager] = "stop"
      BY <1>0, <2>3, ProtonAssumption DEF TypesOK
    <3> QED BY <1>0, <1>1, <1>2, <1>3, <1>4, <1>7, <2>1, <2>2, <2>3, <3>1 DEF CallOK, CallPcs, Registered
  <2>4. CASE pc' = [pc EXCEPT ![Manager] = "idle"] /\ call' = [kind |-> "none"]
    <3>1. pc'[Manager] = "idle" /\ call'.kind = "none"
      BY <1>0, <2>4, ProtonAssumption DEF TypesOK
    <3> QED BY <1>7, <2>1, <2>2, <3>1 DEF CallOK, CallPcs
  <2> QED BY <1>5, <2>3, <2>4
<1>10. FlushOK'
  BY <1>7 DEF FlushOK
<1>11. ThreadsOK' /\ \A c : ~ Launching(c)
  BY <1>0, <1>2, <1>3, <1>6, ThreadsRest DEF CallPcs
<1>12. HomeGrows /\ CorrGrows /\ \A e : NodesStay(dataSet, e)
  <2>1. \A d \in dataSet : scopeIdToContextId'[d] = scopeIdToContextId[d]
    BY <1>0, <1>1, <1>4 DEF TypesOK
  <2> QED BY <1>2, <2>1 DEF HomeGrows, CorrGrows, NodesStay, Known
<1>13. CorrsOK'
  BY <1>0, <1>2, <1>8, <1>11, <1>12, CorrsStay DEF TypesOK, Ops
<1>14. HomesOK'
  BY <1>0, <1>2, <1>12, HomesStay DEF Flying
<1>15. WorkerOK' /\ Rec' = Rec
  <2>1. worker.stage = "metric" => NodesStay({worker.data}, Append(Extern, Rec))
    <3>1. NodesStay(dataSet, Append(Extern, Rec))
      BY <1>12
    <3>2. worker.stage = "metric" => worker.data \in dataSet
      BY <1>0 DEF WorkerOK
    <3> QED BY <3>1, <3>2 DEF NodesStay
  <2> QED BY <1>0, <1>2, <1>12, <2>1, WorkerStays DEF WorkerOK
<1>16. CountsOK'
  BY <1>0, <1>2, <1>7, <1>8, <1>12, <1>15, CountsStay
<1> QED BY <1>8, <1>9, <1>10, <1>11, <1>13, <1>14, <1>15, <1>16 DEF IInv

LEMMA StopKeeps ==
  ASSUME IInv, Stop
  PROVE  IInv'
<1>0. TypesOK /\ CallOK /\ FlushOK /\ ThreadsOK /\ CorrsOK /\ HomesOK /\ WorkerOK /\ CountsOK
  BY DEF IInv
<1>1. /\ pc[Manager] = "stop" /\ started' = (dataSet # {}) /\ live' = live \ {call.s}
      /\ pc' = [pc EXCEPT ![Manager] = "idle"] /\ gil' = Nobody /\ call' = [kind |-> "none"]
      /\ \/ dataSet # {} /\ UNCHANGED <<open, done, unreported>>
         \/ /\ dataSet = {} /\ open' = {} /\ unreported' = unreported \cup {k[1] : k \in open}
            /\ done' = done \ open
  BY DEF Stop, At, Return, Goto
<1>2. UNCHANGED <<op, externIdQueue, opInProgress, adding, dataSet, opCount, corrIdToExternId, apiExternIds,
                  scopeIdToContextId, counted, active, nextCorr, buffer, worker, crashed, home, due>>
  BY DEF Stop, corrVars, dataVars, workerVars, ghostVars
<1>3. /\ \A t \in Threads : pc[t] \notin OpPcs
      /\ \A t \in Threads : t # Manager => pc[t] = "idle"
  BY <1>0, <1>1, NoOpDuringCall DEF CallPcs
<1>4. call.s \notin active /\ dataSet = active /\ active \subseteq live
  BY <1>0, <1>1, NoOpDuringCall DEF CallOK, Registered, CallPcs
<1>5. pc'[Manager] = "idle" /\ \A t \in Threads : t # Manager => pc'[t] = "idle"
  BY <1>0, <1>1, <1>3, ProtonAssumption DEF TypesOK
<1>6. TypesOK'
  <2>1. pc' \in [Threads -> {"idle"} \cup OpPcs \cup CallPcs]
    BY <1>0, <1>1 DEF TypesOK
  <2>2. started' \in BOOLEAN
    BY <1>1
  <2> QED BY <1>0, <1>2, <2>1, <2>2 DEF TypesOK
<1>7. CallOK'
  <2>1. opCount' = Cardinality(dataSet') + 0
    BY <1>0, <1>1, <1>2 DEF CallOK
  <2>2. active' \subseteq live' /\ dataSet' = active' /\ (dataSet' # {} => started') /\ call'.kind = "none"
    BY <1>1, <1>2, <1>4
  <2> QED BY <1>5, <2>1, <2>2 DEF CallOK, CallPcs
<1>8. FlushOK'
  BY <1>5 DEF FlushOK
<1>9. ThreadsOK' /\ \A c : ~ Launching(c)
  BY <1>0, <1>1, <1>2, <1>3, ThreadsRest
<1>10. HomeGrows /\ CorrGrows /\ (\A e : NodesStay(dataSet, e)) /\ Flying' \subseteq Flying
  BY <1>1, <1>2 DEF HomeGrows, CorrGrows, NodesStay, Known, Flying
<1>11. CorrsOK'
  <2>1. CASE UNCHANGED <<open, done, unreported>>
    BY <1>0, <1>2, <1>6, <1>9, <1>10, <2>1, CorrsStay DEF TypesOK, Ops
  <2>2. CASE open' = {} /\ unreported' = unreported \cup {k[1] : k \in open}
    <3>1. ASSUME NEW c \in DOMAIN corrIdToExternId PROVE CorrOK(c)' /\ ScopeOK(corrIdToExternId[c][1])'
      <4>1. CorrOK(c) /\ ScopeOK(corrIdToExternId[c][1])
        BY <1>0 DEF CorrsOK
      <4>2. FlyingOf(c)' \subseteq FlyingOf(c) /\ (FlyingOf(c)' = FlyingOf(c) \/ c \in unreported')
        BY <1>2, <2>2 DEF FlyingOf, Flying
      <4>3. CorrOK(c)'
        BY <1>2, <1>9, <2>2, <4>1, <4>2 DEF CorrOK
      <4> QED BY <1>2, <4>1, <4>3 DEF ScopeOK
    <3> QED BY <1>0, <1>2, <1>10, <2>2, <3>1 DEF CorrsOK
  <2> QED BY <1>1, <2>1, <2>2
<1>12. HomesOK'
  BY <1>0, <1>2, <1>10, HomesStay
<1>13. WorkerOK' /\ Rec' = Rec /\ AtRecord' = AtRecord
  <2>1. done \cap buffer \subseteq done'
    BY <1>0, <1>1 DEF CorrsOK
  <2>2. worker.stage = "metric" => NodesStay({worker.data}, Append(Extern, Rec))
    <3>1. NodesStay(dataSet, Append(Extern, Rec))
      BY <1>10
    <3>2. worker.stage = "metric" => worker.data \in dataSet
      BY <1>0 DEF WorkerOK
    <3> QED BY <3>1, <3>2 DEF NodesStay
  <2> QED BY <1>0, <1>2, <1>10, <2>1, <2>2, WorkerStays DEF WorkerOK
<1>14. CountsOK'
  <2>1. ASSUME NEW d \in Sessions, NEW k \in DOMAIN counted[d] PROVE CountedOK(d, k)'
    <3>1. CountedOK(d, k)
      BY <1>0 DEF CountsOK
    <3>2. NodeOf(k)' = NodeOf(k)
      BY <1>2 DEF NodeOf
    <3> QED BY <1>1, <1>2, <1>13, <3>1, <3>2 DEF CountedOK
  <2>2. ASSUME NEW d \in dataSet, NEW k \in due[d] PROVE DueOK(d, k)'
    <3>1. DueOK(d, k) /\ open' = open
      BY <1>0, <1>1 DEF CountsOK
    <3> QED BY <1>2, <1>13, <3>1 DEF DueOK
  <2> QED BY <1>2, <1>5, <2>1, <2>2 DEF CountsOK
<1> QED BY <1>6, <1>7, <1>8, <1>9, <1>11, <1>12, <1>13, <1>14 DEF IInv

-----------------------------------------------------------------------------
(* The steps of the GPU and of the CUPTI thread. *)
LEMMA ThreadsStay ==
  ASSUME TypesOK, CallOK, FlushOK, ThreadsOK, UNCHANGED <<threadVars, profilerVars, sessionVars, open, home>>,
         open \cap done \subseteq done',
         \A t \in Threads : /\ NodesStay(dataSet, Scope(t))
                            /\ Unlaunched(t) => Unlaunched(t)'
                            /\ pc[t] = "launching" /\ LaunchingOK(t) => LaunchingOK(t)'
  PROVE  CallOK' /\ FlushOK' /\ ThreadsOK' /\ \A c : Launching(c) => Launching(c)'
<1>1. UNCHANGED <<pc, op, gil, externIdQueue, opInProgress, adding, started, dataSet, opCount, active, live, call>>
  BY DEF threadVars, profilerVars, sessionVars
<1>2. CallOK'
  BY <1>1, CallsStay
<1>3. FlushOK'
  BY <1>1 DEF FlushOK
<1>4. ASSUME NEW t \in Threads PROVE ThreadOK(t)'
  BY <1>1, OthersStay DEF ThreadsOK, SameThread
<1>5. ASSUME NEW c, Launching(c) PROVE Launching(c)'
  BY <1>1, <1>5 DEF Launching
<1> QED BY <1>2, <1>3, <1>4, <1>5 DEF ThreadsOK

(* Launches and nodes are as they were. *)
LEMMA ThreadsStayToo ==
  ASSUME TypesOK, CallOK, FlushOK, ThreadsOK, open \cap done \subseteq done',
         UNCHANGED <<threadVars, profilerVars, sessionVars, open, home, corrIdToExternId, apiExternIds,
                     scopeIdToContextId>>
  PROVE  CallOK' /\ FlushOK' /\ ThreadsOK' /\ \A c : Launching(c) => Launching(c)'
<1>1. op' = op
  BY DEF threadVars
<1>2. ASSUME NEW t \in Threads
      PROVE  /\ NodesStay(dataSet, Scope(t))
             /\ Unlaunched(t) => Unlaunched(t)'
             /\ LaunchingOK(t) => LaunchingOK(t)'
  BY <1>1 DEF NodesStay, Known, Scope, Unlaunched, LaunchingOK, Instances, Named
<1> QED BY <1>2, ThreadsStay

LEMMA KernelEndsKeeps ==
  ASSUME IInv, NEW k \in open, KernelEnds(k)
  PROVE  IInv'
<1>0. TypesOK /\ CallOK /\ FlushOK /\ ThreadsOK /\ CorrsOK /\ HomesOK /\ WorkerOK /\ CountsOK
  BY DEF IInv
<1>1. /\ done' = done \cup {k}
      /\ UNCHANGED <<threadVars, profilerVars, sessionVars, open, home, corrIdToExternId, apiExternIds,
                     scopeIdToContextId, nextCorr, unreported, counted, buffer, worker, crashed, due>>
  BY DEF KernelEnds, corrVars, dataVars, workerVars, ghostVars
<1>2. UNCHANGED <<pc, op, externIdQueue, opInProgress, adding, started, dataSet, call>>
  BY <1>1 DEF threadVars, profilerVars, sessionVars
<1>3. TypesOK'
  BY <1>0, <1>1, <1>2 DEF TypesOK
<1>4. CallOK' /\ FlushOK' /\ ThreadsOK' /\ \A c : Launching(c) => Launching(c)'
  BY <1>0, <1>1, ThreadsStayToo
<1>5. CorrGrows /\ HomeGrows /\ \A D, e : NodesStay(D, e)
  BY <1>1 DEF CorrGrows, HomeGrows, NodesStay, Known
<1>6. CorrsOK'
  BY <1>0, <1>1, <1>2, <1>3, <1>4, <1>5, CorrsStay DEF TypesOK, Ops
<1>7. HomesOK'
  BY <1>0, <1>1, <1>2, <1>5, HomesStay DEF Flying
<1>8. WorkerOK' /\ Rec' = Rec
  BY <1>0, <1>1, <1>2, <1>5, WorkerStays DEF WorkerOK
<1>9. CountsOK'
  BY <1>0, <1>1, <1>2, <1>3, <1>5, <1>8, CountsStay
<1> QED BY <1>3, <1>4, <1>6, <1>7, <1>8, <1>9 DEF IInv

LEMMA CompleteBufferKeeps ==
  ASSUME IInv, CompleteBuffer
  PROVE  IInv'
<1>0. TypesOK /\ CallOK /\ FlushOK /\ ThreadsOK /\ CorrsOK /\ HomesOK /\ WorkerOK /\ CountsOK
  BY DEF IInv
<1>1. /\ worker.stage = "called" /\ worker' = [worker EXCEPT !.stage = "next", !.snap = dataSet, !.max = 0]
      /\ UNCHANGED <<threadVars, profilerVars, sessionVars, open, home, corrIdToExternId, apiExternIds,
                     scopeIdToContextId, nextCorr, unreported, counted, buffer, done, crashed, due>>
  BY DEF CompleteBuffer, corrVars, dataVars, gpuVars, ghostVars
<1>2. UNCHANGED <<pc, op, externIdQueue, opInProgress, adding, started, dataSet, call>>
  BY <1>1 DEF threadVars, profilerVars, sessionVars
<1>3. TypesOK'
  BY <1>0, <1>1, <1>2 DEF TypesOK
<1>4. CallOK' /\ FlushOK' /\ ThreadsOK' /\ \A c : Launching(c) => Launching(c)'
  BY <1>0, <1>1, ThreadsStayToo
<1>5. CorrGrows /\ HomeGrows /\ \A D, e : NodesStay(D, e)
  BY <1>1 DEF CorrGrows, HomeGrows, NodesStay, Known
<1>6. CorrsOK'
  BY <1>0, <1>1, <1>2, <1>3, <1>4, <1>5, CorrsStay DEF TypesOK, Ops
<1>7. HomesOK'
  BY <1>0, <1>1, <1>2, <1>5, HomesStay DEF Flying
<1>8. /\ worker' = [stage |-> "next", snap |-> dataSet, datas |-> worker.datas, data |-> worker.data,
                    scope |-> worker.scope, max |-> 0]
      /\ worker.datas \subseteq dataSet
  <2> PICK w : w = worker
    OBVIOUS
  <2>1. w = [stage |-> w.stage, snap |-> w.snap, datas |-> w.datas, data |-> w.data, scope |-> w.scope, max |-> w.max]
        /\ w.datas \subseteq dataSet
    BY <1>0 DEF WorkerOK
  <2> QED BY <1>1, <2>1
<1>9. WorkerOK'
  BY <1>0, <1>1, <1>2, <1>8 DEF WorkerOK, AtRecord
<1>10. CountsOK'
  <2>1. ASSUME NEW d \in Sessions, NEW k \in DOMAIN counted[d] PROVE CountedOK(d, k)'
    <3>1. CountedOK(d, k)
      BY <1>0 DEF CountsOK
    <3>2. NodeOf(k)' = NodeOf(k) /\ k \notin buffer
      BY <1>1, <3>1 DEF NodeOf, CountedOK, AtRecord
    <3> QED BY <1>1, <3>1, <3>2 DEF CountedOK
  <2>2. ASSUME NEW d \in dataSet, NEW k \in due[d] PROVE DueOK(d, k)'
    <3>1. DueOK(d, k)
      BY <1>0 DEF CountsOK
    <3> QED BY <1>1, <1>8, <3>1 DEF DueOK, AtRecord
  <2> QED BY <1>0, <1>1, <1>2, <2>1, <2>2 DEF CountsOK
<1> QED BY <1>3, <1>4, <1>6, <1>7, <1>9, <1>10 DEF IInv

LEMMA NextRecordKeeps ==
  ASSUME IInv, NextRecord
  PROVE  IInv'
<1>0. TypesOK /\ CallOK /\ FlushOK /\ ThreadsOK /\ CorrsOK /\ HomesOK /\ WorkerOK /\ CountsOK
  BY DEF IInv
<1>1. /\ worker.stage = "next" /\ buffer # {}
      /\ UNCHANGED <<threadVars, profilerVars, sessionVars, open, home, corrIdToExternId, apiExternIds,
                     scopeIdToContextId, nextCorr, unreported, counted, crashed, due>>
  BY DEF NextRecord, corrVars, dataVars, ghostVars
<1>2. UNCHANGED <<pc, op, externIdQueue, opInProgress, adding, started, dataSet, call>>
  BY <1>1 DEF threadVars, profilerVars, sessionVars
<1>3. Rec \in buffer /\ Rec[1] \in DOMAIN corrIdToExternId
  BY <1>0, <1>1, RecIsDelivered DEF CorrsOK, Flying
<1>4. PICK m : /\ worker' = [worker EXCEPT !.stage = "data", !.datas = worker.snap, !.max = m]
               /\ UNCHANGED <<buffer, done>>
  <2>1. worker' = [worker EXCEPT !.stage = "data", !.datas = worker.snap, !.max = AtomicMax(@, Rec[1])]
        /\ UNCHANGED <<buffer, done>>
    BY <1>3 DEF NextRecord
  <2> PICK a : a = AtomicMax(worker.max, Rec[1])
    OBVIOUS
  <2>2. worker' = [worker EXCEPT !.stage = "data", !.datas = worker.snap, !.max = a]
    BY <2>1
  <2> QED BY <2>1, <2>2
<1>5. Rec' = Rec
  BY <1>4, RecStays
<1>6. TypesOK'
  BY <1>0, <1>1, <1>2 DEF TypesOK
<1>7. CallOK' /\ FlushOK' /\ ThreadsOK' /\ \A c : Launching(c) => Launching(c)'
  BY <1>0, <1>1, <1>4, ThreadsStayToo
<1>8. CorrGrows /\ HomeGrows /\ \A D, e : NodesStay(D, e)
  BY <1>1 DEF CorrGrows, HomeGrows, NodesStay, Known
<1>9. CorrsOK'
  BY <1>0, <1>1, <1>2, <1>4, <1>6, <1>7, <1>8, CorrsStay DEF TypesOK, Ops
<1>10. HomesOK'
  BY <1>0, <1>1, <1>2, <1>4, <1>8, HomesStay DEF Flying
<1>11. worker' = [stage |-> "data", snap |-> worker.snap, datas |-> worker.snap, data |-> worker.data,
                  scope |-> worker.scope, max |-> m]
  <2> PICK w : w = worker
    OBVIOUS
  <2>1. w = [stage |-> w.stage, snap |-> w.snap, datas |-> w.datas, data |-> w.data, scope |-> w.scope, max |-> w.max]
    BY <1>0 DEF WorkerOK
  <2> QED BY <1>4, <2>1
<1>12. WorkerOK'
  BY <1>0, <1>1, <1>2, <1>4, <1>11 DEF WorkerOK, AtRecord
<1>13. CountsOK'
  <2>1. ASSUME NEW d \in Sessions, NEW k \in DOMAIN counted[d] PROVE CountedOK(d, k)'
    <3>1. CountedOK(d, k)
      BY <1>0 DEF CountsOK
    <3>2. NodeOf(k)' = NodeOf(k) /\ k \notin buffer
      BY <1>1, <3>1 DEF NodeOf, CountedOK, AtRecord
    <3> QED BY <1>1, <1>4, <3>1, <3>2 DEF CountedOK
  <2>2. ASSUME NEW d \in dataSet, NEW k \in due[d] PROVE DueOK(d, k)'
    <3>1. DueOK(d, k)
      BY <1>0 DEF CountsOK
    <3> QED BY <1>1, <1>4, <1>11, <3>1 DEF DueOK, AtRecord
  <2> QED BY <1>0, <1>1, <1>2, <2>1, <2>2 DEF CountsOK
<1> QED BY <1>6, <1>7, <1>9, <1>10, <1>12, <1>13 DEF IInv

(* What the record at hand is of, and where it belongs. *)
LEMMA RecordAtHome ==
  ASSUME TypesOK, CorrsOK, HomesOK, WorkerOK, AtRecord
  PROVE  /\ Rec \in buffer /\ Rec \in done /\ Rec[1] \in DOMAIN home /\ Rec[1] \in DOMAIN corrIdToExternId
         /\ ScopeOK(Extern)
         /\ \A d \in dataSet : Known(d, Extern) /\ scopeIdToContextId[d][Extern] = home[Rec[1]]
         /\ HasOwnNode => home[Rec[1]] = <<Extern[1], <<>> >> /\ NodeOf(Rec) = <<Extern[1], <<Rec>> >>
         /\ ~ HasOwnNode => NodeOf(Rec) = home[Rec[1]]
<1>1. Rec \in buffer
  BY RecIsDelivered DEF WorkerOK
<1>2. Rec \in Flying /\ HomeOK(Rec)
  BY <1>1 DEF HomesOK, Flying
<1>3. Rec[1] \in DOMAIN home /\ Rec[1] \in DOMAIN corrIdToExternId /\ Rec \in done /\ Rec[2] \in 0 .. 2
  BY <1>1, <1>2 DEF CorrsOK, WorkerOK
<1>4. ScopeOK(Extern)
  BY <1>3 DEF CorrsOK, Extern
<1>5. HasOwnNode => home[Rec[1]] = <<Extern[1], <<>> >>
  BY <1>2, <1>3 DEF HomeOK, HasOwnNode, Extern
<1>6. ~ HasOwnNode => home[Rec[1]] = <<Extern[1], <<Extern>> >>
  BY <1>2, <1>3 DEF HomeOK, HasOwnNode, Extern
<1>7. HasOwnNode => NodeOf(Rec) = <<Extern[1], <<Rec>> >>
  BY <1>5 DEF NodeOf
<1>8. ~ HasOwnNode => NodeOf(Rec) = home[Rec[1]]
  BY <1>6, QueueOfOne DEF NodeOf
<1> QED BY <1>1, <1>2, <1>3, <1>4, <1>5, <1>7, <1>8 DEF HomeOK, Extern

LEMMA AddOpOfRecordKeeps ==
  ASSUME IInv, NEW d \in Sessions, AddOpOfRecord(d)
  PROVE  IInv'
<1>0. TypesOK /\ CallOK /\ FlushOK /\ ThreadsOK /\ CorrsOK /\ HomesOK /\ WorkerOK /\ CountsOK
  BY DEF IInv
<1>1. /\ worker.stage = "data" /\ d \in worker.datas /\ HasOwnNode
      /\ UNCHANGED <<threadVars, profilerVars, sessionVars, open, home, corrIdToExternId, apiExternIds, done,
                     nextCorr, unreported, counted, crashed, buffer, due>>
  BY DEF AddOpOfRecord, corrVars, gpuVars, ghostVars
<1>2. UNCHANGED <<pc, op, externIdQueue, opInProgress, adding, started, dataSet, call>>
  BY <1>1 DEF threadVars, profilerVars, sessionVars
<1>3. /\ d \in dataSet /\ dataSet \subseteq Sessions /\ Rec \in buffer /\ ScopeOK(Extern)
      /\ Known(d, Extern) /\ scopeIdToContextId[d][Extern] = <<Extern[1], <<>> >>
      /\ NodeOf(Rec) = <<Extern[1], <<Rec>> >>
  BY <1>0, <1>1, RecordAtHome DEF WorkerOK, AtRecord, TypesOK
<1>4. PICK e : e = Append(Extern, Rec)
  OBVIOUS
<1>5. /\ AddNode(d, e, NodeOf(Rec))
      /\ worker' = [worker EXCEPT !.stage = "metric", !.data = d, !.scope = e]
  BY <1>1, <1>3, <1>4, QueueOfOne DEF AddOpOfRecord, NeedsContexts
<1>6. Rec' = Rec /\ Extern' = Extern /\ NodeOf(Rec)' = NodeOf(Rec)
  BY <1>1, RecStays DEF Extern, NodeOf
<1>7. \A t, n : e # <<t, n>>
  BY <1>3, <1>4, ScopeOfKernel DEF ScopeOK
<1>8. ASSUME NEW s, s # e PROVE NodesStay(dataSet, s)
  BY <1>0, <1>3, <1>5, <1>8, OtherNodesStay DEF NodesStay, Known
<1>9. TypesOK'
  BY <1>0, <1>1, <1>2, <1>5 DEF TypesOK, AddNode
<1>10. CallOK' /\ FlushOK' /\ ThreadsOK' /\ \A c : Launching(c) => Launching(c)'
  <2>1. ASSUME NEW t \in Threads PROVE NodesStay(dataSet, Scope(t))
    <3>1. Scope(t) # e /\ Scope(t)' = Scope(t)
      BY <1>2, <1>7 DEF Scope
    <3> QED BY <1>0, <1>3, <1>5, <3>1, OtherNodesStay DEF NodesStay, Known
  <2>2. ASSUME NEW t \in Threads
        PROVE  (Unlaunched(t) => Unlaunched(t)') /\ (LaunchingOK(t) => LaunchingOK(t)')
    BY <1>1, <1>2 DEF Scope, Unlaunched, LaunchingOK, Instances, Named
  <2> QED BY <1>0, <1>1, <2>1, <2>2, ThreadsStay
<1>11. CorrGrows /\ HomeGrows
  BY <1>1 DEF CorrGrows, HomeGrows
<1>12. CorrsOK'
  BY <1>0, <1>1, <1>2, <1>9, <1>10, <1>11, CorrsStay DEF TypesOK, Ops
<1>13. HomesOK'
  <2>1. ASSUME NEW k \in Flying PROVE NodesStay(dataSet, corrIdToExternId[k[1]][1])
    <3>1. ScopeOK(corrIdToExternId[k[1]][1]) /\ corrIdToExternId' = corrIdToExternId
      BY <1>0, <1>1 DEF CorrsOK
    <3>2. corrIdToExternId[k[1]][1] # e
      BY <1>7, <3>1 DEF ScopeOK
    <3> QED BY <1>0, <1>3, <1>5, <3>1, <3>2, OtherNodesStay DEF NodesStay, Known
  <2> QED BY <1>0, <1>1, <1>2, <1>11, <2>1, HomesStay DEF Flying
<1>14. worker' = [stage |-> "metric", snap |-> worker.snap, datas |-> worker.datas, data |-> d,
                  scope |-> e, max |-> worker.max]
  <2> PICK w : w = worker
    OBVIOUS
  <2>1. w = [stage |-> w.stage, snap |-> w.snap, datas |-> w.datas, data |-> w.data, scope |-> w.scope, max |-> w.max]
    BY <1>0 DEF WorkerOK
  <2> QED BY <1>5, <2>1
<1>15. WorkerOK'
  <2>1. Known(d, e)' /\ scopeIdToContextId'[d][e] = NodeOf(Rec)
    BY <1>0, <1>5 DEF AddNode, With, Known, TypesOK
  <2>2. e = Append(Extern, Rec)'
    BY <1>4, <1>6
  <2> QED BY <1>0, <1>1, <1>2, <1>6, <1>14, <2>1, <2>2 DEF WorkerOK, AtRecord
<1>16. CountsOK'
  <2>1. AtRecord /\ AtRecord'
    BY <1>1, <1>14 DEF AtRecord
  <2>2. ASSUME NEW b \in Sessions, NEW k \in DOMAIN counted[b] PROVE CountedOK(b, k)'
    <3>1. CountedOK(b, k)
      BY <1>0 DEF CountsOK
    <3>2. NodeOf(k)' = NodeOf(k)
      BY <1>1 DEF NodeOf
    <3> QED BY <1>1, <1>6, <1>14, <2>1, <3>1, <3>2 DEF CountedOK
  <2>3. ASSUME NEW b \in dataSet, NEW k \in due[b] PROVE DueOK(b, k)'
    <3>1. DueOK(b, k)
      BY <1>0 DEF CountsOK
    <3> QED BY <1>1, <1>6, <1>14, <2>1, <3>1 DEF DueOK
  <2> QED BY <1>0, <1>1, <1>2, <2>2, <2>3 DEF CountsOK
<1> QED BY <1>9, <1>10, <1>12, <1>13, <1>15, <1>16 DEF IInv

LEMMA AddMetricOfRecordKeeps ==
  ASSUME IInv, NEW d \in Sessions, AddMetricOfRecord(d)
  PROVE  IInv'
<1>0. TypesOK /\ CallOK /\ FlushOK /\ ThreadsOK /\ CorrsOK /\ HomesOK /\ WorkerOK /\ CountsOK
  BY DEF IInv
<1>1. /\ d \in worker.datas
      /\ worker' = [worker EXCEPT !.stage = "data", !.datas = @ \ {d}]
      /\ UNCHANGED <<threadVars, profilerVars, sessionVars, open, home, corrIdToExternId, apiExternIds, done,
                     nextCorr, unreported, scopeIdToContextId, buffer, due>>
  BY DEF AddMetricOfRecord, corrVars, gpuVars, ghostVars
<1>2. UNCHANGED <<pc, op, externIdQueue, opInProgress, adding, started, dataSet, call>>
  BY <1>1 DEF threadVars, profilerVars, sessionVars
<1>3. AtRecord
  BY DEF AddMetricOfRecord, AtRecord
<1>4. d \in dataSet /\ dataSet \subseteq Sessions /\ Rec \in buffer /\ Rec \in done /\ Rec[1] \in DOMAIN home
  BY <1>0, <1>1, <1>3, RecordAtHome DEF WorkerOK, TypesOK
<1>5. PICK scope : /\ scope = (IF worker.stage = "data" THEN Extern ELSE worker.scope)
                   /\ AddMetric(d, scope, Rec) /\ crashed' = (Rec \notin done /\ Known(d, scope))
  BY DEF AddMetricOfRecord
<1>6. Known(d, scope) /\ scopeIdToContextId[d][scope] = NodeOf(Rec)
  <2>1. CASE worker.stage = "data" /\ ~ HasOwnNode
    BY <1>0, <1>3, <1>4, <1>5, <2>1, RecordAtHome
  <2>2. CASE worker.stage = "metric" /\ worker.data = d
    BY <1>0, <1>5, <2>2 DEF WorkerOK
  <2> QED BY <2>1, <2>2 DEF AddMetricOfRecord
<1>7. ~ crashed'
  BY <1>4, <1>5
<1>8. Rec \notin DOMAIN counted[d]
  <2>1. Rec \in DOMAIN counted[d] => CountedOK(d, Rec)
    BY <1>0 DEF CountsOK
  <2> QED BY <1>1, <1>4, <2>1 DEF CountedOK
<1>9. counted' = [counted EXCEPT ![d] = With(@, Rec, <<NodeOf(Rec)>>)]
  <2> PICK r : r = Rec
    OBVIOUS
  <2> PICK node : node = NodeOf(Rec)
    OBVIOUS
  <2>1. counted' = [counted EXCEPT ![d] = With(@, r, (IF r \in DOMAIN @ THEN @[r] ELSE <<>>) \o <<node>>)]
    BY <1>5, <1>6 DEF AddMetric
  <2>2. <<>> \o <<node>> = <<node>>
    BY QueueOfOne
  <2> QED BY <1>8, <2>1, <2>2
<1>10. /\ DOMAIN counted' = Sessions
       /\ \A b \in Sessions : b # d => counted'[b] = counted[b]
       /\ DOMAIN counted'[d] = DOMAIN counted[d] \cup {Rec}
       /\ counted'[d][Rec] = <<NodeOf(Rec)>>
       /\ \A k \in DOMAIN counted[d] : counted'[d][k] = counted[d][k]
  BY <1>0, <1>4, <1>8, <1>9 DEF With, TypesOK
<1>11. Rec' = Rec /\ \A k : NodeOf(k)' = NodeOf(k)
  BY <1>1, RecStays DEF NodeOf
<1>12. TypesOK'
  BY <1>0, <1>1, <1>2, <1>10 DEF TypesOK
<1>13. CallOK' /\ FlushOK' /\ ThreadsOK' /\ \A c : Launching(c) => Launching(c)'
  BY <1>0, <1>1, ThreadsStayToo
<1>14. CorrGrows /\ HomeGrows /\ \A D, e : NodesStay(D, e)
  BY <1>1 DEF CorrGrows, HomeGrows, NodesStay, Known
<1>15. CorrsOK'
  BY <1>0, <1>1, <1>2, <1>12, <1>13, <1>14, CorrsStay DEF TypesOK, Ops
<1>16. HomesOK'
  BY <1>0, <1>1, <1>2, <1>14, HomesStay DEF Flying
<1>17. worker' = [stage |-> "data", snap |-> worker.snap, datas |-> worker.datas \ {d}, data |-> worker.data,
                  scope |-> worker.scope, max |-> worker.max]
  <2> PICK w : w = worker
    OBVIOUS
  <2>1. w = [stage |-> w.stage, snap |-> w.snap, datas |-> w.datas, data |-> w.data, scope |-> w.scope, max |-> w.max]
    BY <1>0 DEF WorkerOK
  <2> QED BY <1>1, <2>1
<1>18. WorkerOK'
  BY <1>0, <1>1, <1>2, <1>3, <1>7, <1>17 DEF WorkerOK, AtRecord
<1>19. CountsOK'
  <2>1. AtRecord'
    BY <1>17 DEF AtRecord
  <2>2. ASSUME NEW b \in Sessions, NEW k \in DOMAIN counted'[b] PROVE CountedOK(b, k)'
    <3>1. CASE b = d /\ k = Rec
      <4>1. Rec \notin open
        BY <1>0, <1>4 DEF CorrsOK
      <4> QED BY <1>1, <1>4, <1>10, <1>11, <1>17, <2>1, <3>1, <4>1 DEF CountedOK
    <3>2. CASE ~ (b = d /\ k = Rec)
      <4>1. k \in DOMAIN counted[b] /\ counted'[b][k] = counted[b][k]
        BY <1>10, <2>2, <3>2
      <4>2. CountedOK(b, k)
        BY <1>0, <4>1 DEF CountsOK
      <4> QED BY <1>1, <1>3, <1>11, <1>17, <2>1, <4>1, <4>2 DEF CountedOK
    <3> QED BY <3>1, <3>2
  <2>3. ASSUME NEW b \in dataSet, NEW k \in due[b] PROVE DueOK(b, k)'
    <3>1. DueOK(b, k)
      BY <1>0 DEF CountsOK
    <3>2. k \in DOMAIN counted[b] => k \in DOMAIN counted'[b]
      BY <1>4, <1>10
    <3>3. k = Rec /\ b = d => k \in DOMAIN counted'[b]
      BY <1>10
    <3> QED BY <1>1, <1>3, <1>11, <1>17, <2>1, <3>1, <3>2, <3>3 DEF DueOK, AtRecord
  <2>4. pc'[Manager] = "unregistered" => \A k \in due'[call'.s] : k \in DOMAIN counted'[call'.s]
    <3>1. ASSUME pc'[Manager] = "unregistered", NEW k \in due[call.s] PROVE k \in DOMAIN counted'[call.s]
      <4>1. call.s \in Sessions /\ k \in DOMAIN counted[call.s]
        BY <1>0, <1>2, <3>1, NoOpDuringCall DEF CountsOK, CallPcs
      <4> QED BY <1>10, <4>1
    <3> QED BY <1>1, <1>2, <3>1
  <2> QED BY <1>1, <1>2, <2>2, <2>3, <2>4 DEF CountsOK
<1> QED BY <1>12, <1>13, <1>15, <1>16, <1>18, <1>19 DEF IInv

LEMMA BufferDoneKeeps ==
  ASSUME IInv, BufferDone
  PROVE  IInv'
<1>0. TypesOK /\ CallOK /\ FlushOK /\ ThreadsOK /\ CorrsOK /\ HomesOK /\ WorkerOK /\ CountsOK
  BY DEF IInv
<1>1. /\ worker.stage = "next" /\ buffer = {} /\ worker' = Idle
      /\ UNCHANGED <<threadVars, profilerVars, sessionVars, open, home, corrIdToExternId, apiExternIds, done,
                     nextCorr, unreported, counted, scopeIdToContextId, crashed, buffer, due>>
  BY DEF BufferDone, dataVars, gpuVars, ghostVars
<1>2. UNCHANGED <<pc, op, externIdQueue, opInProgress, adding, started, dataSet, call>>
  BY <1>1 DEF threadVars, profilerVars, sessionVars
<1>3. TypesOK'
  BY <1>0, <1>1, <1>2 DEF TypesOK
<1>4. CallOK' /\ FlushOK' /\ ThreadsOK' /\ \A c : Launching(c) => Launching(c)'
  BY <1>0, <1>1, ThreadsStayToo
<1>5. CorrGrows /\ HomeGrows /\ \A D, e : NodesStay(D, e)
  BY <1>1 DEF CorrGrows, HomeGrows, NodesStay, Known
<1>6. CorrsOK'
  BY <1>0, <1>1, <1>2, <1>3, <1>4, <1>5, CorrsStay DEF TypesOK, Ops
<1>7. HomesOK'
  BY <1>0, <1>1, <1>2, <1>5, HomesStay DEF Flying
<1>8. WorkerOK'
  BY <1>0, <1>1, <1>2 DEF WorkerOK, AtRecord, Idle
<1>9. CountsOK'
  <2>1. ASSUME NEW d \in Sessions, NEW k \in DOMAIN counted[d] PROVE CountedOK(d, k)'
    <3>1. CountedOK(d, k)
      BY <1>0 DEF CountsOK
    <3>2. NodeOf(k)' = NodeOf(k)
      BY <1>1 DEF NodeOf
    <3> QED BY <1>1, <3>1, <3>2 DEF CountedOK
  <2>2. ASSUME NEW d \in dataSet, NEW k \in due[d] PROVE DueOK(d, k)'
    <3>1. DueOK(d, k)
      BY <1>0 DEF CountsOK
    <3> QED BY <1>1, <3>1 DEF DueOK
  <2> QED BY <1>0, <1>1, <1>2, <2>1, <2>2 DEF CountsOK
<1> QED BY <1>3, <1>4, <1>6, <1>7, <1>8, <1>9 DEF IInv

LEMMA RecordDoneKeeps ==
  ASSUME IInv, RecordDone
  PROVE  IInv'
<1>0. TypesOK /\ CallOK /\ FlushOK /\ ThreadsOK /\ CorrsOK /\ HomesOK /\ WorkerOK /\ CountsOK
  BY DEF IInv
<1>1. PICK r : r = Rec
  OBVIOUS
<1>2. PICK c : c = r[1]
  OBVIOUS
<1>3. PICK e : e = Extern
  OBVIOUS
<1>4. /\ worker.stage = "data" /\ worker.datas = {}
      /\ apiExternIds' = apiExternIds \ {e} /\ corrIdToExternId' = Forget(c)
      /\ buffer' = buffer \ {r} /\ done' = done \ {r} /\ worker' = [worker EXCEPT !.stage = "next"]
      /\ UNCHANGED <<threadVars, profilerVars, sessionVars, open, home, nextCorr, unreported, counted,
                     scopeIdToContextId, crashed, due>>
  BY <1>1, <1>2, <1>3 DEF RecordDone, dataVars, ghostVars
<1>5. UNCHANGED <<pc, op, externIdQueue, opInProgress, adding, started, dataSet, call>>
  BY <1>4 DEF threadVars, profilerVars, sessionVars
<1>6. AtRecord
  BY <1>4 DEF AtRecord
<1>7. r \in buffer /\ r \in done /\ c \in DOMAIN home /\ c \in DOMAIN corrIdToExternId /\ r \notin open
  <2>1. Rec \in buffer /\ Rec \in done /\ Rec[1] \in DOMAIN home /\ Rec[1] \in DOMAIN corrIdToExternId
    BY <1>0, <1>6, RecordAtHome
  <2> QED BY <1>0, <1>1, <1>2, <2>1 DEF CorrsOK
<1>8. r = <<c, r[2]>> /\ r \in FlyingOf(c)
  BY <1>0, <1>2, <1>7 DEF CorrsOK, Flying, FlyingOf
<1>9. PICK n : n = corrIdToExternId[c][2]
  OBVIOUS
<1>10. e = corrIdToExternId[c][1] /\ corrIdToExternId[c] = <<e, n>> /\ CorrOK(c) /\ n \in {1, 2}
  BY <1>0, <1>1, <1>2, <1>3, <1>7, <1>9 DEF Extern, CorrsOK, CorrOK
<1>11. PICK F \in Launches(c, n) : /\ FlyingOf(c) \subseteq F
                                   /\ FlyingOf(c) = F \/ c \in unreported \/ Launching(c)
  BY <1>9, <1>10 DEF CorrOK
<1>12. n = 1 => FlyingOf(c) = {r}
  <2> SUFFICES ASSUME n = 1 PROVE FlyingOf(c) = {r}
    OBVIOUS
  <2>1. PICK i \in 0 .. 2 : F = {<<c, i>>}
    BY <1>11 DEF Launches
  <2>2. r \in F /\ FlyingOf(c) \subseteq F
    BY <1>8, <1>11
  <2>3. r = <<c, i>>
    BY <2>1, <2>2
  <2>4. F = {r}
    BY <2>1, <2>3
  <2> QED BY <1>8, <2>2, <2>4
<1>13. n = 2 => F = {<<c, 1>>, <<c, 2>>}
  BY <1>11 DEF Launches
<1>14. /\ n = 1 => /\ DOMAIN corrIdToExternId' = DOMAIN corrIdToExternId \ {c}
                   /\ \A b \in DOMAIN corrIdToExternId' : corrIdToExternId'[b] = corrIdToExternId[b]
       /\ n = 2 => /\ DOMAIN corrIdToExternId' = DOMAIN corrIdToExternId
                   /\ corrIdToExternId'[c] = <<e, 1>>
                   /\ \A b \in DOMAIN corrIdToExternId : b # c => corrIdToExternId'[b] = corrIdToExternId[b]
  <2>1. CASE n = 1
    <3>1. corrIdToExternId' = [b \in DOMAIN corrIdToExternId \ {c} |-> corrIdToExternId[b]]
      BY <1>4, <1>9, <2>1 DEF Forget, Without
    <3> QED BY <2>1, <3>1
  <2>2. CASE n = 2
    <3>1. corrIdToExternId' = [corrIdToExternId EXCEPT ![c][2] = 1]
      BY <1>4, <1>9, <2>2 DEF Forget
    <3> QED BY <1>7, <1>10, <2>2, <3>1
  <2> QED BY <1>10, <2>1, <2>2
<1>15. /\ DOMAIN corrIdToExternId' \subseteq DOMAIN corrIdToExternId
       /\ \A b \in DOMAIN corrIdToExternId : b # c => b \in DOMAIN corrIdToExternId'
                                                      /\ corrIdToExternId'[b] = corrIdToExternId[b]
       /\ \A b \in DOMAIN corrIdToExternId' : corrIdToExternId'[b][1] = corrIdToExternId[b][1]
       /\ c \in DOMAIN corrIdToExternId' => n = 2 /\ corrIdToExternId'[c] = <<e, 1>>
  <2>1. \A b \in DOMAIN corrIdToExternId' : corrIdToExternId'[b][1] = corrIdToExternId[b][1]
    <3> SUFFICES ASSUME NEW b \in DOMAIN corrIdToExternId'
                 PROVE  corrIdToExternId'[b][1] = corrIdToExternId[b][1]
      OBVIOUS
    <3>1. corrIdToExternId'[b] = corrIdToExternId[b] \/ (b = c /\ corrIdToExternId'[b] = <<e, 1>>)
      BY <1>10, <1>14
    <3> QED BY <1>10, <3>1
  <2> QED BY <1>10, <1>14, <2>1
<1>16. Flying' = Flying \ {r} /\ \A b : FlyingOf(b)' = FlyingOf(b) \ {r}
  <2>1. Flying' = Flying \ {r}
    BY <1>4, <1>7 DEF Flying
  <2> QED BY <2>1 DEF FlyingOf
<1>17. \A k \in Flying' : k[1] \in DOMAIN corrIdToExternId' /\ k \in Flying
  <2> SUFFICES ASSUME NEW k \in Flying' PROVE k[1] \in DOMAIN corrIdToExternId'
    BY <1>16
  <2>1. k \in Flying /\ k # r /\ k[1] \in DOMAIN corrIdToExternId
    BY <1>0, <1>16 DEF CorrsOK
  <2>2. k[1] = c => n # 1
    BY <1>12, <2>1 DEF FlyingOf
  <2> QED BY <1>10, <1>14, <1>15, <2>1, <2>2
<1>18. TypesOK'
  BY <1>0, <1>4, <1>5, <1>15 DEF TypesOK
<1>19. CallOK' /\ FlushOK' /\ ThreadsOK' /\ \A b : Launching(b) => Launching(b)'
  <2>1. ASSUME NEW t \in Threads
        PROVE  /\ NodesStay(dataSet, Scope(t))
               /\ Unlaunched(t) => Unlaunched(t)'
               /\ LaunchingOK(t) => LaunchingOK(t)'
    <3>1. Scope(t)' = Scope(t) /\ Instances(t)' = Instances(t) /\ (Named(t)' <=> Named(t))
      BY <1>5 DEF Scope, Instances, Named
    <3>2. NodesStay(dataSet, Scope(t))
      BY <1>4, <3>1 DEF NodesStay, Known
    <3>3. Unlaunched(t) => Unlaunched(t)'
      BY <1>15, <3>1 DEF Unlaunched
    <3>4. ASSUME LaunchingOK(t) PROVE LaunchingOK(t)'
      <4> PICK b : b = op[t].corr
        OBVIOUS
      <4>1. b \in DOMAIN corrIdToExternId /\ b \notin DOMAIN home /\ corrIdToExternId[b] = <<Scope(t), Instances(t)>>
            /\ (Scope(t) \in apiExternIds <=> ~ Named(t))
        BY <3>4 DEF LaunchingOK
      <4>2. b # c /\ corrIdToExternId[b][1] = Scope(t)
        BY <1>7, <4>1
      <4>3. Scope(t) # e
        BY <1>0, <1>7, <1>10, <4>1, <4>2 DEF CorrsOK
      <4> QED BY <1>4, <1>5, <1>15, <3>1, <4>1, <4>2, <4>3 DEF LaunchingOK
    <3> QED BY <3>2, <3>3, <3>4
  <2>2. open \cap done \subseteq done'
    BY <1>4, <1>7
  <2> QED BY <1>0, <1>4, <2>1, <2>2, ThreadsStay
<1>20. CorrsOK'
  <2>1. ASSUME NEW b \in DOMAIN corrIdToExternId'
        PROVE  /\ corrIdToExternId'[b] = <<corrIdToExternId'[b][1], corrIdToExternId'[b][2]>>
               /\ ScopeOK(corrIdToExternId[b][1])' /\ CorrOK(b)'
    <3>1. /\ corrIdToExternId[b] = <<corrIdToExternId[b][1], corrIdToExternId[b][2]>>
          /\ ScopeOK(corrIdToExternId[b][1]) /\ CorrOK(b)
      BY <1>0, <1>15 DEF CorrsOK
    <3>2. ScopeOK(corrIdToExternId[b][1])'
      BY <1>5, <1>15, <3>1 DEF ScopeOK
    <3>3. CASE b # c
      <4>1. FlyingOf(b)' = FlyingOf(b)
        BY <1>2, <1>16, <3>3 DEF FlyingOf
      <4>2. CorrOK(b)'
        BY <1>4, <1>15, <1>19, <3>1, <3>3, <4>1 DEF CorrOK
      <4> QED BY <1>15, <3>1, <3>2, <3>3, <4>2
    <3>4. CASE b = c
      <4>1. n = 2 /\ corrIdToExternId'[c] = <<e, 1>>
        BY <1>15, <3>4
      <4>2. PICK i \in {1, 2} : F \ {r} = {<<c, i>>}
        <5>1. r = <<c, 1>> \/ r = <<c, 2>>
          <6>1. r \in F
            BY <1>8, <1>11
          <6>2. F = {<<c, 1>>, <<c, 2>>}
            BY <1>13, <4>1
          <6> QED BY <6>1, <6>2
        <5> QED BY <1>13, <4>1, <5>1
      <4>3. F \ {r} \in Launches(c, 1)
        BY <4>2 DEF Launches
      <4>4. PICK G : G = F \ {r}
        OBVIOUS
      <4>6. FlyingOf(c)' \subseteq G /\ (FlyingOf(c)' = G \/ c \in unreported \/ Launching(c))
        <5>1. FlyingOf(c)' = FlyingOf(c) \ {r}
          BY <1>16
        <5>2. FlyingOf(c) \subseteq F /\ (FlyingOf(c) = F \/ c \in unreported \/ Launching(c))
          BY <1>11
        <5> QED BY <4>4, <5>1, <5>2
      <4>7. corrIdToExternId'[c][2] = 1
        BY <4>1
      <4>8. G \in Launches(c, corrIdToExternId'[c][2])
        BY <4>3, <4>4, <4>7
      <4>5. CorrOK(c)'
        BY <1>4, <1>19, <4>6, <4>7, <4>8 DEF CorrOK
      <4> QED BY <3>2, <3>4, <4>1, <4>5
    <3> QED BY <3>3, <3>4
  <2>2. apiExternIds' \subseteq {corrIdToExternId'[b][1] : b \in DOMAIN corrIdToExternId'}
    <3> SUFFICES ASSUME NEW a \in apiExternIds'
                 PROVE  \E b \in DOMAIN corrIdToExternId' : a = corrIdToExternId'[b][1]
      OBVIOUS
    <3>1. a \in apiExternIds /\ a # e
      BY <1>4
    <3>2. PICK b \in DOMAIN corrIdToExternId : a = corrIdToExternId[b][1]
      BY <1>0, <3>1 DEF CorrsOK
    <3> QED BY <1>10, <1>15, <3>1, <3>2
  <2>3. \A b, a \in DOMAIN corrIdToExternId' : corrIdToExternId'[b][1] = corrIdToExternId'[a][1] => b = a
    BY <1>0, <1>15 DEF CorrsOK
  <2>4. \A k \in Flying' : k = <<k[1], k[2]>> /\ k[2] \in 0 .. 2 /\ k[1] \in DOMAIN home
    BY <1>0, <1>17 DEF CorrsOK
  <2>5. open \cap buffer' = {}
    BY <1>0, <1>4 DEF CorrsOK
  <2> QED BY <1>4, <1>17, <2>1, <2>2, <2>3, <2>4, <2>5 DEF CorrsOK
<1>21. HomesOK'
  <2> SUFFICES ASSUME NEW k \in Flying' PROVE HomeOK(k)'
    BY DEF HomesOK
  <2>1. k \in Flying /\ HomeOK(k) /\ k # r /\ k[1] \in DOMAIN corrIdToExternId
        /\ corrIdToExternId'[k[1]][1] = corrIdToExternId[k[1]][1]
    BY <1>0, <1>15, <1>16, <1>17 DEF HomesOK
  <2>2. corrIdToExternId[k[1]][1] = e => k[2] > 0
    <3> SUFFICES ASSUME corrIdToExternId[k[1]][1] = e PROVE k[2] > 0
      OBVIOUS
    <3>1. k[1] = c
      BY <1>0, <1>7, <1>10, <2>1 DEF CorrsOK
    <3>2. k \in FlyingOf(c) /\ n = 2
      BY <1>10, <1>12, <2>1, <3>1 DEF FlyingOf
    <3>3. k = <<c, 1>> \/ k = <<c, 2>>
      <4>1. k \in F
        BY <1>11, <3>2
      <4>2. F = {<<c, 1>>, <<c, 2>>}
        BY <1>13, <3>2
      <4> QED BY <4>1, <4>2
    <3> QED BY <3>3
  <2>3. /\ HomeOK(k) /\ home' = home /\ dataSet' = dataSet /\ scopeIdToContextId' = scopeIdToContextId
        /\ k[2] = 0 => corrIdToExternId[k[1]][1] # e
    BY <1>4, <1>5, <2>1, <2>2
  <2> QED BY <1>4, <2>1, <2>2, <2>3 DEF HomeOK, Known
<1>22. worker' = [stage |-> "next", snap |-> worker.snap, datas |-> {}, data |-> worker.data,
                  scope |-> worker.scope, max |-> worker.max]
  <2> PICK w : w = worker
    OBVIOUS
  <2>1. w = [stage |-> w.stage, snap |-> w.snap, datas |-> w.datas, data |-> w.data, scope |-> w.scope, max |-> w.max]
    BY <1>0 DEF WorkerOK
  <2> QED BY <1>4, <2>1
<1>23. WorkerOK'
  BY <1>0, <1>4, <1>5, <1>22 DEF WorkerOK, AtRecord
<1>24. CountsOK'
  <2>1. ~ AtRecord'
    BY <1>22 DEF AtRecord
  <2>2. ASSUME NEW d \in Sessions, NEW k \in DOMAIN counted[d] PROVE CountedOK(d, k)'
    <3>1. CountedOK(d, k)
      BY <1>0 DEF CountsOK
    <3>2. NodeOf(k)' = NodeOf(k) /\ k \notin buffer'
      BY <1>1, <1>4, <3>1 DEF NodeOf, CountedOK
    <3> QED BY <1>4, <3>1, <3>2 DEF CountedOK
  <2>3. ASSUME NEW d \in dataSet, NEW k \in due[d] PROVE DueOK(d, k)'
    <3>1. DueOK(d, k)
      BY <1>0 DEF CountsOK
    <3> QED BY <1>1, <1>4, <1>6, <1>22, <2>1, <3>1 DEF DueOK
  <2> QED BY <1>0, <1>4, <1>5, <2>2, <2>3 DEF CountsOK
<1> QED BY <1>18, <1>19, <1>20, <1>21, <1>23, <1>24 DEF IInv

-----------------------------------------------------------------------------
LEMMA InitIsRight ==
  ASSUME Init PROVE IInv
<1>1. pc = [t \in Threads |-> "idle"] /\ pc[Manager] = "idle" /\ call.kind = "none"
  BY ProtonAssumption DEF Init
<1>2. TypesOK
  <2>1. op \in [Threads -> Ops]
    <3> PICK o : o = [n |-> 0, kind |-> "none", corr |-> 0, seen |-> {}]
      OBVIOUS
    <3>1. o \in Ops /\ op = [t \in Threads |-> o]
      BY DEF Init, Ops
    <3> QED BY <3>1
  <2>2. DOMAIN corrIdToExternId = {} /\ DOMAIN home = {} /\ nextCorr = 1
    BY DEF Init
  <2>3. IsFiniteSet(dataSet) /\ dataSet \subseteq Sessions /\ started \in BOOLEAN
    BY FS_EmptySet DEF Init
  <2>4. /\ pc \in [Threads -> {"idle"} \cup OpPcs \cup CallPcs] /\ opInProgress \in [Threads -> BOOLEAN]
        /\ adding \in [Threads -> SUBSET Sessions] /\ DOMAIN externIdQueue = Threads
    BY DEF Init
  <2>5. DOMAIN scopeIdToContextId = Sessions /\ DOMAIN counted = Sessions /\ DOMAIN due = Sessions
    BY DEF Init
  <2> QED BY <2>1, <2>2, <2>3, <2>4, <2>5 DEF TypesOK
<1>3. CallOK
  <2>1. Cardinality(dataSet) = 0
    BY FS_EmptySet DEF Init
  <2> QED BY <1>1, <2>1 DEF Init, CallOK, CallPcs
<1>4. FlushOK
  BY <1>1 DEF FlushOK
<1>5. ThreadsOK
  <2> SUFFICES ASSUME NEW t \in Threads PROVE ThreadOK(t)
    BY DEF ThreadsOK
  <2>1. pc[t] = "idle" /\ externIdQueue[t] = <<>> /\ ~ opInProgress[t] /\ adding[t] = {}
    BY DEF Init
  <2> QED BY <2>1 DEF ThreadOK, NoQueue, OpPcs
<1>6. Flying = {} /\ DOMAIN corrIdToExternId = {}
  BY DEF Init, Flying
<1>7. CorrsOK /\ HomesOK
  BY <1>6 DEF Init, CorrsOK, HomesOK
<1>8. WorkerOK
  BY DEF Init, WorkerOK, AtRecord, Idle
<1>9. CountsOK
  <2>1. \A d \in Sessions : DOMAIN counted[d] = {}
    BY DEF Init
  <2> QED BY <1>1, <2>1 DEF Init, CountsOK
<1> QED BY <1>2, <1>3, <1>4, <1>5, <1>7, <1>8, <1>9 DEF IInv

(* With no other thread in an op while sessions change, and a context to wait in, *)
(* every step keeps the invariant.                                               *)
THEOREM Invariance ==
  ASSUME Quiet, Manager \in Current PROVE Spec => []IInv
<1>1. Init => IInv
  BY InitIsRight
<1>2. IInv /\ [Next]_vars => IInv'
  <2> SUFFICES ASSUME IInv, [Next]_vars PROVE IInv'
    OBVIOUS
  <2>1. ASSUME NEW t \in Threads, EnterOp(t) PROVE IInv'
    BY <2>1, EnterOpKeeps
  <2>2. ASSUME NEW t \in Threads, NEW kind \in {"api", "graph"}, BeginApi(t, kind) PROVE IInv'
    BY <2>2, BeginApiKeeps
  <2>3. ASSUME NEW t \in Threads, NEW d \in Sessions, AddOp(t, d) PROVE IInv'
    BY <2>3, AddOpKeeps
  <2>4. ASSUME NEW t \in Threads, Started(t) PROVE IInv'
    BY <2>4, StartedKeeps
  <2>5. ASSUME NEW t \in Threads, CallbackEnter(t) PROVE IInv'
    BY <2>5, CallbackEnterKeeps
  <2>6. ASSUME NEW t \in Threads, NoLaunch(t) PROVE IInv'
    BY <2>6, NoLaunchKeeps
  <2>7. ASSUME NEW t \in Threads, Launch(t) PROVE IInv'
    BY <2>7, LaunchKeeps
  <2>8. ASSUME NEW t \in Threads, CallbackExit(t) PROVE IInv'
    BY <2>8, CallbackExitKeeps
  <2>9. ASSUME NEW t \in Threads, ExitOp(t) PROVE IInv'
    BY <2>9, ExitOpKeeps
  <2>10. ASSUME NEW s \in Sessions, Activate(s) PROVE IInv'
    BY <2>10, ActivateKeeps
  <2>11. ASSUME NEW s \in Sessions, Deactivate(s) PROVE IInv'
    BY <2>11, DeactivateKeeps
  <2>12. ASSUME NEW s \in Sessions, Finalize(s) PROVE IInv'
    <3>1. s \in live \cap Sessions
      BY <2>12 DEF Finalize
    <3> QED BY <2>12, <3>1, FinalizeKeeps
  <2>13. CASE CallGoesOn
    BY <2>13, SynchronizeKeeps, FlushAllKeeps, RetryKeeps, FlushForcedKeeps, RegisterKeeps, UnregisterKeeps,
       ClearKeeps, StopKeeps DEF CallGoesOn
  <2>14. CASE GPU
    BY <2>14, KernelEndsKeeps DEF GPU
  <2>15. CASE CUPTI
    BY <2>15, CompleteBufferKeeps, NextRecordKeeps, RecordDoneKeeps, BufferDoneKeeps, AddOpOfRecordKeeps,
       AddMetricOfRecordKeeps DEF CUPTI
  <2>16. CASE BufferFull
    BY <2>16, BufferFullKeeps
  <2>17. CASE UNCHANGED vars
    <3>1. UNCHANGED <<pc, gil, call, started, dataSet, opCount, active, live, threadVars, profilerVars, sessionVars,
                      open, home, corrIdToExternId, apiExternIds, scopeIdToContextId, done, op, externIdQueue,
                      opInProgress, adding, nextCorr, unreported, counted, buffer, worker, crashed, due>>
      BY <2>17 DEF vars, threadVars, profilerVars, corrVars, dataVars, sessionVars, gpuVars, workerVars, ghostVars
    <3>2. TypesOK'
      BY <3>1 DEF IInv, TypesOK
    <3>3. CallOK' /\ FlushOK' /\ ThreadsOK' /\ \A c : Launching(c) => Launching(c)'
      BY <3>1, ThreadsStayToo DEF IInv
    <3>4. CorrsOK' /\ HomesOK' /\ WorkerOK' /\ CountsOK'
      BY <3>1, <3>2, <3>3, RecordsStay DEF IInv, TypesOK, Ops
    <3> QED BY <3>2, <3>3, <3>4 DEF IInv
  <2> QED BY <2>1, <2>2, <2>3, <2>4, <2>5, <2>6, <2>7, <2>8, <2>9, <2>10, <2>11, <2>12, <2>13, <2>14, <2>15,
             <2>16, <2>17 DEF Next, Begins, GoesOn, Calls
<1> QED BY <1>1, <1>2, PTL DEF Spec

(* A kernel is counted once, at the node of the op it was launched in, whenever *)
(* completeBuffer comes to its record.                                           *)
THEOREM KernelsAreCountedAtHome ==
  ASSUME Quiet, Manager \in Current PROVE Spec => []CountedAtHome
<1>1. IInv => CountedAtHome
  BY DEF IInv, CountsOK, CountedOK, CountedAtHome, NodeOf
<1> QED BY <1>1, Invariance, PTL

(* When unregisterData takes a session's data out of the profiler, doFlush has    *)
(* seen to it that the kernels it must count are counted.                        *)
THEOREM DueKernelsAreCounted ==
  ASSUME Quiet, Manager \in Current PROVE Spec => []AllCounted
<1>1. IInv => AllCounted
  BY DEF IInv, CountsOK, AllCounted, At
<1> QED BY <1>1, Invariance, PTL

(* Neither startOp nor completeBuffer works on the data of a session that was    *)
(* finalized.                                                                    *)
THEOREM DataStaysAlive ==
  ASSUME Quiet, Manager \in Current PROVE Spec => []DataAlive
<1>1. ASSUME IInv PROVE DataAlive
  <2>1. dataSet \subseteq live
    <3>1. call.kind \in {"none", "activate", "deactivate", "finalize"} /\ active \subseteq live
      BY <1>1 DEF IInv, CallOK
    <3>2. CASE call.kind = "none"
      BY <1>1, <3>1, <3>2 DEF IInv, CallOK
    <3>3. CASE call.kind = "activate"
      BY <1>1, <3>1, <3>3 DEF IInv, CallOK
    <3>4. CASE call.kind \in {"deactivate", "finalize"}
      <4>1. call.s \in live /\ dataSet \subseteq active \cup {call.s}
        BY <1>1, <3>4 DEF IInv, CallOK
      <4> QED BY <3>1, <4>1
    <3> QED BY <3>1, <3>2, <3>3, <3>4
  <2>2. worker.datas \subseteq dataSet
    BY <1>1 DEF IInv, WorkerOK
  <2>3. \A t \in Threads : adding[t] \subseteq dataSet
    BY <1>1 DEF IInv, ThreadsOK, ThreadOK
  <2> QED BY <2>1, <2>2, <2>3 DEF DataAlive
<1> QED BY <1>1, Invariance, PTL

(* When nothing is under way, processActivityKernel has erased the correlations  *)
(* of the launches that were reported, and exitOp has emptied the queues.         *)
THEOREM NothingIsLeft ==
  ASSUME Quiet, Manager \in Current PROVE Spec => []NothingLeft
<1>1. ASSUME IInv PROVE NothingLeft
  <2> SUFFICES ASSUME \A t \in Threads : pc[t] = "idle", open = {}, worker.stage = "idle"
               PROVE  /\ DOMAIN corrIdToExternId \subseteq unreported
                      /\ apiExternIds \subseteq {corrIdToExternId[c][1] : c \in DOMAIN corrIdToExternId}
                      /\ \A t \in Threads : externIdQueue[t] = <<>>
    BY DEF NothingLeft
  <2>1. ASSUME NEW c \in DOMAIN corrIdToExternId PROVE c \in unreported
    <3>1. FlyingOf(c) = {} /\ ~ Launching(c)
      BY <1>1 DEF IInv, WorkerOK, FlyingOf, Flying, Launching
    <3>2. corrIdToExternId[c][2] \in {1, 2}
      BY <1>1 DEF IInv, CorrsOK, CorrOK
    <3>3. PICK F \in Launches(c, corrIdToExternId[c][2]) : FlyingOf(c) = F \/ c \in unreported \/ Launching(c)
      BY <1>1 DEF IInv, CorrsOK, CorrOK
    <3>4. F # {}
      <4>1. CASE corrIdToExternId[c][2] = 1
        BY <3>3, <4>1 DEF Launches
      <4>2. CASE corrIdToExternId[c][2] = 2
        <5>1. F = {<<c, 1>>, <<c, 2>>}
          BY <3>3, <4>2 DEF Launches
        <5> QED BY <5>1
      <4> QED BY <3>2, <4>1, <4>2
    <3> QED BY <3>1, <3>3, <3>4
  <2>2. \A t \in Threads : externIdQueue[t] = <<>>
    BY <1>1 DEF IInv, ThreadsOK, ThreadOK, NoQueue, OpPcs
  <2> QED BY <1>1, <2>1, <2>2 DEF IInv, CorrsOK
<1> QED BY <1>1, Invariance, PTL

(* addMetric is never asked for a record that a forced flush delivered early.    *)
THEOREM RecordsAreValid ==
  ASSUME Quiet, Manager \in Current PROVE Spec => []RecordsValid
<1>1. IInv => RecordsValid
  BY DEF IInv, WorkerOK, RecordsValid
<1> QED BY <1>1, Invariance, PTL
=============================================================================
