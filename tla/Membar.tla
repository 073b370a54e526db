------------------------------- MODULE Membar -------------------------------
(***************************************************************************)
(* MembarAnalysis (lib/Analysis/Membar.cpp): a data flow analysis over the *)
(* virtual blocks of a function that puts a gpu.barrier before every       *)
(* operation whose shared memory accesses may conflict with accesses made  *)
(* since the last barrier, function by function, callees first.            *)
(*                                                                         *)
(* A module is a sequence of functions in the post-order of the call       *)
(* graph, the kernel last.  A function has virtual blocks and starts, the  *)
(* blocks the analysis begins with: its entry and the entries of isolated  *)
(* regions.  A block has operations and successors, and                    *)
(*   ret    it ends in tt.return,                                          *)
(*   sync   it ends in a ttg.warp_specialize op or its ttg.warp_yield,     *)
(*          whose lowering synchronises the CTA,                           *)
(* An operation has a kind, the intervals it reads and writes (for         *)
(* "scratch" the interval of its scratch buffer in both), and, for a call, *)
(* the callee and the base the frame of the callee has in that of the      *)
(* caller.  Intervals are relative to the frame of their function.         *)
(*                                                                         *)
(* A definition marked "bug:" is the next one with a mistake that the      *)
(* properties must catch; nothing uses it.                                 *)
(***************************************************************************)
EXTENDS Integers, Sequences, FiniteSets

CONSTANTS Modules,    \* the modules to be analysed
          MaxAddr     \* the end of the address space

Intervals == {v \in (0 .. MaxAddr) \X (0 .. MaxAddr) : v[1] < v[2]}
All == <<0, MaxAddr>>
Kinds == {"memory", "scratch", "barrier", "wait", "arrive", "call"}

Operation == [kind : Kinds, reads : SUBSET Intervals, writes : SUBSET Intervals,
              callee : Nat, base : Nat]
VirtualBlock == [ops : Seq(Operation), succs : Seq(Nat), ret : BOOLEAN, sync : BOOLEAN]
Function == [blocks : Seq(VirtualBlock), starts : Seq(Nat)]

\* Calls go to functions that the walk has been at; a barrier and an async wait
\* touch no shared memory, and a scratch operation reads back what it writes.
ASSUME ModulesAssumption ==
    /\ MaxAddr \in Nat
    /\ \A m \in Modules :
       /\ m.funcs \in Seq(Function) /\ m.funcs # <<>>
       /\ \A f \in DOMAIN m.funcs :
          LET F == m.funcs[f]
          IN /\ F.starts \in Seq(DOMAIN F.blocks) /\ F.starts # <<>>
             /\ \A b \in DOMAIN F.blocks :
                   /\ F.blocks[b].succs \in Seq(DOMAIN F.blocks)
                   /\ \A i \in DOMAIN F.blocks[b].ops :
                         LET op == F.blocks[b].ops[i]
                         IN /\ op.kind = "scratch" => op.reads = op.writes /\ op.reads # {}
                            /\ op.kind \in {"barrier", "wait"} => op.reads = {} /\ op.writes = {}
                            /\ op.kind = "call" => op.callee \in 1 .. f - 1

VARIABLES mod,        \* the module under analysis
          fn,         \* the function the post-order walk is at
          blockList,  \* the work list
          inputs,     \* inputBlockInfoMap
          outputs,    \* outputBlockInfoMap, meaningful for the blocks in
          seen,       \* its domain
          cur, pos,   \* the block being scanned (0 if none) and the next op
          info,       \* the BlockInfo the scan updates
          barriers,   \* <<f, b, i>>: a gpu.barrier was inserted before op i
          funcInfo,   \* funcBlockInfoMap
          pending,    \* see the last part of the module
          stack

analysis == <<fn, blockList, inputs, outputs, seen, cur, pos, info, barriers, funcInfo>>
vars == <<mod, analysis, pending, stack>>

-----------------------------------------------------------------------------
(* BlockInfo (Membar.h): the reads and the writes since the last barrier,  *)
(* each an interval with the operation <<f, b, i>> that makes it.          *)

Nothing == [r |-> {}, w |-> {}]
join(x, y) == [r |-> x.r \cup y.r, w |-> x.w \cup y.w]

intersects(u, v) == u[1] < v[2] /\ v[1] < u[2]
\* The filter of a back end excuses pairs of operations.
Clash(A, B) == \E a \in A, b \in B :
                  intersects(a[1], b[1]) /\ <<a[2], b[2]>> \notin mod.filter
\* bug: a write after a read is not looked for.
isIntersectedWithoutWAR(x, y) == Clash(x.w, y.r) \/ Clash(x.w, y.w)
\* Read after write, write after read, write after write.
isIntersected(x, y) == Clash(x.w, y.r) \/ Clash(x.r, y.w) \/ Clash(x.w, y.w)

-----------------------------------------------------------------------------
Funs == DOMAIN mod.funcs
Block(f, b) == mod.funcs[f].blocks[b]
Op(f, b, i) == Block(f, b).ops[i]
IsBarrier(f, b, i) == \/ <<f, b, i>> \in barriers
                      \/ i <= Len(Block(f, b).ops) /\ Op(f, b, i).kind = "barrier"

By(V, id) == {<<v, id>> : v \in V}
\* What an operation other than a call does to memory, for the analysis.
Effects(f, b, i) ==
    LET op == Op(f, b, i)
        any == IF op.kind = "arrive" THEN {All} ELSE {}
    IN [r |-> By(op.reads \cup any, <<f, b, i>>), w |-> By(op.writes \cup any, <<f, b, i>>)]

Empty(f) == [b \in DOMAIN mod.funcs[f].blocks |-> Nothing]

-----------------------------------------------------------------------------
(* resolve: one function                                                   *)

TakeBlock ==
    /\ fn \in Funs /\ cur = 0 /\ blockList # <<>>
    /\ cur' = Head(blockList)
    /\ blockList' = Tail(blockList)
    /\ info' = inputs[cur']
    /\ pos' = 1
    /\ UNCHANGED <<mod, fn, inputs, outputs, seen, barriers, funcInfo, pending, stack>>

\* Update is called for the barrier inserted before an operation, if there is
\* one, and then for the operation, which finds the BlockInfo Found.
Scan(kinds) == /\ cur # 0 /\ pos <= Len(Block(fn, cur).ops) /\ Op(fn, cur, pos).kind \in kinds
               /\ pos' = pos + 1
               /\ UNCHANGED <<mod, fn, blockList, inputs, outputs, seen, cur, funcInfo, pending, stack>>
Found == IF <<fn, cur, pos>> \in barriers THEN Nothing ELSE info
Insert(here) == barriers' = barriers \cup {<<fn, cur, here>>}

UpdateBarrier ==
    /\ Scan({"barrier"})
    /\ info' = Nothing
    /\ UNCHANGED barriers

\* The code inserts a barrier behind the wait unless the next operation is one.
UpdateWait ==
    /\ Scan({"wait"})
    /\ IF IsBarrier(fn, cur, pos + 1)
       THEN info' = Found /\ UNCHANGED barriers
       ELSE info' = Nothing /\ Insert(pos + 1)

\* A scratch operation writes first, synchronises inside and reads last; the
\* write stays in the info.
\* bug: the sync inside it is taken to come last.
AfterScratchSynced(e) == Nothing
AfterScratch(e) == e
UpdateScratch ==
    /\ Scan({"scratch"})
    /\ LET e == Effects(fn, cur, pos)
       IN /\ IF isIntersected(Found, [e EXCEPT !.r = {}]) THEN Insert(pos) ELSE UNCHANGED barriers
          /\ info' = AfterScratch(e)

UpdateOther ==
    /\ Scan({"memory", "arrive", "call"})
    /\ LET op == Op(fn, cur, pos)
           e  == IF op.kind = "call" THEN funcInfo[op.callee] ELSE Effects(fn, cur, pos)
       IN IF isIntersected(Found, e)
          THEN info' = e /\ Insert(pos)
          ELSE info' = join(Found, e) /\ UNCHANGED barriers

\* At the end of the block: a barrier may have been inserted behind its last op.
EndInfo == Found

\* bug: the successors are visited only when they have not been seen.
ToVisitOnce(s) == SelectSeq(s, LAMBDA b : b \notin seen)
ToVisit(s) == s

\* bug: the output is not compared with the one before.
UnchangedNever == FALSE
Unchanged == cur \in seen /\ outputs[cur] = EndInfo

VisitTerminator ==
    /\ cur # 0 /\ pos > Len(Block(fn, cur).ops)
    /\ IF Unchanged
       THEN UNCHANGED <<outputs, seen, inputs, blockList>>
       ELSE LET succs == ToVisit(Block(fn, cur).succs)
            IN /\ outputs' = [outputs EXCEPT ![cur] = EndInfo]
               /\ seen' = seen \cup {cur}
               /\ inputs' = [b \in DOMAIN inputs |->
                                IF \E k \in DOMAIN succs : succs[k] = b
                                THEN join(inputs[b], EndInfo) ELSE inputs[b]]
               /\ blockList' = blockList \o succs
    /\ cur' = 0
    /\ UNCHANGED <<mod, fn, pos, info, barriers, funcInfo, pending, stack>>

\* The work list is empty: what is left at the returns is the function's info,
\* and the walk goes on to the next function.
NextFunction ==
    /\ fn \in Funs /\ cur = 0 /\ blockList = <<>>
    /\ LET rets == {b \in seen : Block(fn, b).ret}
       IN funcInfo' = [funcInfo EXCEPT ![fn] = [r |-> UNION {outputs[b].r : b \in rets},
                                                w |-> UNION {outputs[b].w : b \in rets}]]
    /\ fn' = fn + 1
    /\ IF fn + 1 \in Funs
       THEN /\ blockList' = mod.funcs[fn + 1].starts
            /\ inputs' = Empty(fn + 1) /\ outputs' = Empty(fn + 1) /\ seen' = {}
       ELSE UNCHANGED <<blockList, inputs, outputs, seen>>
    /\ UNCHANGED <<mod, cur, pos, info, barriers, pending, stack>>

Analyse == \/ TakeBlock \/ UpdateBarrier \/ UpdateWait \/ UpdateScratch \/ UpdateOther
           \/ VisitTerminator \/ NextFunction

-----------------------------------------------------------------------------
(* What the barriers are for.  When the analysis is done, the threads of a  *)
(* CTA run the kernel, or an isolated region of it, along some path: they   *)
(* all take the same one, so it is walked once, and pending is what any of  *)
(* them may still be at, the accesses since the last barrier.  An access    *)
(* carries the depth of the function that made it, 0 when that has          *)
(* returned; stack holds where each function is.                            *)

Done == fn \notin Funs
Top == stack[Len(stack)]
Here == <<Top.f, Top.b, Top.i>>
AtEnd == Top.i > Len(Block(Top.f, Top.b).ops)
AtOp(kinds) == stack # <<>> /\ ~ AtEnd /\ Op(Top.f, Top.b, Top.i).kind \in kinds

\* What is pending where the run is, behind the inserted barrier if there is one.
Pending == IF Here \in barriers THEN Nothing ELSE pending
Absolute(A) == {<< <<a[1][1] + Top.base, a[1][2] + Top.base>>, a[2], Len(stack)>> : a \in A}
Accessed(e) == [r |-> Absolute(e.r), w |-> Absolute(e.w)]
Mine == [r |-> {a \in Pending.r : a[3] = Len(stack)}, w |-> {a \in Pending.w : a[3] = Len(stack)}]
\* The accesses of a function that returns are those of a function that has returned.
Orphaned(p, depth) == [r |-> {IF a[3] = depth THEN <<a[1], a[2], 0>> ELSE a : a \in p.r},
                       w |-> {IF a[3] = depth THEN <<a[1], a[2], 0>> ELSE a : a \in p.w}]

Advance(s) == [s EXCEPT ![Len(s)].i = @ + 1]
Run(kinds) == Done /\ AtOp(kinds) /\ UNCHANGED <<mod, analysis>>

Launch ==
    /\ Done /\ stack = <<>>
    /\ \E k \in DOMAIN mod.funcs[Len(mod.funcs)].starts :
          stack' = << [f |-> Len(mod.funcs), b |-> mod.funcs[Len(mod.funcs)].starts[k], i |-> 1, base |-> 0] >>
    /\ UNCHANGED <<mod, analysis, pending>>

RunMemory ==
    /\ Run({"memory"})
    /\ pending' = join(Pending, Accessed(Effects(Top.f, Top.b, Top.i)))
    /\ stack' = Advance(stack)

\* An async wait touches no shared memory, and an arrive only signals.
RunSignal == Run({"wait", "arrive"}) /\ pending' = Pending /\ stack' = Advance(stack)

RunBarrier == Run({"barrier"}) /\ pending' = Nothing /\ stack' = Advance(stack)

RunScratch ==
    /\ Run({"scratch"})
    /\ pending' = [Accessed(Effects(Top.f, Top.b, Top.i)) EXCEPT !.w = {}]
    /\ stack' = Advance(stack)

RunCall ==
    /\ Run({"call"})
    /\ LET op == Op(Top.f, Top.b, Top.i)
       IN stack' = Append(stack, [f |-> op.callee, b |-> mod.funcs[op.callee].starts[1], i |-> 1,
                                  base |-> Top.base + op.base])
    /\ pending' = Pending

Leaving == IF Block(Top.f, Top.b).sync THEN Nothing ELSE Pending

RunBranch ==
    /\ Done /\ stack # <<>> /\ AtEnd
    /\ \E k \in DOMAIN Block(Top.f, Top.b).succs :
          stack' = [stack EXCEPT ![Len(stack)].b = Block(Top.f, Top.b).succs[k],
                                 ![Len(stack)].i = 1]
    /\ pending' = Leaving
    /\ UNCHANGED <<mod, analysis>>

RunReturn ==
    /\ Done /\ stack # <<>> /\ AtEnd /\ Block(Top.f, Top.b).succs = <<>>
    /\ IF Len(stack) = 1
       THEN stack' = <<>> /\ pending' = Nothing
       ELSE /\ stack' = Advance(SubSeq(stack, 1, Len(stack) - 1))
            /\ pending' = Orphaned(Leaving, Len(stack))
    /\ UNCHANGED <<mod, analysis>>

-----------------------------------------------------------------------------
Init ==
    /\ mod \in Modules
    /\ fn = 1
    /\ blockList = mod.funcs[1].starts
    /\ inputs = Empty(1) /\ outputs = Empty(1) /\ seen = {}
    /\ cur = 0 /\ pos = 1 /\ info = Nothing
    /\ barriers = {}
    /\ funcInfo = [f \in Funs |-> Nothing]
    /\ pending = Nothing
    /\ stack = <<>>

Next == Analyse \/ Launch \/ RunMemory \/ RunSignal \/ RunBarrier \/ RunScratch \/ RunCall
          \/ RunBranch \/ RunReturn

Spec == Init /\ [][Next]_vars
\* The analysis is a loop of the compiler: it goes on until it is done.
FairSpec == Spec /\ WF_vars(Analyse)

-----------------------------------------------------------------------------
\* A pending access p and one of e share an address, one of them is a write, and
\* no filter excuses the two operations.
Race(p, e) ==
    \E a \in p.r \cup p.w, b \in e.r \cup e.w :
       /\ a \in p.w \/ b \in e.w
       /\ \E x \in a[1][1] .. a[1][2] - 1 : x \in b[1][1] .. b[1][2] - 1
       /\ <<a[2], b[2]>> \notin mod.filter
\* The first accesses of the operation the run is at.
FirstAccess == LET e == Effects(Top.f, Top.b, Top.i)
         IN Accessed(IF AtOp({"scratch"}) THEN [e EXCEPT !.r = {}] ELSE e)

\* "If a shared memory write is followed by a shared memory read, and their
\* addresses are intersected, a barrier is inserted" (and likewise for a write
\* after a read): whatever path a run takes, through loops, branches and calls,
\* no operation of a function meets an access of the same call of it that is
\* still pending, and an arrive finds nothing pending.
RaceFree == AtOp(Kinds \ {"call"}) => ~ Race(Mine, FirstAccess)

\* "Each function maintains a BlockInfo map that includes all potential buffers
\* after returning": what a call leaves pending of its own is in that map.
DanglingBuffersKnown ==
    Done /\ stack # <<>> /\ AtEnd /\ Block(Top.f, Top.b).ret =>
        LET own(A) == {<< <<a[1][1] - Top.base, a[1][2] - Top.base>>, a[2]>> : a \in A}
        IN own(Mine.r) \subseteq funcInfo[Top.f].r /\ own(Mine.w) \subseteq funcInfo[Top.f].w

\* The transfer function is not monotonic, and yet the work list runs empty.
Termination == <>Done
=============================================================================
