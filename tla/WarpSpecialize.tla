--------------------------- MODULE WarpSpecialize ---------------------------
(***************************************************************************)
(* The machine that ConvertWarpSpecializeToLLVM.cpp makes of a kernel      *)
(* with ttg.warp_specialize ops.  The warps below NumDefault run the       *)
(* program; all the others wait in a "switch loop" for the default warps   *)
(* to hand them a partition.  They meet at hardware barrier 1, which has   *)
(* no thread count and so needs every warp of the CTA:                     *)
(*                                                                         *)
(*   default   store states, store captures | A | regs | B | region | C |  *)
(*   worker                                 | A | load | B | region | C |  *)
(*   idle                                   | A | load | B |        | C |  *)
(*   the end   store exit states            | A | return                   *)
(*                                                                         *)
(* An op o of the kernel is a record: nums[p] and starts[p] are the warp   *)
(* count and the absolute first warp of partition p, regs is <<>> or the   *)
(* actualRegisters attribute (default warps first), caps says whether the  *)
(* op has captures left, bars are the regions (0 is the default one) that  *)
(* hold a warp group barrier.  A warp is one thread here: its 32 threads   *)
(* take the same path.                                                     *)
(*                                                                         *)
(* A definition marked "bug:" is the next one with a mistake that the      *)
(* properties must catch; nothing uses it.                                 *)
(***************************************************************************)
EXTENDS Integers, Sequences, FiniteSets

CONSTANTS NumDefault,   \* warps of the default warp group
          NumWorker,    \* total-num-warps minus NumDefault
          Ops,          \* the warp_specialize ops of the kernel, in walk order
          Programs,     \* the sequences of op executions the kernel may take
          MaxNReg,      \* the ttg.maxnreg attribute, 0 when there is none
          StateMod      \* number of values of a state byte: 256

Default == 0 .. NumDefault - 1
Worker  == NumDefault .. NumDefault + NumWorker - 1
Warps   == Default \cup Worker

OpIds == DOMAIN Ops
PartIds(o) == DOMAIN Ops[o].nums
\* The warps of a region: 0 is the default region, p > 0 a partition.
Team(o, p) == IF p = 0 THEN Default
              ELSE Ops[o].starts[p] .. Ops[o].starts[p] + Ops[o].nums[p] - 1

-----------------------------------------------------------------------------
(* Numbers fixed at compile time.                                          *)

\* enum BarrierIndex: 0 is the default warp group's, 1 the switch loop's.
kNumReservedBarriers == 2
kNumBarriers == 16

\* bug: the reserved barriers are forgotten.
BarIdxUnreserved(p) == IF p = 0 THEN 0 ELSE p - 1
BarIdx(p) == IF p = 0 THEN 0 ELSE p - 1 + kNumReservedBarriers

\* partitionStateCounter gives the partitions of all ops consecutive ids.
Parts == UNION {{<<o, p>> : p \in PartIds(o)} : o \in OpIds}
Before(q) == {r \in Parts : r[1] < q[1] \/ (r[1] = q[1] /\ r[2] < q[2])}
\* bug: the counter starts again with each op.
StateIdPerOp == [q \in Parts |-> q[2] - 1]
StateId == [q \in Parts |-> Cardinality(Before(q))]
ExitId == Cardinality(Parts)

\* A state is stored, loaded and switched on as an i8.
I8(n) == n % StateMod

\* bug: the map is initialised with 0.
StateMapZero == [o \in OpIds |-> [w \in Worker |->
    IF \E p \in PartIds(o) : w \in Team(o, p)
    THEN StateId[<<o, CHOOSE p \in PartIds(o) : w \in Team(o, p)>>]
    ELSE 0]]
\* stateMap of op o: the id of the partition a warp belongs to, -1 if none.
StateMap == [o \in OpIds |-> [w \in Worker |->
    IF \E p \in PartIds(o) : w \in Team(o, p)
    THEN StateId[<<o, CHOOSE p \in PartIds(o) : w \in Team(o, p)>>]
    ELSE -1]]

Idle == <<0, 0>>
Exit == <<0, 1>>
\* The switch: the partition of a state byte; Idle is the default case.
Target(s) == IF s = I8(ExitId) THEN Exit
             ELSE IF \E q \in Parts : I8(StateId[q]) = s
                  THEN CHOOSE q \in Parts : I8(StateId[q]) = s
                  ELSE Idle

Min2(a, b) == IF a <= b THEN a ELSE b

\* Registers the default warps can get if the workers surrender all they can.
MaxDefRegs == 8 * ((MaxNReg + ((MaxNReg - 24) * NumWorker) \div NumDefault) \div 8)
defRegs == Min2(MaxDefRegs, 256)
giveRegs == ((256 - MaxNReg) * NumDefault) \div NumWorker
lowRegs == IF MaxDefRegs > 256 THEN 8 * ((MaxNReg - giveRegs) \div 8) ELSE 24

HasRegs(o) == Ops[o].regs # <<>>
ActRegs(o, p) == Ops[o].regs[p + 1]

Junk == -1   \* what memory holds before it is written, or after it is reused

OpRecords == [nums : Seq(Nat \ {0}), starts : Seq(Nat), regs : Seq(Nat),
              caps : BOOLEAN, bars : SUBSET Nat]

\* What lowerWarpSpecialize accepts, and what the passes before it give it.
ASSUME WSAssumption ==
    /\ NumDefault \in Nat \ {0} /\ NumWorker \in Nat \ {0}
    /\ MaxNReg \in {0} \cup 24 .. 256
    /\ StateMod \in Nat \ {0}
    /\ Ops \in Seq(OpRecords)
    /\ Programs \subseteq Seq(OpIds)

ASSUME PartitionAssumption ==
    \A o \in OpIds :
       /\ Len(Ops[o].starts) = Len(Ops[o].nums)
       /\ Len(Ops[o].nums) + kNumReservedBarriers <= kNumBarriers
       /\ \A p \in PartIds(o) : Team(o, p) \subseteq Worker
       /\ \A p, q \in PartIds(o) : p # q => Team(o, p) \cap Team(o, q) = {}
       /\ HasRegs(o) => MaxNReg # 0 /\ Len(Ops[o].regs) = Len(Ops[o].nums) + 1

\* The code lets ExitId be 255, the byte of an idle warp; that is harmless only
\* because AllocateWarpGroups leaves no warp without a partition.
ASSUME StateAssumption ==
    /\ ExitId < StateMod
    /\ ExitId = StateMod - 1 =>
          \A o \in OpIds, w \in Worker : \E p \in PartIds(o) : w \in Team(o, p)

-----------------------------------------------------------------------------
VARIABLES prog,      \* the executions this run goes through, never changed
          pc,        \* where each warp is; "A", "B", "C", "X" wait at barrier 1
          ip,        \* position of each default warp in prog
          stateMem,  \* the state byte of each worker, in shared memory
          capMem,    \* whose captures the capture memory holds
          job, cap,  \* the state byte and the captures a worker has loaded
          regs, free \* registers of each warp, and left in the CTA's pool

vars == <<prog, pc, ip, stateMem, capMem, job, cap, regs, free>>
mem == <<stateMem, capMem>>
local == <<job, cap>>
pool == <<regs, free>>

Op(d) == prog[ip[d]]
More(d) == ip[d] <= Len(prog)
\* The partition a worker took, and the region any warp is in.
Part(w) == Target(job[w])
Region(w) == IF w \in Default THEN <<Op(w), 0>> ELSE Part(w)

Init ==
    /\ prog \in Programs
    /\ pc = [w \in Warps |-> IF w \in Default THEN "entry" ELSE "loop"]
    /\ ip = [d \in Default |-> 1]
    /\ stateMem = [w \in Worker |-> Junk]
    /\ capMem = Junk
    /\ job = [w \in Worker |-> Junk]
    /\ cap = [w \in Worker |-> Junk]
    /\ regs = [w \in Warps |-> MaxNReg]
    /\ free = 0

Goto(w, l) == pc' = [pc EXCEPT ![w] = l]

\* bug: an increase is emitted as a decrease and does not wait.
createRegReallocNoWait(w, curRegs, adjRegs) ==
    LET adj == Min2(256, adjRegs)
    IN  /\ regs' = [regs EXCEPT ![w] = adj]
        /\ free' = free - (adj - regs[w])

\* setmaxnreg, emitted as a decrease or an increase from the registers the
\* compiler believes the warp has: only an increase waits for the pool.
createRegRealloc(w, curRegs, adjRegs) ==
    LET cur == Min2(256, curRegs)
        adj == Min2(256, adjRegs)
    IN  /\ adj < cur \/ adj - regs[w] <= free
        /\ regs' = [regs EXCEPT ![w] = adj]
        /\ free' = free - (adj - regs[w])

ReallocIf(b, w, curRegs, adjRegs) ==
    \/ b /\ createRegRealloc(w, curRegs, adjRegs)
    \/ ~b /\ UNCHANGED pool

-----------------------------------------------------------------------------
(* The default warps.                                                      *)

Entry(d) ==
    /\ pc[d] = "entry"
    /\ ReallocIf(MaxNReg # 0, d, MaxNReg, defRegs)
    /\ Goto(d, "top")
    /\ UNCHANGED <<prog, ip, mem, local>>

StoreStates(d) ==
    /\ pc[d] = "top" /\ More(d)
    /\ stateMem' = [w \in Worker |-> I8(StateMap[Op(d)][w])]
    /\ Goto(d, "caps")
    /\ UNCHANGED <<prog, ip, capMem, local, pool>>

StoreCaptures(d) ==
    /\ pc[d] = "caps"
    /\ capMem' = IF Ops[Op(d)].caps THEN ip[d] ELSE capMem
    /\ Goto(d, "A")
    /\ UNCHANGED <<prog, ip, stateMem, local, pool>>

TakeRegs(d) ==
    /\ pc[d] = "regs"
    /\ ReallocIf(HasRegs(Op(d)), d, defRegs, ActRegs(Op(d), 0))
    /\ Goto(d, "B")
    /\ UNCHANGED <<prog, ip, mem, local>>

\* bug: the op that follows is passed over.
GiveBackRegsSkip(d) ==
    /\ pc[d] = "yield"
    /\ ReallocIf(HasRegs(Op(d)), d, ActRegs(Op(d), 0), defRegs)
    /\ ip' = [ip EXCEPT ![d] = @ + 2]
    /\ Goto(d, "top")
    /\ UNCHANGED <<prog, mem, local>>

\* bug: control goes back to the op that was left.
GiveBackRegsAgain(d) ==
    /\ pc[d] = "yield"
    /\ ReallocIf(HasRegs(Op(d)), d, ActRegs(Op(d), 0), defRegs)
    /\ Goto(d, "top")
    /\ UNCHANGED <<prog, ip, mem, local>>

\* After warp_yield; the next op, if any, follows.
GiveBackRegs(d) ==
    /\ pc[d] = "yield"
    /\ ReallocIf(HasRegs(Op(d)), d, ActRegs(Op(d), 0), defRegs)
    /\ ip' = [ip EXCEPT ![d] = @ + 1]
    /\ Goto(d, "top")
    /\ UNCHANGED <<prog, mem, local>>

StoreExit(d) ==
    /\ pc[d] = "top" /\ ~More(d)
    /\ stateMem' = [w \in Worker |-> I8(ExitId)]
    /\ Goto(d, "X")
    /\ UNCHANGED <<prog, ip, capMem, local, pool>>

-----------------------------------------------------------------------------
(* The workers.                                                            *)

LoopHead(w) ==
    /\ pc[w] = "loop"
    /\ ReallocIf(MaxNReg # 0, w, MaxNReg, lowRegs)
    /\ Goto(w, "A")
    /\ UNCHANGED <<prog, ip, mem, local>>

LoadState(w) ==
    /\ pc[w] = "load"
    /\ job' = [job EXCEPT ![w] = stateMem[w]]
    /\ Goto(w, CASE Target(stateMem[w]) = Exit -> "done"
                 [] Target(stateMem[w]) = Idle -> "B"
                 [] OTHER -> "grab")
    /\ UNCHANGED <<prog, ip, mem, cap, pool>>

GrabRegs(w) ==
    /\ pc[w] = "grab"
    /\ LET q == Part(w) IN ReallocIf(HasRegs(q[1]), w, lowRegs, ActRegs(q[1], q[2]))
    /\ Goto(w, "getcaps")
    /\ UNCHANGED <<prog, ip, mem, local>>

LoadCaptures(w) ==
    /\ pc[w] = "getcaps"
    /\ cap' = [cap EXCEPT ![w] = IF Ops[Part(w)[1]].caps THEN capMem ELSE Junk]
    /\ Goto(w, "B")
    /\ UNCHANGED <<prog, ip, mem, job, pool>>

DropRegs(w) ==
    /\ pc[w] = "drop"
    /\ LET q == Part(w) IN ReallocIf(HasRegs(q[1]), w, ActRegs(q[1], q[2]), lowRegs)
    /\ Goto(w, "loop")
    /\ UNCHANGED <<prog, ip, mem, local>>

-----------------------------------------------------------------------------
(* Regions and barriers.                                                   *)

\* bug: the captures are read in the region, after barrier B.
RunRegionLazily(w) ==
    /\ pc[w] = "region"
    /\ capMem' \in {capMem, Junk}
    /\ cap' = IF w \in Worker THEN [cap EXCEPT ![w] = capMem] ELSE cap
    /\ Goto(w, IF Region(w)[2] \in Ops[Region(w)[1]].bars THEN "sync" ELSE "C")
    /\ UNCHANGED <<prog, ip, stateMem, job, pool>>

\* A region may use the capture memory for its own buffers.  It then meets its
\* warp group at the group's barrier, if it has one, or reaches its end.
RunRegion(w) ==
    /\ pc[w] = "region"
    /\ capMem' \in {capMem, Junk}
    /\ Goto(w, IF Region(w)[2] \in Ops[Region(w)[1]].bars THEN "sync" ELSE "C")
    /\ UNCHANGED <<prog, ip, stateMem, local, pool>>

\* barrier.sync b, n: the hardware counts arrivals, whoever they come from.
GroupBarrier(b) ==
    LET W == {w \in Warps : pc[w] = "sync" /\ BarIdx(Region(w)[2]) = b} IN
    /\ \E w \in W : Cardinality(W) = Cardinality(Team(Region(w)[1], Region(w)[2]))
    /\ pc' = [w \in Warps |-> IF w \in W THEN "C" ELSE pc[w]]
    /\ UNCHANGED <<prog, ip, mem, local, pool>>

AfterBarrier(w) ==
    LET worker == w \in Worker
        idle == worker /\ Part(w) = Idle
    IN CASE pc[w] = "A" -> IF worker THEN "load" ELSE "regs"
         [] pc[w] = "B" -> IF idle THEN "C" ELSE "region"
         [] pc[w] = "C" -> IF worker THEN IF idle THEN "loop" ELSE "drop"
                                     ELSE "yield"
         [] pc[w] = "X" -> "done"

\* bug: the barrier only counts the workers.
SwitchLoopBarrierOfWorkers ==
    /\ \A w \in Worker : pc[w] \in {"A", "B", "C", "X"}
    /\ pc' = [w \in Warps |-> IF pc[w] \in {"A", "B", "C", "X"} THEN AfterBarrier(w)
                                                             ELSE pc[w]]
    /\ UNCHANGED <<prog, ip, mem, local, pool>>

\* barrier.sync 1 with no thread count completes when all warps have arrived.
SwitchLoopBarrier ==
    /\ \A w \in Warps : pc[w] \in {"A", "B", "C", "X"}
    /\ pc' = [w \in Warps |-> AfterBarrier(w)]
    /\ UNCHANGED <<prog, ip, mem, local, pool>>

DefaultStep(d) == \/ Entry(d) \/ StoreStates(d) \/ StoreCaptures(d) \/ TakeRegs(d)
                  \/ GiveBackRegs(d) \/ StoreExit(d)
WorkerStep(w) == \/ LoopHead(w) \/ LoadState(w) \/ GrabRegs(w) \/ LoadCaptures(w)
                 \/ DropRegs(w)

Returned == \A w \in Warps : pc[w] = "done"
Terminated == Returned /\ UNCHANGED vars

Next == \/ \E d \in Default : DefaultStep(d)
        \/ \E w \in Worker : WorkerStep(w)
        \/ \E w \in Warps : RunRegion(w)
        \/ \E b \in 0 .. kNumBarriers - 1 : GroupBarrier(b)
        \/ SwitchLoopBarrier
        \/ Terminated

Spec == Init /\ [][Next]_vars

\* All warps of a CTA are resident, so each one that can move does, and a
\* barrier that is complete releases its warps.
FairSpec ==
    /\ Spec
    /\ \A d \in Default : WF_vars(DefaultStep(d))
    /\ \A w \in Worker : WF_vars(WorkerStep(w))
    /\ \A w \in Warps : WF_vars(RunRegion(w))
    /\ \A b \in 0 .. kNumBarriers - 1 : WF_vars(GroupBarrier(b))
    /\ WF_vars(SwitchLoopBarrier)

-----------------------------------------------------------------------------
Labels == {"entry", "top", "caps", "A", "regs", "B", "region", "sync", "C",
           "yield", "X", "done", "loop", "load", "grab", "getcaps", "drop"}

(* Every variable holds a value of its kind. *)
TypeOK ==
    /\ prog \in Programs
    /\ pc \in [Warps -> Labels]
    /\ ip \in [Default -> 1 .. Len(prog) + 1]
    /\ stateMem \in [Worker -> Int]
    /\ capMem \in {Junk} \cup 1 .. Len(prog)
    /\ job \in [Worker -> Int]
    /\ cap \in [Worker -> {Junk} \cup 1 .. Len(prog)]
    /\ regs \in [Warps -> Int]
    /\ free \in Int

Working == {"grab", "getcaps", "region", "sync"}

(* A worker runs, of the op every default warp is in, exactly the partition  *)
(* whose warp group it belongs to: no state byte is read before it is        *)
(* stored, kept from an earlier op or overwritten by the next one.           *)
RightPartition ==
    \A w \in Worker, d \in Default :
       pc[w] \in Working =>
          /\ pc[d] \in {"regs", "B", "region", "sync", "C"}
          /\ Part(w)[1] = Op(d)
          /\ w \in Team(Part(w)[1], Part(w)[2])

(* A partition with captures runs with those of this execution of the op,    *)
(* although the other regions may already have reused the capture memory.    *)
CapturesIntact ==
    \A w \in Worker, d \in Default :
       pc[w] \in {"region", "sync"} /\ Ops[Part(w)[1]].caps => cap[w] = ip[d]

(* Warps that wait at the same group barrier are in the same region.         *)
GroupBarrierPure ==
    \A v, w \in Warps :
       /\ pc[v] = "sync" /\ pc[w] = "sync"
       /\ BarIdx(Region(v)[2]) = BarIdx(Region(w)[2])
       => Region(v) = Region(w)

(* The warps never hold more registers than the CTA was launched with: a     *)
(* decrease, which does not wait, is only ever emitted where it is one.      *)
PoolNotOverdrawn == free >= 0

(* No order of the warps' steps leaves a warp waiting at a barrier or for    *)
(* registers: the kernel always returns.                                     *)
Termination == <>Returned

-----------------------------------------------------------------------------
(* The abstract fork and join, seen in the state of the machine.  Warp 0     *)
(* stands for the default warps, which leave barrier 1 together.             *)

InOp(d) == pc[d] \in {"regs", "B", "region", "sync", "C"}

FJtask(w) ==
    LET loaded == pc[w] # "load"
        q == Target(IF loaded THEN job[w] ELSE stateMem[w])
        captured == IF loaded /\ pc[w] \notin {"grab", "getcaps"} THEN cap[w] ELSE capMem
    IN IF ~InOp(0) \/ q \in {Idle, Exit} THEN <<>>
       ELSE <<q[1], q[2], IF Ops[q[1]].caps THEN captured ELSE 0>>

FJ == INSTANCE ForkJoin WITH
    PartOf <- [o \in OpIds |-> [w \in Worker |->
                 IF \E p \in PartIds(o) : w \in Team(o, p)
                 THEN CHOOSE p \in PartIds(o) : w \in Team(o, p) ELSE 0]],
    WithCaps <- {o \in OpIds : Ops[o].caps},
    at <- IF InOp(0) \/ pc[0] = "yield" THEN ip[0] ELSE ip[0] - 1,
    stage <- IF InOp(0) THEN "forked" ELSE IF pc[0] = "done" THEN "exited" ELSE "seq",
    task <- [w \in Worker |-> FJtask(w)],
    done <- {w \in Warps : InOp(0) /\ pc[w] = "C" /\ (w \in Default \/ Part(w) # Idle)}

(* Each execution of an op runs every region once, with the partitions and   *)
(* captures fixed at the fork, and is left only when all regions are done.   *)
ImplementsForkJoin == FJ!Spec
=============================================================================
