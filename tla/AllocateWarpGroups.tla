------------------------- MODULE AllocateWarpGroups -------------------------
(***************************************************************************)
(* The passes of OptimizePartitionWarps.cpp, in kernels that are           *)
(* specialized automatically, and AllocateWarpGroups.cpp.  The first takes *)
(* warps from partitions; the second pads every ttg.warp_specialize of a   *)
(* module to the same number of whole warpgroups, gives the partitions     *)
(* their warps and decides how the register file is shared.                *)
(*                                                                         *)
(* A kernel is a record: base warps, maxnreg (0 when the user gave none),  *)
(* auto, whether the first pass is run, and ops, each with the warp counts *)
(* nums of its partitions, the requested registers req (<<>> when they are *)
(* not set), and for the first pass tensors, twice the i32 registers of    *)
(* the largest tensor of each partition, and least, the warps that its     *)
(* instructions need.  The second pass adds starts and act, the            *)
(* warpGroupStartIds and actualRegisters.                                  *)
(***************************************************************************)
EXTENDS WarpGroups

CONSTANTS Kernels   \* the kernels the pass is given

ASSUME KernelsAssumption ==
    \A k \in Kernels :
       /\ k.base \in Nat \ {0} /\ k.maxnreg \in Nat /\ k.auto \in BOOLEAN
       /\ k.ops \in Seq([nums : Seq({1, 2, 4, 8, 16}), req : Seq(Nat),
                         tensors : Seq(Nat), least : Seq({1, 2, 4})])
       /\ \A i \in DOMAIN k.ops :
             /\ k.ops[i].nums # <<>>
             /\ Len(k.ops[i].req) \in {0, Len(k.ops[i].nums)}
             /\ k.auto => Len(k.ops[i].tensors) = Len(k.ops[i].nums) /\ Len(k.ops[i].least) = Len(k.ops[i].nums)
             \* the first partition must open a warp group
             /\ k.auto \/ k.ops[i].req # <<>> => k.base % 4 = 0

VARIABLES kernel,   \* the input
          ops,      \* the ops, with the attributes set so far
          attr,     \* the maxnreg attribute of the module, 0 if none
          walk,     \* which walk over the module is under way
          at        \* the op this walk visits next

vars == <<kernel, ops, attr, walk, at>>

\* Computed before the ops are padded; padding them does not change it.
NumWorker == 4 * numExtraWarpGroups({SumFunction(ops[i].nums) : i \in DOMAIN ops})
NumWarps == kernel.base + NumWorker
Regs == maxnreg(kernel.maxnreg, NumWarps)

-----------------------------------------------------------------------------
Init == /\ kernel \in Kernels
        /\ ops = [i \in DOMAIN kernel.ops |->
                    [nums |-> kernel.ops[i].nums, req |-> kernel.ops[i].req,
                     starts |-> <<>>, act |-> <<>>]]
        /\ attr = kernel.maxnreg
        /\ walk = (IF kernel.auto THEN "optimize" ELSE "pad") /\ at = 1

\* One round of the loop of optimizePartitionNumWarps, and its end.
Optimizing == [nums |-> ops[at].nums, tensors |-> kernel.ops[at].tensors, least |-> kernel.ops[at].least]
Halve == /\ walk = "optimize" /\ at \in DOMAIN ops
         /\ Shrinkable(kernel.base, Optimizing) # {}
         /\ ops' = [ops EXCEPT ![at].nums[Min(Shrinkable(kernel.base, Optimizing))] = @ \div 2]
         /\ UNCHANGED <<kernel, attr, walk, at>>
Estimate == /\ walk = "optimize" /\ at \in DOMAIN ops
            /\ Shrinkable(kernel.base, Optimizing) = {}
            /\ ops' = [ops EXCEPT ![at].req = estRegUsage(Optimizing)]
            /\ at' = at + 1
            /\ UNCHANGED <<kernel, attr, walk>>

Pad == /\ walk = "pad" /\ at \in DOMAIN ops
       /\ ops' = [ops EXCEPT ![at] = padToMaxWarpGroups(@, NumWorker)]
       /\ at' = at + 1
       /\ UNCHANGED <<kernel, attr, walk>>

Allocate ==
    /\ walk = "alloc" /\ at \in DOMAIN ops
    /\ LET op == ops[at] IN
       \E idx \in SortedIdx(op.nums) :
          LET starts == StartIds(kernel.base, op.nums, idx)
              act == ActualRegisters(kernel.base, Regs, op.nums, op.req, starts)
          IN /\ ops' = [ops EXCEPT ![at].starts = starts, ![at].act = act]
             /\ attr' = IF act = <<>> THEN attr ELSE Regs
    /\ at' = at + 1
    /\ UNCHANGED <<kernel, walk>>

\* The walk is over; the last one is followed by total-num-warps.
NextWalk == /\ at \notin DOMAIN ops /\ walk # "done"
            /\ walk' = [optimize |-> "pad", pad |-> "alloc", alloc |-> "done"][walk]
            /\ at' = 1
            /\ UNCHANGED <<kernel, ops, attr>>

Terminated == walk = "done" /\ UNCHANGED vars

Next == Halve \/ Estimate \/ Pad \/ Allocate \/ NextWalk \/ Terminated
Spec == Init /\ [][Next]_vars
-----------------------------------------------------------------------------
Team(i, p) == ops[i].starts[p] .. ops[i].starts[p] + ops[i].nums[p] - 1
Done(i) == i \in DOMAIN ops /\ ops[i].starts # <<>>

Fits(i) ==
    LET own == DOMAIN kernel.ops[i].nums IN
    \A p \in own : ops[i].nums[p] < kernel.ops[i].nums[p] =>
       (kernel.ops[i].tensors[p] \div 32) \div ops[i].nums[p]
          <= ((64 * 1024) \div 32) \div (kernel.base + SumFunction([q \in own |-> ops[i].nums[q]]))

(* A partition that has lost warps can still hold its tensors in an even     *)
(* share of the registers, whatever other partitions have lost since.        *)
TensorsFit == \A i \in DOMAIN ops : Fits(i)

(* The partitions of an op, padding included, share out the worker warps: no *)
(* warp is in two of them, and none is left without one.                     *)
TeamsShareOutWorkers ==
    \A i \in DOMAIN ops : Done(i) =>
       /\ UNION {Team(i, p) : p \in DOMAIN ops[i].nums} = kernel.base .. NumWarps - 1
       /\ \A p, q \in DOMAIN ops[i].nums : p # q => Team(i, p) \cap Team(i, q) = {}

(* setmaxnreg acts on a warpgroup: four warps from a multiple of 4.  The     *)
(* partitions that share one are given the same number of registers.         *)
WarpgroupsAgree ==
    \A i \in DOMAIN ops : Done(i) /\ ops[i].act # <<>> =>
       \A p, q \in DOMAIN ops[i].nums :
          (\E v \in Team(i, p), w \in Team(i, q) : v \div 4 = w \div 4)
             => ops[i].act[p + 1] = ops[i].act[q + 1]

(* While an op runs, the default warps and the partitions together need no   *)
(* more registers than the CTA has at launch.                                *)
RegistersFit ==
    \A i \in DOMAIN ops : Done(i) /\ ops[i].act # <<>> =>
       /\ kernel.base * ops[i].act[1]
            + SumFunction([p \in DOMAIN ops[i].nums |-> ops[i].nums[p] * ops[i].act[p + 1]])
            <= attr * NumWarps
=============================================================================
