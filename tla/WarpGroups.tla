---------------------------- MODULE WarpGroups ----------------------------
(***************************************************************************)
(* The computations of OptimizePartitionWarps.cpp and                      *)
(* AllocateWarpGroups.cpp: how many warps a partition keeps, how a list of *)
(* partition sizes is padded to whole warpgroups, which warps each         *)
(* partition gets and how many registers.  Definitions marked "bug:" are mistakes that    *)
(* the properties must catch; nothing uses them.                           *)
(***************************************************************************)
EXTENDS Integers, Sequences, FiniteSetsExt, SequencesExt

CeilDiv(a, b) == (a + b - 1) \div b
RoundDown8(n) == 8 * (n \div 8)

\* bug: all of the partition's warps are counted as saved.
halfFitsWhole(base, op, p) ==
    (op.tensors[p] \div 32) \div (op.nums[p] \div 2) <= ((64 * 1024) \div 32) \div (base + SumFunction(op.nums) - op.nums[p])
\* With half of its warps the partition's tensors fit an even share of 64K registers.
halfFits(base, op, p) ==
    (op.tensors[p] \div 32) \div (op.nums[p] \div 2)
        <= ((64 * 1024) \div 32) \div (base + SumFunction(op.nums) - op.nums[p] \div 2)
Shrinkable(base, op) == {p \in DOMAIN op.nums : op.nums[p] > op.least[p] /\ halfFits(base, op, p)}
estRegUsage(op) == [p \in DOMAIN op.nums |-> IF op.tensors[p] > 0 THEN 88 ELSE 24]

\* Whole warpgroups needed by the largest of the ops.
numExtraWarpGroups(totals) == CeilDiv(Max({0} \cup totals), 4)

\* NextPowerOf2(n) / 2, the largest power of 2 up to n.
LargestPow2(n) ==
    LET pow[k \in 1 .. n] == IF k = 1 THEN 1 ELSE 2 * pow[k \div 2]
    IN pow[n]

PaddingSizes(warpsToAdd) ==
    LET sizes[n \in 0 .. warpsToAdd] ==
          IF n = 0 THEN <<>> ELSE <<LargestPow2(n)>> \o sizes[n - LargestPow2(n)]
    IN sizes[warpsToAdd]

padToMaxWarpGroups(op, numExtraWarps) ==
    LET padding == PaddingSizes(numExtraWarps - SumFunction(op.nums))
    IN [op EXCEPT !.nums = @ \o padding,
                  !.req = IF @ = <<>> THEN @ ELSE @ \o [i \in DOMAIN padding |-> 16]]

\* The registers per thread at launch: the user's, or an even share of 64K.
maxnreg(user, numWarps) ==
    IF user # 0 THEN user ELSE RoundDown8(((64 * 1024) \div numWarps) \div 32)

\* llvm::sort by size, largest first, leaves equal sizes in any order.
SortedIdx(nums) ==
    {s \in SetToSeqs(DOMAIN nums) :
       \A i \in 2 .. Len(s) : nums[s[i - 1]] >= nums[s[i]]}

\* The partitions that come before p in an order.
Before(idx, p) == {idx[i] : i \in {i \in DOMAIN idx : \E j \in i + 1 .. Len(idx) : idx[j] = p}}
\* bug: the sizes are added up in their original order.
StartIdsUnsorted(base, nums, idx) ==
    [p \in DOMAIN nums |-> base + SumFunctionOnSet(nums, 1 .. Cardinality(Before(idx, p)))]
StartIds(base, nums, idx) ==
    [p \in DOMAIN nums |-> base + SumFunctionOnSet(nums, Before(idx, p))]

\* A warp group opens at each partition that starts at a multiple of 4.
Opener(starts, p) == Max({starts[q] : q \in {r \in DOMAIN starts :
                             starts[r] % 4 = 0 /\ starts[r] <= starts[p]}})
\* bug: every partition is a warp group.
GroupOfOne(starts, p) == {p}
GroupOf(starts, p) == {q \in DOMAIN starts : Opener(starts, q) = Opener(starts, p)}

maxRequestedRegs(req, wg) == Max({8 * CeilDiv(req[p], 8) : p \in wg})

registerBudget(base, regs, nums, req, starts) ==
    LET warpGroups == {GroupOf(starts, p) : p \in DOMAIN starts}
        spare == [wg \in warpGroups |->
                    (regs - maxRequestedRegs(req, wg)) * SumFunctionOnSet(nums, wg) * 32]
    IN regs * base * 32 + SumFunction(spare)

\* bug: the share is rounded to the nearest multiple.
leftoverRoundedUp(base, budget) == RoundDown8((budget \div (base * 32)) + 4)
\* What is left for each thread of the default warp group.
leftover(base, budget) == RoundDown8(budget \div (base * 32))

\* actualRegisters, or <<>> where the pass returns early.
ActualRegisters(base, regs, nums, req, starts) ==
    LET budget == registerBudget(base, regs, nums, req, starts)
    IN IF req = <<>> \/ SumFunction(nums) % 4 # 0 \/ budget <= 0 \/ leftover(base, budget) < 24
       THEN <<>>
       ELSE <<leftover(base, budget)>>
              \o [p \in DOMAIN nums |-> maxRequestedRegs(req, GroupOf(starts, p))]
=============================================================================
