# The core of fbtriton: models and proofs

This directory holds TLA+ models of the parts of this repository in which order, memory and time are hard to get
right: how a kernel is *warp specialized* (who runs when, who may touch which memory when), how its loops are
*software pipelined*, what the compiler believes of the alignment of accesses, how compiled kernels are kept in a
*cache* that processes share, and how the profiler *Proton* finds where a kernel belongs. They are written from the
sources, checked with TLC on small instances, and partly proved with TLAPS. Paths below are relative to the
repository; abbreviations of files are

| | |
|---|---|
| `WS` | `third_party/nvidia/lib/TritonNVIDIAGPUToLLVM/ConvertWarpSpecializeToLLVM.cpp` |
| `OP` | `lib/Dialect/TritonGPU/Transforms/WarpSpecialization/OptimizePartitionWarps.cpp` |
| `AW` | `lib/Conversion/TritonGPUToLLVM/AllocateWarpGroups.cpp` |
| `AL` | `lib/Analysis/Allocation.cpp` (with `Alias.cpp`) |
| `MB` | `lib/Analysis/Membar.cpp` (with `include/triton/Analysis/Membar.h`) |
| `RD` | `lib/Dialect/TritonGPU/Transforms/WarpSpecialization/RewritePartitionDependencies.cpp` |
| `AS`, `SL`, `LL`, `PE` | `AssignLatencies.cpp`, `ScheduleLoops.cpp`, `LowerLoops.cpp`, `PipelineExpander.cpp` in `lib/Dialect/TritonGPU/Transforms/Pipeliner/` |
| `AX` | `lib/Analysis/AxisInfo.cpp` |
| `FC`, `CP`, `JT` | `python/triton/runtime/cache.py`, `python/triton/compiler/compiler.py`, `python/triton/runtime/jit.py` |
| `GP`, `CU` | `GPUProfiler.h` and `CuptiProfiler.cpp` of `third_party/proton/csrc` |

## 1. Inventory

A kernel goes through the compiler and its life like this:

    jit.run -> cache hit? -> compile -> ... -> AssignLatencies -> ScheduleLoops -> LowerLoops -> PipelineExpander
                                               (or, for a warp specialized loop, PartitionScheduling
                                                -> RewritePartitionDependencies -> PartitionLoops -> OptimizePartitionWarps)
    -> AllocateWarpGroups -> Allocation -> Membar -> ConvertWarpSpecializeToLLVM -> PTX -> cache
       (warp ids, registers)  (offsets)    (barriers)  (switch loop)
    -> launch -> Proton's callbacks and records

| Component | State | Operations | Meets | What is hard | What makes it correct |
|---|---|---|---|---|---|
| Warp specialization lowering (`WS`) | per warp: place in the code, state byte, captures, registers; shared: state bytes and captures in memory, hardware barriers, register pool | store states and captures, three barriers, load, register changes, regions, exit | reads the attributes of `AW`; its captures share memory with the regions' buffers (`AL`) | every interleaving of warps; memory reused between two barriers; blocking register increases; ids squeezed into a byte | each worker runs its partition with its captures, groups do not mix, the kernel returns |
| Warp group allocation (`OP`, `AW`) | ops and their attributes | halve, pad, sort by size, start ids, budget | feeds `WS` | unstable sort; powers of two; roundings; a greedy loop | tensors still fit; warps are shared out exactly; registers agree in a warpgroup and fit |
| Shared memory allocation (`AL`) | aliases, live ranges, offsets, free triples, interference graph | liveness, sweep, graph, colouring | feeds Membar | live ranges as intervals of ids in a function with regions; a multimap changed while it is searched; a loop whose end is not evident | no overlap, no contents lost; both loops end |
| Membar (`MB`) | work list, infos of blocks and functions, inserted barriers | one transfer per kind of operation, joins, summaries | uses offsets of `AL`, filter of the back end | a fixed point of a function that is not monotonic; calls; regions; WAR on reused memory | no race on any path; it ends |
| Partition dependencies (`RD`, `Partition.cpp`) | uses by partition and distance, tree of iter args, rings, barriers; when it runs: per end an index and a phase | verify, number, allocate, initialise, load, store | its rings are mbarriers and buffers that `AL` places | partitions at any relative speed; phases and parities; initial values; waiting in a circle | reads as in the sequential loop; buffers exclusive; the loop ends |
| Software pipeliner (`AS`, `SL`, `LL`, `PE`) | latencies, stages and clusters, buffers and barriers; when it runs: values by age, copies under way | latencies, five scheduling passes, lowering of loads, expansion, wait numbers | loads by `AX`, buffers by `AL` | prologues and epilogues with predicates; wait counts over several loads; phases; values that live across stages; zero to few trips | the loop does what it did, whenever copies land |
| Axis analysis (`AX`) | an info per value | one visitor per operation, joins | decides vector widths | quotients and comparisons of ranges; loops; joins of unlike groups | what is said of elements is true |
| Kernel cache, JIT, `compile()` (`FC`, `CP`, `JT`) | files of a directory, kernels held by a process | put, replace, group, load, check globals | processes | several processes, one directory; deaths in between | nobody finds half a kernel; runs end |
| Proton profiler | sessions, the data of each, correlation tables, queues of threads | start, stop, finalize, enter and exit, callbacks, buffers | CUPTI's thread | records come late, in any order, when ops and sessions have gone | each kernel is counted once and at home |
| PartitionScheduling, PartitionLoops, AutomaticWarpSpecialization | IR | assign, clone | above | - | not modelled |
| LoadMMASpecialization | IR | rings for TMA and tensor memory | mbarriers | as in `RD` | later |
| NVWS arefs (`LowerAref.cpp`) | aref: buffers with full and empty barriers | create, put and get, enter and exit | mbarriers | as in `RD` | later |
| Hopper warp specialization | channels, tokens, accumulated counters | code partition | | tokens have no lowering here | not modelled |
| Linear layouts, layout conversion | none | algebra | | | not modelled |
| Tensor memory allocation | rows and columns | allocate, free | | as in `AL` | later |
| Autotuner, interpreter, code generator, TLX, frontend dialects, AMD back end | | | | | not modelled (`PROJECT.json` has the reasons) |

The hazards these parts are exposed to, each at its line and with the properties that would notice, are
listed in `PROJECT.json`.

## 2. Plan

Order of work, most important first; what is done is marked.

1. **done** `ForkJoin` (abstract), `WarpSpecialize` implements it, `WarpSpecializeProofs`.
2. **done** `WarpGroups` (pure operators) and `AllocateWarpGroups` (both passes); `MCWarpPipeline` composes them
   with the machine: the ops that the passes leave are what the machine runs.
3. **done** `SmemLiveness`, `SmemAllocation` and, over both, `SmemKernel`; `Membar`.
4. **done** `PartitionDependencies`: compiler and run in one module; `PartitionDependenciesProofs`.
5. **done** `SequentialLoop` (abstract), `LoopSchedule`, and `PipelinedLoop`, which implements it.
6. **done** `AxisInfo`.
7. **done** `KernelStore` (abstract) and `KernelCache`, which implements it; `Proton`.
8. `Ring`: one value's ring as a bounded FIFO (abstract), which `PartitionDependencies` would implement; the
   invariant of its proofs has what the refinement needs.
9. `Aref` (NVWS) and the rings of LoadMMASpecialization on the same barrier operators; MMAv5 in the pipeliner.
10. Tensor memory allocation, with `SmemLiveness` as a base.

Theorems: those of section 7 are done (`WarpSpecializeProofs`, `AllocateWarpGroupsProofs`, `SmemAllocationProofs`,
`MembarProofs`, `KernelCacheProofs`, `ProtonProofs`, `PartitionDependenciesProofs`). Still worth proving:
`DefsBeforeUses` of `LoopSchedule` and `ReadsOwnCopy` of `PipelinedLoop`.

## 3. Modules

### WarpSpecialize

The machine `WS` makes of a kernel. `NumDefault` and `NumWorker` warps, the ops as records (`nums`, `starts`,
`regs`, `caps`, `bars`), the sequences of op executions a run may take (`Programs`).

| In the model | In the code |
|---|---|
| `prog`, `ip[d]` | which ops the control flow of the kernel reaches; where a default warp is in it |
| `pc` | block of the warp: header, switch loop, partition, exit |
| `stateMem`, `job` | the state bytes in shared memory, and the byte a worker has read |
| `capMem`, `cap` | the captures (as the number of the execution they belong to; `Junk` once a region reuses the memory), and what a worker has loaded |
| `regs`, `free` | registers per warp, and what is left of the launch's |
| `Entry` ... `StoreExit` | header (379-386) and the default warps' side of an op (473-537) |
| `LoopHead` ... `DropRegs` | switch loop (388-409) and a worker's partition (235-286) |
| `RunRegion`, `GroupBarrier`, `SwitchLoopBarrier` | the code of a region and its barriers (86-102, 194-233) |

A warp is one thread: its 32 threads take one path. A value that every default thread stores is stored once
per warp. `setmaxnreg` acts on a warpgroup; it is modelled per warp, and an increase waits until the pool has
enough. A program point where a region's own buffers may overwrite the captures sets `capMem` to `Junk`.
`StateAssumption` is needed because the code lets the exit id be 255, the byte that -1 becomes for an idle warp;
it is harmless if no warp is idle, which `AllocateWarpGroups` guarantees.

`ForkJoin` is what the machine promises: an op forks the workers, each with its partition and captures, and is
left when all are through. The refinement mapping reads the abstract task from the state byte or from what
has been loaded, whichever counts at that point.

### WarpGroups, AllocateWarpGroups

`WarpGroups` translates the computations of `OP` and `AW`: whether a partition's largest tensors fit with half its
warps (`OP` 237-252), padding to whole warpgroups of the largest op by powers of two (`AW` 18-61), order by size
(114-121; `llvm::sort` is not stable, so `SortedIdx` is the set of all orders), start ids, and the registers of each
warpgroup (131-187). `AllocateWarpGroups` has the passes' walks as actions: `Halve` and `Estimate` (a kernel that is
specialized automatically), `Pad`, `Allocate`, `NextWalk`, and the attribute of the module. Totals are sums over
functions and sets, the padding is a recursive function. The need of a tensor and
the instructions that want several warps are inputs. Excluded by assumption, since the code does not handle it, is a
number of default warps that is no multiple of 4 together with requested registers (`back()` of an empty vector).

### SmemLiveness, SmemAllocation, SmemKernel

A function is its operations in the order of the text, each in a block of another. `SmemLiveness` translates what comes
before offsets: aliases through views, branches, loops and captures (`Alias.cpp`), the ids of operations (a parent after
its children, as `walk` does in post-order), MLIR's `Liveness`, and `resolveLiveness` with its rules for explicit
buffers, scratch and captures (`AL` 340-456). Sizes are inputs; a call is a buffer of its callee's size.

`SmemAllocation` is `computeOffsets` (501-533): `PlaceBuffer` and `DropTriple` are the two outcomes of a turn of the
sweep (`calculateStarts`, 557-591) on the multimap of free triples; `BuildInterferenceGraph` and `Allocate` are the
rounds (597-683). Half-open intervals, as in `Allocation.h`.

`SmemKernel` joins the two and then runs the function in the bytes it was given: its own thread, one per partition while
a `warp_specialize` op runs, any branch, any number of trips. A write to a buffer puts those whose bytes it shares in
`lost`; a use of one of these breaks `ContentsSurvive`, whether or not anything called the two live at once. So the
property does not rest on the notion of live range that it judges. The offsets that the model gives to
`partition_region_interference`, `for_for_if` and `explicit_capture_liveness` of `test/Analysis/test-allocation.mlir`
are those the tests expect.

### Membar

The work list over virtual blocks (`TakeBlock`, `Scan` by kind of operation, `VisitTerminator`, `NextFunction`),
on a module of functions in post-order. Inserted barriers are a set of positions `<<f, b, i>>`, which is what
makes a block scanned again see them. When the analysis is over, the second half of the module runs the kernel:
one execution along any path, with the accesses since the last barrier in `pending`; two accesses that are both
in `pending` may be made by different threads at once. That a partition can be taken as one thread of accesses
there rests on the rule for arrives (218-223): everything before an arrive is fenced. An isolated region of a
`warp_specialize` op is analysed from nothing and runs on its own; the op and its `warp_yield` synchronise the CTA.
The filter of a back end (`third_party/amd/lib/TritonAMDGPUToLLVM/MembarUtility.cpp` is one) is a relation.
Blocks that cannot be reached from an entry are excluded.

### PartitionDependencies

A loop is a record of operations with partitions and operands, iter args with what they are yielded and their
initial values, and stages. `Verify` is the check of `Partition.cpp` (218-243; the check for cycles before it is
implied by it), `Rewrite` the pass: which uses are consumers at which distance (`EndOf`, `Distance`), the tree of
iter args and its flattening (`Path`, `Leaves`, `Traversals`, `BranchOf`), the ring's size (`maxUseDistance`,
`getTotalBranchDepth`), where each end starts and leaves (`StartOf`, `EndIfAsked`), and the barriers. The order of
branches and the use that stands for an end depend on the order of use lists, so any is tried. `Fork` starts the
partitions; `WaitBarrier`, `SpinOnBarrier`, `Load`, `Store` are what an end does (481-508) with the mbarriers of
`BarrierOpToLLVM.cpp`: a barrier is a pending count, the count of a phase, and a parity; a wait for parity p passes
when the barrier's is not p. A wait advances the end's index and phase as `createAndGetAsyncIndex` (354-385) does.
Values are `<<operation, iteration>>`, so a wrong value is seen as such. Root-partition operations and outputs
that are no tensors are left out.

### LoopSchedule, SequentialLoop, PipelinedLoop

`LoopSchedule` has one action per pass over a loop: latencies for the loads on the way to a dot (`AS` 59-256; the order
of an op's operands is either), or the user's; then key ops, ifs, dependencies, dependencies of the next iteration,
and the rest (`SL` 345-380). A schedule gives ops stages and clusters, on the list of clusters of `Schedule.h`.

`PipelinedLoop` goes on with the lowering of loads (`LL` 483-643: which become asynchronous, how many buffers, which TMA
loads share a barrier, the counters of slots and phases), the expander (`PE`: prologue, kernel, epilogue, with all the
bookkeeping by age and version) and the wait numbers (`WGMMAPipeline.cpp` 58-142, `PipeliningUtility.cpp` 423-455). Then
the code runs. A value is the term `<<op, iteration>>`, and `Junk` as soon as an operand is not the one of the original
loop; cp.async groups are a queue and TMA copies a set, both of which land when they like (`LandGroup`, `LandTMA`).
Mbarriers count the bytes they owe and the phases that are done.

`SequentialLoop` is what a loop means. The refinement keeps, for each op, the iterations it has run for; a step of the
pipelined loop is one of the sequential loop only if its operands were right, so `ImplementsLoop` says everything at once:
which iterations, in which order, on which values, and what is left after the loop.

### AxisInfo

A behaviour is a program that grows by one operation at a time; each operation is carried out on the elements (in one or
two dimensions) and on the `AxisInfo` as its visitor does it. Loops repeat an operation and their info is the
fixed point the solver reaches; branches join. Three kinds of operand are left out by `Excluded`, each because the
analysis is wrong about them (see the observations below); taking one out of `Excluded` makes the run fail.

### KernelStore, KernelCache

Processes run one kernel: in-memory kernels, then the group file, then compilation stage by stage, each file put in
three steps (`OpenTemp`, `WriteTemp`, `Replace`, `FC` 96-120), the group last, then the loading of metadata and binaries.
Every step is one between two looks at the file system. A stage can fail, a process can die anywhere and start again with other
settings, and the program can assign to a global it was compiled with. `KernelStore` is the promise: a kernel is
published at once and whole, and a process holds only what was published.

### Proton

Threads enter and leave ops, launch inside or outside of them, and are called back by the driver at the start and end of a
launch (`GP` 49-130, `CU` 328-367); the manager's thread activates, deactivates and finalizes sessions; the device
ends kernels in any order; CUPTI's thread takes buffers of records and adds each to the data of each session
(`completeBuffer`, step by step). The ghosts `home` and `due` say where a launch belongs and which sessions must count it.
`Quiet` (no other thread is in an op while sessions change) and `Current` (the threads with a current CUDA context) are
assumptions about the *program* that is profiled; without them the properties fail, see below. Not modelled: the
Python context source, scopes and states, PC sampling; one launch is one pair of callbacks.

## 4. Runs

| Run | What is asked | States |
|---|---|---|
| `warp_specialize` | all properties of the machine, and that it implements `ForkJoin`; two ops, up to three executions, one idle worker | 5,064 |
| `warp_pipeline` | the machine on the op that `AllocateWarpGroups` makes of two partitions (an `ASSUME` ties them), state bytes of two bits so that the exit id is the last; nobody is stuck | 45,361 |
| `allocate_warp_groups` | one-op kernels of up to three partitions and two-op kernels, laid out by the user or shrunk by the compiler, all orders of the sort | 37,924 |
| `smem_kernel` | straight-line functions, loops, branches in loops, partitions: from operations to live ranges to offsets to runs that lose nothing | 144,331 |
| `front_branch` | *finding*: a loop whose first operation is a branch | |
| `membar` | branches, loops, loops with a branch, with and without a filter, `warp_specialize` and calls in loops: no race on any path, summaries hold the dangling accesses | 184,777 |
| `partition_dependencies` | all small loops that meet the conditions below, branching iter args, and the loop of the test `complex_case` | 108,588 |
| `reuse_argument` | *finding*: partitions wait for ever | |
| `kernel_cache` | two processes, three runs, a failing stage, an assignment and a death: whole files, complete groups, an atomic store, runs that end | 868,354 |
| `pipelined_loop` | some thirty chosen loops and all small ones, with latencies given or assigned, zero to four trips, copies that land in any order | 209,656 |
| `axis_info` | all programs of three operations on ranges, constants, arguments and a pointer | 158,935 |
| `proton` | two threads, two sessions, two ops and other launches, four session calls, one refused launch | 2,415,187 |

Every property of a passing run has a mutant in `PROJECT.json`: a plausible mistake in one definition, marked `bug:` or
`Mutant` in the module, with which TLC finds that property violated.

### What the findings say

* **Branch at the front of a loop** (`AL:373`). The live range of an iter arg begins at the id of the body's first
  operation. If that is a branch, its id comes after those of the operations inside it, so a buffer that one iteration
  hands to the next is not live in them and shares bytes with what they allocate. The comment at `AL:366-368` says that
  ranges of aliases are joined to get this right. `smem_kernel` puts a plain operation first.
* **Rings too small at the end** (`RD:425`). With the producer in a later stage than its consumer, the ring is smaller
  than the distance. The values no iteration is left to read do not fit, and the producer waits; `reuse_argument` is
  such a loop.

### Observations without a run of their own

Met while modelling; the models exclude the inputs in question (where, is said), or do not reach them.

*Warp specialization.*
Padding requests 16 registers (`AW:54`), below the 24 that `AW:174-175` and `WS:340-342` treat as the least.
A callee is represented by what dangles at its returns; what it does first is not compared with the caller, and its
intervals are relative to its own frame (`MB:190` against `Membar.h:159-161`); `RaceFree` compares accesses of one call.
A `warp_specialize` op ends a virtual block and its scratch is not updated (`MB:59`).
In a branch of two iter args with different initial values, buffers are filled from root to leaf but read by depth
(`RD:471` against 54-56); one load replaces uses of *different* iter args (`RD:492`): `SameStart`, `UniformBranches`.
Partitions that store before they load from each other at the maximal distance wait for each other (`RD:425`):
`NoWaitCycle`.
A round of colouring may leave as many conflicts as it found, although `AL:521-523` argues that they keep decreasing;
the loop ends because the first k buffers come to rest one after another.
`OP` judges by an even share of the registers of the warps before padding, which may exceed the 255 that a thread can
have, and `AW` then grants 88 or 24 in any case; its text calls this a guess.

*Pipeliner.*
A load used both directly and through the address of another load is, if the direct use is visited first, marked seen, so
that both get level 0 and the whole latency (`AS:194`): the loop has up to `2 * numStages - 1` stages, although "the sum of
latencies in the chain" is to cover `numStages` (`AS:332-335`); `OneWay` leaves such loops out.
A pipelined load whose only user is in an `if` is read from a buffer that may be overwritten (`LL:535`,
`SL` 130-149); `Small` leaves these loops out.
With a peeled epilogue, an iter arg that is yielded an outside value keeps its initial value once too long (`PE:643`).
A load whose address is carried by another one meets an assertion (`LL:206`). `PE:152` compares the trip count with a
maximal stage that is not set yet.

*Axis analysis.*
Divisibility is that of the first element of a *group*; joins of unlike groups, or dimensions added behind one, keep a
divisor whose group is gone ("lost groups", `AxisInfo.h:62-63`). Quotients and remainders of negative ranges round
towards zero ("negative dividends", `AX` 445-456). A masked load has the constancy of its pointer and mask, whatever
`other` is ("varying others", `AX` 586-590). Constants are read by `getZExtValue` and compared as signed.

*Kernel cache.*
A constexpr global's value is not part of the key (`JT:129`), so a kernel compiled with another value may be found by a process
whose own check (`JT:621`) compares values of its own only. A remote store that evicts a binary and keeps its
metadata makes every later run a hit that cannot be loaded (`FC:224`); `RemoteCacheManager` is not modelled.

*Proton.*
`startOp` and `completeBuffer` work on a copy of the set of data made under a lock that is released before the calls, so
a finalize on another thread can destroy the data in between (`GP:53`, `CU:245`). A forced flush delivers incomplete
records, for which there is no metric (`CU:33-39`), and `addMetric` dereferences it (`TreeData.cpp:145`). All five properties fail with
`Quiet = FALSE`. `sleepMs` is used as microseconds (`GP:122`). With `context="python"`, `addOp` holds the data's mutex while it waits
for the interpreter's lock, which session calls keep: a circle. Launches that fail, and records dropped at a stop, leave entries in
`corrIdToExternId` and `apiExternIds` (`NothingLeft` excepts them by `unreported`).

*Elsewhere.* `findFirstFit` of tensor memory may loop for joined allocations of different row counts.

## 5. Bounds, and why they are enough

* *Machine.* Mistakes in a round show in two consecutive ones; programs have up to three, with equal and with
  different ops. Two default warps can be at different places between barriers; three workers give a partition of
  two warps, one of one, and an idle one.
* *Warp groups.* Sizes 1, 2 and 8 need padding by several powers of two and span two warpgroups; requests 24 and
  200 are the smallest and one that cannot be had. `Tensors` lie around the shares where one, two or no halving fits.
* *Shared memory.* A conflict that colouring creates needs three buffers; four plain ones exercise every order of
  triples with the same start. A loop, a branch in it and an iter arg are what it takes for text order and run order
  to differ; two partitions, one with a loop, for what runs at once. Runs have no bound: a loop's state recurs.
* *Membar.* A is in conflict with B and not with C; two operations in a loop body see the back edge; three functions
  make a summary of a summary. `BodyKinds` and `EdgeKinds` are the operations tried inside and around.
* *Partition dependencies.* With three iterations and distances up to two, rings of up to three buffers turn;
  `Trips` also has 0, for which no operation runs. `Sound` keeps the loops that the verifier rejects and, of the others,
  those with
  `SameStart` (uses that share an end agree on initial values),
  `UniformBranches` (one initial value per branch),
  `NoWaitCycle` (what happens in the same step of the schedule has an order), and
  `FitsAtTheEnd` (no ring is smaller than a distance).
  Each of the four excludes loops that the pass gets wrong, as said above. That they are enough for `Termination` is
  what the run shows, for these loops. The first two (`Consistent`) are enough for `ReadsAsSequential`, and
  `BuffersExclusive` needs none: that is proved for every loop (section 7).
* *Pipeliner.* Up to five stages and four trips, so every loop also runs with fewer trips than stages; two loads with
  unlike latencies are the least for which a wait number can be wrong; three buffers make phases flip. `Small` is every
  loop of a load, an op and an accumulator with one more iter arg.
* *Axis analysis.* An extent of 4 has groups of 1, 2 and 4; literals 1, 4 and 6 are the unit, a power of two and neither;
  `MaxDivisor` exceeds every value (`ValueBound`); two trips reach a loop's fixed point or show that it is not one.
* *Kernel cache.* Two writers and a reader can be in one directory as two processes with three runs; `MaxCrashes` and
  `MaxEdits` of 1 put a death or an assignment at every point.
* *Proton.* Two ops on two threads overlap in every way; four session calls end a session and begin another, or two; one
  refused launch is enough to make counts differ. `MaxRetries` stands for 100: what counts is that it ends.
* `MaxAddr`, `MaxId`, `Times`, `Stages`, `StateMod` bound addresses, operation ids, stages and bytes; nothing counts
  without end, so no state constraint is needed.

## 6. Fairness

* `WarpSpecialize`: all warps of a CTA are resident, so a warp that can move does (`WF` of each warp's steps), and a
  complete barrier releases its warps. A register increase is weakly fair: the hardware retries it, and the pool only
  grows while default warps wait. Regions end (`WF` of `RunRegion`), since what they do is not in question here.
* `PartitionDependencies`: `WF` of each partition's `Step`; spinning on a barrier changes nothing and is no progress.
* `SmemKernel` and `Membar`: `WF` of the analysis' steps, a sequential program that goes on. Running the result
  needs no fairness; `Termination` is about the analysis.
* `PipelinedLoop`: `WF` of the thread's `Step`, and of `Land`: a copy that was issued arrives.
* `KernelCache`: `WF` of each process's `Step`. Deaths, failures and assignments are never forced.
* `AllocateWarpGroups`, `AxisInfo` and `Proton`: safety only. That a flush ends needs an assumption on the device (that kernels
  end) which is not the profiler's to make; the retries are bounded in the code.

## 7. Proofs

| Module | Theorems | about |
|---|---|---|
| `WarpSpecializeProofs` | `Invariance`, `TypeCorrect`, `WorkersRunTheirPartition`, `CapturesOfThisExecution`, `BarriersAreNotShared`, `RegistersNeverOverdrawn`, `MachineForksAndJoins` | the machine's invariants, and that it implements `ForkJoin` |
| `AllocateWarpGroupsProofs` | `Invariance`, `TensorsGoOnFitting`, `WorkersShared`, `WarpgroupsAgreeAlways`, `RegistersAlwaysFit` | the warps and registers of every kernel |
| `SmemAllocationProofs` | `Invariance`, `AllocationIsTyped`, `BuffersAreApart`, `KernelBuffersAreApart` | offsets |
| `MembarProofs` | `Invariance`, `BarriersSuffice`, `DanglingIsKnown` | barriers suffice on every path |
| `PartitionDependenciesProofs` | `BuffersAreExclusive`, `ReadsAreSequential` | what the partitions of a loop read |
| `KernelCacheProofs` | `Invariance`, `FilesAreWhole`, `GroupsAreComplete`, `BinaryIsLoaded`, `CacheImplementsStore` | the files and the atomic store |
| `ProtonProofs` | `Invariance`, `KernelsAreCountedAtHome`, `DueKernelsAreCounted`, `DataStaysAlive`, `NothingIsLeft`, `RecordsAreValid` | the profiler, for a program that keeps to two rules |

`NaturalSets` holds what several of them need of the naturals and of sums over finite sets. An operator cannot be handed
to a theorem of the library with this prover, so induction is stated with a *set* (`InductionOnSet`: a set with 0 and
successors has every natural), and recursion on prefixes with sets and functions (`PrefixRecursion`, `SimpleRecursion`).

### The machine and its refinement

`WarpSpecializeProofs` holds for every number of warps, every kernel and every register limit that satisfy the
assumptions of `WarpSpecialize`:

* `WSAssumption`: at least one warp of each kind, `maxnreg` 0 or in 24..256, ops as records over sequences.
* `PartitionAssumption`: teams lie in the workers and are disjoint, sixteen barriers suffice, registers are given for
  all regions or none. `AllocateWarpGroups` establishes this (`TeamsShareOutWorkers`), the lowering checks the barriers.
* `StateAssumption`: the exit id fits a byte, and is the last byte only if no warp is idle.

None of the properties is inductive. `RightPartition`, say, holds after a step of a worker only because the byte it
read was stored for this op, and that depends on where *all* default warps are. The invariant is

    IInv == TypeOK /\ SameOp /\ (Between \/ Loading \/ Running \/ Exiting)

`SameOp`: default warps are in the same execution, except for some that are already out of it. The rest is one of
four phases, cut by barriers A, B and C: *between* ops, when default warps store (and whoever waits at A has seen its
own state and captures stored); *loading*, when bytes and captures are stable and workers read them; *running*, when
they may be overwritten; *exiting*. A barrier is the only step from one phase to the next, so every other action is
proved in one phase, one lemma per action. Lemmas about `StateId`, `I8` and `Target` (`StateIdsDistinct`,
`ByteValues`, `SwitchOfByte`) show that a byte leads back to the partition it was made from.

`PoolNotOverdrawn` has an invariant of its own, `RegsInv`, that gives the registers of each warp at each place, from
which a decrease is one.

`MachineForksAndJoins` adds to the phases that what a worker has to do does not change while its op is executed
(`TasksFixed`). The fork is the release of barrier A, the join that of barrier C; each lemma says that one action is a step
of `ForkJoin` under the refinement mapping of `WarpSpecialize`, or none.

### Warp groups

Assumed (`KernelsAssumption`): partitions of 1, 2, 4, 8 or 16 warps, any number of them and of ops, requests for all
partitions of an op or none, and a multiple of 4 default warps where registers are requested. The sums of the model are folds
over sets, so the proofs begin with what a sum is (`SumRemove`, `SumSplit`, `SumOfGroups`, `SumLinear`), by induction on
subsets. `PaddingSizes` and `LargestPow2` are recursive functions; the values that the proofs need of them (the powers add
up to what is missing, and are 1, 2 or multiples of 4) follow from their existence, by `PrefixRecursion`.

`Packed` is what the start ids are: teams from the first worker warp on, one after another without gaps, a team of
whole warpgroups at a multiple of 4 and one of two at an even warp, because larger ones come first. From it follow
`WorkersShared` and, through `BlockIsGroup` (whoever has a warp in a block of four is behind the start that opened the block),
`WarpgroupsAgreeAlways`. `RegistersAlwaysFit` is the budget summed by group against the same summed by partition
(`BudgetIs`). The invariant carries this over the walks: `NumWorker` does not change while ops are padded to it, since no op
has more and a padded one has as many, and what the optimizer left fitting goes on fitting, since a share only grows when
warps are taken and padding comes behind the program's partitions.

### Shared memory

Assumed (`AllocationAssumption`): any list of buffers in the order of the sort, by size, with sizes and alignments above
0 and live ranges that are not empty. The invariant has two halves. For the sweep (`SweepOK`): every buffer still to place
meets the range of some free triple, so `begin()` of an empty map is never dereferenced. This is why buffers must come
largest first: the triples that a placed buffer leaves cover what it took away, except for its own bytes during its own
range. For the colouring (`ColoringOK`): the graph is that of the current offsets, so an empty graph is the absence of
overlap; alignments survive moves. `KernelBuffersAreApart` carries both over to the runs of the function
(`KernelSpec`), which leave the offsets alone. That the colouring ends, and `ContentsSurvive`, which does not hold for every
function (`front_branch`), are checked only.

### Membar

Assumed (`ModulesAssumption`): any module of functions in post-order with calls to earlier ones, any blocks and edges; an
operation on scratch memory has some, and barriers touch none. The invariant rests on *certificates*. A claim says,
for every operation of a block, what may be pending before it; it is right if every operation, from what is claimed
before it, meets no conflict or has a barrier, and leaves what is claimed after it. Rightness is monotone in the inserted
barriers, although the transfer function is not monotone in its input, so a block's certificate survives barriers that are
inserted later, and those of a function survive the rest of the walk (`AnalysisOK`: a certificate for every block that was
scanned, covered by the inputs of its successors or the successor is on the work list; while a block is scanned, one for the
part behind). A run's state is then related to the certificates (`RunOK`): the own accesses of the top call that are
pending are within the claim where it stands, and what a returned call leaves is within its summary.

### Partition dependencies

Assumed (`LoopsAssumption`): any loop in SSA form with any partitions and stages, any trip count. Nothing is assumed of what
the pass chooses; orders of branches and of uses are arbitrary in `Rewrite`. Its proof begins with what the definitions
compute: the origin of an operand and its distance (`FollowIs`, `FollowShifts`), the tree of iter args (`LeafAbove`), and
branches as intervals that fill the first buffers without a gap (`SegmentsAre`, by `SumInOrder`). `RingHasBuffers` is where
`verify` is needed: the ring of every value has at least one buffer.

`BuffersExclusive` speaks of indices, barriers and places of several partitions at once; its invariant (`Running`) reduces
them to *bits*. An end's index and phase say for each buffer of the ring in which parity it comes there next (`Bit`). A
consumer whose bit differs from the producer's is behind: it has yet to load what is there. `BufferOK` says that the
barriers know the same: the ready barrier has the producer's bit, and the empty barrier is one round back and lacks
one arrival for each consumer that is behind, or is complete if there is none. Then a wait that ends has found the
buffer full, or free (`HeldOK`), and an arrival never is one too many. Waiting moves an index and no bit (`WaitKeeps`); only
`Load` and `Store` flip one, with the barrier (`LoadKeeps`, `StoreKeeps`).

`ReadsAsSequential` needs a count instead of a parity, and one that the model does not keep. How often an end has been
served follows from the place of its partition (`Turn`; `FollowingTurn` shows that the code serves every end once in each
iteration), and with the index it gives the iteration whose value the end finds in each buffer next (`NextTurn`). `RoundOK`:
for the producer that is the consumer's, plus the ring's length if the consumer is behind. `StoredOK`: a buffer holds the
value of the producer's last turn there. `InitBuffers`: the first buffers hold what an end is to read before it enters the
ring. The last is what the pass does not establish for every loop, so the theorem has a hypothesis,
`Consistent`: in a loop that passes `verify`, the uses of one end agree on initial values, and the iter args of a branch
have one. It is about the source loop, holds of the loops of the run, and a loop without it is one of the
observations above. The two conditions that `Termination` needs besides are not used.

### Kernel cache

Assumed: stages are any sequence of distinct file kinds whose last is the binary (`StagesAssumption`), a temporary directory
is not the cache directory (`ProcsAssumption`), settings are those of the model. Any number of processes and keys. The
invariant has, beside the properties, what a process knows at each place of `compile` and `put` that no other process can
take from it (`FrameOK`): files it has put stay, because a rename replaces a whole file by a whole file and nothing is
deleted; what it still has to put ends with the group; its temporary file is its own. From it, `Replace` of the group is
the one step that publishes (`CacheImplementsStore`).

### Proton

Assumed of any threads and sessions: `ProtonAssumption`, and as hypotheses of every theorem `Quiet` (no other thread is in an
op while a session call runs) and `Manager \in Current` (the calling thread has a CUDA context to synchronise). Without the
first the properties fail, see the observations; without the second `doFlush` does not synchronise. The invariant follows
a kernel from its launch to its last record: its correlation is known exactly while records of it are on their way
(`CorrsOK`, `HomesOK`), the record in the CUPTI thread's hand is a whole one and is taken out of the buffer only when all
data have it (`WorkerOK`), a session call finds the threads idle, and behind its flush nothing of the session in flight
(`CallOK`, `FlushOK`), and what is counted is at home (`CountsOK`). There is one lemma per action.

### What is only model-checked

* Liveness: `Termination` of every module and `RunsEnd` need fairness and `ENABLED`, which the prover does not handle.
* `AxisInfo` uses recursive operators and `Bitwise`.
* `SmemKernel`: `ContentsSurvive` holds for functions without a branch in front of a loop only; its proof would be one about
  the recursive definitions of live ranges.
* `LoopSchedule` and `PipelinedLoop` (with `ImplementsLoop`): their properties are about what compiled schedules compute for
  whole lists of operations.

## 8. Not modelled

See the last rows of the inventory; what is left out of a modelled part is in its note in `PROJECT.json`. In short:
`elideTrivialCaptures` in `WS` (140-177, rewrites values, not control); buffer sizes in `AL`, which come from layouts;
serialisation of schedules in `Partition.cpp`; parts of `BarrierOpToLLVM.cpp` other than arrive and wait; MMAv5, WGMMA's
extra buffer, TMA stores and the existing schedules of warp specialized loops in the pipeliner; `ub.poison`, truncating
casts and unsigned operations on negative integers in `AX`; remote caches, override and dump managers and hooks around
the kernel cache; PC sampling, the AMD profiler, scopes and the Python context source in Proton.

Most of the repository's lines are selection of instructions, verification and printing of dialects, algebra of layouts,
Python bindings and tests. They have no state that several actors or steps share, and a model of them would repeat them.

One hazard is left without a property: the comparison of globals at `JT:621`, see the observations. `giveRegs` is rounded
down (`WS:351`), so a user's `maxnreg` that is no multiple of 8 could leave the default warps' increase short; registers
come in units of 8, which the model's limits are.
