------------------------------ MODULE SmemKernel ------------------------------
(***************************************************************************)
(* A function from its operations to its run: the live ranges of its       *)
(* buffers (SmemLiveness) go through the allocation of offsets             *)
(* (SmemAllocation), and then the function runs in the bytes it was given. *)
(*                                                                         *)
(* The run keeps, for each buffer, only whether its bytes are still what   *)
(* was written to it.  One thread is a team of warps: the function's own,  *)
(* which also runs the default region of a warp_specialize op, and one for *)
(* each partition while the op runs.  Conditions and trip counts are       *)
(* arbitrary.                                                              *)
(***************************************************************************)
EXTENDS SmemAllocation, SmemLiveness

CONSTANTS Kernels   \* functions, as sequences of operations

ASSUME KernelAssumption ==
    /\ \A f \in Kernels : Len(f) < MaxId
    /\ {Buffers(f, MaxId) : f \in Kernels} \subseteq Layouts

VARIABLES prog,   \* the function
          at,     \* the operation each thread is at
          env,    \* the buffer (by its owner) that each value is
          busy,   \* operations whose scratch memory is written and not read yet
          lost    \* the owners of buffers that something else was written over

runVars == <<at, env, busy, lost>>
allVars == <<vars, prog, runVars>>

-----------------------------------------------------------------------------
(* The run.                                                                *)

BufferOf(o) == {i \in Ids : Owners(prog)[i] = o}
Overwrites(i, j) == i # j /\ intersects(Space(offset, i), Space(offset, j))
\* Something is written to the buffer of o.
Written(from, o) ==
    (from \ {o}) \cup {Owners(prog)[j] : j \in {j \in Ids : \E i \in BufferOf(o) : Overwrites(i, j)}}

First(o, r) == Min(BlockOps(prog, <<o, r>>))
After(o) == Min({q \in BlockOps(prog, prog[o].block) : q > o})
Partitions(o) == {r \in 2 .. 4 : BlockOps(prog, <<o, r>>) # {}}
Move(o, to) == at' = (at \ {o}) \cup to

\* The operands of o become the values of region r of op p, or its results.
Handed(o, p, r) == [k \in DOMAIN prog[o].operands |-> << <<p, r, k>>, env[prog[o].operands[k]] >>]
Bind(pairs) == env' = [v \in {p[1] : p \in pairs} |-> (CHOOSE p \in pairs : p[1] = v)[2]] @@ env

Is(o, kind) == phase = "done" /\ o \in at /\ prog[o].kind = kind

LocalAlloc(o) ==
    /\ Is(o, "alloc")
    /\ lost' = Written(lost, o)
    /\ Bind({<< <<o, 0, 1>>, o >>})
    /\ Move(o, {After(o)})
    /\ UNCHANGED busy

View(o) ==
    /\ Is(o, "view")
    /\ Bind(Range(Handed(o, o, 0)))
    /\ Move(o, {After(o)})
    /\ UNCHANGED <<busy, lost>>

Use(o) ==
    /\ Is(o, "use")
    /\ Move(o, {After(o)})
    /\ UNCHANGED <<env, busy, lost>>

WriteScratch(o) ==
    /\ Is(o, "scratch") \/ Is(o, "call")
    /\ o \notin busy
    /\ lost' = Written(lost, o)
    /\ busy' = busy \cup {o}
    /\ UNCHANGED <<at, env>>

ReadScratch(o) ==
    /\ Is(o, "scratch") \/ Is(o, "call")
    /\ o \in busy
    /\ busy' = busy \ {o}
    /\ Move(o, {After(o)})
    /\ UNCHANGED <<env, lost>>

EnterLoop(o) ==
    /\ Is(o, "for")
    /\ \/ Bind(Range(Handed(o, o, 1))) /\ Move(o, {First(o, 1)})
       \/ Bind(Range(Handed(o, o, 0))) /\ Move(o, {After(o)})
    /\ UNCHANGED <<busy, lost>>

If(o) ==
    /\ Is(o, "if")
    /\ \E r \in 1 .. 2 : Move(o, {IF BlockOps(prog, <<o, r>>) = {} THEN After(o) ELSE First(o, r)})
    /\ UNCHANGED <<env, busy, lost>>

\* The captures and the states of the warps are stored ...
StoreCaptures(o) ==
    /\ Is(o, "ws") /\ o \notin busy
    /\ lost' = Written(Written(lost, o), 1)
    /\ busy' = busy \cup {o, 1}
    /\ UNCHANGED <<at, env>>
\* ... and read by the partitions, which start.
Fork(o) ==
    /\ Is(o, "ws") /\ o \in busy
    /\ busy' = busy \ {o, 1}
    /\ Bind(UNION {Range(Handed(o, o, r)) : r \in Partitions(o)})
    /\ Move(o, {First(o, r) : r \in Partitions(o) \cup {1}})
    /\ UNCHANGED lost

\* The end of an iteration, and perhaps of the loop.
YieldLoop(o) ==
    /\ Is(o, "yield")
    /\ LET p == Parent(prog, o)
       IN /\ prog[p].kind = "for"
          /\ \/ Bind(Range(Handed(o, p, 1))) /\ Move(o, {First(p, 1)})
             \/ Bind(Range(Handed(o, p, 0))) /\ Move(o, {After(p)})
    /\ UNCHANGED <<busy, lost>>
\* The end of a branch, or of the default region when all partitions have ended.
YieldIf(o) ==
    /\ Is(o, "yield")
    /\ LET p == Parent(prog, o)
       IN /\ \/ prog[p].kind = "if"
             \/ /\ prog[p].kind = "ws" /\ prog[o].block[2] = 1
                /\ \A q \in at \ {o} : p \notin Around(prog)[q]
          /\ Bind(Range(Handed(o, p, 0)))
          /\ Move(o, {After(p)})
    /\ UNCHANGED <<busy, lost>>
\* The end of a partition or of the function.
Return(o) ==
    /\ Is(o, "yield")
    /\ \/ prog[o].block[1] = 1
       \/ prog[Parent(prog, o)].kind = "ws" /\ prog[o].block[2] > 1
    /\ Move(o, {})
    /\ UNCHANGED <<env, busy, lost>>

Execute == \E o \in at : \/ LocalAlloc(o) \/ View(o) \/ Use(o) \/ WriteScratch(o) \/ ReadScratch(o)
                         \/ EnterLoop(o) \/ If(o) \/ StoreCaptures(o) \/ Fork(o)
                         \/ YieldLoop(o) \/ YieldIf(o) \/ Return(o)

-----------------------------------------------------------------------------
KernelInit ==
    /\ prog \in Kernels
    /\ bufs = Buffers(prog, MaxId)
    /\ Start
    /\ at = {First(1, 1)} /\ env = <<>> /\ busy = {} /\ lost = {}

KernelNext ==
    \/ Next /\ UNCHANGED <<prog, runVars>>
    \/ Execute /\ UNCHANGED <<vars, prog>>

KernelSpec == KernelInit /\ [][KernelNext]_allVars /\ WF_allVars(Next /\ UNCHANGED <<prog, runVars>>)

-----------------------------------------------------------------------------
\* What the live ranges and the offsets are for together: no operation uses a
\* buffer, and none reads back its scratch memory, after another buffer's bytes
\* were written over it, on any path, in any iteration, and whatever the
\* partitions that run at the same time do.
ContentsSurvive ==
    /\ \A o \in at : prog[o].kind = "use" => \A v \in Range(prog[o].operands) : env[v] \notin lost
    /\ busy \cap lost = {}
=============================================================================
