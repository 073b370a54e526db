----------------------------- MODULE SmemLiveness -----------------------------
(***************************************************************************)
(* Which shared memory buffers a function has and when they are live: the  *)
(* first two steps of the allocation analysis (getValuesAndSizes and       *)
(* resolveLiveness of Allocation.cpp, with the aliases of Alias.cpp).      *)
(*                                                                         *)
(* A function is a sequence of its operations as they are written, the     *)
(* first being the function itself.  An operation is a record of its kind, *)
(* the block it is in (<<parent, region>>), its operands and the bytes and *)
(* the alignment it needs: of a buffer ("alloc"), of what a function       *)
(* called needs ("call"), or of scratch memory.  Of its values only those  *)
(* count that are buffers: <<o, 0, k>> is result k of operation o,         *)
(* <<o, r, k>> argument k of its region r.  Region 1 of a "ws"             *)
(* (warp_specialize) is the default region, the others are its partitions. *)
(*                                                                         *)
(* A definition marked "bug:" is the next one with a mistake that the      *)
(* properties must catch; nothing uses it.                                 *)
(***************************************************************************)
EXTENDS Integers, SequencesExt

Parent(f, o) == f[o].block[1]
\* The operations around each operation.
Around(f) ==
    FoldLeft(LAMBDA a, op : Append(a, IF op.kind = "func" THEN {} ELSE a[op.block[1]] \cup {op.block[1]}), <<>>, f)
BlockOps(f, b) == {o \in DOMAIN f : f[o].block = b}
Users(f, v) == {o \in DOMAIN f : v \in Range(f[o].operands)}
\* The values whose aliases are recorded: arguments only if something uses them.
Recorded(f, v) == v[2] = 0 \/ Users(f, v) # {}

\* bug: a parent comes before its children.
PreOrder(f) == [o \in DOMAIN f |-> o - 1]
\* operationId: a parent comes after its children.
PostOrder(f) ==
    LET around == Around(f)
    IN [o \in DOMAIN f |-> Cardinality({q \in DOMAIN f : \/ o \in around[q]
                                                         \/ q < o /\ q \notin around[o]})]

-----------------------------------------------------------------------------
(* SharedMemoryAliasAnalysis: where buffers go, by views and by the edges of *)
(* control flow.                                                             *)

\* What a terminator hands to the operation it ends a region of.
YieldedTo(f, y, k) ==
    LET o == Parent(f, y)
    IN CASE f[o].kind = "for" -> {<<o, 0, k>>, <<o, 1, k>>}
         [] f[o].kind = "if" \/ f[y].block[2] = 1 -> {<<o, 0, k>>}
         [] OTHER -> {}
PassedTo(f, o, k) ==
    CASE f[o].kind = "view"  -> {<<o, 0, k>>}
      [] f[o].kind = "for"   -> {<<o, 0, k>>, <<o, 1, k>>}
      [] f[o].kind = "ws"    -> {<<o, q[2], k>> : q \in {f[i].block : i \in DOMAIN f} \cap ({o} \X (2 .. 4))}
      [] f[o].kind = "yield" -> YieldedTo(f, o, k)
      [] OTHER -> {}
Flow(f) == UNION {UNION {{<<f[o].operands[k], w>> : w \in PassedTo(f, o, k)} :
                            k \in DOMAIN f[o].operands} : o \in DOMAIN f}

\* The values that may be the buffer of alloc a.
AliasesOf(f, a) ==
    LET flow == Flow(f)
        reach[n \in 0 .. Len(f)] ==
            IF n = 0 THEN {<<a, 0, 1>>}
            ELSE LET last == reach[n - 1] IN last \cup {e[2] : e \in {e \in flow : e[1] \in last}}
    IN reach[Len(f)]

-----------------------------------------------------------------------------
(* resolveLiveness                                                         *)

\* MLIR's Liveness: in the block of its definition and in each block of a use,
\* the operations up to the last one that uses the value in it or inside.
LiveIn(f, around, v, b) ==
    LET defined == v[2] = 0 /\ f[v[1]].block = b
        start == IF defined THEN v[1] ELSE Min(BlockOps(f, b))
        uses == {o \in BlockOps(f, b) : \E u \in Users(f, v) : u = o \/ o \in around[u]}
    IN {o \in BlockOps(f, b) : o >= start /\ o <= Max(uses \cup {start})}
LiveOps(f, around, v) ==
    LET home == IF v[2] = 0 THEN f[v[1]].block ELSE <<v[1], v[2]>>
    IN UNION {LiveIn(f, around, v, b) : b \in {home} \cup {f[u].block : u \in Users(f, v)}}

\* bug: only the buffer's own value counts.
ExplicitLifeAlone(f, a) == LiveOps(f, Around(f), <<a, 0, 1>>)
\* The operations from the first to the last at which a buffer is live, under
\* its own name or another that an operation uses or results in.
ExplicitLife(f, a) ==
    LET around == Around(f)
    IN UNION {LiveOps(f, around, v) : v \in {w \in AliasesOf(f, a) : Recorded(f, w)}}

\* The live range of the buffer of o, in operation ids.
LiveRange(f, o, MaxId) ==
    LET ids == PostOrder(f)
        life == {ids[q] : q \in IF f[o].kind = "alloc" THEN ExplicitLife(f, o) ELSE {o}}
    IN IF o = 1 THEN <<0, MaxId>> ELSE <<Min(life), Max(life) + 1>>

-----------------------------------------------------------------------------
(* getValuesAndSizes                                                       *)

NearestWS(f, o) == Max({0} \cup {q \in Around(f)[o] : f[q].kind = "ws"})
Buffer(f, o, MaxId) ==
    LET range == LiveRange(f, o, MaxId)
    IN [owner |-> o, size |-> f[o].size, align |-> f[o].align, lo |-> range[1], hi |-> range[2],
        ws |-> NearestWS(f, o), region |-> f[o].block]

\* Explicit buffers in the order of the operations, then scratch memory, then
\* what calls need, sorted by size with a stable sort.
Owners(f) ==
    LET with(kinds) == SelectSeq([i \in DOMAIN f |-> i], LAMBDA o : f[o].size > 0 /\ f[o].kind \in kinds)
        inOrder == with({"alloc"}) \o with({"func", "scratch", "ws"}) \o with({"call"})
        most == Max({0} \cup {f[o].size : o \in DOMAIN f})
    IN FlattenSeq([n \in 1 .. most |-> SelectSeq(inOrder, LAMBDA o : f[o].size = most + 1 - n)])
Buffers(f, MaxId) == LET owners == Owners(f) IN [i \in DOMAIN owners |-> Buffer(f, owners[i], MaxId)]
=============================================================================
