---------------------------- MODULE MembarProofs ----------------------------
(***************************************************************************)
(* The barriers of the membar analysis suffice for every module: along any *)
(* path, no operation meets an access that is still pending and conflicts  *)
(* with its own.                                                           *)
(*                                                                         *)
(* What the analysis leaves behind is a certificate: for each operation of *)
(* each block it has seen, accesses that may be pending there.  Barriers   *)
(* inserted later only make it easier for a certificate to be right, so    *)
(* that of a block survives when the block is scanned again, and those of  *)
(* earlier functions survive the walk.                                     *)
(***************************************************************************)
EXTENDS Membar, SequenceTheorems, TLAPS

-----------------------------------------------------------------------------
(* Certificates.                                                           *)

Sub(x, y) == x.r \subseteq y.r /\ x.w \subseteq y.w
IsFcn(g, S) == g = [x \in S |-> g[x]]

Blocks(f) == DOMAIN mod.funcs[f].blocks
Ops(f, b) == DOMAIN Block(f, b).ops
Size(f, b) == Len(Block(f, b).ops)
Barrier(f, b, i) == <<f, b, i>> \in barriers

\* What is pending before operation i, when x was before the barrier, if any.
Left(f, b, i, x) == IF Barrier(f, b, i) THEN Nothing ELSE x
\* x is at most what is claimed before operation i, or a barrier drops it.
Claimed(f, b, i, x, y) == Barrier(f, b, i) \/ Sub(x, y)

\* What an operation accesses before it synchronises, if it does.
First(f, b, i) == LET e == Effects(f, b, i)
                  IN IF Op(f, b, i).kind = "scratch" THEN [e EXCEPT !.r = {}] ELSE e
\* What a run leaves pending behind an operation.
After(f, b, i, x) == CASE Op(f, b, i).kind = "barrier" -> Nothing
                       [] Op(f, b, i).kind = "scratch" -> Effects(f, b, i)
                       [] Op(f, b, i).kind \in {"memory", "arrive"} -> join(x, Effects(f, b, i))
                       [] OTHER -> x

\* The claims C are right for operation i: it meets no conflict, and what it
\* leaves pending is claimed for the next.
OpRight(f, b, C, i) ==
    /\ Op(f, b, i).kind # "call" => ~ isIntersected(Left(f, b, i, C[i]), First(f, b, i))
    /\ Claimed(f, b, i + 1, After(f, b, i, Left(f, b, i, C[i])), C[i + 1])
BlockRight(f, b, C) == \A i \in Ops(f, b) : OpRight(f, b, C, i)
EndOf(f, b, C) == Left(f, b, Size(f, b) + 1, C[Size(f, b) + 1])

\* The claims c for the blocks S of a function are right along every path.
FunctionRight(f, S, c) ==
    /\ S \subseteq Blocks(f)
    /\ \A k \in DOMAIN mod.funcs[f].starts : mod.funcs[f].starts[k] \in S
    /\ \A b \in S :
          /\ BlockRight(f, b, c[b])
          /\ \A k \in DOMAIN Block(f, b).succs :
                LET s == Block(f, b).succs[k]
                IN s \in S /\ Claimed(f, s, 1, EndOf(f, b, c[b]), c[s][1])
          /\ Block(f, b).ret => Sub(EndOf(f, b, c[b]), funcInfo[f])

-----------------------------------------------------------------------------
(* The invariant of the analysis of function fn.                           *)

Waiting == {blockList[k] : k \in DOMAIN blockList} \cup {cur}

\* The block has been scanned: the claims are right and lead to its output, and
\* if it does not wait they start with its input.
Settled(b) ==
    \E C : /\ BlockRight(fn, b, C)
           /\ Sub(EndOf(fn, b, C), outputs[b])
           /\ b \notin Waiting => Claimed(fn, b, 1, inputs[b], C[1])

WorkListOK ==
    /\ IsFcn(inputs, Blocks(fn)) /\ IsFcn(outputs, Blocks(fn))
    /\ seen \subseteq Blocks(fn) /\ cur \in Blocks(fn) \cup {0}
    /\ blockList \in Seq(Blocks(fn))
    /\ \A k \in DOMAIN mod.funcs[fn].starts : mod.funcs[fn].starts[k] \in seen \cup Waiting
    /\ \A b \in seen :
          /\ Settled(b)
          /\ \A k \in DOMAIN Block(fn, b).succs :
                LET s == Block(fn, b).succs[k]
                IN s \in seen \cup Waiting /\ Sub(outputs[b], inputs[s])

\* The scan of cur has got to pos and has claims for what it has passed.
ScanOK ==
    cur # 0 =>
      /\ pos \in 1 .. Size(fn, cur) + 1
      /\ \E C : /\ Claimed(fn, cur, 1, inputs[cur], C[1])
                /\ \A i \in 1 .. pos - 1 : OpRight(fn, cur, C, i)
                /\ C[pos] = info

AnalysisOK ==
    /\ mod \in Modules /\ fn \in 1 .. Len(mod.funcs) + 1
    /\ IsFcn(funcInfo, Funs)
    /\ \A f \in Funs : f < fn => \E S, c : FunctionRight(f, S, c)
    /\ fn \in Funs => WorkListOK /\ ScanOK
    /\ fn \notin Funs => cur = 0

-----------------------------------------------------------------------------
(* The invariant of a run.                                                 *)

Frame == [f : Nat, b : Nat, i : Nat, base : Nat]
\* The pending accesses that frame d has made.
Own(d, p) == [r |-> {a \in p.r : a[3] = d}, w |-> {a \in p.w : a[3] = d}]
Relative(A, base) == {<< <<a[1][1] - base, a[1][2] - base>>, a[2]>> : a \in A}
RelativeTo(s, p) == [r |-> Relative(p.r, s.base), w |-> Relative(p.w, s.base)]

IsAccess(a, d) == /\ a = <<a[1], a[2], a[3]>> /\ a[1] = <<a[1][1], a[1][2]>>
                  /\ a[1][1] \in Int /\ a[1][2] \in Int /\ a[3] \in 0 .. d
PendingOK == /\ pending = [r |-> pending.r, w |-> pending.w]
             /\ \A a \in pending.r \cup pending.w : IsAccess(a, Len(stack))

Right(S, c) == \A f \in Funs : FunctionRight(f, S[f], c[f])

\* What a frame has pending is claimed where it is; one below the top is in a call.
FrameOK(d, S, c) ==
    LET s == stack[d]
    IN /\ s.f \in Funs /\ s.b \in S[s.f] /\ s.i \in 1 .. Size(s.f, s.b) + 1
       /\ IF d = Len(stack)
          THEN Claimed(s.f, s.b, s.i, RelativeTo(s, Own(d, pending)), c[s.f][s.b][s.i])
          ELSE /\ s.i <= Size(s.f, s.b) /\ Op(s.f, s.b, s.i).kind = "call"
               /\ Sub(RelativeTo(s, Own(d, pending)), Left(s.f, s.b, s.i, c[s.f][s.b][s.i]))

RunOK ==
    /\ stack \in Seq(Frame) /\ PendingOK
    /\ stack = <<>> => pending = Nothing
    /\ stack # <<>> =>
          /\ Done
          /\ \E S, c : Right(S, c) /\ \A d \in 1 .. Len(stack) : FrameOK(d, S, c)

IInv == AnalysisOK /\ RunOK

-----------------------------------------------------------------------------
(* Certificates survive barriers that are inserted later.                  *)

\* What a module is made of.
LEMMA ModuleFacts ==
  ASSUME mod \in Modules
  PROVE  /\ MaxAddr \in Nat
         /\ Funs = 1 .. Len(mod.funcs) /\ Len(mod.funcs) \in Nat \ {0}
         /\ \A f \in Funs :
               /\ mod.funcs[f].starts \in Seq(Blocks(f)) /\ mod.funcs[f].starts # <<>>
               /\ Blocks(f) = 1 .. Len(mod.funcs[f].blocks) /\ Len(mod.funcs[f].blocks) \in Nat
               /\ \A b \in Blocks(f) :
                     /\ Block(f, b).succs \in Seq(Blocks(f))
                     /\ Block(f, b).ret \in BOOLEAN /\ Block(f, b).sync \in BOOLEAN
                     /\ Ops(f, b) = 1 .. Size(f, b) /\ Size(f, b) \in Nat
                     /\ \A i \in Ops(f, b) :
                           /\ Op(f, b, i) \in Operation
                           /\ Op(f, b, i).kind = "scratch" => Op(f, b, i).reads = Op(f, b, i).writes
                           /\ Op(f, b, i).kind \in {"barrier", "wait"} =>
                                 Op(f, b, i).reads = {} /\ Op(f, b, i).writes = {}
                           /\ Op(f, b, i).kind = "call" => Op(f, b, i).callee \in 1 .. f - 1
<1> DEFINE m == mod
<1>1. /\ MaxAddr \in Nat /\ m.funcs \in Seq(Function) /\ m.funcs # <<>>
  BY ModulesAssumption
<1>2. Funs = 1 .. Len(m.funcs) /\ Len(m.funcs) \in Nat \ {0}
  BY <1>1, LenProperties, EmptySeq DEF Funs
<1>3. ASSUME NEW f \in Funs
      PROVE  /\ m.funcs[f].starts \in Seq(Blocks(f)) /\ m.funcs[f].starts # <<>>
             /\ Blocks(f) = 1 .. Len(m.funcs[f].blocks) /\ Len(m.funcs[f].blocks) \in Nat
             /\ m.funcs[f].blocks \in Seq(VirtualBlock)
  <2>1. m.funcs[f] \in Function
    BY <1>1, <1>2
  <2>2. m.funcs[f].blocks \in Seq(VirtualBlock)
    BY <2>1 DEF Function
  <2>3. m.funcs[f].starts \in Seq(Blocks(f)) /\ m.funcs[f].starts # <<>>
    BY ModulesAssumption DEF Funs, Blocks
  <2> QED BY <2>2, <2>3, LenProperties DEF Blocks
<1>4. ASSUME NEW f \in Funs, NEW b \in Blocks(f)
      PROVE  /\ Block(f, b).succs \in Seq(Blocks(f))
             /\ Block(f, b) \in VirtualBlock
             /\ Ops(f, b) = 1 .. Size(f, b) /\ Size(f, b) \in Nat
  <2>1. Block(f, b) \in VirtualBlock
    BY <1>3 DEF Block
  <2>2. Block(f, b).succs \in Seq(Blocks(f))
    BY ModulesAssumption DEF Funs, Blocks, Block
  <2>3. Block(f, b).ops \in Seq(Operation)
    BY <2>1 DEF VirtualBlock
  <2> QED BY <2>1, <2>2, <2>3, LenProperties DEF Ops, Size
<1>5. ASSUME NEW f \in Funs, NEW b \in Blocks(f), NEW i \in Ops(f, b)
      PROVE  /\ Op(f, b, i) \in Operation
             /\ Op(f, b, i).kind = "scratch" => Op(f, b, i).reads = Op(f, b, i).writes
             /\ Op(f, b, i).kind \in {"barrier", "wait"} =>
                   Op(f, b, i).reads = {} /\ Op(f, b, i).writes = {}
             /\ Op(f, b, i).kind = "call" => Op(f, b, i).callee \in 1 .. f - 1
  <2>1. Block(f, b).ops \in Seq(Operation)
    BY <1>4 DEF VirtualBlock
  <2>2. Op(f, b, i) \in Operation
    BY <1>4, <2>1 DEF Op, Ops
  <2> QED BY <2>2, ModulesAssumption DEF Funs, Blocks, Ops, Block, Op
<1>6. ASSUME NEW f \in Funs, NEW b \in Blocks(f)
      PROVE  Block(f, b).ret \in BOOLEAN /\ Block(f, b).sync \in BOOLEAN
  BY <1>4 DEF VirtualBlock
<1> QED BY <1>1, <1>2, <1>3, <1>4, <1>5, <1>6

\* A set of accesses without any conflicts with nothing.
LEMMA NothingMeetsNothing ==
  ASSUME NEW e PROVE ~ isIntersected(Nothing, e)
BY DEF isIntersected, Clash, Nothing

\* A join has what its parts have.
LEMMA JoinIsMore ==
  \A x, y : Sub(x, x) /\ Sub(x, join(x, y)) /\ Sub(y, join(x, y))
BY DEF Sub, join

\* Fewer pending accesses meet fewer conflicts.
LEMMA FewerConflicts ==
  ASSUME NEW x, NEW y, NEW e, Sub(x, y), ~ isIntersected(y, e)
  PROVE  ~ isIntersected(x, e)
BY DEF isIntersected, Clash, Sub

\* Fewer pending accesses leave fewer behind an operation.
LEMMA FewerAfter ==
  ASSUME NEW f, NEW b, NEW i, NEW x, NEW y, Sub(x, y)
  PROVE  Sub(After(f, b, i, x), After(f, b, i, y))
<1>1. CASE Op(f, b, i).kind = "barrier"
  BY <1>1 DEF After, Sub
<1>2. CASE Op(f, b, i).kind = "scratch"
  BY <1>2 DEF After, Sub
<1>3. CASE Op(f, b, i).kind \in {"memory", "arrive"}
  BY <1>3 DEF After, Sub, join
<1>4. CASE Op(f, b, i).kind \notin {"barrier", "scratch", "memory", "arrive"}
  BY <1>4 DEF After
<1> QED BY <1>1, <1>2, <1>3, <1>4

\* A claim covers what is left of a part of it.
LEMMA LeftOfClaimed ==
  ASSUME NEW f, NEW b, NEW i, NEW x, NEW y, Claimed(f, b, i, x, y)
  PROVE  Sub(Left(f, b, i, x), Left(f, b, i, y))
BY DEF Claimed, Left, Sub

\* The claims for a block stay right when barriers are inserted.
LEMMA BlockStaysRight ==
  ASSUME mod' = mod, barriers \subseteq barriers', NEW f, NEW b, NEW C
  PROVE  /\ \A i : OpRight(f, b, C, i) => OpRight(f, b, C, i)'
         /\ BlockRight(f, b, C) => BlockRight(f, b, C)'
         /\ Sub(EndOf(f, b, C)', EndOf(f, b, C))
         /\ \A i, x, y : Claimed(f, b, i, x, y) => Claimed(f, b, i, x, y)'
<1>1. ASSUME NEW i, NEW x PROVE Left(f, b, i, x)' = Left(f, b, i, x) \/ Left(f, b, i, x)' = Nothing
  BY DEF Left, Barrier
<1>2. ASSUME NEW i, NEW x, NEW y, Claimed(f, b, i, x, y) PROVE Claimed(f, b, i, x, y)'
  BY <1>2 DEF Claimed, Barrier
<1>3. ASSUME NEW i, NEW x PROVE Sub(Left(f, b, i, x)', Left(f, b, i, x))
  BY <1>1 DEF Sub, Nothing
<1>4. ASSUME NEW i, NEW x, NEW y
      PROVE  /\ First(f, b, i)' = First(f, b, i) /\ Op(f, b, i)' = Op(f, b, i)
             /\ isIntersected(x, y)' = isIntersected(x, y)
             /\ After(f, b, i, x)' = After(f, b, i, x)
  BY DEF First, Effects, Op, Block, isIntersected, Clash, After
<1>5. ASSUME NEW i, OpRight(f, b, C, i) PROVE OpRight(f, b, C, i)'
  <2> DEFINE x == Left(f, b, i, C[i])
             y == Left(f, b, i, C[i])'
  <2>1. PICK x1 : x1 = x
    OBVIOUS
  <2>2. PICK y1 : y1 = y
    OBVIOUS
  <2>3. Sub(y1, x1)
    BY <1>3, <2>1, <2>2
  <2>4. Op(f, b, i).kind # "call" => ~ isIntersected(y1, First(f, b, i))
    <3>1. Op(f, b, i).kind # "call" => ~ isIntersected(x1, First(f, b, i))
      BY <1>5, <2>1 DEF OpRight
    <3> QED BY <2>3, <3>1, FewerConflicts
  <2>5. Claimed(f, b, i + 1, After(f, b, i, y1), C[i + 1])
    <3>1. Claimed(f, b, i + 1, After(f, b, i, x1), C[i + 1])
      BY <1>5, <2>1 DEF OpRight
    <3>2. Sub(After(f, b, i, y1), After(f, b, i, x1))
      BY <2>3, FewerAfter
    <3> QED BY <3>1, <3>2 DEF Claimed, Sub
  <2>6. PICK e : e = First(f, b, i)
    OBVIOUS
  <2>7. PICK z : z = After(f, b, i, y1)
    OBVIOUS
  <2>8. First(f, b, i)' = e /\ After(f, b, i, y1)' = z /\ Op(f, b, i)' = Op(f, b, i)
    BY <1>4, <2>6, <2>7
  <2>9. Op(f, b, i).kind # "call" => ~ isIntersected(y1, e)'
    BY <1>4, <2>4, <2>6
  <2>10. Claimed(f, b, i + 1, z, C[i + 1])'
    BY <1>2, <2>5, <2>7
  <2> QED BY <2>2, <2>8, <2>9, <2>10 DEF OpRight
<1>6. BlockRight(f, b, C) => BlockRight(f, b, C)'
  BY <1>5 DEF BlockRight, Ops, Block
<1>7. Sub(EndOf(f, b, C)', EndOf(f, b, C))
  <2>1. Size(f, b)' = Size(f, b)
    BY DEF Size, Block
  <2>2. EndOf(f, b, C)' = Left(f, b, Size(f, b) + 1, C[Size(f, b) + 1])'
    BY DEF EndOf
  <2> QED BY <1>3, <2>1, <2>2 DEF EndOf
<1> QED BY <1>2, <1>5, <1>6, <1>7

\* The claims for a function stay right as well.
LEMMA FunctionStaysRight ==
  ASSUME mod' = mod, barriers \subseteq barriers', NEW f, funcInfo'[f] = funcInfo[f],
         NEW S, NEW c, FunctionRight(f, S, c)
  PROVE  FunctionRight(f, S, c)'
<1>1. /\ Blocks(f)' = Blocks(f) /\ mod'.funcs = mod.funcs
      /\ \A b : Block(f, b)' = Block(f, b)
  BY DEF Blocks, Block
<1>2. ASSUME NEW b \in S
      PROVE  /\ BlockRight(f, b, c[b])'
             /\ \A k \in DOMAIN Block(f, b).succs :
                   /\ Block(f, b).succs[k] \in S
                   /\ Claimed(f, Block(f, b).succs[k], 1, EndOf(f, b, c[b]),
                              c[Block(f, b).succs[k]][1])'
             /\ Block(f, b).ret => Sub(EndOf(f, b, c[b])', funcInfo[f])
  <2>1. /\ BlockRight(f, b, c[b])
        /\ \A k \in DOMAIN Block(f, b).succs :
              /\ Block(f, b).succs[k] \in S
              /\ Claimed(f, Block(f, b).succs[k], 1, EndOf(f, b, c[b]),
                         c[Block(f, b).succs[k]][1])
        /\ Block(f, b).ret => Sub(EndOf(f, b, c[b]), funcInfo[f])
    BY DEF FunctionRight
  <2>2. BlockRight(f, b, c[b])' /\ Sub(EndOf(f, b, c[b])', EndOf(f, b, c[b]))
    BY <2>1, BlockStaysRight
  <2>3. PICK e : e = EndOf(f, b, c[b])'
    OBVIOUS
  <2>4. ASSUME NEW k \in DOMAIN Block(f, b).succs, NEW s, s = Block(f, b).succs[k]
        PROVE  Claimed(f, s, 1, e, c[s][1])'
    <3>1. Claimed(f, s, 1, e, c[s][1])
      BY <2>1, <2>2, <2>3, <2>4 DEF Claimed, Sub
    <3> QED BY <3>1 DEF Claimed, Barrier
  <2>5. ASSUME NEW k \in DOMAIN Block(f, b).succs
        PROVE  /\ Block(f, b).succs[k] \in S
               /\ Claimed(f, Block(f, b).succs[k], 1, EndOf(f, b, c[b]),
                          c[Block(f, b).succs[k]][1])'
    <3>1. PICK s : s = Block(f, b).succs[k]
      OBVIOUS
    <3>2. Claimed(f, s, 1, e, c[s][1])'
      BY <2>4, <3>1
    <3>3. Block(f, b).succs[k]' = s
      BY <1>1, <3>1
    <3> QED BY <2>1, <2>3, <3>1, <3>2, <3>3 DEF Claimed, Barrier
  <2>6. Block(f, b).ret => Sub(EndOf(f, b, c[b])', funcInfo[f])
    BY <2>1, <2>2 DEF Sub
  <2> QED BY <2>2, <2>5, <2>6
<1> QED BY <1>1, <1>2 DEF FunctionRight

-----------------------------------------------------------------------------
(* The analysis.                                                           *)

\* A step of the analysis leaves the run, which has not begun, alone.
LEMMA AnalyseKeepsRun ==
  ASSUME IInv, Analyse PROVE RunOK' /\ mod' = mod /\ UNCHANGED <<pending, stack>>
<1>1. fn \in Funs
  BY DEF IInv, AnalysisOK, Analyse, TakeBlock, UpdateBarrier, UpdateWait, UpdateScratch,
         UpdateOther, Scan, VisitTerminator, NextFunction
<1>2. mod' = mod /\ UNCHANGED <<pending, stack>>
  BY DEF Analyse, TakeBlock, UpdateBarrier, UpdateWait, UpdateScratch, UpdateOther, Scan,
         VisitTerminator, NextFunction
<1>3. stack = <<>>
  BY <1>1 DEF IInv, RunOK, Done
<1> QED BY <1>2, <1>3 DEF IInv, RunOK, PendingOK, IsAccess

\* Claims of functions that the walk has left stay right while the current one
\* is analysed.
LEMMA EarlierFunctions ==
  ASSUME AnalysisOK, mod' = mod, fn' = fn, funcInfo' = funcInfo, barriers \subseteq barriers'
  PROVE  /\ mod' \in Modules /\ fn' \in 1 .. Len(mod'.funcs) + 1
         /\ IsFcn(funcInfo, Funs)' /\ Funs' = Funs
         /\ (\A f \in Funs : f < fn => \E S, c : FunctionRight(f, S, c))'
<1>1. Funs' = Funs
  BY DEF Funs
<1>2. ASSUME NEW f \in Funs, f < fn PROVE \E S, c : FunctionRight(f, S, c)'
  <2>1. PICK S, c : FunctionRight(f, S, c)
    BY <1>2 DEF AnalysisOK
  <2>2. FunctionRight(f, S, c)'
    BY <2>1, FunctionStaysRight
  <2> QED BY <2>2
<1> QED BY <1>1, <1>2 DEF AnalysisOK, IsFcn

LEMMA SuccIsBlock ==
  ASSUME mod \in Modules, NEW f \in Funs, NEW b \in Blocks(f), NEW k \in DOMAIN Block(f, b).succs
  PROVE  Block(f, b).succs[k] \in Blocks(f)
<1>1. Block(f, b).succs \in Seq(Blocks(f))
  BY ModuleFacts
<1> QED BY <1>1

\* A block is taken from the work list: its scan begins with its input.
LEMMA TakeBlockKeeps == ASSUME IInv, TakeBlock PROVE AnalysisOK'
<1>1. /\ fn \in Funs /\ cur = 0 /\ blockList # <<>> /\ mod \in Modules
      /\ cur' = Head(blockList) /\ blockList' = Tail(blockList)
      /\ info' = inputs[cur'] /\ pos' = 1
      /\ UNCHANGED <<mod, fn, inputs, outputs, seen, barriers, funcInfo>>
      /\ WorkListOK /\ AnalysisOK
  BY DEF TakeBlock, IInv, AnalysisOK
<1>2. blockList \in Seq(Blocks(fn)) /\ cur' \in Blocks(fn) /\ blockList' \in Seq(Blocks(fn))
  BY <1>1, HeadTailProperties DEF WorkListOK
<1>3. 0 \notin Blocks(fn)
  BY <1>1, ModuleFacts
<1>4. \A b \in Blocks(fn) : b \in Waiting' <=> b \in Waiting
  <2>1. /\ DOMAIN blockList = 1 .. Len(blockList) /\ Len(blockList) \in Nat \ {0}
        /\ blockList[1] = cur'
        /\ DOMAIN blockList' = 1 .. Len(blockList) - 1
        /\ \A k \in 1 .. Len(blockList) - 1 : blockList'[k] = blockList[k + 1]
    BY <1>1, <1>2, HeadTailProperties, LenProperties, EmptySeq
  <2>2. ASSUME NEW b \in Blocks(fn), b \in Waiting PROVE b \in Waiting'
    <3>1. PICK k \in DOMAIN blockList : b = blockList[k]
      BY <1>1, <1>3, <2>2 DEF Waiting
    <3>2. CASE k = 1
      BY <2>1, <3>1, <3>2 DEF Waiting
    <3>3. CASE k # 1
      <4>1. k - 1 \in 1 .. Len(blockList) - 1 /\ (k - 1) + 1 = k
        BY <2>1, <3>3
      <4>2. k - 1 \in DOMAIN blockList' /\ blockList'[k - 1] = b
        BY <2>1, <3>1, <4>1
      <4> QED BY <4>2 DEF Waiting
    <3> QED BY <3>2, <3>3
  <2>3. ASSUME NEW b \in Blocks(fn), b \in Waiting' PROVE b \in Waiting
    <3>1. CASE b = cur'
      BY <2>1, <3>1 DEF Waiting
    <3>2. CASE b # cur'
      <4>1. PICK k \in DOMAIN blockList' : b = blockList'[k]
        BY <2>3, <3>2 DEF Waiting
      <4>2. k + 1 \in DOMAIN blockList /\ blockList[k + 1] = b
        BY <2>1, <4>1
      <4> QED BY <4>2 DEF Waiting
    <3> QED BY <3>1, <3>2
  <2> QED BY <2>2, <2>3
<1>5. /\ Blocks(fn)' = Blocks(fn) /\ \A b : Block(fn, b)' = Block(fn, b)
  BY <1>1 DEF Blocks, Block
<1>6. ASSUME NEW b \in seen PROVE Settled(b)'
  <2>0. b \in Blocks(fn)
    BY <1>1 DEF WorkListOK
  <2>1. PICK C : /\ BlockRight(fn, b, C) /\ Sub(EndOf(fn, b, C), outputs[b])
                 /\ b \notin Waiting => Claimed(fn, b, 1, inputs[b], C[1])
    BY <1>1 DEF WorkListOK, Settled
  <2>2. BlockRight(fn, b, C)' /\ Sub(EndOf(fn, b, C)', outputs[b])
    <3>1. PICK f : f = fn
      OBVIOUS
    <3>2. BlockRight(f, b, C)' /\ Sub(EndOf(f, b, C)', EndOf(f, b, C))
      BY <1>1, <2>1, <3>1, BlockStaysRight
    <3> QED BY <1>1, <2>1, <3>1, <3>2 DEF Sub
  <2>3. b \notin Waiting' => Claimed(fn, b, 1, inputs[b], C[1])'
    BY <1>1, <1>4, <2>0, <2>1 DEF Claimed, Barrier
  <2> QED BY <1>1, <2>1, <2>2, <2>3 DEF Settled
<1>7. WorkListOK'
  <2>1. \A k \in DOMAIN mod.funcs[fn].starts : mod.funcs[fn].starts[k] \in seen \cup Waiting'
    <3> SUFFICES ASSUME NEW k \in DOMAIN mod.funcs[fn].starts, mod.funcs[fn].starts[k] \notin seen
                 PROVE  mod.funcs[fn].starts[k] \in Waiting'
      OBVIOUS
    <3>1. mod.funcs[fn].starts[k] \in Blocks(fn)
      BY <1>1, ModuleFacts
    <3> QED BY <1>1, <1>4, <3>1 DEF WorkListOK
  <2>2. ASSUME NEW b \in seen, NEW k \in DOMAIN Block(fn, b).succs
        PROVE  /\ Block(fn, b).succs[k] \in seen \cup Waiting'
               /\ Sub(outputs[b], inputs[Block(fn, b).succs[k]])
    <3>1. b \in Blocks(fn)
      BY <1>1 DEF WorkListOK
    <3>2. Block(fn, b).succs[k] \in Blocks(fn)
      BY <1>1, <3>1, SuccIsBlock
    <3>3. /\ Block(fn, b).succs[k] \in seen \cup Waiting
          /\ Sub(outputs[b], inputs[Block(fn, b).succs[k]])
      BY <1>1 DEF WorkListOK
    <3> QED BY <1>4, <3>2, <3>3
  <2> QED BY <1>1, <1>2, <1>5, <1>6, <2>1, <2>2 DEF WorkListOK, IsFcn
<1>8. ScanOK'
  <2>1. PICK n : n = cur'
    OBVIOUS
  <2>2. Size(fn, n)' = Size(fn, n) /\ Size(fn, n) \in Nat
    BY <1>1, <1>2, <2>1, ModuleFacts DEF Size, Block
  <2>3. PICK D : D = [i \in {1} |-> inputs[n]]
    OBVIOUS
  <2>4. Claimed(fn, cur, 1, inputs[cur], D[1])'
    BY <1>1, <2>1, <2>3 DEF Claimed, Sub
  <2>5. 1 \in 1 .. Size(fn, cur)' + 1
    BY <1>1, <2>1, <2>2
  <2> QED BY <1>1, <2>1, <2>3, <2>4, <2>5 DEF ScanOK
<1> QED BY <1>1, <1>5, <1>7, <1>8, EarlierFunctions DEF AnalysisOK, Funs

\* The scan passes an operation: it is enough that the operation is right with
\* the barriers that are there now, and that the scan claims what it leaves.
LEMMA ScanKeeps ==
  ASSUME IInv, cur # 0, pos <= Len(Block(fn, cur).ops), pos' = pos + 1,
         UNCHANGED <<mod, fn, blockList, inputs, outputs, seen, cur, funcInfo>>,
         barriers \subseteq barriers',
         NEW f, f = fn, NEW b, b = cur, NEW p, p = pos, NEW x, x = info, NEW y, y = info',
         (Op(f, b, p).kind # "call" => ~ isIntersected(Left(f, b, p, x), First(f, b, p)))',
         Claimed(f, b, p + 1, After(f, b, p, Left(f, b, p, x)), y)'
  PROVE  AnalysisOK'
<1>1. /\ fn \in Funs /\ mod \in Modules /\ AnalysisOK /\ WorkListOK /\ ScanOK
      /\ b \in Blocks(f)
  BY DEF IInv, AnalysisOK, WorkListOK
<1>2. /\ Blocks(f)' = Blocks(f) /\ Funs' = Funs /\ Waiting' = Waiting
      /\ \A q : Block(f, q)' = Block(f, q) /\ Size(f, q)' = Size(f, q)
  BY DEF Blocks, Block, Waiting, Funs, Size
<1>3. Size(f, b) \in Nat /\ p \in 1 .. Size(f, b)
  BY <1>1, ModuleFacts DEF ScanOK, Size
<1>4. ASSUME NEW q \in seen PROVE Settled(q)'
  <2>1. PICK C : /\ BlockRight(f, q, C) /\ Sub(EndOf(f, q, C), outputs[q])
                 /\ q \notin Waiting => Claimed(f, q, 1, inputs[q], C[1])
    BY <1>1, <1>4 DEF WorkListOK, Settled
  <2>2. BlockRight(f, q, C)' /\ Sub(EndOf(f, q, C)', EndOf(f, q, C))
    BY <2>1, BlockStaysRight
  <2>3. q \notin Waiting' => Claimed(f, q, 1, inputs[q], C[1])'
    BY <1>2, <2>1 DEF Claimed, Barrier
  <2>4. Sub(EndOf(f, q, C), outputs[q])'
    BY <2>1, <2>2 DEF Sub
  <2> QED BY <2>2, <2>3, <2>4 DEF Settled
<1>5. WorkListOK'
  <2>1. /\ IsFcn(inputs, Blocks(fn))' /\ IsFcn(outputs, Blocks(fn))'
        /\ seen' \subseteq Blocks(fn)' /\ cur' \in Blocks(fn)' \cup {0}
        /\ blockList' \in Seq(Blocks(fn)')
    BY <1>1, <1>2 DEF WorkListOK, IsFcn
  <2>2. \A k \in DOMAIN mod'.funcs[fn'].starts : mod'.funcs[fn'].starts[k] \in seen' \cup Waiting'
    BY <1>1, <1>2 DEF WorkListOK
  <2>3. ASSUME NEW q \in seen, NEW k \in DOMAIN Block(f, q).succs
        PROVE  /\ Block(f, q).succs[k] \in seen' \cup Waiting'
               /\ Sub(outputs'[q], inputs'[Block(f, q).succs[k]])
    BY <1>1, <1>2 DEF WorkListOK
  <2>4. \A q : Block(fn, q)' = Block(f, q)
    BY <1>2
  <2> QED BY <1>4, <2>1, <2>2, <2>3, <2>4 DEF WorkListOK
<1>6. ScanOK'
  <2>1. PICK C : /\ Claimed(f, b, 1, inputs[b], C[1])
                 /\ \A i \in 1 .. p - 1 : OpRight(f, b, C, i)
                 /\ C[p] = x
    BY <1>1 DEF ScanOK
  <2>2. PICK D : D = [i \in 1 .. p + 1 |-> IF i = p + 1 THEN y ELSE C[i]]
    OBVIOUS
  <2>3. (\A i \in 1 .. p : D[i] = C[i]) /\ D[p + 1] = y
    BY <1>3, <2>2
  <2>4. Claimed(f, b, 1, inputs[b], D[1])'
    BY <1>3, <2>1, <2>3 DEF Claimed, Barrier
  <2>5. ASSUME NEW i \in 1 .. p PROVE OpRight(f, b, D, i)'
    <3>1. CASE i = p
      <4>1. D[i] = x /\ D[i + 1] = y
        BY <1>3, <2>1, <2>3, <3>1
      <4> QED BY <3>1, <4>1 DEF OpRight
    <3>2. CASE i # p
      <4>1. i \in 1 .. p - 1 /\ D[i] = C[i] /\ D[i + 1] = C[i + 1]
        BY <1>3, <2>3, <3>2
      <4>2. OpRight(f, b, C, i)'
        BY <2>1, <4>1, BlockStaysRight
      <4> QED BY <4>1, <4>2 DEF OpRight
    <3> QED BY <3>1, <3>2
  <2>6. pos' \in 1 .. Size(fn, cur)' + 1 /\ pos' - 1 = p /\ D[pos'] = info'
    BY <1>2, <1>3, <2>3
  <2>7. Claimed(fn, cur, 1, inputs[cur], D[1])' /\ \A i \in 1 .. pos' - 1 : OpRight(fn, cur, D, i)'
    BY <2>4, <2>5, <2>6 DEF Claimed
  <2> QED BY <2>6, <2>7 DEF ScanOK
<1>7. fn' \in Funs'
  BY <1>1, <1>2
<1> QED BY <1>1, <1>5, <1>6, <1>7, EarlierFunctions DEF AnalysisOK

\* What the actions of the scan have in common.
LEMMA ScanFacts ==
  ASSUME IInv, NEW K, Scan(K)
  PROVE  /\ cur # 0 /\ pos <= Len(Block(fn, cur).ops) /\ pos' = pos + 1
         /\ UNCHANGED <<mod, fn, blockList, inputs, outputs, seen, cur, funcInfo>>
         /\ fn \in Funs /\ cur \in Blocks(fn) /\ pos \in Ops(fn, cur) /\ pos \in Nat
         /\ mod \in Modules /\ Op(fn, cur, pos).kind \in K
<1>1. fn \in Funs /\ cur \in Blocks(fn) /\ mod \in Modules /\ pos \in 1 .. Size(fn, cur) + 1
  BY DEF IInv, AnalysisOK, WorkListOK, ScanOK, Scan
<1> QED BY <1>1, ModuleFacts DEF Scan, Size

\* What the actions of the scan say of the operation they are at.
LEMMA OpAtScan ==
  ASSUME IInv, NEW K, Scan(K), NEW f, f = fn, NEW b, b = cur, NEW p, p = pos
  PROVE  /\ Op(f, b, p)' = Op(f, b, p) /\ Op(f, b, p).kind \in K
         /\ Op(f, b, p) \in Operation
         /\ Op(f, b, p).kind = "scratch" => Op(f, b, p).reads = Op(f, b, p).writes
         /\ Op(f, b, p).kind \in {"barrier", "wait"} =>
               Op(f, b, p).reads = {} /\ Op(f, b, p).writes = {}
         /\ \A i, x : Effects(f, b, i)' = Effects(f, b, i) /\ First(f, b, i)' = First(f, b, i)
                      /\ After(f, b, i, x)' = After(f, b, i, x)
         /\ \A x, y : isIntersected(x, y)' = isIntersected(x, y)
<1>1. /\ fn \in Funs /\ cur \in Blocks(fn) /\ pos \in Ops(fn, cur) /\ mod \in Modules
      /\ Op(fn, cur, pos).kind \in K /\ mod' = mod
  BY ScanFacts
<1>2. /\ Op(f, b, p).kind \in K /\ Op(f, b, p) \in Operation
      /\ Op(f, b, p).kind = "scratch" => Op(f, b, p).reads = Op(f, b, p).writes
      /\ Op(f, b, p).kind \in {"barrier", "wait"} =>
            Op(f, b, p).reads = {} /\ Op(f, b, p).writes = {}
  BY <1>1, ModuleFacts
<1>3. \A i, x : Effects(f, b, i)' = Effects(f, b, i) /\ First(f, b, i)' = First(f, b, i)
                /\ After(f, b, i, x)' = After(f, b, i, x) /\ Op(f, b, i)' = Op(f, b, i)
  BY <1>1 DEF First, Effects, Op, Block, After
<1>4. \A x, y : isIntersected(x, y)' = isIntersected(x, y)
  BY <1>1 DEF isIntersected, Clash
<1> QED BY <1>2, <1>3, <1>4

\* A barrier of the program leaves nothing pending.
LEMMA UpdateBarrierKeeps == ASSUME IInv, UpdateBarrier PROVE AnalysisOK'
<1>1. Scan({"barrier"}) /\ info' = Nothing /\ barriers' = barriers
  BY DEF UpdateBarrier
<1>2. PICK f, b, p, x, y : f = fn /\ b = cur /\ p = pos /\ x = info /\ y = info'
  OBVIOUS
<1>3. /\ Op(f, b, p).kind = "barrier" /\ Op(f, b, p).reads = {} /\ Op(f, b, p).writes = {}
      /\ Op(f, b, p)' = Op(f, b, p)
  BY <1>1, <1>2, OpAtScan
<1>4. (~ isIntersected(Left(f, b, p, x), First(f, b, p)))'
  BY <1>3 DEF First, Effects, By, isIntersected, Clash
<1>5. Claimed(f, b, p + 1, After(f, b, p, Left(f, b, p, x)), y)'
  BY <1>1, <1>2, <1>3 DEF Claimed, After, Sub
<1> QED BY <1>1, <1>2, <1>4, <1>5, ScanFacts, ScanKeeps

\* A barrier follows the wait, or one is there, or is inserted.
LEMMA UpdateWaitKeeps == ASSUME IInv, UpdateWait PROVE AnalysisOK'
<1>1. Scan({"wait"})
  BY DEF UpdateWait
<1>2. PICK f, b, p, x, y : f = fn /\ b = cur /\ p = pos /\ x = info /\ y = info'
  OBVIOUS
<1>3. /\ Op(f, b, p).kind = "wait" /\ Op(f, b, p).reads = {} /\ Op(f, b, p).writes = {}
      /\ Op(f, b, p)' = Op(f, b, p)
  BY <1>1, <1>2, OpAtScan
<1>4. barriers \subseteq barriers'
  BY DEF UpdateWait, Insert
<1>5. (~ isIntersected(Left(f, b, p, x), First(f, b, p)))'
  BY <1>3 DEF First, Effects, By, isIntersected, Clash
<1>6. Claimed(f, b, p + 1, After(f, b, p, Left(f, b, p, x)), y)'
  <2>1. CASE IsBarrier(fn, cur, pos + 1)
    <3>1. barriers' = barriers /\ y = Left(f, b, p, x)
      BY <1>2, <2>1 DEF UpdateWait, Found, Left, Barrier
    <3>2. Left(f, b, p, x)' = Left(f, b, p, x)
      BY <3>1 DEF Left, Barrier
    <3> QED BY <1>3, <3>1, <3>2 DEF Claimed, After, Sub
  <2>2. CASE ~ IsBarrier(fn, cur, pos + 1)
    BY <1>2, <2>2 DEF UpdateWait, Insert, Claimed, Barrier
  <2> QED BY <2>1, <2>2
<1> QED BY <1>1, <1>2, <1>4, <1>5, <1>6, ScanFacts, ScanKeeps

\* A scratch operation that may conflict gets a barrier before it, and whatever
\* was pending, what it writes is what the scan goes on with.
LEMMA UpdateScratchKeeps == ASSUME IInv, UpdateScratch PROVE AnalysisOK'
<1>1. Scan({"scratch"})
  BY DEF UpdateScratch
<1>2. PICK f, b, p, x, y : f = fn /\ b = cur /\ p = pos /\ x = info /\ y = info'
  OBVIOUS
<1>3. /\ Op(f, b, p).kind = "scratch" /\ Op(f, b, p)' = Op(f, b, p)
      /\ Effects(f, b, p)' = Effects(f, b, p) /\ First(f, b, p)' = First(f, b, p)
      /\ \A u, v : isIntersected(u, v)' = isIntersected(u, v)
  BY <1>1, <1>2, OpAtScan
<1>4. barriers \subseteq barriers' /\ y = Effects(f, b, p)
  BY <1>2 DEF UpdateScratch, Insert, AfterScratch
<1>5. PICK e : e = First(f, b, p)
  OBVIOUS
<1>6. (~ isIntersected(Left(f, b, p, x), First(f, b, p)))'
  <2>1. PICK l : l = Left(f, b, p, x)'
    OBVIOUS
  <2>2. Found = Left(f, b, p, x)
    BY <1>2 DEF Found, Left, Barrier
  <2>3. ~ isIntersected(l, e)
    <3>1. CASE isIntersected(Found, e)
      <4>1. l = Nothing
        BY <1>2, <1>3, <1>5, <2>1, <3>1 DEF UpdateScratch, First, Insert, Left, Barrier
      <4> QED BY <4>1, NothingMeetsNothing
    <3>2. CASE ~ isIntersected(Found, e)
      <4>1. barriers' = barriers
        BY <1>2, <1>3, <1>5, <3>2 DEF UpdateScratch, First
      <4>2. l = Found
        BY <2>1, <2>2, <4>1 DEF Left, Barrier
      <4> QED BY <3>2, <4>2
    <3> QED BY <3>1, <3>2
  <2>4. (~ isIntersected(l, e))'
    BY <1>3, <2>3
  <2> QED BY <1>3, <1>5, <2>1, <2>4
<1>7. Claimed(f, b, p + 1, After(f, b, p, Left(f, b, p, x)), y)'
  <2>1. After(f, b, p, Left(f, b, p, x))' = y
    BY <1>3, <1>4 DEF After
  <2> QED BY <2>1 DEF Claimed, Sub
<1> QED BY <1>1, <1>2, <1>4, <1>6, <1>7, ScanFacts, ScanKeeps

\* Any other operation: the barrier it gets, or finds, or does not need.  A call
\* leaves what the caller has pending, and the scan goes on with no less.
LEMMA UpdateOtherKeeps == ASSUME IInv, UpdateOther PROVE AnalysisOK'
<1>1. Scan({"memory", "arrive", "call"})
  BY DEF UpdateOther
<1>2. PICK f, b, p, x, y : f = fn /\ b = cur /\ p = pos /\ x = info /\ y = info'
  OBVIOUS
<1>3. /\ Op(f, b, p).kind \in {"memory", "arrive", "call"} /\ Op(f, b, p)' = Op(f, b, p)
      /\ Effects(f, b, p)' = Effects(f, b, p) /\ First(f, b, p)' = First(f, b, p)
      /\ \A u, v : isIntersected(u, v)' = isIntersected(u, v)
  BY <1>1, <1>2, OpAtScan
<1>4. PICK e : e = IF Op(f, b, p).kind = "call" THEN funcInfo[Op(f, b, p).callee]
                                                ELSE Effects(f, b, p)
  OBVIOUS
<1>5. IF isIntersected(Found, e) THEN y = e /\ barriers' = barriers \cup {<<f, b, p>>}
                                 ELSE y = join(Found, e) /\ barriers' = barriers
  BY <1>2, <1>4 DEF UpdateOther, Insert
<1>6. PICK l : l = Left(f, b, p, x)'
  OBVIOUS
<1>7. ~ isIntersected(l, e) /\ Sub(l, y) /\ Sub(e, y)
  <2>1. Found = Left(f, b, p, x)
    BY <1>2 DEF Found, Left, Barrier
  <2>2. CASE isIntersected(Found, e)
    <3>1. l = Nothing /\ y = e
      BY <1>5, <1>6, <2>2 DEF Left, Barrier
    <3> QED BY <3>1, NothingMeetsNothing DEF Nothing, Sub
  <2>3. CASE ~ isIntersected(Found, e)
    <3>1. l = Found /\ y = join(l, e)
      BY <1>5, <1>6, <2>1, <2>3 DEF Left, Barrier
    <3> QED BY <2>3, <3>1 DEF Sub, join
  <2> QED BY <2>2, <2>3
<1>8. (Op(f, b, p).kind # "call" => ~ isIntersected(Left(f, b, p, x), First(f, b, p)))'
  <2>1. CASE Op(f, b, p).kind = "call"
    BY <1>3, <2>1
  <2>2. CASE Op(f, b, p).kind # "call"
    <3>1. e = First(f, b, p)
      BY <1>3, <1>4, <2>2 DEF First
    <3>2. (~ isIntersected(l, e))'
      BY <1>3, <1>7
    <3> QED BY <1>3, <1>6, <3>1, <3>2
  <2> QED BY <2>1, <2>2
<1>9. Claimed(f, b, p + 1, After(f, b, p, Left(f, b, p, x)), y)'
  <2>1. Sub(After(f, b, p, l), y)
    <3>1. CASE Op(f, b, p).kind = "call"
      BY <1>7, <3>1 DEF After
    <3>2. CASE Op(f, b, p).kind # "call"
      <4>1. After(f, b, p, l) = join(l, e)
        BY <1>3, <1>4, <3>2 DEF After
      <4> QED BY <1>7, <4>1 DEF join, Sub
    <3> QED BY <3>1, <3>2
  <2>2. PICK z : z = After(f, b, p, l)
    OBVIOUS
  <2>3. After(f, b, p, l)' = z
    BY <1>3, <2>2 DEF After
  <2> QED BY <1>6, <2>1, <2>2, <2>3 DEF Claimed
<1>10. barriers \subseteq barriers'
  BY <1>5
<1> QED BY <1>1, <1>2, <1>8, <1>9, <1>10, ScanFacts, ScanKeeps

\* The end of a block that has been scanned: the claims of the scan lead to what
\* goes to the successors, and those that get more than before wait again.
LEMMA VisitTerminatorKeeps == ASSUME IInv, VisitTerminator PROVE AnalysisOK'
<1>1. PICK f, b, e, succs : f = fn /\ b = cur /\ e = EndInfo /\ succs = Block(f, b).succs
  OBVIOUS
<1>2. /\ fn \in Funs /\ mod \in Modules /\ b \in Blocks(f) /\ b # 0
      /\ AnalysisOK /\ WorkListOK /\ ScanOK /\ pos = Size(f, b) + 1
      /\ UNCHANGED <<mod, fn, barriers, funcInfo>> /\ cur' = 0
      /\ Size(f, b) \in Nat /\ Ops(f, b) = 1 .. Size(f, b) /\ succs \in Seq(Blocks(f))
      /\ 0 \notin Blocks(f)
  <2>1. /\ fn \in Funs /\ mod \in Modules /\ b \in Blocks(f) /\ b # 0
        /\ AnalysisOK /\ WorkListOK /\ ScanOK /\ pos \in 1 .. Size(f, b) + 1 /\ pos > Size(f, b)
        /\ UNCHANGED <<mod, fn, barriers, funcInfo>> /\ cur' = 0
    BY <1>1 DEF VisitTerminator, IInv, AnalysisOK, WorkListOK, ScanOK, Size
  <2>2. /\ Size(f, b) \in Nat /\ Ops(f, b) = 1 .. Size(f, b) /\ succs \in Seq(Blocks(f))
        /\ 0 \notin Blocks(f)
    BY <1>1, <2>1, ModuleFacts
  <2> QED BY <2>1, <2>2
<1>3. PICK C : /\ BlockRight(f, b, C) /\ EndOf(f, b, C) = e
               /\ Claimed(f, b, 1, inputs[b], C[1])
  <2>1. PICK C : /\ Claimed(f, b, 1, inputs[b], C[1])
                 /\ \A i \in 1 .. pos - 1 : OpRight(f, b, C, i)
                 /\ C[pos] = info
    BY <1>1, <1>2 DEF ScanOK
  <2>2. BlockRight(f, b, C)
    BY <1>2, <2>1 DEF BlockRight
  <2>3. EndOf(f, b, C) = e
    BY <1>1, <1>2, <2>1 DEF EndOf, EndInfo, Found, Left, Barrier
  <2> QED BY <2>1, <2>2, <2>3
<1>4. \A q, D : /\ BlockRight(f, q, D) => BlockRight(f, q, D)'
                /\ Sub(EndOf(f, q, D)', EndOf(f, q, D))
                /\ \A i, x, y : Claimed(f, q, i, x, y) => Claimed(f, q, i, x, y)'
  <2> TAKE q, D
  <2> QED BY <1>2, BlockStaysRight
<1>5. Blocks(f)' = Blocks(f) /\ \A q : Block(f, q)' = Block(f, q)
  BY <1>2 DEF Blocks, Block
<1>6. /\ seen \subseteq seen' /\ seen' = seen \cup {b}
      /\ blockList' \in Seq(Blocks(f))
      /\ \A q \in Blocks(f) : q # b /\ q \in Waiting => q \in Waiting'
      /\ IsFcn(inputs', Blocks(f)) /\ IsFcn(outputs', Blocks(f))
      /\ outputs'[b] = e /\ \A q \in Blocks(f) : q # b => outputs'[q] = outputs[q]
      /\ \A q \in Blocks(f) : Sub(inputs[q], inputs'[q])
      /\ \A q \in Blocks(f) : q \notin Waiting' => inputs'[q] = inputs[q]
      /\ \A k \in DOMAIN succs : succs[k] \in seen' \cup Waiting' /\ Sub(e, inputs'[succs[k]])
  <2>1. CASE Unchanged
    <3>1. UNCHANGED <<outputs, seen, inputs, blockList>> /\ b \in seen /\ outputs[b] = e
      BY <1>1, <2>1 DEF VisitTerminator, Unchanged
    <3>2. \A q \in Blocks(f) : q # b /\ q \in Waiting => q \in Waiting'
      BY <1>1, <3>1 DEF Waiting
    <3>3. \A k \in DOMAIN succs : /\ succs[k] \in Blocks(f) /\ succs[k] \in seen \cup Waiting
                                  /\ Sub(e, inputs[succs[k]])
      BY <1>1, <1>2, <3>1 DEF WorkListOK
    <3>4. \A k \in DOMAIN succs : succs[k] \in seen' \cup Waiting'
      BY <3>1, <3>2, <3>3
    <3> QED BY <1>1, <1>2, <3>1, <3>2, <3>3, <3>4 DEF WorkListOK, Sub
  <2>2. CASE ~ Unchanged
    <3>1. /\ outputs' = [outputs EXCEPT ![b] = e] /\ seen' = seen \cup {b}
          /\ inputs' = [q \in DOMAIN inputs |->
                           IF \E k \in DOMAIN succs : succs[k] = q
                           THEN join(inputs[q], e) ELSE inputs[q]]
          /\ blockList' = blockList \o succs
      BY <1>1, <2>2 DEF VisitTerminator, ToVisit
    <3>2. /\ blockList \in Seq(Blocks(f)) /\ DOMAIN inputs = Blocks(f) /\ DOMAIN outputs = Blocks(f)
          /\ IsFcn(outputs, Blocks(f))
      BY <1>1, <1>2 DEF WorkListOK, IsFcn
    <3>3. /\ blockList' \in Seq(Blocks(f))
          /\ \A k \in DOMAIN blockList : \E j \in DOMAIN blockList' : blockList'[j] = blockList[k]
          /\ \A k \in DOMAIN succs : \E j \in DOMAIN blockList' : blockList'[j] = succs[k]
      <4>1. /\ Len(blockList) \in Nat /\ Len(succs) \in Nat
            /\ DOMAIN blockList = 1 .. Len(blockList) /\ DOMAIN succs = 1 .. Len(succs)
        BY <1>2, <3>2, LenProperties
      <4>2. /\ blockList \o succs \in Seq(Blocks(f))
            /\ Len(blockList \o succs) = Len(blockList) + Len(succs)
            /\ \A i \in 1 .. Len(blockList) + Len(succs) :
                  (blockList \o succs)[i] = IF i <= Len(blockList) THEN blockList[i]
                                            ELSE succs[i - Len(blockList)]
        BY <1>2, <3>2, ConcatProperties
      <4>3. DOMAIN blockList' = 1 .. Len(blockList) + Len(succs)
        BY <3>1, <4>2, LenProperties
      <4>4. ASSUME NEW k \in DOMAIN blockList
            PROVE  \E j \in DOMAIN blockList' : blockList'[j] = blockList[k]
        <5>1. k \in DOMAIN blockList' /\ blockList'[k] = blockList[k]
          BY <3>1, <4>1, <4>2, <4>3
        <5> QED BY <5>1
      <4>5. ASSUME NEW k \in DOMAIN succs
            PROVE  \E j \in DOMAIN blockList' : blockList'[j] = succs[k]
        <5>1. PICK j : j = Len(blockList) + k
          OBVIOUS
        <5>2. j \in DOMAIN blockList' /\ ~ j <= Len(blockList) /\ j - Len(blockList) = k
          BY <4>1, <4>3, <5>1
        <5>3. blockList'[j] = succs[k]
          BY <3>1, <4>2, <4>3, <5>2
        <5> QED BY <5>2, <5>3
      <4> QED BY <3>1, <4>2, <4>4, <4>5
    <3>4. \A q \in Blocks(f) : q # b /\ q \in Waiting => q \in Waiting'
      BY <1>1, <1>2, <3>3 DEF Waiting
    <3>5. \A k \in DOMAIN succs : succs[k] \in Waiting' /\ succs[k] \in Blocks(f)
      BY <1>2, <3>3 DEF Waiting
    <3>6. \A q \in Blocks(f) : inputs'[q] = inputs[q] \/ inputs'[q] = join(inputs[q], e)
      BY <3>1, <3>2
    <3>7. \A q \in Blocks(f) : q \notin Waiting' => inputs'[q] = inputs[q]
      BY <3>1, <3>2, <3>5
    <3>8. \A k \in DOMAIN succs : inputs'[succs[k]] = join(inputs[succs[k]], e)
      BY <3>1, <3>2, <3>5
    <3>9. IsFcn(inputs', Blocks(f)) /\ IsFcn(outputs', Blocks(f))
      BY <3>1, <3>2 DEF IsFcn
    <3>10. outputs'[b] = e /\ \A q \in Blocks(f) : q # b => outputs'[q] = outputs[q]
      BY <1>2, <3>1, <3>2
    <3>11. \A q \in Blocks(f) : Sub(inputs[q], inputs'[q])
      BY <3>6, JoinIsMore
    <3>12. \A k \in DOMAIN succs : Sub(e, inputs'[succs[k]])
      BY <3>8, JoinIsMore
    <3>13. seen \subseteq seen' /\ \A k \in DOMAIN succs : succs[k] \in seen' \cup Waiting'
      BY <3>1, <3>5
    <3> QED BY <3>1, <3>3, <3>4, <3>7, <3>9, <3>10, <3>11, <3>12, <3>13
  <2> QED BY <2>1, <2>2
<1>7. ASSUME NEW q \in seen' PROVE Settled(q)'
  <2>1. q \in Blocks(f)
    BY <1>1, <1>2, <1>6, <1>7 DEF WorkListOK
  <2>2. PICK D : /\ BlockRight(f, q, D) /\ Sub(EndOf(f, q, D), outputs'[q])
                 /\ q \notin Waiting' => Claimed(f, q, 1, inputs[q], D[1])
    <3>1. CASE q = b
      BY <1>3, <1>6, <3>1 DEF Sub
    <3>2. CASE q # b
      <4>1. PICK D : /\ BlockRight(f, q, D) /\ Sub(EndOf(f, q, D), outputs[q])
                     /\ q \notin Waiting => Claimed(f, q, 1, inputs[q], D[1])
        BY <1>1, <1>2, <1>6, <1>7, <3>2 DEF WorkListOK, Settled
      <4> QED BY <1>6, <2>1, <3>2, <4>1
    <3> QED BY <3>1, <3>2
  <2>3. PICK x : x = inputs[q]
    OBVIOUS
  <2>4. q \notin Waiting' => Claimed(f, q, 1, x, D[1])' /\ inputs'[q] = x
    BY <1>4, <1>6, <2>1, <2>2, <2>3
  <2>5. q \notin Waiting' => Claimed(f, q, 1, inputs[q], D[1])'
    BY <2>4 DEF Claimed
  <2>6. BlockRight(f, q, D)' /\ Sub(EndOf(f, q, D), outputs[q])'
    BY <1>4, <2>2 DEF Sub
  <2>7. fn' = f
    BY <1>1, <1>2
  <2> QED BY <2>5, <2>6, <2>7 DEF Settled
<1>8. WorkListOK'
  <2>1. ASSUME NEW k \in DOMAIN mod.funcs[f].starts
        PROVE  mod.funcs[f].starts[k] \in seen' \cup Waiting'
    <3>1. mod.funcs[f].starts[k] \in Blocks(f)
      BY <1>1, <1>2, ModuleFacts
    <3>2. mod.funcs[f].starts[k] \in seen \cup Waiting
      BY <1>1, <1>2 DEF WorkListOK
    <3> QED BY <1>6, <3>1, <3>2
  <2>2. ASSUME NEW q \in seen', NEW k \in DOMAIN Block(f, q).succs
        PROVE  /\ Block(f, q).succs[k] \in seen' \cup Waiting'
               /\ Sub(outputs'[q], inputs'[Block(f, q).succs[k]])
    <3>1. CASE q = b
      BY <1>1, <1>6, <2>2, <3>1
    <3>2. CASE q # b
      <4>1. q \in seen /\ q \in Blocks(f)
        BY <1>1, <1>2, <1>6, <3>2 DEF WorkListOK
      <4>2. PICK s : s = Block(f, q).succs[k]
        OBVIOUS
      <4>3. s \in Blocks(f)
        BY <1>1, <1>2, <4>1, <4>2, ModuleFacts
      <4>4. s \in seen \cup Waiting /\ Sub(outputs[q], inputs[s])
        BY <1>1, <1>2, <4>1, <4>2 DEF WorkListOK
      <4>5. outputs'[q] = outputs[q] /\ Sub(inputs[s], inputs'[s])
        BY <1>6, <3>2, <4>1, <4>3
      <4>6. s \in seen' \cup Waiting'
        BY <1>6, <4>3, <4>4
      <4> QED BY <4>2, <4>4, <4>5, <4>6 DEF Sub
    <3> QED BY <3>1, <3>2
  <2>3. seen' \subseteq Blocks(f) /\ cur' \in Blocks(f) \cup {0}
    BY <1>1, <1>2, <1>6 DEF WorkListOK
  <2>4. fn' = f /\ mod' = mod
    BY <1>1, <1>2
  <2> QED BY <1>5, <1>6, <1>7, <2>1, <2>2, <2>3, <2>4 DEF WorkListOK
<1>9. ScanOK'
  BY <1>2 DEF ScanOK
<1>10. fn' \in Funs'
  BY <1>2 DEF Funs
<1> QED BY <1>2, <1>8, <1>9, <1>10, EarlierFunctions DEF AnalysisOK

\* The work list is empty: the claims of the blocks are those of the function,
\* and what they leave at its returns is its info.
LEMMA NextFunctionKeeps == ASSUME IInv, NextFunction PROVE AnalysisOK'
<1>1. PICK f : f = fn
  OBVIOUS
<1>2. /\ f \in Funs /\ f \in Nat /\ mod \in Modules /\ cur = 0 /\ blockList = <<>>
      /\ AnalysisOK /\ WorkListOK
      /\ fn' = f + 1 /\ cur' = 0 /\ UNCHANGED <<mod, barriers>>
      /\ Funs = 1 .. Len(mod.funcs) /\ Len(mod.funcs) \in Nat /\ Funs' = Funs
      /\ 0 \notin Blocks(f)
  <2>1. /\ f \in Funs /\ mod \in Modules /\ cur = 0 /\ blockList = <<>>
        /\ AnalysisOK /\ WorkListOK
        /\ fn' = f + 1 /\ cur' = 0 /\ UNCHANGED <<mod, barriers>>
    BY <1>1 DEF NextFunction, IInv, AnalysisOK
  <2>2. Funs = 1 .. Len(mod.funcs) /\ Len(mod.funcs) \in Nat /\ Funs' = Funs
    BY <2>1, ModuleFacts DEF Funs
  <2>3. 0 \notin Blocks(f)
    BY <2>1, ModuleFacts
  <2> QED BY <2>1, <2>2, <2>3
<1>3. PICK rets : rets = {b \in seen : Block(f, b).ret}
  OBVIOUS
<1>4. funcInfo' = [funcInfo EXCEPT ![f] = [r |-> UNION {outputs[b].r : b \in rets},
                                          w |-> UNION {outputs[b].w : b \in rets}]]
  BY <1>1, <1>3 DEF NextFunction
<1>5. PICK fi : fi = funcInfo'[f]
  OBVIOUS
<1>6. \A b \in rets : Sub(outputs[b], fi)
  <2>1. DOMAIN funcInfo = Funs
    BY <1>2 DEF AnalysisOK, IsFcn
  <2>2. fi = [r |-> UNION {outputs[b].r : b \in rets}, w |-> UNION {outputs[b].w : b \in rets}]
    BY <1>2, <1>4, <1>5, <2>1
  <2> QED BY <2>2 DEF Sub
<1>7. Waiting = {0}
  BY <1>2 DEF Waiting
<1>8. seen \subseteq Blocks(f)
  BY <1>1, <1>2 DEF WorkListOK
<1>9. PICK c : c = [b \in seen |-> CHOOSE C : /\ BlockRight(f, b, C)
                                              /\ Sub(EndOf(f, b, C), outputs[b])
                                              /\ Claimed(f, b, 1, inputs[b], C[1])]
  OBVIOUS
<1>10. ASSUME NEW b \in seen
       PROVE  /\ BlockRight(f, b, c[b]) /\ Sub(EndOf(f, b, c[b]), outputs[b])
              /\ Claimed(f, b, 1, inputs[b], c[b][1])
  <2>1. \E C : /\ BlockRight(f, b, C) /\ Sub(EndOf(f, b, C), outputs[b])
               /\ Claimed(f, b, 1, inputs[b], C[1])
    BY <1>1, <1>2, <1>7, <1>8 DEF WorkListOK, Settled
  <2> QED BY <1>9, <2>1
<1>11. \A b : Block(f, b)' = Block(f, b)
  BY <1>2 DEF Block
<1>12. \E S, d : FunctionRight(f, S, d)'
  <2>0. PICK S : S = seen
    OBVIOUS
  <2>1. S \subseteq Blocks(f)' /\ \A k \in DOMAIN mod.funcs[f].starts : mod.funcs[f].starts[k] \in S
    <3>1. \A k \in DOMAIN mod.funcs[f].starts : mod.funcs[f].starts[k] \in Blocks(f)
      BY <1>2, ModuleFacts
    <3> QED BY <1>1, <1>2, <1>7, <1>8, <2>0, <3>1 DEF WorkListOK, Blocks
  <2>2. ASSUME NEW b \in S
        PROVE  /\ BlockRight(f, b, c[b])' /\ Sub(EndOf(f, b, c[b])', outputs[b])
    <3>1. BlockRight(f, b, c[b])' /\ Sub(EndOf(f, b, c[b])', EndOf(f, b, c[b]))
      BY <1>2, <1>10, <2>0, BlockStaysRight
    <3> QED BY <1>10, <2>0, <3>1 DEF Sub
  <2>3. ASSUME NEW b \in S, NEW k \in DOMAIN Block(f, b).succs, NEW s, s = Block(f, b).succs[k]
        PROVE  s \in S /\ Claimed(f, s, 1, EndOf(f, b, c[b]), c[s][1])'
    <3>1. s \in Blocks(f)
      BY <1>2, <1>8, <2>0, <2>3, ModuleFacts
    <3>2. s \in S /\ Sub(outputs[b], inputs[s])
      BY <1>1, <1>2, <1>7, <2>0, <2>3, <3>1 DEF WorkListOK
    <3>3. Claimed(f, s, 1, inputs[s], c[s][1])
      BY <1>10, <2>0, <3>2
    <3>4. PICK e : e = EndOf(f, b, c[b])'
      OBVIOUS
    <3>5. Claimed(f, s, 1, e, c[s][1])
      BY <2>2, <3>2, <3>3, <3>4 DEF Claimed, Sub
    <3>6. Claimed(f, s, 1, e, c[s][1])'
      BY <1>2, <3>5 DEF Claimed, Barrier
    <3> QED BY <3>2, <3>4, <3>6 DEF Claimed
  <2>4. ASSUME NEW b \in S, Block(f, b).ret PROVE Sub(EndOf(f, b, c[b])', fi)
    BY <1>3, <1>6, <2>0, <2>2, <2>4 DEF Sub
  <2>5. ASSUME NEW b \in S
        PROVE  /\ BlockRight(f, b, c[b])'
               /\ (\A k \in DOMAIN Block(f, b).succs :
                     LET s == Block(f, b).succs[k]
                     IN s \in S /\ Claimed(f, s, 1, EndOf(f, b, c[b]), c[s][1]))'
               /\ (Block(f, b).ret => Sub(EndOf(f, b, c[b]), funcInfo[f]))'
    <3>1. PICK B : B = Block(f, b)
      OBVIOUS
    <3>2. ASSUME NEW k \in DOMAIN B.succs
          PROVE  B.succs[k] \in S /\ Claimed(f, B.succs[k], 1, EndOf(f, b, c[b]), c[B.succs[k]][1])'
      <4>1. PICK s : s = B.succs[k]
        OBVIOUS
      <4>2. s \in S /\ Claimed(f, s, 1, EndOf(f, b, c[b]), c[s][1])'
        BY <2>3, <3>1, <4>1
      <4> QED BY <4>1, <4>2
    <3>3. Block(f, b)' = B
      BY <1>11, <3>1
    <3> QED BY <1>5, <2>2, <2>4, <3>1, <3>2, <3>3
  <2>6. FunctionRight(f, S, c)'
    BY <1>2, <2>1, <2>5 DEF FunctionRight
  <2> QED BY <2>6
<1>13. ASSUME NEW g \in Funs, g < f + 1 PROVE \E S, d : FunctionRight(g, S, d)'
  <2>1. CASE g = f
    BY <1>12, <2>1
  <2>2. CASE g # f
    <3>1. g < f
      BY <1>2, <1>13, <2>2
    <3>2. PICK S, d : FunctionRight(g, S, d)
      BY <1>1, <1>2, <3>1 DEF AnalysisOK
    <3>3. funcInfo'[g] = funcInfo[g]
      BY <1>2, <1>4, <2>2 DEF AnalysisOK, IsFcn
    <3>4. FunctionRight(g, S, d)'
      BY <1>2, <3>2, <3>3, FunctionStaysRight
    <3> QED BY <3>4
  <2> QED BY <2>1, <2>2
<1>14. IsFcn(funcInfo', Funs)
  BY <1>2, <1>4 DEF AnalysisOK, IsFcn
<1>15. fn' \in Funs' => WorkListOK' /\ ScanOK'
  <2> SUFFICES ASSUME f + 1 \in Funs PROVE WorkListOK' /\ ScanOK'
    BY <1>2
  <2>1. PICK g, F : g = f + 1 /\ F = mod.funcs[g]
    OBVIOUS
  <2>2. /\ blockList' = F.starts /\ inputs' = Empty(g) /\ outputs' = Empty(g) /\ seen' = {}
    BY <1>1, <2>1 DEF NextFunction
  <2>3. F.starts \in Seq(Blocks(g)) /\ fn' = g /\ Blocks(g)' = Blocks(g) /\ mod'.funcs[g] = F
    BY <1>2, <2>1, ModuleFacts DEF Blocks
  <2>4. IsFcn(Empty(g), Blocks(g))
    BY DEF IsFcn, Empty, Blocks
  <2>5. WorkListOK'
    BY <1>2, <2>2, <2>3, <2>4 DEF WorkListOK, Waiting
  <2>6. ScanOK'
    BY <1>2 DEF ScanOK
  <2> QED BY <2>5, <2>6
<1>16. fn' \in 1 .. Len(mod'.funcs) + 1 /\ mod' \in Modules
  BY <1>2
<1> QED BY <1>2, <1>13, <1>14, <1>15, <1>16 DEF AnalysisOK

-----------------------------------------------------------------------------
(* The run.                                                                *)

\* A run changes nothing of the analysis, whose claims stay right.
LEMMA RunKeepsAnalysis ==
  ASSUME IInv, Done, UNCHANGED <<mod, analysis>>
  PROVE  AnalysisOK' /\ Done' /\ Funs' = Funs /\ \A S, c : Right(S, c) => Right(S, c)'
<1>1. /\ UNCHANGED <<mod, fn, blockList, inputs, outputs, seen, cur, pos, info, barriers, funcInfo>>
      /\ AnalysisOK /\ fn \notin Funs /\ cur = 0
  BY DEF analysis, Done, IInv, AnalysisOK
<1>2. AnalysisOK'
  BY <1>1, EarlierFunctions DEF AnalysisOK, Funs
<1>3. Funs' = Funs /\ Done'
  BY <1>1 DEF Funs, Done
<1>4. ASSUME NEW S, NEW c, Right(S, c) PROVE Right(S, c)'
  <2>1. ASSUME NEW f \in Funs PROVE FunctionRight(f, S[f], c[f])'
    <3>1. FunctionRight(f, S[f], c[f])
      BY <1>4 DEF Right
    <3>2. PICK U, d : U = S[f] /\ d = c[f]
      OBVIOUS
    <3>3. FunctionRight(f, U, d)'
      BY <1>1, <3>1, <3>2, FunctionStaysRight
    <3> QED BY <3>2, <3>3
  <2> QED BY <1>3, <2>1 DEF Right
<1> QED BY <1>2, <1>3, <1>4

\* Where the run is, and what is claimed there.
LEMMA TopFacts ==
  ASSUME IInv, stack # <<>>
  PROVE  /\ Done /\ mod \in Modules /\ PendingOK
         /\ stack \in Seq(Frame) /\ Len(stack) \in Nat \ {0} /\ DOMAIN stack = 1 .. Len(stack)
         /\ Top = stack[Len(stack)] /\ Top \in Frame /\ Top.f \in Funs
         /\ Size(Top.f, Top.b) \in Nat /\ Ops(Top.f, Top.b) = 1 .. Size(Top.f, Top.b)
         /\ Top.b \in Blocks(Top.f) /\ Top.i \in 1 .. Size(Top.f, Top.b) + 1
         /\ \E S, c :
               /\ Right(S, c) /\ \A d \in 1 .. Len(stack) : FrameOK(d, S, c)
               /\ Top.b \in S[Top.f] /\ FunctionRight(Top.f, S[Top.f], c[Top.f])
               /\ BlockRight(Top.f, Top.b, c[Top.f][Top.b])
               /\ Claimed(Top.f, Top.b, Top.i, RelativeTo(Top, Own(Len(stack), pending)),
                          c[Top.f][Top.b][Top.i])
<1>1. /\ Done /\ mod \in Modules /\ PendingOK /\ stack \in Seq(Frame)
  BY DEF IInv, AnalysisOK, RunOK
<1>2. Len(stack) \in Nat \ {0} /\ DOMAIN stack = 1 .. Len(stack) /\ Top \in Frame
  BY <1>1, LenProperties, EmptySeq DEF Top
<1>3. PICK S, c : Right(S, c) /\ \A d \in 1 .. Len(stack) : FrameOK(d, S, c)
  BY DEF IInv, RunOK
<1>4. /\ Top.f \in Funs /\ Top.b \in S[Top.f] /\ Top.i \in 1 .. Size(Top.f, Top.b) + 1
      /\ Claimed(Top.f, Top.b, Top.i, RelativeTo(Top, Own(Len(stack), pending)),
                 c[Top.f][Top.b][Top.i])
  BY <1>2, <1>3 DEF FrameOK, Top
<1>5. /\ FunctionRight(Top.f, S[Top.f], c[Top.f]) /\ Top.b \in Blocks(Top.f)
      /\ BlockRight(Top.f, Top.b, c[Top.f][Top.b])
  BY <1>3, <1>4 DEF Right, FunctionRight
<1>6. Size(Top.f, Top.b) \in Nat /\ Ops(Top.f, Top.b) = 1 .. Size(Top.f, Top.b)
  BY <1>1, <1>4, <1>5, ModuleFacts
<1> QED BY <1>1, <1>2, <1>3, <1>4, <1>5, <1>6 DEF Top

\* Fewer accesses are fewer relative to the frame.
LEMMA FewerRelative ==
  ASSUME NEW s, NEW x, NEW y, Sub(x, y) PROVE Sub(RelativeTo(s, x), RelativeTo(s, y))
BY DEF Sub, RelativeTo, Relative

\* Behind an inserted barrier nothing of the frame is pending.
LEMMA PendingIsLeft ==
  /\ \A d : Sub(Own(d, Pending), Own(d, pending))
  /\ RelativeTo(Top, Own(Len(stack), Pending)) =
        Left(Top.f, Top.b, Top.i, RelativeTo(Top, Own(Len(stack), pending)))
<1>1. CASE Here \in barriers
  <2>1. Pending = Nothing /\ Barrier(Top.f, Top.b, Top.i)
    BY <1>1 DEF Pending, Here, Barrier
  <2>2. \A d : Own(d, Nothing) = Nothing
    BY DEF Own, Nothing
  <2>3. RelativeTo(Top, Nothing) = Nothing
    BY DEF RelativeTo, Relative, Nothing
  <2>4. \A d : Sub(Own(d, Pending), Own(d, pending))
    BY <2>1, <2>2 DEF Sub, Nothing
  <2> QED BY <2>1, <2>2, <2>3, <2>4 DEF Left
<1>2. CASE Here \notin barriers
  BY <1>2 DEF Pending, Here, Left, Barrier, Sub
<1> QED BY <1>1, <1>2

\* A frame below the top stays as it is while the run goes on above it.
LEMMA FrameStays ==
  ASSUME UNCHANGED <<mod, analysis>>, NEW S, NEW c, NEW d, FrameOK(d, S, c),
         d # Len(stack), d # Len(stack'), stack'[d] = stack[d],
         Sub(Own(d, pending'), Own(d, pending))
  PROVE  FrameOK(d, S, c)'
<1>1. PICK s, x, y : s = stack[d] /\ x = Own(d, pending') /\ y = Own(d, pending)
  OBVIOUS
<1>2. /\ s.f \in Funs /\ s.b \in S[s.f] /\ s.i \in 1 .. Size(s.f, s.b) + 1
      /\ s.i <= Size(s.f, s.b) /\ Op(s.f, s.b, s.i).kind = "call"
      /\ Sub(RelativeTo(s, y), Left(s.f, s.b, s.i, c[s.f][s.b][s.i]))
  BY <1>1 DEF FrameOK
<1>3. Sub(RelativeTo(s, x), Left(s.f, s.b, s.i, c[s.f][s.b][s.i]))
  BY <1>1, <1>2, FewerRelative DEF Sub
<1>4. /\ Funs' = Funs /\ Size(s.f, s.b)' = Size(s.f, s.b)
      /\ Op(s.f, s.b, s.i)' = Op(s.f, s.b, s.i)
      /\ \A z : Left(s.f, s.b, s.i, z)' = Left(s.f, s.b, s.i, z)
  BY DEF analysis, Funs, Size, Op, Block, Left, Barrier
<1>5. stack'[d] = s /\ Own(d, pending)' = x
  BY <1>1 DEF Own
<1> QED BY <1>2, <1>3, <1>4, <1>5 DEF FrameOK

\* The top frame moves to where what it has pending is claimed.
LEMMA TopMoves ==
  ASSUME IInv, stack # <<>>, UNCHANGED <<mod, analysis>>, NEW n, n = Len(stack),
         NEW t \in Frame, stack' = [stack EXCEPT ![n] = t], PendingOK',
         \A d \in 1 .. n - 1 : Sub(Own(d, pending'), Own(d, pending)),
         NEW S, NEW c, Right(S, c), \A d \in 1 .. n : FrameOK(d, S, c),
         t.f \in Funs, t.b \in S[t.f], t.i \in 1 .. Size(t.f, t.b) + 1,
         Claimed(t.f, t.b, t.i, RelativeTo(t, Own(n, pending')), c[t.f][t.b][t.i])
  PROVE  RunOK'
<1>1. Done /\ n \in Nat \ {0} /\ stack \in Seq(Frame)
  BY TopFacts
<1>2. stack' \in Seq(Frame) /\ Len(stack') = n /\ stack'[n] = t
      /\ \A d \in 1 .. n - 1 : stack'[d] = stack[d]
  BY <1>1, ExceptSeq
<1>3. stack' # <<>>
  BY <1>1, <1>2, EmptySeq
<1>4. Right(S, c)' /\ Done'
  BY <1>1, RunKeepsAnalysis
<1>5. ASSUME NEW d \in 1 .. n PROVE FrameOK(d, S, c)'
  <2>1. CASE d = n
    <3>1. PICK x : x = Own(n, pending')
      OBVIOUS
    <3>2. /\ Funs' = Funs /\ Size(t.f, t.b)' = Size(t.f, t.b)
          /\ \A z : Claimed(t.f, t.b, t.i, z, c[t.f][t.b][t.i])' =
                    Claimed(t.f, t.b, t.i, z, c[t.f][t.b][t.i])
      BY DEF analysis, Funs, Size, Block, Claimed, Barrier
    <3>3. Claimed(t.f, t.b, t.i, RelativeTo(t, x), c[t.f][t.b][t.i])'
      BY <3>1, <3>2
    <3>4. Own(d, pending)' = x /\ stack'[d] = t /\ d = Len(stack)'
      BY <1>2, <2>1, <3>1 DEF Own
    <3>5. t.f \in Funs' /\ t.b \in S[t.f] /\ t.i \in 1 .. Size(t.f, t.b)' + 1
      BY <3>2
    <3> QED BY <3>3, <3>4, <3>5 DEF FrameOK
  <2>2. CASE d # n
    <3>1. d \in 1 .. n - 1
      BY <1>1, <2>2
    <3> QED BY <1>2, <2>2, <3>1, FrameStays
  <2> QED BY <2>1, <2>2
<1> QED BY <1>2, <1>3, <1>4, <1>5 DEF RunOK

\* A frame one operation further.
LEMMA FrameAdvances ==
  ASSUME NEW s \in Frame
  PROVE  LET t == [s EXCEPT !.i = @ + 1]
         IN t \in Frame /\ t.f = s.f /\ t.b = s.b /\ t.i = s.i + 1 /\ t.base = s.base
<1>1. s.i \in Nat /\ s.i + 1 \in Nat
  BY DEF Frame
<1>2. PICK j : j = s.i + 1
  OBVIOUS
<1>3. PICK t : t = [s EXCEPT !.i = j]
  OBVIOUS
<1>4. t \in Frame /\ t.f = s.f /\ t.b = s.b /\ t.i = j /\ t.base = s.base
  BY <1>1, <1>2, <1>3 DEF Frame
<1> QED BY <1>2, <1>3, <1>4

\* The run passes an operation that is not a call, and leaves no more pending than
\* is accounted for.
LEMMA AdvanceKeeps ==
  ASSUME IInv, stack # <<>>, UNCHANGED <<mod, analysis>>, stack' = Advance(stack), PendingOK',
         Top.i <= Size(Top.f, Top.b), Op(Top.f, Top.b, Top.i).kind # "call",
         \A d \in 1 .. Len(stack) - 1 : Sub(Own(d, pending'), Own(d, pending)),
         Sub(RelativeTo(Top, Own(Len(stack), pending')),
             After(Top.f, Top.b, Top.i, RelativeTo(Top, Own(Len(stack), Pending))))
  PROVE  RunOK'
<1>1. PICK n, s, f, b, i : n = Len(stack) /\ s = Top /\ f = s.f /\ b = s.b /\ i = s.i
  OBVIOUS
<1>2. PICK S, c : /\ Right(S, c) /\ \A d \in 1 .. n : FrameOK(d, S, c)
                  /\ b \in S[f] /\ BlockRight(f, b, c[f][b])
                  /\ Claimed(f, b, i, RelativeTo(s, Own(n, pending)), c[f][b][i])
  BY <1>1, TopFacts
<1>3. /\ n \in Nat \ {0} /\ s \in Frame /\ f \in Funs /\ Size(f, b) \in Nat
      /\ Ops(f, b) = 1 .. Size(f, b) /\ i \in Ops(f, b) /\ s = stack[n] /\ DOMAIN stack = 1 .. n
  BY <1>1, TopFacts
<1>4. PICK t : t = [s EXCEPT !.i = i + 1]
  OBVIOUS
<1>5. t \in Frame /\ t.f = f /\ t.b = b /\ t.i = i + 1 /\ t.base = s.base
  BY <1>1, <1>3, <1>4, FrameAdvances
<1>6. stack' = [stack EXCEPT ![n] = t]
  BY <1>1, <1>3, <1>4 DEF Advance
<1>7. PICK x, y : x = Own(n, pending') /\ y = RelativeTo(s, Own(n, Pending))
  OBVIOUS
<1>8. Claimed(f, b, i + 1, RelativeTo(t, x), c[f][b][i + 1])
  <2>1. OpRight(f, b, c[f][b], i)
    BY <1>2, <1>3 DEF BlockRight
  <2>2. Sub(y, Left(f, b, i, c[f][b][i]))
    BY <1>1, <1>2, <1>7, LeftOfClaimed, PendingIsLeft
  <2>3. Sub(After(f, b, i, y), After(f, b, i, Left(f, b, i, c[f][b][i])))
    BY <2>2, FewerAfter
  <2>4. Sub(RelativeTo(s, x), After(f, b, i, y))
    BY <1>1, <1>7
  <2>5. RelativeTo(t, x) = RelativeTo(s, x)
    BY <1>5 DEF RelativeTo
  <2> QED BY <2>1, <2>3, <2>4, <2>5 DEF OpRight, Claimed, Sub
<1>9. t.i \in 1 .. Size(t.f, t.b) + 1
  BY <1>3, <1>5
<1>10. \A d \in 1 .. n - 1 : Sub(Own(d, pending'), Own(d, pending))
  BY <1>1
<1>11. Claimed(t.f, t.b, t.i, RelativeTo(t, Own(n, pending')), c[t.f][t.b][t.i])
  BY <1>5, <1>7, <1>8
<1>12. t.f \in Funs /\ t.b \in S[t.f]
  BY <1>2, <1>3, <1>5
<1> QED BY <1>1, <1>2, <1>5, <1>6, <1>9, <1>10, <1>11, <1>12, TopMoves

\* What an operation accesses is intervals of addresses.
LEMMA EffectsAreAccesses ==
  ASSUME NEW f, NEW b, NEW i, MaxAddr \in Nat, Op(f, b, i) \in Operation
  PROVE  \A a \in Effects(f, b, i).r \cup Effects(f, b, i).w :
            /\ a = <<a[1], a[2]>> /\ a[1] = <<a[1][1], a[1][2]>>
            /\ a[1][1] \in Nat /\ a[1][2] \in Nat
<1> DEFINE op == Op(f, b, i)
<1> SUFFICES ASSUME NEW a \in Effects(f, b, i).r \cup Effects(f, b, i).w
             PROVE  /\ a = <<a[1], a[2]>> /\ a[1] = <<a[1][1], a[1][2]>>
                    /\ a[1][1] \in Nat /\ a[1][2] \in Nat
  OBVIOUS
<1>1. PICK v \in op.reads \cup op.writes \cup {All} : a = <<v, <<f, b, i>>>>
  BY DEF Effects, By
<1>2. op.reads \subseteq Intervals /\ op.writes \subseteq Intervals
  BY DEF Operation
<1>3. v = <<v[1], v[2]>> /\ v[1] \in Nat /\ v[2] \in Nat
  <2>1. CASE v = All
    BY <2>1 DEF All
  <2>2. CASE v # All
    BY <1>1, <1>2, <2>2 DEF Intervals
  <2> QED BY <2>1, <2>2
<1> QED BY <1>1, <1>3

\* A frame that makes accesses makes them relative to its base.
LEMMA RelativeOfAbsolute ==
  ASSUME NEW A, Top.base \in Nat, Len(stack) \in Nat,
         \A a \in A : /\ a = <<a[1], a[2]>> /\ a[1] = <<a[1][1], a[1][2]>>
                      /\ a[1][1] \in Nat /\ a[1][2] \in Nat
  PROVE  /\ Relative(Absolute(A), Top.base) \subseteq A
         /\ \A x \in Absolute(A) : IsAccess(x, Len(stack)) /\ x[3] = Len(stack)
<1> DEFINE base == Top.base
           n == Len(stack)
<1>1. ASSUME NEW x \in Absolute(A)
      PROVE  /\ IsAccess(x, n) /\ x[3] = n
             /\ <<<<x[1][1] - base, x[1][2] - base>>, x[2]>> \in A
  <2>1. PICK a \in A : x = << <<a[1][1] + base, a[1][2] + base>>, a[2], n>>
    BY DEF Absolute
  <2>2. PICK u, v : u = a[1][1] /\ v = a[1][2]
    OBVIOUS
  <2>3. u \in Nat /\ v \in Nat /\ a = <<<<u, v>>, a[2]>>
    BY <2>2
  <2>4. (u + base) - base = u /\ (v + base) - base = v
    BY <2>3
  <2>5. x[1][1] = u + base /\ x[1][2] = v + base /\ x[2] = a[2] /\ x[3] = n
    BY <2>1, <2>2
  <2>6. <<<<x[1][1] - base, x[1][2] - base>>, x[2]>> = a
    BY <2>3, <2>4, <2>5
  <2>7. IsAccess(x, n)
    BY <2>1, <2>3, <2>5 DEF IsAccess
  <2> QED BY <2>5, <2>6, <2>7
<1> QED BY <1>1 DEF Relative

\* What the operation at hand accesses, as it is pending.
LEMMA AccessedFacts ==
  ASSUME IInv, stack # <<>>, Top.i <= Size(Top.f, Top.b)
  PROVE  /\ Op(Top.f, Top.b, Top.i) \in Operation
         /\ LET e == Effects(Top.f, Top.b, Top.i)
            IN /\ Sub(RelativeTo(Top, Accessed(e)), e)
               /\ \A x \in Accessed(e).r \cup Accessed(e).w :
                     IsAccess(x, Len(stack)) /\ x[3] = Len(stack)
<1>1. PICK e : e = Effects(Top.f, Top.b, Top.i)
  OBVIOUS
<1>2. /\ Op(Top.f, Top.b, Top.i) \in Operation /\ MaxAddr \in Nat
      /\ Top.base \in Nat /\ Len(stack) \in Nat
  <2>1. /\ mod \in Modules /\ Top \in Frame /\ Top.f \in Funs /\ Top.b \in Blocks(Top.f)
        /\ Len(stack) \in Nat /\ Top.i \in Ops(Top.f, Top.b)
    <3>1. /\ mod \in Modules /\ Top \in Frame /\ Top.f \in Funs /\ Top.b \in Blocks(Top.f)
          /\ Len(stack) \in Nat \ {0} /\ Size(Top.f, Top.b) \in Nat
          /\ Ops(Top.f, Top.b) = 1 .. Size(Top.f, Top.b)
          /\ Top.i \in 1 .. Size(Top.f, Top.b) + 1
      BY TopFacts
    <3> QED BY <3>1
  <2>2. Op(Top.f, Top.b, Top.i) \in Operation /\ MaxAddr \in Nat
    BY <2>1, ModuleFacts
  <2>3. Top.base \in Nat
    BY <2>1 DEF Frame
  <2> QED BY <2>1, <2>2, <2>3
<1>3. \A a \in e.r \cup e.w : /\ a = <<a[1], a[2]>> /\ a[1] = <<a[1][1], a[1][2]>>
                              /\ a[1][1] \in Nat /\ a[1][2] \in Nat
  BY <1>1, <1>2, EffectsAreAccesses
<1>4. /\ Relative(Absolute(e.r), Top.base) \subseteq e.r
      /\ \A x \in Absolute(e.r) : IsAccess(x, Len(stack)) /\ x[3] = Len(stack)
  BY <1>2, <1>3, RelativeOfAbsolute
<1>5. /\ Relative(Absolute(e.w), Top.base) \subseteq e.w
      /\ \A x \in Absolute(e.w) : IsAccess(x, Len(stack)) /\ x[3] = Len(stack)
  BY <1>2, <1>3, RelativeOfAbsolute
<1>6. Sub(RelativeTo(Top, Accessed(e)), e)
  BY <1>4, <1>5 DEF Sub, RelativeTo, Accessed
<1>7. \A x \in Accessed(e).r \cup Accessed(e).w : IsAccess(x, Len(stack)) /\ x[3] = Len(stack)
  BY <1>4, <1>5 DEF Accessed
<1> QED BY <1>1, <1>2, <1>6, <1>7

\* The accesses that are left are accesses.
LEMMA PendingFacts ==
  ASSUME PendingOK
  PROVE  /\ Pending = [r |-> Pending.r, w |-> Pending.w]
         /\ Sub(Pending, pending) /\ Sub(Leaving, Pending)
         /\ Leaving = [r |-> Leaving.r, w |-> Leaving.w]
         /\ \A a \in Pending.r \cup Pending.w : IsAccess(a, Len(stack))
BY DEF PendingOK, Pending, Leaving, Nothing, Sub

\* A step of the run that passes an operation within a function: pending is a part
\* of what was pending, and what the operation accesses.
LEMMA PassKeeps ==
  ASSUME IInv, stack # <<>>, UNCHANGED <<mod, analysis>>, stack' = Advance(stack),
         Top.i <= Size(Top.f, Top.b), Op(Top.f, Top.b, Top.i).kind # "call",
         NEW x, NEW y, pending' = [r |-> x.r \cup y.r, w |-> x.w \cup y.w],
         Sub(x, Pending), Sub(y, Accessed(Effects(Top.f, Top.b, Top.i))),
         Sub(join(RelativeTo(Top, Own(Len(stack), x)),
                  IF y = Nothing THEN Nothing ELSE Effects(Top.f, Top.b, Top.i)),
             After(Top.f, Top.b, Top.i, RelativeTo(Top, Own(Len(stack), Pending))))
  PROVE  RunOK'
<1>1. PICK n, e, a : /\ n = Len(stack) /\ e = Effects(Top.f, Top.b, Top.i) /\ a = Accessed(e)
  OBVIOUS
<1>2. PendingOK /\ n \in Nat \ {0} /\ stack \in Seq(Frame)
  BY <1>1, TopFacts
<1>3. /\ Sub(RelativeTo(Top, a), e)
      /\ \A z \in a.r \cup a.w : IsAccess(z, n) /\ z[3] = n
  BY <1>1, AccessedFacts
<1>4. Len(stack') = n
  <2>1. stack' = [stack EXCEPT ![n] = [Top EXCEPT !.i = @ + 1]]
    BY <1>1, TopFacts DEF Advance
  <2>2. [Top EXCEPT !.i = @ + 1] \in Frame
    BY TopFacts, FrameAdvances
  <2> QED BY <1>1, <1>2, <2>1, <2>2, ExceptSeq
<1>5. PendingOK'
  <2>1. \A z \in pending'.r \cup pending'.w : IsAccess(z, n)
    BY <1>1, <1>2, <1>3, PendingFacts DEF Sub
  <2>2. \A z : IsAccess(z, n)' = IsAccess(z, n)
    BY DEF IsAccess
  <2> QED BY <1>4, <2>1, <2>2 DEF PendingOK
<1>6. ASSUME NEW d \in 1 .. n - 1 PROVE Sub(Own(d, pending'), Own(d, pending))
  <2>1. d # n
    BY <1>2
  <2>2. \A z \in y.r \cup y.w : z[3] # d
    BY <1>1, <1>3, <2>1 DEF Sub
  <2>3. Sub(Pending, pending)
    BY <1>2, PendingFacts
  <2> QED BY <2>2, <2>3 DEF Own, Sub
<1>7. Sub(RelativeTo(Top, Own(n, pending')),
          After(Top.f, Top.b, Top.i, RelativeTo(Top, Own(n, Pending))))
  <2>1. PICK u, v, w, z : /\ u = RelativeTo(Top, Own(n, pending')) /\ v = RelativeTo(Top, Own(n, x))
                          /\ w = RelativeTo(Top, Own(n, y))
                          /\ z = IF y = Nothing THEN Nothing ELSE e
    OBVIOUS
  <2>2. Sub(u, join(v, w))
    BY <2>1 DEF RelativeTo, Relative, Own, Sub, join
  <2>3. Sub(w, z)
    <3>1. CASE y = Nothing
      BY <2>1, <3>1 DEF RelativeTo, Relative, Own, Sub, Nothing
    <3>2. CASE y # Nothing
      <4>1. Sub(Own(n, y), a)
        BY <1>1 DEF Own, Sub
      <4>2. Sub(w, RelativeTo(Top, a))
        BY <2>1, <4>1, FewerRelative
      <4> QED BY <1>3, <2>1, <3>2, <4>2 DEF Sub
    <3> QED BY <3>1, <3>2
  <2>4. Sub(u, join(v, z))
    BY <2>2, <2>3 DEF Sub, join
  <2> QED BY <1>1, <2>1, <2>4 DEF Sub
<1> QED BY <1>1, <1>5, <1>6, <1>7, AdvanceKeeps

\* What the steps of the run within a function have in common.
LEMMA RunAtOp ==
  ASSUME IInv, NEW K, Run(K)
  PROVE  /\ stack # <<>> /\ Done /\ UNCHANGED <<mod, analysis>> /\ PendingOK
         /\ Top.i <= Size(Top.f, Top.b) /\ Op(Top.f, Top.b, Top.i).kind \in K
<1>1. stack # <<>> /\ ~ AtEnd /\ Op(Top.f, Top.b, Top.i).kind \in K
      /\ Done /\ UNCHANGED <<mod, analysis>>
  BY DEF Run, AtOp
<1>2. Size(Top.f, Top.b) \in Nat /\ Top.i \in 1 .. Size(Top.f, Top.b) + 1 /\ PendingOK
  BY <1>1, TopFacts
<1> QED BY <1>1, <1>2 DEF AtEnd, Size

LEMMA RunMemoryKeeps == ASSUME IInv, RunMemory PROVE RunOK'
<1>1. /\ stack # <<>> /\ UNCHANGED <<mod, analysis>> /\ PendingOK
      /\ Top.i <= Size(Top.f, Top.b) /\ Op(Top.f, Top.b, Top.i).kind = "memory"
      /\ stack' = Advance(stack)
  BY RunAtOp DEF RunMemory
<1>2. PICK x, y : x = Pending /\ y = Accessed(Effects(Top.f, Top.b, Top.i))
  OBVIOUS
<1>3. pending' = [r |-> x.r \cup y.r, w |-> x.w \cup y.w]
  BY <1>2 DEF RunMemory, join
<1>4. Sub(join(RelativeTo(Top, Own(Len(stack), x)),
               IF y = Nothing THEN Nothing ELSE Effects(Top.f, Top.b, Top.i)),
          After(Top.f, Top.b, Top.i, RelativeTo(Top, Own(Len(stack), Pending))))
  BY <1>1, <1>2 DEF After, join, Sub, Nothing
<1> QED BY <1>1, <1>2, <1>3, <1>4, PassKeeps DEF Sub

LEMMA RunSignalKeeps == ASSUME IInv, RunSignal PROVE RunOK'
<1>1. /\ stack # <<>> /\ UNCHANGED <<mod, analysis>> /\ PendingOK
      /\ Top.i <= Size(Top.f, Top.b) /\ Op(Top.f, Top.b, Top.i).kind \in {"wait", "arrive"}
      /\ stack' = Advance(stack) /\ pending' = Pending
  BY RunAtOp DEF RunSignal
<1>2. PICK x, y : x = Pending /\ y = Nothing
  OBVIOUS
<1>3. pending' = [r |-> x.r \cup y.r, w |-> x.w \cup y.w]
  BY <1>1, <1>2, PendingFacts DEF Nothing
<1>4. Sub(y, Accessed(Effects(Top.f, Top.b, Top.i))) /\ Sub(x, Pending)
  BY <1>2 DEF Sub, Nothing
<1>5. Sub(join(RelativeTo(Top, Own(Len(stack), x)),
               IF y = Nothing THEN Nothing ELSE Effects(Top.f, Top.b, Top.i)),
          After(Top.f, Top.b, Top.i, RelativeTo(Top, Own(Len(stack), Pending))))
  <2>1. PICK u : u = RelativeTo(Top, Own(Len(stack), x))
    OBVIOUS
  <2>2. Sub(join(u, Nothing), After(Top.f, Top.b, Top.i, u))
    BY <1>1 DEF After, join, Sub, Nothing
  <2> QED BY <1>2, <2>1, <2>2
<1> QED BY <1>1, <1>3, <1>4, <1>5, PassKeeps

LEMMA RunBarrierKeeps == ASSUME IInv, RunBarrier PROVE RunOK'
<1>1. /\ stack # <<>> /\ UNCHANGED <<mod, analysis>> /\ PendingOK
      /\ Top.i <= Size(Top.f, Top.b) /\ Op(Top.f, Top.b, Top.i).kind = "barrier"
      /\ stack' = Advance(stack) /\ pending' = Nothing
  BY RunAtOp DEF RunBarrier
<1>2. PICK x, y : x = Nothing /\ y = Nothing
  OBVIOUS
<1>3. pending' = [r |-> x.r \cup y.r, w |-> x.w \cup y.w]
  BY <1>1, <1>2 DEF Nothing
<1>4. Sub(y, Accessed(Effects(Top.f, Top.b, Top.i))) /\ Sub(x, Pending)
  BY <1>2 DEF Sub, Nothing
<1>5. Sub(join(RelativeTo(Top, Own(Len(stack), x)),
               IF y = Nothing THEN Nothing ELSE Effects(Top.f, Top.b, Top.i)),
          After(Top.f, Top.b, Top.i, RelativeTo(Top, Own(Len(stack), Pending))))
  <2>1. RelativeTo(Top, Own(Len(stack), Nothing)) = Nothing
    BY DEF RelativeTo, Relative, Own, Nothing
  <2> QED BY <1>2, <2>1 DEF join, Sub, Nothing
<1> QED BY <1>1, <1>3, <1>4, <1>5, PassKeeps

LEMMA RunScratchKeeps == ASSUME IInv, RunScratch PROVE RunOK'
<1>1. /\ stack # <<>> /\ UNCHANGED <<mod, analysis>> /\ PendingOK
      /\ Top.i <= Size(Top.f, Top.b) /\ Op(Top.f, Top.b, Top.i).kind = "scratch"
      /\ stack' = Advance(stack)
  BY RunAtOp DEF RunScratch
<1>2. PICK x, e, y : /\ x = Nothing /\ e = Effects(Top.f, Top.b, Top.i)
                     /\ y = [Accessed(e) EXCEPT !.w = {}]
  OBVIOUS
<1>3. y = [r |-> Accessed(e).r, w |-> {}]
  BY <1>2 DEF Accessed
<1>4. pending' = [r |-> x.r \cup y.r, w |-> x.w \cup y.w]
  BY <1>2, <1>3 DEF RunScratch, Nothing
<1>5. Sub(y, Accessed(Effects(Top.f, Top.b, Top.i))) /\ Sub(x, Pending)
  BY <1>2, <1>3 DEF Sub, Nothing
<1>6. Sub(join(RelativeTo(Top, Own(Len(stack), x)),
               IF y = Nothing THEN Nothing ELSE Effects(Top.f, Top.b, Top.i)),
          After(Top.f, Top.b, Top.i, RelativeTo(Top, Own(Len(stack), Pending))))
  <2>1. RelativeTo(Top, Own(Len(stack), Nothing)) = Nothing
    BY DEF RelativeTo, Relative, Own, Nothing
  <2>2. After(Top.f, Top.b, Top.i, RelativeTo(Top, Own(Len(stack), Pending))) = e
    BY <1>1, <1>2 DEF After
  <2> QED BY <1>2, <2>1, <2>2 DEF join, Sub, Nothing
<1> QED BY <1>1, <1>4, <1>5, <1>6, PassKeeps

\* A call: the callee begins with nothing of its own pending, and the caller waits
\* for it where its accesses are claimed.
LEMMA RunCallKeeps == ASSUME IInv, RunCall PROVE RunOK'
<1>1. /\ stack # <<>> /\ Done /\ UNCHANGED <<mod, analysis>> /\ PendingOK
      /\ Top.i <= Size(Top.f, Top.b) /\ Op(Top.f, Top.b, Top.i).kind = "call"
      /\ pending' = Pending
  BY RunAtOp DEF RunCall
<1>2. PICK n, s, f, b, i, op : /\ n = Len(stack) /\ s = Top /\ f = s.f /\ b = s.b /\ i = s.i
                               /\ op = Op(f, b, i)
  OBVIOUS
<1>3. PICK S, c : /\ Right(S, c) /\ \A d \in 1 .. n : FrameOK(d, S, c)
                  /\ Claimed(f, b, i, RelativeTo(s, Own(n, pending)), c[f][b][i])
  BY <1>1, <1>2, TopFacts
<1>4. /\ n \in Nat \ {0} /\ s \in Frame /\ f \in Funs /\ Size(f, b) \in Nat /\ stack \in Seq(Frame)
      /\ i \in Ops(f, b) /\ s = stack[n] /\ mod \in Modules /\ b \in Blocks(f)
  BY <1>1, <1>2, TopFacts
<1>5. /\ op.callee \in Funs /\ op.base \in Nat
      /\ mod.funcs[op.callee].starts \in Seq(Blocks(op.callee))
      /\ mod.funcs[op.callee].starts # <<>> /\ op.callee \in Nat
  <2>1. op \in Operation /\ op.callee \in 1 .. f - 1 /\ f \in 1 .. Len(mod.funcs)
    BY <1>1, <1>2, <1>4, ModuleFacts
  <2>2. op.callee \in Funs /\ op.base \in Nat
    BY <1>4, <2>1, ModuleFacts DEF Operation
  <2> QED BY <1>4, <2>1, <2>2, ModuleFacts
<1>6. PICK g, q : g = op.callee /\ q = mod.funcs[g].starts[1]
  OBVIOUS
<1>7. q \in S[g] /\ q \in Nat /\ Size(g, q) \in Nat
  <2>1. 1 \in DOMAIN mod.funcs[g].starts
    BY <1>5, <1>6, LenProperties, EmptySeq
  <2>2. q \in S[g] /\ q \in Blocks(g)
    BY <1>3, <1>5, <1>6, <2>1 DEF Right, FunctionRight
  <2>3. g \in Funs /\ mod \in Modules
    BY <1>4, <1>5, <1>6
  <2>4. Blocks(g) = 1 .. Len(mod.funcs[g].blocks) /\ Len(mod.funcs[g].blocks) \in Nat
    BY <2>3, ModuleFacts
  <2>5. Size(g, q) \in Nat
    BY <2>2, <2>3, ModuleFacts
  <2>6. q \in Nat
    BY <2>2, <2>4
  <2> QED BY <2>2, <2>5, <2>6
<1>8. PICK t : t = [f |-> g, b |-> q, i |-> 1, base |-> s.base + op.base]
  OBVIOUS
<1>9. t \in Frame
  <2>1. s.base \in Nat
    BY <1>4 DEF Frame
  <2>2. s.base + op.base \in Nat
    BY <1>5, <2>1
  <2>3. g \in Nat /\ q \in Nat /\ 1 \in Nat
    BY <1>5, <1>6, <1>7
  <2> QED BY <1>8, <2>2, <2>3 DEF Frame
<1>10. stack' = Append(stack, t)
  BY <1>2, <1>6, <1>8 DEF RunCall
<1>11. /\ stack' \in Seq(Frame) /\ Len(stack') = n + 1 /\ stack'[n + 1] = t /\ stack' # <<>>
       /\ \A d \in 1 .. n : stack'[d] = stack[d]
  BY <1>2, <1>4, <1>9, <1>10, AppendProperties
<1>12. PendingOK'
  <2>1. \A a \in pending'.r \cup pending'.w : IsAccess(a, n)
    BY <1>1, <1>2, PendingFacts
  <2>2. \A a : IsAccess(a, n) => IsAccess(a, n + 1)
    BY <1>4 DEF IsAccess
  <2>3. pending' = [r |-> pending'.r, w |-> pending'.w]
    BY <1>1, PendingFacts
  <2>4. \A a \in pending'.r \cup pending'.w : IsAccess(a, Len(stack'))
    BY <1>11, <2>1, <2>2
  <2> QED BY <2>3, <2>4 DEF PendingOK, IsAccess
<1>13. Right(S, c)' /\ Done'
  BY <1>1, <1>3, RunKeepsAnalysis
<1>14. /\ Funs' = Funs /\ \A h, z : Size(h, z)' = Size(h, z)
       /\ \A h, z, j : Op(h, z, j)' = Op(h, z, j)
       /\ \A h, z, j, u, v : Left(h, z, j, u)' = Left(h, z, j, u)
                             /\ Claimed(h, z, j, u, v)' = Claimed(h, z, j, u, v)
  BY <1>1 DEF analysis, Funs, Size, Op, Block, Left, Claimed, Barrier
<1>15. ASSUME NEW d \in 1 .. n + 1 PROVE FrameOK(d, S, c)'
  <2>1. CASE d = n + 1
    <3>1. PICK x : x = Own(n + 1, pending')
      OBVIOUS
    <3>2. x = Nothing
      <4>1. \A a \in Pending.r \cup Pending.w : a[3] \in 0 .. n
        BY <1>1, <1>2, PendingFacts DEF IsAccess
      <4>2. \A a \in Pending.r \cup Pending.w : a[3] # n + 1
        BY <1>4, <4>1
      <4> QED BY <1>1, <3>1, <4>2 DEF Own, Nothing
    <3>3. Sub(RelativeTo(t, x), c[g][q][1])
      BY <3>2 DEF RelativeTo, Relative, Nothing, Sub
    <3>4. Claimed(g, q, 1, RelativeTo(t, x), c[g][q][1])'
      BY <3>3 DEF Claimed
    <3>5. /\ Own(d, pending)' = x /\ stack'[d] = t /\ d = Len(stack)'
          /\ t.f = g /\ t.b = q /\ t.i = 1
      BY <1>8, <1>11, <2>1, <3>1 DEF Own
    <3>6. 1 \in 1 .. Size(g, q) + 1 /\ g \in Funs'
      BY <1>5, <1>6, <1>7, <1>14
    <3> QED BY <1>7, <1>14, <3>4, <3>5, <3>6 DEF FrameOK
  <2>2. CASE d = n
    <3>1. PICK x : x = Own(n, pending')
      OBVIOUS
    <3>2. RelativeTo(s, x) = Left(f, b, i, RelativeTo(s, Own(n, pending)))
      BY <1>1, <1>2, <3>1, PendingIsLeft
    <3>3. Sub(RelativeTo(s, x), Left(f, b, i, c[f][b][i]))
      BY <1>3, <3>2, LeftOfClaimed
    <3>4. /\ Own(d, pending)' = x /\ stack'[d] = s /\ d # Len(stack)'
      BY <1>4, <1>11, <2>2, <3>1 DEF Own
    <3>5. s.f \in Funs /\ s.b \in S[s.f] /\ s.i \in 1 .. Size(s.f, s.b) + 1
      <4>1. FrameOK(n, S, c)
        BY <1>1, <1>2, <1>3, <1>4
      <4>2. stack[n] = s
        BY <1>2, <1>4
      <4> QED BY <4>1, <4>2 DEF FrameOK
    <3> QED BY <1>1, <1>2, <1>14, <3>3, <3>4, <3>5 DEF FrameOK
  <2>3. CASE d # n + 1 /\ d # n
    <3>1. d \in 1 .. n /\ d # n /\ d # n + 1
      BY <1>4, <2>3
    <3>2. Sub(Own(d, pending'), Own(d, pending))
      BY <1>1, PendingIsLeft
    <3> QED BY <1>1, <1>2, <1>3, <1>11, <3>1, <3>2, FrameStays
  <2> QED BY <2>1, <2>2, <2>3
<1> QED BY <1>11, <1>12, <1>13, <1>15 DEF RunOK

\* A branch: what is left at the end of the block is claimed where it leads.
LEMMA RunBranchKeeps == ASSUME IInv, RunBranch PROVE RunOK'
<1>1. stack # <<>> /\ Done /\ UNCHANGED <<mod, analysis>> /\ AtEnd /\ pending' = Leaving
  BY DEF RunBranch
<1>2. PICK n, s, f, b, i : n = Len(stack) /\ s = Top /\ f = s.f /\ b = s.b /\ i = s.i
  OBVIOUS
<1>3. PICK S, c : /\ Right(S, c) /\ \A d \in 1 .. n : FrameOK(d, S, c)
                  /\ b \in S[f] /\ FunctionRight(f, S[f], c[f])
                  /\ Claimed(f, b, i, RelativeTo(s, Own(n, pending)), c[f][b][i])
  BY <1>1, <1>2, TopFacts
<1>4. /\ n \in Nat \ {0} /\ s \in Frame /\ f \in Funs /\ Size(f, b) \in Nat /\ stack \in Seq(Frame)
      /\ i \in 1 .. Size(f, b) + 1 /\ s = stack[n] /\ mod \in Modules /\ b \in Blocks(f)
      /\ DOMAIN stack = 1 .. n /\ PendingOK
  BY <1>1, <1>2, TopFacts
<1>5. i = Size(f, b) + 1
  BY <1>1, <1>2, <1>4 DEF AtEnd, Size
<1>6. PICK k \in DOMAIN Block(f, b).succs :
         stack' = [stack EXCEPT ![n].b = Block(f, b).succs[k], ![n].i = 1]
  BY <1>2 DEF RunBranch
<1>7. PICK q : q = Block(f, b).succs[k]
  OBVIOUS
<1>8. PICK t : t = [s EXCEPT !.b = q, !.i = 1]
  OBVIOUS
<1>9. stack' = [stack EXCEPT ![n] = t]
  BY <1>4, <1>6, <1>7, <1>8
<1>10. /\ q \in S[f] /\ Claimed(f, q, 1, EndOf(f, b, c[f][b]), c[f][q][1])
       /\ q \in Nat /\ Size(f, q) \in Nat
  <2>1. q \in S[f] /\ Claimed(f, q, 1, EndOf(f, b, c[f][b]), c[f][q][1]) /\ q \in Blocks(f)
    BY <1>3, <1>7 DEF FunctionRight
  <2>2. /\ Size(f, q) \in Nat
        /\ Blocks(f) = 1 .. Len(mod.funcs[f].blocks) /\ Len(mod.funcs[f].blocks) \in Nat
    BY <1>4, <2>1, ModuleFacts
  <2> QED BY <2>1, <2>2
<1>11. t \in Frame /\ t.f = f /\ t.b = q /\ t.i = 1 /\ t.base = s.base
  BY <1>2, <1>4, <1>8, <1>10 DEF Frame
<1>12. PICK x : x = Own(n, pending')
  OBVIOUS
<1>13. Sub(RelativeTo(s, x), EndOf(f, b, c[f][b]))
  <2>1. Sub(Leaving, Pending)
    BY <1>4, PendingFacts
  <2>2. Sub(x, Own(n, Pending))
    BY <1>1, <1>12, <2>1 DEF Own, Sub
  <2>3. Sub(RelativeTo(s, x), RelativeTo(s, Own(n, Pending)))
    BY <2>2, FewerRelative
  <2>4. RelativeTo(s, Own(n, Pending)) = Left(f, b, i, RelativeTo(s, Own(n, pending)))
    BY <1>2, PendingIsLeft
  <2>5. Sub(RelativeTo(s, Own(n, Pending)), Left(f, b, i, c[f][b][i]))
    BY <1>3, <2>4, LeftOfClaimed
  <2> QED BY <1>5, <2>3, <2>5 DEF EndOf, Sub
<1>14. Claimed(t.f, t.b, t.i, RelativeTo(t, Own(n, pending')), c[t.f][t.b][t.i])
  <2>1. RelativeTo(t, x) = RelativeTo(s, x)
    BY <1>11 DEF RelativeTo
  <2>2. Claimed(f, q, 1, RelativeTo(s, x), c[f][q][1])
    BY <1>10, <1>13 DEF Claimed, Sub
  <2> QED BY <1>11, <1>12, <2>1, <2>2
<1>15. PendingOK'
  <2>1. Len(stack') = n
    BY <1>2, <1>4, <1>9, <1>11, ExceptSeq
  <2>2. /\ pending' = [r |-> pending'.r, w |-> pending'.w]
        /\ \A a \in pending'.r \cup pending'.w : IsAccess(a, n)
    BY <1>1, <1>2, <1>4, PendingFacts DEF Sub
  <2> QED BY <2>1, <2>2 DEF PendingOK, IsAccess
<1>16. \A d \in 1 .. n - 1 : Sub(Own(d, pending'), Own(d, pending))
  <2>1. Sub(Leaving, pending)
    BY <1>4, PendingFacts DEF Sub
  <2> QED BY <1>1, <2>1 DEF Own, Sub
<1>17. t.f \in Funs /\ t.b \in S[t.f] /\ t.i \in 1 .. Size(t.f, t.b) + 1
  BY <1>4, <1>10, <1>11
<1> QED BY <1>1, <1>2, <1>3, <1>9, <1>11, <1>14, <1>15, <1>16, <1>17, TopMoves

\* A return: the accesses of the callee belong to no frame any more, and the caller
\* goes on behind the call with what it has pending.
LEMMA RunReturnKeeps == ASSUME IInv, RunReturn PROVE RunOK'
<1>1. stack # <<>> /\ Done /\ UNCHANGED <<mod, analysis>> /\ AtEnd
  BY DEF RunReturn
<1>2. PICK n : n = Len(stack)
  OBVIOUS
<1>3. /\ n \in Nat \ {0} /\ stack \in Seq(Frame) /\ mod \in Modules
      /\ DOMAIN stack = 1 .. n /\ PendingOK
  BY <1>1, <1>2, TopFacts
<1>4. CASE n = 1
  <2>1. stack' = <<>> /\ pending' = Nothing
    BY <1>2, <1>4 DEF RunReturn
  <2>2. PendingOK'
    BY <2>1 DEF PendingOK, Nothing
  <2>3. stack' \in Seq(Frame)
    BY <2>1, EmptySeq
  <2> QED BY <2>1, <2>2, <2>3 DEF RunOK
<1>5. CASE n # 1
  <2>1. PICK m, s, f, b, i : /\ m = n - 1 /\ s = stack[m] /\ f = s.f /\ b = s.b /\ i = s.i
    OBVIOUS
  <2>2. m \in Nat \ {0} /\ m \in 1 .. n /\ m # n /\ n = m + 1 /\ s \in Frame
    <3>1. m \in Nat \ {0} /\ m \in 1 .. n /\ m # n /\ n = m + 1
      BY <1>3, <1>5, <2>1
    <3> QED BY <1>3, <2>1, <3>1
  <2>3. PICK low, t : low = SubSeq(stack, 1, m) /\ t = [s EXCEPT !.i = @ + 1]
    OBVIOUS
  <2>4. /\ low \in Seq(Frame) /\ Len(low) = m /\ \A d \in 1 .. m : low[d] = stack[d]
    <3>1. \A d \in 1 .. m : stack[d] \in Frame /\ d \in DOMAIN stack
      BY <1>3, <2>2
    <3>2. 1 \in Int /\ m \in Int /\ 1 <= m /\ m - 1 + 1 = m
      BY <2>2
    <3>3. /\ SubSeq(stack, 1, m) \in Seq(Frame)
          /\ Len(SubSeq(stack, 1, m)) = IF 1 <= m THEN m - 1 + 1 ELSE 0
          /\ \A d \in 1 .. m - 1 + 1 : SubSeq(stack, 1, m)[d] = stack[1 + d - 1]
      BY ONLY <3>1, <3>2, SubSeqProperties
    <3>4. \A d \in 1 .. m : 1 + d - 1 = d
      BY <2>2
    <3> QED BY <2>3, <3>2, <3>3, <3>4
  <2>5. stack' = [low EXCEPT ![m] = t] /\ pending' = Orphaned(Leaving, n)
    <3>1. stack' = Advance(low) /\ pending' = Orphaned(Leaving, n)
      BY <1>2, <1>5, <2>1, <2>3 DEF RunReturn
    <3>2. low[m] = s
      BY <2>1, <2>2, <2>4
    <3>3. DOMAIN low = 1 .. m
      BY <2>4, LenProperties
    <3> QED BY <2>2, <2>3, <2>4, <3>1, <3>2, <3>3 DEF Advance
  <2>6. t \in Frame /\ t.f = f /\ t.b = b /\ t.i = i + 1 /\ t.base = s.base
    BY <2>1, <2>2, <2>3, FrameAdvances
  <2>7. /\ stack' \in Seq(Frame) /\ Len(stack') = m /\ stack'[m] = t
        /\ \A d \in 1 .. m : d # m => stack'[d] = stack[d]
    BY <2>2, <2>4, <2>5, <2>6, ExceptSeq
  <2>8. stack' # <<>>
    BY <2>2, <2>7, EmptySeq
  <2>9. PICK p : p = Leaving
    OBVIOUS
  <2>10. Sub(p, pending) /\ \A a \in p.r \cup p.w : IsAccess(a, n)
    BY <1>2, <1>3, <2>9, PendingFacts DEF Sub
  <2>11. PendingOK'
    <3>1. ASSUME NEW a, IsAccess(a, n)
          PROVE  IsAccess(IF a[3] = n THEN <<a[1], a[2], 0>> ELSE a, m)
      <4>1. CASE a[3] = n
        BY <2>2, <3>1, <4>1 DEF IsAccess
      <4>2. CASE a[3] # n
        BY <2>2, <3>1, <4>2 DEF IsAccess
      <4> QED BY <4>1, <4>2
    <3>2. /\ \A a \in pending'.r \cup pending'.w : IsAccess(a, m)
          /\ pending' = [r |-> pending'.r, w |-> pending'.w]
      BY <2>5, <2>9, <2>10, <3>1 DEF Orphaned
    <3>3. \A a \in pending'.r \cup pending'.w : IsAccess(a, Len(stack'))
      BY <2>7, <3>2
    <3> QED BY <3>2, <3>3 DEF PendingOK, IsAccess
  <2>12. ASSUME NEW d \in 1 .. m PROVE Sub(Own(d, pending'), Own(d, pending))
    <3>1. d # 0 /\ d # n
      BY <2>2
    <3>2. \A A : {a \in {IF a[3] = n THEN <<a[1], a[2], 0>> ELSE a : a \in A} : a[3] = d}
                 \subseteq {a \in A : a[3] = d}
      BY <3>1
    <3> QED BY <2>5, <2>9, <2>10, <3>2 DEF Orphaned, Own, Sub
  <2>13. PICK S, c : Right(S, c) /\ \A d \in 1 .. n : FrameOK(d, S, c)
    BY <1>1, <1>2, TopFacts
  <2>14. /\ f \in Funs /\ b \in S[f] /\ i \in 1 .. Size(f, b) + 1
         /\ i <= Size(f, b) /\ Op(f, b, i).kind = "call"
         /\ Sub(RelativeTo(s, Own(m, pending)), Left(f, b, i, c[f][b][i]))
    BY <1>2, <2>1, <2>2, <2>13 DEF FrameOK
  <2>15. b \in Blocks(f) /\ BlockRight(f, b, c[f][b]) /\ Size(f, b) \in Nat /\ i \in Ops(f, b)
    <3>1. b \in Blocks(f) /\ BlockRight(f, b, c[f][b])
      BY <2>13, <2>14 DEF Right, FunctionRight
    <3>2. Ops(f, b) = 1 .. Size(f, b) /\ Size(f, b) \in Nat
      BY <1>3, <2>14, <3>1, ModuleFacts
    <3> QED BY <2>14, <3>1, <3>2
  <2>16. PICK x : x = Own(m, pending')
    OBVIOUS
  <2>17. Claimed(f, b, i + 1, RelativeTo(t, x), c[f][b][i + 1])
    <3>1. Sub(RelativeTo(s, x), RelativeTo(s, Own(m, pending)))
      BY <2>2, <2>12, <2>16, FewerRelative
    <3>2. RelativeTo(t, x) = RelativeTo(s, x)
      BY <2>6 DEF RelativeTo
    <3>3. Claimed(f, b, i + 1, Left(f, b, i, c[f][b][i]), c[f][b][i + 1])
      BY <2>14, <2>15 DEF BlockRight, OpRight, After
    <3> QED BY <2>14, <3>1, <3>2, <3>3 DEF Claimed, Sub
  <2>18. Right(S, c)' /\ Done'
    BY <1>1, <2>13, RunKeepsAnalysis
  <2>19. ASSUME NEW d \in 1 .. m PROVE FrameOK(d, S, c)'
    <3>1. CASE d = m
      <4>1. /\ Funs' = Funs /\ Size(f, b)' = Size(f, b)
            /\ \A z : Claimed(f, b, i + 1, z, c[f][b][i + 1])' =
                      Claimed(f, b, i + 1, z, c[f][b][i + 1])
        BY <1>1 DEF analysis, Funs, Size, Block, Claimed, Barrier
      <4>2. Claimed(f, b, i + 1, RelativeTo(t, x), c[f][b][i + 1])'
        BY <2>17, <4>1
      <4>3. Own(d, pending)' = x /\ stack'[d] = t /\ d = Len(stack)'
        BY <2>7, <2>16, <3>1 DEF Own
      <4>4. i + 1 \in 1 .. Size(f, b) + 1
        BY <2>14, <2>15
      <4> QED BY <2>6, <2>14, <4>1, <4>2, <4>3, <4>4 DEF FrameOK
    <3>2. CASE d # m
      <4>1. d \in 1 .. n /\ d # n /\ stack'[d] = stack[d]
        BY <2>2, <2>7, <3>2
      <4>2. Sub(Own(d, pending'), Own(d, pending))
        BY <2>12
      <4> QED BY <1>1, <1>2, <2>7, <2>13, <3>2, <4>1, <4>2, FrameStays
    <3> QED BY <3>1, <3>2
  <2> QED BY <2>7, <2>8, <2>11, <2>18, <2>19 DEF RunOK
<1> QED BY <1>4, <1>5

\* A run begins at one of the starts of the kernel.
LEMMA LaunchKeeps == ASSUME IInv, Launch PROVE RunOK'
<1>1. stack = <<>> /\ Done /\ UNCHANGED <<mod, analysis, pending>> /\ pending = Nothing
  BY DEF Launch, IInv, RunOK
<1>2. PICK g : g = Len(mod.funcs)
  OBVIOUS
<1>3. PICK k \in DOMAIN mod.funcs[g].starts :
         stack' = << [f |-> g, b |-> mod.funcs[g].starts[k], i |-> 1, base |-> 0] >>
  BY <1>2 DEF Launch
<1>4. PICK q : q = mod.funcs[g].starts[k]
  OBVIOUS
<1>5. /\ mod \in Modules /\ Funs = 1 .. g /\ g \in Nat \ {0} /\ fn = g + 1
      /\ \A f \in Funs : \E S, c : FunctionRight(f, S, c)
  <2>1. mod \in Modules /\ fn \in 1 .. g + 1
    BY <1>2 DEF IInv, AnalysisOK
  <2>2. Funs = 1 .. g /\ g \in Nat \ {0}
    BY <1>2, <2>1, ModuleFacts
  <2>3. fn = g + 1
    BY <1>1, <2>1, <2>2 DEF Done
  <2> QED BY <2>1, <2>2, <2>3 DEF IInv, AnalysisOK
<1>6. PICK P : P = [f \in Funs |-> CHOOSE z : FunctionRight(f, z[1], z[2])]
  OBVIOUS
<1>7. \A f \in Funs : FunctionRight(f, P[f][1], P[f][2])
  <2> TAKE f \in Funs
  <2>1. PICK S, c : FunctionRight(f, S, c)
    BY <1>5
  <2>2. PICK z : z = <<S, c>>
    OBVIOUS
  <2>3. FunctionRight(f, z[1], z[2])
    BY <2>1, <2>2
  <2> QED BY <1>6, <2>3
<1>8. PICK S, c : S = [f \in Funs |-> P[f][1]] /\ c = [f \in Funs |-> P[f][2]]
  OBVIOUS
<1>9. Right(S, c)
  BY <1>7, <1>8 DEF Right
<1>10. q \in S[g] /\ q \in Nat /\ Size(g, q) \in Nat /\ g \in Funs
  <2>1. g \in Funs
    BY <1>5
  <2>2. q \in S[g] /\ q \in Blocks(g)
    BY <1>4, <1>9, <2>1 DEF Right, FunctionRight
  <2>3. /\ Size(g, q) \in Nat
        /\ Blocks(g) = 1 .. Len(mod.funcs[g].blocks) /\ Len(mod.funcs[g].blocks) \in Nat
    BY <1>5, <2>1, <2>2, ModuleFacts
  <2> QED BY <2>1, <2>2, <2>3
<1>11. PICK t : t = [f |-> g, b |-> q, i |-> 1, base |-> 0]
  OBVIOUS
<1>12. /\ t \in Frame /\ stack' = <<t>> /\ stack' \in Seq(Frame) /\ stack' # <<>>
       /\ Len(stack') = 1 /\ stack'[1] = t
  <2>1. t \in Frame
    BY <1>5, <1>10, <1>11 DEF Frame
  <2> QED BY <1>3, <1>4, <1>11, <2>1
<1>13. PendingOK'
  BY <1>1 DEF PendingOK, Nothing
<1>14. Right(S, c)' /\ Done'
  BY <1>1, <1>9, RunKeepsAnalysis
<1>15. FrameOK(1, S, c)'
  <2>1. PICK x : x = Own(1, pending')
    OBVIOUS
  <2>2. Sub(RelativeTo(t, x), c[g][q][1])
    BY <1>1, <2>1 DEF Own, RelativeTo, Relative, Nothing, Sub
  <2>3. Claimed(g, q, 1, RelativeTo(t, x), c[g][q][1])'
    BY <2>2 DEF Claimed
  <2>4. /\ Own(1, pending)' = x /\ stack'[1] = t /\ 1 = Len(stack)'
        /\ t.f = g /\ t.b = q /\ t.i = 1
    BY <1>11, <1>12, <2>1 DEF Own
  <2>5. 1 \in 1 .. Size(g, q)' + 1 /\ g \in Funs'
    <3>1. Size(g, q)' = Size(g, q) /\ Funs' = Funs
      BY <1>1 DEF Size, Block, Funs
    <3>2. 1 \in 1 .. Size(g, q) + 1
      BY <1>10
    <3> QED BY <1>10, <3>1, <3>2
  <2> QED BY <1>10, <2>3, <2>4, <2>5 DEF FrameOK
<1>16. \A d \in 1 .. 1 : d = 1
  OBVIOUS
<1> QED BY <1>12, <1>13, <1>14, <1>15, <1>16 DEF RunOK

-----------------------------------------------------------------------------
(* The theorems.                                                           *)

LEMMA InitRight == Init => IInv
<1> SUFFICES ASSUME Init PROVE IInv
  OBVIOUS
<1>1. /\ mod \in Modules /\ fn = 1 /\ blockList = mod.funcs[1].starts
      /\ inputs = Empty(1) /\ outputs = Empty(1) /\ seen = {} /\ cur = 0
      /\ funcInfo = [f \in Funs |-> Nothing] /\ pending = Nothing /\ stack = <<>>
  BY DEF Init
<1>2. /\ Funs = 1 .. Len(mod.funcs) /\ Len(mod.funcs) \in Nat \ {0}
      /\ mod.funcs[1].starts \in Seq(Blocks(1))
  BY <1>1, ModuleFacts
<1>3. IsFcn(Empty(1), Blocks(1)) /\ IsFcn(funcInfo, Funs)
  BY <1>1 DEF IsFcn, Empty, Blocks
<1>4. WorkListOK
  BY <1>1, <1>2, <1>3 DEF WorkListOK, Waiting
<1>5. \A f \in Funs : ~ f < fn
  BY <1>1, <1>2
<1>6. AnalysisOK
  BY <1>1, <1>2, <1>3, <1>4, <1>5 DEF AnalysisOK, ScanOK
<1>7. stack \in Seq(Frame)
  BY <1>1, EmptySeq
<1>8. RunOK
  BY <1>1, <1>7 DEF RunOK, PendingOK, Nothing
<1> QED BY <1>6, <1>8 DEF IInv

LEMMA NextKeepsRight == IInv /\ [Next]_vars => IInv'
<1> SUFFICES ASSUME IInv, [Next]_vars PROVE IInv'
  OBVIOUS
<1>1. CASE Analyse
  <2>1. RunOK'
    BY <1>1, AnalyseKeepsRun
  <2>2. AnalysisOK'
    BY <1>1, TakeBlockKeeps, UpdateBarrierKeeps, UpdateWaitKeeps, UpdateScratchKeeps,
       UpdateOtherKeeps, VisitTerminatorKeeps, NextFunctionKeeps DEF Analyse
  <2> QED BY <2>1, <2>2 DEF IInv
<1>2. CASE \/ Launch \/ RunMemory \/ RunSignal \/ RunBarrier \/ RunScratch \/ RunCall
           \/ RunBranch \/ RunReturn
  <2>1. Done /\ UNCHANGED <<mod, analysis>>
    BY <1>2 DEF Launch, RunMemory, RunSignal, RunBarrier, RunScratch, RunCall, RunBranch,
                RunReturn, Run
  <2>2. AnalysisOK'
    BY <2>1, RunKeepsAnalysis
  <2>3. RunOK'
    BY <1>2, LaunchKeeps, RunMemoryKeeps, RunSignalKeeps, RunBarrierKeeps, RunScratchKeeps,
       RunCallKeeps, RunBranchKeeps, RunReturnKeeps
  <2> QED BY <2>2, <2>3 DEF IInv
<1>3. CASE UNCHANGED vars
  <2>1. UNCHANGED <<mod, fn, blockList, inputs, outputs, seen, cur, pos, info, barriers,
                    funcInfo, pending, stack>>
    BY <1>3 DEF vars, analysis
  <2>2. AnalysisOK'
    <3>1. WorkListOK' = WorkListOK /\ ScanOK' = ScanOK /\ Funs' = Funs
      BY <2>1 DEF WorkListOK, ScanOK, Funs, IsFcn, Blocks, Settled, Waiting, BlockRight, OpRight,
                  EndOf, Left, Claimed, Barrier, First, After, Effects, Op, Ops, Size, Block,
                  isIntersected, Clash
    <3>2. AnalysisOK /\ barriers \subseteq barriers'
      BY <2>1 DEF IInv
    <3>3. /\ mod' \in Modules /\ fn' \in 1 .. Len(mod'.funcs) + 1 /\ IsFcn(funcInfo, Funs)'
          /\ (\A f \in Funs : f < fn => \E S, c : FunctionRight(f, S, c))'
      BY <2>1, <3>2, EarlierFunctions
    <3> QED BY <2>1, <3>1, <3>2, <3>3 DEF AnalysisOK
  <2>3. RunOK'
    <3>1. CASE stack = <<>>
      BY <2>1, <3>1 DEF IInv, RunOK, PendingOK, IsAccess
    <3>2. CASE stack # <<>>
      <4>1. PICK S, c : Right(S, c) /\ \A d \in 1 .. Len(stack) : FrameOK(d, S, c)
        BY <3>2 DEF IInv, RunOK
      <4>2. Right(S, c)' /\ Done'
        BY <2>1, <3>2, <4>1, TopFacts, RunKeepsAnalysis DEF analysis
      <4>3. \A d : FrameOK(d, S, c)' = FrameOK(d, S, c)
        BY <2>1 DEF FrameOK, Funs, Size, Block, Op, Own, Claimed, Left, Barrier
      <4>4. PendingOK' /\ stack' \in Seq(Frame) /\ stack' # <<>>
        BY <2>1, <3>2 DEF IInv, RunOK, PendingOK, IsAccess
      <4> QED BY <2>1, <4>1, <4>2, <4>3, <4>4 DEF RunOK
    <3> QED BY <3>1, <3>2
  <2> QED BY <2>2, <2>3 DEF IInv
<1> QED BY <1>1, <1>2, <1>3 DEF Next

\* Every state of the analysis and of the run is as the certificates say.
THEOREM Invariance == Spec => []IInv
<1>1. Init => IInv
  BY InitRight
<1>2. IInv /\ [Next]_vars => IInv'
  BY NextKeepsRight
<1> QED BY <1>1, <1>2, PTL DEF Spec

\* Two accesses that race intersect.
LEMMA RacesIntersect ==
  ASSUME IInv, stack # <<>>, Top.i <= Size(Top.f, Top.b), Race(Mine, FirstAccess)
  PROVE  isIntersected(RelativeTo(Top, Mine), First(Top.f, Top.b, Top.i))
<1>1. PICK n, s, e : n = Len(stack) /\ s = Top /\ e = First(s.f, s.b, s.i)
  OBVIOUS
<1>2. /\ s.base \in Nat /\ n \in Nat /\ MaxAddr \in Nat /\ PendingOK
      /\ Op(s.f, s.b, s.i) \in Operation
  BY <1>1, TopFacts, ModuleFacts, AccessedFacts DEF Frame
<1>3. FirstAccess = Accessed(e)
  <2>1. AtOp({"scratch"}) <=> Op(s.f, s.b, s.i).kind = "scratch"
    <3>1. ~ AtEnd
      BY TopFacts DEF AtEnd, Size, Frame
    <3> QED BY <1>1, <3>1 DEF AtOp
  <2> QED BY <1>1, <2>1 DEF FirstAccess, First
<1>4. \A x \in e.r \cup e.w : x[1][1] \in Nat /\ x[1][2] \in Nat
  BY <1>1, <1>2, EffectsAreAccesses DEF First
<1>5. ASSUME NEW a \in Mine.r \cup Mine.w
      PROVE  a[1][1] \in Int /\ a[1][2] \in Int
  BY <1>2, <1>5, PendingFacts DEF Mine, IsAccess
<1>6. PICK a \in Mine.r \cup Mine.w, y \in FirstAccess.r \cup FirstAccess.w :
         /\ a \in Mine.w \/ y \in FirstAccess.w
         /\ \E x \in a[1][1] .. a[1][2] - 1 : x \in y[1][1] .. y[1][2] - 1
         /\ <<a[2], y[2]>> \notin mod.filter
  BY DEF Race
<1>7. ASSUME NEW A, NEW E, a \in A, y \in Absolute(E), E \subseteq e.r \cup e.w
      PROVE  Clash(Relative(A, s.base), E)
  <2>1. PICK z \in E : y = << <<z[1][1] + s.base, z[1][2] + s.base>>, z[2], n>>
    BY <1>1, <1>7 DEF Absolute
  <2>2. PICK p, q, u, v : p = a[1][1] /\ q = a[1][2] /\ u = z[1][1] /\ v = z[1][2]
    OBVIOUS
  <2>3. p \in Int /\ q \in Int /\ u \in Int /\ v \in Int /\ s.base \in Int
    BY <1>2, <1>4, <1>5, <1>6, <1>7, <2>2
  <2>4. \E x \in p .. q - 1 : x \in u + s.base .. v + s.base - 1
    <3>1. PICK x \in a[1][1] .. a[1][2] - 1 : x \in y[1][1] .. y[1][2] - 1
      BY <1>6
    <3>2. y[1][1] = u + s.base /\ y[1][2] = v + s.base
      BY <2>1, <2>2
    <3>3. x \in p .. q - 1
      BY <2>2, <3>1
    <3>4. x \in u + s.base .. v + s.base - 1
      BY <2>3, <3>1, <3>2
    <3> QED BY <3>3, <3>4
  <2>5. p - s.base < v /\ u < q - s.base
    BY <2>3, <2>4
  <2>6. PICK d : d = << <<p - s.base, q - s.base>>, a[2]>>
    OBVIOUS
  <2>7. d \in Relative(A, s.base)
    BY <1>7, <2>2, <2>6 DEF Relative
  <2>8. intersects(d[1], z[1]) /\ <<d[2], z[2]>> \notin mod.filter
    <3>1. d[1][1] = p - s.base /\ d[1][2] = q - s.base /\ d[2] = a[2] /\ y[2] = z[2]
      BY <2>1, <2>6
    <3> QED BY <1>6, <2>2, <2>5, <3>1 DEF intersects
  <2> QED BY <2>7, <2>8 DEF Clash
<1>8. FirstAccess.r = Absolute(e.r) /\ FirstAccess.w = Absolute(e.w)
  BY <1>3 DEF Accessed
<1>9. PICK X : X = RelativeTo(s, Mine)
  OBVIOUS
<1>10. X.r = Relative(Mine.r, s.base) /\ X.w = Relative(Mine.w, s.base)
  BY <1>9 DEF RelativeTo
<1>11. CASE a \in Mine.w /\ y \in FirstAccess.r
  <2>1. Clash(X.w, e.r)
    BY <1>7, <1>8, <1>10, <1>11
  <2> QED BY <1>1, <1>9, <2>1 DEF isIntersected
<1>12. CASE a \in Mine.r /\ y \in FirstAccess.w
  <2>1. Clash(X.r, e.w)
    BY <1>7, <1>8, <1>10, <1>12
  <2> QED BY <1>1, <1>9, <2>1 DEF isIntersected
<1>13. CASE a \in Mine.w /\ y \in FirstAccess.w
  <2>1. Clash(X.w, e.w)
    BY <1>7, <1>8, <1>10, <1>13
  <2> QED BY <1>1, <1>9, <2>1 DEF isIntersected
<1> QED BY <1>6, <1>11, <1>12, <1>13

\* What is pending of the top frame, relative to it, is within what is left of the
\* claim where it is.
LEMMA MineIsClaimed ==
  ASSUME IInv, stack # <<>>
  PROVE  RelativeTo(Top, Mine) =
            Left(Top.f, Top.b, Top.i, RelativeTo(Top, Own(Len(stack), pending)))
<1>1. Mine = Own(Len(stack), Pending)
  BY DEF Mine, Own
<1> QED BY <1>1, PendingIsLeft

LEMMA RightIsRaceFree == IInv => RaceFree
<1> SUFFICES ASSUME IInv, AtOp(Kinds \ {"call"}), Race(Mine, FirstAccess) PROVE FALSE
  BY DEF RaceFree
<1>1. /\ stack # <<>> /\ Top.i <= Size(Top.f, Top.b) /\ Op(Top.f, Top.b, Top.i).kind # "call"
      /\ Top.i \in Ops(Top.f, Top.b)
  <2>1. stack # <<>> /\ ~ AtEnd /\ Op(Top.f, Top.b, Top.i).kind # "call"
    BY DEF AtOp
  <2>2. Size(Top.f, Top.b) \in Nat /\ Top.i \in 1 .. Size(Top.f, Top.b) + 1
        /\ Ops(Top.f, Top.b) = 1 .. Size(Top.f, Top.b)
    BY <2>1, TopFacts
  <2> QED BY <2>1, <2>2 DEF AtEnd, Size
<1>2. PICK f, b, i, x : /\ f = Top.f /\ b = Top.b /\ i = Top.i
                        /\ x = RelativeTo(Top, Own(Len(stack), pending))
  OBVIOUS
<1>3. PICK C : BlockRight(f, b, C) /\ Claimed(f, b, i, x, C[i])
  BY <1>1, <1>2, TopFacts
<1>4. ~ isIntersected(Left(f, b, i, C[i]), First(f, b, i))
  BY <1>1, <1>2, <1>3 DEF BlockRight, OpRight
<1>5. Sub(Left(f, b, i, x), Left(f, b, i, C[i]))
  BY <1>3, LeftOfClaimed
<1>6. ~ isIntersected(Left(f, b, i, x), First(f, b, i))
  BY <1>4, <1>5, FewerConflicts
<1>7. isIntersected(Left(f, b, i, x), First(f, b, i))
  BY <1>1, <1>2, MineIsClaimed, RacesIntersect
<1> QED BY <1>6, <1>7

LEMMA RightKnowsDangling == IInv => DanglingBuffersKnown
<1> SUFFICES ASSUME IInv, Done, stack # <<>>, AtEnd, Block(Top.f, Top.b).ret
             PROVE  Sub(RelativeTo(Top, Mine), funcInfo[Top.f])
  BY DEF DanglingBuffersKnown, Sub, RelativeTo, Relative
<1>1. PICK f, b, i, x : /\ f = Top.f /\ b = Top.b /\ i = Top.i
                        /\ x = RelativeTo(Top, Own(Len(stack), pending))
  OBVIOUS
<1>2. i = Size(f, b) + 1
  <2>1. Size(f, b) \in Nat /\ i \in 1 .. Size(f, b) + 1
    BY <1>1, TopFacts
  <2> QED BY <1>1, <2>1 DEF AtEnd, Size
<1>3. PICK S, c : /\ FunctionRight(f, S, c) /\ b \in S
                  /\ Claimed(f, b, i, x, c[b][i])
  BY <1>1, TopFacts
<1>4. Sub(EndOf(f, b, c[b]), funcInfo[f])
  BY <1>1, <1>3 DEF FunctionRight
<1>5. Sub(Left(f, b, i, x), EndOf(f, b, c[b]))
  BY <1>2, <1>3, LeftOfClaimed DEF EndOf
<1>6. RelativeTo(Top, Mine) = Left(f, b, i, x)
  BY <1>1, MineIsClaimed
<1> QED BY <1>1, <1>4, <1>5, <1>6 DEF Sub

\* Whatever path a run takes, through loops, branches and calls, no operation of a
\* function meets a conflicting access of the same call of it that is still
\* pending: the barriers that Membar.cpp inserts suffice.
THEOREM BarriersSuffice == Spec => []RaceFree
<1>1. IInv => RaceFree
  BY RightIsRaceFree
<1> QED BY <1>1, Invariance, PTL

\* What a call leaves pending of its own is in the BlockInfo of its function.
THEOREM DanglingIsKnown == Spec => []DanglingBuffersKnown
<1>1. IInv => DanglingBuffersKnown
  BY RightKnowsDangling
<1> QED BY <1>1, Invariance, PTL
=============================================================================
