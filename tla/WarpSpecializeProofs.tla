------------------------ MODULE WarpSpecializeProofs ------------------------
(***************************************************************************)
(* Proofs about the machine of WarpSpecialize, for every number of warps,  *)
(* every kernel that satisfies its assumptions and every register limit;   *)
(* and that it implements ForkJoin.                                        *)
(***************************************************************************)
EXTENDS WarpSpecialize, SequenceTheorems, FiniteSetTheorems, TLAPS

-----------------------------------------------------------------------------
(* The numbers fixed at compile time.                                      *)

(* The records that describe the ops. *)
LEMMA OpShape ==
  /\ OpIds = 1 .. Len(Ops) /\ Len(Ops) \in Nat
  /\ \A o \in OpIds :
       /\ Ops[o].nums \in Seq(Nat \ {0}) /\ Ops[o].starts \in Seq(Nat)
       /\ Ops[o].regs \in Seq(Nat) /\ Ops[o].caps \in BOOLEAN
       /\ Len(Ops[o].nums) \in Nat /\ Len(Ops[o].nums) <= 14
       /\ PartIds(o) = 1 .. Len(Ops[o].nums)
       /\ HasRegs(o) => Len(Ops[o].regs) = Len(Ops[o].nums) + 1
<1>1. Ops \in Seq(OpRecords)
  BY WSAssumption DEF WSAssumption
<1>2. OpIds = 1 .. Len(Ops) /\ Len(Ops) \in Nat
  BY <1>1, LenProperties DEF OpIds
<1>3. ASSUME NEW o \in OpIds
      PROVE  /\ Ops[o].nums \in Seq(Nat \ {0}) /\ Ops[o].starts \in Seq(Nat)
             /\ Ops[o].regs \in Seq(Nat) /\ Ops[o].caps \in BOOLEAN
  <2>1. Ops[o] \in OpRecords
    BY <1>1, <1>2, ElementOfSeq
  <2> QED BY <2>1 DEF OpRecords
<1>4. ASSUME NEW o \in OpIds
      PROVE  /\ Len(Ops[o].nums) \in Nat /\ Len(Ops[o].nums) <= 14
             /\ PartIds(o) = 1 .. Len(Ops[o].nums)
  <2>1. Len(Ops[o].nums) \in Nat /\ DOMAIN Ops[o].nums = 1 .. Len(Ops[o].nums)
    BY <1>3, LenProperties
  <2>2. Len(Ops[o].nums) + 2 <= 16
    BY PartitionAssumption DEF PartitionAssumption, kNumReservedBarriers, kNumBarriers
  <2>3. Len(Ops[o].nums) \in Nat /\ Len(Ops[o].nums) <= 14
    BY <2>1, <2>2
  <2>4. PartIds(o) = 1 .. Len(Ops[o].nums)
    BY <2>1 DEF PartIds
  <2> QED BY <2>3, <2>4
<1>5. \A o \in OpIds : HasRegs(o) => Len(Ops[o].regs) = Len(Ops[o].nums) + 1
  BY PartitionAssumption DEF PartitionAssumption
<1> QED BY <1>2, <1>3, <1>4, <1>5

(* A kernel has finitely many partitions. *)
LEMMA PartsFinite == IsFiniteSet(Parts) /\ ExitId \in Nat
<1> PICK n \in Nat : n = 14
  OBVIOUS
<1>1. Parts \subseteq OpIds \X (1 .. n)
  <2>1. ASSUME NEW o \in OpIds PROVE PartIds(o) \subseteq 1 .. n
    <3> DEFINE k == Len(Ops[o].nums)
    <3>1. k \in Nat /\ k <= 14 /\ PartIds(o) = 1 .. k
      BY OpShape
    <3> HIDE DEF k
    <3> QED BY <3>1
  <2> QED BY <2>1 DEF Parts
<1>2. IsFiniteSet(OpIds) /\ IsFiniteSet(1 .. n)
  <2> DEFINE m == Len(Ops)
  <2>1. OpIds = 1 .. m /\ m \in Nat
    BY OpShape
  <2> HIDE DEF m
  <2>2. 1 \in Int /\ m \in Int /\ n \in Int
    BY <2>1
  <2>3. IsFiniteSet(1 .. m) /\ IsFiniteSet(1 .. n)
    BY ONLY <2>2, FS_Interval
  <2> QED BY <2>1, <2>3
<1>3. IsFiniteSet(OpIds \X (1 .. n))
  BY <1>2, FS_Product
<1>4. IsFiniteSet(Parts)
  BY <1>1, <1>3, FS_Subset
<1> QED BY <1>4, FS_CardinalityType DEF ExitId

(* Partitions are pairs of an op and one of its partition numbers. *)
LEMMA PartsPairs ==
  ASSUME NEW q \in Parts
  PROVE  /\ q = <<q[1], q[2]>> /\ q[1] \in OpIds /\ q[2] \in PartIds(q[1])
         /\ q[1] \in Nat \ {0} /\ q[2] \in Nat \ {0}
<1>1. PICK o \in OpIds : \E p \in PartIds(o) : q = <<o, p>>
  BY DEF Parts
<1>2. PartIds(o) \subseteq Nat \ {0} /\ o \in Nat \ {0}
  BY OpShape
<1> QED BY <1>1, <1>2

(* partitionStateCounter: different partitions get different ids, all of     *)
(* them below the exit id.                                                   *)
LEMMA StateIdsDistinct ==
  /\ \A q \in Parts : StateId[q] \in Nat /\ StateId[q] < ExitId
  /\ \A q, r \in Parts : StateId[q] = StateId[r] => q = r
<1>1. ASSUME NEW q \in Parts
      PROVE  /\ Before(q) \in SUBSET Parts /\ IsFiniteSet(Before(q))
             /\ Cardinality(Before(q)) \in Nat /\ q \notin Before(q)
  <2>1. Before(q) \in SUBSET Parts /\ q \notin Before(q)
    BY PartsPairs DEF Before
  <2>2. IsFiniteSet(Before(q))
    BY <2>1, PartsFinite, FS_Subset
  <2> QED BY <2>1, <2>2, FS_CardinalityType
<1>2. ASSUME NEW q \in Parts
      PROVE  StateId[q] \in Nat /\ StateId[q] < ExitId
  <2>1. Cardinality(Before(q)) <= Cardinality(Parts) /\ Cardinality(Before(q)) # Cardinality(Parts)
    BY <1>1, PartsFinite, FS_Subset
  <2> QED BY <1>1, <2>1, PartsFinite DEF StateId, ExitId
<1>3. ASSUME NEW q \in Parts, NEW r \in Parts, r \in Before(q)
      PROVE  StateId[q] # StateId[r]
  <2>1. Before(r) \in SUBSET Before(q) /\ r \notin Before(r)
    BY <1>3, PartsPairs DEF Before
  <2>2. Cardinality(Before(r)) # Cardinality(Before(q))
    BY <1>1, <1>3, <2>1, FS_Subset
  <2> QED BY <2>2 DEF StateId
<1>4. ASSUME NEW q \in Parts, NEW r \in Parts, q # r
      PROVE  q \in Before(r) \/ r \in Before(q)
  BY <1>4, PartsPairs DEF Before
<1> QED BY <1>2, <1>3, <1>4

(* An id keeps its value in the state byte; -1 becomes the last byte.        *)
LEMMA ByteValues ==
  /\ \A n \in Nat : n < StateMod => I8(n) = n
  /\ I8(-1) = StateMod - 1
  /\ \A n \in Int : I8(n) \in Int
<1>1. StateMod \in Nat \ {0}
  BY WSAssumption DEF WSAssumption
<1> QED BY <1>1 DEF I8

Byte(o, w) == I8(StateMap[o][w])

(* The switch undoes stateMap: a worker of partition p of op o is sent to p, *)
(* a worker of no partition to the default case, and none to the exit.       *)
LEMMA SwitchOfByte ==
  ASSUME NEW o \in OpIds, NEW w \in Worker
  PROVE  /\ Byte(o, w) \in Int
         /\ \/ /\ Target(Byte(o, w)) \in Parts
               /\ Target(Byte(o, w))[1] = o
               /\ w \in Team(o, Target(Byte(o, w))[2])
            \/ /\ Target(Byte(o, w)) = Idle
               /\ \A p \in PartIds(o) : w \notin Team(o, p)
<1>0. StateMod \in Nat \ {0} /\ ExitId \in Nat /\ ExitId < StateMod
  BY WSAssumption, StateAssumption, PartsFinite DEF WSAssumption, StateAssumption
<1>1. I8(ExitId) = ExitId
  BY <1>0, ByteValues
<1>2. \A q \in Parts : I8(StateId[q]) = StateId[q] /\ StateId[q] \in Int /\ StateId[q] # ExitId
  BY <1>0, StateIdsDistinct, ByteValues
<1>3. CASE \E p \in PartIds(o) : w \in Team(o, p)
  <2> DEFINE p == CHOOSE p \in PartIds(o) : w \in Team(o, p)
             q == <<o, p>>
  <2>1. p \in PartIds(o) /\ w \in Team(o, p)
    BY <1>3
  <2>2. q \in Parts
    BY <2>1 DEF Parts
  <2>3. Byte(o, w) = StateId[q]
    BY <1>2, <1>3, <2>2 DEF Byte, StateMap
  <2>4. Target(StateId[q]) = q
    <3>1. \E r \in Parts : I8(StateId[r]) = StateId[q]
      BY <1>2, <2>2
    <3>2. \A r \in Parts : I8(StateId[r]) = StateId[q] => r = q
      BY <1>2, <2>2, StateIdsDistinct
    <3>3. StateId[q] # I8(ExitId)
      BY <1>1, <1>2, <2>2
    <3> QED BY <3>1, <3>2, <3>3 DEF Target
  <2> HIDE DEF p
  <2> QED BY <1>2, <2>1, <2>2, <2>3, <2>4
<1>4. CASE ~ \E p \in PartIds(o) : w \in Team(o, p)
  <2>1. Byte(o, w) = StateMod - 1
    BY <1>4, ByteValues DEF Byte, StateMap
  <2>2. ExitId # StateMod - 1
    BY <1>4, StateAssumption DEF StateAssumption
  <2>3. \A q \in Parts : StateId[q] # StateMod - 1
    BY <1>0, <2>2, StateIdsDistinct
  <2>4. Target(StateMod - 1) = Idle
    BY <1>1, <1>2, <2>2, <2>3 DEF Target
  <2> QED BY <1>0, <1>4, <2>1, <2>4
<1> QED BY <1>3, <1>4

(* The default case and the exit are no partitions. *)
LEMMA TargetsDiffer == Idle \notin Parts /\ Exit \notin Parts /\ Idle # Exit
BY PartsPairs DEF Idle, Exit

-----------------------------------------------------------------------------
(***************************************************************************)
(* The inductive invariant.  All default warps are in the same execution   *)
(* of an op, and the CTA is in one of four phases, which the three         *)
(* barriers of a round separate:                                           *)
(*   Between  C to A: states and captures are stored, nobody reads them    *)
(*   Loading  A to B: they are read, nobody stores                         *)
(*   Running  B to C: the regions run on what the workers have loaded      *)
(*   Exiting  after the last A: the exit states are read                   *)
(***************************************************************************)
Started(d) == IF pc[d] = "yield" THEN ip[d] + 1 ELSE ip[d]
SameOp == \A d, e \in Default : Started(d) = Started(e)

Stored(d) == \A w \in Worker : stateMem[w] = Byte(Op(d), w)
ExitStored == \A w \in Worker : stateMem[w] = I8(ExitId)
CapsStored(d) == Ops[Op(d)].caps => capMem = ip[d]
CapsLoaded(d, w) == Ops[Op(d)].caps /\ Part(w) # Idle => cap[w] = ip[d]

BetweenDefault(d) ==
    /\ pc[d] \in {"entry", "yield", "top", "caps", "A", "X"}
    /\ pc[d] = "yield" => More(d)
    /\ pc[d] \in {"caps", "A"} => More(d) /\ Stored(d)
    /\ pc[d] = "A" => CapsStored(d)
    /\ pc[d] = "X" => ~More(d) /\ ExitStored
BetweenWorker(w) ==
    /\ pc[w] \in {"loop", "drop", "A"}
    /\ pc[w] = "drop" => Part(w) \in Parts
Between == /\ \A d \in Default : BetweenDefault(d)
           /\ \A w \in Worker : BetweenWorker(w)

LoadingDefault(d) ==
    pc[d] \in {"regs", "B"} /\ More(d) /\ Stored(d) /\ CapsStored(d)
LoadingWorker(d, w) ==
    /\ pc[w] \in {"load", "grab", "getcaps", "B"}
    /\ pc[w] # "load" => job[w] = Byte(Op(d), w)
    /\ pc[w] \in {"grab", "getcaps"} => Part(w) # Idle
    /\ pc[w] = "B" => CapsLoaded(d, w)
Loading == /\ \A d \in Default : LoadingDefault(d)
           /\ \A d \in Default, w \in Worker : LoadingWorker(d, w)

RunningDefault(d) == pc[d] \in {"region", "sync", "C"} /\ More(d)
RunningWorker(d, w) ==
    /\ pc[w] \in {"region", "sync", "C"}
    /\ job[w] = Byte(Op(d), w) /\ CapsLoaded(d, w)
    /\ pc[w] # "C" => Part(w) # Idle
Running == /\ \A d \in Default : RunningDefault(d)
           /\ \A d \in Default, w \in Worker : RunningWorker(d, w)

Exiting == /\ \A d \in Default : pc[d] = "done"
           /\ \A w \in Worker : pc[w] \in {"load", "done"}
           /\ ExitStored

IInv == TypeOK /\ SameOp /\ (Between \/ Loading \/ Running \/ Exiting)

-----------------------------------------------------------------------------
(* Facts the steps share.                                                  *)

(* A warp is either a default warp or a worker. *)
LEMMA TwoKinds ==
  /\ Default \cap Worker = {} /\ Warps = Default \cup Worker
  /\ 0 \in Default
BY WSAssumption DEF WSAssumption, Default, Worker, Warps

(* The op of a default warp that has one is an op of the kernel. *)
LEMMA OpInKernel ==
  ASSUME TypeOK, NEW d \in Default
  PROVE  /\ Len(prog) \in Nat /\ ip[d] \in Nat \ {0} /\ ip[d] <= Len(prog) + 1
         /\ More(d) => Op(d) \in OpIds /\ ip[d] \in 1 .. Len(prog)
<1>1. prog \in Seq(OpIds)
  BY WSAssumption DEF TypeOK, WSAssumption
<1>2. Len(prog) \in Nat
  BY <1>1, LenProperties
<1>3. ip[d] \in Nat \ {0} /\ ip[d] <= Len(prog) + 1
  BY <1>2 DEF TypeOK
<1>4. More(d) => ip[d] \in 1 .. Len(prog)
  BY <1>2, <1>3 DEF More
<1>5. More(d) => Op(d) \in OpIds
  BY <1>1, <1>4, ElementOfSeq DEF Op
<1> QED BY <1>2, <1>3, <1>4, <1>5

(* Default warps that have not left an op are in the same one. *)
LEMMA InSameOp ==
  ASSUME TypeOK, SameOp, NEW d \in Default, NEW e \in Default,
         pc[d] # "yield", pc[e] # "yield"
  PROVE  ip[d] = ip[e] /\ Op(d) = Op(e) /\ (More(d) <=> More(e))
BY DEF SameOp, Started, Op, More

(* A move of one warp leaves the others where they are. *)
LEMMA GotoOnlyMoves ==
  ASSUME TypeOK, NEW w \in Warps, NEW l \in Labels, Goto(w, l)
  PROVE  /\ pc' \in [Warps -> Labels] /\ pc'[w] = l
         /\ \A v \in Warps : v # w => pc'[v] = pc[v]
BY DEF TypeOK, Goto

(* The register numbers of the compiler are integers. *)
LEMMA RegNumbers ==
  /\ MaxNReg \in Int /\ defRegs \in Int /\ lowRegs \in Int
  /\ \A o \in OpIds : HasRegs(o) =>
       /\ ActRegs(o, 0) \in Int
       /\ \A p \in PartIds(o) : ActRegs(o, p) \in Int
<1>1. MaxNReg \in Nat /\ NumDefault \in Nat \ {0} /\ NumWorker \in Nat \ {0}
  BY WSAssumption DEF WSAssumption
<1>2. MaxDefRegs \in Int /\ giveRegs \in Int
  <2>1. (MaxNReg - 24) * NumWorker \in Int /\ (256 - MaxNReg) * NumDefault \in Int
    BY <1>1
  <2>2. ASSUME NEW a \in Int, NEW b \in Nat \ {0} PROVE a \div b \in Int
    OBVIOUS
  <2>3. ((MaxNReg - 24) * NumWorker) \div NumDefault \in Int /\ giveRegs \in Int
    BY <1>1, <2>1, <2>2 DEF giveRegs
  <2> QED BY <1>1, <2>2, <2>3 DEF MaxDefRegs
<1>3. defRegs \in Int /\ lowRegs \in Int
  BY <1>1, <1>2 DEF defRegs, lowRegs, Min2
<1>4. ASSUME NEW o \in OpIds, HasRegs(o), NEW p, p = 0 \/ p \in PartIds(o)
      PROVE  ActRegs(o, p) \in Int
  <2> DEFINE s == Ops[o].regs
             n == Len(Ops[o].nums)
  <2>1. s \in Seq(Nat) /\ Len(s) = n + 1 /\ n \in Nat /\ p \in 0 .. n
    BY <1>4, OpShape
  <2> HIDE DEF s, n
  <2>2. p + 1 \in 1 .. Len(s)
    BY <2>1
  <2>3. s[p + 1] \in Nat
    BY <2>1, <2>2, ElementOfSeq
  <2> QED BY <2>3 DEF ActRegs, s
<1> QED BY <1>1, <1>3, <1>4

(* A reallocation changes registers and nothing else. *)
LEMMA ReallocTypes ==
  ASSUME TypeOK, NEW b \in BOOLEAN, NEW w \in Warps, NEW cur, NEW adj,
         b => cur \in Int /\ adj \in Int, ReallocIf(b, w, cur, adj)
  PROVE  regs' \in [Warps -> Int] /\ free' \in Int
<1>1. CASE b
  BY <1>1 DEF TypeOK, ReallocIf, createRegRealloc, Min2, pool
<1>2. CASE ~b
  BY <1>2 DEF TypeOK, ReallocIf, pool
<1> QED BY <1>1, <1>2

(* What a worker took from a byte stored for the op is one of its partitions. *)
LEMMA PartOfByte ==
  ASSUME TypeOK, NEW d \in Default, NEW w \in Worker, More(d), job[w] = Byte(Op(d), w)
  PROVE  \/ Part(w) = Idle
         \/ /\ Part(w) \in Parts /\ Part(w)[1] = Op(d)
            /\ w \in Team(Op(d), Part(w)[2])
BY OpInKernel, SwitchOfByte DEF Part

-----------------------------------------------------------------------------
(* The initial states and the steps, one by one.                           *)

LEMMA InitIInv == Init => IInv
<1> SUFFICES ASSUME Init PROVE IInv
  OBVIOUS
<1>1. Len(prog) \in Nat
  BY WSAssumption, LenProperties DEF Init, WSAssumption
<1>2. TypeOK
  BY <1>1, RegNumbers, TwoKinds DEF Init, TypeOK, Labels, Junk
<1>3. SameOp
  BY TwoKinds DEF Init, SameOp, Started
<1>4. Between
  BY TwoKinds DEF Init, Between, BetweenDefault, BetweenWorker
<1> QED BY <1>2, <1>3, <1>4 DEF IInv

LEMMA EntryIInv == ASSUME IInv, NEW d \in Default, Entry(d) PROVE IInv'
<1> USE TwoKinds
<1>1. TypeOK /\ SameOp /\ Between
  BY DEF IInv, Entry, Loading, LoadingDefault, Running, RunningDefault, Exiting
<1>2. /\ pc' \in [Warps -> Labels] /\ pc'[d] = "top"
      /\ \A v \in Warps : v # d => pc'[v] = pc[v]
  BY <1>1, GotoOnlyMoves DEF Entry, Labels
<1>3. regs' \in [Warps -> Int] /\ free' \in Int
  BY <1>1, ReallocTypes, RegNumbers DEF Entry
<1>4. TypeOK'
  BY <1>1, <1>2, <1>3 DEF TypeOK, Entry, mem, local
<1>5. SameOp'
  BY <1>1, <1>2 DEF SameOp, Started, Entry
<1>6. Between'
  BY <1>1, <1>2 DEF Between, BetweenDefault, BetweenWorker, Entry, mem, local,
     More, Op, Stored, CapsStored, ExitStored, Part
<1> QED BY <1>4, <1>5, <1>6 DEF IInv

LEMMA StoreStatesIInv == ASSUME IInv, NEW d \in Default, StoreStates(d) PROVE IInv'
<1> USE TwoKinds
<1>1. TypeOK /\ SameOp /\ Between
  BY DEF IInv, StoreStates, Loading, LoadingDefault, Running, RunningDefault, Exiting
<1>2. /\ pc' \in [Warps -> Labels] /\ pc'[d] = "caps"
      /\ \A v \in Warps : v # d => pc'[v] = pc[v]
  BY <1>1, GotoOnlyMoves DEF StoreStates, Labels
<1>3. Op(d) \in OpIds /\ More(d)
  BY <1>1, OpInKernel DEF StoreStates
<1>4. \A w \in Worker : stateMem'[w] = Byte(Op(d), w) /\ Byte(Op(d), w) \in Int
  BY <1>3, SwitchOfByte DEF StoreStates, Byte
<1>5. TypeOK'
  BY <1>1, <1>2, <1>4 DEF TypeOK, StoreStates, local, pool
<1>6. SameOp'
  BY <1>1, <1>2 DEF SameOp, Started, StoreStates
<1>7. ASSUME NEW e \in Default PROVE BetweenDefault(e)'
  <2>1. CASE pc[e] = "yield"
    BY <1>1, <1>2, <2>1 DEF Between, BetweenDefault, StoreStates, More
  <2>2. CASE pc[e] # "yield"
    <3>1. Op(e) = Op(d) /\ More(e)
      BY <1>1, <1>3, <2>2, InSameOp DEF StoreStates
    <3>2. Stored(e)' /\ More(e)' /\ (CapsStored(e) => CapsStored(e)')
      BY <1>4, <3>1 DEF Stored, StoreStates, More, Op, CapsStored
    <3> QED BY <1>1, <1>2, <2>2, <3>1, <3>2 DEF Between, BetweenDefault
  <2> QED BY <2>1, <2>2
<1>8. \A w \in Worker : BetweenWorker(w)'
  BY <1>1, <1>2 DEF Between, BetweenWorker, StoreStates, local, Part
<1> QED BY <1>5, <1>6, <1>7, <1>8 DEF IInv, Between

LEMMA StoreCapturesIInv == ASSUME IInv, NEW d \in Default, StoreCaptures(d) PROVE IInv'
<1> USE TwoKinds
<1>1. TypeOK /\ SameOp /\ Between
  BY DEF IInv, StoreCaptures, Loading, LoadingDefault, Running, RunningDefault, Exiting
<1>2. /\ pc' \in [Warps -> Labels] /\ pc'[d] = "A"
      /\ \A v \in Warps : v # d => pc'[v] = pc[v]
  BY <1>1, GotoOnlyMoves DEF StoreCaptures, Labels
<1>3. More(d) /\ ip[d] \in 1 .. Len(prog)
  BY <1>1, OpInKernel DEF StoreCaptures, Between, BetweenDefault
<1>4. TypeOK'
  BY <1>1, <1>2, <1>3 DEF TypeOK, StoreCaptures, local, pool
<1>5. SameOp'
  BY <1>1, <1>2 DEF SameOp, Started, StoreCaptures
<1>6. ASSUME NEW e \in Default PROVE BetweenDefault(e)'
  <2>1. CASE pc[e] = "yield"
    BY <1>1, <1>2, <2>1 DEF Between, BetweenDefault, StoreCaptures, More
  <2>2. CASE pc[e] # "yield"
    <3>1. Op(e) = Op(d) /\ ip[e] = ip[d]
      BY <1>1, <2>2, InSameOp DEF StoreCaptures
    <3>2. /\ CapsStored(e) \/ e = d => CapsStored(e)'
          /\ Stored(e)' = Stored(e) /\ More(e)' = More(e) /\ ExitStored' = ExitStored
      BY <3>1 DEF Stored, StoreCaptures, More, Op, CapsStored, ExitStored
    <3> QED BY <1>1, <1>2, <2>2, <3>2 DEF Between, BetweenDefault, StoreCaptures
  <2> QED BY <2>1, <2>2
<1>7. \A w \in Worker : BetweenWorker(w)'
  BY <1>1, <1>2 DEF Between, BetweenWorker, StoreCaptures, local, Part
<1> QED BY <1>4, <1>5, <1>6, <1>7 DEF IInv, Between

LEMMA TakeRegsIInv == ASSUME IInv, NEW d \in Default, TakeRegs(d) PROVE IInv'
<1> USE TwoKinds
<1>1. TypeOK /\ SameOp /\ Loading
  BY DEF IInv, TakeRegs, Between, BetweenDefault, Running, RunningDefault, Exiting
<1>2. /\ pc' \in [Warps -> Labels] /\ pc'[d] = "B"
      /\ \A v \in Warps : v # d => pc'[v] = pc[v]
  BY <1>1, GotoOnlyMoves DEF TakeRegs, Labels
<1>3. regs' \in [Warps -> Int] /\ free' \in Int
  <2>1. Op(d) \in OpIds
    BY <1>1, OpInKernel DEF Loading, LoadingDefault
  <2> QED BY <1>1, <2>1, ReallocTypes, RegNumbers DEF TakeRegs, HasRegs
<1>4. TypeOK'
  BY <1>1, <1>2, <1>3 DEF TypeOK, TakeRegs, mem, local
<1>5. SameOp'
  BY <1>1, <1>2 DEF SameOp, Started, TakeRegs, Loading, LoadingDefault
<1>6. Loading'
  BY <1>1, <1>2 DEF Loading, LoadingDefault, LoadingWorker, TakeRegs, mem, local,
     More, Op, Stored, CapsStored, CapsLoaded, Part
<1> QED BY <1>4, <1>5, <1>6 DEF IInv

LEMMA GiveBackRegsIInv == ASSUME IInv, NEW d \in Default, GiveBackRegs(d) PROVE IInv'
<1> USE TwoKinds
<1>1. TypeOK /\ SameOp /\ Between
  BY DEF IInv, GiveBackRegs, Loading, LoadingDefault, Running, RunningDefault, Exiting
<1>2. /\ pc' \in [Warps -> Labels] /\ pc'[d] = "top"
      /\ \A v \in Warps : v # d => pc'[v] = pc[v]
  BY <1>1, GotoOnlyMoves DEF GiveBackRegs, Labels
<1>3. More(d) /\ Op(d) \in OpIds /\ ip[d] \in 1 .. Len(prog) /\ Len(prog) \in Nat
  BY <1>1, OpInKernel DEF GiveBackRegs, Between, BetweenDefault
<1>4. regs' \in [Warps -> Int] /\ free' \in Int
  BY <1>1, <1>3, ReallocTypes, RegNumbers DEF GiveBackRegs, HasRegs
<1>5. /\ ip' \in [Default -> 1 .. Len(prog) + 1] /\ ip'[d] = ip[d] + 1
      /\ \A e \in Default : e # d => ip'[e] = ip[e]
  BY <1>1, <1>3 DEF TypeOK, GiveBackRegs
<1>6. TypeOK'
  BY <1>1, <1>2, <1>4, <1>5 DEF TypeOK, GiveBackRegs, mem, local
<1>7. SameOp'
  BY <1>1, <1>2, <1>5 DEF SameOp, Started, GiveBackRegs
<1>8. ASSUME NEW e \in Default PROVE BetweenDefault(e)'
  <2>1. CASE e = d
    BY <1>2, <2>1 DEF BetweenDefault
  <2>2. CASE e # d
    BY <1>1, <1>2, <1>5, <2>2 DEF Between, BetweenDefault, GiveBackRegs, mem,
       More, Op, Stored, CapsStored, ExitStored
  <2> QED BY <2>1, <2>2
<1>9. \A w \in Worker : BetweenWorker(w)'
  BY <1>1, <1>2 DEF Between, BetweenWorker, GiveBackRegs, local, Part
<1> QED BY <1>6, <1>7, <1>8, <1>9 DEF IInv, Between

LEMMA StoreExitIInv == ASSUME IInv, NEW d \in Default, StoreExit(d) PROVE IInv'
<1> USE TwoKinds
<1>1. TypeOK /\ SameOp /\ Between
  BY DEF IInv, StoreExit, Loading, LoadingDefault, Running, RunningDefault, Exiting
<1>2. /\ pc' \in [Warps -> Labels] /\ pc'[d] = "X"
      /\ \A v \in Warps : v # d => pc'[v] = pc[v]
  BY <1>1, GotoOnlyMoves DEF StoreExit, Labels
<1>3. I8(ExitId) \in Int /\ ExitStored'
  BY PartsFinite, ByteValues DEF StoreExit, ExitStored
<1>4. TypeOK'
  BY <1>1, <1>2, <1>3 DEF TypeOK, StoreExit, local, pool
<1>5. SameOp'
  BY <1>1, <1>2 DEF SameOp, Started, StoreExit
<1>6. ASSUME NEW e \in Default PROVE BetweenDefault(e)'
  <2>1. CASE pc[e] = "yield"
    BY <1>1, <1>2, <2>1 DEF Between, BetweenDefault, StoreExit, More
  <2>2. CASE pc[e] # "yield"
    <3>1. ~More(e) /\ ~More(e)'
      BY <1>1, <2>2, InSameOp DEF StoreExit, More
    <3> QED BY <1>1, <1>2, <1>3, <2>2, <3>1 DEF Between, BetweenDefault
  <2> QED BY <2>1, <2>2
<1>7. \A w \in Worker : BetweenWorker(w)'
  BY <1>1, <1>2 DEF Between, BetweenWorker, StoreExit, local, Part
<1> QED BY <1>4, <1>5, <1>6, <1>7 DEF IInv, Between

LEMMA LoopHeadIInv == ASSUME IInv, NEW w \in Worker, LoopHead(w) PROVE IInv'
<1> USE TwoKinds
<1>1. TypeOK /\ SameOp /\ Between
  BY DEF IInv, LoopHead, Loading, LoadingWorker, Running, RunningWorker, Exiting
<1>2. /\ pc' \in [Warps -> Labels] /\ pc'[w] = "A"
      /\ \A v \in Warps : v # w => pc'[v] = pc[v]
  BY <1>1, GotoOnlyMoves DEF LoopHead, Labels
<1>3. regs' \in [Warps -> Int] /\ free' \in Int
  BY <1>1, ReallocTypes, RegNumbers DEF LoopHead
<1>4. TypeOK'
  BY <1>1, <1>2, <1>3 DEF TypeOK, LoopHead, mem, local
<1>5. SameOp'
  BY <1>1, <1>2 DEF SameOp, Started, LoopHead
<1>6. Between'
  BY <1>1, <1>2 DEF Between, BetweenDefault, BetweenWorker, LoopHead, mem, local,
     More, Op, Stored, CapsStored, ExitStored, Part
<1> QED BY <1>4, <1>5, <1>6 DEF IInv

LEMMA LoadStateIInv == ASSUME IInv, NEW w \in Worker, LoadState(w) PROVE IInv'
<1> USE TwoKinds
<1>1. TypeOK /\ SameOp /\ (Loading \/ Exiting)
  BY DEF IInv, LoadState, Between, BetweenWorker, Running, RunningWorker
<1>2. pc'[w] \in Labels
  BY <1>1 DEF TypeOK, LoadState, Goto, Labels
<1>3. pc' \in [Warps -> Labels] /\ \A v \in Warps : v # w => pc'[v] = pc[v]
  BY <1>1, <1>2 DEF TypeOK, LoadState, Goto
<1>4. /\ job' \in [Worker -> Int] /\ job'[w] = stateMem[w]
      /\ \A v \in Worker : v # w => job'[v] = job[v]
  BY <1>1 DEF TypeOK, LoadState
<1>5. TypeOK'
  BY <1>1, <1>3, <1>4 DEF TypeOK, LoadState, mem, pool
<1>6. SameOp'
  BY <1>1, <1>3 DEF SameOp, Started, LoadState
<1>7. CASE Loading
  <2>1. ASSUME NEW d \in Default PROVE LoadingDefault(d)'
    BY <1>3, <1>7 DEF Loading, LoadingDefault, LoadState, mem, More, Op, Stored, CapsStored
  <2>2. ASSUME NEW d \in Default PROVE LoadingWorker(d, w)'
    <3>1. stateMem[w] = Byte(Op(d), w) /\ More(d) /\ Op(d) \in OpIds
      BY <1>1, <1>7, OpInKernel DEF Loading, LoadingDefault, Stored
    <3>2. Target(stateMem[w]) # Exit
      BY <3>1, SwitchOfByte, TargetsDiffer
    <3>3. /\ Part(w)' = Target(stateMem[w])
          /\ pc'[w] = IF Target(stateMem[w]) = Idle THEN "B" ELSE "grab"
      BY <1>1, <1>4, <3>2 DEF TypeOK, LoadState, Goto, Part
    <3>4. Op(d)' = Op(d)
      BY DEF LoadState, Op
    <3> QED BY <1>4, <3>1, <3>3, <3>4 DEF LoadingWorker, CapsLoaded
  <2>3. ASSUME NEW d \in Default, NEW v \in Worker, v # w PROVE LoadingWorker(d, v)'
    BY <1>3, <1>4, <1>7, <2>3 DEF Loading, LoadingWorker, LoadState, Op, CapsLoaded, Part
  <2>4. Loading'
    BY <2>1, <2>2, <2>3 DEF Loading
  <2> QED BY <1>5, <1>6, <2>4 DEF IInv
<1>8. CASE Exiting
  <2>1. Target(stateMem[w]) = Exit
    BY <1>8 DEF Exiting, ExitStored, Target
  <2>2. pc'[w] = "done"
    BY <1>1, <2>1, TargetsDiffer DEF TypeOK, LoadState, Goto
  <2>3. Exiting'
    BY <1>3, <1>8, <2>2 DEF Exiting, ExitStored, LoadState, mem
  <2> QED BY <1>5, <1>6, <2>3 DEF IInv
<1> QED BY <1>1, <1>7, <1>8

LEMMA GrabRegsIInv == ASSUME IInv, NEW w \in Worker, GrabRegs(w) PROVE IInv'
<1> USE TwoKinds
<1>1. TypeOK /\ SameOp /\ Loading
  BY DEF IInv, GrabRegs, Between, BetweenWorker, Running, RunningWorker, Exiting
<1>2. /\ pc' \in [Warps -> Labels] /\ pc'[w] = "getcaps"
      /\ \A v \in Warps : v # w => pc'[v] = pc[v]
  BY <1>1, GotoOnlyMoves DEF GrabRegs, Labels
<1>3. regs' \in [Warps -> Int] /\ free' \in Int
  <2>1. Part(w) \in Parts
    BY <1>1, PartOfByte DEF Loading, LoadingDefault, LoadingWorker, GrabRegs
  <2> QED BY <1>1, <2>1, PartsPairs, ReallocTypes, RegNumbers DEF GrabRegs, HasRegs
<1>4. TypeOK'
  BY <1>1, <1>2, <1>3 DEF TypeOK, GrabRegs, mem, local
<1>5. SameOp'
  BY <1>1, <1>2 DEF SameOp, Started, GrabRegs
<1>6. Loading'
  BY <1>1, <1>2 DEF Loading, LoadingDefault, LoadingWorker, GrabRegs, mem, local,
     More, Op, Stored, CapsStored, CapsLoaded, Part
<1> QED BY <1>4, <1>5, <1>6 DEF IInv

LEMMA LoadCapturesIInv == ASSUME IInv, NEW w \in Worker, LoadCaptures(w) PROVE IInv'
<1> USE TwoKinds
<1>1. TypeOK /\ SameOp /\ Loading
  BY DEF IInv, LoadCaptures, Between, BetweenWorker, Running, RunningWorker, Exiting
<1>2. /\ pc' \in [Warps -> Labels] /\ pc'[w] = "B"
      /\ \A v \in Warps : v # w => pc'[v] = pc[v]
  BY <1>1, GotoOnlyMoves DEF LoadCaptures, Labels
<1>3. TypeOK'
  BY <1>1, <1>2 DEF TypeOK, LoadCaptures, mem, pool
<1>4. SameOp'
  BY <1>1, <1>2 DEF SameOp, Started, LoadCaptures
<1>5. ASSUME NEW d \in Default PROVE LoadingDefault(d)'
  BY <1>1, <1>2 DEF Loading, LoadingDefault, LoadCaptures, mem, More, Op, Stored, CapsStored
<1>6. ASSUME NEW d \in Default PROVE LoadingWorker(d, w)'
  <2>1. Part(w)[1] = Op(d) /\ CapsStored(d) /\ job[w] = Byte(Op(d), w)
    BY <1>1, PartOfByte DEF Loading, LoadingDefault, LoadingWorker, LoadCaptures
  <2>2. cap'[w] = IF Ops[Op(d)].caps THEN capMem ELSE Junk
    BY <1>1, <2>1 DEF TypeOK, LoadCaptures
  <2> QED BY <1>2, <2>1, <2>2 DEF LoadingWorker, LoadCaptures, CapsStored, CapsLoaded, Op
<1>7. ASSUME NEW d \in Default, NEW v \in Worker, v # w PROVE LoadingWorker(d, v)'
  <2>1. cap'[v] = cap[v]
    BY <1>1, <1>7 DEF TypeOK, LoadCaptures
  <2> QED BY <1>1, <1>2, <1>7, <2>1 DEF Loading, LoadingWorker, LoadCaptures, Op, CapsLoaded, Part
<1> QED BY <1>3, <1>4, <1>5, <1>6, <1>7 DEF IInv, Loading

LEMMA DropRegsIInv == ASSUME IInv, NEW w \in Worker, DropRegs(w) PROVE IInv'
<1> USE TwoKinds
<1>1. TypeOK /\ SameOp /\ Between
  BY DEF IInv, DropRegs, Loading, LoadingWorker, Running, RunningWorker, Exiting
<1>2. /\ pc' \in [Warps -> Labels] /\ pc'[w] = "loop"
      /\ \A v \in Warps : v # w => pc'[v] = pc[v]
  BY <1>1, GotoOnlyMoves DEF DropRegs, Labels
<1>3. regs' \in [Warps -> Int] /\ free' \in Int
  <2>1. Part(w) \in Parts
    BY <1>1 DEF Between, BetweenWorker, DropRegs
  <2> QED BY <1>1, <2>1, PartsPairs, ReallocTypes, RegNumbers DEF DropRegs, HasRegs
<1>4. TypeOK'
  BY <1>1, <1>2, <1>3 DEF TypeOK, DropRegs, mem, local
<1>5. SameOp'
  BY <1>1, <1>2 DEF SameOp, Started, DropRegs
<1>6. Between'
  BY <1>1, <1>2 DEF Between, BetweenDefault, BetweenWorker, DropRegs, mem, local,
     More, Op, Stored, CapsStored, ExitStored, Part
<1> QED BY <1>4, <1>5, <1>6 DEF IInv

LEMMA RunRegionIInv == ASSUME IInv, NEW w \in Warps, RunRegion(w) PROVE IInv'
<1> USE TwoKinds
<1>1. TypeOK /\ SameOp /\ Running
  BY DEF IInv, RunRegion, Between, BetweenDefault, BetweenWorker,
     Loading, LoadingDefault, LoadingWorker, Exiting
<1>2. /\ pc' \in [Warps -> Labels] /\ pc'[w] \in {"sync", "C"}
      /\ \A v \in Warps : v # w => pc'[v] = pc[v]
  BY <1>1 DEF TypeOK, RunRegion, Goto, Labels
<1>3. TypeOK'
  BY <1>1, <1>2 DEF TypeOK, RunRegion, local, pool
<1>4. SameOp'
  BY <1>1, <1>2 DEF SameOp, Started, RunRegion
<1>5. ASSUME NEW d \in Default PROVE RunningDefault(d)'
  BY <1>1, <1>2 DEF Running, RunningDefault, RunRegion, More
<1>6. ASSUME NEW d \in Default, NEW v \in Worker PROVE RunningWorker(d, v)'
  BY <1>1, <1>2 DEF Running, RunningWorker, RunRegion, local, Op, CapsLoaded, Part
<1> QED BY <1>3, <1>4, <1>5, <1>6 DEF IInv, Running

LEMMA GroupBarrierIInv ==
  ASSUME IInv, NEW b \in 0 .. kNumBarriers - 1, GroupBarrier(b) PROVE IInv'
<1> USE TwoKinds
<1> DEFINE W == {w \in Warps : pc[w] = "sync" /\ BarIdx(Region(w)[2]) = b}
<1>0. PICK w \in W : TRUE
  BY DEF GroupBarrier
<1>1. TypeOK /\ SameOp /\ Running
  BY <1>0 DEF IInv, Between, BetweenDefault, BetweenWorker,
     Loading, LoadingDefault, LoadingWorker, Exiting
<1>2. /\ pc' \in [Warps -> Labels]
      /\ \A v \in Warps : pc'[v] = pc[v] \/ pc'[v] = "C"
  BY <1>1 DEF TypeOK, GroupBarrier, Labels
<1>3. TypeOK'
  BY <1>1, <1>2 DEF TypeOK, GroupBarrier, mem, local, pool
<1>4. SameOp'
  BY <1>1, <1>2 DEF SameOp, Started, GroupBarrier
<1>5. ASSUME NEW d \in Default PROVE RunningDefault(d)'
  BY <1>1, <1>2 DEF Running, RunningDefault, GroupBarrier, More
<1>6. ASSUME NEW d \in Default, NEW v \in Worker PROVE RunningWorker(d, v)'
  BY <1>1, <1>2 DEF Running, RunningWorker, GroupBarrier, local, Op, CapsLoaded, Part
<1> QED BY <1>3, <1>4, <1>5, <1>6 DEF IInv, Running

LEMMA SwitchLoopBarrierIInv == ASSUME IInv, SwitchLoopBarrier PROVE IInv'
<1> USE TwoKinds
<1>1. TypeOK /\ SameOp /\ \A w \in Warps : pc[w] \in {"A", "B", "C", "X"}
  BY DEF IInv, SwitchLoopBarrier
<1>2. \A w \in Warps : pc'[w] = AfterBarrier(w)
  BY DEF SwitchLoopBarrier
<1>3. ASSUME NEW d \in Default
      PROVE  \/ pc[d] = "A" /\ pc'[d] = "regs"
             \/ pc[d] = "B" /\ pc'[d] = "region"
             \/ pc[d] = "C" /\ pc'[d] = "yield"
             \/ pc[d] = "X" /\ pc'[d] = "done"
  <2>1. pc[d] \in {"A", "B", "C", "X"} /\ d \notin Worker /\ pc'[d] = AfterBarrier(d)
    BY <1>1, <1>2
  <2> QED BY <2>1 DEF AfterBarrier
<1>4. ASSUME NEW w \in Worker
      PROVE  \/ pc[w] = "A" /\ pc'[w] = "load"
             \/ pc[w] = "B" /\ pc'[w] = IF Part(w) = Idle THEN "C" ELSE "region"
             \/ pc[w] = "C" /\ pc'[w] = IF Part(w) = Idle THEN "loop" ELSE "drop"
             \/ pc[w] = "X"
  <2>1. pc[w] \in {"A", "B", "C", "X"} /\ pc'[w] = AfterBarrier(w)
    BY <1>1, <1>2
  <2> QED BY <2>1 DEF AfterBarrier
<1>5. TypeOK'
  <2>0. \A w \in Worker : pc[w] # "X"
    BY <1>1 DEF IInv, Between, BetweenWorker, Loading, LoadingWorker,
       Running, RunningWorker, Exiting
  <2>1. \A w \in Warps : pc'[w] \in Labels
    BY <1>3, <1>4, <2>0 DEF Labels
  <2>2. pc' \in [Warps -> Labels]
    BY <2>1 DEF SwitchLoopBarrier
  <2> QED BY <1>1, <2>2 DEF TypeOK, SwitchLoopBarrier, mem, local, pool
<1>6. /\ \A d \in Default : /\ Op(d)' = Op(d) /\ More(d)' = More(d)
                           /\ Stored(d)' = Stored(d) /\ CapsStored(d)' = CapsStored(d)
                           /\ \A w \in Worker : CapsLoaded(d, w)' = CapsLoaded(d, w)
      /\ ExitStored' = ExitStored /\ \A w \in Worker : Part(w)' = Part(w)
  BY DEF SwitchLoopBarrier, mem, local, Op, More, Stored, CapsStored, CapsLoaded,
     ExitStored, Part
<1>7. SameOp'
  <2>1. \A d, e \in Default : ip[d] = ip[e]
    BY <1>1, InSameOp
  <2>2. \A d, e \in Default : pc[d] = "C" <=> pc[e] = "C"
    BY <1>1 DEF IInv, Between, BetweenDefault, Loading, LoadingDefault,
       Running, RunningDefault, Exiting
  <2>3. \A d \in Default : pc'[d] = "yield" <=> pc[d] = "C"
    BY <1>3
  <2> QED BY <2>1, <2>2, <2>3 DEF SameOp, Started, SwitchLoopBarrier
<1>8. CASE Between
  <2>1. \A w \in Worker : pc[w] = "A"
    BY <1>1, <1>8 DEF Between, BetweenWorker
  <2>2. \A d \in Default : pc[d] \in {"A", "X"}
    BY <1>1, <1>8 DEF Between, BetweenDefault
  <2>3. CASE \E d \in Default : pc[d] = "A"
    <3>1. \A e \in Default : pc[e] = "A"
      BY <1>1, <1>8, <2>2, <2>3, InSameOp DEF Between, BetweenDefault
    <3>2. Loading'
      BY <1>3, <1>4, <1>6, <1>8, <2>1, <3>1
         DEF Between, BetweenDefault, Loading, LoadingDefault, LoadingWorker
    <3> QED BY <1>5, <1>7, <3>2 DEF IInv
  <2>4. CASE \A d \in Default : pc[d] = "X"
    <3>1. Exiting'
      BY <1>3, <1>4, <1>6, <1>8, <2>1, <2>4 DEF Between, BetweenDefault, Exiting
    <3> QED BY <1>5, <1>7, <3>1 DEF IInv
  <2> QED BY <2>2, <2>3, <2>4
<1>9. CASE Loading
  <2>1. \A w \in Worker : pc[w] = "B"
    BY <1>1, <1>9 DEF Loading, LoadingWorker
  <2>2. \A d \in Default : pc[d] = "B"
    BY <1>1, <1>9 DEF Loading, LoadingDefault
  <2>3. \A d \in Default, w \in Worker : RunningWorker(d, w)'
    BY <1>4, <1>6, <1>9, <2>1 DEF Loading, LoadingWorker, RunningWorker,
       SwitchLoopBarrier, local
  <2>4. Running'
    BY <1>3, <1>6, <1>9, <2>2, <2>3 DEF Loading, LoadingDefault, Running, RunningDefault
  <2> QED BY <1>5, <1>7, <2>4 DEF IInv
<1>10. CASE Running
  <2>1. \A w \in Worker : pc[w] = "C"
    BY <1>1, <1>10 DEF Running, RunningWorker
  <2>2. \A d \in Default : pc[d] = "C"
    BY <1>1, <1>10 DEF Running, RunningDefault
  <2>3. \A w \in Worker : BetweenWorker(w)'
    <3>1. \A w \in Worker : Part(w) = Idle \/ Part(w) \in Parts
      BY <1>1, <1>10, PartOfByte DEF Running, RunningDefault, RunningWorker
    <3> QED BY <1>4, <1>6, <2>1, <3>1 DEF BetweenWorker
  <2>4. Between'
    BY <1>3, <1>6, <1>10, <2>2, <2>3 DEF Running, RunningDefault, Between, BetweenDefault
  <2> QED BY <1>5, <1>7, <2>4 DEF IInv
<1>11. ~Exiting
  BY <1>1 DEF Exiting
<1> QED BY <1>8, <1>9, <1>10, <1>11 DEF IInv

LEMMA StutterIInv == ASSUME IInv, UNCHANGED vars PROVE IInv'
BY DEF IInv, vars, TypeOK, SameOp, Started, Between, BetweenDefault, BetweenWorker,
   Loading, LoadingDefault, LoadingWorker, Running, RunningDefault, RunningWorker,
   Exiting, More, Op, Stored, CapsStored, CapsLoaded, ExitStored, Part

-----------------------------------------------------------------------------
(* Every step of every warp, in any order, keeps the four phases apart. *)
THEOREM Invariance == Spec => []IInv
<1>1. IInv /\ [Next]_vars => IInv'
  <2> SUFFICES ASSUME IInv, [Next]_vars PROVE IInv'
    OBVIOUS
  <2>1. CASE \E d \in Default : DefaultStep(d)
    BY <2>1, EntryIInv, StoreStatesIInv, StoreCapturesIInv, TakeRegsIInv,
       GiveBackRegsIInv, StoreExitIInv DEF DefaultStep
  <2>2. CASE \E w \in Worker : WorkerStep(w)
    BY <2>2, LoopHeadIInv, LoadStateIInv, GrabRegsIInv, LoadCapturesIInv,
       DropRegsIInv DEF WorkerStep
  <2>3. CASE \E w \in Warps : RunRegion(w)
    BY <2>3, RunRegionIInv
  <2>4. CASE \E b \in 0 .. kNumBarriers - 1 : GroupBarrier(b)
    BY <2>4, GroupBarrierIInv
  <2>5. CASE SwitchLoopBarrier
    BY <2>5, SwitchLoopBarrierIInv
  <2>6. CASE UNCHANGED vars
    BY <2>6, StutterIInv
  <2> QED BY <2>1, <2>2, <2>3, <2>4, <2>5, <2>6 DEF Next, Terminated
<1> QED BY <1>1, InitIInv, PTL DEF Spec

(* The variables keep their types. *)
THEOREM TypeCorrect == Spec => []TypeOK
<1>1. IInv => TypeOK
  BY DEF IInv
<1> QED BY <1>1, Invariance, PTL

(* In every kernel, a worker that has been sent to a partition was sent to   *)
(* its own one, of the op that all default warps are executing.              *)
THEOREM WorkersRunTheirPartition == Spec => []RightPartition
<1>1. IInv => RightPartition
  <2> SUFFICES ASSUME IInv, NEW w \in Worker, NEW d \in Default, pc[w] \in Working
      PROVE  /\ pc[d] \in {"regs", "B", "region", "sync", "C"}
             /\ Part(w)[1] = Op(d)
             /\ w \in Team(Part(w)[1], Part(w)[2])
    BY DEF RightPartition
  <2>1. Loading \/ Running
    BY DEF IInv, Working, Between, BetweenWorker, Exiting
  <2>2. /\ pc[d] \in {"regs", "B", "region", "sync", "C"} /\ More(d)
        /\ job[w] = Byte(Op(d), w) /\ Part(w) # Idle
    BY <2>1 DEF Working, Loading, LoadingDefault, LoadingWorker,
       Running, RunningDefault, RunningWorker
  <2> QED BY <2>2, PartOfByte DEF IInv
<1> QED BY <1>1, Invariance, PTL

(* In every kernel, a partition computes on the captures that the default    *)
(* warps stored for this execution of its op.                                *)
THEOREM CapturesOfThisExecution == Spec => []CapturesIntact
<1>1. IInv => CapturesIntact
  <2> SUFFICES ASSUME IInv, NEW w \in Worker, NEW d \in Default,
                      pc[w] \in {"region", "sync"}, Ops[Part(w)[1]].caps
      PROVE  cap[w] = ip[d]
    BY DEF CapturesIntact
  <2>1. Running
    BY DEF IInv, Between, BetweenWorker, Loading, LoadingWorker, Exiting
  <2>2. Part(w)[1] = Op(d) /\ Part(w) # Idle
    BY <2>1, PartOfByte DEF IInv, Running, RunningDefault, RunningWorker
  <2> QED BY <2>1, <2>2 DEF Running, RunningWorker, CapsLoaded
<1> QED BY <1>1, Invariance, PTL

(* In every kernel, the warps that meet at a hardware barrier of a warp      *)
(* group are in the same region.                                             *)
THEOREM BarriersAreNotShared == Spec => []GroupBarrierPure
<1>1. IInv => GroupBarrierPure
  <2> SUFFICES ASSUME IInv, NEW v \in Warps, NEW w \in Warps, pc[v] = "sync", pc[w] = "sync",
                      BarIdx(Region(v)[2]) = BarIdx(Region(w)[2])
      PROVE  Region(v) = Region(w)
    BY DEF GroupBarrierPure
  <2>1. Running
    BY TwoKinds DEF IInv, Between, BetweenDefault, BetweenWorker, Loading,
       LoadingDefault, LoadingWorker, Exiting
  <2>2. ASSUME NEW u \in Warps, pc[u] = "sync"
        PROVE  Region(u) = <<Op(0), Region(u)[2]>> /\ Region(u)[2] \in Nat
    <3>1. CASE u \in Default
      BY <2>1, <3>1, TwoKinds, InSameOp DEF IInv, Running, RunningDefault, Region
    <3>2. CASE u \in Worker
      <4>1. Part(u) \in Parts /\ Part(u)[1] = Op(0)
        BY <2>1, <2>2, <3>2, TwoKinds, PartOfByte
           DEF IInv, Running, RunningDefault, RunningWorker
      <4> QED BY <3>2, <4>1, TwoKinds, PartsPairs DEF Region
    <3> QED BY <3>1, <3>2, TwoKinds
  <2>3. \A m, n \in Nat : BarIdx(m) = BarIdx(n) => m = n
    BY DEF BarIdx, kNumReservedBarriers
  <2> QED BY <2>2, <2>3
<1> QED BY <1>1, Invariance, PTL

-----------------------------------------------------------------------------
(***************************************************************************)
(* Registers.  setmaxnreg decreases at once and increases when the pool    *)
(* has enough, and the code picks one of the two from the registers it     *)
(* believes the warp to have.  RegsInv says that it is right: the warp     *)
(* has what it was last given.  At the head of the switch loop it does not *)
(* know whether this is the first time round.                              *)
(***************************************************************************)
InRegion == {"B", "region", "sync", "C", "yield", "getcaps", "drop"}

DefaultRegs(d) ==
    regs[d] = IF pc[d] = "entry" \/ MaxNReg = 0 THEN MaxNReg
              ELSE IF pc[d] \in InRegion /\ HasRegs(Op(d)) THEN Min2(256, ActRegs(Op(d), 0))
              ELSE Min2(256, defRegs)
WorkerRegs(w) ==
    \/ regs[w] = MaxNReg /\ (pc[w] = "loop" \/ MaxNReg = 0)
    \/ /\ MaxNReg # 0
       /\ regs[w] = IF pc[w] \in InRegion /\ Part(w) # Idle /\ HasRegs(Part(w)[1])
                    THEN Min2(256, ActRegs(Part(w)[1], Part(w)[2]))
                    ELSE Min2(256, lowRegs)
RegsInv == /\ PoolNotOverdrawn
           /\ \A d \in Default : DefaultRegs(d)
           /\ \A w \in Worker : WorkerRegs(w)

(* A reallocation that starts from at least what the code believes leaves    *)
(* the pool with what it can give.                                           *)
LEMMA ReallocSafe ==
  ASSUME TypeOK, PoolNotOverdrawn, NEW w \in Warps, NEW cur \in Int, NEW adj \in Int,
         createRegRealloc(w, cur, adj), regs[w] \in {cur, Min2(256, cur), Min2(256, adj)}
  PROVE  /\ PoolNotOverdrawn' /\ regs'[w] = Min2(256, adj)
         /\ \A v \in Warps : v # w => regs'[v] = regs[v]
<1> DEFINE c == Min2(256, cur)
           a == Min2(256, adj)
<1>1. c \in Int /\ a \in Int /\ regs[w] \in Int /\ free \in Int /\ free >= 0
  BY DEF TypeOK, Min2, PoolNotOverdrawn
<1>2. /\ a < c \/ a - regs[w] <= free
      /\ regs' = [regs EXCEPT ![w] = a] /\ free' = free - (a - regs[w])
  BY DEF createRegRealloc
<1>3. regs[w] >= c \/ regs[w] = a
  BY DEF Min2
<1> HIDE DEF a, c
<1>4. free' >= 0
  BY <1>1, <1>2, <1>3
<1>5. regs'[w] = a /\ \A v \in Warps : v # w => regs'[v] = regs[v]
  BY <1>2 DEF TypeOK
<1> QED BY <1>4, <1>5 DEF PoolNotOverdrawn, a

(* Without a reallocation nothing changes. *)
LEMMA KeepSafe ==
  ASSUME PoolNotOverdrawn, NEW w \in Warps, UNCHANGED pool
  PROVE  PoolNotOverdrawn' /\ regs' = regs
BY DEF PoolNotOverdrawn, pool

(* The default warps' reallocations. *)
LEMMA DefaultRegsInv ==
  ASSUME IInv, RegsInv, NEW d \in Default, DefaultStep(d) PROVE RegsInv'
<1> USE TwoKinds
<1>0. TypeOK /\ PoolNotOverdrawn /\ DefaultRegs(d)
  BY DEF IInv, RegsInv
<1>1. /\ \A v \in Warps : v # d => pc'[v] = pc[v]
      /\ \A e \in Default : e # d => ip'[e] = ip[e] /\ Op(e)' = Op(e)
      /\ \A w \in Worker : Part(w)' = Part(w)
  BY <1>0 DEF TypeOK, DefaultStep, Entry, StoreStates, StoreCaptures, TakeRegs,
     GiveBackRegs, StoreExit, Goto, local, Op, Part
<1>2. ASSUME PoolNotOverdrawn', DefaultRegs(d)', \A v \in Warps : v # d => regs'[v] = regs[v]
      PROVE  RegsInv'
  <2>1. ASSUME NEW e \in Default PROVE DefaultRegs(e)'
    BY <1>1, <1>2 DEF RegsInv, DefaultRegs
  <2>2. ASSUME NEW w \in Worker PROVE WorkerRegs(w)'
    BY <1>1, <1>2 DEF RegsInv, WorkerRegs
  <2> QED BY <1>2, <2>1, <2>2 DEF RegsInv
<1>3. CASE Entry(d)
  <2>1. pc[d] = "entry" /\ regs[d] = MaxNReg /\ pc'[d] = "top"
    BY <1>0, <1>3 DEF TypeOK, Entry, Goto, DefaultRegs
  <2>2. /\ PoolNotOverdrawn' /\ \A v \in Warps : v # d => regs'[v] = regs[v]
        /\ regs'[d] = IF MaxNReg # 0 THEN Min2(256, defRegs) ELSE regs[d]
    BY <1>0, <1>3, <2>1, ReallocSafe, KeepSafe, RegNumbers DEF Entry, ReallocIf
  <2> QED BY <1>2, <2>1, <2>2 DEF DefaultRegs, InRegion
<1>4. CASE StoreStates(d) \/ StoreCaptures(d) \/ StoreExit(d)
  <2>1. /\ PoolNotOverdrawn' /\ regs' = regs
        /\ pc[d] \in {"top", "caps"} /\ pc'[d] \in {"caps", "A", "X"}
    BY <1>0, <1>4 DEF TypeOK, StoreStates, StoreCaptures, StoreExit, Goto, pool,
       PoolNotOverdrawn
  <2> QED BY <1>0, <1>2, <2>1 DEF DefaultRegs, InRegion
<1>5. CASE TakeRegs(d)
  <2>1. pc[d] = "regs" /\ pc'[d] = "B" /\ Op(d)' = Op(d) /\ Op(d) \in OpIds
    BY <1>0, <1>5, OpInKernel DEF TypeOK, TakeRegs, Goto, Op, IInv, Between,
       BetweenDefault, Loading, LoadingDefault, Running, RunningDefault, Exiting
  <2>2. HasRegs(Op(d)) => MaxNReg # 0 /\ regs[d] = Min2(256, defRegs)
    BY <1>0, <2>1, PartitionAssumption DEF PartitionAssumption, DefaultRegs, InRegion
  <2>3. /\ PoolNotOverdrawn' /\ \A v \in Warps : v # d => regs'[v] = regs[v]
        /\ regs'[d] = IF HasRegs(Op(d)) THEN Min2(256, ActRegs(Op(d), 0)) ELSE regs[d]
    BY <1>0, <1>5, <2>1, <2>2, ReallocSafe, KeepSafe, RegNumbers DEF TakeRegs, ReallocIf
  <2> QED BY <1>0, <1>2, <2>1, <2>2, <2>3 DEF DefaultRegs, InRegion
<1>6. CASE GiveBackRegs(d)
  <2>1. pc[d] = "yield" /\ pc'[d] = "top" /\ Op(d) \in OpIds
    BY <1>0, <1>6, OpInKernel DEF TypeOK, GiveBackRegs, Goto, IInv, Between,
       BetweenDefault, Loading, LoadingDefault, Running, RunningDefault, Exiting
  <2>2. HasRegs(Op(d)) => MaxNReg # 0 /\ regs[d] = Min2(256, ActRegs(Op(d), 0))
    BY <1>0, <2>1, PartitionAssumption DEF PartitionAssumption, DefaultRegs, InRegion
  <2>3. /\ PoolNotOverdrawn' /\ \A v \in Warps : v # d => regs'[v] = regs[v]
        /\ regs'[d] = IF HasRegs(Op(d)) THEN Min2(256, defRegs) ELSE regs[d]
    BY <1>0, <1>6, <2>1, <2>2, ReallocSafe, KeepSafe, RegNumbers DEF GiveBackRegs, ReallocIf
  <2> QED BY <1>0, <1>2, <2>1, <2>2, <2>3 DEF DefaultRegs, InRegion
<1> QED BY <1>3, <1>4, <1>5, <1>6 DEF DefaultStep

(* The workers' reallocations. *)
LEMMA WorkerRegsInv ==
  ASSUME IInv, RegsInv, NEW w \in Worker, WorkerStep(w) PROVE RegsInv'
<1> USE TwoKinds
<1>0. TypeOK /\ PoolNotOverdrawn /\ WorkerRegs(w)
  BY DEF IInv, RegsInv
<1>1. /\ \A v \in Warps : v # w => pc'[v] = pc[v]
      /\ \A d \in Default : Op(d)' = Op(d)
      /\ \A v \in Worker : v # w => Part(v)' = Part(v)
  <2>1. \A v \in Warps : v # w => pc'[v] = pc[v]
    BY <1>0 DEF TypeOK, WorkerStep, LoopHead, LoadState, GrabRegs, LoadCaptures,
       DropRegs, Goto
  <2>2. UNCHANGED <<prog, ip>> /\ \A v \in Worker : v # w => job'[v] = job[v]
    BY <1>0 DEF TypeOK, WorkerStep, LoopHead, LoadState, GrabRegs, LoadCaptures,
       DropRegs, local
  <2> QED BY <2>1, <2>2 DEF Op, Part
<1>2. ASSUME PoolNotOverdrawn', WorkerRegs(w)', \A v \in Warps : v # w => regs'[v] = regs[v]
      PROVE  RegsInv'
  <2>1. ASSUME NEW d \in Default PROVE DefaultRegs(d)'
    BY <1>1, <1>2 DEF RegsInv, DefaultRegs
  <2>2. ASSUME NEW v \in Worker PROVE WorkerRegs(v)'
    BY <1>1, <1>2 DEF RegsInv, WorkerRegs
  <2> QED BY <1>2, <2>1, <2>2 DEF RegsInv
<1>3. CASE LoopHead(w)
  <2>1. pc[w] = "loop" /\ regs[w] \in {MaxNReg, Min2(256, lowRegs)} /\ pc'[w] = "A"
    BY <1>0, <1>3 DEF TypeOK, LoopHead, Goto, WorkerRegs, InRegion
  <2>2. /\ PoolNotOverdrawn' /\ \A v \in Warps : v # w => regs'[v] = regs[v]
        /\ regs'[w] = IF MaxNReg # 0 THEN Min2(256, lowRegs) ELSE regs[w]
    BY <1>0, <1>3, <2>1, ReallocSafe, KeepSafe, RegNumbers DEF LoopHead, ReallocIf
  <2> QED BY <1>0, <1>2, <2>1, <2>2 DEF WorkerRegs, InRegion
<1>4. CASE LoadState(w)
  <2>1. pc[w] = "load" /\ pc'[w] \in {"grab", "B", "done"} /\ (pc'[w] = "B" => Part(w)' = Idle)
    BY <1>0, <1>4, TargetsDiffer DEF TypeOK, LoadState, Goto, Part
  <2>2. PoolNotOverdrawn' /\ regs' = regs
    BY <1>0, <1>4, KeepSafe DEF LoadState
  <2> QED BY <1>0, <1>2, <2>1, <2>2 DEF WorkerRegs, InRegion
<1>5. CASE GrabRegs(w)
  <2> DEFINE q == Part(w)
  <2>1. pc[w] = "grab" /\ pc'[w] = "getcaps" /\ Part(w)' = q
    BY <1>0, <1>5 DEF TypeOK, GrabRegs, Goto, Part, local
  <2>2. q \in Parts /\ q # Idle
    BY <2>1, TwoKinds, PartOfByte DEF IInv, Between, BetweenWorker, Loading, LoadingDefault,
       LoadingWorker, Running, RunningWorker, Exiting
  <2>3. HasRegs(q[1]) => MaxNReg # 0 /\ regs[w] = Min2(256, lowRegs)
    BY <1>0, <2>1, <2>2, PartsPairs, PartitionAssumption
       DEF PartitionAssumption, WorkerRegs, InRegion
  <2>4. /\ PoolNotOverdrawn' /\ \A v \in Warps : v # w => regs'[v] = regs[v]
        /\ regs'[w] = IF HasRegs(q[1]) THEN Min2(256, ActRegs(q[1], q[2])) ELSE regs[w]
    BY <1>0, <1>5, <2>2, <2>3, PartsPairs, ReallocSafe, KeepSafe, RegNumbers
       DEF GrabRegs, ReallocIf
  <2> HIDE DEF q
  <2>5. WorkerRegs(w)'
    <3>1. CASE HasRegs(q[1])
      BY <2>1, <2>2, <2>3, <2>4, <3>1 DEF WorkerRegs, InRegion
    <3>2. CASE ~HasRegs(q[1])
      BY <1>0, <2>1, <2>4, <3>2 DEF WorkerRegs, InRegion
    <3> QED BY <3>1, <3>2
  <2> QED BY <1>2, <2>4, <2>5
<1>6. CASE LoadCaptures(w)
  <2>1. pc[w] = "getcaps" /\ pc'[w] = "B" /\ Part(w)' = Part(w)
    BY <1>0, <1>6 DEF TypeOK, LoadCaptures, Goto, Part
  <2>2. PoolNotOverdrawn' /\ regs' = regs
    BY <1>0, <1>6, KeepSafe DEF LoadCaptures
  <2> QED BY <1>0, <1>2, <2>1, <2>2 DEF WorkerRegs, InRegion
<1>7. CASE DropRegs(w)
  <2> DEFINE q == Part(w)
  <2>1. pc[w] = "drop" /\ pc'[w] = "loop" /\ Part(w)' = q
    BY <1>0, <1>7 DEF TypeOK, DropRegs, Goto, Part, local
  <2>2. q \in Parts /\ q # Idle
    BY <2>1, TwoKinds, TargetsDiffer DEF IInv, Between, BetweenWorker, Loading, LoadingDefault,
       LoadingWorker, Running, RunningWorker, Exiting
  <2>3. HasRegs(q[1]) => MaxNReg # 0 /\ regs[w] = Min2(256, ActRegs(q[1], q[2]))
    BY <1>0, <2>1, <2>2, PartsPairs, PartitionAssumption
       DEF PartitionAssumption, WorkerRegs, InRegion
  <2>4. /\ PoolNotOverdrawn' /\ \A v \in Warps : v # w => regs'[v] = regs[v]
        /\ regs'[w] = IF HasRegs(q[1]) THEN Min2(256, lowRegs) ELSE regs[w]
    BY <1>0, <1>7, <2>2, <2>3, PartsPairs, ReallocSafe, KeepSafe, RegNumbers
       DEF DropRegs, ReallocIf
  <2>5. WorkerRegs(w)'
    <3>1. CASE HasRegs(q[1])
      BY <2>1, <2>3, <2>4, <3>1 DEF WorkerRegs, InRegion
    <3>2. CASE ~HasRegs(q[1])
      BY <1>0, <2>1, <2>4, <3>2 DEF WorkerRegs, InRegion
    <3> QED BY <3>1, <3>2
  <2> QED BY <1>2, <2>4, <2>5
<1> QED BY <1>3, <1>4, <1>5, <1>6, <1>7 DEF WorkerStep

(* Regions and barriers leave the registers alone. *)
LEMMA OtherRegsInv ==
  ASSUME IInv, RegsInv,
         \/ \E w \in Warps : RunRegion(w)
         \/ \E b \in 0 .. kNumBarriers - 1 : GroupBarrier(b)
         \/ SwitchLoopBarrier
         \/ UNCHANGED vars
  PROVE  RegsInv'
<1> USE TwoKinds
<1>0. TypeOK /\ PoolNotOverdrawn
  BY DEF IInv, RegsInv
<1>1. /\ PoolNotOverdrawn' /\ regs' = regs
      /\ \A d \in Default : Op(d)' = Op(d)
      /\ \A w \in Worker : Part(w)' = Part(w)
  BY <1>0 DEF RunRegion, GroupBarrier, SwitchLoopBarrier, vars, pool, local, mem,
     PoolNotOverdrawn, Op, Part
<1>2. ASSUME NEW d \in Default PROVE DefaultRegs(d)'
  <2>1. \/ pc'[d] = pc[d]
        \/ pc[d] \in InRegion /\ pc'[d] \in InRegion
        \/ pc[d] \in {"A", "X"} /\ pc'[d] \in {"regs", "done"}
    <3>1. CASE \E w \in Warps : RunRegion(w)
      BY <1>0, <3>1 DEF TypeOK, RunRegion, Goto, InRegion
    <3>2. CASE \E b \in 0 .. kNumBarriers - 1 : GroupBarrier(b)
      BY <3>2 DEF GroupBarrier, InRegion
    <3>3. CASE SwitchLoopBarrier
      BY <3>3 DEF SwitchLoopBarrier, AfterBarrier, InRegion
    <3>4. CASE UNCHANGED vars
      BY <3>4 DEF vars
    <3> QED BY <3>1, <3>2, <3>3, <3>4
  <2> QED BY <1>1, <2>1 DEF RegsInv, DefaultRegs, InRegion
<1>3. ASSUME NEW w \in Worker PROVE WorkerRegs(w)'
  <2>1. \/ pc'[w] = pc[w]
        \/ pc[w] \in InRegion /\ pc'[w] \in InRegion
        \/ pc[w] = "A" /\ pc'[w] = "load"
        \/ pc[w] # "loop" /\ Part(w) = Idle
    <3>1. CASE \E v \in Warps : RunRegion(v)
      BY <1>0, <3>1 DEF TypeOK, RunRegion, Goto, InRegion
    <3>2. CASE \E b \in 0 .. kNumBarriers - 1 : GroupBarrier(b)
      BY <3>2 DEF GroupBarrier, InRegion
    <3>3. CASE SwitchLoopBarrier
      <4>1. pc[w] # "X" /\ pc[w] \in {"A", "B", "C", "X"} /\ pc'[w] = AfterBarrier(w)
        BY <3>3 DEF SwitchLoopBarrier, IInv, Between, BetweenWorker, Loading, LoadingWorker,
           Running, RunningWorker, Exiting
      <4> QED BY <4>1 DEF AfterBarrier, InRegion
    <3>4. CASE UNCHANGED vars
      BY <3>4 DEF vars
    <3> QED BY <3>1, <3>2, <3>3, <3>4
  <2> QED BY <1>1, <2>1 DEF RegsInv, WorkerRegs, InRegion
<1> QED BY <1>1, <1>2, <1>3 DEF RegsInv

(* In every kernel and under every register limit, the warps never hold more *)
(* registers than the CTA was launched with.                                 *)
THEOREM RegistersNeverOverdrawn == Spec => []PoolNotOverdrawn
<1>1. Init => RegsInv
  BY TwoKinds DEF Init, RegsInv, PoolNotOverdrawn, DefaultRegs, WorkerRegs
<1>2. IInv /\ RegsInv /\ [Next]_vars => RegsInv'
  BY DefaultRegsInv, WorkerRegsInv, OtherRegsInv DEF Next, Terminated
<1>3. RegsInv => PoolNotOverdrawn
  BY DEF RegsInv
<1> QED BY <1>1, <1>2, <1>3, Invariance, PTL DEF Spec

-----------------------------------------------------------------------------
(***************************************************************************)
(* The machine implements the fork and join of ForkJoin.  The fork is the  *)
(* release of barrier A, the join that of barrier C, and a warp is through *)
(* when it reaches C; everything between them is invisible, because of the *)
(* phases of the inductive invariant above.                                *)
(***************************************************************************)
\* The variables of ForkJoin in the state of the machine.
Started0 == IF InOp(0) \/ pc[0] = "yield" THEN ip[0] ELSE ip[0] - 1
Stage == IF InOp(0) THEN "forked" ELSE IF pc[0] = "done" THEN "exited" ELSE "seq"
Tasks == [w \in Worker |-> FJtask(w)]
Through == {w \in Warps : InOp(0) /\ pc[w] = "C" /\ (w \in Default \/ Part(w) # Idle)}
View == <<prog, Started0, Stage, Tasks, Through>>

\* The task of a worker in an execution, from stateMap and the captures.
TaskOf(o, n, w) ==
    LET T == {p \in PartIds(o) : w \in Team(o, p)}
    IN IF T = {} THEN <<>>
       ELSE <<o, CHOOSE p \in T : TRUE, IF Ops[o].caps THEN n ELSE 0>>
TaskAt(n, w) == TaskOf(prog[n], n, w)

\* What the workers have to do does not change while the op is executed.
TasksFixed ==
    \A w \in Worker : FJtask(w) = IF InOp(0) THEN TaskAt(ip[0], w) ELSE <<>>

(* A worker belongs to one partition of an op at most. *)
LEMMA OnePartition ==
  ASSUME NEW o \in OpIds, NEW w \in Worker, NEW p \in PartIds(o), w \in Team(o, p)
  PROVE  {q \in PartIds(o) : w \in Team(o, q)} = {p}
BY PartitionAssumption DEF PartitionAssumption

(* ForkJoin's task is that of stateMap. *)
LEMMA TaskIsTaskAt ==
  ASSUME TypeOK, NEW w \in Worker, NEW n \in 1 .. Len(prog)
  PROVE  /\ FJ!Task(n, w) = TaskAt(n, w)
         /\ TaskAt(n, w) = <<>> <=> \A p \in PartIds(prog[n]) : w \notin Team(prog[n], p)
<1> DEFINE o == prog[n]
<1>1. o \in OpIds
  BY WSAssumption, ElementOfSeq DEF TypeOK, WSAssumption
<1> HIDE DEF o
<1>2. CASE \E p \in PartIds(o) : w \in Team(o, p)
  <2>1. PICK p \in PartIds(o) : w \in Team(o, p)
    BY <1>2
  <2>2. {q \in PartIds(o) : w \in Team(o, q)} = {p}
    BY <1>1, <2>1, OnePartition
  <2>3. (CHOOSE q \in PartIds(o) : w \in Team(o, q)) = p
    BY <2>1, <2>2
  <2>4. (CHOOSE q \in {p} : TRUE) = p
    OBVIOUS
  <2>5. p # 0
    BY <1>1, OpShape
  <2>6. TaskAt(n, w) = <<o, p, IF Ops[o].caps THEN n ELSE 0>>
    BY <2>2, <2>4 DEF TaskAt, TaskOf, o
  <2>7. FJ!Task(n, w) = <<o, p, IF Ops[o].caps THEN n ELSE 0>>
    BY <1>1, <1>2, <2>3, <2>5 DEF FJ!Task, o
  <2> QED BY <1>2, <2>6, <2>7 DEF o
<1>3. CASE ~ \E p \in PartIds(o) : w \in Team(o, p)
  <2>1. TaskAt(n, w) = <<>>
    BY <1>3 DEF TaskAt, TaskOf, o
  <2>2. FJ!Task(n, w) = <<>>
    BY <1>1, <1>3 DEF FJ!Task, FJ!None, o
  <2> QED BY <1>3, <2>1, <2>2 DEF o
<1> QED BY <1>2, <1>3

(* A state byte of the op, with its captures where they are to be found,     *)
(* makes the task of this execution.                                         *)
LEMMA TaskOfByte ==
  ASSUME TypeOK, More(0), NEW w \in Worker, NEW c,
         LET q == Target(Byte(Op(0), w)) IN
            q # Idle /\ Ops[q[1]].caps => c = ip[0]
  PROVE  LET q == Target(Byte(Op(0), w)) IN
         TaskAt(ip[0], w) = IF q \in {Idle, Exit} THEN <<>>
                            ELSE <<q[1], q[2], IF Ops[q[1]].caps THEN c ELSE 0>>
<1> DEFINE q == Target(Byte(Op(0), w))
<1>1. Op(0) \in OpIds /\ Op(0) = prog[ip[0]]
  BY TwoKinds, OpInKernel DEF Op
<1>2. CASE q \in Parts
  <2>1. q[1] = Op(0) /\ q[2] \in PartIds(Op(0)) /\ w \in Team(Op(0), q[2])
    BY <1>1, <1>2, SwitchOfByte, TargetsDiffer, PartsPairs
  <2>2. {p \in PartIds(Op(0)) : w \in Team(Op(0), p)} = {q[2]}
    BY <1>1, <2>1, OnePartition
  <2>3. (CHOOSE p \in {q[2]} : TRUE) = q[2]
    OBVIOUS
  <2>4. q \notin {Idle, Exit}
    BY <1>2, TargetsDiffer
  <2> HIDE DEF q
  <2>5. TaskAt(ip[0], w) = <<q[1], q[2], IF Ops[q[1]].caps THEN ip[0] ELSE 0>>
    BY <1>1, <2>1, <2>2, <2>3 DEF TaskAt, TaskOf
  <2> QED BY <2>4, <2>5 DEF q
<1>3. CASE q \notin Parts
  <2>1. q = Idle /\ \A p \in PartIds(Op(0)) : w \notin Team(Op(0), p)
    BY <1>1, <1>3, SwitchOfByte
  <2>2. TaskAt(ip[0], w) = <<>>
    BY <1>1, <2>1 DEF TaskAt, TaskOf
  <2> QED BY <2>1, <2>2
<1> QED BY <1>2, <1>3

(* The tasks are fixed from barrier A to barrier C. *)
LEMMA TasksAreFixed == IInv => TasksFixed
<1> SUFFICES ASSUME IInv, NEW w \in Worker
             PROVE  FJtask(w) = IF InOp(0) THEN TaskAt(ip[0], w) ELSE <<>>
  BY DEF TasksFixed
<1>1. TypeOK /\ 0 \in Default
  BY TwoKinds DEF IInv
<1>2. CASE ~InOp(0)
  BY <1>2 DEF FJtask
<1>3. CASE InOp(0)
  <2> DEFINE loaded == pc[w] # "load"
             b == IF loaded THEN job[w] ELSE stateMem[w]
             c == IF loaded /\ pc[w] \notin {"grab", "getcaps"} THEN cap[w] ELSE capMem
  <2>1. Loading \/ Running
    BY <1>1, <1>3 DEF IInv, InOp, Between, BetweenDefault, Exiting
  <2>2. More(0) /\ b = Byte(Op(0), w)
    BY <1>1, <2>1 DEF Loading, LoadingDefault, LoadingWorker, Stored, Running, RunningDefault,
       RunningWorker
  <2>3. Target(b) # Idle /\ Ops[Target(b)[1]].caps => c = ip[0]
    <3>1. Op(0) \in OpIds
      BY <1>1, <2>2, OpInKernel
    <3>2. Target(b) # Idle => Target(b)[1] = Op(0)
      BY <2>2, <3>1, SwitchOfByte
    <3> QED BY <1>1, <2>1, <3>2 DEF Loading, LoadingDefault, LoadingWorker, CapsStored, Running,
            RunningWorker, CapsLoaded, Part
  <2> HIDE DEF b, c
  <2>4. TaskAt(ip[0], w) = IF Target(b) \in {Idle, Exit} THEN <<>>
                           ELSE <<Target(b)[1], Target(b)[2], IF Ops[Target(b)[1]].caps THEN c ELSE 0>>
    BY <1>1, <2>2, <2>3, TaskOfByte
  <2> QED BY <1>3, <2>4 DEF FJtask, b, c
<1> QED BY <1>2, <1>3

-----------------------------------------------------------------------------
(* The steps, as ForkJoin sees them.                                       *)

(* What a step that keeps warp 0 on its side of the barriers leaves alone.   *)
LEMMA SameView ==
  ASSUME TasksFixed, TasksFixed', UNCHANGED prog, InOp(0)' = InOp(0), InOp(0) => ip'[0] = ip[0]
  PROVE  UNCHANGED Tasks
<1>1. ASSUME NEW w \in Worker PROVE FJtask(w)' = FJtask(w)
  <2>1. CASE InOp(0)
    <3>1. FJtask(w) = TaskAt(ip[0], w) /\ FJtask(w)' = TaskAt(ip[0], w)'
      BY <2>1 DEF TasksFixed
    <3>2. TaskAt(ip[0], w)' = TaskAt(ip[0], w)
      BY <2>1 DEF TaskAt
    <3> QED BY <3>1, <3>2
  <2>2. CASE ~InOp(0)
    BY <2>2 DEF TasksFixed
  <2> QED BY <2>1, <2>2
<1> QED BY <1>1 DEF Tasks

(* The default warps' own steps are invisible. *)
LEMMA DefaultInvisible ==
  ASSUME IInv, TasksFixed, TasksFixed', NEW d \in Default, DefaultStep(d)
  PROVE  UNCHANGED View
<1> USE TwoKinds
<1>1. TypeOK /\ UNCHANGED <<prog, job>>
  BY DEF IInv, DefaultStep, Entry, StoreStates, StoreCaptures, TakeRegs, GiveBackRegs, StoreExit,
     local
<1>2. \/ pc[d] = "entry" /\ pc'[d] = "top" /\ ip' = ip
      \/ pc[d] = "top" /\ pc'[d] \in {"caps", "X"} /\ ip' = ip
      \/ pc[d] = "caps" /\ pc'[d] = "A" /\ ip' = ip
      \/ pc[d] = "regs" /\ pc'[d] = "B" /\ ip' = ip
      \/ pc[d] = "yield" /\ pc'[d] = "top" /\ ip' = [ip EXCEPT ![d] = @ + 1]
  BY <1>1 DEF TypeOK, DefaultStep, Entry, StoreStates, StoreCaptures, TakeRegs, GiveBackRegs,
     StoreExit, Goto
<1>3. \A v \in Warps : v # d => pc'[v] = pc[v]
  BY <1>1 DEF TypeOK, DefaultStep, Entry, StoreStates, StoreCaptures, TakeRegs, GiveBackRegs,
     StoreExit, Goto
<1>4. InOp(0)' = InOp(0) /\ Stage' = Stage
  BY <1>2, <1>3 DEF InOp, Stage
<1>5. (InOp(0) => ip'[0] = ip[0]) /\ Started0' = Started0
  <2>1. ip[0] \in Nat
    BY <1>1, OpInKernel
  <2> QED BY <1>1, <1>2, <1>3, <2>1 DEF InOp, Started0, TypeOK
<1>6. Through' = Through
  <2>1. \A w \in Warps : (pc'[w] = "C") = (pc[w] = "C")
    BY <1>2, <1>3
  <2> QED BY <1>1, <1>4, <2>1 DEF Through, Part
<1> QED BY <1>1, <1>4, <1>5, <1>6, SameView DEF View

(* So are the workers'. *)
LEMMA WorkerInvisible ==
  ASSUME IInv, TasksFixed, TasksFixed', NEW w \in Worker, WorkerStep(w)
  PROVE  UNCHANGED View
<1> USE TwoKinds
<1>1. TypeOK /\ UNCHANGED <<prog, ip>>
  BY DEF IInv, WorkerStep, LoopHead, LoadState, GrabRegs, LoadCaptures, DropRegs
<1>2. /\ pc[w] \in {"loop", "load", "grab", "getcaps", "drop"} /\ pc'[w] # "C"
      /\ \A v \in Warps : v # w => pc'[v] = pc[v]
      /\ \A v \in Worker : v # w => job'[v] = job[v]
  BY <1>1 DEF TypeOK, WorkerStep, LoopHead, LoadState, GrabRegs, LoadCaptures, DropRegs, Goto, local
<1>3. InOp(0)' = InOp(0) /\ Stage' = Stage /\ Started0' = Started0
  BY <1>1, <1>2 DEF InOp, Stage, Started0
<1>4. Through' = Through
  BY <1>2, <1>3 DEF Through, Part
<1> QED BY <1>1, <1>3, <1>4, SameView DEF View

(* The warps that are through are those that are not idle and wait at C.     *)
LEMMA BusyWarps ==
  ASSUME IInv, TasksFixed, Running, NEW w \in Worker
  PROVE  Tasks[w] = <<>> <=> Part(w) = Idle
<1>1. TypeOK /\ 0 \in Default /\ InOp(0) /\ More(0) /\ job[w] = Byte(Op(0), w)
  BY TwoKinds DEF IInv, Running, RunningDefault, RunningWorker, InOp
<1>2. Tasks[w] = TaskAt(ip[0], w) /\ ip[0] \in 1 .. Len(prog) /\ Op(0) \in OpIds
  BY <1>1, OpInKernel DEF TasksFixed, Tasks
<1>3. Tasks[w] = <<>> <=> \A p \in PartIds(Op(0)) : w \notin Team(Op(0), p)
  BY <1>1, <1>2, TaskIsTaskAt DEF Op
<1>4. Part(w) = Idle <=> \A p \in PartIds(Op(0)) : w \notin Team(Op(0), p)
  BY <1>1, <1>2, SwitchOfByte, TargetsDiffer, PartsPairs DEF Part
<1> QED BY <1>3, <1>4

(* A region, or a barrier in it, only lets warps get through.                *)
LEMMA RegionFinishes ==
  ASSUME IInv, TasksFixed, TasksFixed',
         (\E w \in Warps : RunRegion(w)) \/ \E b \in 0 .. kNumBarriers - 1 : GroupBarrier(b)
  PROVE  FJ!Finish \/ UNCHANGED View
<1> USE TwoKinds
<1>1. TypeOK /\ UNCHANGED <<prog, ip, job>>
  BY DEF IInv, RunRegion, GroupBarrier, local
<1>2. \A w \in Warps : pc'[w] = pc[w] \/ (pc[w] \in {"region", "sync"} /\ pc'[w] \in {"sync", "C"})
  <2>1. CASE \E w \in Warps : RunRegion(w)
    BY <1>1, <2>1 DEF TypeOK, RunRegion, Goto
  <2>2. CASE \E b \in 0 .. kNumBarriers - 1 : GroupBarrier(b)
    BY <2>2 DEF GroupBarrier
  <2> QED BY <2>1, <2>2
<1>3. InOp(0)' = InOp(0) /\ Stage' = Stage /\ Started0' = Started0
  BY <1>1, <1>2 DEF InOp, Stage, Started0
<1>4. UNCHANGED Tasks
  BY <1>1, <1>3, SameView
<1>5. CASE \A w \in Warps : pc'[w] = pc[w]
  <2>1. Through' = Through
    BY <1>1, <1>3, <1>5 DEF Through, Part
  <2> QED BY <1>1, <1>3, <1>4, <2>1 DEF View
<1>6. CASE \E w \in Warps : pc[w] \in {"region", "sync"}
  <2>1. Running /\ InOp(0)
    BY <1>6 DEF IInv, Between, BetweenDefault, BetweenWorker, Loading, LoadingDefault,
       LoadingWorker, Exiting, Running, RunningDefault, InOp
  <2>2. \A w \in Worker : pc[w] # "C" => Part(w) # Idle
    BY <2>1 DEF Running, RunningWorker
  <2> DEFINE W == {w \in Warps : pc'[w] = "C" /\ pc[w] # "C"}
             Busy == Default \cup {w \in Worker : Tasks[w] # <<>>}
  <2>3. W \subseteq Busy \ Through
    BY <2>1, <2>2, BusyWarps DEF Through
  <2>4. Through' = Through \cup W
    <3>1. \A w \in Warps : pc[w] = "C" => pc'[w] = "C"
      BY <1>2
    <3> QED BY <1>1, <1>3, <2>1, <2>2, <3>1 DEF Through, Part
  <2>5. \E V \in SUBSET (Busy \ Through) : Through' = Through \cup V
    BY <2>3, <2>4
  <2>6. Stage = "forked"
    BY <2>1 DEF Stage
  <2> QED BY <1>1, <1>3, <1>4, <2>5, <2>6
          DEF FJ!Finish, FJ!Busy, FJ!None, Through, Stage, Started0, Tasks
<1> QED BY <1>2, <1>5, <1>6

(* Barrier A forks, or lets the kernel return; barrier C joins; barrier B is *)
(* invisible.                                                                *)
LEMMA BarrierForksAndJoins ==
  ASSUME IInv, TasksFixed, TasksFixed', SwitchLoopBarrier
  PROVE  FJ!Fork \/ FJ!Join \/ FJ!Return \/ UNCHANGED View
<1> USE TwoKinds
<1>1. TypeOK /\ UNCHANGED <<prog, ip, job>> /\ Len(prog) \in Nat /\ ip[0] \in Nat \ {0}
  BY OpInKernel DEF IInv, SwitchLoopBarrier, local
<1>2. \A w \in Warps : pc[w] \in {"A", "B", "C", "X"} /\ pc'[w] = AfterBarrier(w)
  BY DEF SwitchLoopBarrier
<1>3. CASE pc[0] = "A"
  <2>1. Between /\ More(0) /\ ~InOp(0) /\ InOp(0)' /\ Stage = "seq" /\ Stage' = "forked"
    BY <1>2, <1>3 DEF IInv, Loading, LoadingDefault, Running, RunningDefault, Exiting, Between,
       BetweenDefault, InOp, Stage, AfterBarrier
  <2>2. /\ Started0 = ip[0] - 1 /\ Started0' = ip[0] /\ ip[0] <= Len(prog)
    BY <1>1, <1>3, <2>1 DEF Started0, More
  <2>3. \A w \in Worker : FJtask(w)' = FJ!Task(ip[0], w)
    <3>1. ip[0] \in 1 .. Len(prog)
      BY <1>1, <2>2
    <3>2. \A w \in Worker : FJtask(w)' = TaskAt(ip[0], w)
      BY <1>1, <2>1 DEF TasksFixed, TaskAt
    <3> QED BY <1>1, <3>1, <3>2, TaskIsTaskAt
  <2>4. Through' = {}
    <3>1. \A w \in Worker : pc[w] = "A"
      BY <1>2, <2>1 DEF Between, BetweenWorker
    <3>2. \A d \in Default : pc[d] \in {"A", "X"}
      BY <1>2, <2>1 DEF Between, BetweenDefault
    <3>3. \A w \in Warps : pc'[w] # "C"
      BY <1>2, <3>1, <3>2 DEF AfterBarrier
    <3> QED BY <3>3 DEF Through
  <2>5. Started0 + 1 = ip[0] /\ Started0 < Len(prog)
    BY <1>1, <2>2
  <2>6. Tasks' = [w \in Worker |-> FJ!Task(Started0 + 1, w)]
    BY <2>3, <2>5 DEF Tasks
  <2>7. FJ!Fork
    BY <1>1, <2>1, <2>2, <2>4, <2>5, <2>6 DEF FJ!Fork, Stage, Started0, Tasks, Through
  <2> QED BY <2>7
<1>4. CASE pc[0] = "B"
  <2>1. Loading /\ InOp(0) /\ InOp(0)' /\ Stage' = Stage /\ Started0' = Started0
    BY <1>1, <1>2, <1>4 DEF IInv, Loading, LoadingDefault, Running, RunningDefault, Exiting, Between,
       BetweenDefault, InOp, Stage, Started0, AfterBarrier
  <2>2. Through = {} /\ Through' = {}
    <3>1. \A w \in Warps : pc[w] = "B"
      BY <1>2, <2>1 DEF Loading, LoadingDefault, LoadingWorker
    <3>2. \A w \in Warps : pc'[w] = "C" => w \in Worker /\ Part(w) = Idle
      BY <1>2, <3>1 DEF AfterBarrier
    <3> QED BY <1>1, <3>1, <3>2 DEF Through, Part
  <2>3. UNCHANGED Tasks
    BY <1>1, <2>1, SameView
  <2> QED BY <1>1, <2>1, <2>2, <2>3 DEF View
<1>5. CASE pc[0] = "C"
  <2>1. /\ Running /\ InOp(0) /\ ~InOp(0)' /\ Stage = "forked" /\ Stage' = "seq"
        /\ Started0' = Started0
    BY <1>1, <1>2, <1>5 DEF IInv, Loading, LoadingDefault, Running, RunningDefault, Exiting, Between,
       BetweenDefault, InOp, Stage, Started0, AfterBarrier
  <2>2. \A w \in Warps : pc[w] = "C"
    BY <1>2, <2>1 DEF Running, RunningDefault, RunningWorker
  <2>3. Through = Default \cup {w \in Worker : Tasks[w] # <<>>}
    BY <2>1, <2>2, BusyWarps DEF Through
  <2>4. Through' = {} /\ Tasks' = [w \in Worker |-> <<>>]
    BY <2>1 DEF Through, Tasks, TasksFixed
  <2>5. FJ!Join
    BY <1>1, <2>1, <2>3, <2>4
       DEF FJ!Join, FJ!Busy, FJ!None, Stage, Started0, Tasks, Through
  <2> QED BY <2>5
<1>6. CASE pc[0] = "X"
  <2>1. /\ ~More(0) /\ ~InOp(0) /\ ~InOp(0)' /\ Stage = "seq" /\ Stage' = "exited"
        /\ Started0' = Started0
    BY <1>1, <1>2, <1>6 DEF IInv, Loading, LoadingDefault, Running, RunningDefault, Exiting, Between,
       BetweenDefault, InOp, Stage, Started0, AfterBarrier
  <2>2. Started0 = Len(prog)
    <3>1. ip[0] <= Len(prog) + 1 /\ ip[0] \in Nat
      BY <1>1, OpInKernel
    <3> QED BY <1>1, <1>6, <2>1, <3>1 DEF Started0, InOp, More
  <2>3. Through' = Through /\ UNCHANGED Tasks
    <3>1. Through = {} /\ Through' = {}
      BY <2>1 DEF Through
    <3>2. \A w \in Worker : FJtask(w)' = FJtask(w)
      BY <2>1 DEF TasksFixed
    <3> QED BY <3>1, <3>2 DEF Tasks
  <2>4. FJ!Return
    BY <1>1, <2>1, <2>2, <2>3 DEF FJ!Return, Stage, Started0, Tasks, Through
  <2> QED BY <2>4
<1> QED BY <1>2, <1>3, <1>4, <1>5, <1>6

(* The kernel starts before its first op. *)
LEMMA InitForkJoin == Init => FJ!Init
<1> SUFFICES ASSUME Init PROVE FJ!Init
  OBVIOUS
<1>1. pc[0] = "entry" /\ ip[0] = 1 /\ prog \in Programs
  BY TwoKinds DEF Init
<1>2. ~InOp(0) /\ Started0 = 0 /\ Stage = "seq"
  BY <1>1 DEF InOp, Started0, Stage
<1>3. Tasks = [w \in Worker |-> <<>>] /\ Through = {}
  BY <1>2 DEF Tasks, FJtask, Through
<1> QED BY <1>1, <1>2, <1>3 DEF FJ!Init, FJ!None, Started0, Stage, Tasks, Through

(* Every step of the machine is one of ForkJoin, or invisible in it.         *)
LEMMA NextForkJoin ==
  IInv /\ TasksFixed /\ TasksFixed' /\ [Next]_vars => [FJ!Next]_View
<1> SUFFICES ASSUME IInv, TasksFixed, TasksFixed', [Next]_vars
             PROVE  FJ!Fork \/ FJ!Finish \/ FJ!Join \/ FJ!Return \/ UNCHANGED View
  BY DEF FJ!Next
<1>1. CASE UNCHANGED vars \/ Terminated
  <2>1. UNCHANGED <<prog, pc, ip, stateMem, capMem, job, cap>>
    BY <1>1 DEF vars, Terminated
  <2>2. UNCHANGED View
    BY <2>1, SameView DEF View, InOp, Stage, Started0, Through, Part
  <2> QED BY <2>2
<1>2. CASE \E d \in Default : DefaultStep(d)
  BY <1>2, DefaultInvisible
<1>3. CASE \E w \in Worker : WorkerStep(w)
  BY <1>3, WorkerInvisible
<1>4. CASE (\E w \in Warps : RunRegion(w)) \/ \E b \in 0 .. kNumBarriers - 1 : GroupBarrier(b)
  BY <1>4, RegionFinishes
<1>5. CASE SwitchLoopBarrier
  BY <1>5, BarrierForksAndJoins
<1> QED BY <1>1, <1>2, <1>3, <1>4, <1>5 DEF Next

(* Every kernel runs its ops as forks and joins: each region once for each   *)
(* execution, with the partition and the captures fixed when the default     *)
(* warps released barrier A, and left at barrier C when all are through.     *)
THEOREM MachineForksAndJoins == Spec => ImplementsForkJoin
<1>1. Init => FJ!Init
  BY InitForkJoin
<1>2. IInv => TasksFixed
  BY TasksAreFixed
<1>3. IInv /\ TasksFixed /\ TasksFixed' /\ [Next]_vars => [FJ!Next]_View
  BY NextForkJoin
<1> QED BY <1>1, <1>2, <1>3, Invariance, PTL
        DEF Spec, ImplementsForkJoin, FJ!Spec, FJ!vars, View, Started0, Stage, Tasks, Through
=============================================================================
