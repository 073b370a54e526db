------------------------- MODULE KernelCacheProofs -------------------------
(***************************************************************************)
(* Proofs about the kernel cache, for any number of processes, of keys and *)
(* of compiler stages, and any interleaving of their steps and deaths.     *)
(***************************************************************************)
EXTENDS KernelCache, SequenceTheorems, TLAPS

Files == Parts \cup {Group}
Names == ({""} \cup Procs) \X Files
PartialFcn(S, T) == UNION {[D -> T] : D \in SUBSET S}

\* What a file of this name can hold, half written or whole.
ContentOf(f) ==
    [whole : {FALSE}] \cup
    (IF f = Group THEN [whole : {TRUE}, names : SUBSET Parts] ELSE [whole : {TRUE}, val : Values])

Frames == [pc : {"idle", "find", "read", "make_ir", "open", "write", "replace",
                 "metadata", "asm", "check"},
           at : Keys \cup {None}, group : SUBSET Parts, todo : Seq(Files),
           ir : Values \cup {None}, kernel : PartialFcn(Parts, Values)]

DirOK(d) == DOMAIN d \subseteq Names /\ \A n \in DOMAIN d : d[n] \in ContentOf(n[2])
TypeOK ==
    /\ DOMAIN dir = Keys /\ \A k \in Keys : DirOK(dir[k])
    /\ glob \in [Procs -> Values]
    /\ seen \in [Procs -> Values \cup {None}]
    /\ knobs \in [Procs -> Settings]
    /\ mem \in [Procs -> PartialFcn(Keys, PartialFcn(Parts, Values))]
    /\ run \in [Procs -> Frames]

(***************************************************************************)
(* The inductive invariant: what a process knows of the files at each of   *)
(* its steps, which no other process can take from it.                     *)
(***************************************************************************)
Putting == {"open", "write", "replace"}

\* What is put last is the group, and by then it names what a kernel needs.
TodoOK(r) ==
    /\ r.todo # <<>>
    /\ \A i \in DOMAIN r.todo : r.todo[i] = Group <=> i = Len(r.todo)
    /\ {Metadata, Binary} \subseteq r.group \cup {r.todo[i] : i \in DOMAIN r.todo}

FrameOK(p) ==
    LET r == run[p] IN
    /\ r.pc # "idle" => r.at \in Keys
    /\ r.pc \notin {"idle", "check"} => \A f \in r.group : has_file(r.at, f)
    /\ r.pc \in {"read", "metadata", "asm", "check"} => has_file(r.at, Group)
    /\ r.pc \in {"metadata", "asm"} => {Metadata, Binary} \subseteq r.group
    /\ r.pc = "asm" => Metadata \in DOMAIN r.kernel
    /\ r.pc \in Putting => r.ir \in Values /\ TodoOK(r)
    /\ r.pc = "replace" =>
          LET n == TempPath(p, Head(r.todo)) IN
          /\ n \in DOMAIN dir[r.at] /\ dir[r.at][n].whole
          /\ Head(r.todo) = Group => dir[r.at][n].names = r.group

HeldOK(p) == \A k \in DOMAIN mem[p] :
    {Metadata, Binary} \subseteq DOMAIN mem[p][k] /\ has_file(k, Group)

IInv == /\ TypeOK /\ WholeFiles /\ GroupsComplete
        /\ \A p \in Procs : FrameOK(p) /\ HeldOK(p)

-----------------------------------------------------------------------------
(* Names and directories.                                                  *)

(* The files of a kernel have different names. *)
LEMMA FileNames ==
  /\ Binary \in Range(Stages) /\ Metadata \in Parts /\ Binary \in Parts
  /\ Metadata \notin Range(Stages) /\ Group \notin Parts
<1>1. Stages \in Seq(STRING) /\ Stages # <<>> /\ Binary = Stages[Len(Stages)]
  BY StagesAssumption DEF StagesAssumption, Last
<1>2. Len(Stages) \in DOMAIN Stages
  BY <1>1, EmptySeq, LenProperties
<1> QED BY <1>1, <1>2, StagesAssumption DEF StagesAssumption, Range, Metadata, Group, Parts

(* What a compilation puts ends with the group, has the metadata and the     *)
(* binary before it, and has the group nowhere else.                         *)
LEMMA PutsOK ==
  ASSUME NEW p \in Procs
  PROVE  /\ Puts(p) \in Seq(Files) /\ Puts(p) # <<>>
         /\ \A i \in DOMAIN Puts(p) : Puts(p)[i] = Group <=> i = Len(Puts(p))
         /\ {Metadata, Binary} \subseteq {Puts(p)[i] : i \in DOMAIN Puts(p)}
<1> DEFINE s == Stored(p)
           t == <<Metadata, Group>>
<1>1. s \in Seq(Parts) /\ \E i \in DOMAIN s : s[i] = Binary
  <2>1. <<Binary>> \in Seq(Parts) /\ \E i \in DOMAIN <<Binary>> : <<Binary>>[i] = Binary
    BY FileNames
  <2>2. Stages \in Seq(Parts)
    <3>1. Stages \in Seq(STRING) /\ \A i \in 1 .. Len(Stages) : Stages[i] \in Parts
      BY StagesAssumption, LenProperties DEF StagesAssumption, Range, Parts
    <3> QED BY <3>1, SeqDef, LenProperties
  <2>3. \E i \in DOMAIN Stages : Stages[i] = Binary
    BY FileNames DEF Range
  <2> QED BY <2>1, <2>2, <2>3 DEF Stored
<1> HIDE DEF s
<1>2. /\ s \in Seq(Files) /\ t \in Seq(Files) /\ Len(s) \in Nat /\ DOMAIN s = 1 .. Len(s)
      /\ Len(t) = 2 /\ t[1] = Metadata /\ t[2] = Group
      /\ \A i \in 1 .. Len(s) : s[i] # Group
  BY <1>1, FileNames, LenProperties, ElementOfSeq DEF Files
<1>3. /\ s \o t \in Seq(Files) /\ Len(s \o t) = Len(s) + 2
      /\ DOMAIN (s \o t) = 1 .. Len(s) + 2
      /\ \A i \in 1 .. Len(s) : (s \o t)[i] = s[i]
      /\ (s \o t)[Len(s) + 1] = Metadata /\ (s \o t)[Len(s) + 2] = Group
  <2>1. s \o t \in Seq(Files) /\ Len(s \o t) = Len(s) + 2
    BY <1>2, ConcatProperties
  <2>2. \A i \in 1 .. Len(s) + 2 : (s \o t)[i] = IF i <= Len(s) THEN s[i] ELSE t[i - Len(s)]
    BY <1>2, ConcatProperties
  <2>3. DOMAIN (s \o t) = 1 .. Len(s) + 2
    BY <1>2, <2>1, LenProperties
  <2> HIDE DEF t
  <2> QED BY <1>2, <2>1, <2>2, <2>3
<1>4. Puts(p) = s \o t
  BY DEF Puts, s
<1> HIDE DEF t
<1>5. \A i \in 1 .. Len(s) + 2 : (s \o t)[i] = Group <=> i = Len(s) + 2
  BY <1>2, <1>3, FileNames
<1>6. s \o t # <<>>
  BY <1>2, <1>3
<1> QED BY <1>1, <1>2, <1>3, <1>4, <1>5, <1>6

(* Writing a file changes that file. *)
LEMMA WrittenOK ==
  ASSUME NEW d, DirOK(d), NEW n \in Names, NEW c \in ContentOf(n[2])
  PROVE  LET e == Written(d, n, c) IN
         /\ DirOK(e) /\ DOMAIN e = DOMAIN d \cup {n} /\ e[n] = c
         /\ \A m \in DOMAIN d : m # n => e[m] = d[m]
BY DEF DirOK, Written

(* Moving a file takes it from its old name and puts it at the new one. *)
LEMMA RenamedOK ==
  ASSUME NEW d, DirOK(d), NEW from \in DOMAIN d, NEW to \in Names, from # to, from[2] = to[2]
  PROVE  LET e == Renamed(d, from, to) IN
         /\ DirOK(e) /\ DOMAIN e = (DOMAIN d \ {from}) \cup {to} /\ e[to] = d[from]
         /\ \A m \in DOMAIN d : m # from /\ m # to => e[m] = d[m]
BY DEF DirOK, Renamed

(* Paths of temporary files of different processes differ, and from the      *)
(* paths of files.                                                           *)
LEMMA PathsDiffer ==
  ASSUME NEW p \in Procs, NEW f \in Files
  PROVE  /\ FilePath(f) \in Names /\ TempPath(p, f) \in Names
         /\ FilePath(f)[2] = f /\ TempPath(p, f)[2] = f /\ TempPath(p, f)[1] = p
         /\ \A g \in Files : TempPath(p, f) # FilePath(g)
BY ProcsAssumption DEF ProcsAssumption, FilePath, TempPath, Names

-----------------------------------------------------------------------------
(* What a process leaves alone.                                            *)

\* No file goes away, and the temporary files of other processes stay.
KeepsOthers(p) ==
    \A k \in Keys :
       /\ \A f \in Files : has_file(k, f) => has_file(k, f)'
       /\ \A q \in Procs \ {p}, f \in Files : TempPath(q, f) \in DOMAIN dir[k] =>
             TempPath(q, f) \in DOMAIN dir'[k] /\ dir'[k][TempPath(q, f)] = dir[k][TempPath(q, f)]

(* Then what another process knows of the files stays true. *)
LEMMA OthersKeep ==
  ASSUME IInv, NEW p \in Procs, NEW q \in Procs, q # p, KeepsOthers(p),
         run'[q] = run[q], mem'[q] = mem[q]
  PROVE  FrameOK(q)' /\ HeldOK(q)'
<1>1. TypeOK /\ FrameOK(q) /\ HeldOK(q) /\ run[q] \in Frames /\ Group \in Files
  BY DEF IInv, TypeOK, Files
<1>2. DOMAIN mem[q] \subseteq Keys
  BY <1>1 DEF TypeOK, PartialFcn
<1>3. HeldOK(q)'
  BY <1>1, <1>2 DEF HeldOK, KeepsOthers
<1>4. ASSUME run[q].pc = "replace"
      PROVE  LET n == TempPath(q, Head(run[q].todo)) IN
             /\ n \in DOMAIN dir'[run[q].at] /\ dir'[run[q].at][n].whole
             /\ Head(run[q].todo) = Group => dir'[run[q].at][n].names = run[q].group
  <2>1. run[q].at \in Keys /\ run[q].todo \in Seq(Files) /\ run[q].todo # <<>>
    BY <1>1, <1>4 DEF FrameOK, Frames, Putting, TodoOK
  <2>2. Head(run[q].todo) \in Files
    BY <2>1, HeadTailProperties
  <2> QED BY <1>1, <1>4, <2>1, <2>2 DEF FrameOK, KeepsOthers
<1>5. \A k \in Keys : \A f \in Files : has_file(k, f) => has_file(k, f)'
  BY DEF KeepsOthers
<1>6. run[q].group \subseteq Files /\ (run[q].pc # "idle" => run[q].at \in Keys)
  BY <1>1 DEF Frames, Files, FrameOK
<1> QED BY <1>1, <1>3, <1>4, <1>5, <1>6 DEF FrameOK, TodoOK

(* A step that leaves the directories alone keeps everything that is said of *)
(* them.                                                                     *)
LEMMA SameDir ==
  ASSUME IInv, NEW p \in Procs, UNCHANGED dir
  PROVE  /\ WholeFiles' /\ GroupsComplete' /\ KeepsOthers(p)
         /\ \A k, f : has_file(k, f)' = has_file(k, f)
         /\ DOMAIN dir' = Keys /\ \A k \in Keys : DirOK(dir'[k])
BY DEF IInv, TypeOK, WholeFiles, GroupsComplete, KeepsOthers, has_file, Contents, get_group

(* A step of p is described by what becomes of the directories and of p.     *)
LEMMA StepOfOne ==
  ASSUME IInv, NEW p \in Procs, TypeOK', WholeFiles', GroupsComplete', KeepsOthers(p),
         FrameOK(p)', HeldOK(p)',
         \A q \in Procs : q # p => run'[q] = run[q] /\ mem'[q] = mem[q]
  PROVE  IInv'
BY OthersKeep DEF IInv

\* What a step of p does to the frame of p.
RunBecomes(p, r) == run' = [run EXCEPT ![p] = r]

(* A frame that is put in the place of p's is there, and only there. *)
LEMMA RunReplaced ==
  ASSUME TypeOK, NEW p \in Procs, NEW r \in Frames, RunBecomes(p, r)
  PROVE  /\ run' \in [Procs -> Frames] /\ run'[p] = r
         /\ \A q \in Procs : q # p => run'[q] = run[q]
BY DEF TypeOK, RunBecomes

(* The function of nothing. *)
LEMMA EmptyFcn ==
  ASSUME NEW S, NEW T PROVE DOMAIN <<>> = {} /\ <<>> \in PartialFcn(S, T)
<1>1. DOMAIN <<>> = {} /\ <<>> \in [{} -> T]
  BY EmptySeq
<1> QED BY <1>1 DEF PartialFcn

(* A partial function with one more argument. *)
LEMMA ExtendedFcn ==
  ASSUME NEW S, NEW T, NEW h \in PartialFcn(S, T), NEW x \in S, NEW y \in T
  PROVE  [z \in DOMAIN h \cup {x} |-> IF z = x THEN y ELSE h[z]] \in PartialFcn(S, T)
<1>1. PICK D \in SUBSET S : h \in [D -> T]
  BY DEF PartialFcn
<1>2. [z \in DOMAIN h \cup {x} |-> IF z = x THEN y ELSE h[z]] \in [D \cup {x} -> T]
  BY <1>1
<1> QED BY <1>2 DEF PartialFcn

(* An idle process knows nothing of the files. *)
LEMMA IdleOK == Idle \in Frames /\ Idle.pc = "idle" /\ Idle.group = {}
BY EmptyFcn, EmptySeq DEF Idle, Frames, None

(* A process that becomes idle has a frame that is in order. *)
LEMMA ToIdle ==
  ASSUME IInv, NEW p \in Procs, RunBecomes(p, Idle)
  PROVE  /\ run' \in [Procs -> Frames] /\ FrameOK(p)'
         /\ \A q \in Procs : q # p => run'[q] = run[q]
<1>1. /\ run' \in [Procs -> Frames] /\ run'[p] = Idle
      /\ \A q \in Procs : q # p => run'[q] = run[q]
  BY IdleOK, RunReplaced DEF IInv
<1> QED BY <1>1, IdleOK DEF FrameOK, Putting

-----------------------------------------------------------------------------
(* The initial states and the steps, one by one.                           *)

(* It holds at the start, of empty directories and idle processes. *)
LEMMA InitIInv == Init => IInv
<1> SUFFICES ASSUME Init PROVE IInv
  OBVIOUS
<1>1. DOMAIN <<>> = {} /\ <<>> \in PartialFcn(Keys, PartialFcn(Parts, Values))
  BY EmptyFcn
<1>2. \A k \in Keys : DOMAIN dir[k] = {}
  BY <1>1 DEF Init
<1>3. TypeOK
  BY <1>1, <1>2, IdleOK DEF Init, TypeOK, DirOK, NoKernels
<1>4. WholeFiles /\ GroupsComplete
  BY <1>2 DEF WholeFiles, GroupsComplete, has_file
<1>5. ASSUME NEW p \in Procs PROVE FrameOK(p) /\ HeldOK(p)
  BY <1>1, IdleOK DEF Init, FrameOK, HeldOK, Putting, NoKernels
<1> QED BY <1>3, <1>4, <1>5 DEF IInv

(* An assignment to the global touches no file and no frame. *)
LEMMA AssignIInv == ASSUME IInv, NEW p \in Procs, Assign(p) PROVE IInv'
<1>1. UNCHANGED <<dir, mem, run>> /\ glob' \in [Procs -> Values]
  BY DEF IInv, TypeOK, Assign
<1>2. TypeOK'
  BY <1>1 DEF IInv, TypeOK, Assign
<1>3. WholeFiles' /\ GroupsComplete' /\ \A q \in Procs : FrameOK(q)' /\ HeldOK(q)'
  BY <1>1, SameDir DEF IInv, FrameOK, HeldOK, has_file
<1> QED BY <1>2, <1>3 DEF IInv

(* A run that finds its kernel in memory finds a published one. *)
LEMMA RunIInv == ASSUME IInv, NEW p \in Procs, NEW k \in Keys, Run(p, k) PROVE IInv'
<1>0. TypeOK /\ UNCHANGED <<dir, glob, knobs, mem>>
  BY DEF IInv, Run
<1>1. PICK r \in Frames :
        /\ RunBecomes(p, r) /\ r.group = {}
        /\ \/ r.pc = "check" /\ k \in DOMAIN mem[p]
           \/ r.pc = "find"
        /\ r.at = k
  <2>1. CASE k \in DOMAIN mem[p]
    <3> DEFINE r == [Idle EXCEPT !.pc = "check", !.at = k, !.kernel = mem[p][k]]
    <3>1. mem[p][k] \in PartialFcn(Parts, Values)
      BY <1>0, <2>1 DEF TypeOK, PartialFcn
    <3>2. r \in Frames /\ r.group = {} /\ r.pc = "check" /\ r.at = k
      BY <3>1, IdleOK DEF Frames, Idle
    <3> QED BY <2>1, <3>2 DEF Run, RunBecomes
  <2>2. CASE k \notin DOMAIN mem[p]
    <3> DEFINE r == [Idle EXCEPT !.pc = "find", !.at = k]
    <3>1. r \in Frames /\ r.group = {} /\ r.pc = "find" /\ r.at = k
      BY IdleOK DEF Frames, Idle
    <3> QED BY <2>2, <3>1 DEF Run, RunBecomes
  <2> QED BY <2>1, <2>2
<1>2. /\ run' \in [Procs -> Frames] /\ run'[p] = r
      /\ \A q \in Procs : q # p => run'[q] = run[q]
  BY <1>0, <1>1, RunReplaced
<1>3. seen' \in [Procs -> Values \cup {None}]
  BY <1>0 DEF Run, TypeOK
<1>4. TypeOK'
  BY <1>0, <1>2, <1>3 DEF TypeOK
<1>5. FrameOK(p)' /\ HeldOK(p)'
  BY <1>0, <1>1, <1>2 DEF IInv, FrameOK, HeldOK, Putting, has_file
<1> QED BY <1>0, <1>2, <1>4, <1>5, SameDir, StepOfOne

(* A run that ends, in a launch or in an error of the globals. *)
LEMMA EndIInv == ASSUME IInv, NEW p \in Procs, CheckGlobals(p) \/ Launch(p) PROVE IInv'
<1>1. TypeOK /\ UNCHANGED <<dir, glob, seen, knobs, mem>> /\ RunBecomes(p, Idle)
  BY DEF IInv, CheckGlobals, Launch, RunBecomes
<1>2. TypeOK' /\ HeldOK(p)'
  BY <1>1, ToIdle DEF IInv, TypeOK, HeldOK, has_file
<1> QED BY <1>1, <1>2, ToIdle, SameDir, StepOfOne

(* A run that ends in an error of the compiler. *)
LEMMA StageFailsIInv == ASSUME IInv, NEW p \in Procs, StageFails(p) PROVE IInv'
<1>1. TypeOK /\ UNCHANGED <<dir, glob, seen, knobs, mem>> /\ RunBecomes(p, Idle)
  BY DEF IInv, StageFails, RunBecomes
<1>2. TypeOK' /\ HeldOK(p)'
  BY <1>1, ToIdle DEF IInv, TypeOK, HeldOK, has_file
<1> QED BY <1>1, <1>2, ToIdle, SameDir, StepOfOne

(* A process that dies leaves its files, and nothing else. *)
LEMMA CrashIInv == ASSUME IInv, NEW p \in Procs, Crash(p) PROVE IInv'
<1>1. TypeOK /\ UNCHANGED dir /\ RunBecomes(p, Idle)
  BY DEF IInv, Crash, RunBecomes
<1>2. /\ mem' = [mem EXCEPT ![p] = NoKernels] /\ DOMAIN NoKernels = {}
      /\ NoKernels \in PartialFcn(Keys, PartialFcn(Parts, Values))
  BY EmptyFcn DEF Crash, NoKernels
<1>3. /\ mem' \in [Procs -> PartialFcn(Keys, PartialFcn(Parts, Values))] /\ mem'[p] = NoKernels
      /\ \A q \in Procs : q # p => mem'[q] = mem[q]
  BY <1>1, <1>2 DEF TypeOK
<1>4. /\ glob' \in [Procs -> Values] /\ knobs' \in [Procs -> Settings]
      /\ seen' \in [Procs -> Values \cup {None}]
  BY <1>1 DEF Crash, TypeOK
<1>5. TypeOK' /\ HeldOK(p)'
  BY <1>1, <1>2, <1>3, <1>4, ToIdle, SameDir DEF TypeOK, HeldOK
<1> QED BY <1>1, <1>3, <1>5, ToIdle, SameDir, StepOfOne

(* The steps that change nothing but p's frame, given what it becomes.       *)
LEMMA FrameStep ==
  ASSUME IInv, NEW p \in Procs, NEW r \in Frames, RunBecomes(p, r),
         UNCHANGED <<dir, glob, seen, knobs, mem>>, FrameOK(p)'
  PROVE  IInv'
<1>1. TypeOK' /\ \A q \in Procs : q # p => run'[q] = run[q]
  BY RunReplaced DEF IInv, TypeOK
<1>2. HeldOK(p)'
  BY DEF IInv, HeldOK, has_file
<1> QED BY <1>1, <1>2, SameDir, StepOfOne

(* A group that is found once stays. *)
LEMMA FindGroupIInv == ASSUME IInv, NEW p \in Procs, FindGroup(p) PROVE IInv'
<1> DEFINE r == [run[p] EXCEPT !.pc = IF has_file(run[p].at, Group) THEN "read" ELSE "make_ir"]
<1>1. TypeOK /\ FrameOK(p) /\ run[p] \in Frames /\ run[p].pc = "find"
  BY DEF IInv, TypeOK, FindGroup, At
<1>2. /\ r \in Frames /\ r.at = run[p].at /\ r.group = run[p].group
      /\ r.pc = IF has_file(run[p].at, Group) THEN "read" ELSE "make_ir"
  BY <1>1 DEF Frames
<1> HIDE DEF r
<1>3. RunBecomes(p, r) /\ UNCHANGED <<dir, glob, seen, knobs, mem>>
  BY <1>1 DEF FindGroup, Goto, RunBecomes, r, TypeOK
<1>4. run'[p] = r
  BY <1>1, <1>2, <1>3, RunReplaced
<1>5. FrameOK(p)'
  BY <1>1, <1>2, <1>3, <1>4 DEF FrameOK, Putting, has_file
<1> QED BY <1>2, <1>3, <1>5, FrameStep

(* A group that is read is complete. *)
LEMMA ReadGroupIInv == ASSUME IInv, NEW p \in Procs, ReadGroup(p) PROVE IInv'
<1> DEFINE k == run[p].at
           g == get_group(k)
           r == [run[p] EXCEPT !.group = g,
                               !.pc = IF ~knobs[p].always_compile /\ Metadata \in g
                                      THEN "metadata" ELSE "make_ir"]
<1>1. TypeOK /\ FrameOK(p) /\ run[p] \in Frames /\ run[p].pc = "read"
  BY DEF IInv, TypeOK, ReadGroup, At
<1>2. k \in Keys /\ has_file(k, Group)
  BY <1>1 DEF FrameOK
<1>3. {Metadata, Binary} \subseteq g /\ g \in SUBSET Parts /\ \A f \in g : has_file(k, f)
  <2>1. {Metadata, Binary} \subseteq g /\ g = Contents(k, Group).names
    BY <1>2 DEF IInv, GroupsComplete
  <2>2. Contents(k, Group) \in ContentOf(Group) /\ Contents(k, Group).whole
    BY <1>1, <1>2 DEF TypeOK, DirOK, has_file, Contents, FilePath, IInv, WholeFiles
  <2>3. Contents(k, Group).names \in SUBSET Parts
    BY <2>2 DEF ContentOf
  <2> QED BY <2>1, <2>3 DEF get_group
<1> HIDE DEF g, k
<1>4. /\ r \in Frames /\ r.at = k /\ r.group = g /\ r.pc \in {"metadata", "make_ir"}
  BY <1>1, <1>3 DEF Frames, k
<1>5. RunBecomes(p, r) /\ UNCHANGED <<dir, glob, seen, knobs, mem>>
  BY <1>1 DEF ReadGroup, RunBecomes, g, k, TypeOK
<1> HIDE DEF r
<1>6. run'[p] = r
  BY <1>1, <1>4, <1>5, RunReplaced
<1>7. FrameOK(p)'
  BY <1>2, <1>3, <1>4, <1>5, <1>6 DEF FrameOK, Putting, has_file
<1> QED BY <1>4, <1>5, <1>7, FrameStep

(* A compilation starts with all its files to put. *)
LEMMA MakeIRIInv == ASSUME IInv, NEW p \in Procs, MakeIR(p) PROVE IInv'
<1> DEFINE r == [run[p] EXCEPT !.ir = glob[p], !.todo = Puts(p), !.pc = "open"]
<1>1. TypeOK /\ FrameOK(p) /\ run[p] \in Frames /\ run[p].pc = "make_ir" /\ glob[p] \in Values
  BY DEF IInv, TypeOK, MakeIR, At
<1>2. /\ r \in Frames /\ r.at = run[p].at /\ r.group = run[p].group /\ r.pc = "open"
      /\ r.ir \in Values /\ r.todo = Puts(p)
  BY <1>1, PutsOK DEF Frames
<1> HIDE DEF r
<1>3. RunBecomes(p, r) /\ UNCHANGED <<dir, glob, seen, knobs, mem>>
  BY <1>1 DEF MakeIR, RunBecomes, r, TypeOK
<1>4. run'[p] = r
  BY <1>1, <1>2, <1>3, RunReplaced
<1>5. TodoOK(r)
  BY <1>2, PutsOK DEF TodoOK
<1>6. FrameOK(p)'
  BY <1>1, <1>2, <1>3, <1>4, <1>5 DEF FrameOK, has_file
<1> QED BY <1>2, <1>3, <1>6, FrameStep

(* A process that puts files works on the first of those that are left. *)
LEMMA Putter ==
  ASSUME IInv, NEW p \in Procs, run[p].pc \in Putting
  PROVE  LET f == Head(run[p].todo)
             n == TempPath(p, f)
         IN /\ run[p] \in Frames /\ run[p].at \in Keys /\ run[p].ir \in Values
            /\ DirOK(dir[run[p].at]) /\ TodoOK(run[p]) /\ DOMAIN dir = Keys
            /\ f \in Files /\ n \in Names /\ n[2] = f /\ FilePath(f) \in Names
            /\ Tail(run[p].todo) \in Seq(Files)
            /\ \A g \in run[p].group : has_file(run[p].at, g)
<1>1. run[p] \in Frames /\ FrameOK(p) /\ TypeOK
  BY DEF IInv, TypeOK
<1>2. /\ run[p].at \in Keys /\ run[p].ir \in Values /\ TodoOK(run[p])
      /\ \A g \in run[p].group : has_file(run[p].at, g)
  BY <1>1 DEF FrameOK, Putting
<1>3. run[p].todo \in Seq(Files) /\ run[p].todo # <<>>
  BY <1>1, <1>2 DEF Frames, TodoOK
<1>4. Head(run[p].todo) \in Files /\ Tail(run[p].todo) \in Seq(Files)
  BY <1>3, HeadTailProperties
<1> QED BY <1>1, <1>2, <1>4, PathsDiffer DEF TypeOK

(* A directory in which only a temporary file of p's has changed. *)
LEMMA TempStep ==
  ASSUME IInv, NEW p \in Procs, NEW f \in Files, NEW k \in Keys, NEW c \in ContentOf(f),
         dir' = [dir EXCEPT ![k] = Written(dir[k], TempPath(p, f), c)]
  PROVE  /\ WholeFiles' /\ GroupsComplete' /\ KeepsOthers(p)
         /\ \A l \in Keys : DirOK(dir'[l]) /\ \A g \in Files : has_file(l, g)' = has_file(l, g)
         /\ DOMAIN dir' = Keys
         /\ TempPath(p, f) \in DOMAIN dir'[k] /\ dir'[k][TempPath(p, f)] = c
<1> DEFINE n == TempPath(p, f)
           e == Written(dir[k], n, c)
<1>1. DOMAIN dir = Keys /\ \A l \in Keys : DirOK(dir[l])
  BY DEF IInv, TypeOK
<1>2. n \in Names /\ n[2] = f /\ \A g \in Files : n # FilePath(g)
  BY PathsDiffer
<1>3. /\ DirOK(e) /\ DOMAIN e = DOMAIN dir[k] \cup {n} /\ e[n] = c
      /\ \A m \in DOMAIN dir[k] : m # n => e[m] = dir[k][m]
  <2>1. DirOK(dir[k]) /\ n \in Names /\ c \in ContentOf(n[2])
    BY <1>1, <1>2
  <2> HIDE DEF n
  <2> QED BY <2>1, WrittenOK
<1> HIDE DEF e
<1>4. /\ dir'[k] = e /\ DOMAIN dir' = Keys /\ \A l \in Keys : l # k => dir'[l] = dir[l]
  BY <1>1 DEF e
<1>5. \A l \in Keys, g \in Files :
         /\ has_file(l, g)' = has_file(l, g)
         /\ has_file(l, g) => Contents(l, g)' = Contents(l, g)
  BY <1>2, <1>3, <1>4 DEF has_file, Contents
<1>6. KeepsOthers(p)
  <2>1. \A q \in Procs \ {p}, g \in Files : TempPath(q, g) # n
    BY DEF TempPath
  <2> QED BY <1>3, <1>4, <1>5, <2>1 DEF KeepsOthers
<1>7. WholeFiles'
  BY <1>5 DEF IInv, WholeFiles, Files
<1>8. GroupsComplete'
  <2>1. ASSUME NEW l \in Keys, has_file(l, Group)
        PROVE  get_group(l)' = get_group(l)
    <3>1. Contents(l, Group)' = Contents(l, Group) /\ Contents(l, Group).names \subseteq Files
      <4>1. Contents(l, Group) \in ContentOf(Group) /\ Contents(l, Group).whole
        BY <1>1, <2>1 DEF DirOK, has_file, Contents, FilePath, IInv, WholeFiles
      <4> QED BY <1>5, <2>1, <4>1 DEF ContentOf, Files
    <3> QED BY <1>5, <3>1 DEF get_group
  <2> QED BY <1>5, <2>1 DEF IInv, GroupsComplete, Files
<1>9. \A l \in Keys : DirOK(dir'[l])
  BY <1>1, <1>3, <1>4
<1>10. n \in DOMAIN dir'[k] /\ dir'[k][n] = c
  BY <1>3, <1>4
<1> QED BY <1>4, <1>5, <1>6, <1>7, <1>8, <1>9, <1>10

(* A file that is opened is a temporary one. *)
LEMMA OpenTempIInv == ASSUME IInv, NEW p \in Procs, OpenTemp(p) PROVE IInv'
<1> DEFINE k == run[p].at
           f == Head(run[p].todo)
           c == [whole |-> FALSE]
           r == [run[p] EXCEPT !.pc = "write"]
<1>1. run[p].pc = "open" /\ UNCHANGED <<glob, seen, knobs, mem>> /\ TypeOK
  BY DEF OpenTemp, At, IInv
<1>2. /\ run[p] \in Frames /\ k \in Keys /\ f \in Files /\ run[p].ir \in Values /\ TodoOK(run[p])
      /\ \A g \in run[p].group : has_file(k, g)
  BY <1>1, Putter DEF Putting
<1>3. c \in ContentOf(f)
  BY DEF ContentOf
<1>4. dir' = [dir EXCEPT ![k] = Written(dir[k], TempPath(p, f), c)]
  BY DEF OpenTemp, SetDir, Dir
<1>5. r \in Frames /\ r.pc = "write" /\ RunBecomes(p, r)
  BY <1>1, <1>2 DEF Frames, OpenTemp, Goto, RunBecomes, TypeOK
<1>6. r.at = k /\ r.todo = run[p].todo /\ r.group = run[p].group /\ r.ir = run[p].ir
  BY <1>2 DEF Frames
<1> HIDE DEF k, f, c, r
<1>7. run' \in [Procs -> Frames] /\ run'[p] = r /\ \A q \in Procs : q # p => run'[q] = run[q]
  BY <1>1, <1>5, RunReplaced
<1>8. /\ WholeFiles' /\ GroupsComplete' /\ KeepsOthers(p) /\ DOMAIN dir' = Keys
      /\ \A l \in Keys : DirOK(dir'[l]) /\ \A g \in Files : has_file(l, g)' = has_file(l, g)
  BY <1>2, <1>3, <1>4, TempStep
<1>9. TypeOK'
  BY <1>1, <1>7, <1>8 DEF TypeOK
<1>10. r.group \subseteq Files /\ Group \in Files
  BY <1>5 DEF Frames, Files
<1>11. FrameOK(p)'
  BY <1>2, <1>5, <1>6, <1>7, <1>8, <1>10 DEF FrameOK, Putting, TodoOK
<1>12. HeldOK(p)'
  BY <1>1, <1>8, <1>10 DEF IInv, HeldOK, TypeOK, PartialFcn
<1> QED BY <1>1, <1>7, <1>8, <1>9, <1>11, <1>12, StepOfOne

(* What is written to it is whole, and is the group's names for the group. *)
LEMMA WriteTempIInv == ASSUME IInv, NEW p \in Procs, WriteTemp(p) PROVE IInv'
<1> DEFINE k == run[p].at
           f == Head(run[p].todo)
           c == IF f = Group THEN [whole |-> TRUE, names |-> run[p].group]
                             ELSE [whole |-> TRUE, val |-> run[p].ir]
           r == [run[p] EXCEPT !.pc = "replace"]
<1>1. run[p].pc = "write" /\ UNCHANGED <<glob, seen, knobs, mem>> /\ TypeOK
  BY DEF WriteTemp, At, IInv
<1>2. /\ run[p] \in Frames /\ k \in Keys /\ f \in Files /\ run[p].ir \in Values /\ TodoOK(run[p])
      /\ \A g \in run[p].group : has_file(k, g)
  BY <1>1, Putter DEF Putting
<1>3. c \in ContentOf(f) /\ c.whole /\ (f = Group => c.names = run[p].group)
  BY <1>2 DEF ContentOf, Frames
<1>4. dir' = [dir EXCEPT ![k] = Written(dir[k], TempPath(p, f), c)]
  BY DEF WriteTemp, SetDir, Dir
<1>5. r \in Frames /\ r.pc = "replace" /\ RunBecomes(p, r)
  BY <1>1, <1>2 DEF Frames, WriteTemp, Goto, RunBecomes, TypeOK
<1>6. r.at = k /\ r.todo = run[p].todo /\ r.group = run[p].group /\ r.ir = run[p].ir
  BY <1>2 DEF Frames
<1>7. f = Head(r.todo)
  BY <1>6
<1> HIDE DEF k, f, c, r
<1>8. run' \in [Procs -> Frames] /\ run'[p] = r /\ \A q \in Procs : q # p => run'[q] = run[q]
  BY <1>1, <1>5, RunReplaced
<1>9. /\ WholeFiles' /\ GroupsComplete' /\ KeepsOthers(p) /\ DOMAIN dir' = Keys
      /\ \A l \in Keys : DirOK(dir'[l]) /\ \A g \in Files : has_file(l, g)' = has_file(l, g)
  BY <1>2, <1>3, <1>4, TempStep
<1>10. TempPath(p, f) \in DOMAIN dir'[k] /\ dir'[k][TempPath(p, f)] = c
  <2>1. dir'[k] = Written(dir[k], TempPath(p, f), c)
    BY <1>1, <1>2, <1>4 DEF TypeOK
  <2> QED BY <2>1 DEF Written
<1>11. TypeOK'
  BY <1>1, <1>8, <1>9 DEF TypeOK
<1>12. r.group \subseteq Files /\ Group \in Files
  BY <1>5 DEF Frames, Files
<1>13. FrameOK(p)'
  BY <1>2, <1>3, <1>5, <1>6, <1>7, <1>8, <1>9, <1>10, <1>12 DEF FrameOK, Putting, TodoOK
<1>14. HeldOK(p)'
  BY <1>1, <1>9, <1>12 DEF IInv, HeldOK, TypeOK, PartialFcn
<1> QED BY <1>1, <1>8, <1>9, <1>11, <1>13, <1>14, StepOfOne

(* A directory in which a whole temporary file of p's has become the file. *)
LEMMA ReplaceStep ==
  ASSUME IInv, NEW p \in Procs, NEW k \in Keys, NEW f \in Files,
         TempPath(p, f) \in DOMAIN dir[k], dir[k][TempPath(p, f)].whole,
         dir' = [dir EXCEPT ![k] = Renamed(dir[k], TempPath(p, f), FilePath(f))]
  PROVE  /\ DOMAIN dir' = Keys /\ (\A l \in Keys : DirOK(dir'[l])) /\ KeepsOthers(p)
         /\ \A l \in Keys, g \in Files :
               /\ has_file(l, g)' <=> has_file(l, g) \/ (l = k /\ g = f)
               /\ has_file(l, g) /\ ~(l = k /\ g = f) => Contents(l, g)' = Contents(l, g)
         /\ Contents(k, f)' = dir[k][TempPath(p, f)]
<1> DEFINE n == TempPath(p, f)
           m == FilePath(f)
           e == Renamed(dir[k], n, m)
<1>1. DOMAIN dir = Keys /\ \A l \in Keys : DirOK(dir[l])
  BY DEF IInv, TypeOK
<1>2. n \in Names /\ m \in Names /\ n # m /\ n[2] = m[2] /\ n \in DOMAIN dir[k]
  BY PathsDiffer
<1>3. /\ DirOK(e) /\ DOMAIN e = (DOMAIN dir[k] \ {n}) \cup {m} /\ e[m] = dir[k][n]
      /\ \A x \in DOMAIN dir[k] : x # n /\ x # m => e[x] = dir[k][x]
  BY <1>1, <1>2, RenamedOK
<1>4. dir'[k] = e /\ DOMAIN dir' = Keys /\ \A l \in Keys : l # k => dir'[l] = dir[l]
  BY <1>1 DEF e
<1>5. \A g \in Files : n # FilePath(g) /\ (FilePath(g) = m <=> g = f)
  BY PathsDiffer DEF FilePath
<1>6. \A q \in Procs \ {p}, g \in Files : TempPath(q, g) # n /\ TempPath(q, g) # m
  BY PathsDiffer DEF TempPath, FilePath, ProcsAssumption
<1> HIDE DEF e, n, m
<1>7. \A l \in Keys, g \in Files :
         /\ has_file(l, g)' <=> has_file(l, g) \/ (l = k /\ g = f)
         /\ has_file(l, g) /\ ~(l = k /\ g = f) => Contents(l, g)' = Contents(l, g)
  BY <1>3, <1>4, <1>5 DEF has_file, Contents
<1>8. KeepsOthers(p)
  BY <1>3, <1>4, <1>6, <1>7 DEF KeepsOthers
<1>9. Contents(k, f)' = dir[k][n]
  BY <1>3, <1>4 DEF Contents, m
<1>10. \A l \in Keys : DirOK(dir'[l])
  BY <1>1, <1>3, <1>4
<1> QED BY <1>4, <1>7, <1>8, <1>9, <1>10 DEF n

(* What is left to put after the first file, which the group names by then. *)
LEMMA TodoTail ==
  ASSUME NEW r, r.todo \in Seq(Files), TodoOK(r)
  PROVE  LET f == Head(r.todo) IN
         /\ f = Group => {Metadata, Binary} \subseteq r.group
         /\ f # Group =>
               /\ Tail(r.todo) # <<>>
               /\ \A i \in DOMAIN Tail(r.todo) : Tail(r.todo)[i] = Group <=> i = Len(Tail(r.todo))
               /\ {Metadata, Binary} \subseteq
                     r.group \cup {f} \cup {Tail(r.todo)[i] : i \in DOMAIN Tail(r.todo)}
<1> DEFINE s == r.todo
           t == Tail(r.todo)
<1>1. /\ s \in Seq(Files) /\ s # <<>> /\ DOMAIN s = 1 .. Len(s) /\ Len(s) \in Nat
      /\ \A i \in DOMAIN s : s[i] = Group <=> i = Len(s)
      /\ {Metadata, Binary} \subseteq r.group \cup {s[i] : i \in DOMAIN s}
  BY LenProperties DEF TodoOK
<1>2. Metadata # Group /\ Binary # Group
  BY FileNames
<1>3. /\ t \in Seq(Files) /\ Head(s) = s[1] /\ Len(t) = Len(s) - 1 /\ Len(s) >= 1
      /\ DOMAIN t = 1 .. Len(t) /\ \A i \in 1 .. Len(t) : t[i] = s[i + 1]
  <2>1. Head(s) = s[1] /\ t \in Seq(Files) /\ Len(t) = Len(s) - 1
    BY <1>1, HeadTailProperties
  <2>2. Len(s) >= 1
    BY <1>1, EmptySeq
  <2> QED BY <1>1, <2>1, <2>2, HeadTailProperties, LenProperties
<1> HIDE DEF s, t
<1>4. 1 \in DOMAIN s
  BY <1>1, <1>3
<1>5. ASSUME Head(s) = Group PROVE {Metadata, Binary} \subseteq r.group
  <2>1. Len(s) = 1
    BY <1>1, <1>3, <1>4, <1>5
  <2>2. {s[i] : i \in DOMAIN s} = {Group}
    BY <1>1, <1>3, <1>5, <2>1
  <2> QED BY <1>1, <1>2, <2>2
<1>6. ASSUME Head(s) # Group
      PROVE  /\ t # <<>> /\ \A i \in DOMAIN t : t[i] = Group <=> i = Len(t)
             /\ {Metadata, Binary} \subseteq r.group \cup {Head(s)} \cup {t[i] : i \in DOMAIN t}
  <2>1. Len(s) # 1
    BY <1>1, <1>3, <1>4, <1>6
  <2>2. t # <<>>
    BY <1>1, <1>3, <2>1
  <2>3. \A i \in DOMAIN t : t[i] = Group <=> i = Len(t)
    <3> TAKE i \in DOMAIN t
    <3>1. t[i] = s[i + 1] /\ i + 1 \in DOMAIN s /\ (i + 1 = Len(s) <=> i = Len(t))
      BY <1>1, <1>3
    <3> QED BY <1>1, <3>1
  <2>4. \A i \in DOMAIN s : i = 1 \/ (i - 1 \in DOMAIN t /\ s[i] = t[i - 1])
    BY <1>1, <1>3
  <2>5. {s[i] : i \in DOMAIN s} \subseteq {Head(s)} \cup {t[i] : i \in DOMAIN t}
    BY <1>3, <2>4
  <2> QED BY <1>1, <2>2, <2>3, <2>5
<1> QED BY <1>5, <1>6 DEF s, t

(* The group takes its name when all that it names is there. *)
LEMMA ReplaceIInv == ASSUME IInv, NEW p \in Procs, Replace(p) PROVE IInv'
<1>0. PICK k \in Keys, f \in Files : k = run[p].at /\ f = Head(run[p].todo)
  BY Putter DEF Replace, At, Putting
<1> DEFINE r == [run[p] EXCEPT !.todo = Tail(@), !.group = @ \cup Named(f),
                               !.pc = IF f = Group THEN "metadata" ELSE "open"]
<1>1. run[p].pc = "replace" /\ UNCHANGED <<glob, seen, knobs, mem>> /\ TypeOK /\ FrameOK(p)
  BY DEF Replace, At, IInv
<1>2. /\ run[p] \in Frames /\ k \in Keys /\ f \in Files /\ run[p].ir \in Values /\ TodoOK(run[p])
      /\ run[p].todo \in Seq(Files) /\ Tail(run[p].todo) \in Seq(Files)
      /\ \A g \in run[p].group : has_file(k, g)
  BY <1>0, <1>1, Putter DEF Putting, Frames
<1>3. /\ TempPath(p, f) \in DOMAIN dir[k] /\ dir[k][TempPath(p, f)].whole
      /\ f = Group => dir[k][TempPath(p, f)].names = run[p].group
  BY <1>0, <1>1 DEF FrameOK
<1>4. dir' = [dir EXCEPT ![k] = Renamed(dir[k], TempPath(p, f), FilePath(f))]
  BY <1>0 DEF Replace, SetDir, Dir
<1>5. /\ r \in Frames /\ r.at = k /\ r.ir = run[p].ir /\ r.todo = Tail(run[p].todo)
      /\ r.group = run[p].group \cup Named(f)
      /\ r.pc = IF f = Group THEN "metadata" ELSE "open"
  BY <1>0, <1>2 DEF Frames, Named, Files
<1>6. RunBecomes(p, r)
  BY <1>0, <1>1, <1>2 DEF Replace, RunBecomes, TypeOK
<1>7. /\ f = Group => {Metadata, Binary} \subseteq run[p].group
      /\ f # Group =>
            /\ r.todo # <<>>
            /\ \A i \in DOMAIN r.todo : r.todo[i] = Group <=> i = Len(r.todo)
            /\ {Metadata, Binary} \subseteq
                  run[p].group \cup {f} \cup {r.todo[i] : i \in DOMAIN r.todo}
  BY <1>0, <1>2, <1>5, TodoTail
<1> HIDE DEF r
<1>8. run' \in [Procs -> Frames] /\ run'[p] = r /\ \A q \in Procs : q # p => run'[q] = run[q]
  BY <1>1, <1>5, <1>6, RunReplaced
<1>9. /\ DOMAIN dir' = Keys /\ (\A l \in Keys : DirOK(dir'[l])) /\ KeepsOthers(p)
      /\ \A l \in Keys, g \in Files :
            /\ has_file(l, g)' <=> has_file(l, g) \/ (l = k /\ g = f)
            /\ has_file(l, g) /\ ~(l = k /\ g = f) => Contents(l, g)' = Contents(l, g)
      /\ Contents(k, f)' = dir[k][TempPath(p, f)]
  BY <1>2, <1>3, <1>4, ReplaceStep
<1>10. TypeOK'
  BY <1>1, <1>8, <1>9 DEF TypeOK
<1>11. WholeFiles'
  BY <1>3, <1>9 DEF IInv, WholeFiles, Files
<1>12. GroupsComplete'
  <2> SUFFICES ASSUME NEW l \in Keys, has_file(l, Group)'
               PROVE  /\ {Metadata, Binary} \subseteq Contents(l, Group)'.names
                      /\ get_group(l)' = Contents(l, Group)'.names
    BY DEF GroupsComplete
  <2>1. CASE l = k /\ f = Group
    <3>1. Contents(l, Group)'.names = run[p].group
      BY <1>3, <1>9, <2>1
    <3>2. \A g \in run[p].group : has_file(l, g)'
      BY <1>2, <1>9, <2>1 DEF Frames, Files
    <3> QED BY <1>7, <2>1, <3>1, <3>2 DEF get_group
  <2>2. CASE ~(l = k /\ f = Group)
    <3>1. has_file(l, Group) /\ Contents(l, Group)' = Contents(l, Group)
      BY <1>9, <2>2 DEF Files
    <3>2. /\ {Metadata, Binary} \subseteq Contents(l, Group).names
          /\ \A g \in Contents(l, Group).names : has_file(l, g)
      BY <3>1 DEF IInv, GroupsComplete, get_group
    <3>3. Contents(l, Group).names \subseteq Files
      <4>1. Contents(l, Group) \in ContentOf(Group) /\ Contents(l, Group).whole
        BY <1>1, <3>1 DEF TypeOK, DirOK, has_file, Contents, FilePath, IInv, WholeFiles
      <4> QED BY <4>1 DEF ContentOf, Files
    <3>4. \A g \in Contents(l, Group).names : has_file(l, g)'
      BY <1>9, <3>2, <3>3
    <3> QED BY <3>1, <3>2, <3>4 DEF get_group
  <2> QED BY <2>1, <2>2
<1>13. \A g \in r.group : has_file(k, g)'
  <2>1. r.group \subseteq Files /\ (\A g \in r.group : g = f \/ g \in run[p].group)
    BY <1>5 DEF Frames, Files, Named
  <2> QED BY <1>2, <1>9, <2>1
<1>14. FrameOK(p)'
  <2>1. CASE f = Group
    BY <1>2, <1>5, <1>7, <1>8, <1>9, <1>13, <2>1 DEF FrameOK, Putting
  <2>2. CASE f # Group
    <3>1. TodoOK(r)
      BY <1>5, <1>7, <2>2 DEF TodoOK, Named
    <3> QED BY <1>2, <1>5, <1>8, <1>13, <2>2, <3>1 DEF FrameOK, Putting
  <2> QED BY <2>1, <2>2
<1>15. HeldOK(p)'
  BY <1>1, <1>9 DEF IInv, HeldOK, TypeOK, PartialFcn, Files
<1> QED BY <1>1, <1>8, <1>9, <1>10, <1>11, <1>12, <1>14, <1>15, StepOfOne

(* What is read of a file that is there is a part of a kernel. *)
LEMMA PartOK ==
  ASSUME IInv, NEW p \in Procs, run[p].at \in Keys, NEW f \in Parts, has_file(run[p].at, f)
  PROVE  /\ Part(p, f) \in PartialFcn(Parts, Values)
         /\ DOMAIN Part(p, f) = DOMAIN run[p].kernel \cup {f}
<1>1. run[p] \in Frames /\ DirOK(dir[run[p].at]) /\ Contents(run[p].at, f).whole
  BY DEF IInv, TypeOK, WholeFiles
<1>2. Contents(run[p].at, f) \in ContentOf(f) /\ f # Group
  BY <1>1, FileNames DEF DirOK, has_file, Contents, FilePath
<1>3. Contents(run[p].at, f).val \in Values
  BY <1>1, <1>2 DEF ContentOf
<1>4. run[p].kernel \in PartialFcn(Parts, Values)
  BY <1>1 DEF Frames
<1> QED BY <1>3, <1>4, ExtendedFcn DEF Part

(* The metadata that is read is whole. *)
LEMMA LoadMetadataIInv == ASSUME IInv, NEW p \in Procs, LoadMetadata(p) PROVE IInv'
<1> DEFINE k == run[p].at
           r == [run[p] EXCEPT !.kernel = Part(p, Metadata), !.pc = "asm"]
<1>1. TypeOK /\ FrameOK(p) /\ run[p] \in Frames /\ run[p].pc = "metadata"
  BY DEF IInv, TypeOK, LoadMetadata, At
<1>2. k \in Keys /\ has_file(k, Metadata) /\ Metadata \in Parts
  BY <1>1, FileNames DEF FrameOK
<1>3. Part(p, Metadata) \in PartialFcn(Parts, Values) /\ Metadata \in DOMAIN Part(p, Metadata)
  BY <1>1, <1>2, PartOK
<1>4. /\ r \in Frames /\ r.at = k /\ r.group = run[p].group /\ r.pc = "asm"
      /\ Metadata \in DOMAIN r.kernel
  BY <1>1, <1>3 DEF Frames
<1> HIDE DEF r
<1>5. RunBecomes(p, r) /\ UNCHANGED <<dir, glob, seen, knobs, mem>>
  BY <1>1 DEF LoadMetadata, RunBecomes, r, TypeOK
<1>6. run'[p] = r
  BY <1>1, <1>4, <1>5, RunReplaced
<1>7. FrameOK(p)'
  BY <1>1, <1>2, <1>4, <1>5, <1>6 DEF FrameOK, Putting, has_file
<1> QED BY <1>4, <1>5, <1>7, FrameStep

(* So is every other file of the group. *)
LEMMA LoadAsmIInv == ASSUME IInv, NEW p \in Procs, LoadAsm(p) PROVE IInv'
<1> DEFINE k == run[p].at
<1>1. TypeOK /\ FrameOK(p) /\ run[p] \in Frames /\ run[p].pc = "asm"
  BY DEF IInv, TypeOK, LoadAsm, At
<1>2. PICK f \in Unread(p) : run' = [run EXCEPT ![p].kernel = Part(p, f)]
  BY DEF LoadAsm
<1> DEFINE r == [run[p] EXCEPT !.kernel = Part(p, f)]
<1>3. k \in Keys /\ has_file(k, f) /\ f \in Parts
  BY <1>1, <1>2 DEF FrameOK, Unread, Parts
<1>4. /\ Part(p, f) \in PartialFcn(Parts, Values)
      /\ DOMAIN Part(p, f) = DOMAIN run[p].kernel \cup {f}
  BY <1>1, <1>3, PartOK
<1>5. /\ r \in Frames /\ r.at = k /\ r.group = run[p].group /\ r.pc = "asm"
      /\ Metadata \in DOMAIN r.kernel
  BY <1>1, <1>4 DEF Frames, FrameOK
<1> HIDE DEF r
<1>6. RunBecomes(p, r) /\ UNCHANGED <<dir, glob, seen, knobs, mem>>
  BY <1>1, <1>2 DEF LoadAsm, RunBecomes, r, TypeOK
<1>7. run'[p] = r
  BY <1>1, <1>5, <1>6, RunReplaced
<1>8. FrameOK(p)'
  BY <1>1, <1>3, <1>5, <1>6, <1>7 DEF FrameOK, Putting, has_file
<1> QED BY <1>5, <1>6, <1>8, FrameStep

(* A kernel is complete when no file of its group is left to read. *)
LEMMA LoadedIInv == ASSUME IInv, NEW p \in Procs, Loaded(p) PROVE IInv'
<1> DEFINE k == run[p].at
           r == [run[p] EXCEPT !.pc = "check"]
           h == [l \in DOMAIN mem[p] \cup {k} |-> IF l = k THEN run[p].kernel ELSE mem[p][l]]
<1>1. /\ TypeOK /\ FrameOK(p) /\ HeldOK(p) /\ run[p] \in Frames /\ run[p].pc = "asm"
      /\ UNCHANGED <<dir, glob, seen, knobs>> /\ Unread(p) = {}
  BY DEF IInv, TypeOK, Loaded, At
<1>2. /\ k \in Keys /\ has_file(k, Group) /\ {Metadata, Binary} \subseteq DOMAIN run[p].kernel
      /\ run[p].kernel \in PartialFcn(Parts, Values)
  BY <1>1, FileNames DEF FrameOK, Unread, Frames
<1>3. mem[p] \in PartialFcn(Keys, PartialFcn(Parts, Values))
  BY <1>1 DEF TypeOK
<1>4. h \in PartialFcn(Keys, PartialFcn(Parts, Values)) /\ DOMAIN h = DOMAIN mem[p] \cup {k}
  BY <1>2, <1>3, ExtendedFcn
<1>5. \A l \in DOMAIN h : {Metadata, Binary} \subseteq DOMAIN h[l] /\ has_file(l, Group)
  BY <1>1, <1>2 DEF HeldOK
<1>6. r \in Frames /\ r.at = k /\ r.group = run[p].group /\ r.pc = "check"
  BY <1>1 DEF Frames
<1>7. RunBecomes(p, r) /\ mem' = [mem EXCEPT ![p] = h]
  BY <1>1 DEF Loaded, Goto, RunBecomes, TypeOK
<1> HIDE DEF r, h
<1>8. /\ run' \in [Procs -> Frames] /\ run'[p] = r
      /\ \A q \in Procs : q # p => run'[q] = run[q]
  BY <1>1, <1>6, <1>7, RunReplaced
<1>9. /\ mem' \in [Procs -> PartialFcn(Keys, PartialFcn(Parts, Values))] /\ mem'[p] = h
      /\ \A q \in Procs : q # p => mem'[q] = mem[q]
  BY <1>1, <1>4, <1>7 DEF TypeOK
<1>10. TypeOK'
  BY <1>1, <1>8, <1>9, SameDir DEF TypeOK
<1>11. FrameOK(p)'
  BY <1>1, <1>2, <1>6, <1>8 DEF FrameOK, Putting, has_file
<1>12. HeldOK(p)'
  BY <1>1, <1>5, <1>9 DEF HeldOK, has_file
<1> QED BY <1>1, <1>8, <1>9, <1>10, <1>11, <1>12, SameDir, StepOfOne

(* Every step keeps the invariant. *)
LEMMA NextIInv == IInv /\ [Next]_vars => IInv'
<1> SUFFICES ASSUME IInv, [Next]_vars PROVE IInv'
  OBVIOUS
<1>1. CASE UNCHANGED vars
  <2>1. UNCHANGED <<dir, glob, seen, knobs, mem, run>>
    BY <1>1 DEF vars
  <2>2. TypeOK' /\ WholeFiles' /\ GroupsComplete'
    BY <2>1, SameDir DEF IInv, TypeOK, DirOK, WholeFiles, GroupsComplete, has_file, Contents, get_group
  <2>3. ASSUME NEW p \in Procs PROVE FrameOK(p)' /\ HeldOK(p)'
    BY <2>1 DEF IInv, FrameOK, HeldOK, has_file
  <2> QED BY <2>2, <2>3 DEF IInv
<1>2. CASE Next
  <2>1. PICK p \in Procs : \/ Step(p) \/ Assign(p) \/ StageFails(p) \/ Crash(p)
                           \/ \E k \in Keys : Run(p, k)
    BY <1>2 DEF Next
  <2>2. CASE Step(p)
    BY <2>2, FindGroupIInv, ReadGroupIInv, MakeIRIInv, OpenTempIInv, WriteTempIInv, ReplaceIInv,
       LoadMetadataIInv, LoadAsmIInv, LoadedIInv, EndIInv DEF Step
  <2> QED BY <2>1, <2>2, AssignIInv, StageFailsIInv, CrashIInv, RunIInv
<1> QED BY <1>1, <1>2

(* What every process knows of the files stays true in every reachable      *)
(* state, with the types of the variables.                                  *)
THEOREM Invariance == Spec => []IInv
<1> QED BY InitIInv, NextIInv, PTL DEF Spec

(* A file of a cache directory is never half written, however many processes *)
(* write it at a time and wherever they die in FileCacheManager.put.         *)
THEOREM FilesAreWhole == Spec => []WholeFiles
<1>1. IInv => WholeFiles
  BY DEF IInv
<1> QED BY <1>1, Invariance, PTL

(* A group that put_group has written names the metadata and the binary, and *)
(* every file it names is there and stays there.                             *)
THEOREM GroupsAreComplete == Spec => []GroupsComplete
<1>1. IInv => GroupsComplete
  BY DEF IInv
<1> QED BY <1>1, Invariance, PTL

(* CompiledKernel finds the metadata and the binary in the group it loads,   *)
(* and kernel_cache holds no kernel without them.                            *)
THEOREM BinaryIsLoaded == Spec => []LoadsBinary
<1>1. IInv => LoadsBinary
  BY DEF IInv, LoadsBinary, FrameOK, HeldOK
<1> QED BY <1>1, Invariance, PTL

-----------------------------------------------------------------------------
(* The files implement the atomic store.                                   *)

Held == [p \in Procs |-> DOMAIN mem[p]]
Loadable == {k \in Published : LET c == Contents(k, Group)
                               IN c.whole /\ {Metadata, Binary} \subseteq get_group(k)}

(* A kernel is published as soon as its group is there.                     *)
LEMMA AllLoadable == IInv => Loadable = Published
<1> SUFFICES ASSUME IInv PROVE Loadable = Published
  OBVIOUS
<1>1. Group \in Parts \cup {Group}
  OBVIOUS
<1> QED BY <1>1 DEF IInv, WholeFiles, GroupsComplete, Published, Loadable

(* No file of a kernel appears while a temporary file is written.           *)
LEMMA TempNotPublished ==
  ASSUME IInv, NEW p \in Procs, OpenTemp(p) \/ WriteTemp(p)
  PROVE  Published' = Published
<1>1. PICK f, k, c : dir' = [dir EXCEPT ![k] = Written(dir[k], TempPath(p, f), c)]
  BY DEF OpenTemp, WriteTemp, SetDir, Dir
<1>2. FilePath(Group) # TempPath(p, f)
  BY ProcsAssumption DEF ProcsAssumption, FilePath, TempPath
<1>3. \A l \in Keys : has_file(l, Group)' = has_file(l, Group)
  BY <1>1, <1>2 DEF IInv, TypeOK, has_file, Written
<1> QED BY <1>3 DEF Published

(* The kernel of a group is published when the group takes its name.         *)
LEMMA ReplacePublishes ==
  ASSUME IInv, NEW p \in Procs, Replace(p)
  PROVE  \E k \in Keys : Published' = Published \/ Published' = Published \cup {k}
<1>0. PICK k \in Keys, f \in Files : k = run[p].at /\ f = Head(run[p].todo)
  BY Putter DEF Replace, At, Putting
<1>1. dir' = [dir EXCEPT ![k] = Renamed(dir[k], TempPath(p, f), FilePath(f))]
  BY <1>0 DEF Replace, SetDir, Dir
<1>2. TempPath(p, f) \in DOMAIN dir[k] /\ dir[k][TempPath(p, f)].whole
  BY <1>0 DEF Replace, At, IInv, FrameOK
<1>3. \A l \in Keys, g \in Files : has_file(l, g)' <=> has_file(l, g) \/ (l = k /\ g = f)
  BY <1>1, <1>2, ReplaceStep
<1> QED BY <1>3 DEF Published, Files

(* The store starts empty. *)
LEMMA InitStore == Init => Store!Init
<1> SUFFICES ASSUME Init PROVE Store!Init
  OBVIOUS
<1>1. DOMAIN <<>> = {}
  BY EmptySeq
<1>2. Published = {} /\ Held = [p \in Procs |-> {}]
  BY <1>1 DEF Init, Published, Held, has_file, NoKernels
<1> QED BY <1>2 DEF Store!Init, Held

(* A step of the cache is one of the store, or changes nothing there.        *)
LEMMA NextStore ==
  ASSUME IInv, IInv', [Next]_vars
  PROVE  [Store!Next]_<<Loadable, Held>>
<1>1. Loadable = Published /\ Loadable' = Published'
  BY AllLoadable, Group \in Parts \cup {Group} DEF IInv, WholeFiles, GroupsComplete, Published, Loadable
<1>2. ASSUME UNCHANGED dir PROVE Published' = Published
  BY <1>2 DEF Published, has_file
<1>3. CASE UNCHANGED vars
  <2>1. UNCHANGED <<dir, mem>>
    BY <1>3 DEF vars
  <2> QED BY <1>1, <1>2, <2>1 DEF Held
<1>4. CASE Next
  <2>1. PICK p \in Procs : \/ Step(p) \/ Assign(p) \/ StageFails(p) \/ Crash(p)
                           \/ \E k \in Keys : Run(p, k)
    BY <1>4 DEF Next
  <2>2. CASE UNCHANGED <<dir, mem>>
    BY <1>1, <1>2, <2>2 DEF Held
  <2>3. CASE OpenTemp(p) \/ WriteTemp(p)
    <3>1. UNCHANGED mem
      BY <2>3 DEF OpenTemp, WriteTemp
    <3> QED BY <1>1, <2>3, <3>1, TempNotPublished DEF Held
  <2>4. CASE Replace(p)
    <3>1. UNCHANGED Held
      BY <2>4 DEF Replace, Held
    <3>2. PICK k \in Keys : Published' = Published \/ Published' = Published \cup {k}
      BY <2>4, ReplacePublishes
    <3>3. UNCHANGED <<Loadable, Held>> \/ (Loadable' = Loadable \cup {k} /\ UNCHANGED Held)
      BY <1>1, <3>1, <3>2
    <3> QED BY <3>3 DEF Store!Next, Store!Publish, Loadable, Held
  <2>5. CASE Loaded(p)
    <3>1. run[p].at \in Keys /\ run[p].at \in Published /\ UNCHANGED dir
      BY <2>5 DEF Loaded, At, IInv, FrameOK, Published
    <3>2. DOMAIN mem'[p] = DOMAIN mem[p] \cup {run[p].at}
      BY <2>5 DEF Loaded, IInv, TypeOK
    <3>3. \A q \in Procs : q # p => mem'[q] = mem[q]
      BY <2>5 DEF Loaded, IInv, TypeOK
    <3>4. Held' = [Held EXCEPT ![p] = @ \cup {run[p].at}]
      BY <3>2, <3>3 DEF Held
    <3>5. \E k \in Keys : /\ k \in Loadable /\ Held' = [Held EXCEPT ![p] = @ \cup {k}]
                          /\ Loadable' = Loadable
      BY <1>1, <1>2, <3>1, <3>4
    <3> QED BY <3>5 DEF Store!Next, Store!Obtain, Loadable, Held
  <2>6. CASE Crash(p)
    <3>1. UNCHANGED dir /\ mem' = [mem EXCEPT ![p] = NoKernels] /\ DOMAIN NoKernels = {}
      BY <2>6, EmptySeq DEF Crash, NoKernels
    <3>2. Held' = [Held EXCEPT ![p] = {}]
      BY <3>1 DEF Held, IInv, TypeOK
    <3>3. Loadable' = Loadable
      BY <1>1, <1>2, <3>1
    <3> QED BY <3>2, <3>3 DEF Store!Next, Store!Die, Loadable, Held
  <2> QED BY <2>1, <2>2, <2>3, <2>4, <2>5, <2>6
          DEF Step, FindGroup, ReadGroup, MakeIR, LoadMetadata, LoadAsm, CheckGlobals, Launch,
              Assign, StageFails, Run
<1> QED BY <1>3, <1>4

(* The files implement the store: whatever the processes do and wherever    *)
(* they die, a kernel is published in one step and for good, and a process  *)
(* obtains only kernels that were published.                                *)
THEOREM CacheImplementsStore == Spec => ImplementsStore
<1>1. IInv /\ IInv' /\ [Next]_vars => [Store!Next]_<<Loadable, Held>>
  BY NextStore
<1>2. Init => Store!Init
  BY InitStore
<1> QED BY <1>1, <1>2, Invariance, PTL DEF Spec, ImplementsStore, Store!Spec, Loadable, Held
=============================================================================
