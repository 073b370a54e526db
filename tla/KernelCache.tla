---------------------------- MODULE KernelCache ----------------------------
(* Processes that run one @jit'ed kernel and share its cache directories:   *)
(* JITFunction.run, compile(), FileCacheManager and CompiledKernel.  A step *)
(* is what one process does between two points at which another process may *)
(* change the files it looks at; a process may die at any of them.          *)
EXTENDS Naturals, Sequences, FiniteSets, SequencesExt

CONSTANTS
    Procs,          \* the processes
    Keys,           \* the specializations; each has its own cache directory
    Values,         \* what a constexpr global used by the kernel may be
    Stages,         \* the extensions of the compiler's stages, in order
    Binary,         \* the extension of the binary, the last of Stages
    Settings,       \* the knobs a process may start with
    MaxRuns,        \* bound: runs of the kernel, over all processes
    MaxEdits,       \* bound: assignments to the global, over all processes
    MaxCrashes      \* bound: deaths of processes

ASSUME StagesAssumption ==
    /\ Stages \in Seq(STRING) /\ Stages # <<>> /\ Binary = Last(Stages)
    /\ \A e \in {"json", "__grp__", ""} : \A i \in DOMAIN Stages : Stages[i] # e
\* A process's temporary directories are not the cache directory itself.
ASSUME ProcsAssumption == "" \notin Procs
ASSUME SettingsAssumption ==
    Settings \subseteq [always_compile : BOOLEAN, store_binary_only : BOOLEAN]

VARIABLES
    dir,        \* dir[k]: the files of a cache directory, name -> content
    glob,       \* glob[p]: the present value of the global in p
    seen,       \* seen[p]: used_global_vals, once cache_key has been computed
    knobs,      \* knobs[p]: the settings p runs under
    mem,        \* mem[p]: kernel_cache, the kernels p holds, key -> kernel
    run,        \* run[p]: the frames of run() and compile() in p
    left        \* what is left of the bounds
vars == <<dir, glob, seen, knobs, mem, run, left>>

None == "none"
Metadata == "json"
Group == "__grp__"
Parts == Range(Stages) \cup {Metadata}

\* The names of a directory: its files, and the temporary ones of a process.
FilePath(f) == <<"", f>>
TempInPlace(p, f) == FilePath(f)
TempPath(p, f) == <<p, f>>
has_file(k, f) == FilePath(f) \in DOMAIN dir[k]
Contents(k, f) == dir[k][FilePath(f)]

\* A file that is being written holds less than its contents.
Written(d, n, c) == [m \in DOMAIN d \cup {n} |-> IF m = n THEN c ELSE d[m]]
\* os.replace: the file takes its new name in one step, over an old one.
Renamed(d, from, to) ==
    [m \in (DOMAIN d \ {from}) \cup {to} |-> IF m = to THEN d[from] ELSE d[m]]

\* The files whose paths the group names and that exist.
get_group(k) == {f \in Contents(k, Group).names : has_file(k, f)}

\* The files a compilation puts, in their order.
Stored(p) == IF knobs[p].store_binary_only THEN <<Binary>> ELSE Stages
PutsGroupEarly(p) == Stored(p) \o <<Group, Metadata>>
PutsNoBinary(p) == IF knobs[p].store_binary_only THEN <<Metadata, Group>>
                   ELSE Stored(p) \o <<Metadata, Group>>
Puts(p) == Stored(p) \o <<Metadata, Group>>

\* What put adds to metadata_group: not the group itself.
Named(f) == {f} \ {Group}

Idle == [pc |-> "idle", at |-> None, group |-> {}, todo |-> <<>>, ir |-> None,
         kernel |-> <<>>]
NoKernels == <<>>

Init ==
    /\ dir = [k \in Keys |-> <<>>]
    /\ glob \in {[p \in Procs |-> v] : v \in Values}
    /\ seen = [p \in Procs |-> None]
    /\ knobs \in [Procs -> Settings]
    /\ mem = [p \in Procs |-> NoKernels]
    /\ run = [p \in Procs |-> Idle]
    /\ left = [runs |-> MaxRuns, edits |-> MaxEdits, crashes |-> MaxCrashes]

At(p, pc) == run[p].pc = pc
Goto(p, pc) == run' = [run EXCEPT ![p].pc = pc]
Dir(p) == dir[run[p].at]
SetDir(p, d) == dir' = [dir EXCEPT ![run[p].at] = d]

---------------------------------------------------------------------------
(* JITFunction.run, before and after the kernel is there.                   *)

\* The global is assigned to by the program around the kernel.
Assign(p) ==
    /\ At(p, "idle") /\ left.edits > 0
    /\ \E v \in Values \ {glob[p]} : glob' = [glob EXCEPT ![p] = v]
    /\ left' = [left EXCEPT !.edits = @ - 1]
    /\ UNCHANGED <<dir, seen, knobs, mem, run>>

\* A kernel in memory is used as it is; else the key of the cache is computed,
\* with the hash of the function, which is computed only once.
Run(p, k) ==
    /\ At(p, "idle") /\ left.runs > 0
    /\ left' = [left EXCEPT !.runs = @ - 1]
    /\ IF k \in DOMAIN mem[p]
       THEN /\ run' = [run EXCEPT ![p] = [Idle EXCEPT !.pc = "check", !.at = k,
                                                      !.kernel = mem[p][k]]]
            /\ UNCHANGED seen
       ELSE /\ run' = [run EXCEPT ![p] = [Idle EXCEPT !.pc = "find", !.at = k]]
            /\ seen' = [seen EXCEPT ![p] = IF @ = None THEN glob[p] ELSE @]
    /\ UNCHANGED <<dir, glob, knobs, mem>>

\* The globals are compared with what they were when the hash was computed.
CheckGlobals(p) ==
    /\ At(p, "check") /\ seen[p] # glob[p]
    /\ run' = [run EXCEPT ![p] = Idle]
    /\ UNCHANGED <<dir, glob, seen, knobs, mem, left>>

MayLaunch(p) == At(p, "check") /\ seen[p] = glob[p]
Launch(p) ==
    /\ MayLaunch(p)
    /\ run' = [run EXCEPT ![p] = Idle]
    /\ UNCHANGED <<dir, glob, seen, knobs, mem, left>>

---------------------------------------------------------------------------
(* compile().                                                               *)

FindGroupLocked(p) ==
    /\ At(p, "find")
    /\ \A n \in DOMAIN Dir(p) : n[1] \in {"", p}
    /\ Goto(p, IF has_file(run[p].at, Group) THEN "read" ELSE "make_ir")
    /\ UNCHANGED <<dir, glob, seen, knobs, mem, left>>

FindGroup(p) ==
    /\ At(p, "find")
    /\ Goto(p, IF has_file(run[p].at, Group) THEN "read" ELSE "make_ir")
    /\ UNCHANGED <<dir, glob, seen, knobs, mem, left>>

\* The group is read; with its metadata there it is a hit.
ReadGroup(p) ==
    /\ At(p, "read")
    /\ LET g == get_group(run[p].at) IN
       run' = [run EXCEPT ![p].group = g,
                          ![p].pc = IF ~knobs[p].always_compile /\ Metadata \in g
                                    THEN "metadata" ELSE "make_ir"]
    /\ UNCHANGED <<dir, glob, seen, knobs, mem, left>>

MakeIR(p) ==
    /\ At(p, "make_ir")
    /\ run' = [run EXCEPT ![p].ir = glob[p], ![p].todo = Puts(p), ![p].pc = "open"]
    /\ UNCHANGED <<dir, glob, seen, knobs, mem, left>>

\* A stage of the compiler raises an exception, which run() passes on.
StageFailsCached(p) ==
    /\ At(p, "open") /\ Head(run[p].todo) \in Range(Stages)
    /\ mem' = [mem EXCEPT ![p] = [k \in DOMAIN @ \cup {run[p].at} |-> <<>>]]
    /\ run' = [run EXCEPT ![p] = Idle]
    /\ UNCHANGED <<dir, glob, seen, knobs, left>>

StageFails(p) ==
    /\ At(p, "open") /\ Head(run[p].todo) \in Range(Stages)
    /\ run' = [run EXCEPT ![p] = Idle]
    /\ UNCHANGED <<dir, glob, seen, knobs, mem, left>>

\* FileCacheManager.put in three steps: the file is opened and written in a
\* directory of its own and then moved; put_group puts the names of the group.
OpenTemp(p) ==
    /\ At(p, "open")
    /\ SetDir(p, Written(Dir(p), TempPath(p, Head(run[p].todo)), [whole |-> FALSE]))
    /\ Goto(p, "write")
    /\ UNCHANGED <<glob, seen, knobs, mem, left>>

WriteTemp(p) ==
    /\ At(p, "write")
    /\ LET f == Head(run[p].todo)
           c == IF f = Group THEN [whole |-> TRUE, names |-> run[p].group]
                             ELSE [whole |-> TRUE, val |-> run[p].ir]
       IN  SetDir(p, Written(Dir(p), TempPath(p, f), c))
    /\ Goto(p, "replace")
    /\ UNCHANGED <<glob, seen, knobs, mem, left>>

Replace(p) ==
    /\ At(p, "replace")
    /\ LET f == Head(run[p].todo) IN
       /\ SetDir(p, Renamed(Dir(p), TempPath(p, f), FilePath(f)))
       /\ run' = [run EXCEPT ![p].todo = Tail(@),
                             ![p].group = @ \cup Named(f),
                             ![p].pc = IF f = Group THEN "metadata" ELSE "open"]
    /\ UNCHANGED <<glob, seen, knobs, mem, left>>

---------------------------------------------------------------------------
(* CompiledKernel: reads the metadata, then the other files of the group.   *)

Part(p, f) == [g \in DOMAIN run[p].kernel \cup {f} |->
                  IF g = f THEN Contents(run[p].at, f).val ELSE run[p].kernel[g]]

\* The files of the group that are not read yet; the group may have any order.
Unread(p) == (run[p].group \cap Range(Stages)) \ DOMAIN run[p].kernel

LoadMetadata(p) ==
    /\ At(p, "metadata")
    /\ run' = [run EXCEPT ![p].kernel = Part(p, Metadata), ![p].pc = "asm"]
    /\ UNCHANGED <<dir, glob, seen, knobs, mem, left>>

LoadAsm(p) ==
    /\ At(p, "asm")
    /\ \E f \in Unread(p) : run' = [run EXCEPT ![p].kernel = Part(p, f)]
    /\ UNCHANGED <<dir, glob, seen, knobs, mem, left>>

\* The kernel goes to the process's own cache before the globals are checked.
Loaded(p) ==
    /\ At(p, "asm") /\ Unread(p) = {}
    /\ mem' = [mem EXCEPT ![p] = [k \in DOMAIN @ \cup {run[p].at} |->
                  IF k = run[p].at THEN run[p].kernel ELSE @[k]]]
    /\ Goto(p, "check")
    /\ UNCHANGED <<dir, glob, seen, knobs, left>>

---------------------------------------------------------------------------
\* The process dies, and is started again, perhaps from an edited program.
Crash(p) ==
    /\ ~At(p, "idle") \/ mem[p] # NoKernels
    /\ left.crashes > 0
    /\ left' = [left EXCEPT !.crashes = @ - 1]
    /\ glob' \in {[glob EXCEPT ![p] = v] : v \in Values}
    /\ knobs' \in {[knobs EXCEPT ![p] = s] : s \in Settings}
    /\ seen' = [seen EXCEPT ![p] = None]
    /\ mem' = [mem EXCEPT ![p] = NoKernels]
    /\ run' = [run EXCEPT ![p] = Idle]
    /\ UNCHANGED dir

Step(p) == \/ FindGroup(p) \/ ReadGroup(p) \/ MakeIR(p)
           \/ OpenTemp(p) \/ WriteTemp(p) \/ Replace(p)
           \/ LoadMetadata(p) \/ LoadAsm(p) \/ Loaded(p)
           \/ CheckGlobals(p) \/ Launch(p)

Next == \E p \in Procs : \/ Step(p) \/ Assign(p) \/ StageFails(p) \/ Crash(p)
                         \/ \E k \in Keys : Run(p, k)

Spec == Init /\ [][Next]_vars

\* Every process keeps running, unless it has nothing to do.
FairSpec == Spec /\ \A p \in Procs : WF_vars(Step(p))

---------------------------------------------------------------------------
(* No process ever finds a file of a cache directory half written, also     *)
(* when the one that wrote it has died ("use temp dir to be robust against  *)
(* program interruptions", FileCacheManager.put).                           *)
WholeFiles ==
    \A k \in Keys, f \in Parts \cup {Group} : has_file(k, f) => Contents(k, f).whole

(* A group that can be found names a complete kernel whose files are there, *)
(* whatever compilation wrote each of them: CompiledKernel cannot fail on a *)
(* cache hit for want of the metadata or the binary.                        *)
GroupsComplete ==
    \A k \in Keys : has_file(k, Group) =>
        /\ {Metadata, Binary} \subseteq Contents(k, Group).names
        /\ get_group(k) = Contents(k, Group).names

(* What a process is about to load is a kernel with its binary, after a hit *)
(* and after a compilation of its own, and so is every kernel that it keeps *)
(* and launches later.                                                      *)
LoadsBinary ==
    \A p \in Procs :
        /\ run[p].pc \in {"metadata", "asm"} =>
              /\ {Metadata, Binary} \subseteq run[p].group
              /\ \A f \in run[p].group : has_file(run[p].at, f)
        /\ \A k \in DOMAIN mem[p] : {Metadata, Binary} \subseteq DOMAIN mem[p][k]

(* The files implement an atomic store of kernels.                          *)
Published == {k \in Keys : has_file(k, Group)}
Store == INSTANCE KernelStore WITH
            published <- {k \in Published : LET c == Contents(k, Group)
                          IN c.whole /\ {Metadata, Binary} \subseteq get_group(k)},
            held <- [p \in Procs |-> DOMAIN mem[p]]
ImplementsStore == Store!Spec

(* Every run comes to an end, in a launch, an error or the death of the     *)
(* process, whatever the others do with the files.                          *)
RunsEnd == \A p \in Procs : ~At(p, "idle") ~> At(p, "idle")
=============================================================================
