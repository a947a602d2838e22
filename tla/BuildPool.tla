----------------------------- MODULE BuildPool -----------------------------
(***************************************************************************)
(* The build command (probe_builder/__init__.py) from the unpacked kernels *)
(* to its exit status: a pool of threads runs build_kernel                 *)
(* (builder/distro/base_builder.py) for every kernel, which waits for its  *)
(* builder image (BuilderImage), then runs builder-entrypoint.sh in a      *)
(* container, once for the kernel module and once for the eBPF probe, and  *)
(* the main thread reports.                                                *)
(*                                                                         *)
(* A probe is identified by its kernel release and configuration hash.     *)
(* Two tasks may have the same one: the distribution release is part of    *)
(* the task, but not of the directories and file names made from it.       *)
(***************************************************************************)
EXTENDS BuilderImage, Naturals, FiniteSets

CONSTANTS
    Probe,    \* kernel releases with their configuration hash
    ProbeOf,  \* the one each task builds
    HasBpf,   \* the images whose Dockerfile supports eBPF
    Bytes,    \* contents of probe files
    Makes,    \* the ones that each task makes, with the compiler of its image
    Skipped,  \* what the ignore list and skip_build exclude on purpose
    Broken,   \* tasks whose target has no configuration or fits no Dockerfile
    Jobs,     \* threads of the pool, the -j option
    Faults    \* may a copy to the output directory fail, or the host stop?

Art == {"kmod", "bpf"}

ASSUME PoolAssumption ==
    /\ Task \subseteq Nat /\ IsFiniteSet(Task) /\ Jobs \in Nat \ {0}
    /\ ProbeOf \in [Task -> Probe]
    /\ HasBpf \subseteq Image /\ Broken \subseteq Task
    /\ Makes \in [Task -> [Art -> Bytes]]
    /\ Skipped \subseteq (Probe \X Art)
    /\ Faults \in BOOLEAN

VARIABLES
    out,     \* the output files: "none", "partial" or "complete" in length
    bytes,   \* whose contents there are in each of them
    writer,  \* the task whose copy truncated the file last, while it copies
    stage,   \* how far each task is
    art,     \* what it is building
    skip,    \* what it found a reason to skip before it waited for its image
    copies,  \* how many copies its container still has to make
    result,  \* what it reports of the module and of the eBPF probe
    exit,    \* of the main thread: "running", "success" or "failure"
    listed   \* the kernels in the list of failed kernels

poolVars == <<out, bytes, writer, stage, art, skip, copies, result, exit, listed>>
vars == <<imageVars, poolVars>>

Key(t) == <<ProbeOf[t], art[t]>>

\* builder_image.probe_built: a file with the name of the probe exists.
ProbeBuilt(t, a) == out[<<ProbeOf[t], a>>] # "none"

\* Variant: a module is copied under a third name.
ThreeCopies(a) == IF a = "kmod" THEN 3 ELSE 1

\* builder-entrypoint.sh copies a module under HASH and under HASH_ORIG,
\* which builder_image.run gives the same value.
Copies(a) == IF a = "kmod" THEN 2 ELSE 1

Unreported == [a \in Art |-> "none"]

Init ==
    /\ ImageInit
    /\ out    = [k \in Probe \X Art |-> "none"]
    /\ bytes  = [k \in Probe \X Art |-> {}]
    /\ writer = [k \in Probe \X Art |-> None]
    /\ stage  = [t \in Task |-> "queued"]
    /\ art    = [t \in Task |-> "kmod"]
    /\ skip   = [t \in Task |-> {}]
    /\ copies = [t \in Task |-> 0]
    /\ result = [t \in Task |-> Unreported]
    /\ exit   = "running"
    /\ listed = {}

Enter(t, s) == stage' = [stage EXCEPT ![t] = s]

Settled(t) == stage[t] \in {"done", "raised"}

Running == {t \in Task : stage[t] # "queued" /\ ~Settled(t)}

(***************************************************************************)
(* build_kernel until it asks for its image.                               *)
(***************************************************************************)
Start(t) ==
    /\ stage[t] = "queued"
    /\ \A u \in Task : u < t => stage[u] # "queued"
    /\ Cardinality(Running) < Jobs
    /\ Enter(t, "prepare")
    /\ UNCHANGED <<imageVars, out, bytes, writer, art, skip, copies, result, exit, listed>>

PrepareRaises(t) ==
    /\ stage[t] = "prepare" /\ t \in Broken
    /\ Enter(t, "raised")
    /\ UNCHANGED <<imageVars, out, bytes, writer, art, skip, copies, result, exit, listed>>

Prepare(t) ==
    /\ stage[t] = "prepare" /\ t \notin Broken
    /\ skip' = [skip EXCEPT ![t] =
                  {a \in Art : ProbeBuilt(t, a) \/ <<ProbeOf[t], a>> \in Skipped}]
    /\ Enter(t, "image")
    /\ Call(t)
    /\ UNCHANGED <<out, bytes, writer, art, copies, result, exit, listed>>

WaitForImage(t) ==
    /\ Serve(t)
    /\ UNCHANGED poolVars

ImageRaised(t) ==
    /\ stage[t] = "image" /\ call[t] = "raised"
    /\ Enter(t, "raised")
    /\ UNCHANGED <<imageVars, out, bytes, writer, art, skip, copies, result, exit, listed>>

ImageReturned(t) ==
    /\ stage[t] = "image" /\ call[t] = "returned"
    /\ skip' = [skip EXCEPT ![t] = IF ImageOf[t] \in HasBpf THEN @ ELSE @ \cup {"bpf"}]
    /\ Enter(t, "decide")
    /\ UNCHANGED <<imageVars, out, bytes, writer, art, copies, result, exit, listed>>

(***************************************************************************)
(* build_kernel_impl, for the module and then for the eBPF probe.          *)
(***************************************************************************)
Report(t, r) ==
    /\ result' = [result EXCEPT ![t] = [@ EXCEPT ![art[t]] = r]]
    /\ art' = [art EXCEPT ![t] = "bpf"]
    /\ Enter(t, IF art[t] = "kmod" THEN "decide" ELSE "done")

Existing(t) ==
    /\ stage[t] = "decide" /\ ProbeBuilt(t, art[t])
    /\ Report(t, "EXISTING")
    /\ UNCHANGED <<imageVars, out, bytes, writer, skip, copies, exit, listed>>

\* Variant: the reason to skip comes before the look at the output.
SkipFirst(t) ==
    /\ stage[t] = "decide" /\ art[t] \in skip[t]
    /\ Report(t, "SKIPPED")
    /\ UNCHANGED <<imageVars, out, bytes, writer, skip, copies, exit, listed>>

Skip(t) ==
    /\ stage[t] = "decide" /\ ~ProbeBuilt(t, art[t]) /\ art[t] \in skip[t]
    /\ Report(t, "SKIPPED")
    /\ UNCHANGED <<imageVars, out, bytes, writer, skip, copies, exit, listed>>

RunContainer(t) ==
    /\ stage[t] = "decide" /\ ~ProbeBuilt(t, art[t]) /\ art[t] \notin skip[t]
    /\ Enter(t, "container")
    /\ copies' = [copies EXCEPT ![t] = Copies(art[t])]
    /\ UNCHANGED <<imageVars, out, bytes, writer, art, skip, result, exit, listed>>

\* docker has no such image, or the compiler, strip or the vermagic check fails.
CompileFails(t) ==
    /\ stage[t] = "container" /\ copies[t] = Copies(art[t])
    /\ Report(t, "FAILED")
    /\ UNCHANGED <<imageVars, out, bytes, writer, skip, copies, exit, listed>>

\* No clang in the image: nothing is built, and the container succeeds.
NoClang(t) ==
    /\ stage[t] = "container" /\ art[t] = "bpf" /\ copies[t] = 1
    /\ ImageOf[t] \in images
    /\ copies' = [copies EXCEPT ![t] = 0]
    /\ UNCHANGED <<imageVars, out, bytes, writer, stage, art, skip, result, exit, listed>>

\* cp truncates the output file, or creates it, and then writes its own bytes.
StartCopy(t) ==
    /\ stage[t] = "container" /\ copies[t] > 0 /\ ImageOf[t] \in images
    /\ out' = [out EXCEPT ![Key(t)] = "partial"]
    /\ bytes' = [bytes EXCEPT ![Key(t)] = {Makes[t][art[t]]}]
    /\ writer' = [writer EXCEPT ![Key(t)] = t]
    /\ Enter(t, "copying")
    /\ UNCHANGED <<imageVars, art, skip, copies, result, exit, listed>>

\* A copy under which another one truncated the file goes on at its own
\* offset: some of its bytes may come into the other's file.
WriteBehind(t) ==
    /\ stage[t] = "copying" /\ writer[Key(t)] # t
    /\ bytes' = [bytes EXCEPT ![Key(t)] = @ \cup {Makes[t][art[t]]}]
    /\ UNCHANGED <<imageVars, out, writer, stage, art, skip, copies, result, exit, listed>>

\* The copy that truncated the file last has written it from its beginning to
\* its end; one that was truncated has not.
EndCopy(t) ==
    /\ stage[t] = "copying"
    /\ IF writer[Key(t)] = t
       THEN /\ out' = [out EXCEPT ![Key(t)] = "complete"]
            /\ writer' = [writer EXCEPT ![Key(t)] = None]
       ELSE UNCHANGED <<out, writer>>
    /\ copies' = [copies EXCEPT ![t] = @ - 1]
    /\ Enter(t, "container")
    /\ UNCHANGED <<imageVars, bytes, art, skip, result, exit, listed>>

\* Variant: the script goes on after a cp that failed.
CopyFailureIgnored(t) ==
    /\ stage[t] = "copying" /\ Faults
    /\ writer' = [writer EXCEPT ![Key(t)] = IF @ = t THEN None ELSE @]
    /\ copies' = [copies EXCEPT ![t] = @ - 1]
    /\ Enter(t, "container")
    /\ UNCHANGED <<imageVars, out, bytes, art, skip, result, exit, listed>>

\* Variant: containers are named for their probe, and one that is started
\* removes the one of its name.
RemovedByNamesake(t) ==
    /\ stage[t] = "copying"
    /\ \E u \in Task \ {t} : stage[u] = "container" /\ Key(u) = Key(t)
    /\ writer' = [writer EXCEPT ![Key(t)] = IF @ = t THEN None ELSE @]
    /\ Report(t, "FAILED")
    /\ UNCHANGED <<imageVars, out, bytes, skip, copies, exit, listed>>

CopyFails(t) ==
    /\ stage[t] = "copying" /\ Faults
    /\ writer' = [writer EXCEPT ![Key(t)] = IF @ = t THEN None ELSE @]
    /\ Report(t, "FAILED")
    /\ UNCHANGED <<imageVars, out, bytes, skip, copies, exit, listed>>

\* The container succeeded: it counts only if the file is there.
ContainerSucceeds(t) ==
    /\ stage[t] = "container" /\ copies[t] = 0
    /\ Report(t, IF ProbeBuilt(t, art[t]) THEN "BUILT" ELSE "FAILED")
    /\ UNCHANGED <<imageVars, out, bytes, writer, skip, copies, exit, listed>>

\* Variant: an exception is not counted as a failure.
ReportedFailed(t) == \E a \in Art : result[t][a] = "FAILED"

(***************************************************************************)
(* The report of the main thread: a first table that counts the failed     *)
(* kernels, and a second one of these alone, in the order of the tasks,    *)
(* where the line for an exception has three values for four columns, so   *)
(* that formatting it raises and ends the program.                         *)
(***************************************************************************)
Failed(t) == stage[t] = "raised" \/ \E a \in Art : result[t][a] = "FAILED"

Finish ==
    /\ exit = "running" /\ \A t \in Task : Settled(t)
    /\ exit' = IF \E t \in Task : Failed(t) THEN "failure" ELSE "success"
    /\ listed' = {t \in Task : Failed(t) /\ \A u \in Task : u <= t => stage[u] # "raised"}
    /\ UNCHANGED <<imageVars, out, bytes, writer, stage, art, skip, copies, result>>

\* The command is given once more, after it ended or the host stopped.
NewRun ==
    /\ Faults \/ exit # "running"
    /\ ImageReset
    /\ writer' = [k \in Probe \X Art |-> None]
    /\ stage'  = [t \in Task |-> "queued"]
    /\ art'    = [t \in Task |-> "kmod"]
    /\ skip'   = [t \in Task |-> {}]
    /\ copies' = [t \in Task |-> 0]
    /\ result' = [t \in Task |-> Unreported]
    /\ exit'   = "running"
    /\ listed' = {}
    /\ UNCHANGED <<out, bytes>>

Build(t) ==
    \/ Start(t) \/ PrepareRaises(t) \/ Prepare(t)
    \/ WaitForImage(t) \/ ImageRaised(t) \/ ImageReturned(t)
    \/ Existing(t) \/ Skip(t) \/ RunContainer(t) \/ CompileFails(t) \/ NoClang(t)
    \/ StartCopy(t) \/ WriteBehind(t) \/ EndCopy(t) \/ CopyFails(t)
    \/ ContainerSucceeds(t)

Next == (\E t \in Task : Build(t)) \/ Finish \/ NewRun

Spec == Init /\ [][Next]_vars

\* Threads of the pool are not abandoned; docker and the containers end.
FairSpec == Spec /\ WF_vars(Finish) /\ \A t \in Task : WF_vars(Build(t))

-----------------------------------------------------------------------------
PoolTypeOK ==
    /\ ImageTypeOK
    /\ out \in [Probe \X Art -> {"none", "partial", "complete"}]
    /\ bytes \in [Probe \X Art -> SUBSET Bytes]
    /\ writer \in [Probe \X Art -> Task \cup {None}]
    /\ stage \in [Task -> {"queued", "prepare", "image", "decide", "container",
                           "copying", "done", "raised"}]
    /\ art \in [Task -> Art]
    /\ skip \in [Task -> SUBSET Art]
    /\ copies \in [Task -> 0..2]
    /\ result \in [Task -> [Art -> {"none", "BUILT", "EXISTING", "SKIPPED", "FAILED"}]]
    /\ exit \in {"running", "success", "failure"}
    /\ listed \in SUBSET Task
    /\ \A t \in Task : stage[t] = "copying" => copies[t] > 0

\* No container is started before docker has its image: not when the task
\* that built the image failed, nor when it is another one that built it.
ContainerHasImage ==
    \A t \in Task : stage[t] \in {"container", "copying"} /\ ~Prebuilt =>
        ImageOf[t] \in images

\* A file is whole if it is complete and has the bytes of one task only.
WholeBy(t, a) == LET k == <<ProbeOf[t], a>> IN
    out[k] = "complete" /\ bytes[k] = {Makes[t][a]}

\* The tasks that build one probe, and whether what they make is the same.
Makers(k) == {t \in Task : ProbeOf[t] = k[1]}
SameBytes(k) == \A t, u \in Makers(k) : Makes[t][k[2]] = Makes[u][k[2]]

\* What is reported as BUILT is a whole file of the task that reports it
\* (base_builder.py:102-104), also after failed copies, crashes and earlier
\* runs, if no two tasks have the same output file.
BuiltMeansWhole ==
    \A t \in Task, a \in Art : result[t][a] = "BUILT" => WholeBy(t, a)

\* "Already built" (builder_image.py:121): an existing probe is a complete one.
\* The code refutes it: a copy that failed leaves the beginning of a probe.
ExistingMeansComplete ==
    \A t \in Task, a \in Art :
        result[t][a] = "EXISTING" => out[<<ProbeOf[t], a>>] = "complete"

\* The reason "Already built", found before the wait for the image, never
\* makes a probe look excluded (base_builder.py:85-90): SKIPPED is only what
\* somebody excluded, or what the image cannot build.
SkippedOnPurpose ==
    \A t \in Task, a \in Art : result[t][a] = "SKIPPED" =>
        <<ProbeOf[t], a>> \in Skipped \/ (a = "bpf" /\ ImageOf[t] \notin HasBpf)

\* The exit status is a failure exactly if some kernel failed, whatever the
\* report that comes before it does (__init__.py:175-217).
ExitStatusHonest ==
    exit # "running" =>
        (exit = "failure" <=> \E t \in Task : stage[t] = "raised" \/
                                  \E a \in Art : result[t][a] \notin
                                      {"BUILT", "EXISTING", "SKIPPED"})

\* Tasks that build the same probe at the same time may truncate each other's
\* files and write into them, but when no copy fails, all files are complete
\* once all are done, and whole if those that share one make the same of it.
WholeWhenSettled ==
    (\A t \in Task : Settled(t)) =>
        \A k \in Probe \X Art :
            /\ out[k] # "partial"
            /\ SameBytes(k) /\ out[k] # "none" => \E t \in Makers(k) : WholeBy(t, k[2])

\* The same without that condition.  The code refutes it: two images whose
\* compilers make different bytes leave a mixture of both.
WholeWhoeverMakesIt ==
    (\A t \in Task : Settled(t)) =>
        \A k \in Probe \X Art :
            out[k] # "none" => \E t \in Makers(k) : WholeBy(t, k[2])

\* "List of failed kernels:" (__init__.py:196): all of them are in it.  The code
\* refutes it: the line of a kernel that raised ends the program.
FailedKernelsListed ==
    exit = "failure" => listed = {t \in Task : Failed(t)}

\* Every run comes to its exit status, with any number of threads, whatever fails
\* in it and whoever raises inside the lock, once the host no longer stops.
RunEnds ==
    <>[][NewRun => exit # "running"]_vars => ((exit = "running") ~> (exit # "running"))
=============================================================================
