-------------------------- MODULE BuildPool_proofs --------------------------
(***************************************************************************)
(* Proofs about BuildPool, for any number of kernels, images and threads,  *)
(* with failed copies, crashes and any number of runs.                     *)
(***************************************************************************)
EXTENDS BuildPool, BuilderImage_proofs

USE PoolAssumption

-----------------------------------------------------------------------------
(***************************************************************************)
(* The pool calls builder_image.build as BuilderImage describes it, so     *)
(* what is proved there holds here.                                        *)
(***************************************************************************)

LEMMA StepMapsToImageStep == [Next]_vars => [ImageNext]_imageVars
<1> SUFFICES ASSUME [Next]_vars PROVE [ImageNext]_imageVars
  OBVIOUS
<1>1. ASSUME NEW t \in Task, Build(t) PROVE [ImageNext]_imageVars
  <2>1. CASE Prepare(t)
    BY <2>1 DEF Prepare, ImageNext
  <2>2. CASE WaitForImage(t)
    BY <2>2 DEF WaitForImage, ImageNext
  <2>3. CASE ~Prepare(t) /\ ~WaitForImage(t)
    BY <1>1, <2>3 DEF Build, Start, PrepareRaises, ImageRaised, ImageReturned,
       Existing, Skip, RunContainer, CompileFails, NoClang, StartCopy, WriteBehind, EndCopy,
       CopyFails, ContainerSucceeds
  <2> QED
    BY <2>1, <2>2, <2>3
<1>2. CASE Finish
  BY <1>2 DEF Finish
<1>3. CASE NewRun
  BY <1>3 DEF NewRun, ImageNext
<1>4. CASE UNCHANGED vars
  BY <1>4 DEF vars
<1> QED
  BY <1>1, <1>2, <1>3, <1>4 DEF Next

\* So what is proved of ImageSpec holds of the pool.
LEMMA ImplementsImages == Spec => ImageSpec
<1>1. Init => ImageInit
  BY DEF Init
<1> QED
  BY <1>1, StepMapsToImageStep, PTL DEF Spec, ImageSpec

-----------------------------------------------------------------------------
(***************************************************************************)
(* Type correctness.                                                       *)
(***************************************************************************)

LEMMA PoolTypeInit == Init => PoolTypeOK
<1> SUFFICES ASSUME Init PROVE PoolTypeOK
  OBVIOUS
<1>1. ImageTypeOK
  BY ImageInvInit DEF Init, ImageInv
<1> QED
  BY <1>1 DEF Init, PoolTypeOK, Art, Unreported

Outcome == {"none", "BUILT", "EXISTING", "SKIPPED", "FAILED"}

\* A report sets one of the two results, and goes on.
LEMMA ReportType ==
  ASSUME PoolTypeOK, NEW t \in Task, NEW r \in Outcome, Report(t, r)
  PROVE  /\ result' \in [Task -> [Art -> Outcome]]
         /\ art' \in [Task -> Art]
         /\ stage' \in [Task -> {"queued", "prepare", "image", "decide", "container",
                                 "copying", "done", "raised"}]
         /\ stage'[t] # "copying" /\ \A u \in Task \ {t} : stage'[u] = stage[u]
  BY DEF Report, PoolTypeOK, Enter, Outcome, Art

LEMMA PoolTypeNext == PoolTypeOK /\ ImageInv /\ [Next]_vars => PoolTypeOK'
<1> SUFFICES ASSUME PoolTypeOK, ImageInv, [Next]_vars PROVE PoolTypeOK'
  OBVIOUS
<1>0. ImageTypeOK'
  BY ImageInvNext, StepMapsToImageStep DEF ImageInv
<1>1. ASSUME NEW t \in Task, Build(t) PROVE PoolTypeOK'
  <2>0. Key(t) \in Probe \X Art
    BY DEF Key, PoolTypeOK
  <2>1. CASE Start(t) \/ PrepareRaises(t) \/ ImageRaised(t) \/ WaitForImage(t)
    BY <1>0, <2>1 DEF Start, PrepareRaises, ImageRaised, WaitForImage, poolVars,
       Enter, PoolTypeOK
  <2>2. CASE Prepare(t)
    BY <1>0, <2>2 DEF Prepare, Enter, PoolTypeOK
  <2>3. CASE ImageReturned(t)
    BY <1>0, <2>3 DEF ImageReturned, Enter, PoolTypeOK, Art
  <2>4. CASE Existing(t) \/ Skip(t) \/ CompileFails(t) \/ ContainerSucceeds(t)
    <3>1. PICK r \in Outcome : Report(t, r)
      BY <2>4 DEF Existing, Skip, CompileFails, ContainerSucceeds, Outcome
    <3>2. UNCHANGED <<out, bytes, writer, skip, copies, exit, listed>>
      BY <2>4 DEF Existing, Skip, CompileFails, ContainerSucceeds
    <3> QED
      BY <1>0, <3>1, <3>2, ReportType DEF PoolTypeOK, Outcome
  <2>5. CASE RunContainer(t)
    BY <1>0, <2>5 DEF RunContainer, Copies, Enter, PoolTypeOK
  <2>6. CASE NoClang(t)
    BY <1>0, <2>6 DEF NoClang, PoolTypeOK
  <2>7. CASE StartCopy(t)
    <3>1. Makes[t][art[t]] \in Bytes
      BY DEF PoolTypeOK
    <3> QED
      BY <1>0, <2>0, <2>7, <3>1 DEF StartCopy, Enter, PoolTypeOK
  <2>8. CASE EndCopy(t)
    BY <1>0, <2>0, <2>8 DEF EndCopy, Enter, PoolTypeOK
  <2>9. CASE CopyFails(t)
    BY <1>0, <2>0, <2>9, ReportType DEF CopyFails, Outcome, PoolTypeOK
  <2>10. CASE WriteBehind(t)
    <3>1. Makes[t][art[t]] \in Bytes
      BY DEF PoolTypeOK
    <3> QED
      BY <1>0, <2>0, <2>10, <3>1 DEF WriteBehind, PoolTypeOK
  <2> QED
    BY <1>1, <2>1, <2>2, <2>3, <2>4, <2>5, <2>6, <2>7, <2>8, <2>9, <2>10
    DEF Build
<1>2. CASE Finish
  BY <1>0, <1>2 DEF Finish, PoolTypeOK
<1>3. CASE NewRun
  BY <1>0, <1>3 DEF NewRun, Unreported, Art, PoolTypeOK
<1>4. CASE UNCHANGED vars
  BY <1>0, <1>4 DEF vars, poolVars, PoolTypeOK
<1> QED
  BY <1>1, <1>2, <1>3, <1>4 DEF Next

\* Every variable of the pool keeps its type.
THEOREM PoolTypeCorrect == Spec => []PoolTypeOK
<1>1. Init => ImageInv
  BY ImageInvInit DEF Init
<1>2. ImageInv /\ [Next]_vars => ImageInv'
  BY ImageInvNext, StepMapsToImageStep
<1> QED
  BY <1>1, <1>2, PoolTypeInit, PoolTypeNext, PTL DEF Spec

\* A container never starts without its image: the lock and the cache are
\* used across tasks, and images stay.
HasImageInv ==
    \A t \in Task : stage[t] \in {"decide", "container", "copying"} =>
        call[t] = "returned"

LEMMA HasImageNext ==
  ASSUME PoolTypeOK, ImageInv, HasImageInv, [Next]_vars
  PROVE  HasImageInv'
<1> USE DEF HasImageInv
<1>1. ASSUME NEW t \in Task, Build(t) PROVE HasImageInv'
  <2>1. CASE WaitForImage(t)
    <3>1. stage' = stage /\ call[t] # "returned"
          /\ \A u \in Task \ {t} : call'[u] = call[u]
      BY <2>1 DEF WaitForImage, poolVars, Serve, Acquire, CacheHit, TakenOnTrust,
         CacheMiss, BuildxSucceeds, BuildxFails, TidySucceeds, TidyFails, Leave,
         Goes, ImageInv, ImageTypeOK
    <3> QED
      BY <3>1
  <2>2. CASE Prepare(t)
    <3>1. \A u \in Task \ {t} : call'[u] = call[u] /\ stage'[u] = stage[u]
      BY <2>2 DEF Prepare, Call, Goes, Enter, ImageInv, ImageTypeOK, PoolTypeOK
    <3>2. stage'[t] = "image"
      BY <2>2 DEF Prepare, Enter, PoolTypeOK
    <3> QED
      BY <3>1, <3>2
  <2>3. CASE ~WaitForImage(t) /\ ~Prepare(t)
    <3>1. call' = call
      BY <1>1, <2>3 DEF Build, Start, PrepareRaises, ImageRaised, ImageReturned,
         Existing, Skip, RunContainer, CompileFails, NoClang, StartCopy, WriteBehind, EndCopy,
         CopyFails, ContainerSucceeds, imageVars
    <3>2. \A u \in Task \ {t} : stage'[u] = stage[u]
      BY <1>1, <2>3 DEF Build, Start, PrepareRaises, ImageRaised, ImageReturned,
         Existing, Skip, RunContainer, CompileFails, NoClang, StartCopy, WriteBehind, EndCopy,
         CopyFails, ContainerSucceeds, Report, Enter, PoolTypeOK
    <3>3. stage'[t] \in {"decide", "container", "copying"} => call[t] = "returned"
      BY <1>1, <2>3 DEF Build, Start, PrepareRaises, ImageRaised, ImageReturned,
         Existing, Skip, RunContainer, CompileFails, NoClang, StartCopy, WriteBehind, EndCopy,
         CopyFails, ContainerSucceeds, Report, Enter, PoolTypeOK
    <3> QED
      BY <3>1, <3>2, <3>3
  <2> QED
    BY <2>1, <2>2, <2>3
<1>2. CASE Finish
  BY <1>2 DEF Finish, imageVars
<1>3. CASE NewRun
  BY <1>3 DEF NewRun
<1>4. CASE UNCHANGED vars
  BY <1>4 DEF vars, imageVars, poolVars
<1> QED
  BY <1>1, <1>2, <1>3, <1>4 DEF Next

\* Whatever fails in docker and whoever built the image, a container is only
\* started when docker has its image.
THEOREM ContainersHaveImages == Spec => []ContainerHasImage
<1>1. Init => ImageInv /\ HasImageInv
  BY ImageInvInit DEF Init, HasImageInv
<1>2. ImageInv /\ [Next]_vars => ImageInv'
  BY ImageInvNext, StepMapsToImageStep
<1>3. PoolTypeOK /\ ImageInv /\ HasImageInv /\ [Next]_vars => HasImageInv'
  BY HasImageNext
<1>4. ImageInv /\ HasImageInv => ContainerHasImage
  BY DEF HasImageInv, ImageInv, ReturnedMeansAvailable, ContainerHasImage
<1> QED
  BY <1>1, <1>2, <1>3, <1>4, PoolTypeCorrect, PTL DEF Spec

-----------------------------------------------------------------------------
(***************************************************************************)
(* If no two tasks build the same probe, what a task reports as BUILT is   *)
(* whole.  The file is this task's alone: absent when its container        *)
(* starts, truncated and written by nobody else during a copy, and whole   *)
(* between two copies.                                                     *)
(***************************************************************************)

ProbesDistinct == \A t, u \in Task : ProbeOf[t] = ProbeOf[u] => t = u

Owned(t) ==
    /\ stage[t] \in {"queued", "prepare", "image"} =>
         art[t] = "kmod" /\ \A a \in Art : result[t][a] = "none"
    /\ stage[t] \in {"decide", "container", "copying"} =>
         /\ result[t][art[t]] = "none"
         /\ art[t] = "kmod" => result[t]["bpf"] = "none"
    /\ stage[t] = "container" /\ copies[t] < Copies(art[t]) /\ out[Key(t)] # "none" =>
         WholeBy(t, art[t])
    /\ stage[t] = "container" /\ copies[t] = Copies(art[t]) => out[Key(t)] = "none"
    /\ stage[t] = "copying" =>
         writer[Key(t)] = t /\ bytes[Key(t)] = {Makes[t][art[t]]}
    /\ stage[t] \in {"container", "copying"} => copies[t] <= Copies(art[t])
    /\ \A a \in Art : result[t][a] = "BUILT" => WholeBy(t, a)

OwnedInv == \A t \in Task : Owned(t)

LEMMA OwnedInit == Init => OwnedInv
<1> SUFFICES ASSUME Init, NEW t \in Task PROVE Owned(t)
  BY DEF OwnedInv
<1>1. stage[t] = "queued" /\ art[t] = "kmod" /\ \A a \in Art : result[t][a] = "none"
  BY DEF Init, Unreported
<1> QED
  BY <1>1 DEF Owned

\* A step of one task leaves the others, and their files, alone.
LEMMA OthersOwned ==
  ASSUME ProbesDistinct, PoolTypeOK, OwnedInv, NEW t \in Task, Build(t),
         NEW u \in Task, u # t
  PROVE  Owned(u)'
<1>1. /\ stage'[u] = stage[u] /\ art'[u] = art[u]
      /\ copies'[u] = copies[u] /\ result'[u] = result[u]
  BY DEF Build, Start, PrepareRaises, Prepare, WaitForImage, ImageRaised,
     ImageReturned, Existing, Skip, RunContainer, CompileFails, NoClang,
     StartCopy, WriteBehind, EndCopy, CopyFails, ContainerSucceeds, Report, Enter, poolVars,
     PoolTypeOK
<1>2. \A a \in Art : <<ProbeOf[u], a>> \in Probe \X Art /\ <<ProbeOf[u], a>> # Key(t)
  BY DEF ProbesDistinct, Key
<1>3. \A k \in Probe \X Art : k # Key(t) =>
        out'[k] = out[k] /\ bytes'[k] = bytes[k] /\ writer'[k] = writer[k]
  BY DEF Build, Start, PrepareRaises, Prepare, WaitForImage, ImageRaised,
     ImageReturned, Existing, Skip, RunContainer, CompileFails, NoClang,
     StartCopy, WriteBehind, EndCopy, CopyFails, ContainerSucceeds, poolVars, PoolTypeOK
<1>4. \A a \in Art : /\ out'[<<ProbeOf[u], a>>] = out[<<ProbeOf[u], a>>]
                    /\ bytes'[<<ProbeOf[u], a>>] = bytes[<<ProbeOf[u], a>>]
                    /\ writer'[<<ProbeOf[u], a>>] = writer[<<ProbeOf[u], a>>]
  BY <1>2, <1>3
<1>5. art[u] \in Art
  BY DEF PoolTypeOK
<1>6. Owned(u)
  BY DEF OwnedInv
<1> QED
  BY <1>1, <1>4, <1>5, <1>6, Zenon DEF Owned, WholeBy, Copies, Key

\* Reporting an outcome for the artefact at hand keeps what was reported.
LEMMA ReportOwned ==
  ASSUME PoolTypeOK, OwnedInv, NEW t \in Task, NEW r \in Outcome, Report(t, r),
         stage[t] \in {"decide", "container", "copying"},
         out' = out, bytes' = bytes, r = "BUILT" => WholeBy(t, art[t])
  PROVE  Owned(t)'
<1>1. art[t] \in Art /\ art'[t] = "bpf"
  BY DEF Report, PoolTypeOK
<1>2. /\ result'[t][art[t]] = r
      /\ \A a \in Art : a # art[t] => result'[t][a] = result[t][a]
  BY <1>1 DEF Report, PoolTypeOK
<1>3. stage'[t] = IF art[t] = "kmod" THEN "decide" ELSE "done"
  BY DEF Report, Enter, PoolTypeOK
<1>4. \A a \in Art : result'[t][a] = "BUILT" => WholeBy(t, a)'
  BY <1>2 DEF OwnedInv, Owned, WholeBy
<1>5. art[t] = "kmod" => result'[t]["bpf"] = "none"
  BY <1>2 DEF OwnedInv, Owned, Art
<1> QED
  BY <1>1, <1>3, <1>4, <1>5 DEF Owned, Art

LEMMA OwnedNext ==
  ASSUME ProbesDistinct, PoolTypeOK, OwnedInv, [Next]_vars
  PROVE  OwnedInv'
<1>1. ASSUME NEW t \in Task, Build(t) PROVE Owned(t)'
  <2>0. Owned(t) /\ Key(t) \in Probe \X Art /\ art[t] \in Art
    BY DEF OwnedInv, Key, PoolTypeOK
  <2>1. CASE \/ Start(t) \/ PrepareRaises(t) \/ Prepare(t) \/ WaitForImage(t)
            \/ ImageRaised(t) \/ ImageReturned(t)
    <3>1. UNCHANGED <<out, bytes, writer, art, copies, result>>
      BY <2>1 DEF Start, PrepareRaises, Prepare, WaitForImage, ImageRaised,
         ImageReturned, poolVars
    <3>2. \/ stage'[t] = stage[t]
          \/ stage[t] \in {"queued", "prepare", "image"} /\
             stage'[t] \in {"prepare", "image", "raised", "decide"}
      BY <2>1 DEF Start, PrepareRaises, Prepare, WaitForImage, ImageRaised,
         ImageReturned, poolVars, Enter, PoolTypeOK
    <3> QED
      BY <2>0, <3>1, <3>2 DEF Owned, WholeBy, Key, Copies, Art
  <2>2. CASE Existing(t) \/ Skip(t) \/ CompileFails(t) \/ CopyFails(t)
    <3>1. PICK r \in Outcome \ {"BUILT"} : Report(t, r)
      BY <2>2 DEF Existing, Skip, CompileFails, CopyFails, Outcome
    <3> QED
      BY <2>2, <3>1, ReportOwned DEF Existing, Skip, CompileFails, CopyFails
  <2>3. CASE ContainerSucceeds(t)
    <3>1. PICK r \in Outcome : Report(t, r) /\ (r = "BUILT" => ProbeBuilt(t, art[t]))
      BY <2>3 DEF ContainerSucceeds, Outcome
    <3>2. out[Key(t)] # "none" => WholeBy(t, art[t])
      BY <2>0, <2>3 DEF ContainerSucceeds, Owned, Copies
    <3>3. r = "BUILT" => WholeBy(t, art[t])
      BY <3>1, <3>2 DEF ProbeBuilt, Key
    <3> QED
      BY <2>3, <3>1, <3>3, ReportOwned DEF ContainerSucceeds
  <2>4. CASE RunContainer(t)
    BY <2>0, <2>4 DEF RunContainer, ProbeBuilt, Copies, Enter, PoolTypeOK, Owned, WholeBy, Key
  <2>5. CASE NoClang(t)
    BY <2>0, <2>5 DEF NoClang, Copies, PoolTypeOK, Owned, WholeBy, Key
  <2>6. CASE StartCopy(t)
    <3>1. /\ writer'[Key(t)] = t /\ stage'[t] = "copying"
          /\ bytes'[Key(t)] = {Makes[t][art[t]]}
          /\ \A k \in Probe \X Art : k # Key(t) => out'[k] = out[k] /\ bytes'[k] = bytes[k]
          /\ art' = art /\ result' = result
      BY <2>0, <2>6 DEF StartCopy, Enter, PoolTypeOK
    <3>2. \A a \in Art : result[t][a] = "BUILT" => <<ProbeOf[t], a>> # Key(t)
      BY <2>0, <2>6 DEF StartCopy, Owned, Key
    <3>3. \A a \in Art : result[t][a] = "BUILT" => WholeBy(t, a)'
      BY <2>0, <3>1, <3>2 DEF Owned, WholeBy
    <3> QED
      BY <2>0, <2>6, <3>1, <3>3 DEF StartCopy, Owned, Key
  <2>7. CASE EndCopy(t)
    <3>1. /\ out'[Key(t)] = "complete" /\ stage'[t] = "container"
          /\ bytes' = bytes /\ bytes[Key(t)] = {Makes[t][art[t]]}
          /\ \A k \in Probe \X Art : k # Key(t) => out'[k] = out[k]
          /\ art' = art /\ result' = result
      BY <2>0, <2>7 DEF EndCopy, Enter, PoolTypeOK, Owned
    <3>2. copies'[t] <= Copies(art[t]) /\ copies'[t] # Copies(art[t])
      BY <2>0, <2>7 DEF EndCopy, PoolTypeOK, Owned, Copies
    <3>3. result[t][art[t]] = "none" /\ (art[t] = "kmod" => result[t]["bpf"] = "none")
      BY <2>0, <2>7 DEF EndCopy, Owned
    <3>4. \A a \in Art : result[t][a] = "BUILT" => WholeBy(t, a)'
      BY <2>0, <3>1 DEF Owned, WholeBy, Key
    <3>5. Key(t)' = Key(t) /\ Copies(art[t])' = Copies(art[t]) /\ WholeBy(t, art[t])'
      BY <3>1 DEF Key, Copies, WholeBy
    <3> QED
      BY <3>1, <3>2, <3>3, <3>4, <3>5 DEF Owned
  <2>8. CASE WriteBehind(t)
    BY <2>0, <2>8 DEF WriteBehind, Owned
  <2> QED
    BY <1>1, <2>1, <2>2, <2>3, <2>4, <2>5, <2>6, <2>7, <2>8 DEF Build
<1>2. ASSUME NEW t \in Task, Build(t) PROVE OwnedInv'
  BY <1>1, <1>2, OthersOwned DEF OwnedInv
<1>3. CASE Finish
  BY <1>3 DEF Finish, OwnedInv, Owned, WholeBy, Key
<1>4. CASE NewRun
  <2> SUFFICES ASSUME NEW t \in Task PROVE Owned(t)'
    BY DEF OwnedInv
  <2>1. stage'[t] = "queued" /\ art'[t] = "kmod" /\ \A a \in Art : result'[t][a] = "none"
    BY <1>4 DEF NewRun, Unreported
  <2> QED
    BY <2>1 DEF Owned
<1>5. CASE UNCHANGED vars
  BY <1>5 DEF vars, poolVars, OwnedInv, Owned, WholeBy, Key, Copies
<1> QED
  BY <1>2, <1>3, <1>4, <1>5 DEF Next

\* With a probe of its own for every task, BUILT means a whole file, whatever
\* failed or crashed in this run or an earlier one.
THEOREM BuiltAreWhole ==
  ASSUME ProbesDistinct
  PROVE  Spec => []BuiltMeansWhole
<1>1. PoolTypeOK /\ OwnedInv /\ [Next]_vars => OwnedInv'
  BY OwnedNext
<1>2. OwnedInv => BuiltMeansWhole
  BY DEF OwnedInv, Owned, BuiltMeansWhole
<1> QED
  BY <1>1, <1>2, OwnedInit, PoolTypeCorrect, PTL DEF Spec

-----------------------------------------------------------------------------
(***************************************************************************)
(* What is skipped.  A reason to skip that was found before the wait for   *)
(* the image is either on purpose or a file, and files do not go away.     *)
(***************************************************************************)

OnPurpose(t, a) == <<ProbeOf[t], a>> \in Skipped \/ (a = "bpf" /\ ImageOf[t] \notin HasBpf)

SkipInv ==
    \A t \in Task, a \in Art :
        /\ a \in skip[t] => ProbeBuilt(t, a) \/ OnPurpose(t, a)
        /\ result[t][a] = "SKIPPED" => OnPurpose(t, a)

LEMMA SkipInit == Init => SkipInv
  BY DEF Init, SkipInv, Unreported

LEMMA FilesStay ==
  ASSUME PoolTypeOK, [Next]_vars, NEW t \in Task, NEW a \in Art, ProbeBuilt(t, a)
  PROVE  ProbeBuilt(t, a)'
<1>1. <<ProbeOf[t], a>> \in Probe \X Art
  OBVIOUS
<1>2. ASSUME NEW u \in Task, Build(u) PROVE ProbeBuilt(t, a)'
  BY <1>1, <1>2 DEF Build, Start, PrepareRaises, Prepare, WaitForImage, ImageRaised,
     ImageReturned, Existing, Skip, RunContainer, CompileFails, NoClang, StartCopy,
     WriteBehind, EndCopy, CopyFails, ContainerSucceeds, poolVars, ProbeBuilt, PoolTypeOK
<1> QED
  BY <1>2 DEF Next, Finish, NewRun, vars, poolVars, ProbeBuilt

LEMMA SkipNext ==
  ASSUME PoolTypeOK, SkipInv, [Next]_vars
  PROVE  SkipInv'
<1>1. ASSUME NEW t \in Task, Build(t), NEW u \in Task, NEW a \in Art, a \in skip'[u]
      PROVE  ProbeBuilt(u, a)' \/ OnPurpose(u, a)
  <2>1. CASE a \in skip[u]
    BY <1>1, <2>1, FilesStay DEF SkipInv, Next
  <2>2. CASE a \notin skip[u]
    <3>1. CASE Prepare(t)
      <4>1. u = t /\ (ProbeBuilt(t, a) \/ <<ProbeOf[t], a>> \in Skipped)
        BY <1>1, <2>2, <3>1 DEF Prepare, PoolTypeOK
      <4> QED
        BY <1>1, <4>1, FilesStay DEF OnPurpose, Next
    <3>2. CASE ImageReturned(t)
      BY <1>1, <2>2, <3>2 DEF ImageReturned, PoolTypeOK, OnPurpose
    <3>3. CASE ~Prepare(t) /\ ~ImageReturned(t)
      <4>1. skip' = skip
        BY <1>1, <3>3 DEF Build, Start, PrepareRaises, WaitForImage, ImageRaised, Existing,
           Skip, RunContainer, CompileFails, NoClang, StartCopy, WriteBehind, EndCopy, CopyFails,
           ContainerSucceeds, poolVars
      <4> QED
        BY <1>1, <2>2, <4>1
    <3> QED
      BY <3>1, <3>2, <3>3
  <2> QED
    BY <2>1, <2>2
<1>2. ASSUME NEW t \in Task, Build(t), NEW u \in Task, NEW a \in Art, result'[u][a] = "SKIPPED"
      PROVE  OnPurpose(u, a)
  <2>1. CASE result[u][a] = "SKIPPED"
    BY <2>1 DEF SkipInv
  <2>2. CASE result[u][a] # "SKIPPED"
    <3>1. CASE Skip(t)
      <4>1. u = t /\ a = art[t] /\ ~ProbeBuilt(t, a) /\ a \in skip[t]
        BY <1>2, <2>2, <3>1 DEF Skip, Report, PoolTypeOK
      <4> QED
        BY <4>1 DEF SkipInv
    <3>2. CASE Existing(t) \/ CompileFails(t) \/ CopyFails(t) \/ ContainerSucceeds(t)
      <4>1. PICK r \in Outcome \ {"SKIPPED"} : Report(t, r)
        BY <3>2 DEF Existing, CompileFails, CopyFails, ContainerSucceeds, Outcome
      <4> QED
        BY <1>2, <2>2, <4>1 DEF Report, PoolTypeOK
    <3>3. CASE ~Skip(t) /\ ~Existing(t) /\ ~CompileFails(t) /\ ~CopyFails(t) /\ ~ContainerSucceeds(t)
      <4>1. result' = result
        BY <1>2, <3>3 DEF Build, Start, PrepareRaises, Prepare, WaitForImage, ImageRaised,
           ImageReturned, RunContainer, NoClang, StartCopy, WriteBehind, EndCopy, poolVars
      <4> QED
        BY <1>2, <2>2, <4>1
    <3> QED
      BY <3>1, <3>2, <3>3
  <2> QED
    BY <2>1, <2>2
<1>3. CASE \E t \in Task : Build(t)
  BY <1>1, <1>2, <1>3 DEF SkipInv, OnPurpose
<1>4. CASE Finish \/ UNCHANGED vars
  BY <1>4 DEF Finish, vars, poolVars, SkipInv, ProbeBuilt, OnPurpose
<1>5. CASE NewRun
  BY <1>5 DEF NewRun, Unreported, SkipInv
<1> QED
  BY <1>3, <1>4, <1>5 DEF Next

\* Only what somebody excluded, or the image cannot build, is reported as SKIPPED.
THEOREM SkippedAreExcluded == Spec => []SkippedOnPurpose
<1>1. PoolTypeOK /\ SkipInv /\ [Next]_vars => SkipInv'
  BY SkipNext
<1>2. SkipInv => SkippedOnPurpose
  BY DEF SkipInv, OnPurpose, SkippedOnPurpose
<1> QED
  BY <1>1, <1>2, SkipInit, PoolTypeCorrect, PTL DEF Spec

-----------------------------------------------------------------------------
(***************************************************************************)
(* The exit status.  A task that is done has reported both of its          *)
(* artefacts, in their order, and the main thread looks when all are.      *)
(***************************************************************************)

Reported(t) ==
    /\ stage[t] \in {"queued", "prepare", "image"} => art[t] = "kmod"
    /\ stage[t] \in {"decide", "container", "copying"} /\ art[t] = "bpf" => result[t]["kmod"] # "none"
    /\ stage[t] = "done" => \A a \in Art : result[t][a] # "none"

ReportInv ==
    /\ \A t \in Task : Reported(t)
    /\ exit # "running" => /\ \A t \in Task : Settled(t)
                           /\ exit = "failure" <=> \E t \in Task : Failed(t)

LEMMA ReportInit == Init => ReportInv
  BY DEF Init, ReportInv, Reported

LEMMA ReportNext ==
  ASSUME PoolTypeOK, ReportInv, [Next]_vars
  PROVE  ReportInv'
<1>1. ASSUME NEW t \in Task, Build(t) PROVE ReportInv'
  <2>1. CASE WaitForImage(t)
    BY <2>1 DEF WaitForImage, poolVars, ReportInv, Reported, Settled, Failed
  <2>2. CASE ~WaitForImage(t)
    <3>1. ~Settled(t) /\ exit' = exit
      BY <1>1, <2>2 DEF Build, Start, PrepareRaises, Prepare, ImageRaised, ImageReturned,
         Existing, Skip, RunContainer, CompileFails, NoClang, StartCopy, WriteBehind, EndCopy,
         CopyFails, ContainerSucceeds, Settled
    <3>2. exit' = "running"
      BY <3>1 DEF ReportInv, PoolTypeOK
    <3>3. ASSUME NEW u \in Task, u # t PROVE Reported(u)'
      <4>1. stage'[u] = stage[u] /\ art'[u] = art[u] /\ result'[u] = result[u]
        BY <1>1, <3>3 DEF Build, Start, PrepareRaises, Prepare, WaitForImage, ImageRaised,
           ImageReturned, Existing, Skip, RunContainer, CompileFails, NoClang, StartCopy,
           WriteBehind, EndCopy, CopyFails, ContainerSucceeds, Report, Enter, poolVars, PoolTypeOK
      <4> QED
        BY <4>1 DEF ReportInv, Reported
    <3>4. Reported(t)'
      <4>0. Reported(t)
        BY DEF ReportInv
      <4>1. CASE Existing(t) \/ Skip(t) \/ CompileFails(t) \/ CopyFails(t) \/ ContainerSucceeds(t)
        <5>1. PICK r \in Outcome \ {"none"} : Report(t, r)
          BY <4>1 DEF Existing, Skip, CompileFails, CopyFails, ContainerSucceeds, Outcome
        <5>2. stage[t] \in {"decide", "container", "copying"} /\ art[t] \in Art
          BY <4>1 DEF Existing, Skip, CompileFails, CopyFails, ContainerSucceeds, PoolTypeOK
        <5>3. /\ result'[t][art[t]] # "none" /\ art'[t] = "bpf"
              /\ \A a \in Art \ {art[t]} : result'[t][a] = result[t][a]
              /\ stage'[t] = IF art[t] = "kmod" THEN "decide" ELSE "done"
          BY <5>1, <5>2 DEF Report, Enter, PoolTypeOK
        <5> QED
          BY <4>0, <5>2, <5>3 DEF Reported, Art
      <4>2. CASE Start(t) \/ PrepareRaises(t) \/ Prepare(t) \/ ImageRaised(t) \/ ImageReturned(t)
        BY <4>0, <4>2 DEF Start, PrepareRaises, Prepare, ImageRaised, ImageReturned, Enter,
           Reported, PoolTypeOK
      <4>3. CASE RunContainer(t) \/ NoClang(t) \/ StartCopy(t) \/ WriteBehind(t) \/ EndCopy(t)
        BY <4>0, <4>3 DEF RunContainer, NoClang, StartCopy, WriteBehind, EndCopy, Enter, Reported, PoolTypeOK
      <4> QED
        BY <1>1, <2>2, <4>1, <4>2, <4>3 DEF Build
    <3> QED
      BY <3>2, <3>3, <3>4 DEF ReportInv
  <2> QED
    BY <2>1, <2>2
<1>2. CASE Finish
  BY <1>2 DEF Finish, ReportInv, Reported, Settled, Failed
<1>3. CASE NewRun
  BY <1>3 DEF NewRun, ReportInv, Reported
<1>4. CASE UNCHANGED vars
  BY <1>4 DEF vars, poolVars, ReportInv, Reported, Settled, Failed
<1> QED
  BY <1>1, <1>2, <1>3, <1>4 DEF Next

LEMMA HonestWhenReported == PoolTypeOK /\ ReportInv => ExitStatusHonest
<1> SUFFICES ASSUME PoolTypeOK, ReportInv, exit # "running"
             PROVE  \A t \in Task : Failed(t) <=> (stage[t] = "raised" \/ \E a \in Art :
                        result[t][a] \notin {"BUILT", "EXISTING", "SKIPPED"})
  BY DEF ExitStatusHonest, ReportInv
<1> TAKE t \in Task
<1>1. CASE stage[t] = "raised"
  BY <1>1 DEF Failed
<1>2. CASE stage[t] = "done"
  <2>1. \A a \in Art : result[t][a] \in {"BUILT", "EXISTING", "SKIPPED", "FAILED"}
    BY <1>2 DEF ReportInv, Reported, PoolTypeOK
  <2> QED
    BY <1>2, <2>1 DEF Failed
<1> QED
  BY <1>1, <1>2 DEF ReportInv, Settled

\* The command fails exactly if a kernel failed, or was not reported at all.
THEOREM ExitStatusIsHonest == Spec => []ExitStatusHonest
<1>1. PoolTypeOK /\ ReportInv /\ [Next]_vars => ReportInv'
  BY ReportNext
<1> QED
  BY <1>1, ReportInit, HonestWhenReported, PoolTypeCorrect, PTL DEF Spec

-----------------------------------------------------------------------------
(***************************************************************************)
(* Tasks with the same output file.  As long as a file is partial, the     *)
(* task that truncated it last is still copying, and will complete it; and *)
(* all bytes in it are of tasks that build it.                             *)
(***************************************************************************)

Copying(t, k) == writer[k] = t /\ stage[t] = "copying" /\ Key(t) = k

CopyInv == \A k \in Probe \X Art : out[k] = "partial" => \E t \in Task : Copying(t, k)

BytesInv ==
    \A k \in Probe \X Art :
        /\ bytes[k] \subseteq {Makes[t][k[2]] : t \in Makers(k)}
        /\ out[k] # "none" \/ writer[k] # None => bytes[k] # {}

LEMMA BytesInit == Init => BytesInv
  BY DEF Init, BytesInv

LEMMA BytesNext ==
  ASSUME PoolTypeOK, BytesInv, [Next]_vars
  PROVE  BytesInv'
<1>1. ASSUME NEW t \in Task, Build(t) PROVE BytesInv'
  <2>0. /\ Key(t) \in Probe \X Art /\ t \in Makers(Key(t))
        /\ Key(t)[2] = art[t]
    BY DEF Key, Makers, PoolTypeOK
  <2>1. CASE StartCopy(t)
    BY <2>0, <2>1 DEF StartCopy, BytesInv, Makers, PoolTypeOK
  <2>2. CASE WriteBehind(t)
    BY <2>0, <2>2 DEF WriteBehind, BytesInv, Makers, PoolTypeOK
  <2>3. CASE EndCopy(t) \/ CopyFails(t)
    <3>1. bytes' = bytes
      BY <2>3 DEF EndCopy, CopyFails
    <3> SUFFICES ASSUME NEW k \in Probe \X Art
                 PROVE  /\ bytes[k] \subseteq {Makes[u][k[2]] : u \in Makers(k)}
                        /\ out'[k] # "none" \/ writer'[k] # None => bytes[k] # {}
      BY <3>1 DEF BytesInv, Makers
    <3>2. /\ writer'[k] # None => writer[k] # None
          /\ out'[k] # "none" => out[k] # "none" \/ writer[k] # None
      BY <2>0, <2>3, ImageAssumption DEF EndCopy, CopyFails, PoolTypeOK
    <3> QED
      BY <3>2 DEF BytesInv
  <2>4. CASE ~StartCopy(t) /\ ~WriteBehind(t) /\ ~EndCopy(t) /\ ~CopyFails(t)
    <3>1. UNCHANGED <<out, bytes, writer>>
      BY <1>1, <2>4 DEF Build, Start, PrepareRaises, Prepare, WaitForImage, ImageRaised,
         ImageReturned, Existing, Skip, RunContainer, CompileFails, NoClang,
         ContainerSucceeds, poolVars
    <3> QED
      BY <3>1 DEF BytesInv, Makers
  <2> QED
    BY <1>1, <2>1, <2>2, <2>3, <2>4
<1>2. CASE Finish \/ NewRun \/ UNCHANGED vars
  BY <1>2 DEF Finish, NewRun, vars, poolVars, BytesInv, Makers
<1> QED
  BY <1>1, <1>2 DEF Next

\* Bytes of tasks that make the same are of any of them.
LEMMA AgreeingMakeWhole ==
  ASSUME BytesInv, NEW k \in Probe \X Art, out[k] = "complete", SameBytes(k)
  PROVE  \E t \in Makers(k) : WholeBy(t, k[2])
<1>1. PICK x \in bytes[k] : TRUE
  BY DEF BytesInv
<1>2. PICK t \in Makers(k) : x = Makes[t][k[2]]
  BY <1>1 DEF BytesInv
<1>3. bytes[k] = {Makes[t][k[2]]}
  BY <1>1, <1>2 DEF BytesInv, SameBytes
<1>4. k = <<ProbeOf[t], k[2]>>
  BY <1>2 DEF Makers
<1> QED
  BY <1>3, <1>4 DEF WholeBy

LEMMA CopyInit == Init => CopyInv
  BY DEF Init, CopyInv

LEMMA CopyNext ==
  ASSUME ~Faults, PoolTypeOK, ReportInv, CopyInv, [Next]_vars
  PROVE  CopyInv'
<1>1. ASSUME NEW t \in Task, Build(t), NEW k \in Probe \X Art, out'[k] = "partial"
      PROVE  \E u \in Task : Copying(u, k)'
  <2>0. Key(t) \in Probe \X Art
    BY DEF Key, PoolTypeOK
  <2>1. CASE StartCopy(t)
    <3>1. CASE k = Key(t)
      BY <2>0, <2>1, <3>1 DEF StartCopy, Copying, Key, Enter, PoolTypeOK
    <3>2. CASE k # Key(t)
      <4>1. PICK u \in Task : Copying(u, k)
        BY <1>1, <2>0, <2>1, <3>2 DEF StartCopy, CopyInv, PoolTypeOK
      <4>2. u # t
        BY <3>2, <4>1 DEF Copying
      <4> QED
        BY <2>0, <2>1, <3>2, <4>1, <4>2 DEF StartCopy, Copying, Key, Enter, PoolTypeOK
    <3> QED
      BY <3>1, <3>2
  <2>2. CASE EndCopy(t)
    <3>1. PICK u \in Task : Copying(u, k)
      BY <1>1, <2>0, <2>2 DEF EndCopy, CopyInv, PoolTypeOK
    <3>2. u # t
      BY <1>1, <2>0, <2>2, <3>1 DEF EndCopy, Copying, PoolTypeOK
    <3>3. writer'[k] = writer[k]
      BY <2>0, <2>2, <3>1, <3>2 DEF EndCopy, Copying, PoolTypeOK
    <3> QED
      BY <2>2, <3>1, <3>2, <3>3 DEF EndCopy, Copying, Key, Enter, PoolTypeOK
  <2>3. CASE ~StartCopy(t) /\ ~EndCopy(t)
    <3>1. UNCHANGED <<out, writer>>
      BY <1>1, <2>3 DEF Build, Start, PrepareRaises, Prepare, WaitForImage, ImageRaised,
         ImageReturned, Existing, Skip, RunContainer, CompileFails, NoClang,
         WriteBehind, CopyFails, ContainerSucceeds, poolVars
    <3>2. PICK u \in Task : Copying(u, k)
      BY <1>1, <3>1 DEF CopyInv
    <3>3. stage'[u] = stage[u] /\ art'[u] = art[u]
      BY <1>1, <2>3, <3>2 DEF Copying, Build, Start, PrepareRaises, Prepare, WaitForImage,
         ImageRaised, ImageReturned, Existing, Skip, RunContainer, CompileFails, NoClang,
         WriteBehind, CopyFails, ContainerSucceeds, Report, Enter, poolVars, PoolTypeOK
    <3> QED
      BY <3>1, <3>2, <3>3 DEF Copying, Key
  <2> QED
    BY <2>1, <2>2, <2>3
<1>2. CASE NewRun
  <2>1. \A k \in Probe \X Art : out[k] # "partial"
    BY <1>2 DEF NewRun, ReportInv, CopyInv, Copying, Settled
  <2> QED
    BY <1>2, <2>1 DEF NewRun, CopyInv
<1>3. CASE Finish \/ UNCHANGED vars
  BY <1>3 DEF Finish, vars, poolVars, CopyInv, Copying, Key
<1> QED
  BY <1>1, <1>2, <1>3 DEF Next, CopyInv

\* Tasks may truncate each other's files and write into them: if no copy fails and the
\* host does not stop, all files are complete once all tasks are done, and those whose
\* makers agree are whole.
THEOREM SettledFilesAreWhole ==
  ASSUME ~Faults
  PROVE  Spec => []WholeWhenSettled
<1>1. PoolTypeOK /\ ReportInv /\ CopyInv /\ [Next]_vars => CopyInv'
  BY CopyNext
<1>2. PoolTypeOK /\ ReportInv /\ [Next]_vars => ReportInv'
  BY ReportNext
<1>3. PoolTypeOK /\ BytesInv /\ [Next]_vars => BytesInv'
  BY BytesNext
<1>4. PoolTypeOK /\ CopyInv /\ BytesInv => WholeWhenSettled
  <2> SUFFICES ASSUME PoolTypeOK, CopyInv, BytesInv, \A t \in Task : Settled(t),
                      NEW k \in Probe \X Art
               PROVE  /\ out[k] # "partial"
                      /\ SameBytes(k) /\ out[k] # "none" =>
                           \E t \in Makers(k) : WholeBy(t, k[2])
    BY DEF WholeWhenSettled
  <2>1. out[k] # "partial"
    BY DEF CopyInv, Copying, Settled
  <2>2. out[k] # "none" => out[k] = "complete"
    BY <2>1 DEF PoolTypeOK
  <2> QED
    BY <2>1, <2>2, AgreeingMakeWhole
<1> QED
  BY <1>1, <1>2, <1>3, <1>4, CopyInit, BytesInit, ReportInit, PoolTypeCorrect, PTL DEF Spec
=============================================================================
