------------------------------ MODULE Download ------------------------------
(***************************************************************************)
(* probe_builder/kernel_crawler/download.py: download_batch fetches a      *)
(* batch of files with a pool of worker threads.  Each file has one or     *)
(* more sources (URLs with its basename), tried one after the other.  A    *)
(* body arrives in a .part file, which a later attempt, source or run      *)
(* resumes, and is renamed to its final name when the copy returns.        *)
(*                                                                         *)
(* The directory outlives the process; the workers do not.  A body is a    *)
(* number of blocks of one version; what is on disk is how many blocks it  *)
(* has and which versions they came from, which is all that decides        *)
(* whether it is a body somebody published.                                *)
(***************************************************************************)
EXTENDS Naturals, Sequences, FiniteSets

CONSTANTS
    NFiles,       \* how many different basenames the batch has
    Version,      \* the bodies that mirrors serve
    BodyLen,      \* the length of each of them, in blocks
    Serves,       \* Serves[f]: the version each source of file f serves, in order
    Concurrency,  \* DownloadConfig.concurrency, the -d option
    Retries,      \* DownloadConfig.retries, the -r option
    ShortReads,   \* does the HTTP library take an early close for the end?
    None          \* a path that does not exist

File    == 1..NFiles
Content == [len : Nat, of : SUBSET Version]

ASSUME DownloadAssumption ==
    /\ NFiles \in Nat /\ Concurrency \in Nat \ {0} /\ Retries \in Nat \ {0}
    /\ BodyLen \in [Version -> Nat \ {0}]
    /\ Serves \in [File -> Seq(Version)]
    /\ ShortReads \in BOOLEAN
    /\ None \notin Content

VARIABLES
    final,    \* final[f]: the file under its final name, or None
    part,     \* part[f]: the .part file, or None
    pc,       \* where the task of file f is
    source,   \* the source its loop over the URLs is at
    tries,    \* the attempts that are left in download_temp_file
    stream,   \* the response body being copied: its version and blocks to come
    healthy   \* the network has stopped failing, and the host crashing

vars == <<final, part, pc, source, tries, stream, healthy>>
disk == <<final, part>>

Empty   == [len |-> 0, of |-> {}]
NoBody  == [ver |-> None, left |-> 0]

\* The content of a file that holds exactly the body v.
Body(v) == [len |-> BodyLen[v], of |-> {v}]

\* The version that the source of f now being tried serves.
Offered(f) == Serves[f][source[f]]

-----------------------------------------------------------------------------
Init ==
    /\ final   = [f \in File |-> None]
    /\ part    = [f \in File |-> None]
    /\ pc      = [f \in File |-> "queued"]
    /\ source  = [f \in File |-> 1]
    /\ tries   = [f \in File |-> 0]
    /\ stream  = [f \in File |-> NoBody]
    /\ healthy = FALSE

Settled(f) == pc[f] \in {"done", "raised"}
Running == {f \in File : pc[f] # "queued" /\ ~Settled(f)}

Goto(f, l) == pc' = [pc EXCEPT ![f] = l]

\* Variant: the loop over the URLs stays at the same one.
SameSource(f) == Goto(f, "exists") /\ UNCHANGED source

\* download_multiple_sources turns to the next URL.
NextSource(f) ==
    /\ Goto(f, "exists")
    /\ source' = [source EXCEPT ![f] = @ + 1]

(***************************************************************************)
(* An idle thread of the pool takes the oldest task of the queue.          *)
(***************************************************************************)
Start(f) ==
    /\ pc[f] = "queued"
    /\ \A g \in 1..(f - 1) : pc[g] # "queued"
    /\ Cardinality(Running) < Concurrency
    /\ Goto(f, "exists")
    /\ UNCHANGED <<disk, source, tries, stream, healthy>>

(***************************************************************************)
(* The loop over the sources, and the test for the final name with which   *)
(* download_file begins.                                                   *)
(***************************************************************************)
SourcesExhausted(f) ==
    /\ pc[f] = "exists" /\ source[f] > Len(Serves[f])
    /\ Goto(f, "done")
    /\ UNCHANGED <<disk, source, tries, stream, healthy>>

NotNecessary(f) ==
    /\ pc[f] = "exists" /\ source[f] <= Len(Serves[f])
    /\ final[f] # None
    /\ NextSource(f)
    /\ UNCHANGED <<disk, tries, stream, healthy>>

\* Variant: an existing file is not looked for.
NecessaryAnyway(f) ==
    /\ pc[f] = "exists" /\ source[f] <= Len(Serves[f])
    /\ Goto(f, "request")
    /\ tries' = [tries EXCEPT ![f] = Retries]
    /\ UNCHANGED <<disk, source, stream, healthy>>

Necessary(f) ==
    /\ pc[f] = "exists" /\ source[f] <= Len(Serves[f])
    /\ final[f] = None
    /\ Goto(f, "request")
    /\ tries' = [tries EXCEPT ![f] = Retries]
    /\ UNCHANGED <<disk, source, stream, healthy>>

(***************************************************************************)
(* One attempt: the .part file is opened for appending, which creates it,  *)
(* and a request goes out, for the rest of the body if the file has any    *)
(* blocks.  A disjunct for each answer.                                    *)
(***************************************************************************)
Attempt(f) == pc[f] = "request" /\ tries[f] > 0

Opened(f) == IF part[f] = None THEN Empty ELSE part[f]

\* 206: the rest of the body follows.
PartialContent(f) ==
    /\ Attempt(f)
    /\ Opened(f).len > 0 /\ Opened(f).len < BodyLen[Offered(f)]
    /\ Goto(f, "copy")
    /\ stream' = [stream EXCEPT ![f] =
                    [ver  |-> Offered(f),
                     left |-> BodyLen[Offered(f)] - Opened(f).len]]
    /\ UNCHANGED <<disk, source, tries, healthy>>

\* Variant: a 416 is treated like any other status.
RangeRejected(f) ==
    /\ Attempt(f)
    /\ Opened(f).len > 0 /\ Opened(f).len >= BodyLen[Offered(f)]
    /\ tries' = [tries EXCEPT ![f] = @ - 1]
    /\ UNCHANGED <<disk, pc, source, stream, healthy>>

\* 416: there are no blocks beyond those that the file has.
RangeNotSatisfiable(f) ==
    /\ Attempt(f)
    /\ Opened(f).len > 0 /\ Opened(f).len >= BodyLen[Offered(f)]
    /\ Goto(f, "move")
    /\ UNCHANGED <<disk, source, tries, stream, healthy>>

\* Variant: the file is not truncated before the whole body is copied.
AppendedBody(f) ==
    /\ Attempt(f)
    /\ part' = [part EXCEPT ![f] = Opened(f)]
    /\ Goto(f, "copy")
    /\ stream' = [stream EXCEPT ![f] =
                    [ver |-> Offered(f), left |-> BodyLen[Offered(f)]]]
    /\ UNCHANGED <<final, source, tries, healthy>>

\* 200: no range was asked for, or the server takes no ranges.
WholeBody(f) ==
    /\ Attempt(f)
    /\ part' = [part EXCEPT ![f] = Empty]
    /\ Goto(f, "copy")
    /\ stream' = [stream EXCEPT ![f] =
                    [ver |-> Offered(f), left |-> BodyLen[Offered(f)]]]
    /\ UNCHANGED <<final, source, tries, healthy>>

\* Any other status: the next attempt.
OtherStatus(f) ==
    /\ Attempt(f) /\ ~healthy
    /\ part' = [part EXCEPT ![f] = Opened(f)]
    /\ tries' = [tries EXCEPT ![f] = @ - 1]
    /\ UNCHANGED <<final, pc, source, stream, healthy>>

\* Variant: the exception is caught around the loop over the URLs.
FailureEndsTask(f) ==
    /\ Attempt(f) /\ ~healthy
    /\ part' = [part EXCEPT ![f] = Opened(f)]
    /\ Goto(f, "done")
    /\ UNCHANGED <<final, source, tries, stream, healthy>>

\* requests.get raises: no further attempt, the caller goes to the next source.
RequestFails(f) ==
    /\ Attempt(f) /\ ~healthy
    /\ part' = [part EXCEPT ![f] = Opened(f)]
    /\ NextSource(f)
    /\ UNCHANGED <<final, tries, stream, healthy>>

\* All attempts had another status: HTTPError, caught by the caller.
AttemptsExhausted(f) ==
    /\ pc[f] = "request" /\ tries[f] = 0
    /\ NextSource(f)
    /\ UNCHANGED <<disk, tries, stream, healthy>>

(***************************************************************************)
(* shutil.copyfileobj from resp.raw, a block at a time.                    *)
(***************************************************************************)
CopyBlock(f) ==
    /\ pc[f] = "copy" /\ stream[f].left > 0
    /\ part' = [part EXCEPT ![f] =
                  [len |-> @.len + 1, of |-> @.of \cup {stream[f].ver}]]
    /\ stream' = [stream EXCEPT ![f] = [ver |-> @.ver, left |-> @.left - 1]]
    /\ UNCHANGED <<final, pc, source, tries, healthy>>

CopyReturns(f) ==
    /\ pc[f] = "copy"
    /\ \/ stream[f].left = 0
       \/ ShortReads /\ ~healthy
    /\ Goto(f, "move")
    /\ stream' = [stream EXCEPT ![f] = NoBody]
    /\ UNCHANGED <<disk, source, tries, healthy>>

\* Variant: an error while copying is ignored.
CopyErrorIgnored(f) ==
    /\ pc[f] = "copy" /\ stream[f].left > 0 /\ ~healthy
    /\ Goto(f, "move")
    /\ stream' = [stream EXCEPT ![f] = NoBody]
    /\ UNCHANGED <<disk, source, tries, healthy>>

\* An error of urllib3, which resp.raw does not turn into a RequestException:
\* it ends the task, and download_batch prints it.
CopyRaises(f) ==
    /\ pc[f] = "copy" /\ stream[f].left > 0 /\ ~healthy
    /\ Goto(f, "raised")
    /\ stream' = [stream EXCEPT ![f] = NoBody]
    /\ UNCHANGED <<disk, source, tries, healthy>>

\* The rename to the final name; the other sources then find it in place.
Move(f) ==
    /\ pc[f] = "move"
    /\ final' = [final EXCEPT ![f] = part[f]]
    /\ part'  = [part EXCEPT ![f] = None]
    /\ NextSource(f)
    /\ UNCHANGED <<tries, stream, healthy>>

-----------------------------------------------------------------------------
Worker(f) ==
    \/ Start(f) \/ SourcesExhausted(f) \/ NotNecessary(f) \/ Necessary(f)
    \/ PartialContent(f) \/ RangeNotSatisfiable(f) \/ WholeBody(f)
    \/ OtherStatus(f) \/ RequestFails(f) \/ AttemptsExhausted(f)
    \/ CopyBlock(f) \/ CopyReturns(f) \/ CopyRaises(f) \/ Move(f)

(***************************************************************************)
(* The same batch is downloaded once more by a new process, after the      *)
(* first one ended or was killed in the middle of anything.  Only the      *)
(* directory is left.                                                      *)
(***************************************************************************)
NewRun ==
    /\ ~healthy \/ \A f \in File : Settled(f)
    /\ pc'     = [f \in File |-> "queued"]
    /\ source' = [f \in File |-> 1]
    /\ tries'  = [f \in File |-> 0]
    /\ stream' = [f \in File |-> NoBody]
    /\ UNCHANGED <<disk, healthy>>

Heal ==
    /\ ~healthy
    /\ healthy' = TRUE
    /\ UNCHANGED <<disk, pc, source, tries, stream>>

Next ==
    \/ \E f \in File : Worker(f)
    \/ NewRun
    \/ Heal

Spec == Init /\ [][Next]_vars

\* No thread of the pool is abandoned for ever, and every request ends: the
\* timeout option bounds it, or the server answers.
FairSpec == Spec /\ \A f \in File : WF_vars(Worker(f))

-----------------------------------------------------------------------------
(***************************************************************************)
(* Properties.                                                             *)
(***************************************************************************)

TypeOK ==
    /\ final \in [File -> Content \cup {None}]
    /\ part \in [File -> Content \cup {None}]
    /\ pc \in [File -> {"queued", "exists", "request", "copy", "move",
                        "done", "raised"}]
    /\ source \in [File -> Nat \ {0}]
    /\ tries \in [File -> 0..Retries]
    /\ stream \in [File -> [ver : Version \cup {None}, left : Nat]]
    /\ healthy \in BOOLEAN
    /\ \A f \in File :
         /\ pc[f] \in {"request", "copy", "move"} => source[f] <= Len(Serves[f])
         /\ pc[f] \in {"copy", "move"} => part[f] # None
         /\ pc[f] = "copy" => stream[f].ver \in Version

(***************************************************************************)
(* "if target path already exists, assume it's complete" (download.py:57): *)
(* whatever crashed, was retried or resumed, a file under its final name   *)
(* is the body of one version that one of its sources serves.  It needs    *)
(* sources that agree and an HTTP library that reports an early close.     *)
(***************************************************************************)
PublishedComplete ==
    \A f \in File : final[f] # None =>
        \E i \in 1..Len(Serves[f]) : final[f] = Body(Serves[f][i])

\* What needs neither: a published file came from its own sources, and no
\* resume ever appended beyond the longest body they serve.
PublishedFromSources ==
    \A f \in File : final[f] # None =>
        /\ final[f].of \subseteq {Serves[f][i] : i \in 1..Len(Serves[f])}
        /\ \E i \in 1..Len(Serves[f]) : final[f].len <= BodyLen[Serves[f][i]]

\* A published file stays as it is, over all later sources, runs and crashes
\* (lines 58-60 and one task per basename, lines 73-75).
PublishedForGood ==
    [][\A f \in File : final[f] # None => final'[f] = final[f]]_final

\* The directory is the abstract file store: every step publishes one complete
\* body under a free name or changes no published file.
Store == INSTANCE FileStore WITH
            Name   <- File,
            Bodies <- [f \in File |-> {Body(Serves[f][i]) : i \in 1..Len(Serves[f])}],
            Absent <- None,
            store  <- final

StoreSpec == Store!Spec

\* "requested range not satisfiable", we have the whole thing (line 49): a 416
\* comes only when the .part file is the body of the source that sends it.  The
\* code refutes it when mirrors disagree.
WholeThingOn416 ==
    [][\A f \in File : RangeNotSatisfiable(f) => part[f] = Body(Offered(f))]_vars

\* Lines 77-83: a task that ended without its file has been through every source.
\* The code refutes it: an error of the stream ends the task.
EverySourceTried ==
    \A f \in File : Settled(f) /\ final[f] = None => source[f] > Len(Serves[f])

\* Without stream errors that holds; a stream error is the only other way out.
UnpublishedExplained ==
    \A f \in File : Settled(f) /\ final[f] = None =>
        source[f] > Len(Serves[f]) \/ (pc[f] = "raised" /\ part[f] # None)

\* A run on a network that no longer fails publishes every file that has a
\* source, whatever earlier runs and crashes left in the directory.
HealthyRunPublishes ==
    \A f \in File : Serves[f] # <<>> =>
        ((healthy /\ pc[f] = "queued") ~> (final[f] # None))

\* The pool comes to the end of its batch unless killed again and again.
BatchSettles ==
    healthy ~> \A f \in File : Settled(f)
=============================================================================
