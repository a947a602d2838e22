---------------------------- MODULE BuilderImage ----------------------------
(***************************************************************************)
(* builder_image.build (probe_builder/builder/builder_image.py) and        *)
(* docker.build: the threads of the build pool need builder images, which  *)
(* one lock and one cache keep from being built more than once.            *)
(*                                                                         *)
(* The images that docker has outlive the process; the cache, the lock and *)
(* the calls do not.                                                       *)
(***************************************************************************)
CONSTANTS
    Task,      \* the calls of build_kernel, each of which needs one image
    Image,     \* the builder images: a Dockerfile and its tag
    ImageOf,   \* the image that each task needs
    Prebuilt,  \* is there an image prefix, which says the images are there?
    None       \* nobody holds the lock

ASSUME ImageAssumption ==
    /\ ImageOf \in [Task -> Image]
    /\ Prebuilt \in BOOLEAN
    /\ None \notin Task

VARIABLES
    images,    \* the images that docker has
    builders,  \* the cache: the images known to be built
    lock,      \* builders_lock: the task that holds it, or None
    call       \* where the call of each task is

imageVars == <<images, builders, lock, call>>

ImageInit ==
    /\ images \in SUBSET Image
    /\ builders = {}
    /\ lock = None
    /\ call = [t \in Task |-> "idle"]

Goes(t, l) == call' = [call EXCEPT ![t] = l]

\* The end of the with statement, by a return or by an exception.
Leave(t, l) ==
    /\ Goes(t, l)
    /\ lock' = None

Call(t) ==
    /\ call[t] = "idle"
    /\ Goes(t, "waiting")
    /\ UNCHANGED <<images, builders, lock>>

\* Variant: the lock is not waited for.
AcquireAnyway(t) ==
    /\ call[t] = "waiting"
    /\ lock' = t
    /\ Goes(t, "lookup")
    /\ UNCHANGED <<images, builders>>

Acquire(t) ==
    /\ call[t] = "waiting" /\ lock = None
    /\ lock' = t
    /\ Goes(t, "lookup")
    /\ UNCHANGED <<images, builders>>

CacheHit(t) ==
    /\ call[t] = "lookup" /\ ImageOf[t] \in builders
    /\ Leave(t, "returned")
    /\ UNCHANGED <<images, builders>>

\* With a prefix the image is not looked for, only noted.
TakenOnTrust(t) ==
    /\ call[t] = "lookup" /\ ImageOf[t] \notin builders /\ Prebuilt
    /\ builders' = builders \cup {ImageOf[t]}
    /\ Leave(t, "returned")
    /\ UNCHANGED images

CacheMiss(t) ==
    /\ call[t] = "lookup" /\ ImageOf[t] \notin builders /\ ~Prebuilt
    /\ Goes(t, "building")
    /\ UNCHANGED <<images, builders, lock>>

\* docker buildx build.
BuildxSucceeds(t) ==
    /\ call[t] = "building"
    /\ images' = images \cup {ImageOf[t]}
    /\ Goes(t, "tidying")
    /\ UNCHANGED <<builders, lock>>

\* Variant: an image is noted before it is built.
FailureCached(t) ==
    /\ call[t] = "building"
    /\ builders' = builders \cup {ImageOf[t]}
    /\ Leave(t, "raised")
    /\ UNCHANGED images

\* Variant: the lock is taken and released by hand, and an exception leaves
\* without the release.
LockKept(t) ==
    /\ call[t] = "building"
    /\ Goes(t, "raised")
    /\ UNCHANGED <<images, builders, lock>>

BuildxFails(t) ==
    /\ call[t] = "building"
    /\ Leave(t, "raised")
    /\ UNCHANGED <<images, builders>>

\* remove_dangling_images, whose first command is not silenced: it may fail
\* the call when the image is there.
TidySucceeds(t) ==
    /\ call[t] = "tidying"
    /\ builders' = builders \cup {ImageOf[t]}
    /\ Leave(t, "returned")
    /\ UNCHANGED images

TidyFails(t) ==
    /\ call[t] = "tidying"
    /\ Leave(t, "raised")
    /\ UNCHANGED <<images, builders>>

Serve(t) ==
    \/ Acquire(t) \/ CacheHit(t) \/ TakenOnTrust(t) \/ CacheMiss(t)
    \/ BuildxSucceeds(t) \/ BuildxFails(t) \/ TidySucceeds(t) \/ TidyFails(t)

\* A new process, after the last one ended or was killed.
ImageReset ==
    /\ builders' = {}
    /\ lock' = None
    /\ call' = [t \in Task |-> "idle"]
    /\ UNCHANGED images

ImageNext ==
    \/ \E t \in Task : Call(t) \/ Serve(t)
    \/ ImageReset

ImageSpec == ImageInit /\ [][ImageNext]_imageVars

-----------------------------------------------------------------------------
ImageTypeOK ==
    /\ images \in SUBSET Image
    /\ builders \in SUBSET Image
    /\ lock \in Task \cup {None}
    /\ call \in [Task -> {"idle", "waiting", "lookup", "building", "tidying",
                          "returned", "raised"}]

HasLock(t) == call[t] \in {"lookup", "building", "tidying"}

\* One docker build at a time, so the clean-up of dangling images after one
\* never runs during another (builder_image.py:23-43).
OneBuildAtATime ==
    \A t, u \in Task : HasLock(t) /\ HasLock(u) => t = u

\* "cache the builders we have already built, so that we only do this once"
\* (builder_image.py:13-14).
BuiltOnlyOnce ==
    \A t \in Task : call[t] \in {"building", "tidying"} => ImageOf[t] \notin builders

\* A call that returns leaves a task with an image that docker has; only the
\* failures of others are no reason to believe in one.
ReturnedMeansAvailable ==
    \A t \in Task : call[t] = "returned" /\ ~Prebuilt => ImageOf[t] \in images
=============================================================================
