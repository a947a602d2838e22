------------------------- MODULE BuilderImage_proofs -------------------------
(***************************************************************************)
(* Proofs about BuilderImage, for any number of tasks and images, any      *)
(* failures of docker and any number of runs.                              *)
(***************************************************************************)
EXTENDS BuilderImage, TLAPS

USE ImageAssumption

\* The lock is held exactly by the task that is inside the with statement.
LockInv == \A t \in Task : HasLock(t) <=> lock = t

\* The cache lies about no image that this process has built itself.
CacheInv ==
    /\ ~Prebuilt => builders \subseteq images
    /\ \A t \in Task : call[t] = "tidying" => ImageOf[t] \in images

ImageInv ==
    /\ ImageTypeOK
    /\ LockInv
    /\ CacheInv
    /\ BuiltOnlyOnce
    /\ ReturnedMeansAvailable

LEMMA ImageInvInit == ImageInit => ImageInv
  BY DEF ImageInit, ImageInv, ImageTypeOK, LockInv, CacheInv, BuiltOnlyOnce,
     ReturnedMeansAvailable, HasLock

LEMMA ImageInvNext == ImageInv /\ [ImageNext]_imageVars => ImageInv'
<1> SUFFICES ASSUME ImageInv, [ImageNext]_imageVars PROVE ImageInv'
  OBVIOUS
<1> USE DEF ImageInv, ImageTypeOK, LockInv, CacheInv, BuiltOnlyOnce,
        ReturnedMeansAvailable, HasLock, Goes, Leave
<1>1. ASSUME NEW t \in Task, Call(t) PROVE ImageInv'
  BY <1>1 DEF Call
<1>2. ASSUME NEW t \in Task, Serve(t) PROVE ImageInv'
  <2>1. CASE Acquire(t)
    BY <2>1 DEF Acquire
  <2>2. CASE CacheHit(t)
    BY <2>2 DEF CacheHit
  <2>3. CASE TakenOnTrust(t)
    BY <2>3 DEF TakenOnTrust
  <2>4. CASE CacheMiss(t)
    BY <2>4 DEF CacheMiss
  <2>5. CASE BuildxSucceeds(t)
    BY <2>5 DEF BuildxSucceeds
  <2>6. CASE BuildxFails(t)
    BY <2>6 DEF BuildxFails
  <2>7. CASE TidySucceeds(t)
    BY <2>7 DEF TidySucceeds
  <2>8. CASE TidyFails(t)
    BY <2>8 DEF TidyFails
  <2> QED
    BY <1>2, <2>1, <2>2, <2>3, <2>4, <2>5, <2>6, <2>7, <2>8 DEF Serve
<1>3. CASE ImageReset
  BY <1>3 DEF ImageReset
<1>4. CASE UNCHANGED imageVars
  BY <1>4 DEF imageVars
<1> QED
  BY <1>1, <1>2, <1>3, <1>4 DEF ImageNext

\* The lock and the cache are right: every part of the invariant at once.
THEOREM ImageInvariant == ImageSpec => []ImageInv
  BY ImageInvInit, ImageInvNext, PTL DEF ImageSpec

\* docker never builds two images at the same time for this program.
THEOREM MutualExclusion == ImageSpec => []OneBuildAtATime
<1>1. ImageInv => OneBuildAtATime
  BY DEF ImageInv, LockInv, OneBuildAtATime, ImageTypeOK
<1> QED
  BY <1>1, ImageInvariant, PTL

\* An image that is in the cache is not built once more.
THEOREM CachedNotRebuilt == ImageSpec => []BuiltOnlyOnce
  BY ImageInvariant, PTL DEF ImageInv

\* A task goes on only with an image that docker has, unless the prefix says
\* that the images are there.
THEOREM AvailableOnReturn == ImageSpec => []ReturnedMeansAvailable
  BY ImageInvariant, PTL DEF ImageInv
=============================================================================
