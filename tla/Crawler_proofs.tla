--------------------------- MODULE Crawler_proofs ---------------------------
(***************************************************************************)
(* Proofs about Crawler, for any lists of packages, any repositories and   *)
(* releases, any number of threads and attempts, and all failures, alone   *)
(* and as a part of Batching.                                              *)
(***************************************************************************)
EXTENDS Batching, FiniteSetTheorems, TLAPS

USE ListsAssumption, CrawlerAssumption

(***************************************************************************)
(* What a package needs.                                                   *)
(***************************************************************************)
LEMMA NeededIsTransitive ==
  ASSUME NEW depends, NEW n, NEW m \in Needed(depends, n)
  PROVE  Needed(depends, m) \subseteq Needed(depends, n)
<1> DEFINE All(x) == {x} \cup DOMAIN depends \cup UNION {depends[y] : y \in DOMAIN depends}
<1> SUFFICES ASSUME NEW x \in Needed(depends, m) PROVE x \in Needed(depends, n)
  OBVIOUS
<1>1. m \in All(n) /\ x \in All(m)
  BY DEF Needed
<1>2. x \in All(n)
  BY <1>1
<1>3. ASSUME NEW S \in SUBSET All(n), n \in S, Closed(depends, S) PROVE x \in S
  <2>1. m \in S
    BY <1>3 DEF Needed
  <2> DEFINE T == S \cap All(m)
  <2>2. m \in T /\ T \in SUBSET All(m)
    BY <2>1
  <2>3. Closed(depends, T)
    BY <1>3 DEF Closed
  <2>4. x \in T
    BY <2>2, <2>3 DEF Needed
  <2> QED
    BY <2>4
<1> QED
  BY <1>2, <1>3 DEF Needed

\* A package of the index is under its own name.
Named(index) == \A n \in DOMAIN index : index[n].url.name = n

LEMMA IndexIsNamed ==
  ASSUME NEW base, NEW list
  PROVE  Named(Index(base, list))
  BY DEF Index, Named

LEMMA UrlsComeWithTheirNeeds ==
  ASSUME NEW index, Named(index), NEW n, NEW u \in UrlsOf(index, n)
  PROVE  ComesWithItsNeeds(index, UrlsOf(index, n), u)
<1>1. /\ n \in KernelName /\ DebNeeded(index, n) \subseteq DOMAIN index
      /\ UrlsOf(index, n) = {index[x].url : x \in DebNeeded(index, n)}
  BY DEF UrlsOf
<1>2. PICK x \in DebNeeded(index, n) : u = index[x].url
  BY <1>1
<1>3. u.name = x
  BY <1>1, <1>2 DEF Named
<1>4. DebNeeded(index, x) \subseteq DebNeeded(index, n)
  BY <1>2, NeededIsTransitive DEF DebNeeded
<1> QED
  BY <1>1, <1>2, <1>3, <1>4 DEF ComesWithItsNeeds

LEMMA TreeComesWithItsNeeds ==
  ASSUME NEW index, Named(index), NEW names,
         NEW v \in DOMAIN DebTree(index, names), NEW u \in DebTree(index, names)[v]
  PROVE  ComesWithItsNeeds(index, DebTree(index, names)[v], u)
<1> DEFINE S == {x \in names : index[x].version = v}
<1>1. DebTree(index, names)[v] = UNION {UrlsOf(index, n) : n \in S}
  BY DEF DebTree
<1>2. PICK n \in S : u \in UrlsOf(index, n)
  BY <1>1
<1>3. ComesWithItsNeeds(index, UrlsOf(index, n), u)
  BY <1>2, UrlsComeWithTheirNeeds
<1> QED
  BY <1>1, <1>2, <1>3 DEF ComesWithItsNeeds

LEMMA ComesWithMore ==
  ASSUME NEW index, NEW S, NEW T, S \subseteq T, NEW u, ComesWithItsNeeds(index, S, u)
  PROVE  ComesWithItsNeeds(index, T, u)
  BY DEF ComesWithItsNeeds
-----------------------------------------------------------------------------
(***************************************************************************)
(* Types.                                                                  *)
(***************************************************************************)
States == {"none", "queued", "first", "second", "done", "merged", "built", "raised"}

LEMMA WorldType ==
  ASSUME world \in World
  PROVE  Mirrors \in Seq(Seq(SUBSET Repo)) /\ world.lists \in [Repo -> Seq(Entry)]
  BY DEF Mirrors, Surroundings

LEMMA PlaceInOrder ==
  ASSUME CrawlTypeOK, AtPlace, NEW s \in Orders(Place)
  PROVE  s \in Seq(Repo)
<1>1. Mirrors \in Seq(Seq(SUBSET Repo)) /\ mirror \in DOMAIN Mirrors
  BY WorldType DEF CrawlTypeOK, AtPlace
<1>2. Mirrors[mirror] \in Seq(SUBSET Repo) /\ i \in DOMAIN Mirrors[mirror]
  BY <1>1 DEF CrawlTypeOK, AtPlace
<1>3. Place \subseteq Repo
  BY <1>1, <1>2 DEF Place
<1>4. Cardinality(Place) \in Nat
  BY <1>3, FS_Subset, FS_CardinalityType
<1> QED
  BY <1>3, <1>4 DEF Orders

LEMMA CrawlTypeInit == Init => CrawlTypeOK
  BY WorldType DEF Init, CrawlTypeOK

LEMMA RetryType ==
  ASSUME CrawlTypeOK, NEW x \in Fetcher
  PROVE  /\ Retry(x) /\ ~LastTry(x) => tries' \in [Fetcher -> 0..(Attempts - 1)]
         /\ NextUrl(x) => tries' \in [Fetcher -> 0..(Attempts - 1)]
<1>1. tries \in [Fetcher -> 0..(Attempts - 1)] /\ Attempts \in Nat \ {0}
  BY DEF CrawlTypeOK
<1>2. tries[x] \in 0..(Attempts - 1) /\ 0 \in 0..(Attempts - 1)
  BY <1>1
<1>3. ~LastTry(x) => tries[x] + 1 \in 0..(Attempts - 1)
  BY <1>1, <1>2 DEF LastTry
<1> QED
  BY <1>1, <1>2, <1>3 DEF Retry, NextUrl

LEMMA GotoType ==
  ASSUME CrawlTypeOK, NEW r \in Repo, NEW s \in States, Goto(r, s)
  PROVE  task' \in [Repo -> States] /\ tries' \in [Fetcher -> 0..(Attempts - 1)]
  BY RetryType DEF Goto, CrawlTypeOK, States, Fetcher

LEMMA CrawlTypeNext == CrawlTypeOK /\ [Next]_vars => CrawlTypeOK'
<1> SUFFICES ASSUME CrawlTypeOK, [Next]_vars PROVE CrawlTypeOK'
  OBVIOUS
<1> USE DEF listing, merging
<1>1. CASE ReadMirror \/ MirrorFails \/ PlacesDone
  BY <1>1 DEF ReadMirror, MirrorFails, PlacesDone, CrawlTypeOK, Mirrors
<1>2. CASE ReadPlace
  <2>1. found' \in Seq(Repo)
    BY <1>2, PlaceInOrder DEF ReadPlace, CrawlTypeOK
  <2>2. tries' \in [Fetcher -> 0..(Attempts - 1)]
    BY <1>2, RetryType DEF ReadPlace, NextPlace, Fetcher
  <2> QED
    BY <1>2, <2>1, <2>2 DEF ReadPlace, NextPlace, CrawlTypeOK, Mirrors
<1>3. CASE PlaceMissing \/ PlaceReset
  <2>1. tries' \in [Fetcher -> 0..(Attempts - 1)]
    BY <1>3, RetryType DEF PlaceMissing, PlaceReset, NextPlace, Fetcher, CrawlTypeOK
  <2>2. /\ UNCHANGED <<world, mirror, found, task, answered, merging>>
        /\ i' \in {i, i + 1} /\ (pc' = "raised" \/ pc' = pc)
    BY <1>3 DEF PlaceMissing, PlaceReset, NextPlace
  <2> QED
    BY <2>1, <2>2 DEF CrawlTypeOK, Mirrors
<1>4. CASE Submit
  BY <1>4 DEF Submit, CrawlTypeOK, Mirrors
<1>5. ASSUME NEW r \in Repo, Merge(r) \/ Gather(r) \/ Raise(r) PROVE CrawlTypeOK'
  BY <1>5 DEF Merge, Gather, Raise, CrawlTypeOK, Mirrors
<1>6. ASSUME NEW x \in Drel, Build(x) PROVE CrawlTypeOK'
  BY <1>6 DEF Build, CrawlTypeOK, Mirrors
<1>7. CASE Shutdown \/ Return
  BY <1>7 DEF Shutdown, Return, CrawlTypeOK, Mirrors
<1>8. ASSUME NEW r \in Repo, TaskStep(r) PROVE CrawlTypeOK'
  <2>1. task' \in [Repo -> States] /\ tries' \in [Fetcher -> 0..(Attempts - 1)]
    <3>1. CASE Begin(r)
      BY <3>1 DEF Begin, CrawlTypeOK, States
    <3>2. CASE Arrives(r) \/ HttpError(r)
      BY <3>2, GotoType DEF Arrives, HttpError, States
    <3>3. CASE Reset(r)
      <4>1. CASE ~LastTry(r)
        BY <3>3, <4>1, RetryType DEF Reset, CrawlTypeOK, States, Fetcher
      <4>2. CASE LastTry(r)
        <5>1. PICK s \in States : Goto(r, s)
          BY <3>3, <4>2 DEF Reset, States
        <5> QED
          BY <5>1, GotoType
      <4> QED
        BY <4>1, <4>2
    <3> QED
      BY <1>8, <3>1, <3>2, <3>3 DEF TaskStep
  <2>2. answered' \subseteq Repo /\ UNCHANGED <<world, pc, listing, merging>>
    BY <1>8 DEF TaskStep, Begin, Arrives, HttpError, Reset, CrawlTypeOK
  <2> QED
    BY <2>1, <2>2 DEF CrawlTypeOK, States, Mirrors
<1>9. CASE UNCHANGED vars
  BY <1>9 DEF vars, CrawlTypeOK, Mirrors
<1> QED
  BY <1>1, <1>2, <1>3, <1>4, <1>5, <1>6, <1>7, <1>8, <1>9 DEF Next, MainStep

\* The control keeps its type, and no URL is tried more often than it may be.
THEOREM CrawlTypeCorrect == Spec => []CrawlTypeOK
  BY CrawlTypeInit, CrawlTypeNext, PTL DEF Spec

-----------------------------------------------------------------------------
(***************************************************************************)
(* The calls, and what the main thread knows of them.                      *)
(***************************************************************************)
Busy == {"first", "second", "done", "raised"}

TaskInv ==
    /\ pc \in {"mirror", "place"} => \A r \in Repo : task[r] = "none"
    /\ pc \in {"crawl", "raising", "returned"} => \A r \in Repo : task[r] = "none" <=> r \notin Found
    /\ pc = "raising" => Pooled
    /\ pc = "returned" => \A r \in Repo : task[r] \in {"none", IF Pooled THEN "merged" ELSE "built"}
    /\ ~Pooled => \A q, r \in Repo : task[q] \in Busy /\ task[r] \in Busy => q = r
    /\ QuietWhenOver

LEMMA TaskInit == Init => TaskInv
  BY DEF Init, TaskInv, Busy, QuietWhenOver, Over

\* A step of a call moves this call alone.
LEMMA OneCall ==
  ASSUME CrawlTypeOK, NEW r \in Repo, TaskStep(r)
  PROVE  /\ UNCHANGED <<world, pc, found, pool, wanted, tree>>
         /\ answered' = answered \/ (task[r] \in {"first", "second"} /\ answered' = answered \cup {r})
         /\ task[r] \in {"queued", "first", "second"}
         /\ \E s \in Busy : task' = [task EXCEPT ![r] = s]
         /\ task[r] = "queued" => Begin(r)
<1> USE DEF TaskStep, Busy, listing, merging, Active
<1>1. CASE Begin(r)
  BY <1>1 DEF Begin
<1>2. CASE Arrives(r) \/ HttpError(r)
  BY <1>2 DEF Arrives, HttpError, Goto
<1>3. CASE Reset(r)
  <2>1. \E s \in Busy : task' = [task EXCEPT ![r] = s]
    <3>1. CASE UNCHANGED task
      <4>1. task' = [task EXCEPT ![r] = task[r]] /\ task[r] \in Busy
        BY <1>3, <3>1 DEF Reset, CrawlTypeOK
      <4> QED
        BY <4>1
    <3> QED
      BY <1>3, <3>1 DEF Reset, Goto
  <2> QED
    BY <1>3, <2>1 DEF Reset
<1> QED
  BY <1>1, <1>2, <1>3

LEMMA TaskNext ==
  ASSUME CrawlTypeOK, TaskInv, [Next]_vars
  PROVE  TaskInv'
<1> USE DEF TaskInv, QuietWhenOver, Over, Active, Found, Pooled, Busy, listing, merging
<1>0. task \in [Repo -> States]
  BY DEF CrawlTypeOK, States
<1>1. CASE ReadMirror \/ MirrorFails \/ PlacesDone
  BY <1>1 DEF ReadMirror, MirrorFails, PlacesDone
<1>2. CASE ReadPlace \/ PlaceMissing \/ PlaceReset
  BY <1>2 DEF ReadPlace, PlaceMissing, PlaceReset, AtPlace, NextPlace
<1>3. CASE Submit
  BY <1>3 DEF Submit
<1>4. ASSUME NEW r \in Repo, Merge(r) \/ Gather(r) PROVE TaskInv'
  BY <1>0, <1>4 DEF Merge, Gather, States
<1>5. ASSUME NEW r \in Repo, Raise(r) PROVE TaskInv'
  BY <1>0, <1>5 DEF Raise
<1>6. ASSUME NEW x \in Drel, Build(x) PROVE TaskInv'
  BY <1>0, <1>6 DEF Build
<1>7. CASE Shutdown
  BY <1>7 DEF Shutdown
<1>8. CASE Return
  BY <1>8 DEF Return
<1>9. ASSUME NEW r \in Repo, TaskStep(r) PROVE TaskInv'
  <2>1. PICK s \in Busy : task' = [task EXCEPT ![r] = s]
    BY <1>9, OneCall
  <2>2. UNCHANGED <<world, pc, found>> /\ task[r] \in {"queued", "first", "second"}
    BY <1>9, OneCall
  <2>3. task'[r] = s /\ \A q \in Repo \ {r} : task'[q] = task[q]
    BY <1>0, <2>1
  <2>4. ~Pooled => pc # "returned" /\ \A q \in Repo \ {r} : task[q] \notin Busy
    <3>1. CASE task[r] = "queued"
      BY <1>9, <3>1, OneCall DEF Begin, Free
    <3> QED
      BY <2>2, <3>1
  <2>5. pc # "raised" /\ pc # "returned" /\ pc \notin {"mirror", "place"}
    <3>1. CASE Pooled
      BY <2>2, <3>1
    <3>2. CASE ~Pooled /\ task[r] = "queued"
      BY <1>9, <3>2, OneCall DEF Begin, Free
    <3> QED
      BY <2>2, <3>1, <3>2
  <2> QED
    BY <2>1, <2>2, <2>3, <2>4, <2>5
<1>10. CASE UNCHANGED vars
  BY <1>10 DEF vars
<1> QED
  BY <1>1, <1>2, <1>3, <1>4, <1>5, <1>6, <1>7, <1>8, <1>9, <1>10 DEF Next, MainStep

\* When the crawl is over, by its result or by an exception, no thread reads on.
THEOREM NothingReadsOn == Spec => []QuietWhenOver
<1>1. CrawlTypeOK /\ TaskInv /\ [Next]_vars => TaskInv'
  BY TaskNext
<1>2. TaskInv => QuietWhenOver
  BY DEF TaskInv
<1> QED
  BY <1>1, <1>2, TaskInit, CrawlTypeCorrect, PTL DEF Spec

-----------------------------------------------------------------------------
(***************************************************************************)
(* The tree of a pooled crawl.                                             *)
(***************************************************************************)
Merged == {r \in Repo : task[r] = "merged"}

MergedKeys    == UNION {{DrelOf[r]} \X DOMAIN TreeOf(r) : r \in Merged}
MergedUrls(k) == UNION {At(TreeOf(r), k[2]) : r \in {q \in Merged : DrelOf[q] = k[1]}}

UnionInv == Pooled => DOMAIN tree = MergedKeys /\ \A k \in DOMAIN tree : tree[k] = MergedUrls(k)

LEMMA UnionInit == Init => UnionInv
<1> SUFFICES ASSUME Init PROVE DOMAIN tree = {} /\ Merged = {}
  BY DEF UnionInv, MergedKeys
<1> QED
  BY DEF Init, Merged

\* What was read of a merged repository stays, whatever others read.
LEMMA UnionKept ==
  ASSUME UnionInv, UNCHANGED <<world, tree>>, Merged' = Merged,
         \A r \in Merged : r \in answered' <=> r \in answered
  PROVE  UnionInv'
<1>1. Trees' = Trees
  BY DEF Trees, IndexIn
<1>2. \A r \in Merged : TreeOf(r)' = TreeOf(r)
  BY <1>1 DEF TreeOf
<1>3. MergedKeys' = MergedKeys
  BY <1>2 DEF MergedKeys
<1>4. \A k : MergedUrls(k)' = MergedUrls(k)
  <2> TAKE k
  <2> QED
    BY <1>2 DEF MergedUrls, At
<1> QED
  BY <1>3, <1>4 DEF UnionInv, Pooled

LEMMA MergeKeepsUnion ==
  ASSUME CrawlTypeOK, UnionInv, NEW r \in Repo, Merge(r)
  PROVE  UnionInv'
<1> DEFINE d == DrelOf[r]
           more == TreeOf(r)
<1>1. Pooled /\ Merged' = Merged \cup {r}
  BY DEF Merge, Merged, CrawlTypeOK
<1>2. \A q : TreeOf(q)' = TreeOf(q)
  <2>1. Trees' = Trees
    BY DEF Trees, IndexIn
  <2> QED
    BY <2>1 DEF Merge, TreeOf
<1>3. tree' = Updated(tree, d, more)
  BY DEF Merge
<1>4. DOMAIN tree' = DOMAIN tree \cup ({d} \X DOMAIN more)
  BY <1>3 DEF Updated
<1>5. DOMAIN tree' = MergedKeys'
  BY <1>1, <1>2, <1>4 DEF UnionInv, MergedKeys
<1>6. ASSUME NEW k \in DOMAIN tree' PROVE At(tree, k) = MergedUrls(k)
  <2>1. CASE k \in DOMAIN tree
    BY <1>1, <2>1 DEF At, UnionInv
  <2>2. CASE k \notin DOMAIN tree
    <3>1. k \in {d} \X DOMAIN more /\ k = <<k[1], k[2]>>
      BY <1>4, <2>2
    <3>2. \A q \in Merged : DrelOf[q] = k[1] => k[2] \notin DOMAIN TreeOf(q)
      <4> SUFFICES ASSUME NEW q \in Merged, DrelOf[q] = k[1], k[2] \in DOMAIN TreeOf(q) PROVE FALSE
        OBVIOUS
      <4>1. k \in {DrelOf[q]} \X DOMAIN TreeOf(q)
        BY <3>1
      <4>2. k \in MergedKeys
        BY <4>1 DEF MergedKeys
      <4> QED
        BY <1>1, <2>2, <4>2 DEF UnionInv
    <3>3. MergedUrls(k) = {}
      BY <3>2 DEF MergedUrls, At
    <3> QED
      BY <2>2, <3>3 DEF At
  <2> QED
    BY <2>1, <2>2
<1>7. ASSUME NEW k \in DOMAIN tree' PROVE tree'[k] = MergedUrls(k)'
  <2>1. tree'[k] = At(tree, k) \cup (IF k[1] = d THEN At(more, k[2]) ELSE {})
    BY <1>3, <1>4 DEF Updated
  <2>2. MergedUrls(k)' = MergedUrls(k) \cup (IF k[1] = d THEN At(more, k[2]) ELSE {})
    <3>1. MergedUrls(k)' = UNION {At(TreeOf(q), k[2]) : q \in {p \in Merged \cup {r} : DrelOf[p] = k[1]}}
      BY <1>1, <1>2 DEF MergedUrls, At
    <3> QED
      BY <3>1 DEF MergedUrls
  <2> QED
    BY <1>6, <2>1, <2>2
<1> QED
  BY <1>5, <1>7 DEF UnionInv

LEMMA UnionNext ==
  ASSUME CrawlTypeOK, TaskInv, UnionInv, [Next]_vars
  PROVE  UnionInv'
<1> USE DEF listing, merging
<1>1. CASE \E r \in Repo : Merge(r)
  BY <1>1, MergeKeepsUnion
<1>2. CASE (\E r \in Repo : Gather(r)) \/ (\E x \in Drel : Build(x))
  BY <1>2 DEF Gather, Build, UnionInv, Pooled
<1>3. CASE Submit
  <2>1. Merged = {} /\ Merged' = {}
    BY <1>3 DEF Submit, TaskInv, Merged
  <2> QED
    BY <1>3, <2>1, UnionKept DEF Submit
<1>4. ASSUME NEW r \in Repo, TaskStep(r) PROVE UnionInv'
  <2>1. UNCHANGED <<world, tree>> /\ answered \subseteq answered' /\ answered' \subseteq answered \cup {r}
    BY <1>4, OneCall
  <2>2. Merged' = Merged /\ r \notin Merged
    BY <1>4, OneCall DEF Merged, Busy, CrawlTypeOK
  <2> QED
    BY <2>1, <2>2, UnionKept
<1>5. CASE UNCHANGED <<world, task, answered, tree>>
  BY <1>5, UnionKept DEF Merged
<1>6. CASE \/ ReadMirror \/ MirrorFails \/ ReadPlace \/ PlaceMissing \/ PlaceReset \/ PlacesDone
           \/ Shutdown \/ Return \/ \E r \in Repo : Raise(r)
  BY <1>5, <1>6 DEF ReadMirror, MirrorFails, ReadPlace, PlaceMissing, PlaceReset, PlacesDone,
                    Shutdown, Return, Raise
<1>7. CASE UNCHANGED vars
  BY <1>5, <1>7 DEF vars
<1> QED
  BY <1>1, <1>2, <1>3, <1>4, <1>6, <1>7 DEF Next, MainStep

LEMMA UnionIsTree == CrawlTypeOK /\ TaskInv /\ UnionInv => TreeIsUnion
<1> SUFFICES ASSUME CrawlTypeOK, TaskInv, UnionInv, Pooled PROVE TreeIsUnion
  BY DEF TreeIsUnion
<1>1. pc = "returned" => Merged = Found
  BY DEF TaskInv, Merged, CrawlTypeOK, Found
<1> QED
  BY <1>1 DEF TreeIsUnion, UnionInv, Merged, MergedKeys, MergedUrls

\* In whatever order the threads of the pool end, the tree is the union of what was
\* merged, and in the end of all.
THEOREM TreeIsAlwaysUnion == Spec => []TreeIsUnion
<1>1. CrawlTypeOK /\ TaskInv /\ [Next]_vars => TaskInv'
  BY TaskNext
<1>2. CrawlTypeOK /\ TaskInv /\ UnionInv /\ [Next]_vars => UnionInv'
  BY UnionNext
<1> QED
  BY <1>1, <1>2, TaskInit, UnionInit, UnionIsTree, CrawlTypeCorrect, PTL DEF Spec

-----------------------------------------------------------------------------
(***************************************************************************)
(* Dependencies.  Pooled, each tree is whole and so is their union.  In    *)
(* Debian's crawl a release gets its tree when all its lists are read, so  *)
(* what the tree was built from does not change any more.                  *)
(***************************************************************************)
BuiltWhole(k) ==
    /\ \A r \in Found : DrelOf[r] = k[1] => task[r] = "built"
    /\ \A u \in tree[k] : ComesWithItsNeeds(pool[k[1]], tree[k], u)

HalfInv ==
    ~Pooled =>
        /\ \A d \in Drel : Named(pool[d])
        /\ pc \in {"mirror", "place"} => DOMAIN tree = {}
        /\ \A k \in DOMAIN tree : BuiltWhole(k)

LEMMA HalfInit == Init => HalfInv
<1> SUFFICES ASSUME Init PROVE (\A d \in Drel : Named(pool[d])) /\ DOMAIN tree = {}
  BY DEF HalfInv
<1> QED
  BY DEF Init, Named, NoIndex

LEMMA GatherKeepsWhole ==
  ASSUME CrawlTypeOK, TaskInv, HalfInv, NEW r \in Repo, Gather(r)
  PROVE  HalfInv'
<1> DEFINE index == IF r \in answered THEN IndexIn(world, r) ELSE NoIndex
           d == DrelOf[r]
<1>1. /\ ~Pooled /\ pc = "crawl" /\ task[r] = "done" /\ UNCHANGED <<world, pc, found, tree>>
      /\ task' = [task EXCEPT ![r] = "merged"]
      /\ pool' = [pool EXCEPT ![d] = [n \in DOMAIN @ \cup DOMAIN index |->
                                         IF n \in DOMAIN index THEN index[n] ELSE @[n]]]
  BY DEF Gather, listing
<1>2. r \in Found
  BY <1>1 DEF TaskInv
<1>3. Named(index)
  BY IndexIsNamed DEF IndexIn, NoIndex, Named
<1>4. d \in Drel /\ d \in DOMAIN pool
  BY DEF CrawlTypeOK
<1>5. \A x \in Drel : Named(pool'[x])
  <2> SUFFICES ASSUME NEW x \in Drel PROVE Named(pool'[x])
    OBVIOUS
  <2>1. Named(pool[x]) /\ x \in DOMAIN pool
    BY <1>1 DEF HalfInv, CrawlTypeOK
  <2>2. CASE x = d
    <3>1. pool'[x] = [n \in DOMAIN pool[x] \cup DOMAIN index |->
                         IF n \in DOMAIN index THEN index[n] ELSE pool[x][n]]
      BY <1>1, <1>4, <2>2
    <3> QED
      BY <1>3, <2>1, <3>1 DEF Named
  <2>3. CASE x # d
    BY <1>1, <2>1, <2>3
  <2> QED
    BY <2>2, <2>3
<1>6. ASSUME NEW k \in DOMAIN tree PROVE BuiltWhole(k)'
  <2>1. BuiltWhole(k)
    BY <1>1 DEF HalfInv
  <2>2. k[1] # d
    BY <1>1, <1>2, <2>1 DEF BuiltWhole
  <2>3. pool'[k[1]] = pool[k[1]]
    BY <1>1, <2>2
  <2>4. \A q \in Found : DrelOf[q] = k[1] => task'[q] = "built"
    BY <1>1, <2>1, <2>2 DEF BuiltWhole, CrawlTypeOK
  <2>5. Found' = Found
    BY <1>1 DEF Found
  <2> QED
    BY <1>1, <2>1, <2>3, <2>4, <2>5 DEF BuiltWhole
<1> QED
  BY <1>1, <1>5, <1>6 DEF HalfInv, Pooled

LEMMA BuildKeepsWhole ==
  ASSUME CrawlTypeOK, HalfInv, NEW d \in Drel, Build(d)
  PROVE  HalfInv'
<1> DEFINE repos == {r \in Found : DrelOf[r] = d}
           more == DebTree(pool[d], wanted[d])
<1>1. /\ ~Pooled /\ pc = "crawl" /\ UNCHANGED <<world, pc, found, pool>>
      /\ repos # {} /\ \A r \in repos : task[r] = "merged"
      /\ tree' = Updated(tree, d, more)
      /\ task' = [r \in Repo |-> IF r \in repos THEN "built" ELSE task[r]]
  BY DEF Build, listing
<1>2. Found \subseteq Repo /\ Found' = Found
  BY <1>1 DEF Found, CrawlTypeOK
<1>3. DOMAIN tree' = DOMAIN tree \cup ({d} \X DOMAIN more)
  BY <1>1 DEF Updated
<1>4. \A k \in DOMAIN tree : k[1] # d /\ BuiltWhole(k)
  BY <1>1 DEF HalfInv, BuiltWhole
<1>5. ASSUME NEW k \in DOMAIN tree' PROVE BuiltWhole(k)'
  <2>1. tree'[k] = At(tree, k) \cup (IF k[1] = d THEN At(more, k[2]) ELSE {})
    BY <1>1, <1>3 DEF Updated
  <2>2. CASE k \in DOMAIN tree
    <3>1. tree'[k] = tree[k]
      BY <1>4, <2>1, <2>2 DEF At
    <3>2. \A q \in Found : DrelOf[q] = k[1] => task'[q] = "built"
      BY <1>1, <1>2, <1>4, <2>2 DEF BuiltWhole
    <3> QED
      BY <1>1, <1>2, <1>4, <2>2, <3>1, <3>2 DEF BuiltWhole
  <2>3. CASE k \notin DOMAIN tree
    <3>1. k[1] = d /\ k[2] \in DOMAIN more
      BY <1>3, <2>3
    <3>2. tree'[k] = more[k[2]]
      BY <2>1, <2>3, <3>1 DEF At
    <3>3. Named(pool[d])
      BY <1>1 DEF HalfInv
    <3>4. \A u \in more[k[2]] : ComesWithItsNeeds(pool[d], more[k[2]], u)
      BY <3>1, <3>3, TreeComesWithItsNeeds
    <3>5. \A q \in Found : DrelOf[q] = k[1] => task'[q] = "built"
      BY <1>1, <1>2, <3>1
    <3> QED
      BY <1>1, <1>2, <3>1, <3>2, <3>4, <3>5 DEF BuiltWhole
  <2> QED
    BY <2>2, <2>3
<1> QED
  BY <1>1, <1>5 DEF HalfInv, Pooled

LEMMA HalfNext ==
  ASSUME CrawlTypeOK, TaskInv, HalfInv, [Next]_vars
  PROVE  HalfInv'
<1> USE DEF listing, merging
<1>1. CASE ReadMirror \/ MirrorFails \/ ReadPlace \/ PlaceMissing \/ PlaceReset \/ PlacesDone \/ Submit
  <2>1. pc \in {"mirror", "place"} /\ UNCHANGED <<world, pool, tree>>
    BY <1>1 DEF ReadMirror, MirrorFails, ReadPlace, PlaceMissing, PlaceReset, PlacesDone, Submit, AtPlace
  <2> QED
    BY <2>1 DEF HalfInv, Pooled
<1>2. CASE \E r \in Repo : Merge(r)
  BY <1>2 DEF Merge, HalfInv, Pooled
<1>3. CASE \E r \in Repo : Gather(r)
  BY <1>3, GatherKeepsWhole
<1>4. CASE \E d \in Drel : Build(d)
  BY <1>4, BuildKeepsWhole
<1>5. ASSUME NEW r \in Repo, TaskStep(r) PROVE HalfInv'
  <2>1. UNCHANGED <<world, pc, found, pool, tree>> /\ task[r] # "built"
    BY <1>5, OneCall
  <2>2. \A q \in Repo : task[q] = "built" => task'[q] = "built"
    BY <1>5, <2>1, OneCall DEF CrawlTypeOK
  <2>3. Found \subseteq Repo /\ Found' = Found
    BY <2>1 DEF Found, CrawlTypeOK
  <2> QED
    BY <2>1, <2>2, <2>3 DEF HalfInv, BuiltWhole, Pooled
<1>6. CASE Shutdown \/ Return \/ (\E r \in Repo : Raise(r)) \/ UNCHANGED vars
  <2>1. UNCHANGED <<world, found, task, pool, tree>> /\ (pc' \in {"mirror", "place"} => pc' = pc)
    BY <1>6 DEF Shutdown, Return, Raise, vars
  <2> QED
    BY <2>1 DEF HalfInv, BuiltWhole, Pooled, Found
<1> QED
  BY <1>1, <1>2, <1>3, <1>4, <1>5, <1>6 DEF Next, MainStep

LEMMA WholeTrees == CrawlTypeOK /\ TreeIsUnion /\ HalfInv => NoHalfDependencies
<1> SUFFICES ASSUME CrawlTypeOK, TreeIsUnion, HalfInv, Deb,
                    NEW k \in DOMAIN tree, NEW u \in tree[k]
             PROVE  IF Pooled
                    THEN \E r \in answered : DrelOf[r] = k[1] /\ ComesWithItsNeeds(IndexIn(world, r), tree[k], u)
                    ELSE ComesWithItsNeeds(pool[k[1]], tree[k], u)
  BY DEF NoHalfDependencies
<1>1. CASE ~Pooled
  BY <1>1 DEF HalfInv, BuiltWhole
<1>2. CASE Pooled
  <2>1. tree[k] = UNION {At(TreeOf(r), k[2]) : r \in {q \in {p \in Repo : task[p] = "merged"} : DrelOf[q] = k[1]}}
    BY <1>2 DEF TreeIsUnion
  <2>2. PICK r \in Repo : DrelOf[r] = k[1] /\ u \in At(TreeOf(r), k[2]) /\ At(TreeOf(r), k[2]) \subseteq tree[k]
    BY <2>1
  <2>3. k[2] \in DOMAIN TreeOf(r) /\ u \in TreeOf(r)[k[2]] /\ TreeOf(r)[k[2]] \subseteq tree[k]
    BY <2>2 DEF At
  <2>4. r \in answered
    BY <2>3 DEF TreeOf, NoTree
  <2> DEFINE index == IndexIn(world, r)
             names == Wanted(index, world.filter)
  <2>5. TreeOf(r) = DebTree(index, names)
    BY <2>4 DEF TreeOf, Trees, Deb, CrawlTypeOK
  <2>6. Named(index)
    BY IndexIsNamed DEF IndexIn
  <2>7. ComesWithItsNeeds(index, TreeOf(r)[k[2]], u)
    <3> HIDE DEF index, names
    <3> QED
      BY <2>3, <2>5, <2>6, TreeComesWithItsNeeds
  <2>8. ComesWithItsNeeds(index, tree[k], u)
    BY <2>3, <2>7, ComesWithMore
  <2> QED
    BY <1>2, <2>2, <2>4, <2>8
<1> QED
  BY <1>1, <1>2

\* What a kernel of Debian or Ubuntu needs is in the tree with it, whichever lists
\* fail and whichever is read last.
THEOREM DependenciesAreWhole == Spec => []NoHalfDependencies
<1>1. CrawlTypeOK /\ TaskInv /\ HalfInv /\ [Next]_vars => HalfInv'
  BY HalfNext
<1>2. CrawlTypeOK /\ TaskInv /\ [Next]_vars => TaskInv'
  BY TaskNext
<1> QED
  BY <1>1, <1>2, HalfInit, TaskInit, WholeTrees, CrawlTypeCorrect, TreeIsAlwaysUnion, PTL DEF Spec

-----------------------------------------------------------------------------
(***************************************************************************)
(* Completeness.  First what one list yields: kernels that it has with     *)
(* all that they need are in its tree.                                     *)
(***************************************************************************)
LEMMA NeedsItself ==
  ASSUME NEW depends, NEW n
  PROVE  n \in Needed(depends, n)
  BY DEF Needed

LEMMA NeedsWhatItDependsOn ==
  ASSUME NEW depends, NEW n, NEW m \in Needed(depends, n), m \in DOMAIN depends, NEW x \in depends[m]
  PROVE  x \in Needed(depends, n)
<1> DEFINE all == {n} \cup DOMAIN depends \cup UNION {depends[y] : y \in DOMAIN depends}
<1>1. x \in all
  OBVIOUS
<1>2. ASSUME NEW S \in SUBSET all, n \in S, Closed(depends, S) PROVE x \in S
  <2>1. m \in S
    BY <1>2 DEF Needed
  <2> QED
    BY <1>2, <2>1 DEF Closed
<1> QED
  BY <1>1, <1>2 DEF Needed

\* Two graphs that agree on what a package needs in one of them agree on it.
LEMMA NeededWithin ==
  ASSUME NEW one, NEW other, DOMAIN one = DOMAIN other, NEW n,
         \A x \in Needed(other, n) \cap DOMAIN other : one[x] = other[x]
  PROVE  Needed(one, n) \subseteq Needed(other, n)
<1> DEFINE all == {n} \cup DOMAIN one \cup UNION {one[y] : y \in DOMAIN one}
           S == Needed(other, n) \cap all
<1>1. n \in S /\ S \in SUBSET all
  BY NeedsItself
<1>2. Closed(one, S)
  <2> SUFFICES ASSUME NEW m \in S, m \in DOMAIN one, NEW x \in one[m] PROVE x \in S
    BY DEF Closed
  <2>1. x \in other[m] /\ m \in Needed(other, n) /\ m \in DOMAIN other
    OBVIOUS
  <2>2. x \in Needed(other, n)
    BY <2>1, NeedsWhatItDependsOn
  <2> QED
    BY <2>2
<1>3. \A x \in Needed(one, n) : x \in S
  <2> HIDE DEF S
  <2> QED
    BY <1>1, <1>2 DEF Needed
<1> QED
  BY <1>3

LEMMA NeededAgrees ==
  ASSUME NEW one, NEW other, DOMAIN one = DOMAIN other, NEW n,
         \A x \in Needed(other, n) \cap DOMAIN other : one[x] = other[x]
  PROVE  Needed(one, n) = Needed(other, n)
<1>1. Needed(one, n) \subseteq Needed(other, n)
  BY NeededWithin
<1>2. \A x \in Needed(one, n) \cap DOMAIN one : other[x] = one[x]
  BY <1>1
<1>3. Needed(other, n) \subseteq Needed(one, n)
  BY <1>2, NeededWithin
<1> QED
  BY <1>1, <1>3

\* Headers with modules or an image pass the filter that asks for them.
LEMMA HeadersAreWanted ==
  ASSUME NEW index, NEW filter, NEW h \in HeadersName, h \in DOMAIN index,
         {ModulesOf[h], ImageOf[h]} \cap DOMAIN index # {},
         filter = NoFilter \/ (filter.exact = {} /\ h \in filter.release),
         \A x, y \in filter.release : x = y
  PROVE  h \in Wanted(index, filter)
<1> DEFINE With(partner) == UNION {{x, partner[x]} : x \in {y \in filter.release \cap Listed(index) :
                                                               partner[y] \in Listed(index)}}
<1>1. /\ h \in Listed(index)
      /\ ModulesOf[h] \in DOMAIN index => ModulesOf[h] \in Listed(index)
      /\ ModulesOf[h] \notin DOMAIN index => ImageOf[h] \in Listed(index)
  <2> DEFINE Pair(x) == CASE ModulesOf[x] \in DOMAIN index -> {x, ModulesOf[x]}
                          [] ModulesOf[x] \notin DOMAIN index /\ ImageOf[x] \in DOMAIN index -> {x, ImageOf[x]}
                          [] OTHER -> {}
  <2>1. Listed(index) = UNION {Pair(x) : x \in HeadersName \cap DOMAIN index}
    BY DEF Listed
  <2>2. ModulesOf[h] \in DOMAIN index => Pair(h) = {h, ModulesOf[h]}
    OBVIOUS
  <2>3. ModulesOf[h] \notin DOMAIN index => Pair(h) = {h, ImageOf[h]}
    OBVIOUS
  <2> HIDE DEF Pair
  <2> QED
    BY <2>1, <2>2, <2>3
<1>2. Listed(index) \subseteq DOMAIN index
  BY DEF Listed
<1>3. CASE filter = NoFilter
  BY <1>1, <1>3 DEF Wanted
<1>4. CASE filter # NoFilter
  <2>1. filter.exact = {} /\ h \in filter.release
    BY <1>4
  <2>2. Wanted(index, filter) = IF With(ModulesOf) # {} THEN With(ModulesOf)
                                ELSE IF With(ImageOf) # {} THEN With(ImageOf)
                                ELSE Listed(index) \cap filter.matching
    BY <1>4, <2>1 DEF Wanted
  <2>3. CASE ModulesOf[h] \in DOMAIN index
    BY <1>1, <2>1, <2>2, <2>3
  <2>4. CASE ModulesOf[h] \notin DOMAIN index
    <3>1. With(ModulesOf) = {}
      BY <1>2, <2>1, <2>4
    <3>2. h \in With(ImageOf)
      BY <1>1, <2>1, <2>4
    <3> QED
      BY <2>2, <3>1, <3>2
  <2> QED
    BY <2>3, <2>4
<1> QED
  BY <1>3, <1>4

LEMMA TreeHasTheNeeded ==
  ASSUME NEW index, Named(index), NEW names, NEW h \in names,
         h \in HeadersName \cap KernelName \cap DOMAIN index,
         DebNeeded(index, h) \subseteq DOMAIN index, NEW n \in DebNeeded(index, h)
  PROVE  /\ index[h].version \in DOMAIN DebTree(index, names)
         /\ \E u \in DebTree(index, names)[index[h].version] : u.name = n
<1> DEFINE v == index[h].version
           under == UNION {UrlsOf(index, x) : x \in {y \in names : index[y].version = v}}
<1>1. UrlsOf(index, h) = {index[x].url : x \in DebNeeded(index, h)}
  BY DEF UrlsOf
<1>2. UrlsOf(index, h) \subseteq under
  OBVIOUS
<1>3. h \in DebNeeded(index, h)
  BY NeedsItself DEF DebNeeded
<1>4. index[h].url \in under /\ index[h].url.name = h
  BY <1>1, <1>2, <1>3 DEF Named
<1>5. index[n].url \in under /\ index[n].url.name = n
  BY <1>1, <1>2 DEF Named
<1>6. v \in {index[x].version : x \in names}
  OBVIOUS
<1>7. v \in DOMAIN DebTree(index, names) /\ DebTree(index, names)[v] = under
  BY <1>4, <1>6 DEF DebTree
<1> QED
  BY <1>5, <1>7

(***************************************************************************)
(* What a healthy crawl meets.  No place and no list that is there is      *)
(* missed: nothing raises, each list that can be read is read, and the     *)
(* main thread has listed all places before the one it is at.              *)
(***************************************************************************)
HealthyInv ==
    Healthy =>
        /\ pc \notin {"raising", "raised"}
        /\ \A r \in Repo : task[r] # "raised"
        /\ Deb => \A r \in Repo : task[r] = "second" => "first" \notin world.served[r]
        /\ \A r \in Readable : task[r] \in {"done", "merged", "built"} => r \in answered

LEMMA ReadableAreRepos ==
  ASSUME world \in World
  PROVE  Readable \subseteq Repo /\ UNION Places \subseteq Repo
  BY WorldType DEF Readable, Places

LEMMA HealthyInit == Init => HealthyInv
<1> SUFFICES ASSUME Init PROVE HealthyInv
  OBVIOUS
<1>1. pc = "mirror" /\ \A r \in Repo : task[r] = "none"
  BY DEF Init
<1>2. Readable \subseteq Repo
  BY ReadableAreRepos DEF Init
<1> QED
  BY <1>1, <1>2 DEF HealthyInv

LEMMA ServedType ==
  ASSUME world \in World, NEW r \in Repo
  PROVE  world.served[r] \subseteq {"first", "second"}
  BY DEF Surroundings

\* While requests are not at the mercy of the network, the last attempt is answered.
LEMMA LastTryIsAnswered ==
  ASSUME Healthy, NEW x \in Fetcher, LastTry(x)
  PROVE  ~MayReset(x)
  BY DEF Healthy, LastTry, MayReset

LEMMA ListsAreRead ==
  ASSUME CrawlTypeOK, HealthyInv, Healthy, NEW r \in Repo, TaskStep(r)
  PROVE  /\ task'[r] # "raised"
         /\ Deb /\ task'[r] = "second" => "first" \notin world.served[r]
         /\ r \in Readable /\ task'[r] = "done" => r \in answered'
<1> USE DEF CrawlTypeOK, InFirst, Goto
<1>1. CASE Begin(r)
  BY <1>1 DEF Begin
<1>2. CASE Arrives(r)
  <2>1. CASE InFirst(r) /\ ~Deb
    BY <1>2, <2>1 DEF Arrives
  <2>2. CASE ~(InFirst(r) /\ ~Deb)
    <3>1. task'[r] = "done" /\ answered' = answered \cup {r}
      BY <1>2, <2>2 DEF Arrives
    <3> QED
      BY <3>1
  <2> QED
    BY <2>1, <2>2
<1>3. CASE HttpError(r)
  <2>1. /\ task[r] \in {"first", "second"} /\ task[r] \notin world.served[r]
        /\ task'[r] = IF InFirst(r) /\ Deb THEN "second" ELSE "done"
    BY <1>3 DEF HttpError, Active, Healthy
  <2>2. CASE Deb /\ InFirst(r)
    BY <2>1, <2>2
  <2>3. CASE Deb /\ ~InFirst(r)
    <3>1. task[r] = "second" /\ "first" \notin world.served[r] /\ "second" \notin world.served[r]
      BY <2>1, <2>3 DEF HealthyInv
    <3>2. world.served[r] = {}
      BY <3>1, ServedType
    <3> QED
      BY <2>1, <2>3, <3>2 DEF Readable
  <2>4. CASE ~Deb
    BY <2>1, <2>4 DEF Readable
  <2> QED
    BY <2>2, <2>3, <2>4
<1>4. CASE Reset(r)
  <2>1. ~LastTry(r)
    BY <1>4, LastTryIsAnswered DEF Reset, Fetcher
  <2>2. UNCHANGED <<task, answered>> /\ r \in Active
    BY <1>4, <2>1 DEF Reset
  <2> QED
    BY <2>2 DEF HealthyInv, Active
<1> QED
  BY <1>1, <1>2, <1>3, <1>4 DEF TaskStep

LEMMA HealthyNext ==
  ASSUME CrawlTypeOK, TaskInv, HealthyInv, [Next]_vars
  PROVE  HealthyInv'
<1> USE DEF listing, merging
<1>0. world' = world
  BY DEF Next, MainStep, ReadMirror, MirrorFails, ReadPlace, PlaceMissing, PlaceReset, PlacesDone, Submit,
         Merge, Gather, Build, Raise, Shutdown, Return, TaskStep, Begin, Arrives, HttpError, Reset, vars
<1>1. Healthy' = Healthy /\ Deb' = Deb /\ Readable' = Readable
  BY <1>0 DEF Healthy, Deb, Readable, Places, Mirrors
<1> SUFFICES ASSUME Healthy PROVE HealthyInv'
  BY <1>1 DEF HealthyInv
<1>2. /\ pc \notin {"raising", "raised"} /\ \A r \in Repo : task[r] # "raised"
      /\ Deb => \A r \in Repo : task[r] = "second" => "first" \notin world.served[r]
      /\ \A r \in Readable : task[r] \in {"done", "merged", "built"} => r \in answered
  BY DEF HealthyInv
<1>3. CASE ReadMirror \/ ReadPlace \/ PlacesDone \/ Return \/ UNCHANGED vars
  <2>1. UNCHANGED <<task, answered>> /\ pc' \notin {"raising", "raised"}
    BY <1>2, <1>3 DEF ReadMirror, ReadPlace, PlacesDone, Return, AtPlace, vars
  <2> QED
    BY <1>0, <1>1, <1>2, <2>1 DEF HealthyInv
<1>4. CASE MirrorFails \/ Shutdown \/ \E r \in Repo : Raise(r)
  BY <1>2, <1>4 DEF MirrorFails, Shutdown, Raise, Healthy
<1>5. CASE PlaceMissing \/ PlaceReset
  <2>1. pc' = pc
    <3>1. CASE PlaceMissing
      <4>1. Place = {} /\ mirror \in DOMAIN Mirrors /\ i \in DOMAIN Mirrors[mirror]
        BY <3>1, WorldType DEF PlaceMissing, AtPlace, Healthy, CrawlTypeOK
      <4>2. {} \in Places
        BY <4>1 DEF Place, Places
      <4> QED
        BY <3>1, <4>2 DEF PlaceMissing, Healthy
    <3>2. CASE PlaceReset
      BY <3>2, LastTryIsAnswered DEF PlaceReset, Healthy, Fetcher
    <3> QED
      BY <1>5, <3>1, <3>2
  <2>2. UNCHANGED <<task, answered>>
    BY <1>5 DEF PlaceMissing, PlaceReset
  <2> QED
    BY <1>0, <1>1, <1>2, <2>1, <2>2 DEF HealthyInv
<1>6. CASE Submit
  <2>1. pc' = "crawl" /\ answered' = answered /\ \A r \in Repo : task'[r] \in {"queued", "none"}
    BY <1>6 DEF Submit
  <2>2. Readable \subseteq Repo
    BY ReadableAreRepos DEF CrawlTypeOK
  <2> QED
    BY <1>0, <1>1, <1>2, <2>1, <2>2 DEF HealthyInv
<1>7. ASSUME NEW r \in Repo, Merge(r) \/ Gather(r) PROVE HealthyInv'
  <2>1. /\ UNCHANGED <<pc, answered>> /\ task[r] = "done" /\ task'[r] = "merged"
        /\ \A q \in Repo \ {r} : task'[q] = task[q]
    BY <1>7 DEF Merge, Gather, CrawlTypeOK
  <2>2. Readable \subseteq Repo
    BY ReadableAreRepos DEF CrawlTypeOK
  <2> QED
    BY <1>0, <1>1, <1>2, <2>1, <2>2 DEF HealthyInv
<1>8. ASSUME NEW d \in Drel, Build(d) PROVE HealthyInv'
  <2>1. /\ UNCHANGED <<pc, answered>>
        /\ \A r \in Repo : task'[r] = task[r] \/ (task'[r] = "built" /\ task[r] = "merged")
    BY <1>8 DEF Build
  <2>2. Readable \subseteq Repo
    BY ReadableAreRepos DEF CrawlTypeOK
  <2> QED
    BY <1>0, <1>1, <1>2, <2>1, <2>2 DEF HealthyInv
<1>9. ASSUME NEW r \in Repo, TaskStep(r) PROVE HealthyInv'
  <2>1. /\ pc' = pc /\ answered \subseteq answered'
        /\ \A q \in Repo \ {r} : task'[q] = task[q]
        /\ task'[r] \in Busy
    BY <1>9, OneCall DEF CrawlTypeOK
  <2>2. Readable \subseteq Repo
    BY ReadableAreRepos DEF CrawlTypeOK
  <2> QED
    BY <1>0, <1>1, <1>2, <1>9, <2>1, <2>2, ListsAreRead DEF HealthyInv, Busy
<1> QED
  BY <1>3, <1>4, <1>5, <1>6, <1>7, <1>8, <1>9 DEF Next, MainStep

\* The places of the mirrors before the one that is being listed, and those before
\* the place where the loop is, have their repositories in the list.
ListedUpTo(m) == \A n \in DOMAIN Mirrors : n < m => \A p \in DOMAIN Mirrors[n] : Mirrors[n][p] \subseteq Found

FoundInv ==
    /\ Found \subseteq UNION Places
    /\ Healthy =>
         /\ ListedUpTo(mirror)
         /\ pc = "place" => \A p \in DOMAIN Mirrors[mirror] : p < i => Mirrors[mirror][p] \subseteq Found
         /\ pc \in {"crawl", "returned"} => UNION Places \subseteq Found

LEMMA FoundInit == Init => FoundInv
<1> SUFFICES ASSUME Init PROVE FoundInv
  OBVIOUS
<1>1. Found = {} /\ pc = "mirror" /\ mirror = 1
  BY DEF Init, Found
<1>2. \A n \in DOMAIN Mirrors : ~(n < mirror)
  BY <1>1, WorldType DEF Init
<1> QED
  BY <1>1, <1>2 DEF FoundInv, ListedUpTo

\* An order of a set has all of it.
LEMMA OrdersCover ==
  ASSUME NEW S, IsFiniteSet(S), NEW s \in Orders(S)
  PROVE  s \in Seq(S) /\ {s[n] : n \in DOMAIN s} = S
<1> DEFINE c == Cardinality(S)
<1>1. c \in Nat /\ IsFiniteSet(1..c) /\ Cardinality(1..c) = c
  BY FS_CardinalityType, FS_Interval
<1>2. s \in [1..c -> S] /\ \A a, b \in 1..c : s[a] = s[b] => a = b
  BY DEF Orders
<1>3. s \in Injection(1..c, S)
  BY <1>2 DEF Injection, IsInjective
<1>4. s \in Surjection(1..c, S)
  BY <1>1, <1>3, FS_Injection
<1>5. \A x \in S : \E n \in 1..c : s[n] = x
  BY <1>4 DEF Surjection
<1>6. DOMAIN s = 1..c
  BY <1>2
<1>7. s \in Seq(S)
  BY <1>1, <1>2
<1> QED
  BY <1>2, <1>5, <1>6, <1>7

LEMMA ReadPlaceFinds ==
  ASSUME CrawlTypeOK, ReadPlace
  PROVE  Found' = Found \cup Place /\ Place \in Places
<1>1. mirror \in DOMAIN Mirrors /\ i \in DOMAIN Mirrors[mirror]
  BY WorldType DEF ReadPlace, AtPlace, CrawlTypeOK
<1>2. Place \in Places
  BY <1>1 DEF Place, Places
<1>3. Place \subseteq Repo
  BY <1>2, ReadableAreRepos DEF CrawlTypeOK
<1>4. PICK s \in Orders(Place) : found' = found \o s
  BY DEF ReadPlace
<1>5. s \in Seq(Place) /\ {s[n] : n \in DOMAIN s} = Place
  BY <1>3, <1>4, FS_Subset, OrdersCover
<1>6. found \in Seq(Repo) /\ s \in Seq(Repo)
  BY <1>3, <1>5 DEF CrawlTypeOK
<1>7. /\ \A n \in DOMAIN found : n \in DOMAIN found' /\ found'[n] = found[n]
      /\ \A n \in DOMAIN s : n + Len(found) \in DOMAIN found' /\ found'[n + Len(found)] = s[n]
      /\ \A n \in DOMAIN found' : \/ n \in DOMAIN found
                                  \/ n - Len(found) \in DOMAIN s /\ found'[n] = s[n - Len(found)]
  BY <1>4, <1>6
<1>8. \A x : (\E n \in DOMAIN found' : found'[n] = x)
                <=> (\E n \in DOMAIN found : found[n] = x) \/ (\E n \in DOMAIN s : s[n] = x)
  BY <1>6, <1>7
<1>9. \A x : x \in Found' <=> x \in Found \/ x \in {s[n] : n \in DOMAIN s}
  BY <1>8 DEF Found
<1> HIDE DEF Found
<1> QED
  BY <1>2, <1>5, <1>9

LEMMA FoundNext ==
  ASSUME CrawlTypeOK, TaskInv, FoundInv, [Next]_vars
  PROVE  FoundInv'
<1> USE DEF listing, merging
<1>0. world' = world
  BY DEF Next, MainStep, ReadMirror, MirrorFails, ReadPlace, PlaceMissing, PlaceReset, PlacesDone, Submit,
         Merge, Gather, Build, Raise, Shutdown, Return, TaskStep, Begin, Arrives, HttpError, Reset, vars
<1>1. Healthy' = Healthy /\ Mirrors' = Mirrors /\ Places' = Places
  BY <1>0 DEF Healthy, Places, Mirrors
<1>2. Mirrors \in Seq(Seq(SUBSET Repo)) /\ mirror \in Nat \ {0} /\ i \in Nat \ {0}
  BY WorldType DEF CrawlTypeOK
<1>3. CASE ReadMirror
  <2>1. /\ UNCHANGED <<found, mirror>> /\ pc' = "place" /\ i' = 1 /\ mirror \in DOMAIN Mirrors
    BY <1>2, <1>3 DEF ReadMirror
  <2>2. \A p \in DOMAIN Mirrors[mirror] : ~(p < i')
    BY <1>2, <2>1
  <2> QED
    BY <1>1, <2>1, <2>2 DEF FoundInv, ListedUpTo, Found
<1>4. CASE ReadPlace
  <2>1. Found' = Found \cup Place /\ Place \in Places
    BY <1>4, ReadPlaceFinds
  <2>2. /\ UNCHANGED <<mirror, pc>> /\ i' = i + 1 /\ pc = "place"
        /\ mirror \in DOMAIN Mirrors /\ Mirrors[mirror] \in Seq(SUBSET Repo)
    BY <1>2, <1>4 DEF ReadPlace, AtPlace, NextPlace, CrawlTypeOK
  <2>3. \A p \in DOMAIN Mirrors[mirror] : p < i' => p < i \/ p = i
    BY <1>2, <2>2
  <2> QED
    BY <1>1, <2>1, <2>2, <2>3 DEF FoundInv, ListedUpTo, Place
<1>5. CASE PlaceMissing \/ PlaceReset
  <2>1. UNCHANGED <<found, mirror>> /\ pc = "place"
    BY <1>5 DEF PlaceMissing, PlaceReset, AtPlace
  <2>2. ASSUME Healthy PROVE pc' = pc /\ (i' = i \/ (i' = i + 1 /\ Place = {}))
    <3>1. CASE PlaceMissing
      <4>1. Place = {} /\ mirror \in DOMAIN Mirrors /\ i \in DOMAIN Mirrors[mirror]
        BY <2>2, <3>1, WorldType DEF PlaceMissing, AtPlace, Healthy, CrawlTypeOK
      <4>2. {} \in Places
        BY <4>1 DEF Place, Places
      <4> QED
        BY <2>2, <3>1, <4>1, <4>2 DEF PlaceMissing, NextPlace, Healthy
    <3>2. CASE PlaceReset
      BY <2>2, <3>2, LastTryIsAnswered DEF PlaceReset, Healthy, Fetcher
    <3> QED
      BY <1>5, <3>1, <3>2
  <2>3. mirror \in DOMAIN Mirrors /\ Mirrors[mirror] \in Seq(SUBSET Repo)
    BY <1>2, <2>1 DEF CrawlTypeOK
  <2>4. ASSUME Healthy, NEW p \in DOMAIN Mirrors[mirror], p < i' PROVE Mirrors[mirror][p] \subseteq Found
    <3>1. p < i \/ (p = i /\ Place = {})
      BY <1>2, <2>2, <2>3, <2>4
    <3> QED
      BY <2>1, <2>4, <3>1 DEF FoundInv, Place
  <2>5. Found' = Found
    BY <2>1 DEF Found
  <2> QED
    BY <1>1, <2>1, <2>2, <2>4, <2>5 DEF FoundInv, ListedUpTo
<1>6. CASE PlacesDone
  <2>1. /\ UNCHANGED found /\ pc = "place" /\ pc' = "mirror" /\ mirror' = mirror + 1
        /\ i > Len(Mirrors[mirror]) /\ mirror \in DOMAIN Mirrors
    BY <1>2, <1>6 DEF PlacesDone, CrawlTypeOK
  <2>2. Mirrors[mirror] \in Seq(SUBSET Repo)
    BY <1>2, <2>1
  <2>3. \A p \in DOMAIN Mirrors[mirror] : p < i
    BY <1>2, <2>1, <2>2
  <2>4. \A n \in DOMAIN Mirrors : n < mirror' => n < mirror \/ n = mirror
    BY <1>2, <2>1
  <2>5. Healthy => \A n \in DOMAIN Mirrors : n < mirror' => \A p \in DOMAIN Mirrors[n] : Mirrors[n][p] \subseteq Found
    BY <2>1, <2>3, <2>4 DEF FoundInv, ListedUpTo
  <2>6. Found' = Found
    BY <2>1 DEF Found
  <2> QED
    BY <1>1, <2>1, <2>5, <2>6 DEF FoundInv, ListedUpTo
<1>7. CASE Submit
  <2>1. /\ UNCHANGED <<found, mirror>> /\ pc' = "crawl" /\ mirror > Len(Mirrors)
    BY <1>7 DEF Submit
  <2>2. \A n \in DOMAIN Mirrors : n < mirror
    BY <1>2, <2>1
  <2>3. Healthy => UNION Places \subseteq Found
    BY <2>2 DEF FoundInv, ListedUpTo, Places
  <2>4. Found' = Found
    BY <2>1 DEF Found
  <2> QED
    BY <1>1, <2>1, <2>3, <2>4 DEF FoundInv, ListedUpTo
<1>8. CASE \/ MirrorFails \/ Shutdown \/ Return \/ UNCHANGED vars
           \/ (\E r \in Repo : Merge(r) \/ Gather(r) \/ Raise(r) \/ TaskStep(r)) \/ (\E d \in Drel : Build(d))
  <2>1. /\ UNCHANGED <<found, mirror, i>>
        /\ pc' = pc \/ pc' \in {"raised", "raising"} \/ (pc = "crawl" /\ pc' = "returned")
    BY <1>8 DEF MirrorFails, Shutdown, Return, vars, Merge, Gather, Raise, Build, TaskStep, Begin, Arrives,
                HttpError, Reset
  <2>2. Found' = Found
    BY <2>1 DEF Found
  <2> QED
    BY <1>1, <2>1, <2>2 DEF FoundInv, ListedUpTo
<1> QED
  BY <1>3, <1>4, <1>5, <1>6, <1>7, <1>8 DEF Next, MainStep

(***************************************************************************)
(* The pool of a Debian release is made of the lists of it that were read, *)
(* and when the release is built its tree is in the result.                *)
(***************************************************************************)
Gathered(d) == {q \in answered : DrelOf[q] = d /\ task[q] \in {"merged", "built"}}

PoolHas(d) ==
    /\ DOMAIN pool[d] = UNION {DOMAIN IndexIn(world, q) : q \in Gathered(d)}
    /\ \A x \in DOMAIN pool[d] : \E q \in Gathered(d) : Lists(q, x) /\ pool[d][x] = IndexIn(world, q)[x]
    /\ \A q \in Gathered(d) : Wanted(IndexIn(world, q), world.filter) \subseteq wanted[d]

BuiltAll(d) ==
    (\E q \in Found : DrelOf[q] = d /\ task[q] = "built") =>
        /\ \A q \in Found : DrelOf[q] = d => task[q] = "built"
        /\ \A v \in DOMAIN DebTree(pool[d], wanted[d]) :
               DebTree(pool[d], wanted[d])[v] \subseteq At(tree, <<d, v>>)

PoolInv == ~Pooled => \A d \in Drel : PoolHas(d) /\ BuiltAll(d)

LEMMA PoolInit == Init => PoolInv
<1> SUFFICES ASSUME Init, NEW d \in Drel PROVE PoolHas(d) /\ BuiltAll(d)
  BY DEF PoolInv
<1>1. Gathered(d) = {} /\ DOMAIN pool[d] = {} /\ Found = {}
  BY DEF Init, Gathered, NoIndex, Found
<1> QED
  BY <1>1 DEF PoolHas, BuiltAll

LEMMA PoolKept ==
  ASSUME PoolInv, UNCHANGED <<world, pool, wanted, tree>>,
         \A d \in Drel : Gathered(d)' = Gathered(d),
         \A q \in Found' : task'[q] = "built" => q \in Found /\ task[q] = "built",
         \A q \in Found : task[q] = "built" => task'[q] = "built",
         (\E q \in Found : task[q] = "built") => Found' = Found
  PROVE  PoolInv'
<1> SUFFICES ASSUME ~Pooled, NEW d \in Drel PROVE PoolHas(d)' /\ BuiltAll(d)'
  BY DEF PoolInv, Pooled
<1>1. PoolHas(d) /\ BuiltAll(d)
  BY DEF PoolInv
<1>2. PoolHas(d)'
  BY <1>1 DEF PoolHas, IndexIn, Lists
<1>3. BuiltAll(d)'
  BY <1>1 DEF BuiltAll, At
<1> QED
  BY <1>2, <1>3

LEMMA GatherKeepsPool ==
  ASSUME CrawlTypeOK, TaskInv, PoolInv, NEW r \in Repo, Gather(r)
  PROVE  PoolInv'
<1> DEFINE index == IF r \in answered THEN IndexIn(world, r) ELSE NoIndex
           d == DrelOf[r]
<1>1. /\ ~Pooled /\ pc = "crawl" /\ task[r] = "done" /\ UNCHANGED <<world, pc, found, answered, tree>>
      /\ task' = [task EXCEPT ![r] = "merged"]
      /\ pool' = [pool EXCEPT ![d] = [n \in DOMAIN @ \cup DOMAIN index |->
                                         IF n \in DOMAIN index THEN index[n] ELSE @[n]]]
      /\ wanted' = [wanted EXCEPT ![d] = @ \cup Wanted(index, world.filter)]
  BY DEF Gather, listing
<1>2. d \in Drel /\ d \in DOMAIN pool /\ d \in DOMAIN wanted /\ r \in Found /\ Found' = Found
  BY <1>1 DEF CrawlTypeOK, TaskInv, Found
<1>3. task'[r] = "merged" /\ \A q \in Repo \ {r} : task'[q] = task[q]
  BY <1>1 DEF CrawlTypeOK
<1>4. /\ \A x \in Drel \ {d} : Gathered(x)' = Gathered(x)
      /\ r \in answered => Gathered(d)' = Gathered(d) \cup {r}
      /\ r \notin answered => Gathered(d)' = Gathered(d)
  BY <1>1, <1>3 DEF Gathered, CrawlTypeOK
<1>5. world' = world
  BY <1>1
<1> SUFFICES ASSUME NEW x \in Drel PROVE PoolHas(x)' /\ BuiltAll(x)'
  BY <1>1 DEF PoolInv, Pooled
<1>6. PoolHas(x) /\ BuiltAll(x)
  BY <1>1 DEF PoolInv
<1>7. CASE x # d
  <2>1. pool'[x] = pool[x] /\ wanted'[x] = wanted[x] /\ Gathered(x)' = Gathered(x)
    BY <1>1, <1>4, <1>7
  <2>2. PoolHas(x)'
    BY <1>5, <1>6, <2>1 DEF PoolHas, Lists, IndexIn
  <2>3. \A q \in Found : DrelOf[q] = x => task'[q] = task[q]
    BY <1>3, <1>7 DEF Found, CrawlTypeOK
  <2>4. BuiltAll(x)'
    BY <1>1, <1>2, <1>6, <2>1, <2>3 DEF BuiltAll, At
  <2> QED
    BY <2>2, <2>4
<1>8. CASE x = d
  <2>1. ~\E q \in Found : DrelOf[q] = d /\ task[q] = "built"
    BY <1>1, <1>2, <1>6, <1>8 DEF BuiltAll
  <2>2. \A q \in Found : DrelOf[q] = d => task'[q] # "built"
    BY <1>3, <2>1 DEF Found, CrawlTypeOK
  <2>3. BuiltAll(d)'
    BY <1>2, <2>2 DEF BuiltAll
  <2>4. pool'[d] = [n \in DOMAIN pool[d] \cup DOMAIN index |-> IF n \in DOMAIN index THEN index[n] ELSE pool[d][n]]
    BY <1>1, <1>2
  <2>5. wanted'[d] = wanted[d] \cup Wanted(index, world.filter)
    BY <1>1, <1>2
  <2>6. CASE r \in answered
    <3>1. index = IndexIn(world, r)
      BY <2>6
    <3> HIDE DEF index
    <3>2. DOMAIN pool'[d] = UNION {DOMAIN IndexIn(world, q) : q \in Gathered(d)'}
      BY <1>4, <1>6, <1>8, <2>4, <2>6, <3>1 DEF PoolHas
    <3>3. ASSUME NEW n \in DOMAIN pool'[d]
          PROVE  \E q \in Gathered(d)' : Lists(q, n) /\ pool'[d][n] = IndexIn(world, q)[n]
      BY <1>4, <1>6, <1>8, <2>4, <2>6, <3>1 DEF PoolHas, Lists
    <3>4. \A q \in Gathered(d)' : Wanted(IndexIn(world, q), world.filter) \subseteq wanted'[d]
      BY <1>4, <1>6, <1>8, <2>5, <2>6, <3>1 DEF PoolHas
    <3>5. PoolHas(d)'
      BY <1>5, <3>2, <3>3, <3>4 DEF PoolHas, Lists, IndexIn
    <3> QED
      BY <1>8, <2>3, <3>5
  <2>7. CASE r \notin answered
    <3>1. DOMAIN index = {}
      BY <2>7 DEF NoIndex
    <3> HIDE DEF index
    <3>2. DOMAIN pool'[d] = DOMAIN pool[d] /\ \A n \in DOMAIN pool[d] : pool'[d][n] = pool[d][n]
      BY <2>4, <3>1
    <3>3. Gathered(d)' = Gathered(d) /\ wanted[d] \subseteq wanted'[d]
      BY <1>4, <2>5, <2>7
    <3>4. PoolHas(d)'
      BY <1>5, <1>6, <1>8, <3>2, <3>3 DEF PoolHas, Lists, IndexIn
    <3> QED
      BY <1>8, <2>3, <3>4
  <2> QED
    BY <2>6, <2>7
<1> QED
  BY <1>7, <1>8

LEMMA BuildKeepsPool ==
  ASSUME CrawlTypeOK, PoolInv, NEW d \in Drel, Build(d)
  PROVE  PoolInv'
<1> DEFINE repos == {r \in Found : DrelOf[r] = d}
           more == DebTree(pool[d], wanted[d])
<1>1. /\ ~Pooled /\ UNCHANGED <<world, found, answered, pool, wanted>>
      /\ repos # {} /\ \A r \in repos : task[r] = "merged"
      /\ tree' = Updated(tree, d, more)
      /\ task' = [r \in Repo |-> IF r \in repos THEN "built" ELSE task[r]]
  BY DEF Build, listing
<1>2. Found \subseteq Repo /\ Found' = Found
  BY <1>1 DEF Found, CrawlTypeOK
<1>3. \A x \in Drel : Gathered(x)' = Gathered(x)
  BY <1>1, <1>2 DEF Gathered, CrawlTypeOK
<1>4. \A k : At(tree, k) \subseteq At(tree', k)
  BY <1>1 DEF Updated, At
<1>5. \A v \in DOMAIN more : more[v] \subseteq At(tree', <<d, v>>)
  <2> SUFFICES ASSUME NEW v \in DOMAIN more PROVE more[v] \subseteq At(tree', <<d, v>>)
    OBVIOUS
  <2>1. <<d, v>> \in DOMAIN tree'
    BY <1>1 DEF Updated
  <2>2. tree'[<<d, v>>] = At(tree, <<d, v>>) \cup At(more, v)
    BY <1>1, <2>1 DEF Updated
  <2> QED
    BY <2>1, <2>2 DEF At
<1> SUFFICES ASSUME NEW x \in Drel PROVE PoolHas(x)' /\ BuiltAll(x)'
  BY <1>1 DEF PoolInv, Pooled
<1>6. PoolHas(x) /\ BuiltAll(x)
  BY <1>1 DEF PoolInv
<1>7. PoolHas(x)'
  BY <1>1, <1>3, <1>6 DEF PoolHas, IndexIn, Lists
<1>8. BuiltAll(x)'
  <2>1. CASE x = d
    <3>1. \A q \in Found : DrelOf[q] = d => task'[q] = "built"
      BY <1>1, <1>2
    <3> QED
      BY <1>1, <1>2, <1>5, <2>1, <3>1 DEF BuiltAll
  <2>2. CASE x # d
    <3>1. \A q \in Found : DrelOf[q] = x => task'[q] = task[q]
      BY <1>1, <1>2, <2>2
    <3>2. DebTree(pool[x], wanted[x])' = DebTree(pool[x], wanted[x])
      BY <1>1
    <3> QED
      BY <1>2, <1>4, <1>6, <3>1, <3>2 DEF BuiltAll
  <2> QED
    BY <2>1, <2>2
<1> QED
  BY <1>7, <1>8

LEMMA PoolNext ==
  ASSUME CrawlTypeOK, TaskInv, PoolInv, [Next]_vars
  PROVE  PoolInv'
<1> USE DEF listing, merging
<1>1. CASE ReadMirror \/ MirrorFails \/ ReadPlace \/ PlaceMissing \/ PlaceReset \/ PlacesDone \/ Submit
  <2>1. /\ pc \in {"mirror", "place"} /\ UNCHANGED <<world, answered, pool, wanted, tree>>
        /\ task' = task \/ \A r \in Repo : task'[r] \in {"queued", "none"}
    BY <1>1 DEF ReadMirror, MirrorFails, ReadPlace, PlaceMissing, PlaceReset, PlacesDone, Submit, AtPlace
  <2>2. \A r \in Repo : task[r] = "none" /\ task'[r] \in {"queued", "none"}
    BY <2>1 DEF TaskInv
  <2>3. Found \subseteq Repo /\ Found' \subseteq Repo
    BY <1>1, CrawlTypeNext DEF CrawlTypeOK, Found
  <2>4. \A d \in Drel : Gathered(d)' = Gathered(d)
    BY <2>1, <2>2 DEF Gathered, CrawlTypeOK
  <2> QED
    BY <2>1, <2>2, <2>3, <2>4, PoolKept
<1>2. CASE \E r \in Repo : Merge(r)
  BY <1>2 DEF Merge, PoolInv, Pooled
<1>3. CASE \E r \in Repo : Gather(r)
  BY <1>3, GatherKeepsPool
<1>4. CASE \E d \in Drel : Build(d)
  BY <1>4, BuildKeepsPool
<1>5. ASSUME NEW r \in Repo, TaskStep(r) PROVE PoolInv'
  <2>1. /\ UNCHANGED <<world, found, pool, wanted, tree>>
        /\ task[r] \in {"queued", "first", "second"} /\ task'[r] \in Busy
        /\ \A q \in Repo \ {r} : task'[q] = task[q]
        /\ answered \subseteq answered' /\ answered' \subseteq answered \cup {r}
    BY <1>5, OneCall DEF CrawlTypeOK
  <2>2. Found \subseteq Repo /\ Found' = Found
    BY <2>1 DEF Found, CrawlTypeOK
  <2>3. \A d \in Drel : Gathered(d)' = Gathered(d)
    BY <2>1 DEF Gathered, CrawlTypeOK, Busy
  <2> QED
    BY <2>1, <2>2, <2>3, PoolKept DEF Busy
<1>6. CASE Shutdown \/ Return \/ (\E r \in Repo : Raise(r)) \/ UNCHANGED vars
  <2>1. UNCHANGED <<world, found, task, answered, pool, wanted, tree>>
    BY <1>6 DEF Shutdown, Return, Raise, vars
  <2> QED
    BY <2>1, PoolKept DEF Gathered, Found
<1> QED
  BY <1>1, <1>2, <1>3, <1>4, <1>5, <1>6 DEF Next, MainStep

\* A list that was read is one that is served.
AnsweredInv == \A r \in answered : world.served[r] # {}

LEMMA AnsweredNext == CrawlTypeOK /\ AnsweredInv /\ [Next]_vars => AnsweredInv'
<1> SUFFICES ASSUME CrawlTypeOK, AnsweredInv, [Next]_vars PROVE AnsweredInv'
  OBVIOUS
<1> USE DEF listing, merging
<1>1. ASSUME NEW r \in Repo, Arrives(r) PROVE AnsweredInv'
  BY <1>1 DEF Arrives, AnsweredInv
<1>2. CASE \/ MainStep \/ UNCHANGED vars
           \/ \E r \in Repo : Begin(r) \/ HttpError(r) \/ Reset(r)
  <2>1. UNCHANGED <<world, answered>>
    BY <1>2 DEF MainStep, ReadMirror, MirrorFails, ReadPlace, PlaceMissing, PlaceReset, PlacesDone, Submit,
                Merge, Gather, Build, Raise, Shutdown, Return, Begin, HttpError, Reset, vars
  <2> QED
    BY <2>1 DEF AnsweredInv
<1> QED
  BY <1>1, <1>2 DEF Next, TaskStep

(***************************************************************************)
(* A kernel with all it needs, in the lists that are seen together.        *)
(***************************************************************************)
LEMMA IndexNames ==
  ASSUME world \in World, NEW q \in Repo
  PROVE  DOMAIN IndexIn(world, q) \subseteq Name
<1>1. world.lists[q] \in Seq(Entry)
  BY WorldType
<1>2. \A e \in DOMAIN world.lists[q] : world.lists[q][e] \in Entry
  BY <1>1
<1>3. \A e \in DOMAIN world.lists[q] : world.lists[q][e].name \in Name
  BY <1>2 DEF Entry
<1> QED
  BY <1>3 DEF IndexIn, Index

\* Whatever index is made of lists that agree on what a package needs, it needs the
\* same in the index and in the lists.
LEMMA NeededInTogether ==
  ASSUME world \in World, NEW r, Together(r) \subseteq Repo, NEW index,
         DOMAIN index = UNION {DOMAIN IndexIn(world, q) : q \in Together(r)},
         \A x \in DOMAIN index : \E q \in Together(r) : Lists(q, x) /\ index[x] = IndexIn(world, q)[x],
         NEW h, Complete(r, h)
  PROVE  DebNeeded(index, h) = NeededTogether(r, h) /\ NeededTogether(r, h) \subseteq DOMAIN index
<1> DEFINE one   == [x \in DOMAIN index |-> index[x].depends \cap KernelName]
           names == {y \in Name : \E q \in Together(r) : Lists(q, y)}
           Said(x) == (UNION {IndexIn(world, q)[x].depends : q \in {p \in Together(r) : Lists(p, x)}}) \cap KernelName
           other == [x \in names |-> Said(x)]
<1>1. DebNeeded(index, h) = Needed(one, h) /\ NeededTogether(r, h) = Needed(other, h)
  BY DEF DebNeeded, NeededTogether
<1>2. DOMAIN index = names
  <2>1. \A y : y \in DOMAIN index <=> \E q \in Together(r) : Lists(q, y)
    BY DEF Lists
  <2>2. \A y : (\E q \in Together(r) : Lists(q, y)) => y \in Name
    BY IndexNames DEF Lists
  <2> QED
    BY <2>1, <2>2
<1>3. ASSUME NEW x \in Needed(other, h)
      PROVE  x \in names /\ one[x] = other[x]
  <2>1. PICK q \in Together(r) :
          Lists(q, x) /\ \A p \in Together(r) : Lists(p, x) => SaysOf(p, x) = SaysOf(q, x)
    BY <1>1, <1>3 DEF Complete
  <2>2. x \in DOMAIN index
    BY <2>1 DEF Lists
  <2>3. \A p \in Together(r) : Lists(p, x) =>
            IndexIn(world, p)[x].depends \cap KernelName = IndexIn(world, q)[x].depends \cap KernelName
    BY <2>1 DEF SaysOf
  <2>4. Said(x) = IndexIn(world, q)[x].depends \cap KernelName
    BY <2>1, <2>3
  <2>5. index[x].depends \cap KernelName = IndexIn(world, q)[x].depends \cap KernelName
    BY <2>2, <2>3
  <2> QED
    BY <1>2, <2>2, <2>4, <2>5
<1>4. Needed(other, h) \subseteq names
  BY <1>3
<1>5. \A x \in Needed(other, h) \cap DOMAIN other : one[x] = other[x]
  BY <1>3
<1>6. DOMAIN one = DOMAIN other
  BY <1>2
<1> HIDE DEF one, other, names
<1>7. Needed(one, h) = Needed(other, h)
  BY <1>5, <1>6, NeededAgrees
<1> QED
  BY <1>1, <1>2, <1>4, <1>7

\* Each package that a healthy crawl can read is read when it returns.
LEMMA AllAreRead ==
  ASSUME CrawlTypeOK, TaskInv, HealthyInv, FoundInv, Healthy, pc = "returned", NEW r \in Readable
  PROVE  r \in Repo /\ r \in Found /\ r \in answered /\ task[r] = IF Pooled THEN "merged" ELSE "built"
<1>1. r \in Repo /\ r \in UNION Places
  BY ReadableAreRepos DEF CrawlTypeOK, Readable
<1>2. r \in Found
  BY <1>1 DEF FoundInv
<1>3. task[r] = IF Pooled THEN "merged" ELSE "built"
  BY <1>1, <1>2 DEF TaskInv
<1> QED
  BY <1>1, <1>2, <1>3 DEF HealthyInv

LEMMA PooledTreeHas ==
  ASSUME TreeIsUnion, Pooled, NEW r \in Repo, task[r] = "merged", r \in answered,
         NEW v \in DOMAIN TreeOf(r)
  PROVE  TreeOf(r)[v] \subseteq At(tree, <<DrelOf[r], v>>)
<1> DEFINE merged == {q \in Repo : task[q] = "merged"}
           k == <<DrelOf[r], v>>
<1>1. /\ DOMAIN tree = UNION {{DrelOf[q]} \X DOMAIN TreeOf(q) : q \in merged}
      /\ \A x \in DOMAIN tree :
             tree[x] = UNION {At(TreeOf(q), x[2]) : q \in {p \in merged : DrelOf[p] = x[1]}}
  BY DEF TreeIsUnion
<1>2. k \in DOMAIN tree
  BY <1>1
<1>3. tree[k] = UNION {At(TreeOf(q), v) : q \in {p \in merged : DrelOf[p] = DrelOf[r]}}
  BY <1>1, <1>2
<1>4. At(TreeOf(r), v) \subseteq tree[k]
  BY <1>3
<1> QED
  BY <1>2, <1>4 DEF At

LEMMA GatheredAll ==
  ASSUME CrawlTypeOK, TaskInv, HealthyInv, FoundInv, AnsweredInv, Healthy, Deb, ~Pooled, pc = "returned", NEW r
  PROVE  Gathered(DrelOf[r]) = Together(r)
<1>1. ASSUME NEW q \in Gathered(DrelOf[r]) PROVE q \in Together(r)
  <2>1. q \in answered /\ q \in Repo /\ DrelOf[q] = DrelOf[r] /\ task[q] # "none"
    BY <1>1 DEF Gathered, CrawlTypeOK
  <2>2. q \in Found
    BY <2>1 DEF TaskInv
  <2>3. q \in UNION Places /\ world.served[q] # {}
    BY <2>1, <2>2 DEF FoundInv, AnsweredInv
  <2> QED
    BY <2>1, <2>3 DEF Together, Readable
<1>2. ASSUME NEW q \in Together(r) PROVE q \in Gathered(DrelOf[r])
  <2>1. q \in Readable /\ DrelOf[q] = DrelOf[r]
    BY <1>2 DEF Together
  <2> QED
    BY <2>1, AllAreRead DEF Gathered
<1> QED
  BY <1>1, <1>2

\* Headers that are asked for come with all they need in the tree of any index that
\* is made of the lists seen together, if they are wanted.
LEMMA IndexTreeIsComplete ==
  ASSUME world \in World, NEW r, Together(r) \subseteq Repo, r \in Together(r), NEW index, NEW names,
         DOMAIN index = UNION {DOMAIN IndexIn(world, q) : q \in Together(r)},
         \A x \in DOMAIN index : \E q \in Together(r) : Lists(q, x) /\ index[x] = IndexIn(world, q)[x],
         Named(index), NEW h \in HeadersName \cap KernelName, Lists(r, h), Complete(r, h), h \in names,
         NEW n \in NeededTogether(r, h)
  PROVE  /\ IndexIn(world, r)[h].version \in DOMAIN DebTree(index, names)
         /\ \E u \in DebTree(index, names)[IndexIn(world, r)[h].version] : u.name = n
<1>1. DebNeeded(index, h) = NeededTogether(r, h) /\ NeededTogether(r, h) \subseteq DOMAIN index
  BY NeededInTogether
<1>2. h \in NeededTogether(r, h)
  BY NeedsItself DEF NeededTogether
<1>3. h \in DOMAIN index /\ index[h].version = IndexIn(world, r)[h].version
  <2>1. PICK q \in Together(r) :
          Lists(q, h) /\ \A p \in Together(r) : Lists(p, h) => SaysOf(p, h) = SaysOf(q, h)
    BY <1>2 DEF Complete
  <2>2. \A p \in Together(r) : Lists(p, h) => IndexIn(world, p)[h].version = IndexIn(world, q)[h].version
    BY <2>1 DEF SaysOf
  <2>3. h \in DOMAIN index
    BY DEF Lists
  <2> QED
    BY <2>2, <2>3
<1> QED
  BY <1>1, <1>3, TreeHasTheNeeded

LEMMA HealthyDebIsComplete ==
  ASSUME CrawlTypeOK, TaskInv, TreeIsUnion, HalfInv, HealthyInv, FoundInv, AnsweredInv, PoolInv,
         Healthy, Deb, pc = "returned", NEW r \in Readable,
         NEW h \in HeadersName \cap KernelName \cap DOMAIN IndexIn(world, r), Asked(h), Complete(r, h),
         {ModulesOf[h], ImageOf[h]} \cap DOMAIN IndexIn(world, r) # {},
         NEW n \in NeededTogether(r, h)
  PROVE  \E u \in At(tree, <<DrelOf[r], IndexIn(world, r)[h].version>>) : u.name = n
<1> DEFINE index == IndexIn(world, r)
           d == DrelOf[r]
           v == index[h].version
<1>1. r \in Repo /\ r \in Found /\ r \in answered /\ task[r] = IF Pooled THEN "merged" ELSE "built"
  BY AllAreRead
<1>2. world \in World /\ d \in Drel /\ Together(r) \subseteq Repo /\ r \in Together(r)
  BY <1>1, ReadableAreRepos DEF Together, CrawlTypeOK
<1>3. h \in Wanted(index, world.filter)
  <2>1. \A x, y \in world.filter.release : x = y
    BY <1>2
  <2>2. world.filter = NoFilter \/ (world.filter.exact = {} /\ h \in world.filter.release)
    BY DEF Asked
  <2> HIDE DEF index
  <2>3. h \in DOMAIN index /\ {ModulesOf[h], ImageOf[h]} \cap DOMAIN index # {}
    BY DEF index
  <2> QED
    BY <2>1, <2>2, <2>3, HeadersAreWanted
<1>4. CASE Pooled
  <2>1. TreeOf(r) = DebTree(index, Wanted(index, world.filter))
    BY <1>1, <1>2 DEF TreeOf, Trees, Deb
  <2>2. Together(r) = {r}
    BY <1>4 DEF Together
  <2>3. Named(index)
    BY IndexIsNamed DEF IndexIn
  <2>4. /\ DOMAIN index = UNION {DOMAIN IndexIn(world, q) : q \in Together(r)}
        /\ \A x \in DOMAIN index : \E q \in Together(r) : Lists(q, x) /\ index[x] = IndexIn(world, q)[x]
    BY <2>2 DEF Lists
  <2>5. Lists(r, h)
    BY DEF Lists
  <2>6. v \in DOMAIN TreeOf(r) /\ \E u \in TreeOf(r)[v] : u.name = n
    BY <1>2, <1>3, <2>1, <2>3, <2>4, <2>5, IndexTreeIsComplete
  <2>7. TreeOf(r)[v] \subseteq At(tree, <<d, v>>)
    BY <1>1, <1>4, <2>6, PooledTreeHas
  <2> QED
    BY <2>6, <2>7
<1>5. CASE ~Pooled
  <2>1. PoolHas(d) /\ BuiltAll(d) /\ Named(pool[d])
    BY <1>2, <1>5 DEF PoolInv, HalfInv
  <2>2. Gathered(d) = Together(r)
    BY <1>5, GatheredAll
  <2>3. h \in wanted[d]
    BY <1>2, <1>3, <2>1, <2>2 DEF PoolHas
  <2>4. Lists(r, h)
    BY DEF Lists
  <2>5. v \in DOMAIN DebTree(pool[d], wanted[d]) /\ \E u \in DebTree(pool[d], wanted[d])[v] : u.name = n
    BY <1>2, <2>1, <2>2, <2>3, <2>4, IndexTreeIsComplete DEF PoolHas
  <2>6. DebTree(pool[d], wanted[d])[v] \subseteq At(tree, <<d, v>>)
    BY <1>1, <1>5, <2>1, <2>5 DEF BuiltAll
  <2> QED
    BY <2>5, <2>6
<1> QED
  BY <1>4, <1>5

LEMMA HealthyRpmIsComplete ==
  ASSUME CrawlTypeOK, TaskInv, TreeIsUnion, HealthyInv, FoundInv,
         Healthy, ~Deb, pc = "returned", NEW r \in Readable,
         NEW n \in Root \cap DOMAIN IndexIn(world, r), world.filter = NoFilter
  PROVE  \E u \in At(tree, <<DrelOf[r], IndexIn(world, r)[n].version>>) :
             u.name = n /\ u.version = IndexIn(world, r)[n].version
<1> DEFINE index == IndexIn(world, r)
           v == index[n].version
           roots == {x \in Root \cap DOMAIN index : world.filter = NoFilter \/ x \in world.filter.exact}
           under == UNION {RpmNeeded(index, x) : x \in {y \in roots : index[y].version = v}}
<1>1. Pooled /\ r \in Repo /\ r \in answered /\ task[r] = "merged"
  BY AllAreRead DEF Pooled, Deb
<1>2. TreeOf(r) = RpmTree(index, world.filter)
  BY <1>1 DEF TreeOf, Trees, Deb, CrawlTypeOK
<1>3. index[n].url.name = n /\ index[n].url.version = v
  BY DEF IndexIn, Index
<1> HIDE DEF index
<1>4. n \in DOMAIN index
  BY DEF index
<1>5. n \in RpmNeeded(index, n)
  BY <1>4, NeedsItself DEF RpmNeeded
<1>6. n \in roots
  BY <1>4
<1>7. n \in under
  BY <1>5, <1>6
<1>8. v \in DOMAIN TreeOf(r) /\ TreeOf(r)[v] = {index[x].url : x \in under}
  BY <1>2, <1>6 DEF RpmTree
<1>9. index[n].url \in TreeOf(r)[v]
  BY <1>7, <1>8
<1>10. TreeOf(r)[v] \subseteq At(tree, <<DrelOf[r], v>>)
  BY <1>1, <1>8, PooledTreeHas
<1> QED
  BY <1>3, <1>9, <1>10 DEF index

LEMMA HealthyComplete ==
  CrawlTypeOK /\ TaskInv /\ TreeIsUnion /\ HalfInv /\ HealthyInv /\ FoundInv /\ AnsweredInv /\ PoolInv
    => HealthyCrawlIsComplete
<1> SUFFICES ASSUME CrawlTypeOK, TaskInv, TreeIsUnion, HalfInv, HealthyInv, FoundInv, AnsweredInv, PoolInv,
                    Healthy
             PROVE  HealthyCrawlIsComplete
  BY DEF HealthyCrawlIsComplete
<1>1. pc \notin {"raising", "raised"}
  BY DEF HealthyInv
<1>2. CASE Deb
  BY <1>1, <1>2, HealthyDebIsComplete DEF HealthyCrawlIsComplete
<1>3. CASE ~Deb
  BY <1>1, <1>3, HealthyRpmIsComplete DEF HealthyCrawlIsComplete
<1> QED
  BY <1>2, <1>3

\* A crawl whose requests are answered in the end misses no place, no list and no
\* kernel: what a list of Debian or Ubuntu, or the lists of one Debian release
\* together, have with all it needs, and every kernel of an RPM repository, is in
\* the tree that it returns.
THEOREM HealthyCrawlsAreComplete == Spec => []HealthyCrawlIsComplete
<1>1. CrawlTypeOK /\ TaskInv /\ [Next]_vars => TaskInv'
  BY TaskNext
<1>2. CrawlTypeOK /\ TaskInv /\ HalfInv /\ [Next]_vars => HalfInv'
  BY HalfNext
<1>3. CrawlTypeOK /\ TaskInv /\ HealthyInv /\ [Next]_vars => HealthyInv'
  BY HealthyNext
<1>4. CrawlTypeOK /\ TaskInv /\ FoundInv /\ [Next]_vars => FoundInv'
  BY FoundNext
<1>5. CrawlTypeOK /\ AnsweredInv /\ [Next]_vars => AnsweredInv'
  BY AnsweredNext
<1>6. CrawlTypeOK /\ TaskInv /\ PoolInv /\ [Next]_vars => PoolInv'
  BY PoolNext
<1>7. Init => AnsweredInv
  BY DEF Init, AnsweredInv
<1> QED
  BY <1>1, <1>2, <1>3, <1>4, <1>5, <1>6, <1>7, TaskInit, HalfInit, HealthyInit, FoundInit, PoolInit,
     HealthyComplete, CrawlTypeCorrect, TreeIsAlwaysUnion, PTL DEF Spec

-----------------------------------------------------------------------------
(***************************************************************************)
(* The crawl inside Batching is this crawl, so that what is proved of it   *)
(* holds before, during and after the kernels are batched.                 *)
(***************************************************************************)
LEMMA BatchStepKeepsCrawl == BatchStep => UNCHANGED vars
  BY DEF BatchStep, BatchRpm, BatchDebian, BatchUbuntu, UnexpectedVersion,
         LocalDebian, LocalCentos, LocalUbuntu, Batch, Fails

\* crawl() of the builders adds nothing to crawl_kernels but what it does with the
\* result, so what is proved of Spec holds of BatchSpec.
LEMMA BatchingCrawls == BatchSpec => Spec
<1>1. BatchInit => Init
  BY DEF BatchInit
<1>2. [BatchNext]_allVars => [Next]_vars
  BY BatchStepKeepsCrawl DEF BatchNext, Crawling, allVars
<1> QED
  BY <1>1, <1>2, PTL DEF BatchSpec, Spec

-----------------------------------------------------------------------------
(***************************************************************************)
(* The batches.  First what is in a tree, whoever made it.                 *)
(***************************************************************************)
LEMMA NeededAreKernels ==
  ASSUME NEW index, NEW n \in KernelName, NEW x \in DebNeeded(index, n)
  PROVE  x \in KernelName
<1> DEFINE graph == [y \in DOMAIN index |-> index[y].depends \cap KernelName]
           all   == {n} \cup DOMAIN graph \cup UNION {graph[y] : y \in DOMAIN graph}
           S     == all \cap KernelName
<1>1. S \in SUBSET all /\ n \in S /\ Closed(graph, S)
  BY DEF Closed
<1>2. x \in Needed(graph, n)
  BY DEF DebNeeded
<1> QED
  BY <1>1, <1>2 DEF Needed

LEMMA DebTreeUrls ==
  ASSUME NEW index, NEW names,
         NEW v \in DOMAIN DebTree(index, names), NEW u \in DebTree(index, names)[v]
  PROVE  \E n \in names :
             /\ n \in KernelName \cap DOMAIN index /\ index[n].version = v
             /\ \E x \in DebNeeded(index, n) : x \in KernelName \cap DOMAIN index /\ u = index[x].url
<1>1. DebTree(index, names)[v] = UNION {UrlsOf(index, n) : n \in {x \in names : index[x].version = v}}
  BY DEF DebTree
<1>2. PICK n \in names : index[n].version = v /\ u \in UrlsOf(index, n)
  BY <1>1
<1>3. /\ n \in KernelName /\ DebNeeded(index, n) \subseteq DOMAIN index
      /\ UrlsOf(index, n) = {index[x].url : x \in DebNeeded(index, n)}
  BY <1>2 DEF UrlsOf
<1>4. PICK x \in DebNeeded(index, n) : u = index[x].url
  BY <1>2, <1>3
<1>5. n \in DebNeeded(index, n)
  BY NeedsItself DEF DebNeeded
<1>6. x \in KernelName
  BY <1>3, NeededAreKernels
<1> QED
  BY <1>2, <1>3, <1>4, <1>5, <1>6

LEMMA RpmTreeUrls ==
  ASSUME NEW index, NEW filter, NEW v \in DOMAIN RpmTree(index, filter), NEW u \in RpmTree(index, filter)[v]
  PROVE  \E x \in DOMAIN index : u = index[x].url
<1> DEFINE roots == {n \in Root \cap DOMAIN index : filter = NoFilter \/ n \in filter.exact}
           under == UNION {RpmNeeded(index, n) : n \in {r \in roots : index[r].version = v}}
<1>1. RpmTree(index, filter)[v] = {index[x].url : x \in under}
  BY DEF RpmTree
<1>2. under \subseteq DOMAIN index
  BY DEF RpmNeeded
<1> HIDE DEF under
<1> QED
  BY <1>1, <1>2

LEMMA PooledUrls ==
  ASSUME TreeIsUnion, Pooled, NEW k \in DOMAIN tree, NEW u \in tree[k]
  PROVE  \E r \in answered : r \in Repo /\ k[2] \in DOMAIN Trees[world][r] /\ u \in Trees[world][r][k[2]]
<1>1. tree[k] = UNION {At(TreeOf(r), k[2]) : r \in {q \in {p \in Repo : task[p] = "merged"} : DrelOf[q] = k[1]}}
  BY DEF TreeIsUnion
<1>2. PICK r \in Repo : u \in At(TreeOf(r), k[2])
  BY <1>1
<1>3. k[2] \in DOMAIN TreeOf(r) /\ u \in TreeOf(r)[k[2]]
  BY <1>2 DEF At
<1> QED
  BY <1>3 DEF TreeOf, NoTree

\* A URL has the name and the version of its package.
Stamped(index) == \A n \in DOMAIN index : index[n].url.name = n /\ index[n].url.version = index[n].version

LEMMA ListsAreStamped ==
  ASSUME NEW r
  PROVE  Stamped(IndexIn(world, r))
  BY DEF Stamped, IndexIn, Index

LEMMA PoolIsStamped ==
  ASSUME ~Pooled, PoolInv, NEW d \in Drel
  PROVE  Stamped(pool[d])
  BY ListsAreStamped DEF PoolInv, PoolHas, Stamped, Lists

\* The file of a package that comes with another one.
LEMMA NeedsHaveFiles ==
  ASSUME NEW index, Stamped(index), NEW k, NEW u, ComesWithItsNeeds(index, tree[k], u),
         NEW x \in DebNeeded(index, u.name)
  PROVE  x \in DOMAIN index /\ [name |-> x, version |-> index[x].version] \in FilesAt(k)
<1>1. x \in DOMAIN index /\ index[x].url \in tree[k]
  BY DEF ComesWithItsNeeds
<1>2. index[x].url.name = x /\ index[x].url.version = index[x].version
  BY <1>1 DEF Stamped
<1> QED
  BY <1>1, <1>2 DEF FilesAt

(***************************************************************************)
(* Debian's tree has under each version what was built for it, and it is   *)
(* finite, so that the builder comes to every version.                     *)
(***************************************************************************)
BuiltFrom(k) ==
    /\ k[1] \in Drel /\ k = <<k[1], k[2]>>
    /\ \A r \in Found : DrelOf[r] = k[1] => task[r] = "built"
    /\ k[2] \in DOMAIN DebTree(pool[k[1]], wanted[k[1]])
    /\ tree[k] = DebTree(pool[k[1]], wanted[k[1]])[k[2]]

BuiltInv ==
    ~Pooled =>
        /\ IsFiniteSet(DOMAIN tree)
        /\ \A d \in Drel : IsFiniteSet(wanted[d])
        /\ pc \in {"mirror", "place"} => DOMAIN tree = {}
        /\ \A k \in DOMAIN tree : BuiltFrom(k)

LEMMA BuiltInit == Init => BuiltInv
<1> SUFFICES ASSUME Init PROVE DOMAIN tree = {} /\ \A d \in Drel : wanted[d] = {}
  BY FS_EmptySet DEF BuiltInv
<1> QED
  BY DEF Init

LEMMA ImageIsFinite ==
  ASSUME NEW S, IsFiniteSet(S), NEW f, DOMAIN f = S, NEW T, T = {f[x] : x \in S}, f \in [S -> T]
  PROVE  IsFiniteSet(T)
<1>1. f \in Surjection(S, T)
  BY DEF Surjection
<1> QED
  BY <1>1, FS_Surjection

LEMMA WantedIsFinite ==
  ASSUME world \in World, NEW r \in Repo
  PROVE  IsFiniteSet(Wanted(IndexIn(world, r), world.filter))
<1> DEFINE list == world.lists[r]
           index == IndexIn(world, r)
<1>1. list \in Seq(Entry)
  BY WorldType
<1>2. IsFiniteSet(DOMAIN list)
  <2>1. DOMAIN list = 1..Len(list) /\ Len(list) \in Nat
    BY <1>1
  <2> QED
    BY <2>1, FS_Interval
<1>3. IsFiniteSet({list[e].name : e \in DOMAIN list})
  <2> HIDE DEF list
  <2> DEFINE f == [e \in DOMAIN list |-> list[e].name]
             T == {list[e].name : e \in DOMAIN list}
  <2>1. DOMAIN f = DOMAIN list /\ T = {f[e] : e \in DOMAIN list} /\ f \in [DOMAIN list -> T]
    OBVIOUS
  <2> HIDE DEF f, T
  <2>2. IsFiniteSet(T)
    BY <1>2, <2>1, ImageIsFinite
  <2> QED
    BY <2>2 DEF T
<1>4. DOMAIN index = {list[e].name : e \in DOMAIN list}
  BY DEF IndexIn, Index
<1>5. Wanted(index, world.filter) \subseteq DOMAIN index
  <2> HIDE DEF index
  <2>1. Listed(index) \subseteq DOMAIN index
    BY DEF Listed
  <2> QED
    BY <2>1 DEF Wanted
<1> QED
  BY <1>3, <1>4, <1>5, FS_Subset

LEMMA GatherKeepsBuilt ==
  ASSUME CrawlTypeOK, TaskInv, BuiltInv, NEW r \in Repo, Gather(r)
  PROVE  BuiltInv'
<1> DEFINE index == IF r \in answered THEN IndexIn(world, r) ELSE NoIndex
           d == DrelOf[r]
<1>1. /\ ~Pooled /\ pc = "crawl" /\ task[r] = "done" /\ UNCHANGED <<world, pc, found, tree>>
      /\ task' = [task EXCEPT ![r] = "merged"]
      /\ \A x \in Drel \ {d} : pool'[x] = pool[x] /\ wanted'[x] = wanted[x]
      /\ wanted'[d] = wanted[d] \cup Wanted(index, world.filter)
  BY DEF Gather, listing, CrawlTypeOK
<1>2. r \in Found /\ Found' = Found /\ d \in Drel
  BY <1>1 DEF TaskInv, Found
<1>3. IsFiniteSet(Wanted(index, world.filter))
  <2>1. CASE r \in answered
    BY <2>1, WantedIsFinite DEF CrawlTypeOK
  <2>2. CASE r \notin answered
    <3>1. index = NoIndex
      BY <2>2
    <3>2. Wanted(NoIndex, world.filter) = {}
      <4>1. DOMAIN NoIndex = {}
        BY DEF NoIndex
      <4>2. Listed(NoIndex) = {}
        BY <4>1 DEF Listed
      <4> QED
        BY <4>1, <4>2 DEF Wanted
    <3> QED
      BY <3>1, <3>2, FS_EmptySet
  <2> QED
    BY <2>1, <2>2
<1>4. \A x \in Drel : IsFiniteSet(wanted'[x])
  <2> HIDE DEF index
  <2>1. IsFiniteSet(wanted'[d])
    <3>1. IsFiniteSet(wanted[d])
      BY <1>1, <1>2 DEF BuiltInv
    <3> HIDE DEF d
    <3>2. IsFiniteSet(wanted[d] \cup Wanted(index, world.filter))
      BY <1>3, <3>1, FS_Union
    <3> QED
      BY <1>1, <3>2
  <2> QED
    BY <1>1, <2>1 DEF BuiltInv
<1>5. ASSUME NEW k \in DOMAIN tree PROVE BuiltFrom(k)'
  <2>1. BuiltFrom(k)
    BY <1>1 DEF BuiltInv
  <2>2. k[1] # d /\ k[1] \in Drel
    BY <1>1, <1>2, <2>1 DEF BuiltFrom
  <2>3. pool'[k[1]] = pool[k[1]] /\ wanted'[k[1]] = wanted[k[1]]
    BY <1>1, <2>2
  <2>4. \A q \in Found : DrelOf[q] = k[1] => task'[q] = "built"
    BY <1>1, <2>1, <2>2 DEF BuiltFrom, CrawlTypeOK
  <2>5. tree' = tree
    BY <1>1
  <2> QED
    BY <1>2, <2>1, <2>3, <2>4, <2>5 DEF BuiltFrom
<1> QED
  BY <1>1, <1>4, <1>5 DEF BuiltInv, Pooled

LEMMA BuildKeepsBuilt ==
  ASSUME CrawlTypeOK, BuiltInv, NEW d \in Drel, Build(d)
  PROVE  BuiltInv'
<1> DEFINE repos == {r \in Found : DrelOf[r] = d}
           more == DebTree(pool[d], wanted[d])
<1>1. /\ ~Pooled /\ pc = "crawl" /\ UNCHANGED <<world, pc, found, pool, wanted>>
      /\ repos # {} /\ \A r \in repos : task[r] = "merged"
      /\ tree' = Updated(tree, d, more)
      /\ task' = [r \in Repo |-> IF r \in repos THEN "built" ELSE task[r]]
  BY DEF Build, listing
<1>2. Found \subseteq Repo /\ Found' = Found
  BY <1>1 DEF Found, CrawlTypeOK
<1>3. DOMAIN tree' = DOMAIN tree \cup ({d} \X DOMAIN more)
  BY <1>1 DEF Updated
<1>4. \A k \in DOMAIN tree : k[1] # d /\ BuiltFrom(k)
  BY <1>1 DEF BuiltInv, BuiltFrom
<1>5. ASSUME NEW k \in DOMAIN tree' PROVE BuiltFrom(k)'
  <2>1. tree'[k] = At(tree, k) \cup (IF k[1] = d THEN At(more, k[2]) ELSE {})
    BY <1>1, <1>3 DEF Updated
  <2>2. CASE k \in DOMAIN tree
    <3>1. tree'[k] = tree[k]
      BY <1>4, <2>1, <2>2 DEF At
    <3>2. \A q \in Found : DrelOf[q] = k[1] => task'[q] = "built"
      BY <1>1, <1>2, <1>4, <2>2 DEF BuiltFrom
    <3> QED
      BY <1>1, <1>2, <1>4, <2>2, <3>1, <3>2 DEF BuiltFrom
  <2>3. CASE k \notin DOMAIN tree
    <3>1. k \in {d} \X DOMAIN more
      BY <1>3, <2>3
    <3>2. k = <<k[1], k[2]>> /\ k[1] = d /\ k[2] \in DOMAIN more
      BY <3>1
    <3>3. tree'[k] = more[k[2]]
      BY <2>1, <2>3, <3>2 DEF At
    <3>4. \A q \in Found : DrelOf[q] = k[1] => task'[q] = "built"
      BY <1>1, <1>2, <3>2
    <3> QED
      BY <1>1, <1>2, <3>2, <3>3, <3>4 DEF BuiltFrom
  <2> QED
    BY <2>2, <2>3
<1>6. IsFiniteSet(DOMAIN tree')
  <2>1. DOMAIN more \subseteq {pool[d][x].version : x \in wanted[d]}
    BY DEF DebTree
  <2>2. IsFiniteSet(wanted[d])
    BY <1>1 DEF BuiltInv
  <2>3. IsFiniteSet({pool[d][x].version : x \in wanted[d]})
    <3> DEFINE f == [x \in wanted[d] |-> pool[d][x].version]
               T == {pool[d][x].version : x \in wanted[d]}
    <3>1. DOMAIN f = wanted[d] /\ T = {f[x] : x \in wanted[d]} /\ f \in [wanted[d] -> T]
      OBVIOUS
    <3> HIDE DEF f, T
    <3>2. IsFiniteSet(T)
      BY <2>2, <3>1, ImageIsFinite
    <3> QED
      BY <3>2 DEF T
  <2>4. IsFiniteSet(DOMAIN more)
    BY <2>1, <2>3, FS_Subset
  <2> HIDE DEF more
  <2>5. IsFiniteSet({d} \X DOMAIN more)
    BY <2>4, FS_Singleton, FS_Product
  <2>6. IsFiniteSet(DOMAIN tree)
    BY <1>1 DEF BuiltInv
  <2>7. IsFiniteSet(DOMAIN tree \cup ({d} \X DOMAIN more))
    BY <2>5, <2>6, FS_Union
  <2> QED
    BY <1>3, <2>7
<1> QED
  BY <1>1, <1>5, <1>6 DEF BuiltInv, Pooled

LEMMA BuiltNext ==
  ASSUME CrawlTypeOK, TaskInv, BuiltInv, [Next]_vars
  PROVE  BuiltInv'
<1> USE DEF listing, merging
<1>1. CASE ReadMirror \/ MirrorFails \/ ReadPlace \/ PlaceMissing \/ PlaceReset \/ PlacesDone \/ Submit
  <2>1. pc \in {"mirror", "place"} /\ UNCHANGED <<world, pool, wanted, tree>>
    BY <1>1 DEF ReadMirror, MirrorFails, ReadPlace, PlaceMissing, PlaceReset, PlacesDone, Submit, AtPlace
  <2> QED
    BY <2>1 DEF BuiltInv, Pooled
<1>2. CASE \E r \in Repo : Merge(r)
  BY <1>2 DEF Merge, BuiltInv, Pooled
<1>3. CASE \E r \in Repo : Gather(r)
  BY <1>3, GatherKeepsBuilt
<1>4. CASE \E d \in Drel : Build(d)
  BY <1>4, BuildKeepsBuilt
<1>5. ASSUME NEW r \in Repo, TaskStep(r) PROVE BuiltInv'
  <2>1. UNCHANGED <<world, pc, found, pool, wanted, tree>> /\ task[r] # "built"
    BY <1>5, OneCall
  <2>2. \A q \in Repo : task[q] = "built" => task'[q] = "built"
    BY <1>5, <2>1, OneCall DEF CrawlTypeOK
  <2>3. Found \subseteq Repo /\ Found' = Found
    BY <2>1 DEF Found, CrawlTypeOK
  <2> QED
    BY <2>1, <2>2, <2>3 DEF BuiltInv, BuiltFrom, Pooled
<1>6. CASE Shutdown \/ Return \/ (\E r \in Repo : Raise(r)) \/ UNCHANGED vars
  <2>1. UNCHANGED <<world, found, task, pool, wanted, tree>> /\ (pc' \in {"mirror", "place"} => pc' = pc)
    BY <1>6 DEF Shutdown, Return, Raise, vars
  <2> QED
    BY <2>1 DEF BuiltInv, BuiltFrom, Pooled, Found
<1> QED
  BY <1>1, <1>2, <1>3, <1>4, <1>5, <1>6 DEF Next, MainStep

(***************************************************************************)
(* The kernels that the builders make of the tree.                         *)
(***************************************************************************)
KernelFor(k, f) ==
    \E kernel \in kernels', needs \in NeededNames(k[1], f) :
        /\ kernel.drel = k[1] /\ kernel.release = ReleaseOf(f) /\ f \in kernel.files
        /\ Has(kernel, needs)

LEMMA UbuntuKernels ==
  ASSUME CrawlTypeOK, TreeIsUnion, NoHalfDependencies, ListsAreNamed, BatchUbuntu,
         NEW k \in DOMAIN tree, NEW f \in FilesAt(k), f.name \in HeadersName, f.version \in Numbered
  PROVE  KernelFor(k, f)
<1>1. /\ world.distro = "ubuntu" /\ Deb /\ Pooled /\ pc = "returned" /\ world \in World
      /\ kernels' = UNION {{[drel |-> x[1], release |-> b[1], files |-> b[2]] : b \in UbuntuBatches(FilesAt(x))} :
                               x \in DOMAIN tree}
  BY DEF BatchUbuntu, Crawled, Batch, Deb, Pooled, CrawlTypeOK
<1>2. PICK u \in tree[k] : f.name = u.name /\ f.version = u.version
  BY DEF FilesAt
<1>3. PICK r \in answered : DrelOf[r] = k[1] /\ ComesWithItsNeeds(IndexIn(world, r), tree[k], u)
  BY <1>1 DEF NoHalfDependencies
<1> DEFINE index == IndexIn(world, r)
           needs == DebNeeded(index, f.name)
           read  == WithVersion(FilesAt(k))
           own   == {g \in read : g.name \in Flavoured}
           files == {g \in own : ReleaseOf(g) = ReleaseOf(f)} \cup (read \ own)
           kernel == [drel |-> k[1], release |-> ReleaseOf(f), files |-> files]
<1>4. Stamped(index)
  BY ListsAreStamped
<1>5. f.name \in DOMAIN index /\ index[f.name].version = f.version
  BY <1>2, <1>3, <1>4 DEF ComesWithItsNeeds, Stamped
<1>6. f.name \in KernelName
  <2>1. PICK q \in answered : q \in Repo /\ k[2] \in DOMAIN Trees[world][q] /\ u \in Trees[world][q][k[2]]
    BY <1>1, PooledUrls
  <2>2. Trees[world][q] = DebTree(IndexIn(world, q), Wanted(IndexIn(world, q), world.filter))
    BY <1>1, <2>1 DEF Trees
  <2>3. PICK x \in KernelName \cap DOMAIN IndexIn(world, q) : u = IndexIn(world, q)[x].url
    BY <2>1, <2>2, DebTreeUrls
  <2>4. u.name = x
    BY <2>3, ListsAreStamped DEF Stamped
  <2> QED
    BY <1>2, <2>3, <2>4
<1>7. needs \in NeededNames(k[1], f)
  BY <1>1, <1>3, <1>5 DEF NeededNames, Lists
<1>8. /\ OwnRelease(index, f.name) /\ f.name \in Flavoured
      /\ \A x \in needs \cap DOMAIN index : index[x].version \in Numbered
  BY <1>1, <1>5, <1>6 DEF ListsAreNamed, NamesAreParsed, NamedAsUbuntu, Headers
<1> HIDE DEF index
<1>9. f \in own
  BY <1>8 DEF WithVersion
<1>10. <<ReleaseOf(f), files>> \in UbuntuBatches(FilesAt(k))
  BY <1>9 DEF UbuntuBatches
<1>11. kernel \in kernels'
  <2> HIDE DEF files
  <2>1. \A b \in UbuntuBatches(FilesAt(k)) : [drel |-> k[1], release |-> b[1], files |-> b[2]] \in kernels'
    BY <1>1
  <2> QED
    BY <1>10, <2>1
<1>12. Has(kernel, needs)
  <2> SUFFICES ASSUME NEW x \in needs PROVE \E g \in files : g.name = x
    BY DEF Has
  <2> DEFINE g == [name |-> x, version |-> index[x].version]
  <2>1. x \in DOMAIN index /\ g \in FilesAt(k)
    BY <1>2, <1>3, <1>4, NeedsHaveFiles DEF index
  <2>2. g \in read /\ g.name = x
    BY <1>8, <2>1 DEF WithVersion
  <2>3. x \in Flavoured => ReleaseOf(g) = ReleaseOf(f)
    BY <1>8 DEF OwnRelease, ReleaseOf
  <2>4. g \in files
    BY <2>2, <2>3
  <2> QED
    BY <2>2, <2>4
<1>13. f \in kernel.files
  BY <1>9
<1> QED
  BY <1>7, <1>11, <1>12, <1>13 DEF KernelFor

\* Under each version of Debian's tree are the packages of releases of that version
\* only: what is of a release comes there for its own release.
LEMMA OneVersion ==
  ASSUME ~Pooled, PoolInv, BuiltInv, NEW k \in DOMAIN tree, NamedAsDebian(pool[k[1]]), NEW g \in FilesAt(k)
  PROVE  /\ g.name \in KernelName \cap DOMAIN pool[k[1]]
         /\ g.name \in Flavoured => g.version = k[2] /\ pool[k[1]][g.name].version = k[2]
<1> DEFINE index == pool[k[1]]
           names == wanted[k[1]]
<1>1. /\ k[1] \in Drel /\ k[2] \in DOMAIN DebTree(index, names)
      /\ tree[k] = DebTree(index, names)[k[2]]
  BY DEF BuiltInv, BuiltFrom
<1>2. PICK u \in tree[k] : g.name = u.name /\ g.version = u.version
  BY DEF FilesAt
<1>3. Stamped(index)
  BY <1>1, PoolIsStamped
<1> HIDE DEF index, names
<1>4. PICK n \in names :
        /\ n \in KernelName \cap DOMAIN index /\ index[n].version = k[2]
        /\ \E x \in DebNeeded(index, n) : x \in KernelName \cap DOMAIN index /\ u = index[x].url
  BY <1>1, <1>2, DebTreeUrls
<1>5. PICK x \in DebNeeded(index, n) : x \in KernelName \cap DOMAIN index /\ u = index[x].url
  BY <1>4
<1>6. g.name = x /\ g.version = index[x].version
  BY <1>2, <1>3, <1>5 DEF Stamped
<1>7. ASSUME x \in Flavoured PROVE index[x].version = k[2]
  <2>1. n \in Flavoured /\ NameRelease(x) = NameRelease(n)
    BY <1>4, <1>5, <1>7 DEF NamedAsDebian, OwnRelease, index
  <2>2. index[x].version = index[n].version
    BY <1>4, <1>5, <1>7, <2>1 DEF NamedAsDebian, index
  <2> QED
    BY <1>4, <2>2
<1> QED
  BY <1>5, <1>6, <1>7 DEF index

\* The kbuild package that headers need is the one that is picked.
LEMMA KbuildIsPicked ==
  ASSUME NEW index, NEW files, NEW kbuild \in LastKbuild(files), NEW h \in Flavoured,
         NEW x, KbuildOf(index, h, x), NamesAreParsed,
         \A g \in files : g.name \in DOMAIN index, NEW f \in files, f.name = x
  PROVE  \E g \in KbuildFor(kbuild, AbiOf[h]) : g.name = x
<1>1. /\ DOMAIN kbuild = {AbiOf[g.name] : g \in {e \in files : e.name \in Kbuild}}
      /\ \A a \in DOMAIN kbuild : kbuild[a] \in files /\ kbuild[a].name \in Kbuild /\ AbiOf[kbuild[a].name] = a
  BY DEF LastKbuild
<1>2. x \in Kbuild /\ AbiOf[x] \in DOMAIN kbuild
  BY <1>1 DEF KbuildOf
<1>3. kbuild[AbiOf[x]].name = x
  BY <1>1, <1>2 DEF NamesAreParsed
<1>4. CASE AbiOf[x] = AbiOf[h]
  BY <1>2, <1>3, <1>4 DEF KbuildFor
<1>5. CASE AbiOf[x] # AbiOf[h]
  <2>1. AbiOf[x] = MinorOf[AbiOf[h]] /\ \A y \in Kbuild \cap DOMAIN index : AbiOf[y] # AbiOf[h]
    BY <1>5 DEF KbuildOf
  <2>2. AbiOf[h] \notin DOMAIN kbuild
    BY <1>1, <2>1
  <2> QED
    BY <1>2, <1>3, <2>1, <2>2 DEF KbuildFor
<1> QED
  BY <1>4, <1>5

LEMMA DebianKernels ==
  ASSUME CrawlTypeOK, NoHalfDependencies, PoolInv, BuiltInv, ListsAreNamed, BatchDebian,
         NEW k \in DOMAIN tree, NEW f \in FilesAt(k), f.name \in HeadersName
  PROVE  KernelFor(k, f)
<1>1. world.distro = "debian" /\ Deb /\ ~Pooled /\ pc = "returned"
  BY DEF BatchDebian, Crawled, Deb, Pooled
<1>2. PICK order \in Orders(DOMAIN tree),
           kbuild \in [DOMAIN tree -> UNION {LastKbuild(FilesAt(x)) : x \in DOMAIN tree}] :
        LET Batches(n)   == DebianBatches(FilesAt(order[n]), kbuild[order[n]])
            Last(n, rel) == \A m \in DOMAIN order :
                m > n /\ order[m][1] = order[n][1] => rel \notin DOMAIN Batches(m)
        IN  /\ \A x \in DOMAIN tree : kbuild[x] \in LastKbuild(FilesAt(x))
            /\ Batch(UNION {{[drel |-> order[n][1], release |-> rel, files |-> Batches(n)[rel]] :
                                rel \in {x \in DOMAIN Batches(n) : Last(n, x)}} : n \in DOMAIN order})
  BY DEF BatchDebian
<1> DEFINE Batches(n)   == DebianBatches(FilesAt(order[n]), kbuild[order[n]])
           Last(n, rel) == \A m \in DOMAIN order :
               m > n /\ order[m][1] = order[n][1] => rel \notin DOMAIN Batches(m)
           Made(n) == {[drel |-> order[n][1], release |-> rel, files |-> Batches(n)[rel]] :
                          rel \in {x \in DOMAIN Batches(n) : Last(n, x)}}
           index == pool[k[1]]
           h     == f.name
           needs == DebNeeded(index, h)
           rel   == ReleaseOf(f)
<1>3. (\A x \in DOMAIN tree : kbuild[x] \in LastKbuild(FilesAt(x))) /\ kernels' = UNION {Made(n) : n \in DOMAIN order}
  BY <1>2 DEF Batch
<1>4. \A x \in DOMAIN tree : x[1] \in Drel /\ x = <<x[1], x[2]>>
  BY <1>1 DEF BuiltInv, BuiltFrom
<1>5. NamedAsDebian(index) /\ Stamped(index) /\ NamesAreParsed
  BY <1>1, <1>4, PoolIsStamped DEF ListsAreNamed
<1>6. h \in Headers(index) /\ h \in Flavoured /\ f.version = k[2]
  BY <1>1, <1>5, OneVersion DEF Headers, NamesAreParsed
\* The version k is batched, and no later one has a package of the release.
<1>7. PICK n \in DOMAIN order : order[n] = k
  BY <1>1, OrdersCover DEF BuiltInv
<1>8. /\ DOMAIN order = 1..Cardinality(DOMAIN tree)
      /\ \A a, b \in DOMAIN order : a # b => order[a] # order[b]
      /\ \A a \in DOMAIN order : order[a] \in DOMAIN tree
  BY DEF Orders
<1>9. DOMAIN order \subseteq Nat
  BY <1>1, <1>8, FS_CardinalityType DEF BuiltInv
<1>10. \A m \in DOMAIN order :
         DOMAIN Batches(m) = {ReleaseOf(g) : g \in {e \in FilesAt(order[m]) : e.name \in Flavoured}}
  BY DEF DebianBatches
<1>11. rel \in DOMAIN Batches(n)
  BY <1>6, <1>7, <1>10
<1>12. Last(n, rel)
  <2> SUFFICES ASSUME NEW m \in DOMAIN order, m > n, order[m][1] = k[1], rel \in DOMAIN Batches(m)
               PROVE  FALSE
    BY <1>7
  <2>1. PICK g \in FilesAt(order[m]) : g.name \in Flavoured /\ ReleaseOf(g) = rel
    <3>1. DOMAIN Batches(m) = {ReleaseOf(e) : e \in {e \in FilesAt(order[m]) : e.name \in Flavoured}}
      BY DEF DebianBatches
    <3> HIDE DEF Batches
    <3>2. rel \in {ReleaseOf(e) : e \in {e \in FilesAt(order[m]) : e.name \in Flavoured}}
      BY <3>1
    <3> HIDE DEF rel
    <3> QED
      BY <3>2
  <2> HIDE DEF Batches, rel
  <2>2. g.name \in DOMAIN index /\ index[g.name].version = order[m][2]
    <3>1. order[m] \in DOMAIN tree /\ NamedAsDebian(pool[order[m][1]])
      BY <1>5, <1>8
    <3>2. g.name \in DOMAIN pool[order[m][1]] /\ pool[order[m][1]][g.name].version = order[m][2]
      BY <1>1, <2>1, <3>1, OneVersion
    <3> QED
      BY <3>2
  <2>3. h \in DOMAIN index /\ index[h].version = k[2]
    BY <1>1, <1>5, <1>6, OneVersion
  <2>4. order[m][2] = k[2]
    BY <1>5, <1>6, <2>1, <2>2, <2>3 DEF NamedAsDebian, ReleaseOf, rel
  <2>5. order[m] = k
    BY <1>4, <1>8, <2>4
  <2>6. m = n
    BY <1>7, <1>8, <2>5
  <2> QED
    BY <1>9, <2>6
<1> DEFINE own    == {g \in FilesAt(k) : g.name \in Flavoured}
           files  == {g \in own : ReleaseOf(g) = rel}
                       \cup {g \in FilesAt(k) : g.name \in Common /\ AbiOf[g.name] = rel[1]}
                       \cup KbuildFor(kbuild[k], rel[1])
           kernel == [drel |-> k[1], release |-> rel, files |-> files]
<1>13. Batches(n)[rel] = files
  BY <1>7, <1>11 DEF DebianBatches
<1>14. kernel \in kernels'
  <2>1. [drel |-> order[n][1], release |-> rel, files |-> Batches(n)[rel]] \in Made(n)
    BY <1>11, <1>12
  <2> HIDE DEF Made
  <2>2. [drel |-> order[n][1], release |-> rel, files |-> Batches(n)[rel]] \in kernels'
    BY <1>3, <2>1
  <2> HIDE DEF Batches, files, rel
  <2> QED
    BY <1>7, <1>13, <2>2
<1>15. f \in files
  BY <1>6
<1>16. needs \in NeededNames(k[1], f)
  BY <1>1 DEF NeededNames
<1>17. Has(kernel, needs)
  <2> SUFFICES ASSUME NEW x \in needs PROVE \E g \in files : g.name = x
    BY DEF Has
  <2> DEFINE g == [name |-> x, version |-> index[x].version]
  <2>1. PICK u \in tree[k] : u.name = h
    BY DEF FilesAt
  <2>2. ComesWithItsNeeds(index, tree[k], u)
    BY <1>1, <2>1 DEF NoHalfDependencies
  <2>3. x \in DOMAIN index /\ g \in FilesAt(k)
    BY <1>5, <2>1, <2>2, NeedsHaveFiles
  <2>4. OwnRelease(index, h)
    BY <1>5, <1>6 DEF NamedAsDebian, Headers
  <2>5. x \in Flavoured \/ (x \in Common /\ AbiOf[x] = AbiOf[h]) \/ KbuildOf(index, h, x)
    BY <1>5, <1>6 DEF NamedAsDebian
  <2>6. rel[1] = AbiOf[h]
    BY DEF ReleaseOf, NameRelease
  <2>7. CASE x \in Flavoured
    <3>1. ReleaseOf(g) = rel
      BY <2>4, <2>7 DEF OwnRelease, ReleaseOf
    <3> QED
      BY <2>3, <2>7, <3>1
  <2>8. CASE x \in Common /\ AbiOf[x] = AbiOf[h]
    BY <2>3, <2>6, <2>8
  <2>9. CASE KbuildOf(index, h, x)
    <3>1. \A e \in FilesAt(k) : e.name \in DOMAIN index
      BY <1>1, <1>5, OneVersion
    <3>2. kbuild[k] \in LastKbuild(FilesAt(k))
      BY <1>3
    <3>3. \E e \in KbuildFor(kbuild[k], AbiOf[h]) : e.name = x
      BY <1>5, <1>6, <2>3, <2>9, <3>1, <3>2, KbuildIsPicked
    <3> QED
      BY <2>6, <3>3
  <2> QED
    BY <2>5, <2>7, <2>8, <2>9
<1> QED
  BY <1>14, <1>15, <1>16, <1>17 DEF KernelFor

LEMMA NoRpmIsHeaders ==
  ASSUME CrawlTypeOK, TreeIsUnion, ListsAreNamed, ~Deb, NEW k \in DOMAIN tree, NEW f \in FilesAt(k)
  PROVE  f.name \notin HeadersName
<1>1. Pooled /\ world \in World
  BY DEF Pooled, Deb, CrawlTypeOK
<1>2. PICK u \in tree[k] : f.name = u.name
  BY DEF FilesAt
<1>3. PICK r \in answered : r \in Repo /\ k[2] \in DOMAIN Trees[world][r] /\ u \in Trees[world][r][k[2]]
  BY <1>1, <1>2, PooledUrls
<1>4. Trees[world][r] = RpmTree(IndexIn(world, r), world.filter)
  BY <1>1, <1>3 DEF Trees, Deb
<1>5. PICK x \in DOMAIN IndexIn(world, r) : u = IndexIn(world, r)[x].url
  BY <1>3, <1>4, RpmTreeUrls
<1>6. u.name = x
  BY <1>5, ListsAreStamped DEF Stamped
<1> QED
  BY <1>2, <1>5, <1>6 DEF ListsAreNamed

\* A build with local packages does not crawl, and a crawl that is batched is over.
BatchedInv ==
    /\ Local => pc = "mirror" /\ DOMAIN tree = {}
    /\ batch # "none" /\ ~Local => pc = "returned"
    /\ ListsAreNamed => KernelsAreBatched

LEMMA BatchedInit == BatchInit => BatchedInv
<1> SUFFICES ASSUME BatchInit PROVE BatchedInv
  OBVIOUS
<1>1. pc = "mirror" /\ batch = "none" /\ DOMAIN tree = {}
  BY DEF BatchInit, Init
<1> QED
  BY <1>1 DEF BatchedInv, KernelsAreBatched

LEMMA NothingAfterReturn ==
  ASSUME CrawlTypeOK, TaskInv, pc = "returned", Next
  PROVE  FALSE
<1>1. \A r \in Repo : task[r] \in {"none", "merged", "built"}
  BY DEF TaskInv
<1>2. CASE \E r \in Repo : TaskStep(r)
  BY <1>1, <1>2 DEF TaskStep, Begin, Arrives, HttpError, Reset, Active
<1>3. CASE MainStep
  BY <1>3 DEF MainStep, ReadMirror, MirrorFails, ReadPlace, PlaceMissing, PlaceReset, PlacesDone, Submit,
              Merge, Gather, Build, Raise, Shutdown, Return, AtPlace
<1> QED
  BY <1>2, <1>3 DEF Next

LEMMA LocalFilesAreBatched ==
  ASSUME Local, LocalDebian \/ LocalCentos, NEW f \in arguments, f.name \in Flavoured
  PROVE  \E kernel \in kernels' : f \in kernel.files
<1> DEFINE own == {g \in arguments : g.name \in Flavoured}
           rel == ReleaseOf(f)
<1>1. f \in own /\ rel \in {ReleaseOf(g) : g \in own}
  OBVIOUS
<1>2. CASE LocalDebian
  <2>1. PICK kbuild \in LastKbuild(arguments) :
          LET batches == DebianBatches(arguments, kbuild)
          IN  kernels' = {[drel |-> "", release |-> x, files |-> batches[x]] : x \in DOMAIN batches}
    BY <1>2 DEF LocalDebian, Batch
  <2> DEFINE batches == DebianBatches(arguments, kbuild)
  <2>2. rel \in DOMAIN batches /\ f \in batches[rel]
    BY <1>1 DEF DebianBatches
  <2> HIDE DEF batches
  <2>3. [drel |-> "", release |-> rel, files |-> batches[rel]] \in kernels'
    BY <2>1, <2>2 DEF batches
  <2> QED
    BY <2>2, <2>3
<1>3. CASE LocalCentos
  <2>1. kernels' = {[drel |-> "", release |-> x, files |-> {g \in own : ReleaseOf(g) = x}] :
                       x \in {ReleaseOf(g) : g \in own}}
    BY <1>3 DEF LocalCentos, Batch
  <2>2. [drel |-> "", release |-> rel, files |-> {g \in own : ReleaseOf(g) = rel}] \in kernels'
    BY <1>1, <2>1
  <2>3. f \in {g \in own : ReleaseOf(g) = rel}
    BY <1>1
  <2> HIDE DEF own
  <2> QED
    BY <2>2, <2>3
<1> QED
  BY <1>2, <1>3

LEMMA BatchedKept == BatchedInv /\ UNCHANGED allVars => BatchedInv'
<1> SUFFICES ASSUME BatchedInv, UNCHANGED allVars PROVE BatchedInv'
  OBVIOUS
<1>1. UNCHANGED <<world, pc, answered, pool, tree, arguments, batch, kernels>>
  BY DEF allVars, vars, batching
<1>2. ListsAreNamed' => ListsAreNamed
  BY <1>1 DEF ListsAreNamed, NamesAreParsed, Deb, IndexIn
<1>3. KernelsAreBatched => KernelsAreBatched'
  BY <1>1 DEF KernelsAreBatched, FilesAt, NeededNames, Pooled, Lists, IndexIn
<1> QED
  BY <1>1, <1>2, <1>3 DEF BatchedInv, Local

LEMMA BatchStepBatches ==
  ASSUME CrawlTypeOK, TreeIsUnion, NoHalfDependencies, PoolInv, BuiltInv, BatchedInv, BatchStep
  PROVE  BatchedInv'
<1>1. UNCHANGED <<world, pc, answered, pool, tree>>
  BY BatchStepKeepsCrawl DEF vars
<1>2. arguments' = arguments /\ batch = "none" /\ (~Local => pc = "returned")
  BY DEF BatchStep, BatchRpm, BatchDebian, BatchUbuntu, UnexpectedVersion, LocalDebian, LocalCentos, LocalUbuntu,
         Batch, Fails, Crawled, Given
<1>3. ListsAreNamed' => ListsAreNamed
  BY <1>1 DEF ListsAreNamed, NamesAreParsed, Deb, IndexIn
<1>4. ASSUME ListsAreNamed, batch' = "done" PROVE KernelsAreBatched'
  <2>1. ASSUME NEW k \in DOMAIN tree, NEW f \in FilesAt(k),
               f.name \in HeadersName, world.distro = "ubuntu" => f.version \in Numbered
        PROVE  KernelFor(k, f)
    <3>1. ~Local
      BY <2>1 DEF BatchedInv
    <3>2. CASE BatchRpm
      <4>1. ~Deb
        BY <3>2 DEF BatchRpm, Crawled, Deb
      <4> QED
        BY <1>4, <2>1, <4>1, NoRpmIsHeaders
    <3>3. CASE BatchDebian
      BY <1>4, <2>1, <3>3, DebianKernels
    <3>4. CASE BatchUbuntu
      <4>1. world.distro = "ubuntu"
        BY <3>4 DEF BatchUbuntu, Crawled
      <4> QED
        BY <1>4, <2>1, <3>4, <4>1, UbuntuKernels
    <3> QED
      BY <1>4, <3>1, <3>2, <3>3, <3>4 DEF BatchStep, UnexpectedVersion, LocalDebian, LocalCentos, LocalUbuntu,
                                          Given, Fails
  <2>2. ASSUME NEW f \in arguments, f.name \in Flavoured PROVE \E kernel \in kernels' : f \in kernel.files
    <3>1. Local
      BY <2>2 DEF Local
    <3>2. LocalDebian \/ LocalCentos
      BY <1>4, <3>1 DEF BatchStep, BatchRpm, BatchDebian, BatchUbuntu, UnexpectedVersion, LocalUbuntu, Crawled, Fails
    <3> QED
      BY <2>2, <3>1, <3>2, LocalFilesAreBatched
  <2>3. /\ DOMAIN tree' = DOMAIN tree /\ world' = world
        /\ \A k \in DOMAIN tree : FilesAt(k)' = FilesAt(k)
        /\ \A d, f : NeededNames(d, f)' = NeededNames(d, f)
    BY <1>1 DEF FilesAt, NeededNames, Pooled, Lists, IndexIn
  <2>4. \A k \in DOMAIN tree' : \A f \in FilesAt(k)' :
           (f.name \in HeadersName /\ (world'.distro = "ubuntu" => f.version \in Numbered)) =>
               \E kernel \in kernels', needs \in NeededNames(k[1], f)' :
                   /\ kernel.drel = k[1] /\ kernel.release = ReleaseOf(f) /\ f \in kernel.files
                   /\ Has(kernel, needs)
    BY <2>1, <2>3 DEF KernelFor
  <2> QED
    BY <1>2, <2>2, <2>4 DEF KernelsAreBatched
<1>5. KernelsAreBatched' \/ batch' = "done"
  BY DEF KernelsAreBatched
<1> QED
  BY <1>1, <1>2, <1>3, <1>4, <1>5 DEF BatchedInv, Local

LEMMA BatchedNext ==
  ASSUME CrawlTypeOK, TaskInv, TreeIsUnion, NoHalfDependencies, PoolInv, BuiltInv, BatchedInv, [BatchNext]_allVars
  PROVE  BatchedInv'
<1>1. CASE Crawling(Next)
  <2>1. ~Local /\ UNCHANGED <<arguments, batch, kernels>> /\ Next
    BY <1>1 DEF Crawling, batching
  <2>2. batch = "none"
    BY <2>1, NothingAfterReturn DEF BatchedInv
  <2> QED
    BY <2>1, <2>2 DEF BatchedInv, KernelsAreBatched, Local
<1>2. CASE BatchStep
  BY <1>2, BatchStepBatches
<1>3. CASE UNCHANGED allVars
  BY <1>3, BatchedKept
<1> QED
  BY <1>1, <1>2, <1>3 DEF BatchNext

\* However the builders discard what the crawler found of the packages, they find it
\* again by name: of lists that are named as they expect, no kernel is lost and none
\* comes without what it needs, and no local file that is of a release is left out.
THEOREM NamedKernelsAreBatched == BatchSpec => [](ListsAreNamed => KernelsAreBatched)
<1>1. CrawlTypeOK /\ TaskInv /\ [Next]_vars => TaskInv'
  BY TaskNext
<1>2. CrawlTypeOK /\ TaskInv /\ PoolInv /\ [Next]_vars => PoolInv'
  BY PoolNext
<1>3. CrawlTypeOK /\ TaskInv /\ BuiltInv /\ [Next]_vars => BuiltInv'
  BY BuiltNext
<1>4. CrawlTypeOK /\ TaskInv /\ TreeIsUnion /\ NoHalfDependencies /\ PoolInv /\ BuiltInv /\ BatchedInv
        /\ [BatchNext]_allVars => BatchedInv'
  BY BatchedNext
<1>5. BatchedInv => (ListsAreNamed => KernelsAreBatched)
  BY DEF BatchedInv
<1>6. Spec => [](CrawlTypeOK /\ TaskInv /\ TreeIsUnion /\ NoHalfDependencies /\ PoolInv /\ BuiltInv)
  BY <1>1, <1>2, <1>3, TaskInit, PoolInit, BuiltInit, CrawlTypeCorrect, TreeIsAlwaysUnion, DependenciesAreWhole,
     PTL DEF Spec
<1> QED
  BY <1>4, <1>5, <1>6, BatchedInit, BatchingCrawls, PTL DEF BatchSpec

\* So the builders batch a tree that is the union of all lists that were read and in
\* which what a kernel needs is with it, no thread reads on meanwhile, and a healthy
\* build has every kernel that is complete in the lists.
THEOREM WholeTreeIsBatched ==
  BatchSpec => [](TreeIsUnion /\ NoHalfDependencies /\ QuietWhenOver /\ HealthyCrawlIsComplete)
  BY BatchingCrawls, TreeIsAlwaysUnion, DependenciesAreWhole, NothingReadsOn, HealthyCrawlsAreComplete, PTL
=============================================================================
