------------------------------ MODULE Crawler ------------------------------
(***************************************************************************)
(* The crawl of one distribution (kernel_crawler/repo.py, deb.py, rpm.py,  *)
(* debian.py, download.py): list the repositories of each mirror, read the *)
(* package list of each repository, make one tree of it all.               *)
(*                                                                         *)
(* Ubuntu and the RPM distributions read the lists in a pool of threads,   *)
(* and the main thread merges the trees as they complete.  Debian reads    *)
(* the lists of one release after another, in order, since packages of one *)
(* need packages of another.  Requests end with the body, with an HTTP     *)
(* error, or with a connection that is reset, which get_url tries again.   *)
(***************************************************************************)
EXTENDS PackageLists, FiniteSets

CONSTANTS
    Repo,
    Drel, DrelOf,  \* distribution releases, that of each repository
    BaseOf,        \* the URL before the file names in each repository
    World,         \* what the program may meet
    Workers,       \* max_workers, 8 in the program
    Attempts       \* stop_after_attempt, 4 in the program

Main    == "main"
Fetcher == Repo \cup {Main}
Key     == Drel \X Version

\* What the program meets: the options of the command line that say what to crawl;
\* whether requests always work, are reset now and then, or fail at will; on each
\* mirror, for each place that is looked at, the repositories there, none if the
\* place is missing; the list of each repository and which of its files are served.
Surroundings ==
    [distro  : {"ubuntu", "debian", "rpm", "amazon"},
     filter  : [exact : SUBSET Name, release : SUBSET HeadersName, matching : SUBSET Name],
     mood    : {"steady", "resets", "down"},
     mirrors : Seq(Seq(SUBSET Repo)),
     lists   : [Repo -> Seq(Entry)],
     served  : [Repo -> SUBSET {"first", "second"}]]

ASSUME CrawlerAssumption ==
    /\ Main \notin Repo /\ IsFiniteSet(Repo)
    /\ DrelOf \in [Repo -> Drel] /\ BaseOf \in [Repo -> Base]
    /\ World \subseteq Surroundings
    /\ \A w \in World : \A g, h \in w.filter.release : g = h  \* linux-headers-{filter}
    /\ Workers \in Nat \ {0} /\ Attempts \in Nat \ {0}

VARIABLES
    world,
    pc,         \* of the main thread
    mirror, i,  \* the mirror and the place that it lists
    found,      \* the repositories, in order
    task,       \* of each repository: where its call is
    tries,      \* the attempts made at the URL that is being read
    answered,   \* the repositories whose list was read
    pool,       \* all_packages of debian.py, for each release
    wanted,     \* and all_kernel_packages
    tree        \* the result: the URLs of each distribution and kernel release

vars    == <<world, pc, mirror, i, found, task, tries, answered, pool, wanted, tree>>
listing == <<mirror, i, found>>
merging == <<pool, wanted, tree>>

Init ==
    /\ world \in World
    /\ pc = "mirror" /\ mirror = 1 /\ i = 1
    /\ found = <<>>
    /\ task = [r \in Repo |-> "none"]
    /\ tries = [x \in Fetcher |-> 0]
    /\ answered = {}
    /\ pool = [x \in Drel |-> NoIndex] /\ wanted = [x \in Drel |-> {}]
    /\ tree = [k \in {} |-> {}]

Mirrors == world.mirrors
Pooled == world.distro # "debian"
Deb    == world.distro \in {"ubuntu", "debian"}
Found  == {found[n] : n \in DOMAIN found}

\* A reset is possible, and it is the last attempt that it ends.
MayReset(x) == world.mood = "down" \/ (world.mood = "resets" /\ tries[x] + 1 < Attempts)
LastTry(x)  == tries[x] + 1 = Attempts

Retry(x)    == tries' = [tries EXCEPT ![x] = @ + 1]
NextUrl(x)  == tries' = [tries EXCEPT ![x] = 0]

(***************************************************************************)
(* The main thread lists the repositories, mirror after mirror.            *)
(***************************************************************************)
\* The index of the distributions on the mirror is read once (requests.get, not
\* get_url); Amazon has a fixed list of places instead.
ReadMirror ==
    /\ pc = "mirror" /\ mirror <= Len(Mirrors)
    /\ pc' = "place" /\ i' = 1
    /\ UNCHANGED <<world, mirror, found, task, tries, answered, merging>>

MirrorFails ==
    /\ pc = "mirror" /\ mirror <= Len(Mirrors)
    /\ world.mood = "down" /\ world.distro # "amazon"
    /\ pc' = "raised"
    /\ UNCHANGED <<world, listing, task, tries, answered, merging>>

Place     == Mirrors[mirror][i]
AtPlace   == pc = "place" /\ i <= Len(Mirrors[mirror])
NextPlace == i' = i + 1 /\ NextUrl(Main)

\* The components of a place come in the order of a set, which is any.
Orders(S) == {s \in [1..Cardinality(S) -> S] : \A a, b \in DOMAIN s : a # b => s[a] # s[b]}

ReadPlace ==
    /\ AtPlace /\ Place # {}
    /\ \E s \in Orders(Place) : found' = found \o s
    /\ NextPlace
    /\ UNCHANGED <<world, pc, mirror, task, answered, merging>>

\* An HTTP error means that there is nothing at this place; Amazon's lists are
\* expected to be there.
PlaceMissing ==
    /\ AtPlace /\ (Place = {} \/ world.mood = "down")
    /\ IF world.distro = "amazon" THEN pc' = "raised" /\ UNCHANGED <<i, tries>>
                                  ELSE NextPlace /\ UNCHANGED pc
    /\ UNCHANGED <<world, mirror, found, task, answered, merging>>

\* dist_exists of rpm.py asks once, and a place that does not answer is missing.
PlaceReset ==
    /\ AtPlace
    /\ CASE world.distro = "rpm" -> world.mood = "down" /\ NextPlace /\ UNCHANGED pc
         [] world.distro # "rpm" /\ ~LastTry(Main) -> MayReset(Main) /\ Retry(Main) /\ UNCHANGED <<pc, i>>
         [] OTHER -> MayReset(Main) /\ pc' = "raised" /\ UNCHANGED <<i, tries>>
    /\ UNCHANGED <<world, mirror, found, task, answered, merging>>

PlacesDone ==
    /\ pc = "place" /\ i > Len(Mirrors[mirror])
    /\ pc' = "mirror" /\ mirror' = mirror + 1
    /\ UNCHANGED <<world, i, found, task, tries, answered, merging>>

Submit ==
    /\ pc = "mirror" /\ mirror > Len(Mirrors)
    /\ pc' = "crawl"
    /\ task' = [r \in Repo |-> IF r \in Found THEN "queued" ELSE "none"]
    /\ UNCHANGED <<world, listing, tries, answered, merging>>

(***************************************************************************)
(* The calls for the repositories.  Of the two files of a list the second  *)
(* is an alternative for Debian and Ubuntu (Packages.xz, Packages.gz), and *)
(* the first says where the second is in an RPM repository.                *)
(***************************************************************************)
Active == {r \in Repo : task[r] \in {"first", "second"}}

\* drel_repos has the releases in the order in which they were met, and under
\* each one its repositories in order.
Position(r) == CHOOSE n \in DOMAIN found : found[n] = r /\ \A m \in 1..(n - 1) : found[m] # r
ReleaseAt(r) == CHOOSE n \in DOMAIN found : /\ DrelOf[found[n]] = DrelOf[r]
                                           /\ \A m \in 1..(n - 1) : DrelOf[found[m]] # DrelOf[r]
Turn(r) ==
    \A q \in Repo : task[q] = "queued" =>
        IF DrelOf[q] = DrelOf[r] THEN Position(r) <= Position(q) ELSE ReleaseAt(r) < ReleaseAt(q)

\* The pool has Workers threads; debian.py has its own, which takes a list when
\* the one before is merged and the release before is done.
Free(r) ==
    IF Pooled THEN Cardinality(Active) < Workers
              ELSE /\ pc = "crawl"
                   /\ \A q \in Found : \/ task[q] \in {"queued", "built"}
                                       \/ task[q] = "merged" /\ DrelOf[q] = DrelOf[r]

Begin(r) ==
    /\ task[r] = "queued" /\ Turn(r) /\ Free(r)
    /\ task' = [task EXCEPT ![r] = "first"]
    /\ UNCHANGED <<world, pc, listing, tries, answered, merging>>

Goto(r, s) == task' = [task EXCEPT ![r] = s] /\ NextUrl(r)
InFirst(r) == task[r] = "first"

Arrives(r) ==
    /\ r \in Active /\ task[r] \in world.served[r]
    /\ IF InFirst(r) /\ ~Deb
         THEN Goto(r, "second") /\ UNCHANGED answered
         ELSE Goto(r, "done") /\ answered' = answered \cup {r}
    /\ UNCHANGED <<world, pc, listing, merging>>

\* An HTTP error: get_first_of goes on to the next file, and after the last one
\* the repository counts as empty.
HttpError(r) ==
    /\ r \in Active /\ (task[r] \notin world.served[r] \/ world.mood = "down")
    /\ Goto(r, IF InFirst(r) /\ Deb THEN "second" ELSE "done")
    /\ UNCHANGED <<world, pc, listing, answered, merging>>

\* Variant: the exception is that of the first attempt.
ResetAtOnce(r) ==
    /\ r \in Active /\ MayReset(r)
    /\ CASE Deb /\ InFirst(r)  -> Goto(r, "second")
         [] Deb /\ ~InFirst(r) -> Goto(r, "raised")
         [] OTHER              -> Goto(r, "done")
    /\ UNCHANGED <<world, pc, listing, answered, merging>>

\* Variant: the attempts are counted anew after the last one.
ResetForEver(r) ==
    /\ r \in Active /\ MayReset(r)
    /\ IF LastTry(r) THEN NextUrl(r) ELSE Retry(r)
    /\ UNCHANGED <<world, pc, listing, task, answered, merging>>

\* A reset is tried again; the last one is an error of the call, but get_first_of
\* and rpm.py do with it what they do with any other.
Reset(r) ==
    /\ r \in Active /\ MayReset(r)
    /\ CASE ~LastTry(r)                         -> Retry(r) /\ UNCHANGED task
         [] LastTry(r) /\ Deb /\ InFirst(r)     -> Goto(r, "second")
         [] LastTry(r) /\ Deb /\ ~InFirst(r)    -> Goto(r, "raised")
         [] OTHER                               -> Goto(r, "done")
    /\ UNCHANGED <<world, pc, listing, answered, merging>>

(***************************************************************************)
(* The main thread takes what they return.                                 *)
(***************************************************************************)
IndexIn(w, r) == Index(BaseOf[r], w.lists[r])

\* The tree of each repository that answers, and of one that does not.
Trees ==
    [w \in World |-> [r \in Repo |->
        IF w.distro \in {"ubuntu", "debian"}
        THEN DebTree(IndexIn(w, r), Wanted(IndexIn(w, r), w.filter))
        ELSE RpmTree(IndexIn(w, r), w.filter)]]

NoTree    == [v \in {} |-> {}]
TreeOf(r) == IF r \in answered THEN Trees[world][r] ELSE NoTree

At(f, x) == IF x \in DOMAIN f THEN f[x] ELSE {}

\* packages.setdefault((drel, krel), set()).update(dependencies)
Updated(t, drel, more) ==
    [k \in DOMAIN t \cup ({drel} \X DOMAIN more) |->
        At(t, k) \cup (IF k[1] = drel THEN At(more, k[2]) ELSE {})]

\* Variant: a tree replaces what others have under the same keys.
MergeReplaces(r) ==
    /\ Pooled /\ pc = "crawl" /\ task[r] = "done"
    /\ tree' = [k \in DOMAIN tree \cup ({DrelOf[r]} \X DOMAIN TreeOf(r)) |->
                  IF k[1] = DrelOf[r] /\ k[2] \in DOMAIN TreeOf(r) THEN TreeOf(r)[k[2]] ELSE tree[k]]
    /\ task' = [task EXCEPT ![r] = "merged"]
    /\ UNCHANGED <<world, pc, listing, tries, answered, pool, wanted>>

Merge(r) ==
    /\ Pooled /\ pc = "crawl" /\ task[r] = "done"
    /\ tree' = Updated(tree, DrelOf[r], TreeOf(r))
    /\ task' = [task EXCEPT ![r] = "merged"]
    /\ UNCHANGED <<world, pc, listing, tries, answered, pool, wanted>>

\* all_packages.update(repo_packages): the last repository's version counts.
Gather(r) ==
    LET index == IF r \in answered THEN IndexIn(world, r) ELSE NoIndex
        d     == DrelOf[r]
    IN  /\ ~Pooled /\ pc = "crawl" /\ task[r] = "done"
        /\ pool' = [pool EXCEPT ![d] = [n \in DOMAIN @ \cup DOMAIN index |->
                                           IF n \in DOMAIN index THEN index[n] ELSE @[n]]]
        /\ wanted' = [wanted EXCEPT ![d] = @ \cup Wanted(index, world.filter)]
        /\ task' = [task EXCEPT ![r] = "merged"]
        /\ UNCHANGED <<world, pc, listing, tries, answered, tree>>

\* One tree over all repositories of a release.
Build(d) ==
    LET repos == {r \in Found : DrelOf[r] = d}
    IN  /\ ~Pooled /\ pc = "crawl"
        /\ repos # {} /\ \A r \in repos : task[r] = "merged"
        /\ tree' = Updated(tree, d, DebTree(pool[d], wanted[d]))
        /\ task' = [r \in Repo |-> IF r \in repos THEN "built" ELSE task[r]]
        /\ UNCHANGED <<world, pc, listing, tries, answered, pool, wanted>>

\* Variant: the exception does not wait for the pool.
RaiseAtOnce(r) ==
    /\ pc = "crawl" /\ task[r] = "raised"
    /\ pc' = "raised"
    /\ UNCHANGED <<world, listing, task, tries, answered, merging>>

\* The exception of a call ends the crawl; leaving the `with` block waits for
\* all others, also for those that did not begin.
Raise(r) ==
    /\ pc = "crawl" /\ task[r] = "raised"
    /\ pc' = IF Pooled THEN "raising" ELSE "raised"
    /\ UNCHANGED <<world, listing, task, tries, answered, merging>>

Shutdown ==
    /\ pc = "raising" /\ \A r \in Repo : task[r] \notin {"queued", "first", "second"}
    /\ pc' = "raised"
    /\ UNCHANGED <<world, listing, task, tries, answered, merging>>

Return ==
    /\ pc = "crawl"
    /\ \A r \in Found : task[r] = IF Pooled THEN "merged" ELSE "built"
    /\ pc' = "returned"
    /\ UNCHANGED <<world, listing, task, tries, answered, merging>>

MainStep ==
    \/ ReadMirror \/ MirrorFails \/ ReadPlace \/ PlaceMissing \/ PlaceReset \/ PlacesDone \/ Submit
    \/ (\E r \in Repo : Merge(r) \/ Gather(r) \/ Raise(r))
    \/ (\E d \in Drel : Build(d)) \/ Shutdown \/ Return

TaskStep(r) == Begin(r) \/ Arrives(r) \/ HttpError(r) \/ Reset(r)

Next == MainStep \/ \E r \in Repo : TaskStep(r)

Spec == Init /\ [][Next]_vars

(***************************************************************************)
(* Properties.                                                             *)
(***************************************************************************)
Over == pc \in {"returned", "raised"}

\* Every variable of the control has its type, and no URL is tried too often.
CrawlTypeOK ==
    /\ world \in World
    /\ pc \in {"mirror", "place", "crawl", "raising", "raised", "returned"}
    /\ mirror \in Nat \ {0} /\ i \in Nat \ {0}
    /\ pc = "place" => mirror <= Len(Mirrors)
    /\ found \in Seq(Repo)
    /\ task \in [Repo -> {"none", "queued", "first", "second", "done", "merged", "built", "raised"}]
    /\ tries \in [Fetcher -> 0..(Attempts - 1)]
    /\ answered \subseteq Repo
    /\ DOMAIN pool = Drel /\ DOMAIN wanted = Drel

\* The tree is at any time the union of those that were merged, in whatever order
\* the threads completed, and of all when the crawl returns ("simply the union of
\* all the package trees of repos composing it", repo.py:56).
TreeIsUnion ==
    LET Merged == {r \in Repo : task[r] = "merged"}
    IN  Pooled =>
            /\ DOMAIN tree = UNION {{DrelOf[r]} \X DOMAIN TreeOf(r) : r \in Merged}
            /\ \A k \in DOMAIN tree :
                   tree[k] = UNION {At(TreeOf(r), k[2]) : r \in {q \in Merged : DrelOf[q] = k[1]}}
            /\ pc = "returned" => Merged = Found

\* What a kernel of Debian or Ubuntu needs is listed with it or it is not listed:
\* each package comes with all that one list (the lists of one release) says it
\* needs (IncompletePackageListException in build_package_tree).
ComesWithItsNeeds(index, urls, u) ==
    /\ u.name \in DOMAIN index /\ index[u.name].url = u
    /\ DebNeeded(index, u.name) \subseteq DOMAIN index
    /\ {index[x].url : x \in DebNeeded(index, u.name)} \subseteq urls

NoHalfDependencies ==
    (Deb /\ pc = "returned") =>
        \A k \in DOMAIN tree : \A u \in tree[k] :
            IF Pooled
            THEN \E r \in answered : DrelOf[r] = k[1] /\ ComesWithItsNeeds(IndexIn(world, r), tree[k], u)
            ELSE ComesWithItsNeeds(pool[k[1]], tree[k], u)

\* The repositories whose lists are seen together with that of r, those with a
\* list at all, and what a package needs in them.
Places     == UNION {{Mirrors[m][p] : p \in DOMAIN Mirrors[m]} : m \in DOMAIN Mirrors}
Readable   == {r \in UNION Places : IF Deb THEN world.served[r] # {} ELSE world.served[r] = {"first", "second"}}
Together(r) == IF Pooled THEN {r} ELSE {q \in Readable : DrelOf[q] = DrelOf[r]}
Lists(q, n) == n \in DOMAIN IndexIn(world, q)

NeededTogether(r, n) ==
    Needed([x \in {y \in Name : \E q \in Together(r) : Lists(q, y)} |->
               (UNION {IndexIn(world, q)[x].depends : q \in {p \in Together(r) : Lists(p, x)}}) \cap KernelName], n)

\* What two lists say of a package; all that is needed is listed, and by all lists
\* in the same way.
SaysOf(q, x) == [version |-> IndexIn(world, q)[x].version,
                 depends |-> IndexIn(world, q)[x].depends \cap KernelName]

Complete(r, n) ==
    \A x \in NeededTogether(r, n) :
        \E q \in Together(r) :
            Lists(q, x) /\ \A p \in Together(r) : Lists(p, x) => SaysOf(p, x) = SaysOf(q, x)

Asked(h) == world.filter = NoFilter \/ (world.filter.exact = {} /\ h \in world.filter.release)

Healthy == world.mood # "down" /\ (world.distro = "amazon" => {} \notin Places)

\* A crawl in which all requests are answered, or reset a few times, does return,
\* and it has each kernel that a repository lists with modules or image and with
\* everything it needs (headers of no release, as linux-headers-amd64, are none).
HealthyCrawlIsComplete ==
    Healthy =>
        /\ pc \notin {"raising", "raised"}
        /\ pc = "returned" => \A r \in Readable :
               LET index == IndexIn(world, r)
                   Has(n) == \E u \in At(tree, <<DrelOf[r], index[n].version>>) :
                                 u.name = n /\ u.version = index[n].version
               IN  IF Deb THEN \A h \in HeadersName \cap KernelName \cap DOMAIN index :
                                   (Asked(h) /\ Complete(r, h)
                                      /\ {ModulesOf[h], ImageOf[h]} \cap DOMAIN index # {})
                                   => \A n \in NeededTogether(r, h) :
                                          \E u \in At(tree, <<DrelOf[r], index[h].version>>) : u.name = n
                          ELSE \A n \in Root \cap DOMAIN index : world.filter = NoFilter => Has(n)

\* The crawl is over only when no thread reads any more.
QuietWhenOver == Over => Active = {} /\ \A r \in Repo : Pooled => task[r] # "queued"
=============================================================================
