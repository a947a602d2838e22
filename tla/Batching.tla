------------------------------ MODULE Batching ------------------------------
(***************************************************************************)
(* From the packages of a distribution to those of each kernel: crawl and  *)
(* batch_packages of the builders (builder/distro/base_builder.py,         *)
(* debian.py, ubuntu.py, centos.py), after the crawl, or for the local     *)
(* packages of the command line, which need none (LocalDistro).            *)
(*                                                                         *)
(* Packages are downloaded to one directory, where a file has the name and *)
(* the version of its package.  What the builders read from that name by   *)
(* regular expressions is given by the constants.                          *)
(***************************************************************************)
EXTENDS Crawler

CONSTANTS
    Kbuild, Common, Flavoured,  \* Debian's three buckets; an Ubuntu file is
                                \* Flavoured if its name has a whole release
    AbiOf, MinorOf, FlavourOf,  \* 6.1.0-1 and amd64 of linux-image-6.1.0-1-amd64;
                                \* 6.1 of 6.1.0-1
    Numbered, Extends,          \* versions that ubuntu.py can read, and those that
                                \* begin with another
    Arguments                   \* of each distribution, the local files that it
                                \* may be called with

File == [name : Name, version : Version]

ASSUME BatchingAssumption ==
    /\ Kbuild \subseteq Name /\ Common \subseteq Name /\ Flavoured \subseteq Name
    /\ Kbuild \cup Common \cup Flavoured \subseteq DOMAIN AbiOf
    /\ Flavoured \subseteq DOMAIN FlavourOf /\ {AbiOf[n] : n \in Flavoured} \subseteq DOMAIN MinorOf
    /\ Numbered \subseteq Version /\ Extends \subseteq Version \X Version
    /\ \A x \in DOMAIN Arguments : Arguments[x] \subseteq SUBSET File

VARIABLES
    arguments,  \* the local packages; none if the distribution is crawled
    batch,      \* "none", "done" or "raised"
    kernels     \* the kernels for unpack_kernels, with the files of each

batching == <<arguments, batch, kernels>>
allVars  == <<vars, batching>>

BatchInit ==
    /\ Init
    /\ arguments \in Arguments[world.distro]
    /\ batch = "none" /\ kernels = {}

Local == arguments # {}
FilesAt(k) == {[name |-> u.name, version |-> u.version] : u \in tree[k]}
NameRelease(n) == <<AbiOf[n], FlavourOf[n]>>
ReleaseOf(f) == NameRelease(f.name)

(***************************************************************************)
(* batch_packages of debian.py: all files of a release, all common ones of *)
(* its ABI and one kbuild file, of that ABI or else of the minor version.  *)
(* Of kbuild files for one version the last one counts.                    *)
(***************************************************************************)
LastKbuild(files) ==
    LET kbuild == {f \in files : f.name \in Kbuild}
    IN  {g \in [{AbiOf[f.name] : f \in kbuild} -> kbuild] : \A a \in DOMAIN g : AbiOf[g[a].name] = a}

\* Variant: only a kbuild package of the minor version is looked for.
MinorKbuild(kbuild, a) ==
    IF MinorOf[a] \in DOMAIN kbuild THEN {kbuild[MinorOf[a]]} ELSE {}

KbuildFor(kbuild, a) ==
    IF a \in DOMAIN kbuild THEN {kbuild[a]}
    ELSE IF MinorOf[a] \in DOMAIN kbuild THEN {kbuild[MinorOf[a]]} ELSE {}

DebianBatches(files, kbuild) ==
    LET own == {f \in files : f.name \in Flavoured}
    IN  [rel \in {ReleaseOf(f) : f \in own} |->
            {f \in own : ReleaseOf(f) = rel}
              \cup {f \in files : f.name \in Common /\ AbiOf[f.name] = rel[1]}
              \cup KbuildFor(kbuild, rel[1])]

(***************************************************************************)
(* batch_packages of ubuntu.py, for the files under one version of the     *)
(* tree: a release has its own files and all those that name no release.   *)
(***************************************************************************)
WithVersion(files) == {f \in files : f.version \in Numbered}

UbuntuBatches(files) ==
    LET read == WithVersion(files)
        own  == {f \in read : f.name \in Flavoured}
    IN  {<<rel, {f \in own : ReleaseOf(f) = rel} \cup (read \ own)>> : rel \in {ReleaseOf(f) : f \in own}}

Batch(result) == batch' = "done" /\ kernels' = result /\ UNCHANGED <<vars, arguments>>
Fails         == batch' = "raised" /\ UNCHANGED <<vars, arguments, kernels>>

Crawled(distros) == ~Local /\ pc = "returned" /\ batch = "none" /\ world.distro \in distros
Given(distro)    == Local /\ batch = "none" /\ world.distro = distro

\* base_builder.py takes the keys of the tree for kernels.
BatchRpm ==
    /\ Crawled({"rpm", "amazon"})
    /\ Batch({[drel |-> k[1], release |-> k[2], files |-> FilesAt(k)] : k \in DOMAIN tree})

\* debian.py batches the files under each version of the tree; under one name the
\* kernel of the last version counts (batched_packages.update).
BatchDebian ==
    /\ Crawled({"debian"})
    /\ \E order \in Orders(DOMAIN tree), kbuild \in [DOMAIN tree -> UNION {LastKbuild(FilesAt(k)) : k \in DOMAIN tree}] :
           LET Batches(n)   == DebianBatches(FilesAt(order[n]), kbuild[order[n]])
               Last(n, rel) == \A m \in DOMAIN order :
                   m > n /\ order[m][1] = order[n][1] => rel \notin DOMAIN Batches(m)
           IN  /\ \A k \in DOMAIN tree : kbuild[k] \in LastKbuild(FilesAt(k))
               /\ Batch(UNION {{[drel |-> order[n][1], release |-> rel, files |-> Batches(n)[rel]] :
                                   rel \in {x \in DOMAIN Batches(n) : Last(n, x)}} : n \in DOMAIN order})

\* All files under a version of the tree are expected to be of that version.
Unexpected(k) == \E f \in WithVersion(FilesAt(k)) : <<f.version, k[2]>> \notin Extends

BatchUbuntu ==
    /\ Crawled({"ubuntu"})
    /\ \A k \in DOMAIN tree : ~Unexpected(k)
    /\ Batch(UNION {{[drel |-> k[1], release |-> b[1], files |-> b[2]] : b \in UbuntuBatches(FilesAt(k))} :
                       k \in DOMAIN tree})

UnexpectedVersion ==
    /\ Crawled({"ubuntu"})
    /\ \E k \in DOMAIN tree : Unexpected(k)
    /\ Fails

\* Local packages have no distribution release.
LocalDebian ==
    /\ Given("debian")
    /\ \E kbuild \in LastKbuild(arguments) :
           LET batches == DebianBatches(arguments, kbuild)
           IN  Batch({[drel |-> "", release |-> rel, files |-> batches[rel]] : rel \in DOMAIN batches})

LocalCentos ==
    /\ Given("rpm")
    /\ LET own == {f \in arguments : f.name \in Flavoured}
       IN  Batch({[drel |-> "", release |-> rel, files |-> {f \in own : ReleaseOf(f) = rel}] :
                     rel \in {ReleaseOf(f) : f \in own}})

\* batch_packages of ubuntu.py returns a list, of which get_kernels wants the items;
\* a file of a release raises even before that, since there is no expected version.
LocalUbuntu == Given("ubuntu") /\ Fails

BatchStep ==
    \/ BatchRpm \/ BatchDebian \/ BatchUbuntu \/ UnexpectedVersion
    \/ LocalDebian \/ LocalCentos \/ LocalUbuntu

Crawling(A) == ~Local /\ A /\ UNCHANGED batching

BatchNext == Crawling(Next) \/ BatchStep

BatchSpec == BatchInit /\ [][BatchNext]_allVars

\* Threads go on, and every request ends.
FairBatchSpec ==
    /\ BatchSpec
    /\ WF_allVars(Crawling(MainStep) \/ BatchStep)
    /\ \A r \in Repo : WF_allVars(Crawling(TaskStep(r)))

-----------------------------------------------------------------------------
\* No kernel is lost and none comes without what it needs: for all headers in the
\* tree there is a kernel with them and with everything that they need, although
\* the builders discard how the crawler found it ("we essentially want to discard
\* some of the classification work performed by the crawler", debian.py:29), and
\* each local file that is of a release comes with a kernel.
Has(kernel, names) == \A n \in names : \E f \in kernel.files : f.name = n

NeededNames(drel, f) ==
    IF Pooled THEN {DebNeeded(IndexIn(world, r), f.name) : r \in {q \in answered :
                        DrelOf[q] = drel /\ Lists(q, f.name) /\ IndexIn(world, q)[f.name].version = f.version}}
              ELSE {DebNeeded(pool[drel], f.name)}

KernelsAreBatched ==
    batch = "done" =>
        /\ \A k \in DOMAIN tree : \A f \in FilesAt(k) :
               (f.name \in HeadersName /\ (world.distro = "ubuntu" => f.version \in Numbered)) =>
                   \E kernel \in kernels, needs \in NeededNames(k[1], f) :
                       /\ kernel.drel = k[1] /\ kernel.release = ReleaseOf(f) /\ f \in kernel.files
                       /\ Has(kernel, needs)
        /\ \A f \in arguments : f.name \in Flavoured => \E kernel \in kernels : f \in kernel.files

\* What the builders rely on to find that again, in the names of the packages.  What
\* headers need is of their release or of none; on Debian, of their ABI, and it is the
\* kbuild package that is looked for, of which there is one for each version; there
\* a release has one version.  No RPM is named as headers of the others.
Headers(index) == HeadersName \cap KernelName \cap DOMAIN index

OwnRelease(index, n) ==
    \A x \in DebNeeded(index, n) \cap Flavoured : n \in Flavoured /\ NameRelease(x) = NameRelease(n)

NamedAsUbuntu(index) ==
    \A h \in Headers(index) :
        /\ OwnRelease(index, h)
        /\ index[h].version \in Numbered =>
               \A x \in DebNeeded(index, h) \cap DOMAIN index : index[x].version \in Numbered

KbuildOf(index, h, x) ==
    /\ x \in Kbuild
    /\ \/ AbiOf[x] = AbiOf[h]
       \/ AbiOf[x] = MinorOf[AbiOf[h]] /\ \A y \in Kbuild \cap DOMAIN index : AbiOf[y] # AbiOf[h]

NamedAsDebian(index) ==
    /\ \A n \in KernelName \cap DOMAIN index : OwnRelease(index, n)
    /\ \A x, y \in Flavoured \cap DOMAIN index :
           NameRelease(x) = NameRelease(y) => index[x].version = index[y].version
    /\ \A h \in Headers(index) : \A x \in DebNeeded(index, h) :
           x \in Flavoured \/ (x \in Common /\ AbiOf[x] = AbiOf[h]) \/ KbuildOf(index, h, x)

NamesAreParsed ==
    /\ HeadersName \cap KernelName \subseteq Flavoured
    /\ \A x, y \in Kbuild : AbiOf[x] = AbiOf[y] => x = y

ListsAreNamed ==
    /\ NamesAreParsed
    /\ world.distro = "ubuntu" => \A r \in answered : NamedAsUbuntu(IndexIn(world, r))
    /\ world.distro = "debian" => \A d \in Drel : NamedAsDebian(pool[d])
    /\ ~Deb => \A r \in answered : HeadersName \cap DOMAIN IndexIn(world, r) = {}

\* Whatever becomes of the requests, the crawl comes to an end, in kernels or in
\* an exception.
CrawlEnds == <>(pc = "raised" \/ batch # "none")

\* "for Ubuntu kernels use -k CustomUbuntu option instead of -k CustomCentOS"
\* (README.md:8): local packages are batched.  The code refutes it for Ubuntu.
LocalPackagesBatched == (Local /\ batch # "none") => batch = "done"
=============================================================================
