# Verification of probe-builder

TLA+ modules, TLC configurations and TLAPS proofs for probe-builder, the program
that crawls distributions for their kernel packages, downloads and unpacks them,
and compiles the agent's kernel module and eBPF probe for each kernel in builder
containers, and for `sysdig-probe-loader`, the script that takes the probes to the
hosts they are for.

Contents: 1 the system, 2 the modules, 3 what the runs check, 4 where code and
documents disagree, 5 what is proved, 6 what is abstracted or left out, 7 the plan,
8 how to run it.

## 1. The system

A `build` is a pipeline. For one distribution it **crawls** the repositories for
kernel versions and the URLs of their packages, **downloads** those with a pool of
threads, **unpacks** them into target directories, one kernel after another,
**builds** the probes of all kernels with another pool of threads and docker, and
**reports**. The stages share a workspace directory, which outlives the process:
packages, `.part` files, markers, unpacked trees and probes are what a run finds of
earlier ones, and "the name exists" is the test with which almost every stage
decides that something is done. That is where most hazards are: what a name stands
for after a crash, a failure or a race.

| Component | Source | State it keeps | Operations | Interacts with |
|---|---|---|---|---|
| Crawler | `kernel_crawler/*.py` | the repositories found, a pool of threads, the merged tree | list repositories, read package lists (`get_url`, `get_first_of`), merge package trees | HTTP; gives a tree of URLs to batching |
| Dependency resolution | `kernel_crawler/deb.py` | a set extended in place, a cache | `transitive_dependencies`, `build_package_tree` | called by the crawler |
| Package batching | `crawl` and `batch_packages` in `builder/distro/*.py`, `LocalDistro` in `__init__.py` | none | from files to kernels | takes the crawler's tree, or local files; gives kernels to unpacking |
| Download pool | `kernel_crawler/download.py` | files and `.part` files; a thread pool | `download_file`, `download_batch` | mirrors over HTTP; unpacking reads the files |
| Unpacking | `builder/distro/{debian,ubuntu,centos}.py`, `builder/toolkit.py` | target directories, marker files, Makefiles, links | `unpack_kernels`, `unpack_deb`, `unpack_rpm` | docker; gives `kernel_dirs` to the build pool |
| Choice of the image | `builder/choose_builder.py`, `version.py` | none | `choose_dockerfile`, `prebuild`'s tags | the build pool |
| Builder images | `builder/builder_image.py`, `docker.py` | docker's images, a cache, a lock | `build`, `remove_dangling_images` | called by all threads of the build pool |
| Build pool | `__init__.py`, `builder/distro/base_builder.py`, `builder-entrypoint.sh` | output directory, futures | `build_kernel`, the container's copies, the report | builder images; output directory |
| Probe loader | `sysdig-probe-loader` | `~/.sysdig`, `bpf/probe.o`, dkms, the kernel | the whole script | the agent, curl, the site that serves probes |
| Ignore list, workspace, toolkit, WSL2 headers, wrappers | see PROJECT.json | - | - | - |

What is hard about each, and what makes it correct:

* *Crawler.* Threads complete in any order, merge into one tree and may raise while
  others read; a list may repeat a package, miss what a package needs, or contradict
  the list of another repository; a connection may be reset again and again. Correct:
  the tree does not depend on the order, a kernel has all it needs or is left out, a
  crawl without failures misses none, and every crawl ends with no thread at work.
* *Package batching.* The builders forget how the crawler found a file and read it
  from names again. Correct: no kernel gets lost or loses what it needs.
* *Download pool.* Threads race for nothing (one task for each basename), but a
  task goes through mirrors, attempts and runs that all append to one `.part`
  file. Correct: what gets its final name is the complete body of one version, it
  never changes afterwards, and a healthy network repairs what is unpublished.
* *Unpacking.* Sequential, but it may stop anywhere, and several kernels share
  packages and directories. Correct: a marker means an unpacked package, the build
  only gets kernels that are complete, the failure of one kernel is not that of another.
* *Builder images.* Threads that want the same image, failures inside the lock, a
  cache that lasts as long as the process and images that last longer. Correct: one
  build at a time, an image that is believed to exist exists, the lock comes free.
* *Build pool.* Reasons to skip are looked up before a wait and used after it; two
  tasks may write one file under each other; exceptions end up in futures. Correct:
  BUILT means a whole file, SKIPPED means excluded on purpose, the exit status tells the truth.
* *Probe loader.* A chain of fallbacks over files of earlier runs, kernels and
  agents, with environment variables that cut parts out. Correct: what is loaded
  is for this kernel and agent, what the variables demand is what happens, it ends.
* *Dependency resolution.* Recursion over a graph with cycles that changes one set
  in place. Correct: the result is the transitive closure, or the exception is just.
* *Choice of the image.* gcc versions as numbers and strings, beyond both ends of
  the list. Correct: the closest compiler; both commands agree on the tag.

The hazards are listed in PROJECT.json, each at its line and with the properties
that cover it, or the reason why none does.

## 2. The modules

| Module | Models | Extends / composes |
|---|---|---|
| `FileStore` | what a directory of downloads promises: names get a complete body, once (abstract) | - |
| `Download` | download.py: pool, mirrors, attempts, resumes, crashes | implements `FileStore` (`StoreSpec`) |
| `PackageLists` | what one list of packages becomes: kernels, dependencies, tree (`scan_packages`, `get_package_list`, `build_package_tree`, `parse_repo_db`), as operators | rests on what `DebDeps` shows |
| `Crawler` | the crawl of Ubuntu, Debian, RPM and Amazon: repositories, threads, retries, merge, exceptions | extends `PackageLists` |
| `Batching` | `crawl` and `batch_packages` of three builders, after the crawl or for local files | extends `Crawler`: its steps are the crawl's or leave the crawl alone |
| `Unpack` | `unpack_kernels` of three builders, with its `unpack_deb`/`unpack_rpm` | begins with the effect of `Download` |
| `BuilderImage` | `builder_image.build` and `docker.build` under the lock | - |
| `BuildPool` | the build command from kernels to exit status, with containers | extends `BuilderImage`, whose actions are steps of its own |
| `ProbeLoader` | the script `sysdig-probe-loader` | - |
| `DebDeps` | `transitive_dependencies` | - |
| `ChooseBuilder` | `choose_dockerfile`, `Version`, the tags of `prebuild` | - |
| `MC*` | instances for TLC | the module of that name |
| `*_proofs` | theorems | the module of that name, TLAPS |

How state and actions correspond to code (PROJECT.json `map` gives the lines):

* **PackageLists.** A package is a name with a version and what it depends on; the
  names that are kernels, headers, modules or images of a release are constants, in
  place of the regular expressions that recognise them. `Needed` is defined as the
  least closed set; `DebDeps` shows that `transitive_dependencies` computes it.
* **Crawler.** `world` is what the program meets, chosen once: the command line, which
  places each mirror has, the list of each repository and which of its files are
  served, and whether requests always work, are reset now and then, or fail at will.
  `mirror` and `i` are the loops that list repositories; `task` is the place of each
  call of `get_package_tree`: its first file, its second (for Debian and Ubuntu the
  .gz after the .xz, for RPM the database after its index), `done`, `raised`, and what
  the main thread made of it. `tries` counts the attempts of `get_url`. Ubuntu and the
  RPM distributions read in a pool (`Merge`), Debian one release after another
  (`Gather`, then `Build` over all lists of a release).
* **Batching.** A file is what is left of a URL in the download directory, its name and
  version. `arguments` are the local files of the command line. Orders of dictionaries
  that decide which of two entries counts are chosen arbitrarily.
* **Download.** `final` and `part` are the files; the content of a `.part` file is
  a length in blocks and the set of versions its blocks come from, which is what
  tells a complete body from a beginning or a mixture. `pc[f]` is the position of
  the task for file `f`: `exists` is the head of the loop over sources together
  with `os.path.exists`, `request` the loop over attempts, `copy` is
  `shutil.copyfileobj`, a block at a time, `move` the rename. Each answer of the
  server (206, 416, 200, other, exception) is an action. `ShortReads` says whether
  an early close looks like the end of the body, which depends on urllib3.
* **Unpack.** `pc`, `k`, `d` are the position in the loop over kernels and in the
  one over packages, and later in the second loop of debian.py. Writing a Makefile
  takes two steps, since opening it empties it; so do `unlink` and `symlink`.
  `distro` is chosen once, and with it the builder (`custom-debian` has local packages
  and debian.py); `Raise` is what an exception does there: `except:` goes
  to the next kernel, centos.py has none.
* **BuilderImage.** `lock`, `builders` (the cache) and `images` (docker's) with the
  position of each call. Every exit from the `with` block releases the lock (`Leave`).
* **BuildPool.** `stage[t]` follows `build_kernel` and `build_kernel_impl` for each
  future; `skip[t]` is what was found before the wait for the image. `cp` truncates the
  file and then writes it (`StartCopy`, `EndCopy`). `out` says how much of it is there and
  `bytes` whose: `Makes[t]` is what the compiler of task `t` makes. Of two copies at work
  on one file, the one that truncated it last (`writer`) writes it from its beginning to
  its end; the other goes on at its own offset, and what it writes may stay in the file
  (`WriteBehind`). A file is whole (`WholeBy`) if it is complete and has the bytes of one
  task alone; so two tasks that make the same bytes may write it together, and two that
  do not may leave a mixture.
* **ProbeLoader.** `pc` is the place in the script; `file`, `object`, `installed`,
  `link`, `loaded` are what it leaves. `result` is the way it ended, and `fetched`
  remembers what became of curl in this run. `healthy` says that nothing fails in
  this run but the attempts to build. `AgentUses`, `AgentStops`, `Reboot`,
  `Upgrade` and `Killed` are the surroundings.
* **DebDeps.** The stack of calls and what each call's loop has yet to look at.
  The graph and the order of each loop are arbitrary.
* **ChooseBuilder.** The scan over Dockerfiles in the order of their gcc. The list of
  Dockerfiles is a constant; the instance has those of the repository.

Operators introduced by a comment `Variant:` are not part of a specification.
Each is a definition with a plausible mistake in it (a dropped guard, a missing
reset, a swapped order); a property is only kept if TLC finds it violated when the
definition after it is replaced by the variant (PROJECT.json `mutants`).

## 3. What the runs check

| Run | States | Bounds | What it shows |
|---|---|---|---|
| `MCBatching_crawl` | 19311 | 4 repositories in 2 releases on 2 mirrors, 2 threads, 2 attempts, 59 worlds, 3 sets of local files | `TreeIsUnion`, `NoHalfDependencies`, `HealthyCrawlIsComplete`, `QuietWhenOver`, `KernelsAreBatched`; under fairness `CrawlEnds` |
| `MCDownload_agree` | 6928 | 2 files, 2 threads, 2 attempts, bodies of 2 and 1 blocks, mirrors that agree, no short reads | `PublishedComplete`, and that the directory implements `FileStore` |
| `MCDownload_disagree` | 64622 | the same, mirrors that serve different versions, short reads | `PublishedFromSources`, `PublishedForGood`, `UnpublishedExplained`; under fairness `HealthyRunPublishes`, `BatchSettles` |
| `MCBuildPool_distinct` | 15878 | 3 tasks, the first of which raises, 2 threads, one image that docker has to build, failing copies and docker commands, new runs at any time | `OneBuildAtATime`, `ContainerHasImage`, `BuiltMeansWhole`; under fairness `RunEnds` |
| `MCBuildPool_duplicates` | 34416 | 4 tasks: one raises, two have one probe and images that make the same module but not the same eBPF probe, one has an image without eBPF; images taken on trust, 2 threads, copies that do not fail | `SkippedOnPurpose`, `WholeWhenSettled`, `ExitStatusHonest` |
| `MCUnpack_shared` | 21340 | 2 kernels with headers of their own and a common package, each distribution; for local Debian packages 2 versions of the headers of one release, which overwrite each other | `MarkedIsUnpacked`, `DirsAreUnpacked`, `LookedAtFirst`, `MakefilesPatched`; under fairness `HealthyRunUnpacksAll` |
| `MCProbeLoader_kmod` | 773464 | 2 agent versions, 2 kernels, module environments | `LoadedIsAppropriate` |
| `MCProbeLoader_any` | 333290 | 2 agent versions, 1 kernel, all environments, only one version's probes served, rm may fail, 1 retry of rmmod | `ForcedDownloadIsFresh`, `HealthyDownloadSucceeds`, `ForcedBuildNeverDownloads`, `LinkedIsOfThisAgent`; under fairness `RunEnds` |
| `MCDebDeps_closure` | 238800 | every graph on 3 packages and one absent name, every order | `ReturnsTheNeeded`, `RaisesForAbsent`, `CacheIsNeverUsed`, `Terminates` |
| `MCChooseBuilder_gcc` | 20472 | the Dockerfiles of the repository, by gcc for 5 distributions and by release for 2, a distribution without, kernels of gcc 4.1 to 14.12 | `ClosestGccChosen`, `RaisesOnlyWithoutImages` |
| `MCUnpack_poison` | - | as `shared`, Debian alone | violation of `PackagePathIsFile` (section 4) |
| `MCProbeLoader_partial` | - | one version, one kernel, eBPF | violation of `FailedDownloadIsNoticed` (section 4) |

`MCBuildPool_distinct`, `MCProbeLoader_kmod` and `MCChooseBuilder_gcc` check the type
invariant of their module as well; those of the other modules are theorems
(section 5) and were checked before they were proved.

Why the bounds are enough. The interesting cases need two of something: two
mirrors (a `.part` file of one that is resumed from the other), two blocks (a
beginning that is not the whole), two attempts (a status other than 200, then
another answer), two files on two threads; two kernels with a common package (a
marker of another kernel); two tasks with one image or one probe, and a third that
holds a thread; two agent versions and two kernels (a file of the other). A task,
file or kernel sees others only through the lock, the number of free threads, the
shared files, and the order of the queue, which two or three of them exercise. The
crawl has 4 repositories so that two are merged under one release while another waits
for a thread, and one is of another release; its worlds are the cases that the code
tells apart: a package listed twice, one that no list has, two versions of one package
in two lists, one version with two lists of dependencies, headers with an image and
without modules, headers of no release (`linux-headers-amd64`), an RPM that needs
itself, a name or version that no expression matches, a missing list, the .gz alone. All
of them satisfy `ListsAreNamed` (section 5). In a list that does not, where headers of
one release need headers of another, which a Debian repository does not have, the
second release may be batched again by another version and lose what it needs
(debian.py:65): TLC then refutes `KernelsAreBatched`. For
the properties with a theorem (section 5) the bounds do not matter at all.
`CHECK_DEADLOCK FALSE` is given for `DebDeps`, `ChooseBuilder` and `Batching`, which
end; in all others a new run may always begin. No configuration uses symmetry:
some have temporal properties, and others order their sets.

Bounds that the model itself sets are the program's own: `Retries` (the `-r`
option), `Concurrency` and `Jobs` (options), `MaxRmmodWait` (`MAX_RMMOD_WAIT`, 60 in
the script, 1 here), `Workers` (8 threads, 2 here), `Attempts` (4, 2 here). No counter is cut off.

Fairness, and why the code justifies it:

* `Download!FairSpec`: weak fairness of each task. A thread of the pool is never
  abandoned, and a request ends by an answer or the timeout option. Without the
  option `requests.get` has no time limit, and a server that says nothing holds its
  thread for ever: the liveness properties assume the option, or a server that answers.
* `Batching!FairBatchSpec`: weak fairness of the main thread and of each call for a
  repository. `get_url` sets no time limit, so this assumes that every request ends, by
  an answer or a reset; a server that accepts and says nothing holds the crawl.
* `BuildPool!FairSpec`: weak fairness of each task and of the main thread. docker
  and containers end; nothing in the code bounds them.
* `Unpack!FairSpec`, `ProbeLoader!FairSpec`, `DebDeps!FairSpec`: weak fairness of
  the one process, which goes on while it runs.

Nothing assumes that a failure will not happen again, except after `Heal` (or in
a `healthy` run of the loader): what is claimed for a healthy run is that *whatever
state earlier runs left* does not prevent it from success. `BuildPool!RunEnds` is about
a host that at some time no longer stops while a run is at work, since one that stops
again and again ends no run; docker commands, copies and compilers may fail in every run.

## 4. Where code and documents disagree

Two have a run of their own:

* `MCUnpack_poison`. "if target path already exists, assume it's complete"
  (download.py:57). On Debian a package that could not be downloaded is mounted into
  the container before anybody looks for it (debian.py:101 before 103). docker makes
  a directory of the path, and every later download takes that directory for the
  package. ubuntu.py looks first (`LookedAtFirst`), and a healthy run gets over
  everything else that earlier ones left (`HealthyRunUnpacksAll`).
* `MCProbeLoader_partial`. "Downloads the BPF probe. Returns 0 on success, 1
  otherwise" (sysdig-probe-loader:461-462). `download_bpf_probe` looks not at curl's
  exit status but at whether a file is there: a transfer that breaks off leaves one,
  which is linked as the probe, now and in all later runs.

The others are stated in the modules too. To see the counterexample, put the
property into the configuration in place of its own (all were reproduced so):

| Property | Configuration | What happens |
|---|---|---|
| `Download!PublishedComplete` | `MCDownload_disagree` | a close that urllib3 does not report ends `copyfileobj`; line 65 renames the beginning of the body |
| `Download!WholeThingOn416` | `MCDownload_disagree` | the second mirror's body is shorter than the `.part` file of the first: 416, and the mixture is renamed ("we have the whole thing", line 49) |
| `Download!EverySourceTried` | `MCDownload_agree` | an error of the stream is no `RequestException`, so lines 82-83 do not go on to the next source |
| `BuildPool!ExistingMeansComplete` | `MCBuildPool_distinct` | cp to the final name fails or is interrupted; the next run says "Already built" (builder_image.py:121) |
| `BuildPool!WholeWhoeverMakesIt` | `MCBuildPool_duplicates` | two kernels of one release and configuration whose compilers differ, built at the same time: `cp` of one truncates the file under that of the other, and a mixture of both is reported BUILT (builder-entrypoint.sh:78, 109) |
| `BuildPool!FailedKernelsListed` | `MCBuildPool_duplicates` | `__init__.py:210` formats three values for four columns, and the exception ends the list of failed kernels |
| `Batching!LocalPackagesBatched` | `MCBatching_crawl` | "for Ubuntu kernels use -k CustomUbuntu" (README.md:8): `LocalDistro.get_kernels` asks the list that ubuntu.py returns for its `items()` (`__init__.py:75`); a file of a release raises even earlier, since its version is a string that is no pair (ubuntu.py:176) |
| `Unpack!MakefilesWhole` | `MCUnpack_shared` | a crash between emptying and writing a Makefile leaves one in which nothing is to be patched (debian.py:135) |
| `ProbeLoader!EveryWayTried` | `MCProbeLoader_kmod`, `_any` | a broken file in `~/.sysdig` (line 408), or sources that cannot be fetched (line 581, in a function that "Returns 0, always"), end a script that "desperately tries" (line 20) |
| `ProbeLoader!ForcedBuildOnlyBuilds` | `MCProbeLoader_kmod` | "ONLY tries to build" (line 41), then loads a downloaded module (lines 405-408) |
| `ProbeLoader!FilesAreWhatTheyAreNamed` | `MCProbeLoader_any` with 2 kernels | mv (line 606) takes the `probe.o` of a run that was killed on another kernel; what still holds is `LinkedIsOfThisAgent` |
| `ProbeLoader!DownloadedIsProbe` | `MCProbeLoader_any` with `BasicAuth = TRUE` | `"${CURL_OPTS}"`, quoted, is one argument (line 279): curl runs without `-f` and saves an error page |
| `ChooseBuilder!PreparedAhead` | `MCChooseBuilder_gcc` | `prebuild` tags an image `fc34-bpf`, `build` with a prefix looks for `fc34` (choose_builder.py:51, 53-57) |

The properties that are checked allow for two of them by name: `UnpublishedExplained`
for the error of the stream that `EverySourceTried` forbids, and `ForcedDownloadIsFresh`
for one more, a leftover eBPF probe on which rm fails, which the script reports and then
links (lines 673-688). `PublishedFromSources`, which holds for mirrors that disagree,
only bounds what `PublishedComplete` says: a mixture of two mirrors' bodies satisfies it.

What the model of the crawler shows without contradicting any document: a list whose
.gz is missing (HTTP 404) counts as empty even if the .xz failed for another reason
(deb.py:177; `Reset`, then `HttpError`), as does an RPM repository that cannot be read
(rpm.py:81), so kernels silently disappear from a build, which `HealthyCrawlIsComplete`
excludes only for a network that recovers; in Debian a package of a later list replaces
that of an earlier one for all kernels of the release (debian.py:36); an RPM
distribution whose mirror answers one request of `dist_exists` badly is left out, and
the list of distributions itself is read only once (`PlaceReset`, `MirrorFails`); one
package of an unexpected version ends an Ubuntu build for all kernels (ubuntu.py:145).

Seen while reading, and not modelled: the loader tries dkms before modprobe,
its header says modprobe first (lines 27-34); comments at 219-220 and 480-481 say
"returns 1 on success"; `toolkit.build_toolkit` calls `docker.build` without its
first parameter, so `unpack_rpm` outside docker always raises; flatcar.py takes the
pairs of releases that it gets for names of directories, and its `build_kernel_impl`
returns nothing; no Dockerfile is for PhotonOS.

## 5. What is proved

The theorems hold for every value of the constants that the `ASSUME` of the module
admits: any number of files, mirrors, threads, tasks, kernels, packages, any
dependency graph. TLC evaluates each `ASSUME` in the runs above, and checked each
invariant before it was proved.

| Module | Theorems |
|---|---|
| `Crawler_proofs` (also of `Batching`) | `CrawlTypeCorrect`, `TreeIsAlwaysUnion`, `DependenciesAreWhole`, `HealthyCrawlsAreComplete`, `NothingReadsOn`, `WholeTreeIsBatched`, `NamedKernelsAreBatched` |
| `Download_proofs` | `TypeCorrect`, `PublishedStays`, `PublishedAreComplete`, `PublishedAreSourced`, `ImplementsFileStore`, `UnpublishedAreExplained`, `HealthyNeverGivesUp` |
| `BuilderImage_proofs` | `MutualExclusion`, `CachedNotRebuilt`, `AvailableOnReturn` |
| `BuildPool_proofs` | `PoolTypeCorrect`, `ContainersHaveImages`, `BuiltAreWhole`, `SkippedAreExcluded`, `ExitStatusIsHonest`, `SettledFilesAreWhole` |
| `Unpack_proofs` | `UnpackTypeCorrect`, `MarkersInOrder`, `MarkersAreTrue`, `DirsAreReady`, `LooksFirst`, `PatchedAll`, `HealthyLeavesNoneOut` |
| `ProbeLoader_proofs` | `LoaderTypeCorrect`, `LoadedAreAppropriate`, `ForcedDownloadsAreFresh`, `ForcedBuildsNeverDownload`, `LinkedAreOfThisAgent`, `HealthyDownloadsSucceed` |
| `DebDeps_proofs` | `DepsTypeCorrect`, `CacheUnused`, `NeededReturned`, `AbsentRaises`, `RecursionRunsOut` |
| `ChooseBuilder_proofs` | `ChooseTypeCorrect`, `ChoosesClosest`, `RaisesForNoImages` |

* **The crawl.** `TaskInv` says where calls can be in each phase of the main thread: in
  particular none is at work when it raises, which in a pool needs that `Shutdown`
  waits and in Debian that one list at a time is read. `UnionInv` is the union over
  the merged repositories; a merge adds one, and what was read of a merged repository
  does not change. `HalfInv` is the counterpart for Debian: what a built release was
  built from stays as it was. That a tree comes whole (`TreeComesWithItsNeeds`) needs that
  what a package needs of a needed one is needed by the first (`NeededIsTransitive`),
  and that versions merged under one key only add URLs (`ComesWithMore`). `Batching`
  changes nothing of the crawl, so all of it carries over (the lemma `BatchingCrawls`).
* **A healthy crawl is complete.** `HealthyCrawlsAreComplete` follows each package from
  the list to the tree. `FoundInv` says which places the loops have listed, so that in
  the end every readable repository is found; `HealthyInv` that no call raises and each
  that is done has its list, which needs that a .gz is only asked for where no .xz is
  served; `AnsweredInv` that what was read is served. For Debian, where later lists
  replace entries of earlier ones, `PoolInv` says that each entry of the pool is one of
  the lists gathered so far, and that what is built of a release is built from all of
  them. What a kernel needs by its own list is then what it needs by the pool if the
  lists agree on all of it (`NeededAgrees`, from the closure being the least closed set).
  TLC had confirmed the property, but in the worlds of that time; the first attempt to
  prove it led to cases that those did not have, and three corrections: `Complete` asks
  the lists for the same dependencies of a version and not only for the same version;
  headers that are not of a release (`linux-headers-amd64`) are none; and the filter
  names one package, as `linux-headers-{filter}` does. The worlds have these cases now.
* **Every kernel is batched.** `NamedKernelsAreBatched` has a hypothesis, `ListsAreNamed`,
  for what the builders rely on without looking: they forget which package needs which
  and find it again by release, ABI and version. It says that what headers need is of
  their release or of none, that on Debian it is headers, the common headers of the ABI
  or the kbuild package that is looked for, and that one Debian release has one
  version. That is how the distributions name packages, and the source has the names in
  its expressions, but nothing in the source enforces it. For every
  list that `MCBatching` has, TLC evaluates it (`MCListsAreNamed`), so it is no empty
  hypothesis. The tree of Debian is shown to be finite and to have under each version
  what was built (`BuiltInv`): the builder takes the versions in any order, comes to
  each, and no later one replaces the entry of a release.
* **Published files are complete.** `PublishedComplete` is not inductive: it says
  nothing of the `.part` file that `Move` will rename. The invariant `CompleteInv`
  adds, for each task, that a `.part` file is a beginning of *the* version the
  mirrors agree on, that what is left of a stream and what the file has add up to the
  body while it is copied, and that at the rename nothing is missing. That needs
  the two assumptions of the theorem, mirrors that agree and no short reads; section
  4 shows both to be necessary. `PublishedStays` needs neither: it follows from the
  fact that a task between the test of the name and the rename has its name free
  (`FreeWhileAtWork`), since no two tasks have the same name. `ImplementsFileStore` puts the
  two together: `Move` is `Publish`, every other step a stutter.
  `PublishedAreSourced` needs no assumption: `SourcedInv` says of each `.part` file and
  each stream that their bytes are of versions that mirrors of this file serve.
  Neither does `UnpublishedAreExplained`. `HealthyNeverGivesUp` is the safety half of
  `HealthyRunPublishes`: a task that a healthy run takes up stays with its first source
  until the file is there (`OnItsWay`), whatever `.part` file it found; that it gets
  there is left to fairness, and to TLC.
* **Builder images.** `LockInv` (a task is inside exactly if it holds the lock)
  gives mutual exclusion, and with it `CacheInv` (an image in the cache is docker's,
  unless it was taken on trust, and nobody builds it).
* **Build pool.** Each step of the pool is one of `BuilderImage` or leaves the images
  alone (the lemma `StepMapsToImageStep`), which carries what is proved there over. `ContainersHaveImages` then follows a task from
  the return of its call to its container (`HasImageInv`). For `BuiltAreWhole` the
  invariant is `OwnedInv`: without two tasks for one probe, the writer of a file is
  its own task, nobody writes behind it, and the copies a container has still to make
  tell what its file is.
  `SettledFilesAreWhole` is about tasks that do share a probe, where copies do not
  fail and the host does not stop: a file that is not complete has a writer that is
  still copying (`CopyInv`), and what it has are bytes of its makers (`BytesInv`), of
  which there is one kind alone if the makers agree (`AgreeingMakeWhole`). `SkippedAreExcluded` carries the reasons found before the wait
  through it (`SkipInv`): an existing file is never gone after it. `ExitStatusIsHonest`
  needs that a task that is done has reported both probes (`ReportInv`).
* **Unpacking.** `DoneInv` says at each position of the loop which packages have
  a marker, and `MarkerInv` that the one being unpacked has none: unpacking takes files
  away, but only those of an unmarked package, if no two versions of a package share a
  directory (the condition `NoRivalPackages` in the properties). Without it,
  `PatchedAll` still holds: in the second loop the kernels behind the position are
  patched, and nothing unpacks any more (`PatchInv`). `LooksFirst` rests on ubuntu.py's
  look at all packages of a kernel before the first is unpacked (`LookedInv`).
  `HealthyLeavesNoneOut` is the safety half of `HealthyRunUnpacksAll`. What could end a
  healthy run of Debian is a kernel without a Makefile; `MakefileInv` says that one whose
  headers have a marker of any run has one, if only a torn one. Its hypothesis,
  `HeadersAmongPackages`, is what batching does for Debian; TLC evaluates it in `MCUnpack`.
* **Probe loader.** `LoadedAreAppropriate` is for environments of the kernel module
  (`ModulesOnly`), a site that serves what a name says (`ServedAsNamed`) and no override,
  with which somebody else answers for the file; it rests on `NamedInv`, what the names
  of files tell. For eBPF names tell less (section 4). `AgentInv` is what is left of it:
  `probe.o` lies in the sources of the agent that it was made from, so what mv takes is
  of the agent whose name it gets, over any number of kills, reboots and upgrades.
  `FreshInv` says that a forced download never comes to a place that builds, and to one
  that loads only after curl or a complaint of rm; `ForcedBuildNeverDownloads` is the
  counterpart for a forced build. `SucceedsInv` follows an undisturbed run: what earlier
  ones left has no place on its way.
* **Choice of the image.** `LoopInv`: the images that the scan has passed are older
  than the kernel's compiler, but for the last, and none to come is older than they
  are. So at its end the neighbours of the compiler are the last two.
* **Dependencies.** `DepsInv` is the invariant of a graph search: what is found is
  needed, what a found package depends on is found or still to be looked at, and who
  has something to look at is on the stack. At the end nothing is left, so what was
  found is closed, and the closure is the least closed set. Induction over data is
  not needed: the closure is defined as an intersection of closed sets. `RecursionRunsOut` is
  what `Terminates` rests on: `Work` counts what is still to be looked at and the calls,
  and no step keeps the recursion running without lowering it, since a package's call
  begins only once; that a step is taken is left to fairness.

`BuilderImage!ReturnedMeansAvailable` is proved only; the pool's `ContainerHasImage`
is what the runs check of it.

Only model-checked: the liveness properties (`BatchSettles`, `HealthyRunPublishes`,
`CrawlEnds`, `RunEnds` of both modules, `HealthyRunUnpacksAll`, `Terminates`), since the
prover has no rule for fairness and ENABLED. Every invariant that a run checks, and every
action property and refinement, is stated by a theorem.

## 6. What is abstracted, and what is left out

* Data: file contents are lengths and versions, packages and images are names;
  wording, logging, option parsing and version detection are left out.
* PackageLists: a list is a sequence of entries; compression, alternatives in `Depends`
  and the two numbers of an Ubuntu version are left out, a version is a value.
  `provides` and `requires` of an RPM database are its `depends`.
* Crawler: names of distributions are places that a mirror has or has not; lists do not
  change during a crawl; a list that arrives is whole. Truncated or malformed data, which
  the decompression or a parser would refuse with an exception, is not modelled.
  A crawl is run once: nothing of it is kept.
* Batching: the download that `crawl` does in between is `Download`; a file is in the
  kernel's list whether or not it was downloaded, as in the code. Files of two
  distributions do not mix, since each has a directory.
* Download: one batch in a loop of runs; basenames are distinct (`download_batch`
  makes one task for each), a response is read a block at a time.
* Unpack: one link stands for `build` and `source`; the `ValueError`s of ubuntu.py for
  file names that do not match are left out; `unpack_rpm` is modelled as it is inside
  docker, where alone it can work; debian.py's test after an unpacked package can only
  find what it expects, since dpkg failed on anything else, or the package is in place.
* BuildPool: a container ends with its host; one that survives its process is not
  modelled. `PrepareRaises` is `hash_config` without a configuration or
  `choose_dockerfile` without an image. The ignore list is the constant `Skipped`.
* ProbeLoader: one copy of the script at a time; make either writes its object or
  does not (the probe's Makefile is not in the repository); mv is atomic, within one
  file system; dkms, insmod and curl are what they leave and their exit status.
* DebDeps: `Depends` is already cut down to kernel packages and to the first of
  alternatives; the call is a top-level one, which has a cache of its own.
* ChooseBuilder: equal versions come in any order, as they do in a sort by version;
  the compiler is the one in either `compile.h`.

Not modelled (PROJECT.json says why): Amazon Linux 2022, the fixed lists of Oracle and
Photon, HTML and XML parsing, workspace paths, coreos images, flatcar, the WSL2 headers script
and the wrappers.

## 7. Plan

Done, in this order, the most shared state first: `FileStore` and `Download`;
`BuilderImage` and `BuildPool`; `Unpack`; `ProbeLoader`; `DebDeps`; `ChooseBuilder`;
`PackageLists`, `Crawler` and `Batching`; the proofs of all of them.

To do:

1. `WslHeaders`: the script that downloads, builds and installs headers, killed at
   any step, with its test for an earlier installation.
2. `Pipeline`: `Download`, `Unpack` and `BuildPool` composed over the workspace,
   with the promise that a probe is only built from complete packages.
3. Amazon Linux 2022, which goes on after an HTTP error of a mirror list, as one more
   distribution of `Crawler`; the ignore list's matching as operators.
4. For `CrawlEnds` what `RecursionRunsOut` is for `Terminates`, and that a crawl that
   is not over has a step to take: some call to make, to answer or to merge.

## 8. How to run it

    tlc -workers 2 -config MCUnpack_shared.cfg MCUnpack
    tlapm Unpack_proofs.tla

Each configuration is named after its module and the question it asks. The longest
run takes half a minute on two cores, the longest proof a few minutes.
