------------------------------- MODULE Unpack -------------------------------
(***************************************************************************)
(* unpack_kernels of the distribution builders (builder/distro/debian.py,  *)
(* ubuntu.py, centos.py) with the unpack functions of builder/toolkit.py:  *)
(* the downloaded packages of each kernel are unpacked into its target     *)
(* directory, with a marker file for each package that is done.            *)
(*                                                                         *)
(* Everything is sequential, in a process that may stop anywhere and be    *)
(* started again; packages, markers and directories stay.  Each run begins *)
(* with a download, which publishes packages under names that are free and *)
(* takes a name that exists for a complete package (Download).             *)
(***************************************************************************)
EXTENDS Naturals, Sequences, FiniteSets

CONSTANTS
    Distro,     \* the distributions it may be called for
    BuilderOf,  \* of "debian", "ubuntu" and "centos", the one that each is built with
    NKernels,   \* the kernels, in the order of the crawler's dictionary
    Pkg,        \* the packages
    PkgsOf,     \* PkgsOf[x][k]: in distribution x, the packages of kernel k, in order
    HeadersOf,  \* HeadersOf[x][k]: the one with its Makefile and its links
    Target,     \* directories to unpack to
    TargetOf,   \* TargetOf[x][k]: that of kernel k; some share it
    Dir,        \* kernel directories: a target and a kernel release
    DirOf,      \* DirOf[x][k]: one release may come up twice
    Rivals      \* Rivals[x][p]: other versions of p, which have the same files

Kernel == 1..NKernels

ASSUME UnpackAssumption ==
    /\ BuilderOf \in [Distro -> {"debian", "ubuntu", "centos"}]
    /\ NKernels \in Nat
    /\ PkgsOf \in [Distro -> [Kernel -> Seq(Pkg)]] /\ HeadersOf \in [Distro -> [Kernel -> Pkg]]
    /\ TargetOf \in [Distro -> [Kernel -> Target]] /\ DirOf \in [Distro -> [Kernel -> Dir]]
    /\ Rivals \in [Distro -> [Pkg -> SUBSET Pkg]]

VARIABLES
    distro,    \* the distribution it is called for, each time
    package,   \* what is at the path of each package: "absent", "file" or "dir"
    unpacked,  \* the packages that are wholly in a target: target and package
    marker,    \* those with a marker file there
    makefile,  \* of each directory: "absent", "original", "torn" or "patched"
    link,      \* its build link: "absent", "absolute" or "relative"
    pc, k, d,  \* the position, in the kernels and in the packages of one
    dirs,      \* kernel_dirs: the kernels that go on to the build
    healthy    \* nothing fails or stops any more

vars == <<distro, package, unpacked, marker, makefile, link, pc, k, d, dirs, healthy>>
disk == <<package, unpacked, marker, makefile, link>>

Init ==
    /\ distro \in Distro
    /\ package = [p \in Pkg |-> "absent"]
    /\ unpacked = {} /\ marker = {}
    /\ makefile = [x \in Dir |-> "absent"]
    /\ link = [x \in Dir |-> "absent"]
    /\ pc = "download" /\ k = 1 /\ d = 1
    /\ dirs = {}
    /\ healthy = FALSE

Builder == BuilderOf[distro]

\* What the loops are at: a package, where it goes, and a kernel directory.
Deb     == PkgsOf[distro][k][d]
Place   == <<TargetOf[distro][k], Deb>>
Headers == DirOf[distro][k]

(***************************************************************************)
(* The download of all packages of all kernels.                            *)
(***************************************************************************)
Download ==
    /\ pc = "download"
    /\ package' \in [Pkg -> {"absent", "file", "dir"}]
    /\ \A p \in Pkg :
         IF package[p] = "absent"
         THEN package'[p] = "file" \/ (~healthy /\ package'[p] = "absent")
         ELSE package'[p] = package[p]
    /\ pc' = "kernel"
    /\ UNCHANGED <<unpacked, marker, makefile, link, k, d, dirs, healthy>>

(***************************************************************************)
(* The loop over the kernels.  An exception skips the kernel, but ends the *)
(* program in the loop for CentOS, which has no handler.                   *)
(***************************************************************************)
NextKernel ==
    /\ pc' = "kernel"
    /\ k' = k + 1 /\ d' = 1

Raise ==
    IF Builder = "centos"
    THEN pc' = "aborted" /\ UNCHANGED <<k, d>>
    ELSE NextKernel

\* Variant: no builder looks at the packages first.
BeginUnchecked ==
    /\ pc = "kernel" /\ k <= NKernels
    /\ pc' = "unpack"
    /\ UNCHANGED <<disk, k, d, dirs, healthy>>

\* Only ubuntu.py looks at all packages before it unpacks the first.
BeginKernel ==
    /\ pc = "kernel" /\ k <= NKernels
    /\ IF Builder = "ubuntu" /\ \E i \in 1..Len(PkgsOf[distro][k]) : package[PkgsOf[distro][k][i]] # "file"
       THEN Raise
       ELSE pc' = "unpack" /\ UNCHANGED <<k, d>>
    /\ UNCHANGED <<disk, dirs, healthy>>

\* centos.py enters the kernel in kernel_dirs before it unpacks, but returns only
\* when all are unpacked.
EndKernel ==
    /\ pc = "unpack" /\ d > Len(PkgsOf[distro][k])
    /\ dirs' = dirs \cup {k}
    /\ NextKernel
    /\ UNCHANGED <<disk, healthy>>

\* The Debian loop checks a package after it was unpacked.
NextPackage ==
    IF Builder = "debian" THEN pc' = "verify" /\ UNCHANGED d
                         ELSE pc' = "unpack" /\ d' = d + 1

AlreadyUnpacked ==
    /\ pc = "unpack" /\ d <= Len(PkgsOf[distro][k]) /\ Place \in marker
    /\ NextPackage
    /\ UNCHANGED <<disk, k, dirs, healthy>>

\* dpkg runs in a container with the package mounted from the host: docker
\* makes a directory of a path that does not exist, and dpkg fails.
NoPackage ==
    /\ pc = "unpack" /\ d <= Len(PkgsOf[distro][k]) /\ Place \notin marker
    /\ package[Deb] # "file"
    /\ package' = IF Builder = "centos" THEN package ELSE [package EXCEPT ![Deb] = "dir"]
    /\ Raise
    /\ UNCHANGED <<unpacked, marker, makefile, link, dirs, healthy>>

\* Variant: the marker is written before the package is unpacked.
MarkFirst ==
    /\ pc = "unpack" /\ d <= Len(PkgsOf[distro][k]) /\ Place \notin marker
    /\ package[Deb] = "file"
    /\ marker' = marker \cup {Place}
    /\ pc' = "unpacking"
    /\ UNCHANGED <<package, unpacked, makefile, link, k, d, dirs, healthy>>

\* Variant: a target that exists is an error, as it is for os.makedirs.
IntoNewTarget ==
    /\ pc = "unpack" /\ d <= Len(PkgsOf[distro][k]) /\ Place \notin marker
    /\ package[Deb] = "file"
    /\ IF \E p \in Pkg : <<TargetOf[distro][k], p>> \in unpacked
       THEN Raise
       ELSE pc' = "unpacking" /\ UNCHANGED <<k, d>>
    /\ UNCHANGED <<disk, dirs, healthy>>

\* Unpacking overwrites what is there, also of other versions.
BeginUnpack ==
    /\ pc = "unpack" /\ d <= Len(PkgsOf[distro][k]) /\ Place \notin marker
    /\ package[Deb] = "file"
    /\ unpacked' = unpacked \ ({TargetOf[distro][k]} \X ({Deb} \cup Rivals[distro][Deb]))
    /\ pc' = "unpacking"
    /\ UNCHANGED <<package, marker, makefile, link, k, d, dirs, healthy>>

\* The kernel directories in this target that are in the package.
Brings == {DirOf[distro][n] : n \in {m \in Kernel : /\ TargetOf[distro][m] = TargetOf[distro][k]
                                           /\ HeadersOf[distro][m] \in {Deb} \cup Rivals[distro][Deb]}}

EndUnpack ==
    /\ pc = "unpacking"
    /\ unpacked' = unpacked \cup {Place}
    /\ makefile' = [x \in Dir |-> IF x \in Brings THEN "original" ELSE makefile[x]]
    /\ link' = [x \in Dir |-> IF x \in Brings THEN "absolute" ELSE link[x]]
    /\ pc' = "mark"
    /\ UNCHANGED <<package, marker, k, d, dirs, healthy>>

\* Variant: a package that cannot be unpacked is passed over.
FailurePassedOver ==
    /\ pc = "unpacking" /\ ~healthy
    /\ pc' = "unpack" /\ d' = d + 1
    /\ UNCHANGED <<disk, k, dirs, healthy>>

UnpackFails ==
    /\ pc = "unpacking" /\ ~healthy
    /\ Raise
    /\ UNCHANGED <<disk, dirs, healthy>>

WriteMarker ==
    /\ pc = "mark"
    /\ marker' = marker \cup {Place}
    /\ NextPackage
    /\ UNCHANGED <<package, unpacked, makefile, link, k, dirs, healthy>>

Verify ==
    /\ pc = "verify"
    /\ IF package[Deb] = "file" THEN pc' = "unpack" /\ d' = d + 1 /\ UNCHANGED k
                                ELSE Raise
    /\ UNCHANGED <<disk, dirs, healthy>>

\* Variant: the second loop does not begin with the first kernel.
LoopNotReset ==
    /\ pc = "kernel" /\ k > NKernels
    /\ pc' = IF Builder = "debian" THEN "relink" ELSE "returned"
    /\ UNCHANGED <<disk, k, d, dirs, healthy>>

KernelsDone ==
    /\ pc = "kernel" /\ k > NKernels
    /\ IF Builder = "debian" THEN pc' = "relink" /\ k' = 1
                            ELSE pc' = "returned" /\ UNCHANGED k
    /\ UNCHANGED <<disk, d, dirs, healthy>>

(***************************************************************************)
(* The second loop of debian.py: links and Makefiles of the kernels in     *)
(* kernel_dirs get paths that are good inside the builder container.       *)
(***************************************************************************)
\* _reparent_link leaves a link alone whose target is not on this host.
Relink ==
    /\ pc = "relink" /\ k \in dirs
    /\ \/ pc' = "patch" /\ UNCHANGED link
       \/ /\ link[Headers] = "absolute"
          /\ link' = [link EXCEPT ![Headers] = "absent"]
          /\ pc' = "symlink"
    /\ UNCHANGED <<package, unpacked, marker, makefile, k, d, dirs, healthy>>

Symlink ==
    /\ pc = "symlink"
    /\ link' = [link EXCEPT ![Headers] = "relative"]
    /\ pc' = "patch"
    /\ UNCHANGED <<package, unpacked, marker, makefile, k, d, dirs, healthy>>

PatchNeeded == makefile[Headers] = "original"

\* Opening the Makefile for writing empties it.
BeginPatch ==
    /\ pc = "patch" /\ PatchNeeded
    /\ makefile' = [makefile EXCEPT ![Headers] = "torn"]
    /\ pc' = "patching"
    /\ UNCHANGED <<package, unpacked, marker, link, k, d, dirs, healthy>>

EndPatch ==
    /\ pc = "patching"
    /\ makefile' = [makefile EXCEPT ![Headers] = "patched"]
    /\ pc' = "relink" /\ k' = k + 1
    /\ UNCHANGED <<package, unpacked, marker, link, d, dirs, healthy>>

\* Nothing to replace, or no Makefile to read, which no handler catches.
NoPatch ==
    /\ pc = "patch" /\ ~PatchNeeded
    /\ IF makefile[Headers] = "absent" THEN pc' = "aborted" /\ UNCHANGED k
                                 ELSE pc' = "relink" /\ k' = k + 1
    /\ UNCHANGED <<disk, d, dirs, healthy>>

NotInDirs ==
    /\ pc = "relink" /\ k \in Kernel \ dirs
    /\ k' = k + 1
    /\ UNCHANGED <<disk, pc, d, dirs, healthy>>

PatchesDone ==
    /\ pc = "relink" /\ k > NKernels
    /\ pc' = "returned"
    /\ UNCHANGED <<disk, k, d, dirs, healthy>>

Step ==
  /\ UNCHANGED distro
  /\ \/ Download \/ BeginKernel \/ EndKernel \/ AlreadyUnpacked \/ NoPackage
     \/ BeginUnpack \/ EndUnpack \/ UnpackFails \/ WriteMarker \/ Verify
     \/ KernelsDone \/ Relink \/ Symlink \/ BeginPatch \/ EndPatch \/ NoPatch
     \/ NotInDirs \/ PatchesDone

NewRun ==
    /\ ~healthy \/ pc \in {"returned", "aborted"}
    /\ pc' = "download" /\ k' = 1 /\ d' = 1
    /\ dirs' = {}
    /\ UNCHANGED <<distro, disk, healthy>>

Heal == ~healthy /\ healthy' = TRUE /\ UNCHANGED <<distro, disk, pc, k, d, dirs>>

Next == Step \/ NewRun \/ Heal

Spec == Init /\ [][Next]_vars

\* The program goes on as long as it runs.
FairSpec == Spec /\ WF_vars(Step)

-----------------------------------------------------------------------------
UnpackTypeOK ==
    /\ distro \in Distro
    /\ package \in [Pkg -> {"absent", "file", "dir"}]
    /\ unpacked \subseteq (Target \X Pkg) /\ marker \subseteq (Target \X Pkg)
    /\ makefile \in [Dir -> {"absent", "original", "torn", "patched"}]
    /\ link \in [Dir -> {"absent", "absolute", "relative"}]
    /\ pc \in {"download", "kernel", "unpack", "unpacking", "mark", "verify",
               "relink", "symlink", "patch", "patching", "returned", "aborted"}
    /\ k \in 1..(NKernels + 1) /\ d \in Nat \ {0}
    /\ pc \in {"unpack", "unpacking", "mark", "verify", "symlink", "patch", "patching"}
          => k \in Kernel
    /\ pc \in {"unpacking", "mark", "verify"} => d <= Len(PkgsOf[distro][k])
    /\ dirs \subseteq Kernel
    /\ healthy \in BOOLEAN

\* No two versions of a package share a directory, as they may among local packages.
NoRivalPackages == \A p \in Pkg : Rivals[distro][p] = {}

\* What a marker stands for: its package is wholly in the target, however
\* often the program stopped (toolkit.py:91-93 trusts it), if no other version of
\* the package shares the directory.
MarkedIsUnpacked == NoRivalPackages => marker \subseteq unpacked

\* A kernel goes on to the build only with all its packages in its target, under
\* the same condition.
DirsAreUnpacked ==
    NoRivalPackages =>
        \A n \in dirs : \A i \in 1..Len(PkgsOf[distro][n]) :
            <<TargetOf[distro][n], PkgsOf[distro][n][i]>> \in unpacked

\* "if target path already exists, assume it's complete" (download.py:57): what
\* is at the path of a package is at least a file.  The code refutes it for Debian.
PackagePathIsFile == \A p \in Pkg : package[p] # "dir"

\* It is, except in Debian, which lets docker make directories of what was not
\* downloaded: ubuntu.py looks at all packages of a kernel before it unpacks one,
\* and unpack_rpm does without docker.
LookedAtFirst == Builder # "debian" => PackagePathIsFile

\* A kernel is left out only for a reason of its own: when nothing is missing
\* and nothing fails, all kernels go on to the build, whatever earlier runs
\* left, if they did not leave a directory at the path of a package.
HealthyRunUnpacksAll ==
    (healthy /\ pc = "download" /\ PackagePathIsFile)
        ~> (pc = "returned" /\ dirs = Kernel)

\* In Debian the package with the Makefile of a kernel is one of the packages of the
\* kernel: batch_packages gives each kernel its headers (KernelsAreBatched).
HeadersAmongPackages ==
    \A x \in Distro, n \in Kernel :
        BuilderOf[x] = "debian" => \E i \in 1..Len(PkgsOf[x][n]) : PkgsOf[x][n][i] = HeadersOf[x][n]

\* "a newer package version for the same kernel will overwrite such Makefile
\* ... So we just read it and patch it only if needed" (debian.py:122-125): the
\* build gets no Makefile with paths of the host.
MakefilesPatched ==
    pc = "returned" /\ Builder = "debian" => \A n \in dirs : makefile[DirOf[distro][n]] # "original"

\* What the build gets is the patched Makefile, not the beginning of one.  The
\* code refutes it: a crash leaves one that has nothing to patch.
MakefilesWhole ==
    pc = "returned" /\ Builder = "debian" => \A n \in dirs : makefile[DirOf[distro][n]] = "patched"
=============================================================================
