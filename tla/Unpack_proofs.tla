---------------------------- MODULE Unpack_proofs ----------------------------
(***************************************************************************)
(* Proofs about Unpack, for each distribution, any kernels, packages and   *)
(* targets, and any failures, crashes and runs.                            *)
(***************************************************************************)
EXTENDS Unpack, TLAPS

USE UnpackAssumption

\* The variables that no step of the process changes by itself stay typed, and
\* the position is one in the lists of kernels and packages.
LEMMA UnpackTypeInit == Init => UnpackTypeOK
<1> SUFFICES ASSUME Init PROVE UnpackTypeOK
  OBVIOUS
<1>1. /\ package \in [Pkg -> {"absent", "file", "dir"}]
      /\ makefile \in [Dir -> {"absent", "original", "torn", "patched"}]
      /\ link \in [Dir -> {"absent", "absolute", "relative"}]
  BY DEF Init
<1>2. k \in 1..(NKernels + 1) /\ d \in Nat \ {0} /\ pc = "download"
  BY DEF Init
<1> QED
  BY <1>1, <1>2 DEF Init, UnpackTypeOK

LEMMA PlaceType ==
  ASSUME UnpackTypeOK, k \in Kernel, d <= Len(PkgsOf[distro][k])
  PROVE  d \in 1..Len(PkgsOf[distro][k]) /\ Deb \in Pkg /\ Place \in Target \X Pkg
  BY DEF UnpackTypeOK, Deb, Place

\* Each time the program is called for the same distribution.
LEMMA SameDistro == [Next]_vars => distro' = distro /\ Builder' = Builder
  BY DEF Next, Step, NewRun, Heal, vars, Builder

LEMMA UnpackTypeNext == UnpackTypeOK /\ [Next]_vars => UnpackTypeOK'
<1> SUFFICES ASSUME UnpackTypeOK, [Next]_vars PROVE UnpackTypeOK'
  OBVIOUS
<1> distro' = distro /\ Builder' = Builder
  BY SameDistro
<1> USE DEF UnpackTypeOK, Kernel
<1>0. distro \in Distro /\ \A n \in Kernel : DirOf[distro][n] \in Dir
  OBVIOUS
<1>1. CASE Download
  BY <1>1 DEF Download
<1>2. CASE BeginKernel
  <2>1. k \in Kernel /\ UNCHANGED <<disk, dirs, healthy>>
    BY <1>2 DEF BeginKernel
  <2>2. \/ pc' \in {"unpack", "aborted"} /\ UNCHANGED <<k, d>>
        \/ pc' = "kernel" /\ k' = k + 1 /\ d' = 1
    BY <1>2 DEF BeginKernel, Raise, NextKernel
  <2> QED
    BY <2>1, <2>2 DEF disk
<1>3. CASE EndKernel
  BY <1>3 DEF EndKernel, NextKernel, disk
<1>4. CASE AlreadyUnpacked
  BY <1>4 DEF AlreadyUnpacked, NextPackage, disk
<1>5. CASE NoPackage
  BY <1>5, PlaceType DEF NoPackage, Raise, NextKernel
<1>6. CASE BeginUnpack
  BY <1>6 DEF BeginUnpack
<1>7. CASE EndUnpack
  BY <1>7, PlaceType DEF EndUnpack
<1>8. CASE UnpackFails
  <2>1. pc' \in {"aborted", "kernel"} /\ d' \in Nat \ {0} /\ k' \in 1..(NKernels + 1)
    BY <1>8 DEF UnpackFails, Raise, NextKernel
  <2> QED
    BY <1>8, <2>1 DEF UnpackFails, disk
<1>9. CASE WriteMarker
  <2>1. marker' \subseteq Target \X Pkg
    BY <1>9, PlaceType DEF WriteMarker
  <2>2. d' \in Nat \ {0} /\ (pc' = "verify" => d' = d) /\ pc' \in {"verify", "unpack"}
    BY <1>9 DEF WriteMarker, NextPackage
  <2> QED
    BY <1>9, <2>1, <2>2 DEF WriteMarker
<1>10. CASE Verify
  BY <1>10 DEF Verify, Raise, NextKernel, disk
<1>11. CASE KernelsDone
  BY <1>11 DEF KernelsDone, disk
<1>12. CASE Relink \/ Symlink
  <2>1. link' \in [Dir -> {"absent", "absolute", "relative"}]
    BY <1>0, <1>12 DEF Relink, Symlink, Headers
  <2> QED
    BY <2>1, <1>12 DEF Relink, Symlink
<1>13. CASE BeginPatch \/ EndPatch
  <2>1. makefile' \in [Dir -> {"absent", "original", "torn", "patched"}]
    BY <1>0, <1>13 DEF BeginPatch, EndPatch, Headers
  <2>2. CASE BeginPatch
    BY <2>1, <2>2 DEF BeginPatch
  <2>3. CASE EndPatch
    BY <2>1, <2>3 DEF EndPatch
  <2> QED
    BY <1>13, <2>2, <2>3
<1>14. CASE NoPatch \/ NotInDirs \/ PatchesDone
  <2>1. CASE NoPatch
    <3>1. k \in Kernel /\ UNCHANGED <<disk, d, dirs, healthy>>
      BY <2>1 DEF NoPatch
    <3>2. \/ pc' = "aborted" /\ k' = k
          \/ pc' = "relink" /\ k' = k + 1
      BY <2>1 DEF NoPatch
    <3> QED
      BY <3>1, <3>2 DEF disk
  <2>2. CASE NotInDirs
    BY <2>2 DEF NotInDirs, disk
  <2>3. CASE PatchesDone
    BY <2>3 DEF PatchesDone, disk
  <2> QED
    BY <1>14, <2>1, <2>2, <2>3
<1>15. CASE NewRun
  BY <1>15 DEF NewRun, disk
<1>16. CASE Heal
  BY <1>16 DEF Heal, disk
<1>17. CASE UNCHANGED vars
  BY <1>17 DEF vars, disk
<1> QED
  BY <1>1, <1>2, <1>3, <1>4, <1>5, <1>6, <1>7, <1>8, <1>9, <1>10, <1>11, <1>12,
     <1>13, <1>14, <1>15, <1>16, <1>17 DEF Next, Step

\* Every variable keeps its type, and the loops stay inside their lists.
THEOREM UnpackTypeCorrect == Spec => []UnpackTypeOK
  BY UnpackTypeInit, UnpackTypeNext, PTL DEF Spec

-----------------------------------------------------------------------------
(***************************************************************************)
(* What has a marker wherever the loop is: the packages that it has passed *)
(* and all those of the kernels in kernel_dirs.  A marker is never taken   *)
(* away, so this needs no assumption.                                      *)
(***************************************************************************)
DoneInv ==
    /\ pc = "verify" => Place \in marker
    /\ pc \in {"unpack", "unpacking", "mark", "verify"} =>
         \A i \in 1..Len(PkgsOf[distro][k]) : i < d => <<TargetOf[distro][k], PkgsOf[distro][k][i]>> \in marker
    /\ pc \in {"download", "kernel"} => d = 1
    /\ pc = "download" => k = 1
    /\ \A n \in dirs : \A i \in 1..Len(PkgsOf[distro][n]) : <<TargetOf[distro][n], PkgsOf[distro][n][i]>> \in marker

LEMMA DoneInit == Init => DoneInv
  BY DEF Init, DoneInv

\* The packages before the next one are those before this one, and this one.
LEMMA UpToHere ==
  ASSUME UnpackTypeOK, k \in Kernel
  PROVE  \A i \in 1..Len(PkgsOf[distro][k]) : i < d + 1 => i < d \/ i = d
<1>1. PkgsOf[distro][k] \in Seq(Pkg) /\ d \in Nat
  BY DEF UnpackTypeOK
<1> QED
  BY <1>1

LEMMA DoneNext ==
  ASSUME UnpackTypeOK, DoneInv, [Next]_vars
  PROVE  DoneInv'
<1> USE DEF DoneInv
<1> distro' = distro /\ Builder' = Builder
  BY SameDistro
<1>1. CASE Download
  BY <1>1 DEF Download
<1>2. CASE BeginKernel
  BY <1>2 DEF BeginKernel, Raise, NextKernel, disk, UnpackTypeOK
<1>3. CASE EndKernel
  <2>1. \A i \in 1..Len(PkgsOf[distro][k]) : <<TargetOf[distro][k], PkgsOf[distro][k][i]>> \in marker
    BY <1>3 DEF EndKernel, UnpackTypeOK
  <2> QED
    BY <1>3, <2>1 DEF EndKernel, NextKernel, disk, UnpackTypeOK
<1>4. CASE AlreadyUnpacked
  <2>1. \A i \in 1..Len(PkgsOf[distro][k]) : i < d + 1 => <<TargetOf[distro][k], PkgsOf[distro][k][i]>> \in marker
    BY <1>4, UpToHere DEF AlreadyUnpacked, Place, Deb, UnpackTypeOK
  <2>2. CASE Builder = "debian"
    BY <1>4, <2>2 DEF AlreadyUnpacked, NextPackage, disk, Place, Deb
  <2>3. CASE Builder # "debian"
    BY <1>4, <2>1, <2>3 DEF AlreadyUnpacked, NextPackage, disk
  <2> QED
    BY <2>2, <2>3
<1>5. CASE NoPackage
  BY <1>5 DEF NoPackage, Raise, NextKernel, UnpackTypeOK
<1>6. CASE BeginUnpack \/ EndUnpack
  BY <1>6 DEF BeginUnpack, EndUnpack
<1>8. CASE UnpackFails
  BY <1>8 DEF UnpackFails, Raise, NextKernel, disk, UnpackTypeOK
<1>9. CASE WriteMarker
  <2>1. marker' = marker \cup {Place}
    BY <1>9 DEF WriteMarker
  <2>2. \A i \in 1..Len(PkgsOf[distro][k]) : i < d + 1 => <<TargetOf[distro][k], PkgsOf[distro][k][i]>> \in marker'
    BY <1>9, <2>1, UpToHere DEF WriteMarker, Place, Deb, UnpackTypeOK
  <2>3. \A i \in 1..Len(PkgsOf[distro][k]) : i < d => i < d + 1
    BY <1>9, PlaceType DEF WriteMarker, UnpackTypeOK
  <2>4. CASE Builder = "debian"
    BY <1>9, <2>1, <2>2, <2>3, <2>4 DEF WriteMarker, NextPackage, Place, Deb
  <2>5. CASE Builder # "debian"
    BY <1>9, <2>1, <2>2, <2>5 DEF WriteMarker, NextPackage
  <2> QED
    BY <2>4, <2>5
<1>10. CASE Verify
  <2>1. \A i \in 1..Len(PkgsOf[distro][k]) : i < d + 1 => <<TargetOf[distro][k], PkgsOf[distro][k][i]>> \in marker
    BY <1>10, UpToHere DEF Verify, Place, Deb, UnpackTypeOK
  <2>2. CASE package[Deb] = "file"
    BY <1>10, <2>1, <2>2 DEF Verify, disk
  <2>3. CASE package[Deb] # "file"
    BY <1>10, <2>3 DEF Verify, Raise, NextKernel, disk
  <2> QED
    BY <2>2, <2>3
<1>11. CASE KernelsDone \/ Relink \/ Symlink
  BY <1>11 DEF KernelsDone, Relink, Symlink, disk
<1>12. CASE BeginPatch \/ EndPatch \/ NoPatch \/ NotInDirs \/ PatchesDone
  BY <1>12 DEF BeginPatch, EndPatch, NoPatch, NotInDirs, PatchesDone, disk
<1>13. CASE NewRun
  BY <1>13 DEF NewRun, disk
<1>14. CASE Heal
  BY <1>14 DEF Heal, disk, Place, Deb
<1>15. CASE UNCHANGED vars
  BY <1>15 DEF vars, disk, Place, Deb
<1> QED
  BY <1>1, <1>2, <1>3, <1>4, <1>5, <1>6, <1>8, <1>9, <1>10, <1>11, <1>12,
     <1>13, <1>14, <1>15 DEF Next, Step

\* The loop has a marker for every package behind it, and kernel_dirs only kernels
\* all of whose packages have one.
THEOREM MarkersInOrder == Spec => []DoneInv
<1>1. UnpackTypeOK /\ DoneInv /\ [Next]_vars => DoneInv'
  BY DoneNext
<1> QED
  BY <1>1, DoneInit, UnpackTypeCorrect, PTL DEF Spec

-----------------------------------------------------------------------------
(***************************************************************************)
(* A marker stands for an unpacked package.  It is written when its        *)
(* package is wholly there, and unpacking, which takes files away, is done *)
(* to unmarked packages only; that it takes away none of another package   *)
(* is the assumption.                                                      *)
(***************************************************************************)
MarkerInv ==
    /\ marker \subseteq unpacked
    /\ pc = "unpacking" => Place \notin marker
    /\ pc = "mark" => Place \in unpacked

LEMMA MarkerInit == Init => MarkerInv
  BY DEF Init, MarkerInv

LEMMA MarkerNext ==
  ASSUME NoRivalPackages, UnpackTypeOK, MarkerInv, [Next]_vars
  PROVE  MarkerInv'
<1> USE DEF MarkerInv
<1> distro' = distro
  BY SameDistro
<1>1. CASE Download \/ NoPackage
  BY <1>1 DEF Download, NoPackage, Raise, NextKernel
<1>2. CASE BeginKernel \/ EndKernel \/ UnpackFails \/ Verify
  BY <1>2 DEF BeginKernel, EndKernel, UnpackFails, Verify, Raise, NextKernel, disk
<1>3. CASE AlreadyUnpacked
  BY <1>3 DEF AlreadyUnpacked, NextPackage, disk
<1>4. CASE BeginUnpack
  <2>1. unpacked' = unpacked \ {Place}
    BY <1>4, PlaceType DEF BeginUnpack, NoRivalPackages, Place, UnpackTypeOK
  <2>2. Place' = Place /\ Place \notin marker /\ marker' = marker
    BY <1>4 DEF BeginUnpack, Place, Deb
  <2> QED
    BY <1>4, <2>1, <2>2 DEF BeginUnpack
<1>5. CASE EndUnpack
  BY <1>5 DEF EndUnpack, Place, Deb
<1>6. CASE WriteMarker
  BY <1>6 DEF WriteMarker, NextPackage
<1>7. CASE KernelsDone \/ Relink \/ Symlink
  BY <1>7 DEF KernelsDone, Relink, Symlink, disk
<1>8. CASE BeginPatch \/ EndPatch \/ NoPatch \/ NotInDirs \/ PatchesDone
  BY <1>8 DEF BeginPatch, EndPatch, NoPatch, NotInDirs, PatchesDone, disk
<1>9. CASE NewRun \/ Heal \/ UNCHANGED vars
  BY <1>9 DEF NewRun, Heal, vars, disk, Place, Deb
<1> QED
  BY <1>1, <1>2, <1>3, <1>4, <1>5, <1>6, <1>7, <1>8, <1>9 DEF Next, Step

\* Packages that are rivals stay so.
LEMMA MarkerStep ==
  UnpackTypeOK /\ (NoRivalPackages => MarkerInv) /\ [Next]_vars => (NoRivalPackages => MarkerInv)'
  BY MarkerNext, SameDistro DEF NoRivalPackages

\* Whatever fails and wherever the program stops, a marker is never ahead of
\* the package it stands for.
THEOREM MarkersAreTrue == Spec => []MarkedIsUnpacked
<1>1. (NoRivalPackages => MarkerInv) => MarkedIsUnpacked
  BY DEF MarkerInv, MarkedIsUnpacked
<1> QED
  BY <1>1, MarkerInit, MarkerStep, UnpackTypeCorrect, PTL DEF Spec

\* The build is only given kernels all of whose packages are in their target.
THEOREM DirsAreReady == Spec => []DirsAreUnpacked
<1>1. DoneInv /\ MarkedIsUnpacked => DirsAreUnpacked
  BY DEF DoneInv, MarkedIsUnpacked, DirsAreUnpacked
<1> QED
  BY <1>1, MarkersInOrder, MarkersAreTrue, PTL

-----------------------------------------------------------------------------
(***************************************************************************)
(* Where docker makes directories: only of a package that was not looked   *)
(* at.  A kernel of Ubuntu that is being unpacked has all its packages.    *)
(***************************************************************************)
LookedInv ==
    /\ LookedAtFirst
    /\ Builder = "ubuntu" /\ pc \in {"unpack", "unpacking", "mark"} =>
           \A i \in 1..Len(PkgsOf[distro][k]) : package[PkgsOf[distro][k][i]] = "file"
    /\ Builder = "ubuntu" => pc # "verify"

LEMMA LookedInit == Init => LookedInv
  BY DEF Init, LookedInv, LookedAtFirst, PackagePathIsFile

LEMMA LookedNext ==
  ASSUME UnpackTypeOK, LookedInv, [Next]_vars
  PROVE  LookedInv'
<1> USE DEF LookedInv, LookedAtFirst, PackagePathIsFile
<1> distro' = distro /\ Builder' = Builder
  BY SameDistro
<1>1. CASE Download
  BY <1>1 DEF Download
<1>2. CASE BeginKernel
  BY <1>2 DEF BeginKernel, Raise, NextKernel, disk
<1>3. CASE EndKernel
  BY <1>3 DEF EndKernel, NextKernel, disk
<1>4. CASE AlreadyUnpacked \/ WriteMarker
  BY <1>4 DEF AlreadyUnpacked, WriteMarker, NextPackage, disk
<1>5. CASE NoPackage
  <2>1. Builder \in {"debian", "ubuntu", "centos"}
    BY DEF Builder, UnpackTypeOK
  <2>2. Builder # "ubuntu"
    <3>1. k \in Kernel
      BY <1>5 DEF NoPackage, UnpackTypeOK
    <3>2. d \in 1..Len(PkgsOf[distro][k])
      BY <1>5, <3>1, PlaceType DEF NoPackage
    <3> QED
      BY <1>5, <3>2 DEF NoPackage, Deb
  <2> QED
    BY <1>5, <2>1, <2>2 DEF NoPackage, Raise, NextKernel
<1>6. CASE BeginUnpack \/ EndUnpack
  BY <1>6 DEF BeginUnpack, EndUnpack
<1>7. CASE UnpackFails \/ Verify
  BY <1>7 DEF UnpackFails, Verify, Raise, NextKernel, disk
<1>8. CASE KernelsDone \/ Relink \/ Symlink
  BY <1>8 DEF KernelsDone, Relink, Symlink, disk
<1>9. CASE BeginPatch \/ EndPatch \/ NoPatch \/ NotInDirs \/ PatchesDone
  BY <1>9 DEF BeginPatch, EndPatch, NoPatch, NotInDirs, PatchesDone, disk
<1>10. CASE NewRun \/ Heal \/ UNCHANGED vars
  BY <1>10 DEF NewRun, Heal, vars, disk
<1> QED
  BY <1>1, <1>2, <1>3, <1>4, <1>5, <1>6, <1>7, <1>8, <1>9, <1>10 DEF Next, Step

\* Except in Debian, docker makes no directory at the path of a package.
THEOREM LooksFirst == Spec => []LookedAtFirst
<1>1. LookedInv => LookedAtFirst
  BY DEF LookedInv
<1>2. UnpackTypeOK /\ LookedInv /\ [Next]_vars => LookedInv'
  BY LookedNext
<1> QED
  BY <1>1, <1>2, LookedInit, UnpackTypeCorrect, PTL DEF Spec

-----------------------------------------------------------------------------
(***************************************************************************)
(* In the second loop of debian.py the kernels behind the position are     *)
(* done: nothing there makes a Makefile as it was unpacked again.          *)
(***************************************************************************)
PatchInv ==
    /\ Builder = "debian" /\ pc \in {"relink", "symlink", "patch", "patching"} =>
           \A n \in dirs : n < k => makefile[DirOf[distro][n]] # "original"
    /\ MakefilesPatched

LEMMA PatchInit == Init => PatchInv
  BY DEF Init, PatchInv, MakefilesPatched

LEMMA PatchNext ==
  ASSUME UnpackTypeOK, PatchInv, [Next]_vars
  PROVE  PatchInv'
<1> USE DEF PatchInv, MakefilesPatched
<1> distro' = distro /\ Builder' = Builder
  BY SameDistro
<1>0. /\ k \in 1..(NKernels + 1) /\ \A n \in dirs : n \in Nat \ {0} /\ DirOf[distro][n] \in Dir
      /\ \A n \in dirs : n < k + 1 => n < k \/ n = k
  BY DEF UnpackTypeOK, Kernel
<1>1. CASE Download \/ EndKernel \/ BeginUnpack \/ EndUnpack
  BY <1>1 DEF Download, EndKernel, NextKernel, BeginUnpack, EndUnpack
<1>2. CASE BeginKernel
  BY <1>2 DEF BeginKernel, Raise, NextKernel
<1>3. CASE AlreadyUnpacked \/ WriteMarker
  BY <1>3 DEF AlreadyUnpacked, WriteMarker, NextPackage
<1>4. CASE NoPackage \/ UnpackFails \/ Verify
  BY <1>4 DEF NoPackage, UnpackFails, Verify, Raise, NextKernel
<1>5. CASE KernelsDone
  <2>1. \A n \in dirs : ~(n < 1)
    BY <1>0
  <2> QED
    BY <1>5, <2>1 DEF KernelsDone, disk
<1>6. CASE Relink \/ Symlink
  BY <1>6 DEF Relink, Symlink, disk
<1>7. CASE BeginPatch
  BY <1>0, <1>7 DEF BeginPatch, Headers, UnpackTypeOK
<1>8. CASE EndPatch
  BY <1>0, <1>8 DEF EndPatch, Headers, UnpackTypeOK
<1>9. CASE NoPatch
  BY <1>0, <1>9 DEF NoPatch, PatchNeeded, Headers, disk
<1>10. CASE NotInDirs
  BY <1>0, <1>10 DEF NotInDirs, disk
<1>11. CASE PatchesDone
  <2>1. \A n \in dirs : n < k
    BY <1>11 DEF PatchesDone, UnpackTypeOK, Kernel
  <2> QED
    BY <1>11, <2>1 DEF PatchesDone, disk
<1>12. CASE NewRun \/ Heal \/ UNCHANGED vars
  BY <1>12 DEF NewRun, Heal, vars, disk
<1> QED
  BY <1>1, <1>2, <1>3, <1>4, <1>5, <1>6, <1>7, <1>8, <1>9, <1>10, <1>11, <1>12
  DEF Next, Step

\* The build gets no Makefile with paths of the host, whichever version of the
\* package was unpacked last.
THEOREM PatchedAll == Spec => []MakefilesPatched
<1>1. PatchInv => MakefilesPatched
  BY DEF PatchInv
<1>2. UnpackTypeOK /\ PatchInv /\ [Next]_vars => PatchInv'
  BY PatchNext
<1> QED
  BY <1>1, <1>2, PatchInit, UnpackTypeCorrect, PTL DEF Spec

-----------------------------------------------------------------------------
(***************************************************************************)
(* What a healthy run does of which HealthyRunUnpacksAll says that it ends *)
(* well: it leaves out no kernel and comes to no exception.  The one that  *)
(* nothing handles is that of a kernel without a Makefile, which has one   *)
(* once its headers have a marker, be it of an earlier run.                *)
(***************************************************************************)
HeadersPlace(n) == <<TargetOf[distro][n], HeadersOf[distro][n]>>

MakefileInv ==
    \A n \in Kernel :
        HeadersPlace(n) \in marker \/ (pc = "mark" /\ HeadersPlace(n) = Place) => makefile[DirOf[distro][n]] # "absent"

LEMMA MakefileInit == Init => MakefileInv
  BY DEF Init, MakefileInv

LEMMA MakefileNext ==
  ASSUME UnpackTypeOK, MakefileInv, [Next]_vars
  PROVE  MakefileInv'
<1> distro' = distro /\ Builder' = Builder
  BY SameDistro
<1> \A n \in Kernel : HeadersPlace(n)' = HeadersPlace(n) /\ DirOf[distro][n] \in Dir
  BY DEF HeadersPlace, UnpackTypeOK
<1> USE DEF MakefileInv
<1>1. CASE Download \/ BeginUnpack
  BY <1>1 DEF Download, BeginUnpack
<1>2. CASE NoPackage
  BY <1>2 DEF NoPackage, Raise, NextKernel
<1>3. CASE BeginKernel \/ EndKernel \/ UnpackFails \/ Verify
  BY <1>3 DEF BeginKernel, EndKernel, UnpackFails, Verify, Raise, NextKernel, disk
<1>4. CASE AlreadyUnpacked
  BY <1>4 DEF AlreadyUnpacked, NextPackage, disk
<1>5. CASE EndUnpack
  <2>1. Place' = Place /\ marker' = marker /\ pc = "unpacking"
    BY <1>5 DEF EndUnpack, Place, Deb
  <2>2. ASSUME NEW n \in Kernel, HeadersPlace(n) = Place
        PROVE  DirOf[distro][n] \in Brings
    BY <2>2 DEF HeadersPlace, Place, Brings
  <2> QED
    BY <1>5, <2>1, <2>2 DEF EndUnpack
<1>6. CASE WriteMarker
  BY <1>6 DEF WriteMarker, NextPackage
<1>7. CASE KernelsDone \/ Relink \/ Symlink
  BY <1>7 DEF KernelsDone, Relink, Symlink, disk
<1>8. CASE BeginPatch \/ EndPatch
  BY <1>8 DEF BeginPatch, EndPatch, UnpackTypeOK
<1>9. CASE NoPatch \/ NotInDirs \/ PatchesDone
  BY <1>9 DEF NoPatch, NotInDirs, PatchesDone, disk
<1>10. CASE NewRun \/ Heal \/ UNCHANGED vars
  BY <1>10 DEF NewRun, Heal, vars, disk, Place, Deb
<1> QED
  BY <1>1, <1>2, <1>3, <1>4, <1>5, <1>6, <1>7, <1>8, <1>9, <1>10 DEF Next, Step

\* In a run that began healthy the download found every package, no kernel behind
\* the position is missing, and none is when the loop is over.
InLoop   == pc \in {"kernel", "unpack", "unpacking", "mark", "verify"}
PastLoop == pc \in {"relink", "symlink", "patch", "patching", "returned"}

Smooth ==
    /\ healthy /\ pc # "aborted" /\ PackagePathIsFile
    /\ pc # "download" => \A p \in Pkg : package[p] = "file"
    /\ InLoop => 1..(k - 1) \subseteq dirs
    /\ PastLoop => dirs = Kernel
    /\ PastLoop /\ pc # "returned" => Builder = "debian"

LEMMA SmoothNext ==
  ASSUME HeadersAmongPackages, UnpackTypeOK, DoneInv, MakefileInv, Smooth, [Next]_vars
  PROVE  Smooth'
<1> distro' = distro /\ Builder' = Builder
  BY SameDistro
<1>0. /\ k \in 1..(NKernels + 1) /\ NKernels \in Nat
      /\ 1..(k + 1 - 1) \subseteq 1..(k - 1) \cup {k}
  BY DEF UnpackTypeOK
<1> USE DEF InLoop, PastLoop
<1>1. CASE Download
  <2>1. \A p \in Pkg : package'[p] = "file"
    BY <1>1 DEF Download, Smooth, PackagePathIsFile, UnpackTypeOK
  <2>2. k = 1
    BY <1>1 DEF Download, DoneInv
  <2>3. 1..(k - 1) = {}
    BY <2>2
  <2> QED
    BY <1>1, <2>1, <2>3 DEF Download, Smooth, PackagePathIsFile
<1>2. CASE BeginKernel
  <2>1. \A i \in 1..Len(PkgsOf[distro][k]) : PkgsOf[distro][k][i] \in Pkg
    BY <1>2 DEF BeginKernel, UnpackTypeOK, Kernel
  <2>2. pc' = "unpack" /\ k' = k
    BY <1>2, <2>1 DEF BeginKernel, Smooth
  <2> QED
    BY <1>2, <2>2 DEF BeginKernel, Smooth, PackagePathIsFile, disk
<1>3. CASE EndKernel
  BY <1>0, <1>3 DEF EndKernel, NextKernel, Smooth, PackagePathIsFile, disk
<1>4. CASE AlreadyUnpacked \/ WriteMarker
  BY <1>4 DEF AlreadyUnpacked, WriteMarker, NextPackage, Smooth, PackagePathIsFile, disk
<1>5. CASE NoPackage
  BY <1>5, PlaceType DEF NoPackage, Smooth, UnpackTypeOK
<1>6. CASE BeginUnpack \/ EndUnpack
  BY <1>6 DEF BeginUnpack, EndUnpack, Smooth, PackagePathIsFile
<1>7. CASE UnpackFails
  BY <1>7 DEF UnpackFails, Smooth
<1>8. CASE Verify
  <2>1. Deb \in Pkg
    BY <1>8, PlaceType DEF Verify, UnpackTypeOK
  <2> QED
    BY <1>8, <2>1 DEF Verify, Smooth, PackagePathIsFile, disk
<1>9. CASE KernelsDone
  <2>1. k - 1 = NKernels
    BY <1>0, <1>9 DEF KernelsDone
  <2>2. dirs = Kernel
    BY <1>9, <2>1 DEF KernelsDone, Smooth, UnpackTypeOK, Kernel
  <2> QED
    BY <1>9, <2>2 DEF KernelsDone, Smooth, PackagePathIsFile, disk
<1>10. CASE Relink \/ Symlink \/ BeginPatch \/ EndPatch
  BY <1>10 DEF Relink, Symlink, BeginPatch, EndPatch, Smooth, PackagePathIsFile
<1>11. CASE NoPatch
  <2>1. k \in Kernel /\ k \in dirs /\ distro \in Distro /\ BuilderOf[distro] = "debian"
    BY <1>11 DEF NoPatch, Smooth, UnpackTypeOK, Builder
  <2>2. HeadersPlace(k) \in marker
    BY <2>1 DEF HeadersAmongPackages, DoneInv, HeadersPlace
  <2>3. makefile[Headers] # "absent"
    BY <2>1, <2>2 DEF MakefileInv, Headers
  <2> QED
    BY <1>11, <2>3 DEF NoPatch, Smooth, PackagePathIsFile, disk
<1>12. CASE NotInDirs \/ PatchesDone
  BY <1>12 DEF NotInDirs, PatchesDone, Smooth, PackagePathIsFile, disk
<1>13. CASE NewRun
  BY <1>13 DEF NewRun, Smooth, PackagePathIsFile, disk
<1>14. CASE Heal \/ UNCHANGED vars
  BY <1>14 DEF Heal, vars, Smooth, PackagePathIsFile, disk
<1> QED
  BY <1>1, <1>2, <1>3, <1>4, <1>5, <1>6, <1>7, <1>8, <1>9, <1>10, <1>11, <1>12,
     <1>13, <1>14 DEF Next, Step

\* A kernel is left out only for a reason of its own: from the download of a healthy
\* run on, no exception ends this run or a later one, and each that returns gives
\* all kernels to the build, whatever earlier runs left in the directories.
THEOREM HealthyLeavesNoneOut ==
  ASSUME HeadersAmongPackages
  PROVE  Spec => [](healthy /\ pc = "download" /\ PackagePathIsFile
                        => [](pc # "aborted" /\ (pc = "returned" => dirs = Kernel)))
<1>1. UnpackTypeOK /\ DoneInv /\ MakefileInv /\ Smooth /\ [Next]_vars => Smooth'
  BY SmoothNext
<1>2. UnpackTypeOK /\ MakefileInv /\ [Next]_vars => MakefileInv'
  BY MakefileNext
<1>3. healthy /\ pc = "download" /\ PackagePathIsFile => Smooth
  BY DEF Smooth, InLoop, PastLoop
<1>4. Smooth => pc # "aborted" /\ (pc = "returned" => dirs = Kernel)
  BY DEF Smooth, PastLoop
<1> QED
  BY <1>1, <1>2, <1>3, <1>4, MakefileInit, MarkersInOrder, UnpackTypeCorrect, PTL DEF Spec
=============================================================================
