------------------------- MODULE ProbeLoader_proofs -------------------------
(***************************************************************************)
(* Proofs about ProbeLoader, for any versions, kernels and environments,   *)
(* any number of runs, reboots and upgrades, and all failures.             *)
(***************************************************************************)
EXTENDS ProbeLoader, TLAPS

USE LoaderAssumption

(***************************************************************************)
(* Types.                                                                  *)
(***************************************************************************)
Places == {"idle", "universal", "unload", "config", "dkms", "built", "modprobe",
           "insmod", "xz", "sources", "make", "mv", "decide", "fetch", "transfer", "link"}

LEMMA LoaderTypeInit == Init => LoaderTypeOK
<1> SUFFICES ASSUME Init PROVE LoaderTypeOK
  OBVIOUS
<1>1. file \in [Kind -> [Name -> Probe \cup {Part, Page, None}]]
  BY DEF Init
<1>2. wait \in 0..(MaxRmmodWait + 1)
  BY DEF Init
<1> QED
  BY <1>1, <1>2 DEF Init, LoaderTypeOK, Result

\* What the running script works on.
LEMMA TargetType ==
  ASSUME LoaderTypeOK
  PROVE  TheKind \in Kind /\ TheName \in Name /\ Target \in Probe
  BY DEF LoaderTypeOK, TheKind, TheName, Target, Kind, Name, Probe

LEMMA SaveType ==
  ASSUME LoaderTypeOK, NEW c \in Probe \cup {Part, Page, None}, Save(c)
  PROVE  file' \in [Kind -> [Name -> Probe \cup {Part, Page, None}]]
  BY TargetType DEF LoaderTypeOK, Save

LEMMA SavedType ==
  ASSUME LoaderTypeOK
  PROVE  TheFile \in Probe \cup {Part, Page, None}
  BY TargetType DEF LoaderTypeOK, TheFile

LEMMA DownloadType ==
  ASSUME LoaderTypeOK, NEW zero \in BOOLEAN, NEW c \in Probe \cup {Part, Page, None}, Download(zero, c)
  PROVE  LoaderTypeOK'
<1>1. file' \in [Kind -> [Name -> Probe \cup {Part, Page, None}]]
  BY SaveType DEF Download
<1>2. pc' \in Places /\ result' \in Result /\ fetched' \in {"yes", "failed"}
  <2>1. CASE TheKind = "kmod" /\ zero
    BY <2>1 DEF Download, Goto, Places, LoaderTypeOK
  <2>2. CASE TheKind = "bpf" /\ c # None
    BY <2>2 DEF Download, Goto, Places, LoaderTypeOK
  <2>3. CASE ~(TheKind = "kmod" /\ zero) /\ ~(TheKind = "bpf" /\ c # None)
    BY <2>3 DEF Download, Return, Places, Result
  <2> QED
    BY <2>1, <2>2, <2>3
<1> QED
  BY <1>1, <1>2 DEF Download, LoaderTypeOK, Places, host

LEMMA LoaderTypeNext == LoaderTypeOK /\ [Next]_vars => LoaderTypeOK'
<1> SUFFICES ASSUME LoaderTypeOK, [Next]_vars PROVE LoaderTypeOK'
  OBVIOUS
<1> USE DEF host, disk, run, Goto, Return, Result, Loads
<1>1. ASSUME NEW e \in Env, Start(e) PROVE LoaderTypeOK'
  <2>1. CASE Conflicting(e)
    BY <1>1, <2>1 DEF Start, LoaderTypeOK
  <2>2. CASE ~Conflicting(e)
    <3>1. result' = "none" /\ pc' \in {"universal", "config", "unload"}
      BY <1>1, <2>2 DEF Start
    <3> QED
      BY <1>1, <3>1 DEF Start, LoaderTypeOK
  <2> QED
    BY <2>1, <2>2
<1>2. CASE Universal \/ ToolsMissing \/ NothingLoaded \/ RmmodSucceeds \/ RmmodFails \/ StillLoaded \/ NoConfig
  BY <1>2 DEF Universal, ToolsMissing, NothingLoaded, RmmodSucceeds, RmmodFails, StillLoaded,
              NoConfig, LoaderTypeOK
<1>3. CASE Config
  <2>1. pc' \in Places /\ UNCHANGED <<host, disk, run, wait, result>>
    BY <1>3 DEF Config, Places
  <2> QED
    BY <2>1 DEF LoaderTypeOK, Places
<1>4. CASE DkmsInstalls \/ DkmsFails \/ BuiltRefused \/ ModprobeFails \/ InsmodRefused \/ XzRefused
  BY <1>4 DEF DkmsInstalls, DkmsFails, BuiltRefused, ModprobeFails, InsmodRefused, XzRefused, LoaderTypeOK
<1>5. CASE BuiltLoads \/ Modprobe \/ Insmod
  <2>1. PICK p, r : Load(p, r) /\ p \in Probe /\ r \in Loads
    BY <1>5, TargetType DEF BuiltLoads, Modprobe, Insmod, Fits, Probe, LoaderTypeOK
  <2> QED
    BY <2>1 DEF Load, LoaderTypeOK
<1>6. CASE Sources \/ SourcesFail \/ NoDownload \/ CannotRemove \/ NothingThere \/ Symlink \/ SymlinkFails
  BY <1>6, TargetType DEF Sources, SourcesFail, NoDownload, CannotRemove, NothingThere, Symlink,
                          SymlinkFails, LoaderTypeOK
<1>7. CASE Make
  BY <1>7, TargetType DEF Make, LoaderTypeOK
<1>8. CASE Mv
  <2>1. CASE object[version] = None
    BY <1>8, <2>1 DEF Mv, LoaderTypeOK
  <2>2. CASE object[version] # None
    <3>1. file' \in [Kind -> [Name -> Probe \cup {Part, Page, None}]]
      BY <1>8, <2>2, SaveType DEF Mv, LoaderTypeOK
    <3> QED
      BY <1>8, <2>2, <3>1 DEF Mv, LoaderTypeOK
  <2> QED
    BY <2>1, <2>2
<1>9. CASE RemoveLeftover \/ CurlBegins
  <2>1. file' \in [Kind -> [Name -> Probe \cup {Part, Page, None}]]
    BY <1>9, SaveType DEF RemoveLeftover, CurlBegins
  <2> QED
    BY <1>9, <2>1 DEF RemoveLeftover, CurlBegins, LoaderTypeOK
<1>10. CASE NotServed \/ Unreachable \/ CurlEnds \/ CurlBreaks
  <2>1. \E zero \in BOOLEAN, c \in Probe \cup {Part, Page, None} : Download(zero, c)
    <3>1. Served[TheKind][TheName] \in Probe \cup {None}
      BY TargetType
    <3> QED
      BY <1>10, <3>1, SavedType DEF NotServed, Unreachable, CurlEnds, CurlBreaks
  <2> QED
    BY <2>1, DownloadType
<1>11. CASE AgentUses \/ AgentStops \/ Killed \/ Reboot \/ Upgrade
  BY <1>11 DEF AgentUses, AgentStops, Killed, Reboot, Upgrade, LoaderTypeOK
<1>12. CASE UNCHANGED vars
  BY <1>12 DEF vars, LoaderTypeOK
<1> QED
  BY <1>1, <1>2, <1>3, <1>4, <1>5, <1>6, <1>7, <1>8, <1>9, <1>10, <1>11, <1>12 DEF Next, Step

\* Every variable of the script and of what it leaves behind keeps its type.
THEOREM LoaderTypeCorrect == Spec => []LoaderTypeOK
  BY LoaderTypeInit, LoaderTypeNext, PTL DEF Spec

-----------------------------------------------------------------------------
(***************************************************************************)
(* A forced download.  Nothing is built, and what is loaded or linked      *)
(* comes after a call of curl, or of rm that fails.                        *)
(***************************************************************************)
Building == {"dkms", "built", "modprobe", "sources", "make", "mv"}

FreshInv ==
    /\ pc # "idle" => result = "none"
    /\ env.force = {"download"} =>
           /\ pc \notin Building
           /\ pc \in {"insmod", "xz", "link"} => fetched # "no"
           /\ result \in Loads \cup {"linked"} => fetched # "no"

\* A download leads to the use of a file or to a failure.
LEMMA DownloadEnds ==
  ASSUME NEW zero \in BOOLEAN, NEW c, Download(zero, c)
  PROVE  /\ env' = env /\ fetched' \in {"yes", "failed"}
         /\ (pc' \in {"insmod", "link"} /\ result' = result) \/ (pc' = "idle" /\ result' = "failed")
<1>1. CASE TheKind = "kmod" /\ zero
  BY <1>1 DEF Download, Goto
<1>2. CASE TheKind = "bpf" /\ c # None
  BY <1>2 DEF Download, Goto
<1>3. CASE ~(TheKind = "kmod" /\ zero) /\ ~(TheKind = "bpf" /\ c # None)
  BY <1>3 DEF Download, Return
<1> QED
  BY <1>1, <1>2, <1>3

LEMMA FreshInit == Init => FreshInv
  BY DEF Init, FreshInv, Building, Loads

LEMMA FreshNext == FreshInv /\ [Next]_vars => FreshInv'
<1> SUFFICES ASSUME FreshInv, [Next]_vars PROVE FreshInv'
  OBVIOUS
<1> USE DEF FreshInv, Building, Loads, host, disk, run, Goto, Return
<1>1. ASSUME NEW e \in Env, Start(e) PROVE FreshInv'
  <2>1. pc' \in {"idle", "universal", "config", "unload"} /\ result' \in {"none", "unable"}
        /\ (pc' # "idle" => result' = "none")
    BY <1>1 DEF Start
  <2> QED
    BY <2>1
<1>2. CASE Universal \/ ToolsMissing \/ NothingLoaded \/ RmmodSucceeds \/ RmmodFails \/ StillLoaded \/ NoConfig
  BY <1>2 DEF Universal, ToolsMissing, NothingLoaded, RmmodSucceeds, RmmodFails, StillLoaded, NoConfig
<1>3. CASE Config
  <2>1. /\ pc = "config" /\ UNCHANGED <<env, fetched, result>>
        /\ pc' \in {"fetch", "modprobe", "dkms", "decide", "sources", "make"}
        /\ env.force = {"download"} => pc' \in {"fetch", "decide"}
    BY <1>3 DEF Config, Forced
  <2> QED
    BY <2>1
<1>4. CASE DkmsInstalls \/ DkmsFails \/ BuiltRefused \/ ModprobeFails \/ InsmodRefused \/ XzRefused
  BY <1>4 DEF DkmsInstalls, DkmsFails, BuiltRefused, ModprobeFails, InsmodRefused, XzRefused
<1>5. CASE BuiltLoads \/ Modprobe \/ Insmod
  BY <1>5 DEF BuiltLoads, Modprobe, Insmod, Load
<1>6. CASE NoDownload
  BY <1>6 DEF NoDownload, Forced
<1>7. CASE Sources \/ SourcesFail \/ CannotRemove \/ NothingThere \/ Symlink \/ SymlinkFails
  BY <1>7 DEF Sources, SourcesFail, CannotRemove, NothingThere, Symlink, SymlinkFails
<1>8. CASE Make \/ Mv \/ RemoveLeftover \/ CurlBegins
  BY <1>8 DEF Make, Mv, RemoveLeftover, CurlBegins
<1>9. CASE NotServed \/ Unreachable \/ CurlEnds \/ CurlBreaks
  <2>1. PICK zero, c : zero \in BOOLEAN /\ Download(zero, c) /\ pc \in {"fetch", "transfer"}
    BY <1>9 DEF NotServed, Unreachable, CurlEnds, CurlBreaks
  <2>2. /\ env' = env /\ fetched' \in {"yes", "failed"}
        /\ (pc' \in {"insmod", "link"} /\ result' = result) \/ (pc' = "idle" /\ result' = "failed")
    BY <2>1, DownloadEnds
  <2> QED
    BY <2>1, <2>2
<1>10. CASE AgentUses \/ AgentStops \/ Killed \/ Reboot \/ Upgrade
  BY <1>10 DEF AgentUses, AgentStops, Killed, Reboot, Upgrade
<1>11. CASE UNCHANGED vars
  BY <1>11 DEF vars
<1> QED
  BY <1>1, <1>2, <1>3, <1>4, <1>5, <1>6, <1>7, <1>8, <1>9, <1>10, <1>11 DEF Next, Step

\* With SYSDIG_FORCE_DOWNLOAD_PROBE no leftover is loaded or linked without a call
\* of curl, or a complaint that it cannot be removed.
THEOREM ForcedDownloadsAreFresh == Spec => []ForcedDownloadIsFresh
<1>1. FreshInv => ForcedDownloadIsFresh
  BY DEF FreshInv, ForcedDownloadIsFresh
<1> QED
  BY <1>1, FreshInit, FreshNext, PTL DEF Spec

-----------------------------------------------------------------------------
(***************************************************************************)
(* Kernel modules, served under their names.  The eBPF probe has none of   *)
(* this: mv takes a probe.o that an earlier run built for another kernel.  *)
(***************************************************************************)
ModulesOnly   == \A e \in Env : e.agent # "legacy_ebpf" /\ ~e.bpf
ServedAsNamed == \A x \in Kind, n \in Probe : Served[x][n] \in {n, None}

ForBpf == {"sources", "make", "mv", "decide", "link"}

NamedInv == pc \notin ForBpf /\ FilesAreWhatTheyAreNamed

LEMMA KmodOnly ==
  ASSUME ModulesOnly, LoaderTypeOK
  PROVE  TheKind = "kmod"
  BY DEF ModulesOnly, LoaderTypeOK, TheKind

LEMMA SaveNamed ==
  ASSUME LoaderTypeOK, Site \notin Probe, NamedInv,
         NEW c \in {TheName, TheFile, Part, Page, None}, Save(c)
  PROVE  FilesAreWhatTheyAreNamed'
<1> SUFFICES ASSUME NEW x \in Kind, NEW n \in Probe
             PROVE  file'[x][n] \in {n, Part, Page, None}
  BY DEF FilesAreWhatTheyAreNamed
<1>1. file[x][n] \in {n, Part, Page, None} /\ n \in Name
  BY DEF NamedInv, FilesAreWhatTheyAreNamed, Name
<1>2. CASE x = TheKind /\ n = TheName
  BY <1>1, <1>2 DEF Save, LoaderTypeOK, TheFile
<1>3. CASE ~(x = TheKind /\ n = TheName)
  BY <1>1, <1>3, TargetType DEF Save, LoaderTypeOK
<1> QED
  BY <1>2, <1>3

LEMMA NamedInit == Init => NamedInv
  BY DEF Init, NamedInv, ForBpf, FilesAreWhatTheyAreNamed, Name

LEMMA NamedNext ==
  ASSUME ModulesOnly, ServedAsNamed, Site \notin Probe, LoaderTypeOK, LoaderTypeOK', NamedInv, [Next]_vars
  PROVE  NamedInv'
<1> USE DEF NamedInv, ForBpf, host, disk, run, Goto, Return
<1>0. TheKind = "kmod" /\ TheKind' = "kmod"
  BY KmodOnly DEF ModulesOnly, LoaderTypeOK, TheKind
<1>1. ASSUME NEW e \in Env, Start(e) PROVE NamedInv'
  <2>1. pc' \in {"idle", "universal", "config", "unload"} /\ file' = file
    BY <1>1 DEF Start
  <2> QED
    BY <2>1 DEF FilesAreWhatTheyAreNamed
<1>2. CASE Config
  <2>1. pc' \in {"fetch", "modprobe", "dkms"} /\ file' = file
    BY <1>0, <1>2 DEF Config
  <2> QED
    BY <2>1 DEF FilesAreWhatTheyAreNamed
<1>3. CASE CurlBegins
  BY <1>3, SaveNamed DEF CurlBegins
<1>4. CASE NotServed \/ Unreachable \/ CurlEnds \/ CurlBreaks
  <2>1. PICK zero, c : /\ zero \in BOOLEAN /\ Download(zero, c)
                      /\ c \in {TheFile, Part, Page, Served[TheKind][TheName]}
    BY <1>4 DEF NotServed, Unreachable, CurlEnds, CurlBreaks
  <2>2. pc' \in {"insmod", "idle"} /\ Save(c)
    BY <1>0, <2>1 DEF Download
  <2>3. CASE TheName \in Probe
    <3>1. Served[TheKind][TheName] \in {TheName, None}
      BY <2>3, TargetType DEF ServedAsNamed
    <3>2. c \in {TheName, TheFile, Part, Page, None}
      BY <2>1, <3>1
    <3> QED
      BY <2>2, <3>2, SaveNamed
  <2>4. CASE TheName \notin Probe
    <3>1. \A x \in Kind, n \in Probe : file'[x][n] = file[x][n]
      BY <2>2, <2>4, TargetType DEF Save, LoaderTypeOK, Name
    <3> QED
      BY <2>2, <3>1 DEF FilesAreWhatTheyAreNamed
  <2> QED
    BY <2>3, <2>4
<1>5. CASE file' = file /\ pc' \notin ForBpf
  BY <1>5 DEF FilesAreWhatTheyAreNamed
<1>6. CASE \/ Universal \/ ToolsMissing \/ NothingLoaded \/ RmmodSucceeds \/ RmmodFails \/ StillLoaded
           \/ NoConfig \/ DkmsInstalls \/ DkmsFails \/ BuiltRefused \/ ModprobeFails
           \/ InsmodRefused \/ XzRefused \/ BuiltLoads \/ Modprobe \/ Insmod
  BY <1>5, <1>6 DEF Universal, ToolsMissing, NothingLoaded, RmmodSucceeds, RmmodFails, StillLoaded,
     NoConfig, DkmsInstalls, DkmsFails, BuiltRefused, ModprobeFails, InsmodRefused, XzRefused,
     BuiltLoads, Modprobe, Insmod, Load
<1>7. CASE \/ Sources \/ SourcesFail \/ Make \/ Mv \/ NoDownload \/ RemoveLeftover
           \/ CannotRemove \/ NothingThere \/ Symlink \/ SymlinkFails
  BY <1>7 DEF Sources, SourcesFail, Make, Mv, NoDownload, RemoveLeftover, CannotRemove,
     NothingThere, Symlink, SymlinkFails
<1>8. CASE AgentUses \/ AgentStops \/ Killed \/ Reboot \/ Upgrade \/ UNCHANGED vars
  BY <1>5, <1>8 DEF AgentUses, AgentStops, Killed, Reboot, Upgrade, vars
<1> QED
  BY <1>1, <1>2, <1>3, <1>4, <1>6, <1>7, <1>8 DEF Next, Step

LEMMA LoadedNext ==
  ASSUME ModulesOnly, ~Override, LoaderTypeOK, FreshInv, NamedInv, LoadedIsAppropriate, [Next]_vars
  PROVE  LoadedIsAppropriate'
<1> USE DEF LoadedIsAppropriate, Loads, Fits, Target, host, disk, run, Goto, Return
<1>1. CASE result' \notin Loads
  BY <1>1
<1>2. CASE UNCHANGED <<version, kernel, loaded, result>>
  BY <1>2
<1>3. CASE Insmod
  <2>1. TheFile \in Version \X {kernel} /\ loaded' = TheFile
    BY <1>3 DEF Insmod, Load
  <2>2. TheFile \in {Target, Part, Page, None}
    BY TargetType, KmodOnly DEF NamedInv, FilesAreWhatTheyAreNamed, TheFile, TheName
  <2>3. TheFile \in Probe
    BY <2>1 DEF Probe, LoaderTypeOK
  <2> QED
    BY <1>3, <2>1, <2>2, <2>3 DEF Insmod, Load
<1>4. CASE BuiltLoads
  BY <1>4 DEF BuiltLoads, Load, LoaderTypeOK
<1>5. CASE Modprobe
  BY <1>5 DEF Modprobe, Load, LoaderTypeOK
<1>6. CASE pc # "idle" /\ UNCHANGED result
  BY <1>1, <1>6 DEF FreshInv
<1>7. ASSUME NEW e \in Env, Start(e) PROVE result' \notin Loads
  <2>1. result' \in {"none", "unable"}
    BY <1>7 DEF Start
  <2> QED
    BY <2>1
<1>8. CASE NotServed \/ Unreachable \/ CurlEnds \/ CurlBreaks
  <2>1. PICK zero, c : Download(zero, c)
    BY <1>8 DEF NotServed, Unreachable, CurlEnds, CurlBreaks
  <2>2. result' \in {result, "failed"} /\ pc # "idle"
    BY <1>8, <2>1 DEF Download, NotServed, Unreachable, CurlEnds, CurlBreaks
  <2> QED
    BY <1>1, <1>6, <2>2
<1>9. CASE Step /\ ~Insmod /\ ~BuiltLoads /\ ~Modprobe /\ ~NotServed /\ ~Unreachable /\ ~CurlEnds /\ ~CurlBreaks
  <2>1. pc # "idle" /\ (UNCHANGED result \/ result' \notin Loads)
    BY <1>9 DEF Step, Universal, ToolsMissing, NothingLoaded, RmmodSucceeds, RmmodFails, StillLoaded,
       NoConfig, Config, DkmsInstalls, DkmsFails, BuiltRefused, ModprobeFails, InsmodRefused,
       XzRefused, Sources, SourcesFail, Make, Mv, NoDownload, RemoveLeftover, CannotRemove,
       NothingThere, Symlink, SymlinkFails, CurlBegins
  <2> QED
    BY <1>1, <1>6, <2>1
<1>10. CASE AgentUses \/ AgentStops \/ Killed \/ Reboot \/ Upgrade \/ UNCHANGED vars
  BY <1>1, <1>2, <1>10 DEF AgentUses, AgentStops, Killed, Reboot, Upgrade, vars
<1> QED
  BY <1>1, <1>3, <1>4, <1>5, <1>7, <1>8, <1>9, <1>10 DEF Next

\* When the script reports success, the module in the kernel is for this kernel, and
\* but for modprobe's choice of this version of the agent.
THEOREM LoadedAreAppropriate ==
  ASSUME ModulesOnly, ServedAsNamed, Site \notin Probe, ~Override
  PROVE  Spec => []LoadedIsAppropriate
<1>1. LoaderTypeOK /\ LoaderTypeOK' /\ NamedInv /\ [Next]_vars => NamedInv'
  BY NamedNext
<1>2. LoaderTypeOK /\ FreshInv /\ NamedInv /\ LoadedIsAppropriate /\ [Next]_vars => LoadedIsAppropriate'
  BY LoadedNext
<1>3. Init => LoadedIsAppropriate
  BY DEF Init, LoadedIsAppropriate, Loads
<1> QED
  BY <1>1, <1>2, <1>3, NamedInit, FreshInit, FreshNext, LoaderTypeCorrect, PTL DEF Spec

-----------------------------------------------------------------------------
(***************************************************************************)
(* A forced download in a run without failures.                            *)
(***************************************************************************)
Undisturbed == healthy /\ env.force = {"download"} /\ Served[TheKind][TheName] = Target

SucceedsInv ==
    Undisturbed =>
        /\ result # "failed"
        /\ pc \in {"insmod", "xz"} => TheFile = Target
        /\ pc = "link" => Exists

LEMMA SucceedsInit == Init => SucceedsInv
  BY DEF Init, SucceedsInv

\* While the script runs, what it looks for stays the same.
LEMMA SameTarget ==
  ASSUME UNCHANGED <<version, kernel, env>>
  PROVE  UNCHANGED <<TheKind, TheName, Target>>
  BY DEF TheKind, TheName, Target

LEMMA CurlSucceeds ==
  ASSUME LoaderTypeOK, SucceedsInv, CurlEnds
  PROVE  SucceedsInv'
<1> SUFFICES ASSUME Undisturbed' PROVE SucceedsInv'
  BY DEF SucceedsInv
<1> DEFINE c == Served[TheKind][TheName]
<1>1. Download(TRUE, c)
  BY DEF CurlEnds
<1>2. UNCHANGED <<version, kernel, env, healthy>> /\ Save(c)
  BY <1>1 DEF Download, host
<1>3. UNCHANGED <<TheKind, TheName, Target>>
  BY <1>2, SameTarget
<1>4. Undisturbed /\ c = Target
  BY <1>2, <1>3 DEF Undisturbed
<1>5. TheFile' = Target' /\ Target # None
  BY <1>2, <1>3, <1>4, TargetType DEF Save, TheFile, LoaderTypeOK
<1>6. pc' \in {"insmod", "link"} /\ result' = result
  <2>1. CASE TheKind = "kmod"
    BY <1>1, <2>1 DEF Download, Goto
  <2>2. CASE TheKind = "bpf"
    BY <1>1, <1>4, <1>5, <2>2 DEF Download, Goto
  <2> QED
    BY <2>1, <2>2, TargetType DEF Kind
<1> QED
  BY <1>3, <1>4, <1>5, <1>6 DEF SucceedsInv, Exists

LEMMA SucceedsNext ==
  ASSUME LoaderTypeOK, FreshInv, SucceedsInv, [Next]_vars
  PROVE  SucceedsInv'
<1> USE DEF host, disk, run, Goto, Return, Building
<1>1. CASE result' # "failed" /\ pc' \notin {"insmod", "xz", "link"}
  BY <1>1 DEF SucceedsInv
<1>2. ASSUME NEW e \in Env, Start(e) PROVE SucceedsInv'
  <2>1. pc' \in {"idle", "universal", "config", "unload"} /\ result' \in {"none", "unable"}
    BY <1>2 DEF Start
  <2> QED
    BY <1>1, <2>1
<1>3. CASE \/ Universal \/ ToolsMissing \/ NothingLoaded \/ RmmodSucceeds \/ RmmodFails \/ StillLoaded
           \/ NoConfig \/ RemoveLeftover \/ NothingThere \/ CurlBegins \/ Symlink \/ Killed
           \/ Reboot \/ Upgrade
  <2>1. pc # "idle" => result # "failed"
    BY DEF FreshInv
  <2> QED
    BY <1>1, <1>3, <2>1 DEF Universal, ToolsMissing, NothingLoaded, RmmodSucceeds, RmmodFails,
       StillLoaded, NoConfig, RemoveLeftover, NothingThere, CurlBegins, Symlink, Killed, Reboot, Upgrade
<1>4. CASE Config
  <2>1. /\ pc = "config" /\ result' = result
        /\ pc' \in {"fetch", "modprobe", "dkms", "decide", "sources", "make"}
    BY <1>4 DEF Config
  <2> QED
    BY <1>1, <2>1 DEF FreshInv
<1>5. CASE CurlEnds
  BY <1>5, CurlSucceeds
<1>6. CASE Insmod
  BY <1>1, <1>6 DEF Insmod, Load
<1>7. CASE /\ UNCHANGED <<version, kernel, env, healthy, file>>
           /\ UNCHANGED result /\ (UNCHANGED pc \/ InsmodRefused \/ CannotRemove)
  <2>1. UNCHANGED <<TheKind, TheName, Target, TheFile>>
    BY <1>7, SameTarget DEF TheFile
  <2> QED
    BY <1>7, <2>1 DEF SucceedsInv, Undisturbed, Exists, InsmodRefused, CannotRemove
<1>8. CASE InsmodRefused \/ CannotRemove \/ AgentUses \/ AgentStops \/ UNCHANGED vars
  BY <1>7, <1>8 DEF InsmodRefused, CannotRemove, AgentUses, AgentStops, vars
<1>9. CASE \/ DkmsInstalls \/ DkmsFails \/ BuiltLoads \/ BuiltRefused \/ Modprobe \/ ModprobeFails
           \/ Sources \/ SourcesFail \/ Make \/ Mv \/ NoDownload
           \/ XzRefused \/ SymlinkFails \/ NotServed \/ Unreachable \/ CurlBreaks
  <2>1. UNCHANGED <<version, kernel, env, healthy>>
    BY <1>9 DEF DkmsInstalls, DkmsFails, BuiltLoads, BuiltRefused, Modprobe, ModprobeFails, Load, Sources,
       SourcesFail, Make, Mv, NoDownload, XzRefused, SymlinkFails, NotServed, Unreachable, CurlBreaks, Download
  <2>2. UNCHANGED Undisturbed
    BY <2>1, SameTarget DEF Undisturbed
  <2>3. ~Undisturbed
    <3> SUFFICES ASSUME Undisturbed PROVE FALSE
      OBVIOUS
    <3>1. Fits(Target) /\ Target # None
      BY TargetType DEF Fits, Target, LoaderTypeOK
    <3>2. CASE \/ DkmsInstalls \/ DkmsFails \/ BuiltLoads \/ BuiltRefused \/ Modprobe \/ ModprobeFails
               \/ Sources \/ SourcesFail \/ Make \/ Mv
      BY <3>2 DEF DkmsInstalls, DkmsFails, BuiltLoads, BuiltRefused, Modprobe, ModprobeFails, Sources,
         SourcesFail, Make, Mv, FreshInv, Undisturbed
    <3>3. CASE NoDownload
      BY <3>3 DEF NoDownload, Forced, Undisturbed
    <3>4. CASE XzRefused \/ SymlinkFails \/ NotServed \/ Unreachable \/ CurlBreaks
      BY <3>1, <3>4 DEF XzRefused, SymlinkFails, NotServed, Unreachable, CurlBreaks, SucceedsInv, Undisturbed
    <3> QED
      BY <1>9, <3>2, <3>3, <3>4
  <2> QED
    BY <2>2, <2>3 DEF SucceedsInv
<1> QED
  BY <1>2, <1>3, <1>4, <1>5, <1>6, <1>8, <1>9 DEF Next, Step

\* A forced download that meets no failure, and is served its probe, does not end
\* in one, whatever earlier runs left behind and whether or not it can be removed.
THEOREM HealthyDownloadsSucceed == Spec => []HealthyDownloadSucceeds
<1>1. LoaderTypeOK /\ FreshInv /\ SucceedsInv /\ [Next]_vars => SucceedsInv'
  BY SucceedsNext
<1>2. SucceedsInv => HealthyDownloadSucceeds
  BY DEF SucceedsInv, Undisturbed, HealthyDownloadSucceeds
<1> QED
  BY <1>1, <1>2, SucceedsInit, FreshInit, FreshNext, LoaderTypeCorrect, PTL DEF Spec

-----------------------------------------------------------------------------
(***************************************************************************)
(* A forced build.  Every way to curl looks at the variable.               *)
(***************************************************************************)
LEMMA ForcedBuildNext == ForcedBuildNeverDownloads /\ [Next]_vars => ForcedBuildNeverDownloads'
<1> SUFFICES ASSUME ForcedBuildNeverDownloads, [Next]_vars PROVE ForcedBuildNeverDownloads'
  OBVIOUS
<1> USE DEF ForcedBuildNeverDownloads, host, disk, run, Goto, Return
<1>1. ASSUME NEW e \in Env, Start(e) PROVE ForcedBuildNeverDownloads'
  <2>1. pc' \in {"idle", "universal", "config", "unload"} /\ fetched' = "no"
    BY <1>1 DEF Start
  <2> QED
    BY <2>1
<1>2. CASE Config
  <2>1. /\ UNCHANGED <<env, fetched>> /\ pc' # "transfer"
        /\ env.force = {"build"} => pc' # "fetch"
    BY <1>2 DEF Config, Forced
  <2> QED
    BY <1>2, <2>1 DEF Config
<1>3. CASE ModprobeFails \/ NothingThere \/ RemoveLeftover \/ CannotRemove \/ NoDownload
  BY <1>3 DEF ModprobeFails, NothingThere, RemoveLeftover, CannotRemove, NoDownload, Forced
<1>4. CASE NotServed \/ Unreachable \/ CurlEnds \/ CurlBreaks
  <2>1. pc \in {"fetch", "transfer"} /\ env' = env
    BY <1>4 DEF NotServed, Unreachable, CurlEnds, CurlBreaks, Download
  <2> QED
    BY <2>1
<1>5. CASE \/ Universal \/ ToolsMissing \/ NothingLoaded \/ RmmodSucceeds \/ RmmodFails \/ StillLoaded
           \/ NoConfig \/ DkmsInstalls \/ DkmsFails \/ BuiltRefused \/ InsmodRefused \/ XzRefused
           \/ BuiltLoads \/ Modprobe \/ Insmod
  BY <1>5 DEF Universal, ToolsMissing, NothingLoaded, RmmodSucceeds, RmmodFails, StillLoaded,
     NoConfig, DkmsInstalls, DkmsFails, BuiltRefused, InsmodRefused, XzRefused, BuiltLoads,
     Modprobe, Insmod, Load
<1>6. CASE Sources \/ SourcesFail \/ Make \/ Mv \/ Symlink \/ SymlinkFails \/ CurlBegins
  BY <1>6 DEF Sources, SourcesFail, Make, Mv, Symlink, SymlinkFails, CurlBegins
<1>7. CASE AgentUses \/ AgentStops \/ Killed \/ Reboot \/ Upgrade \/ UNCHANGED vars
  BY <1>7 DEF AgentUses, AgentStops, Killed, Reboot, Upgrade, vars
<1> QED
  BY <1>1, <1>2, <1>3, <1>4, <1>5, <1>6, <1>7 DEF Next, Step

\* With SYSDIG_FORCE_BUILD_PROBE no run calls curl for a probe, in any environment
\* and whatever fails.
THEOREM ForcedBuildsNeverDownload == Spec => []ForcedBuildNeverDownloads
<1>1. Init => ForcedBuildNeverDownloads
  BY DEF Init, ForcedBuildNeverDownloads
<1> QED
  BY <1>1, ForcedBuildNext, PTL DEF Spec

-----------------------------------------------------------------------------
(***************************************************************************)
(* eBPF probes over kernels and versions.  A probe.o is of the version in  *)
(* whose sources it was made, for whatever kernel; mv and curl give a file *)
(* the name of the same version.                                           *)
(***************************************************************************)
OfVersion(v) == {v} \X Kernel

ObjectsInv == \A v \in Version : object[v] \in OfVersion(v) \cup {None}

BpfFilesInv ==
    \A v \in Version, k \in Kernel :
        file["bpf"][<<v, k>>] \in OfVersion(v) \cup {Part, Page, None}

AgentInv ==
    /\ ObjectsInv /\ BpfFilesInv
    /\ pc \in ForBpf => TheKind = "bpf"
    /\ LinkedIsOfThisAgent

LEMMA AgentInit == ~Override /\ Init => AgentInv
  BY DEF Init, AgentInv, ObjectsInv, BpfFilesInv, ForBpf, LinkedIsOfThisAgent, Kind, Name, Probe

\* What is saved for this version stays among its probes.
LEMMA SaveOfAgent ==
  ASSUME ~Override, LoaderTypeOK, BpfFilesInv, NEW c,
         TheKind = "bpf" => c \in OfVersion(version) \cup {Part, Page, None}, Save(c)
  PROVE  BpfFilesInv'
<1> SUFFICES ASSUME NEW v \in Version, NEW k \in Kernel
             PROVE  file'["bpf"][<<v, k>>] \in OfVersion(v) \cup {Part, Page, None}
  BY DEF BpfFilesInv, OfVersion
<1>1. TheName = <<version, kernel>> /\ <<v, k>> \in Name /\ "bpf" \in Kind
  BY DEF TheName, Target, Name, Probe, Kind
<1>2. file["bpf"][<<v, k>>] \in OfVersion(v) \cup {Part, Page, None}
  BY DEF BpfFilesInv
<1>3. CASE TheKind = "bpf" /\ <<v, k>> = TheName
  <2>1. file'["bpf"][<<v, k>>] = c
    BY <1>1, <1>3 DEF Save, LoaderTypeOK
  <2>2. v = version
    BY <1>1, <1>3
  <2> QED
    BY <1>3, <2>1, <2>2
<1>4. CASE ~(TheKind = "bpf" /\ <<v, k>> = TheName)
  <2>1. file'["bpf"][<<v, k>>] = file["bpf"][<<v, k>>]
    BY <1>1, <1>4, TargetType DEF Save, LoaderTypeOK
  <2> QED
    BY <1>2, <2>1
<1> QED
  BY <1>3, <1>4

LEMMA AgentNext ==
  ASSUME ~Override, ServedAsNamed, LoaderTypeOK, FreshInv, AgentInv, [Next]_vars
  PROVE  AgentInv'
<1> USE DEF host, disk, run, Goto, Return
<1>0. TheFile \in Probe \cup {Part, Page, None} /\ TheName = Target
      /\ (TheKind = "bpf" => TheFile \in OfVersion(version) \cup {Part, Page, None})
  <2>1. version \in Version /\ kernel \in Kernel
    BY DEF LoaderTypeOK
  <2> QED
    BY <2>1, SavedType DEF AgentInv, BpfFilesInv, TheFile, TheName, Target
<1>1. CASE file' = file /\ object' = object
           /\ (result' # "linked" \/ UNCHANGED <<version, result, link, kernel>>)
           /\ (pc' \notin ForBpf \/ (pc \in ForBpf /\ env' = env) \/ (TheKind = "bpf" /\ env' = env))
  BY <1>1 DEF AgentInv, ObjectsInv, BpfFilesInv, OfVersion, LinkedIsOfThisAgent, Target, TheKind
<1>2. ASSUME NEW e \in Env, Start(e) PROVE AgentInv'
  <2>1. pc' \in {"idle", "universal", "config", "unload"} /\ result' \in {"none", "unable"}
        /\ UNCHANGED <<file, object>>
    BY <1>2 DEF Start
  <2> QED
    BY <1>1, <2>1 DEF ForBpf
<1>3. CASE Config
  <2>1. /\ UNCHANGED <<file, object, version, kernel, link, result, env>>
        /\ pc' \in {"fetch", "modprobe", "dkms", "decide", "sources", "make"}
        /\ pc' \in {"decide", "sources", "make"} => TheKind # "kmod"
    BY <1>3 DEF Config
  <2> QED
    BY <1>1, <2>1, TargetType DEF ForBpf, Kind
<1>4. CASE \/ Universal \/ ToolsMissing \/ NothingLoaded \/ RmmodSucceeds \/ RmmodFails \/ StillLoaded
           \/ NoConfig \/ DkmsInstalls \/ DkmsFails \/ BuiltRefused \/ ModprobeFails
           \/ InsmodRefused \/ XzRefused \/ BuiltLoads \/ Modprobe \/ Insmod
  <2>1. /\ UNCHANGED <<file, object>> /\ pc' \notin ForBpf
        /\ (result' # "linked" \/ UNCHANGED <<version, kernel, result, link>>)
    BY <1>4 DEF Universal, ToolsMissing, NothingLoaded, RmmodSucceeds, RmmodFails, StillLoaded,
       NoConfig, DkmsInstalls, DkmsFails, BuiltRefused, ModprobeFails, InsmodRefused, XzRefused,
       BuiltLoads, Modprobe, Insmod, Load, ForBpf
  <2> QED
    BY <1>1, <2>1
<1>5. CASE Sources \/ SourcesFail \/ NoDownload \/ CannotRemove \/ NothingThere \/ SymlinkFails
  <2>1. /\ UNCHANGED <<file, object, env>> /\ pc \in ForBpf
        /\ (result' # "linked" \/ UNCHANGED <<version, kernel, result, link>>)
    BY <1>5 DEF Sources, SourcesFail, NoDownload, CannotRemove, NothingThere, SymlinkFails, ForBpf
  <2> QED
    BY <1>1, <2>1
<1>6. ASSUME pc # "idle", result' = result \/ result' = "failed", env' = env,
             pc' \in ForBpf => TheKind = "bpf", ObjectsInv', BpfFilesInv'
      PROVE  AgentInv'
  <2>1. result' # "linked"
    BY <1>6 DEF FreshInv
  <2> QED
    BY <1>6, <2>1 DEF AgentInv, LinkedIsOfThisAgent, TheKind
<1>7. CASE Make
  <2>1. Target \in OfVersion(version) /\ version \in Version
    BY DEF Target, OfVersion, LoaderTypeOK
  <2>2. ObjectsInv'
    BY <1>7, <2>1 DEF Make, AgentInv, ObjectsInv, OfVersion, LoaderTypeOK
  <2>3. BpfFilesInv'
    BY <1>7 DEF Make, AgentInv, BpfFilesInv, OfVersion
  <2> QED
    BY <1>6, <1>7, <2>2, <2>3 DEF Make, AgentInv, ForBpf
<1>8. CASE Mv
  <2>1. CASE object[version] = None
    BY <1>1, <1>8, <2>1 DEF Mv, ForBpf
  <2>2. CASE object[version] # None
    <3>1. object[version] \in OfVersion(version)
      BY <2>2 DEF AgentInv, ObjectsInv, LoaderTypeOK
    <3>2. BpfFilesInv'
      BY <1>8, <2>2, <3>1, SaveOfAgent DEF Mv, AgentInv
    <3>3. ObjectsInv'
      BY <1>8, <2>2 DEF Mv, AgentInv, ObjectsInv, OfVersion, LoaderTypeOK
    <3> QED
      BY <1>6, <1>8, <3>2, <3>3 DEF Mv, AgentInv, ForBpf
  <2> QED
    BY <2>1, <2>2
<1>9. CASE RemoveLeftover \/ CurlBegins
  <2>1. BpfFilesInv'
    BY <1>9, SaveOfAgent DEF RemoveLeftover, CurlBegins, AgentInv
  <2>2. ObjectsInv'
    BY <1>9 DEF RemoveLeftover, CurlBegins, AgentInv, ObjectsInv, OfVersion
  <2> QED
    BY <1>6, <1>9, <2>1, <2>2 DEF RemoveLeftover, CurlBegins, ForBpf
<1>10. CASE NotServed \/ Unreachable \/ CurlEnds \/ CurlBreaks
  <2>1. PICK zero, c : /\ zero \in BOOLEAN /\ Download(zero, c) /\ pc # "idle"
                      /\ c \in {TheFile, Part, Page, Served[TheKind][TheName]}
    BY <1>10 DEF NotServed, Unreachable, CurlEnds, CurlBreaks
  <2>2. Served[TheKind][TheName] \in {Target, None} /\ Target \in OfVersion(version)
    BY <1>0, TargetType DEF ServedAsNamed, Target, OfVersion, LoaderTypeOK
  <2>3. TheKind = "bpf" => c \in OfVersion(version) \cup {Part, Page, None}
    BY <1>0, <2>1, <2>2
  <2>4. BpfFilesInv'
    BY <2>1, <2>3, SaveOfAgent DEF Download, AgentInv
  <2>5. ObjectsInv'
    BY <2>1 DEF Download, AgentInv, ObjectsInv, OfVersion
  <2>6. /\ env' = env /\ (result' = result \/ result' = "failed")
        /\ pc' \in ForBpf => TheKind = "bpf"
    <3>1. CASE TheKind = "kmod" /\ zero
      BY <2>1, <3>1 DEF Download, ForBpf
    <3>2. CASE TheKind = "bpf" /\ c # None
      BY <2>1, <3>2 DEF Download
    <3>3. CASE ~(TheKind = "kmod" /\ zero) /\ ~(TheKind = "bpf" /\ c # None)
      BY <2>1, <3>3 DEF Download, ForBpf
    <3> QED
      BY <3>1, <3>2, <3>3
  <2> QED
    BY <1>6, <2>1, <2>4, <2>5, <2>6
<1>11. CASE Symlink
  <2>1. TheKind = "bpf" /\ TheFile # None
    BY <1>11 DEF Symlink, AgentInv, ForBpf, Exists
  <2>2. TheFile = file["bpf"][Target]
    BY <1>0, <2>1 DEF TheFile
  <2>3. UNCHANGED <<file, object, version, kernel>> /\ link' = Target /\ pc' = "idle"
    BY <1>0, <1>11 DEF Symlink
  <2>4. Target' = Target
    BY <2>3 DEF Target
  <2> QED
    BY <1>0, <2>1, <2>2, <2>3, <2>4
       DEF AgentInv, ObjectsInv, BpfFilesInv, OfVersion, LinkedIsOfThisAgent, ForBpf
<1>12. CASE AgentUses \/ AgentStops \/ Killed \/ Reboot \/ Upgrade \/ UNCHANGED vars
  <2>1. /\ UNCHANGED <<file, object, env>>
        /\ pc' \notin ForBpf \/ pc' = pc
        /\ (result' # "linked" \/ UNCHANGED <<version, kernel, result, link>>)
    BY <1>12 DEF AgentUses, AgentStops, Killed, Reboot, Upgrade, vars, ForBpf
  <2> QED
    BY <1>1, <2>1
<1> QED
  BY <1>2, <1>3, <1>4, <1>5, <1>7, <1>8, <1>9, <1>10, <1>11, <1>12 DEF Next, Step

\* Whatever probe.o and which files earlier runs, kernels and agents left, the eBPF
\* probe that is linked has the name of this agent, and is not of another one.
THEOREM LinkedAreOfThisAgent ==
  ASSUME ServedAsNamed, ~Override
  PROVE  Spec => []LinkedIsOfThisAgent
<1>1. LoaderTypeOK /\ FreshInv /\ AgentInv /\ [Next]_vars => AgentInv'
  BY AgentNext
<1>2. Init => AgentInv
  BY AgentInit
<1>3. AgentInv => LinkedIsOfThisAgent
  BY DEF AgentInv
<1> QED
  BY <1>1, <1>2, <1>3, FreshInit, FreshNext, LoaderTypeCorrect, PTL DEF Spec
=============================================================================
