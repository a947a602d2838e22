---------------------------- MODULE ProbeLoader ----------------------------
(***************************************************************************)
(* The script sysdig-probe-loader, which takes the probes that this        *)
(* project builds to the kernels they are for: it builds, finds or fetches *)
(* a probe, and loads the kernel module or links the eBPF probe.           *)
(*                                                                         *)
(* The script may be killed anywhere and run again, in any of its          *)
(* environments, with the files it left in ~/.sysdig; the host may boot    *)
(* another kernel and the agent may be upgraded.  dkms, make, curl, insmod *)
(* and rmmod are modelled by what they leave behind and their exit status. *)
(***************************************************************************)
EXTENDS Naturals

CONSTANTS
    Version, Kernel,  \* of the agent; kernel releases with their config hash
    Env,              \* the environments the script is called in
    Override,         \* is SYSDIG_PROBE_OVERRIDE_FULL_URL set?
    Site,             \* then this is the base name of the URL
    BasicAuth,        \* is SYSDIG_PROBE_BASIC_AUTH set?
    Uek,              \* is the kernel one that dkms is never tried for?
    NeedsSources,     \* are kernel sources downloaded to build the eBPF probe?
    Served,           \* Served[kind][name]: the probe at the URL, or None
    MaxRmmodWait,     \* MAX_RMMOD_WAIT
    RmFails,          \* may rm fail on a file in ~/.sysdig?
    Part, Page,       \* an interrupted download, an error page
    None

Kind  == {"kmod", "bpf"}
Probe == Version \X Kernel
Name  == Probe \cup {Site}

\* env.agent is SYSDIG_AGENT_DRIVER, env.bpf tells whether SYSDIG_BPF_PROBE
\* is set, and env.force which of SYSDIG_FORCE_{DOWNLOAD,BUILD}_PROBE are.
Environment ==
    [agent : {"unset", "kmod", "legacy_ebpf", "universal_ebpf"},
     bpf   : BOOLEAN,
     force : SUBSET {"download", "build"}]

ASSUME LoaderAssumption ==
    /\ Env \subseteq Environment
    /\ {Override, BasicAuth, Uek, NeedsSources, RmFails} \subseteq BOOLEAN
    /\ Served \in [Kind -> [Name -> Probe \cup {None}]]
    /\ MaxRmmodWait \in Nat
    /\ Part # None /\ Page # None
    /\ {Part, Page, None} \cap (Probe \cup Version \cup Name) = {}

VARIABLES
    version, kernel,  \* of the agent that is installed, of the running kernel
    loaded,           \* the probe module that is in the kernel, or None
    busy,             \* is an agent using it?
    file,             \* file[kind][name], in ~/.sysdig
    installed,        \* the version that dkms installed for each kernel
    object,           \* bpf/probe.o in the source directory of each version
    link,             \* the name sysdig-probe-bpf.o links to, or None
    env, pc,
    wait,             \* WAIT_TIME
    fetched,          \* this run's curl: not called ("kept" when rm could not
                      \* remove the file it should replace), or how it ended
    result,           \* of the last run: how it succeeded, or why it did not
    healthy           \* nothing fails in this run but builds

host == <<version, kernel, loaded, busy>>
disk == <<file, installed, object, link>>
run  == <<env, fetched, healthy>>
vars == <<host, disk, run, pc, wait, result>>

Init ==
    /\ version \in Version /\ kernel \in Kernel
    /\ loaded = None /\ busy = FALSE
    /\ file = [x \in Kind |-> [n \in Name |-> None]]
    /\ installed = [x \in Kernel |-> None]
    /\ object = [v \in Version |-> None]
    /\ link = None
    /\ env \in Env /\ pc = "idle" /\ wait = 0
    /\ fetched = "no" /\ result = "none" /\ healthy = FALSE

Target == <<version, kernel>>
Forced(f) == f \in env.force

Conflicting(e) ==
    \/ e.force = {"download", "build"}
    \/ e.agent \in {"universal_ebpf", "kmod"} /\ e.bpf

TheKind == IF env.agent = "legacy_ebpf" \/ env.bpf THEN "bpf" ELSE "kmod"

\* Variant: the name does not tell the version of the agent.
NameOfKernel == IF Override THEN Site ELSE <<CHOOSE v \in Version : TRUE, kernel>>

\* get_variable_override_{kernel,bpf}_probe
TheName == IF Override THEN Site ELSE Target
TheFile == file[TheKind][TheName]
Exists  == TheFile # None
Save(c) == file' = [file EXCEPT ![TheKind][TheName] = c]

\* insmod refuses what is not a module for the running kernel.
Fits(c) == c \in Version \X {kernel}

Goto(s)   == pc' = s /\ UNCHANGED result
Return(r) == pc' = "idle" /\ result' = r

(***************************************************************************)
(* The entry point, and remove_kernel_probe.                               *)
(***************************************************************************)
Start(e) ==
    /\ pc = "idle"
    /\ env' = e /\ fetched' = "no" /\ healthy' \in BOOLEAN
    /\ wait' = 0
    /\ IF Conflicting(e)
         THEN Return("unable")
         ELSE /\ result' = "none"
              /\ pc' = CASE e.agent = "universal_ebpf" -> "universal"
                         [] e.agent = "legacy_ebpf" \/ e.bpf -> "config"
                         [] OTHER -> "unload"
    /\ UNCHANGED <<host, disk>>

\* rmmod || true: whether it succeeds makes no difference.
Universal ==
    /\ pc = "universal"
    /\ loaded' = IF busy THEN loaded ELSE None
    /\ Return("universal")
    /\ UNCHANGED <<version, kernel, busy, disk, run, wait>>

\* One of lsmod, modprobe and rmmod is not there.
ToolsMissing ==
    /\ pc = "unload" /\ wait = 0 /\ ~healthy
    /\ Return("unable")
    /\ UNCHANGED <<host, disk, run, wait>>

NothingLoaded ==
    /\ pc = "unload" /\ loaded = None
    /\ Goto("config")
    /\ UNCHANGED <<host, disk, run, wait>>

\* The first rmmod comes before the loop and is not counted in WAIT_TIME.
RmmodSucceeds ==
    /\ pc = "unload" /\ loaded # None /\ ~busy /\ wait <= MaxRmmodWait
    /\ loaded' = None
    /\ Goto("config")
    /\ UNCHANGED <<version, kernel, busy, disk, run, wait>>

\* Variant: rmmod is tried without a limit.
RmmodUnlimited ==
    /\ pc = "unload" /\ loaded # None /\ busy
    /\ wait' = wait + 1
    /\ UNCHANGED <<host, disk, run, pc, result>>

\* Variant: WAIT_TIME is not counted.
RmmodUncounted ==
    /\ pc = "unload" /\ loaded # None /\ busy
    /\ UNCHANGED vars

RmmodFails ==
    /\ pc = "unload" /\ loaded # None /\ busy /\ wait <= MaxRmmodWait
    /\ wait' = wait + 1
    /\ UNCHANGED <<host, disk, run, pc, result>>

\* "hoping the best"
StillLoaded ==
    /\ pc = "unload" /\ loaded # None /\ wait > MaxRmmodWait
    /\ Return("leftover")
    /\ UNCHANGED <<host, disk, run, wait>>

NoConfig ==
    /\ pc = "config" /\ ~Override /\ ~healthy
    /\ Return("unable")
    /\ UNCHANGED <<host, disk, run, wait>>

Config ==
    /\ pc = "config"
    /\ Goto(IF TheKind = "kmod"
              THEN CASE Forced("download") -> "fetch"
                     [] ~Forced("download") /\ Uek -> "modprobe"
                     [] OTHER -> "dkms"
              ELSE CASE Forced("download") \/ Exists -> "decide"
                     [] ~Forced("download") /\ ~Exists /\ NeedsSources -> "sources"
                     [] OTHER -> "make")
    /\ UNCHANGED <<host, disk, run, wait>>

(***************************************************************************)
(* load_kernel_probe, from the build to the file in ~/.sysdig.             *)
(***************************************************************************)
DkmsInstalls ==
    /\ pc = "dkms"
    /\ installed' = [installed EXCEPT ![kernel] = version]
    /\ Goto("built")
    /\ UNCHANGED <<host, file, object, link, run, wait>>

DkmsFails ==
    /\ pc = "dkms"
    /\ Goto("modprobe")
    /\ UNCHANGED <<host, disk, run, wait>>

Load(p, r) ==
    /\ loaded' = p
    /\ Return(r)
    /\ UNCHANGED <<version, kernel, busy, disk, run, wait>>

BuiltLoads == pc = "built" /\ Load(Target, "dkms")

BuiltRefused ==
    /\ pc = "built" /\ ~healthy
    /\ Goto("modprobe")
    /\ UNCHANGED <<host, disk, run, wait>>

Modprobe ==
    /\ pc = "modprobe" /\ installed[kernel] # None
    /\ Load(<<installed[kernel], kernel>>, "modprobe")

ModprobeFails ==
    /\ pc = "modprobe" /\ (installed[kernel] = None \/ ~healthy)
    /\ IF Exists THEN Goto("insmod")
       ELSE IF Forced("build") THEN Return("failed") ELSE Goto("fetch")
    /\ UNCHANGED <<host, disk, run, wait>>

\* load_precompiled_kernel_probe: insmod, and once more with the file packed.
Insmod ==
    /\ pc \in {"insmod", "xz"} /\ Fits(TheFile)
    /\ Load(TheFile, IF fetched = "yes" THEN "fetched" ELSE "local")

InsmodRefused ==
    /\ pc = "insmod"
    /\ Goto("xz")
    /\ UNCHANGED <<host, disk, run, wait>>

XzRefused ==
    /\ pc = "xz" /\ (~Fits(TheFile) \/ ~healthy)
    /\ Return("failed")
    /\ UNCHANGED <<host, disk, run, wait>>

(***************************************************************************)
(* load_bpf_probe and build_bpf_probe.  The exit status of make is not     *)
(* looked at, and mv takes whatever probe.o is there.                      *)
(***************************************************************************)
Sources ==
    /\ pc = "sources"
    /\ Goto("make")
    /\ UNCHANGED <<host, disk, run, wait>>

SourcesFail ==
    /\ pc = "sources" /\ ~healthy
    /\ Return("failed")
    /\ UNCHANGED <<host, disk, run, wait>>

Make ==
    /\ pc = "make"
    /\ object' \in {object, [object EXCEPT ![version] = Target]}
    /\ Goto("mv")
    /\ UNCHANGED <<host, file, installed, link, run, wait>>

\* Variant: the source directory is the same for all versions of the agent.
MvFromAny ==
    /\ pc = "mv"
    /\ IF \A v \in Version : object[v] = None
         THEN UNCHANGED <<file, object>>
         ELSE \E v \in Version : /\ object[v] # None
                                /\ Save(object[v]) /\ object' = [object EXCEPT ![v] = None]
    /\ Goto("decide")
    /\ UNCHANGED <<host, installed, link, run, wait>>

Mv ==
    /\ pc = "mv"
    /\ IF object[version] = None
         THEN UNCHANGED <<file, object>>
         ELSE Save(object[version]) /\ object' = [object EXCEPT ![version] = None]
    /\ Goto("decide")
    /\ UNCHANGED <<host, installed, link, run, wait>>

NoDownload ==
    /\ pc = "decide"
    /\ Forced("build") \/ (Exists /\ ~Forced("download"))
    /\ Goto("link")
    /\ UNCHANGED <<host, disk, run, wait>>

\* Variant: a forced download takes the file that is there.
LeftoverTaken ==
    /\ pc = "decide" /\ Forced("download") /\ Exists
    /\ Goto("link")
    /\ UNCHANGED <<host, disk, run, wait>>

RemoveLeftover ==
    /\ pc = "decide" /\ Forced("download") /\ Exists
    /\ Save(None)
    /\ Goto("fetch")
    /\ UNCHANGED <<host, installed, object, link, run, wait>>

CannotRemove ==
    /\ pc = "decide" /\ Forced("download") /\ Exists
    /\ RmFails
    /\ fetched' = "kept"
    /\ Goto("link")
    /\ UNCHANGED <<host, disk, env, healthy, wait>>

\* Variant: a build that left nothing is made up for by a download.
NothingBuilt ==
    /\ pc = "decide" /\ ~Exists
    /\ Goto("fetch")
    /\ UNCHANGED <<host, disk, run, wait>>

NothingThere ==
    /\ pc = "decide" /\ ~Exists /\ ~Forced("build")
    /\ Goto("fetch")
    /\ UNCHANGED <<host, disk, run, wait>>

Symlink ==
    /\ pc = "link" /\ Exists
    /\ link' = TheName
    /\ Return("linked")
    /\ UNCHANGED <<host, file, installed, object, run, wait>>

SymlinkFails ==
    /\ pc = "link" /\ (~Exists \/ ~healthy)
    /\ Return("failed")
    /\ UNCHANGED <<host, disk, run, wait>>

(***************************************************************************)
(* download_kernel_probe and download_bpf_probe: the first goes by the     *)
(* exit status of curl, the second by whether there is a file.             *)
(***************************************************************************)
Download(zero, c) ==
    /\ Save(c)
    /\ fetched' = IF zero THEN "yes" ELSE "failed"
    /\ CASE TheKind = "kmod" /\ zero -> Goto("insmod")
         [] TheKind = "bpf" /\ c # None -> Goto("link")
         [] OTHER -> Return("failed")
    /\ UNCHANGED <<host, installed, object, link, env, healthy, wait>>

\* The options and the credentials are one argument: curl takes all of it for
\* the credentials, and without -f it saves an error page and exits with 0.
NotServed ==
    /\ pc = "fetch" /\ Served[TheKind][TheName] = None
    /\ IF BasicAuth THEN Download(TRUE, Page) ELSE Download(FALSE, TheFile)

Unreachable ==
    /\ pc = "fetch" /\ ~healthy
    /\ Download(FALSE, TheFile)

\* Variant: a file that is there is not downloaded again.
CurlKeepsFile ==
    /\ pc = "fetch" /\ Served[TheKind][TheName] # None
    /\ IF Exists THEN Goto("insmod") /\ UNCHANGED file ELSE Save(Part) /\ Goto("transfer")
    /\ UNCHANGED <<host, installed, object, link, run, wait>>

CurlBegins ==
    /\ pc = "fetch" /\ Served[TheKind][TheName] # None
    /\ Save(Part)
    /\ Goto("transfer")
    /\ UNCHANGED <<host, installed, object, link, run, wait>>

CurlEnds == pc = "transfer" /\ Download(TRUE, Served[TheKind][TheName])

CurlBreaks ==
    /\ pc = "transfer" /\ ~healthy
    /\ Download(FALSE, Part)

(***************************************************************************)
(* The agent, and what happens to the script and to the host.              *)
(***************************************************************************)
AgentUses ==
    /\ pc = "idle" /\ loaded # None
    /\ busy' \in BOOLEAN
    /\ UNCHANGED <<version, kernel, loaded, disk, run, pc, wait, result>>

AgentStops ==
    /\ busy
    /\ busy' = FALSE
    /\ UNCHANGED <<version, kernel, loaded, disk, run, pc, wait, result>>

Killed ==
    /\ pc # "idle" /\ ~healthy
    /\ Return("killed")
    /\ UNCHANGED <<host, disk, run, wait>>

Reboot ==
    /\ pc = "idle"
    /\ kernel' \in Kernel /\ loaded' = None /\ busy' = FALSE
    /\ result' = "none"
    /\ UNCHANGED <<version, disk, run, pc, wait>>

Upgrade ==
    /\ pc = "idle"
    /\ version' \in Version /\ result' = "none"
    /\ UNCHANGED <<kernel, loaded, busy, disk, run, pc, wait>>

Step ==
    \/ Universal \/ ToolsMissing \/ NothingLoaded \/ RmmodSucceeds \/ RmmodFails
    \/ StillLoaded \/ NoConfig \/ Config
    \/ DkmsInstalls \/ DkmsFails \/ BuiltLoads \/ BuiltRefused
    \/ Modprobe \/ ModprobeFails \/ Insmod \/ InsmodRefused \/ XzRefused
    \/ Sources \/ SourcesFail \/ Make \/ Mv
    \/ NoDownload \/ RemoveLeftover \/ CannotRemove \/ NothingThere
    \/ Symlink \/ SymlinkFails
    \/ NotServed \/ Unreachable \/ CurlBegins \/ CurlEnds \/ CurlBreaks

Next ==
    \/ \E e \in Env : Start(e)
    \/ Step
    \/ AgentUses \/ AgentStops \/ Killed \/ Reboot \/ Upgrade

Spec     == Init /\ [][Next]_vars
FairSpec == Spec /\ WF_vars(Step)

(***************************************************************************)
(* Properties                                                              *)
(***************************************************************************)
Loads  == {"dkms", "modprobe", "local", "fetched"}
Result == Loads \cup {"none", "unable", "failed", "killed", "leftover", "linked", "universal"}

\* Every variable has its type.
LoaderTypeOK ==
    /\ version \in Version /\ kernel \in Kernel
    /\ loaded \in Probe \cup {None} /\ busy \in BOOLEAN
    /\ file \in [Kind -> [Name -> Probe \cup {Part, Page, None}]]
    /\ installed \in [Kernel -> Version \cup {None}]
    /\ object \in [Version -> Probe \cup {None}]
    /\ link \in Name \cup {None}
    /\ env \in Env /\ healthy \in BOOLEAN
    /\ pc \in {"idle", "universal", "unload", "config", "dkms", "built", "modprobe",
               "insmod", "xz", "sources", "make", "mv", "decide", "fetch",
               "transfer", "link"}
    /\ wait \in 0..(MaxRmmodWait + 1)
    /\ fetched \in {"no", "kept", "yes", "failed"} /\ result \in Result

\* When the script says that it built, found or fetched the kernel module, the
\* one in the kernel is for this kernel and, unless modprobe chose it, of this
\* version of the agent: no leftover of an earlier kernel or agent passes for
\* it (load_kernel_probe).
LoadedIsAppropriate ==
    /\ result \in Loads => Fits(loaded)
    /\ result \in Loads \ {"modprobe"} => loaded = Target

\* A probe in ~/.sysdig is the one its name says, whatever came before.  The code
\* refutes it for the eBPF probe: mv takes a probe.o that another kernel's build left.
FilesAreWhatTheyAreNamed ==
    \A x \in Kind, n \in Probe : file[x][n] \in {n, Part, Page, None}

\* What holds of it: when the script says that the eBPF probe is located, the link is
\* to this agent's name, and if the file there is a probe, it is one of this agent,
\* although probe.o and the files outlive the run, the kernel and the agent that made
\* them (lines 606, 450).
LinkedIsOfThisAgent ==
    result = "linked" =>
        link = Target /\ file["bpf"][Target] \in ({version} \X Kernel) \cup {Part, Page}

\* With SYSDIG_FORCE_DOWNLOAD_PROBE nothing is loaded or linked but the file
\* that curl wrote in this run ("Prevents installing a leftover probe", line
\* 671), unless the old module could not be unloaded or the old file, which the
\* script then reports, not be removed.
ForcedDownloadIsFresh ==
    (env.force = {"download"} /\ result \in Loads \cup {"linked"}) => fetched # "no"

\* "The script won't try to download the probe" (line 42) with
\* SYSDIG_FORCE_BUILD_PROBE, whatever fails on the way and whatever it finds.
ForcedBuildNeverDownloads ==
    env.force = {"build"} => fetched = "no" /\ pc \notin {"fetch", "transfer"}

\* With SYSDIG_FORCE_DOWNLOAD_PROBE, the script that finds its probe served and
\* meets no failure loads or links it, whatever an earlier run left behind.
HealthyDownloadSucceeds ==
    (healthy /\ env.force = {"download"} /\ Served[TheKind][TheName] = Target)
        => result # "failed"

\* The script does not wait for a module in use for ever: each run ends.
RunEnds == (pc # "idle") ~> (pc = "idle")

\* "Simple script that desperately tries to load sysdig-probe looking for it in
\* a bunch of ways" (line 20): when it may both build and download, it does not
\* fail before it has tried to download.  The code refutes it: a file of the right
\* name that insmod refuses, or sources that cannot be fetched, are the end.
EveryWayTried == (result = "failed" /\ env.force = {}) => fetched # "no"

\* "the script ONLY tries to build" (line 41): with SYSDIG_FORCE_BUILD_PROBE it
\* does not load a module that was downloaded, by an earlier run.  The code
\* refutes it: it goes on to the file in ~/.sysdig.
ForcedBuildOnlyBuilds == env.force = {"build"} => result # "local"

\* "Downloads the BPF probe.  Returns 0 on success, 1 otherwise." (lines
\* 461-462): when curl failed, download_bpf_probe says so.  The code refutes it:
\* any file that is there will do.
FailedDownloadIsNoticed == result = "linked" => fetched # "failed"

\* "Returns 0 on success, 1 otherwise (download failed)." (line 274): when
\* download_kernel_probe returns 0 it has the probe.  The code refutes it when
\* BasicAuth is set.
DownloadedIsProbe == (fetched = "yes" /\ pc = "insmod") => TheFile \in Probe
=============================================================================
