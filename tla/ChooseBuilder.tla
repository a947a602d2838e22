--------------------------- MODULE ChooseBuilder ---------------------------
(***************************************************************************)
(* The builder image for a kernel (builder/choose_builder.py): the one     *)
(* made for its distribution release if there is one, else the one with    *)
(* the gcc closest to the gcc that built it.                               *)
(*                                                                         *)
(* A kernel is what get_kernel_distro_tag and get_kernel_gcc_version read  *)
(* of it: the tag in autoconf.h, and the gcc version, which is either the  *)
(* number CONFIG_GCC_VERSION, or in the string LINUX_COMPILER, or nowhere. *)
(***************************************************************************)
EXTENDS Naturals

CONSTANTS
    Kernel,       \* [tag, form, gcc]: gcc is the major, minor, patch version
    Distro,       \* the builders' distributions
    Dockerfile,   \* Dockerfile.<distro>-gcc<ver>: [distro, ver, bpf]
    TagDockerfile,\* Dockerfile.<tag><suffix>, for one release: [tag, suffix]
    None

Form == {"config", "compiler", "nowhere"}

ASSUME ChooseAssumption ==
    /\ \A k \in Kernel : k.form \in Form /\ k.gcc \in (1..99) \X (0..99) \X (0..99)
    /\ Dockerfile \subseteq [distro : Distro, ver : Nat \X Nat, bpf : BOOLEAN]

VARIABLES
    kernel, distro,  \* what choose_dockerfile is called with
    wanted,          \* the gcc version to look for: major and minor
    left,            \* the sorted list, from where the loop is
    last,            \* dockerfile_version
    pc,
    tag              \* the tag of the image that is returned

vars == <<kernel, distro, wanted, left, last, pc, tag>>

\* version.Version: numbers, not digits, are compared.
Older(v, w) == v[1] < w[1] \/ (v[1] = w[1] /\ v[2] < w[2])

\* CONFIG_GCC_VERSION has two digits for each of minor and patch.
ConfigGccVersion(g) == 10000 * g[1] + 100 * g[2] + g[3]
\* Variant: the last two digits are taken for the minor version.
FromConfigEnd(n) == <<n \div 10000, n % 100>>

FromConfig(n)       == <<n \div 10000, (n \div 100) % 100>>

\* Variant: the patch version is not cut off.
WithPatch(k) == k.gcc

GccOf(k) ==
    CASE k.form = "config"   -> FromConfig(ConfigGccVersion(k.gcc))
      [] k.form = "compiler" -> <<k.gcc[1], k.gcc[2]>>
      [] k.form = "nowhere"  -> <<4, 8>>

\* The tags of the images are made from the names of the files here ...
TagOf(f) == <<f.distro, f.ver, f.bpf>>

\* ... and by the prebuild command (all_dockerfiles), with the suffix.
Prebuilt == {TagOf(f) : f \in Dockerfile} \cup {<<f.tag, f.suffix>> : f \in TagDockerfile}

Init ==
    /\ kernel \in Kernel /\ distro \in Distro
    /\ wanted = <<0, 0>> /\ left = {} /\ last = None
    /\ pc = "tag" /\ tag = None

\* glob, which gives them in any order.
ByTag ==
    /\ pc = "tag"
    /\ \E f \in TagDockerfile :
         /\ f.tag = kernel.tag
         /\ tag' = <<f.tag, "">>
    /\ pc' = "returned"
    /\ UNCHANGED <<kernel, distro, wanted, left, last>>

ByGcc ==
    /\ pc = "tag" /\ kernel.tag \notin {f.tag : f \in TagDockerfile}
    /\ wanted' = GccOf(kernel)
    /\ left' = {f \in Dockerfile : f.distro = distro}
    /\ pc' = "scan"
    /\ UNCHANGED <<kernel, distro, last, tag>>

\* The loop over the sorted list; files of one version come in any order.
Scan(f) ==
    /\ pc = "scan" /\ f \in left
    /\ \A g \in left : ~Older(g.ver, f.ver)
    /\ left' = left \ {f} /\ last' = f
    /\ pc' = IF Older(f.ver, wanted) THEN "scan" ELSE "end"
    /\ UNCHANGED <<kernel, distro, wanted, tag>>

\* Variant: an image that is older than the kernel's gcc is not taken.
EndIfOlder ==
    /\ pc = "end" \/ (pc = "scan" /\ left = {})
    /\ IF last = None \/ Older(last.ver, wanted)
         THEN pc' = "raised" /\ UNCHANGED tag
         ELSE pc' = "returned" /\ tag' = TagOf(last)
    /\ UNCHANGED <<kernel, distro, wanted, left, last>>

\* Without a file for the distribution there is no name to make a tag from.
End ==
    /\ pc = "end" \/ (pc = "scan" /\ left = {})
    /\ IF last = None
         THEN pc' = "raised" /\ UNCHANGED tag
         ELSE pc' = "returned" /\ tag' = TagOf(last)
    /\ UNCHANGED <<kernel, distro, wanted, left, last>>

Next == ByTag \/ ByGcc \/ End \/ \E f \in Dockerfile : Scan(f)

Spec == Init /\ [][Next]_vars

(***************************************************************************)
(* Properties                                                              *)
(***************************************************************************)

\* Every variable has its type.
ChooseTypeOK ==
    /\ kernel \in Kernel /\ distro \in Distro
    /\ wanted \in Nat \X Nat
    /\ left \subseteq Dockerfile /\ last \in Dockerfile \cup {None}
    /\ pc \in {"tag", "scan", "end", "returned", "raised"}
    /\ tag \in {None} \cup {TagOf(f) : f \in Dockerfile}
               \cup {<<f.tag, "">> : f \in TagDockerfile}

\* "exact match, slightly newer, slightly older, in that order of preference"
\* (choose_builder.py:150): the oldest that is not older than the kernel's gcc,
\* or else the newest, of the images of the distribution.
Ours       == {f \in Dockerfile : f.distro = distro}
NotOlder   == {f \in Ours : ~Older(f.ver, <<kernel.gcc[1], kernel.gcc[2]>>)}
Best(f)    == IF NotOlder = {}
              THEN \A g \in Ours : ~Older(f.ver, g.ver)
              ELSE f \in NotOlder /\ \A g \in NotOlder : ~Older(g.ver, f.ver)

\* The image that is chosen by gcc has the closest one, given that the kernel
\* tells its gcc, whatever number of digits its version has.
ClosestGccChosen ==
    (pc = "returned" /\ last # None /\ kernel.form # "nowhere")
        => last \in Ours /\ Best(last)

\* choose_dockerfile fails only if the distribution has no image at all, as
\* PhotonOS, and the kernel none by its tag.
RaisesOnlyWithoutImages == pc = "raised" => Ours = {}

\* "Prepare the probe builder images ahead of time" (main-builder-entrypoint.sh,
\* line 42): an image that build takes with a prefix is one that the prebuild
\* command made.  The code refutes it: an image of one distribution release has
\* another tag there.
PreparedAhead == pc = "returned" => tag \in Prebuilt
=============================================================================
