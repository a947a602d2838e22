---------------------------- MODULE PackageLists ----------------------------
(***************************************************************************)
(* What the crawler makes of one list of packages: the dictionary that     *)
(* scan_packages reads, the packages that look like kernels, and the tree  *)
(* from kernel versions to the URLs of all they need (DebRepository in     *)
(* kernel_crawler/deb.py, RpmRepository in rpm.py).                        *)
(*                                                                         *)
(* A list is a sequence of entries [name, version, depends].  An index is  *)
(* the dictionary made of it, a function from the names it has.            *)
(***************************************************************************)
EXTENDS Naturals, Sequences

CONSTANTS
    Name,                \* of packages; an RPM is named with its version
    Version,
    Base,                \* the URLs of mirrors and repositories
    KernelName,          \* the names that is_kernel_package accepts
    HeadersName,         \* linux-headers-R, for each R
    ModulesOf, ImageOf,  \* linux-modules-R and linux-image-R, for linux-headers-R
    Root                 \* the RPMs kernel and kernel-devel

Entry == [name : Name, version : Version, depends : SUBSET Name]
Url   == [base : Base, name : Name, version : Version]
Package == [version : Version, depends : SUBSET Name, url : Url]

ASSUME ListsAssumption ==
    /\ KernelName \subseteq Name /\ HeadersName \subseteq Name /\ Root \subseteq Name
    /\ ModulesOf \in [HeadersName -> Name] /\ ImageOf \in [HeadersName -> Name]

\* The index of a list (scan_packages, get_raw_package_db): of entries with one
\* name the last one counts.
LastOf(list, n) ==
    CHOOSE e \in DOMAIN list :
        /\ list[e].name = n
        /\ \A f \in DOMAIN list : list[f].name = n => f <= e

Index(base, list) ==
    [n \in {list[e].name : e \in DOMAIN list} |->
        LET entry == list[LastOf(list, n)]
        IN  [version |-> entry.version,
             depends |-> entry.depends,
             url     |-> [base |-> base, name |-> n, version |-> entry.version]]]

NoIndex == [n \in {} |-> {}]

(***************************************************************************)
(* Which packages are kernels (get_package_list): headers with modules or, *)
(* if there are none, with an image of the same release.  A kernel filter  *)
(* is given by the names that are equal to its text, the headers whose     *)
(* release is, and the names that contain it.                              *)
(***************************************************************************)
NoFilter == [exact |-> {}, release |-> {}, matching |-> Name]

Listed(index) ==
    UNION {CASE ModulesOf[h] \in DOMAIN index -> {h, ModulesOf[h]}
             [] ModulesOf[h] \notin DOMAIN index /\ ImageOf[h] \in DOMAIN index -> {h, ImageOf[h]}
             [] OTHER -> {} : h \in HeadersName \cap DOMAIN index}

Wanted(index, filter) ==
    LET With(partner) == UNION {{h, partner[h]} : h \in {x \in filter.release \cap Listed(index) :
                                                            partner[x] \in Listed(index)}}
    IN  CASE filter = NoFilter -> Listed(index)
          [] filter # NoFilter /\ filter.exact \cap DOMAIN index # {} -> filter.exact \cap DOMAIN index
          [] OTHER -> IF With(ModulesOf) # {} THEN With(ModulesOf)
                      ELSE IF With(ImageOf) # {} THEN With(ImageOf)
                      ELSE Listed(index) \cap filter.matching

(***************************************************************************)
(* What a package needs, in a graph of dependencies: itself, what it       *)
(* depends on, and so on.  DebDeps shows that transitive_dependencies      *)
(* returns this set or, if the index has not all of it, raises.            *)
(***************************************************************************)
Closed(depends, S) == \A n \in S \cap DOMAIN depends : depends[n] \subseteq S

Needed(depends, n) ==
    LET all == {n} \cup DOMAIN depends \cup UNION {depends[x] : x \in DOMAIN depends}
    IN  {x \in all : \A S \in SUBSET all : (n \in S /\ Closed(depends, S)) => x \in S}

\* Only kernel packages are followed (filter_kernel_packages).
DebNeeded(index, n) == Needed([x \in DOMAIN index |-> index[x].depends \cap KernelName], n)

\* Variant: what is missing from the list is passed over.
MissingPassedOver(index, n) ==
    IF n \in KernelName THEN {index[x].url : x \in DebNeeded(index, n) \cap DOMAIN index} ELSE {}

\* get_package_deps, with the exception's handler in build_package_tree.
UrlsOf(index, n) ==
    IF n \in KernelName /\ DebNeeded(index, n) \subseteq DOMAIN index
    THEN {index[x].url : x \in DebNeeded(index, n)} ELSE {}

\* build_package_tree: one entry for each version of a wanted package, if any
\* URL under it is one of headers.
DebTree(index, wanted) ==
    LET At(v) == UNION {UrlsOf(index, n) : n \in {x \in wanted : index[x].version = v}}
    IN  [v \in {w \in {index[x].version : x \in wanted} : \E u \in At(w) : u.name \in HeadersName}
            |-> At(v)]

\* parse_repo_db, where a requirement that no package provides is dropped.
RpmNeeded(index, n) ==
    Needed([x \in DOMAIN index |-> index[x].depends], n) \cap DOMAIN index

RpmTree(index, filter) ==
    LET roots == {n \in Root \cap DOMAIN index : filter = NoFilter \/ n \in filter.exact}
        At(v) == UNION {RpmNeeded(index, n) : n \in {r \in roots : index[r].version = v}}
    IN  [v \in {index[n].version : n \in roots} |-> {index[x].url : x \in At(v)}]
=============================================================================
