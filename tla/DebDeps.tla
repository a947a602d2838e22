------------------------------ MODULE DebDeps ------------------------------
(***************************************************************************)
(* The kernel packages that a Debian or Ubuntu package needs               *)
(* (transitive_dependencies in kernel_crawler/deb.py).                     *)
(*                                                                         *)
(* The function calls itself for each dependency with the same set         *)
(* `dependencies`, which all the calls extend in place.  Its calls are a   *)
(* stack of packages; todo[p] is what the loop of the call for p has yet   *)
(* to look at, in the order of a Python set, which is any order.           *)
(***************************************************************************)
EXTENDS Naturals, Sequences

CONSTANTS
    Pkg,     \* the package list of the repositories
    Absent   \* kernel packages that some depend on and no list has

ASSUME DepsAssumption == Pkg \cap Absent = {}

VARIABLES
    deps,          \* of each package: the names in Depends that are of the kernel
    root,          \* the package that is asked for
    dependencies,  \* the set that is returned
    cache,         \* what calls returned: pairs of a package and a set
    stack, todo,
    outcome        \* "running", "returned", or "incomplete" for the exception

vars == <<deps, root, dependencies, cache, stack, todo, outcome>>

Top == stack[Len(stack)]

Init ==
    /\ deps \in [Pkg -> SUBSET (Pkg \cup Absent)]
    /\ root \in Pkg
    /\ dependencies = {root}
    /\ cache = {}
    /\ stack = <<root>>
    /\ todo = [p \in Pkg |-> IF p = root THEN deps[p] ELSE {}]
    /\ outcome = "running"

Cached(p) == {c \in cache : c[1] = p}

\* IncompletePackageListException
Incomplete(p) ==
    /\ outcome = "running" /\ p \in todo[Top] /\ p \notin Pkg
    /\ outcome' = "incomplete"
    /\ UNCHANGED <<deps, root, dependencies, cache, stack, todo>>

\* Variant: a cycle is an error.
CycleRaises(p) ==
    /\ outcome = "running" /\ p \in todo[Top] /\ p \in Pkg
    /\ p \in dependencies
    /\ outcome' = "incomplete"
    /\ UNCHANGED <<deps, root, dependencies, cache, stack, todo>>

\* Variant: the loop does not get past a package it has seen.
SeenForEver(p) ==
    /\ outcome = "running" /\ p \in todo[Top] /\ p \in Pkg
    /\ p \in dependencies
    /\ UNCHANGED vars

Seen(p) ==
    /\ outcome = "running" /\ p \in todo[Top] /\ p \in Pkg
    /\ p \in dependencies
    /\ todo' = [todo EXCEPT ![Top] = @ \ {p}]
    /\ UNCHANGED <<deps, root, dependencies, cache, stack, outcome>>

\* Variant: the dependencies of dependencies are left out.
DirectOnly(p) ==
    /\ outcome = "running" /\ p \in todo[Top] /\ p \in Pkg
    /\ p \notin dependencies
    /\ dependencies' = dependencies \cup {p}
    /\ todo' = [todo EXCEPT ![Top] = @ \ {p}]
    /\ UNCHANGED <<deps, root, cache, stack, outcome>>

\* Variant: a package is added only when its call has returned.
AddedAfterwards(p) ==
    /\ outcome = "running" /\ p \in todo[Top] /\ p \in Pkg
    /\ p \notin dependencies
    /\ stack' = Append(stack, p)
    /\ todo' = [q \in Pkg |-> CASE q = Top -> todo[q] \ {p}
                                [] q = p   -> deps[p]
                                [] OTHER   -> todo[q]]
    /\ UNCHANGED <<deps, root, dependencies, cache, outcome>>

Unseen(p) ==
    /\ outcome = "running" /\ p \in todo[Top] /\ p \in Pkg
    /\ p \notin dependencies
    /\ IF Cached(p) = {}
         THEN /\ dependencies' = dependencies \cup {p}
              /\ stack' = Append(stack, p)
              /\ todo' = [q \in Pkg |-> CASE q = Top -> todo[q] \ {p}
                                          [] q = p   -> deps[p]
                                          [] OTHER   -> todo[q]]
         ELSE /\ dependencies' = dependencies \cup UNION {c[2] : c \in Cached(p)}
              /\ todo' = [todo EXCEPT ![Top] = @ \ {p}]
              /\ UNCHANGED stack
    /\ UNCHANGED <<deps, root, cache, outcome>>

Return ==
    /\ outcome = "running" /\ todo[Top] = {}
    /\ IF Len(stack) = 1
         THEN outcome' = "returned" /\ UNCHANGED <<cache, stack>>
         ELSE /\ cache' = cache \cup {<<Top, dependencies \cup {Top}>>}
              /\ stack' = SubSeq(stack, 1, Len(stack) - 1)
              /\ UNCHANGED outcome
    /\ UNCHANGED <<deps, root, dependencies, todo>>

Visit(p) == Incomplete(p) \/ Seen(p) \/ Unseen(p)

Next == Return \/ \E p \in Pkg \cup Absent : Visit(p)

Spec     == Init /\ [][Next]_vars
FairSpec == Spec /\ WF_vars(Next)

(***************************************************************************)
(* Properties                                                              *)
(***************************************************************************)

\* Every variable has its type, and the stack is never empty.
DepsTypeOK ==
    /\ deps \in [Pkg -> SUBSET (Pkg \cup Absent)]
    /\ root \in Pkg /\ dependencies \subseteq Pkg
    /\ cache \subseteq Pkg \X SUBSET Pkg
    /\ stack \in Seq(Pkg) /\ stack # <<>>
    /\ todo \in [Pkg -> SUBSET (Pkg \cup Absent)]
    /\ outcome \in {"running", "returned", "incomplete"}

\* What a package needs: everything that is in each set with the package and
\* with the dependencies of all its members.
Closed(S) == \A p \in S \cap Pkg : deps[p] \subseteq S
Needed(p) == {q \in Pkg \cup Absent :
                \A S \in SUBSET (Pkg \cup Absent) : (p \in S /\ Closed(S)) => q \in S}

\* transitive_dependencies returns what the package needs, all of it and
\* nothing else, although its calls share one set and cut cycles short.
ReturnsTheNeeded == outcome = "returned" => dependencies = Needed(root)

\* It raises an exception only for a package that does need one no list has:
\* no order in which the dependencies are looked at makes up a reason.
RaisesForAbsent == outcome = "incomplete" => Needed(root) \cap Absent # {}

\* A set in the cache is what had been found when a call returned, which may
\* be less than its package needs: it is never used, since the package is
\* among the dependencies by then.
CacheIsNeverUsed == \A c \in cache : c[1] \in dependencies

\* The recursion ends, with cycles among the packages too.
Terminates == <>(outcome # "running")
=============================================================================
