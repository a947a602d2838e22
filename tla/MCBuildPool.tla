---------------------------- MODULE MCBuildPool ----------------------------
EXTENDS BuildPool

CONSTANTS h, i, j, p, q, r, b, c

\* A probe of its own for each task, all with one image; task 1 will raise.
Distinct   == [t \in Task |-> CASE t = 1 -> p [] t = 2 -> q [] t = 3 -> r]
AllInJ     == [t \in Task |-> j]
Alike      == [t \in Task |-> [a \in Art |-> b]]

\* The ignore list excludes one module.
MCSkipped == {<<q, "kmod">>}

\* Task 1 will raise here too.  Tasks 2 and 3 build one probe in two images,
\* whose compilers make the same module but not the same eBPF probe.  The image
\* h of task 4 builds no eBPF probe.
Duplicates == [t \in Task |-> CASE t = 1 -> r [] t \in {2, 3} -> p [] t = 4 -> q]
ThreeImages == [t \in Task |-> CASE t \in {1, 2} -> i [] t = 3 -> j [] t = 4 -> h]
TwoCompilers == [t \in Task |-> [a \in Art |-> IF a = "bpf" /\ t = 3 THEN c ELSE b]]
=============================================================================
