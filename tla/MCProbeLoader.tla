--------------------------- MODULE MCProbeLoader ---------------------------
EXTENDS ProbeLoader

CONSTANTS v1, k1

\* Environments for the kernel module, for the eBPF probe, and conflicting ones.
Setting(a, b, f) == [agent |-> a, bpf |-> b, force |-> f]
Forces   == {{}, {"download"}, {"build"}}
KmodEnv  == {Setting("unset", FALSE, f) : f \in Forces} \cup {Setting("universal_ebpf", FALSE, {})}
BpfEnv   == {Setting("unset", TRUE, f) : f \in Forces}
FetchBpf == {Setting("legacy_ebpf", FALSE, {"download"}),
             Setting("legacy_ebpf", FALSE, {"download", "build"}),
             Setting("kmod", TRUE, {})}
AnyEnv   == KmodEnv \cup BpfEnv

\* Every probe is served under its name, and one for the first kernel by the
\* site; or those of the first agent alone.
AllServed     == [x \in Kind |-> [n \in Name |-> IF n = Site THEN <<v1, k1>> ELSE n]]
VersionServed == [x \in Kind |-> [n \in Name |-> IF n = Site \/ n[1] # v1 THEN None ELSE n]]
=============================================================================
