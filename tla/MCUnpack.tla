------------------------------ MODULE MCUnpack ------------------------------
EXTENDS Unpack

CONSTANTS h1, h2, c, h1b

MCBuilderOf == [x \in Distro |-> IF x = "custom-debian" THEN "debian" ELSE x]

\* Two kernels with headers of their own and a common package, unpacked to one
\* directory, as the variants of a Debian or Ubuntu version are.  The local
\* packages have one kernel release twice, with headers that overwrite each other.
MCPkgsOf == [x \in Distro |-> IF x = "custom-debian" THEN <<<<h1, c>>, <<h1b, c>>>>
                                                     ELSE <<<<h1, c>>, <<h2, c>>>>]
MCHeadersOf == [x \in Distro |-> [n \in Kernel |-> MCPkgsOf[x][n][1]]]
MCDirOf     == [x \in Distro |-> [n \in Kernel |-> IF x = "custom-debian" THEN 1 ELSE n]]
MCRivals    == [x \in Distro |-> [p \in Pkg |->
                   CASE x = "custom-debian" /\ p = h1  -> {h1b}
                     [] x = "custom-debian" /\ p = h1b -> {h1}
                     [] OTHER -> {}]]

\* centos.py unpacks each kernel to a directory of its own.
MCTargetOf == [x \in Distro |-> [n \in Kernel |-> IF x = "centos" /\ n = 2 THEN "u" ELSE "t"]]

\* What a healthy run of debian.py needs of its lists, in both of its distributions.
ASSUME MCHeadersAmongPackages == HeadersAmongPackages
=============================================================================
