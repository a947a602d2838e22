SPECIFICATION FairSpec
CONSTANTS
    h1 = h1
    h2 = h2
    h1b = h1b
    c = c
    Distro = {"debian", "custom-debian", "ubuntu", "centos"}
    BuilderOf <- MCBuilderOf
    NKernels = 2
    Pkg = {h1, h1b, h2, c}
    PkgsOf <- MCPkgsOf
    HeadersOf <- MCHeadersOf
    Target = {"t", "u"}
    TargetOf <- MCTargetOf
    Dir = {1, 2}
    DirOf <- MCDirOf
    Rivals <- MCRivals
INVARIANTS
    MarkedIsUnpacked
    DirsAreUnpacked
    LookedAtFirst
    MakefilesPatched
PROPERTIES
    HealthyRunUnpacksAll
