SPECIFICATION Spec
CONSTANTS
    v1 = v1
    k1 = k1
    Part = Part
    Page = Page
    None = None
    Version = {v1, v2}
    Kernel = {k1, k2}
    Env <- KmodEnv
    Override = FALSE
    Site = site
    BasicAuth = FALSE
    Uek = FALSE
    NeedsSources = FALSE
    Served <- AllServed
    MaxRmmodWait = 1
    RmFails = FALSE
INVARIANTS
    LoaderTypeOK
    LoadedIsAppropriate
