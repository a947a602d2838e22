SPECIFICATION Spec
CONSTANTS
    v1 = v1
    k1 = k1
    Part = Part
    Page = Page
    None = None
    Version = {v1}
    Kernel = {k1}
    Env <- FetchBpf
    Override = FALSE
    Site = site
    BasicAuth = FALSE
    Uek = FALSE
    NeedsSources = FALSE
    Served <- AllServed
    MaxRmmodWait = 1
    RmFails = FALSE
INVARIANTS
    FailedDownloadIsNoticed
