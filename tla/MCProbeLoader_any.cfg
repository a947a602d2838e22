SPECIFICATION FairSpec
CONSTANTS
    v1 = v1
    k1 = k1
    Part = Part
    Page = Page
    None = None
    Version = {v1, v2}
    Kernel = {k1}
    Env <- AnyEnv
    Override = FALSE
    Site = site
    BasicAuth = FALSE
    Uek = FALSE
    NeedsSources = TRUE
    Served <- VersionServed
    MaxRmmodWait = 1
    RmFails = TRUE
INVARIANTS
    ForcedDownloadIsFresh
    HealthyDownloadSucceeds
    LinkedIsOfThisAgent
    ForcedBuildNeverDownloads
PROPERTIES
    RunEnds
