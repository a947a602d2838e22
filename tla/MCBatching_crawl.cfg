SPECIFICATION FairBatchSpec
CONSTANTS
    Repo = {"r1", "r2", "r3", "r4"}
    Drel = {"a", "b"}
    Name <- MCName
    Version <- MCVersion
    Base = {"m1", "m2"}
    KernelName <- MCKernel
    HeadersName <- MCHeaders
    ModulesOf <- MCModules
    ImageOf <- MCImage
    Root = {"kernel"}
    DrelOf <- MCDrelOf
    BaseOf <- MCBaseOf
    World <- MCWorld
    Workers = 2
    Attempts = 2
    Kbuild = {"kb", "kf"}
    Common = {"c"}
    Flavoured <- MCFlavoured
    AbiOf <- MCAbiOf
    MinorOf <- MCMinorOf
    FlavourOf <- MCFlavourOf
    Numbered = {"1", "1+x", "2"}
    Extends <- MCExtends
    Arguments <- MCArguments
CHECK_DEADLOCK FALSE
INVARIANTS
    TreeIsUnion
    NoHalfDependencies
    HealthyCrawlIsComplete
    QuietWhenOver
    KernelsAreBatched
PROPERTIES
    CrawlEnds
