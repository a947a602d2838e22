SPECIFICATION FairSpec
CONSTANTS
    a = a
    b = b
    None = None
    NFiles = 2
    Version = {a, b}
    BodyLen <- MCBodyLen
    Serves <- Disagreeing
    Concurrency = 2
    Retries = 2
    ShortReads = TRUE
INVARIANTS
    PublishedFromSources
    UnpublishedExplained
PROPERTIES
    HealthyRunPublishes
    BatchSettles
    PublishedForGood
