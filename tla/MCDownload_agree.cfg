SPECIFICATION Spec
CONSTANTS
    a = a
    b = b
    None = None
    NFiles = 2
    Version = {a, b}
    BodyLen <- MCBodyLen
    Serves <- Agreeing
    Concurrency = 2
    Retries = 2
    ShortReads = FALSE
INVARIANTS
    PublishedComplete
PROPERTIES
    StoreSpec
