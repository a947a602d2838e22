SPECIFICATION FairSpec
CONSTANTS
    h = h
    i = i
    j = j
    p = p
    q = q
    r = r
    b = b
    c = c
    None = None
    Task = {1, 2, 3}
    Image = {i, j}
    ImageOf <- AllInJ
    Prebuilt = FALSE
    Probe = {p, q, r}
    ProbeOf <- Distinct
    HasBpf = {j}
    Bytes = {b, c}
    Makes <- Alike
    Skipped <- MCSkipped
    Broken = {1}
    Jobs = 2
    Faults = TRUE
INVARIANTS
    PoolTypeOK
    OneBuildAtATime
    ContainerHasImage
    BuiltMeansWhole
PROPERTIES
    RunEnds
