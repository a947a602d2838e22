SPECIFICATION Spec
CONSTANTS
    h = h
    i = i
    j = j
    p = p
    q = q
    r = r
    b = b
    c = c
    None = None
    Task = {1, 2, 3, 4}
    Image = {h, i, j}
    ImageOf <- ThreeImages
    Prebuilt = TRUE
    Probe = {p, q, r}
    ProbeOf <- Duplicates
    HasBpf = {i, j}
    Bytes = {b, c}
    Makes <- TwoCompilers
    Skipped <- MCSkipped
    Broken = {1}
    Jobs = 2
    Faults = FALSE
INVARIANTS
    SkippedOnPurpose
    WholeWhenSettled
    ExitStatusHonest
