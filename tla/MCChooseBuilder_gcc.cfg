SPECIFICATION Spec
CONSTANTS
    None = None
    Kernel <- MCKernel
    Distro = {"centos", "debian", "ubuntu", "oracle", "flatcar", "photonos"}
    Dockerfile <- MCDockerfile
    TagDockerfile <- MCTagDockerfile
INVARIANTS
    ChooseTypeOK
    ClosestGccChosen
    RaisesOnlyWithoutImages
CHECK_DEADLOCK FALSE
