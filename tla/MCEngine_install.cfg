CONSTANTS
    JobIDs = {"j1"}
    Versions = {"v0", "v1", "v2"}
    Targets = {}
    Assignments <- OneImage
    HotJobLimit = 2
    HotEventLimit = 0
    EventLimit = 1
    Factory = "v0"
    Backend = "rauc"
    HealthTimeout = 2
    HealthStable = 1
    Jitter = 0
    DownloadWindow = {1, 2, 3, 4}
    LocalMedia = {}
    Faults = {"restart", "storage", "backend", "clock"}
    MaxPowerLoss = 1
    MaxNow = 4
SPECIFICATION Spec
INVARIANTS TypeOK AtMostOneInstall FallbackPreserved SomeSlotBootable VerifiedIsCached
PROPERTIES OutcomeEvidence LifecycleSpec
CHECK_DEADLOCK FALSE
