CONSTANTS
    JobIDs = {"j1", "j2"}
    Versions = {"v0", "v1", "v2"}
    Targets = {"app", "model"}
    Assignments <- PayloadReleases
    HotJobLimit = 2
    HotEventLimit = 30
    EventLimit = 30
    Factory = "v0"
    Backend = "simulator"
    HealthTimeout = 2
    HealthStable = 1
    Jitter = 0
    DownloadWindow = {1, 2, 3, 4}
    LocalMedia = {}
    Faults = {}
    MaxPowerLoss = 1
    MaxNow = 4
SPECIFICATION Spec
INVARIANTS PayloadsSettled
CHECK_DEADLOCK FALSE
