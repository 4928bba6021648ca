CONSTANTS
    JobIDs = {"j1"}
    Versions = {"v0", "v1", "v2"}
    Targets = {}
    Assignments <- LateImage
    HotJobLimit = 2
    HotEventLimit = 0
    EventLimit = 1
    Factory = "v0"
    Backend = "rauc"
    HealthTimeout = 2
    HealthStable = 1
    Jitter = 1
    DownloadWindow = {3}
    LocalMedia = {}
    Faults = {"clock"}
    MaxPowerLoss = 1
    MaxNow = 5
SPECIFICATION FairSpec
PROPERTIES UpdateEnds
CHECK_DEADLOCK FALSE
