CONSTANTS
    JobIDs = {"j1", "j2"}
    Versions = {"v0", "v1", "v2"}
    Targets = {"app", "model"}
    Assignments <- ImageThenPayloads
    HotJobLimit = 2
    HotEventLimit = 0
    EventLimit = 1
    Factory = "v0"
    Backend = "rauc"
    HealthTimeout = 2
    HealthStable = 1
    Jitter = 0
    DownloadWindow = {1, 2, 3, 4}
    LocalMedia = {}
    Faults = {}
    MaxPowerLoss = 0
    MaxNow = 4
SPECIFICATION Spec
INVARIANTS CommittedImageRecognized
CHECK_DEADLOCK FALSE
