CONSTANTS
    JobIDs = {"j1", "j2"}
    Versions = {"v0", "v1", "v2"}
    Targets = {}
    Assignments <- TwoShort
    HotJobLimit = 1
    HotEventLimit = 0
    EventLimit = 1
    Factory = "v0"
    Backend = "simulator"
    HealthTimeout = 2
    HealthStable = 1
    Jitter = 1
    DownloadWindow = {1, 2, 3, 4}
    LocalMedia = {2}
    Faults = {"restart", "storage"}
    MaxPowerLoss = 1
    MaxNow = 4
SPECIFICATION Spec
INVARIANTS JournalValid
PROPERTIES MarkGoodProven FinishedStays LifecycleSpec
CHECK_DEADLOCK FALSE
