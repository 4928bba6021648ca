SPECIFICATION Spec
CONSTANTS
    TargetSeq <- MCTargetSeq
    Unknown = "unknown"
    MaxDepends = 2
INVARIANTS TypeOK VerdictIsRight DependenciesFirst
PROPERTIES EndsReached
CHECK_DEADLOCK FALSE
