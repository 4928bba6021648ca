SPECIFICATION FairSpec
CONSTANTS
    RootDocs <- MCRootDocs
    TimestampDocs <- MCTimestampDocs
    SnapshotDocs <- MCSnapshotDocs
    TargetsDocs <- MCTargetsDocs
    Releases <- MCReleases
    Pinned <- MCPinned
    None = None
INVARIANTS TypeOK AcceptedIsBound LoggedOnce
PROPERTIES RootSucceeds SnapshotMonotone LineBeforeJob RetryAccepted
CHECK_DEADLOCK FALSE
