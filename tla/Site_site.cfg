SPECIFICATION FairSite
CONSTANTS
    Size = 3
    Relay = TRUE
    Requests = {q1, q2}
    Artifacts = {a1}
    NoOne = NoOne
    Digest = a1
INVARIANTS SiteTypeOK OkIsRight OneUpstreamRead CacheIsRight
PROPERTIES CompleteStays CutOffsDoNotMatter FetchSucceeds
