CONSTANTS
    Kinds = {"a", "b"}
    BatchLimit = 2
    Capacity = 2
    MaxEvents = 2
    MaxReleases = 1
    MaxInFlight = 2
    MaxRestores = 1
SPECIFICATION FairSpec
INVARIANTS TypeOK NoEventLost
PROPERTIES DeliverySpec EventsDelivered
CHECK_DEADLOCK FALSE
