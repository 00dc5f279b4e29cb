SPECIFICATION FairSpec
CONSTANTS
    r1 = r1  r2 = r2
    EventCount = 4
    Relays = {r1, r2}
    BatchSize = 2
    Rejected = {1}
    MaxFaults = 2
    NoRelay = NoRelay
INVARIANTS
    PublishedWasSent DuplicatesNeedFaults
PROPERTIES
    HealthyEventsPublished ImplementsAtLeastOnce
