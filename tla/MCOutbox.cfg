SPECIFICATION FairSpec
CONSTANTS
    Row = {r1, r2}
    GenerationRow = {r1}
    Relay = {p1}
    Api = api
    BatchSize = 2
    MaxAttempts = 2
    Faults <- FaultKinds
    MaxFaults = 2
INVARIANTS TypeOK OnePublisherPerRow SentOncePerAttempt NoTaskStranded
PROPERTIES ImplementsOutboxAbs EveryRowSettles
CHECK_DEADLOCK FALSE
