SPECIFICATION FairSpec
CONSTANTS
    s1 = s1  s2 = s2
    Span <- MCSpan
    MaxLog = 3
    Faults <- FaultKinds
    MaxFaults = 2
INVARIANTS TypeOK SpansEnd ReceivedInOrder
PROPERTY EndIsTold
CHECK_DEADLOCK FALSE
