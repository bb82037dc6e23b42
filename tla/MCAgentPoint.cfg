SPECIFICATION AgentSpec
CONSTANTS
    Intent <- MCAsking
    Offered = {"alarm", "snapshot"}
    MaxSteps = 3
    MaxCalls = 3
    MaxParallel = 2
INVARIANT PointIsSeen
CHECK_DEADLOCK FALSE
