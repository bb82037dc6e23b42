SPECIFICATION Spec
CONSTANTS
    COMPONENTS <- Two
    MaxFaults = 2
    MaxJobs = 3
INVARIANT FailureRestores
CHECK_DEADLOCK FALSE
