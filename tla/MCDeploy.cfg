SPECIFICATION Spec
CONSTANTS
    COMPONENTS <- Two
    MaxFaults = 2
    MaxJobs = 3
INVARIANTS TypeOK EndsWhole OldVersionKept
PROPERTIES StartsOnWholeCode
CHECK_DEADLOCK FALSE
