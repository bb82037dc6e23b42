SPECIFICATION WorkspaceSpec
CONSTANTS
    Asset = {a1}
    NoAsset = noasset
    MaxTurns = 1
    MaxPlaced = 3
    MaxFacts = 1
    MaxHistory = 1
INVARIANT ResumedOnSameTopic
CHECK_DEADLOCK FALSE
