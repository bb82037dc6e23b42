SPECIFICATION Spec
CONSTANTS
    Call = {c1, c2, c3}
    Altered = {c3}
    None = none
    File = {x1, x2, x3}
    Uploader = {w1, w2}
    Conversation = {v1}
    MaxUnbound = 1
    NoFile = nofile
    Unsent = unsent
    Worker = {w1, w2}
    Trigger = 2
    Recent = 2
    MaxPath = 7
    Caller = {x1, x2, x3}
    MaxRetries = 1
    Threshold = 2
    Reader = {w1, w2}
    Key = {k1, k2}
    Capacity = 1
    NoKey = nokey
    Point = {x1, x2, x3}
    Long = 24
    Short = 12
    MaxReads = 2
    MaxSpeeds = 1
    MaxAsks = 1
    MaxTries = 2
    NoSpeed = nospeed
    MaxSessions = 2
    MaxSaid = 2
    MaxWaiting = 0
    MaxPieces = 3
    QueueSize = 1
    MaxAttempts = 2
    Intent <- MCIntent
    Offered = {"alarm", "snapshot", "rpm", "dataBatch"}
    MaxSteps = 4
    MaxCalls = 5
    MaxParallel = 3
    Asset = {k1}
    NoAsset = noasset
    MaxTurns = 2
    MaxPlaced = 5
    MaxFacts = 3
    MaxHistory = 1
INVARIANTS TypesOK OneTaskPerRequest StoresAgree ContextIsWhole LoadWhileOpen AnswersAreSound PointsReported DictationSound AnswerIsShown StaysWithinBounds DiagnosisIsAsked AnswersMeetContract WorkspaceIsSound
CHECK_DEADLOCK FALSE
