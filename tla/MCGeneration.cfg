CONSTANTS
    t1 = t1  t2 = t2  w1 = w1  w2 = w2
    Root = Root  NoTask = NoTask
    Task <- MCTask
    Worker <- MCWorker
    Faults <- Undeleted
    Budget = 3
CHECK_DEADLOCK FALSE
SYMMETRY MCSymmetry
SPECIFICATION Spec
INVARIANTS TypeOK OneRunPerTask MessageAgrees QueuedIsDeliverable
           LeaseFollowsRun TurnIsLatestOnBranch
PROPERTIES EndedIsFinal
