CONSTANTS
    t1 = t1  t2 = t2  w1 = w1  w2 = w2
    Root = Root  NoTask = NoTask
    Task <- MCTask
    Worker <- MCOneWorker
    Faults <- Deletion
    Budget = 2
CHECK_DEADLOCK FALSE
SPECIFICATION FairSpec
PROPERTIES TurnEnds
