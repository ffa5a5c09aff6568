SPECIFICATION FairSpec
CONSTANTS
    main = main
    other = other
    Main = main
    Submitter <- MainOnly
    MaxWorkers = 2
    kPriorities = 2
    MaxTasks = 3
    None = none
INVARIANTS TypeOK RunsAtMostOnce NoTaskIsLost StopMeansDone JoinSeesEveryHandle
PROPERTIES UrgentFirst WaitReturns
CHECK_DEADLOCK FALSE
