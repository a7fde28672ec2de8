SPECIFICATION Spec

CONSTANTS
    PollInterval = 16
    BackoffNum = 3
    BackoffDen = 2
    PollMaxInterval = 120
    Timeout = 600
    MaxLatency = 3
    MaxOverrun = 1
    FinishTimes = {0, 50, 300, 360, 590, 600, 601, 9999}
    RunningCodes = {0, 1}
    FinalCodes = {3, 4, 7}

INVARIANTS
    TimeoutMeansUnfinished

\* wait() returns or raises
CHECK_DEADLOCK FALSE
