SPECIFICATION WorkerSpec
CONSTANTS
    CommandLines <- MCCommandLines
    MaxIterations = 2
    MaxWallTime = 2
    ActivityTimeout = 1
    ApprovalTimeout = 1
    VerifyApprovalTimeout = 4
    CommitTimeout = 1
    ExecutionMargin = 0
    QueueDelay = 0
    RunGrace = 4
    StartDelays = {3, 4}
INVARIANTS
    BoundsHold
    ExitTellsResult
PROPERTIES
    WaitsItOut
    EverythingEnds
CHECK_DEADLOCK FALSE
