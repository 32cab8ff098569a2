SPECIFICATION Spec
CONSTANTS
    MaxIterations = 4
    MaxWallTime = 6
    ActivityTimeout = 3
    ApprovalTimeout = 4
    VerifyApprovalTimeout = 6
    CommitTimeout = 2
    ExecutionMargin = 0
    QueueDelay = 2
INVARIANT RunLoopBounded
CHECK_DEADLOCK FALSE
