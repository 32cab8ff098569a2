SPECIFICATION FairSpec
CONSTANTS
    c1 = c1
    c2 = c2
    Oversized = Oversized
    EmptyCandidate = EmptyCandidate
    NoCandidate = NoCandidate
    Candidates = {c1, c2}
    Reports <- MCReports
    Specs <- MCSpecs
    Proposals <- MCProposals
    Verifications <- MCVerifications
    MaxIterationsLimit = 4
    MaxTokensLimit = 6
    MaxStrategies = 3
    MaxEscalateAfter = 4
    MaxWallTimeLimit = 1
    MinActivityTimeout = 1
    MaxActivityTimeout = 1
    MaxActivityAttempts = 3
    DefaultSwitchAfter = 2
    DefaultEscalateAfter = 3
    DefaultActivityTimeout = 1
INVARIANTS
    TraceTellsTheRun
    TokenBudget
    BestIsFirstLowest
    ConvergedOnAcceptance
    StagnationExact
    FailuresInRow
PROPERTIES
    UnknownCostEndsRun
    RunEnds
CHECK_DEADLOCK FALSE
