SPECIFICATION FairSpec
CONSTANTS
    author = author
    alice = alice
    sec = sec
    plan = plan
    otherPlan = otherPlan
    NoValue = NoValue
    Identities <- MCIdentities
    SecurityHolders <- MCSecurityHolders
    Hashes <- MCHashes
    Signals <- MCSignals
    Requests <- MCRequests
    MaxRequired = 3
    DefaultMaxIgnored = 1
    MaxIgnoredLimit = 2
    MaxTimeout = 2
    InboxBound = 1
INVARIANTS
    Quorum
    RejectionAuthenticated
    FloodBound
PROPERTIES
    NothingCountsLate
    ImplementsDecision
CHECK_DEADLOCK FALSE
