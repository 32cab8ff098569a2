SPECIFICATION FairSpec
CONSTANTS
    c1 = c1
    c2 = c2
    h1 = h1
    h2 = h2
    ann = ann
    bob = bob
    NoValue = NoValue
    Oversized = Oversized
    EmptyCandidate = EmptyCandidate
    NoCandidate = NoCandidate
    Candidates = {c1, c2}
    Hashes = {h1, h2}
    Identities = {ann, bob}
    SecurityHolders = {bob}
    Authors = {ann, NoValue}
    PlanHashOf <- MCPlanHashOf
    Reports <- MCReports
    Proposals <- MCProposals
    Verifications <- MCVerifications
    Signals <- MCSignals
    InboxBound = 1
    MaxIterations = 2
    MaxTokens = 4
    MaxTokensLimit = 4
    MaxIgnored = 1
INVARIANTS
    CommittedWasApproved
    OutputTellsTheEffect
PROPERTIES
    CancelledNeverCommits
    WorkflowReturns
CHECK_DEADLOCK FALSE
