SPECIFICATION PaidSpec
CONSTANTS
    c1 = c1
    Oversized = Oversized
    EmptyCandidate = EmptyCandidate
    NoCandidate = NoCandidate
    Candidates = {c1}
    Reports <- MCReports
    Verifications <- MCVerifications
    Calls <- MCCalls
    Counts <- MCCounts
    Contents <- MCContents
    Documents <- MCDocuments
    PlaceholderBytes <- MCPlaceholderBytes
    TagBytes = 0
    MaxTokensPerCall = 2
    MaxCorrections = 1
    MaxReportedTokens = 1
    CorrectionBytes = 1
    Budget <- MCBudget
    MaxRunTokens = 6
    MaxCorrectionsLimit = 1
    MaxTokensLimit = 2
    MaxRequestTextBytes = 99
    MaxSystemBytes = 99
    MaxSchemaBytes = 99
    MaxOutputBytes = 99
    MaxDepth = 3
    PropNames = {"greeting"}
    DefNames = {}
    Trimmed <- MCNoPairs
    Bare <- MCNoPairs
    Matches = {}
    SecretTexts = {}
    MaxSourceIDBytes = 1
    AllowFakeRoute = TRUE
    EURegions = {}
INVARIANTS
    SpendingKnownOrBounded
CHECK_DEADLOCK FALSE
