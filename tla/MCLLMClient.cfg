SPECIFICATION Spec
CONSTANTS
    Calls <- MCCalls
    Counts <- MCCounts
    Contents <- MCContents
    EURegions = {"eu-west-1", "eu"}
    PlaceholderBytes <- MCPlaceholderBytes
    TagBytes = 2
    MaxSourceIDBytes = 3
    MaxSystemBytes = 2
    MaxSchemaBytes = 2
    MaxOutputBytes = 2
    MaxDepth = 8
    Documents <- MCDocuments
    PropNames <- MCPropNames
    DefNames <- MCDefNames
    Trimmed <- MCTrimmed
    Bare <- MCBare
    Matches <- MCMatches
    SecretTexts <- MCSecretTexts
    MaxRequestTextBytes = 16
    MaxTokensPerCall = 2
    MaxTokensLimit = 2
    MaxCorrectionsLimit = 3
    MaxCorrections = 2
    MaxReportedTokens = 2
    CorrectionBytes = 1
    AllowFakeRoute = FALSE
INVARIANTS
    FailureChargedIffCalled
    ToldCoversCost
    Corrections
    ResultChecked
    SentIsMasked
    RouteLawful
CHECK_DEADLOCK FALSE
