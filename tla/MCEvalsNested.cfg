SPECIFICATION Spec
CONSTANTS
    NoBaseline = NoBaseline
    Unreadable = Unreadable
    Plain <- MCPlain
    Tokens <- MCTokens
    PathParts <- MCPathParts
    FieldNames <- MCFieldNames
    Worth <- MCWorth
    Holds <- MCHolds
    Segments <- MCSegments
    Patterns <- MCPatterns
    CaseOrder <- MCCaseOrder
    Contents <- MCContents
    Trees <- NestedTrees
    Edits = {}
    Order <- NestedOrder
    CommandLines <- NestedLines
    Paths = {}
    Ends <- MCEnds
    Baselines <- NestedBaselines
    ValidTargets = {"bonjour"}
    LongReplies <- MCLongReplies
    MaxReplies = 2
    MaxDepth = 4
    MaxSteps = 3
    MaxChecks = 8
    MaxRuns = 2
    MaxNesting = 8
    MaxFileBytes = 1
    MaxWatch = 1
    MaxCases = 2
    MaxSuites = 2
    MaxAvgIterations = 2
    MaxAvgTokens = 4
INVARIANT EverySuiteRuns
CHECK_DEADLOCK FALSE
