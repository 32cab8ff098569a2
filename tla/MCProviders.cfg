SPECIFICATION ProvidersSpec
CONSTANTS
    Configs <- MCConfigs
    Calls <- MCCalls
    Responses <- MCResponses
    MaxResponseBytes = 2
    MaxOutputLimit = 2
    MaxInputLimit = 3
    MaxRead = 2
    c1 = c1
    c2 = c2
    c3 = c3
    greet = greet
    plan = plan
    other = other
    h1 = h1
    h2 = h2
    NoOne = NoOne
    Callers <- MCCallers
    Prompts <- MCPrompts
    Hashes <- MCHashes
    Files <- MCFiles
    OptionSets <- MCOptionSets
    Requests <- MCRequests
    Lone = c1
INVARIANTS
    AnswerIsWhole
    StepsOnce
PROPERTIES
    ImplementsPort
CHECK_DEADLOCK FALSE
