CONSTANTS
    MaxCalls = 2
    MaxPrompt = 2
    MaxPerStep = 2
    MaxRetries = 1
SPECIFICATION Spec
INVARIANTS
    BudgetKept
    ResultsComplete
    CommitMatchesDelivery
    AbortLetsOneThrough
    AnswerWhole
PROPERTIES
    TurnEnds
