\* New Chat clears the arbiter under a hosted turn.
SPECIFICATION Spec
CONSTANTS
    None = None
    Ids = {"p", "q"}
    Values = {v1}
    MaxGaps = 1
    ClarificationLifetime = 2
    ConfirmationLifetime = 1
    Workers = {w1}
    ProviderIds = {"p", "q"}
    SearchIds = {}
    ContinuationIds = {}
    ConfirmIds = {"p", "q"}
    GuardedIds = {}
    CloudIds = {"p", "q"}
    TurnOf <- OneTurn
    NewChatAllowed = TRUE
    MaxTime = 3
    MaxIssued = 2
    MaxEpoch = 4
INVARIANTS AcceptsAtMostOne
CHECK_DEADLOCK FALSE
