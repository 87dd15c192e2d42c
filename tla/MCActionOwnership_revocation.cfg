\* A provider worker passes between the two steps of a revocation.
SPECIFICATION Spec
CONSTANTS
    None = None
    Ids = {"p"}
    Values = {v1}
    MaxGaps = 1
    ClarificationLifetime = 2
    ConfirmationLifetime = 1
    Workers = {w1}
    ProviderIds = {"p"}
    SearchIds = {}
    ContinuationIds = {}
    ConfirmIds = {"p"}
    GuardedIds = {}
    CloudIds = {"p"}
    TurnOf <- OneTurn
    NewChatAllowed = FALSE
    MaxTime = 3
    MaxIssued = 2
    MaxEpoch = 4
INVARIANTS RevocationHolds
CHECK_DEADLOCK FALSE
