\* Two proposals of one turn, one of them of a cloud session, and a typed command:
\* one intent per turn, and every question ends although its deadline is only
\* enforced when some method runs.
SPECIFICATION FairSpec
CONSTANTS
    None = None
    Ids = {"d", "p", "q"}
    Values = {v1}
    MaxGaps = 1
    ClarificationLifetime = 2
    ConfirmationLifetime = 1
    Workers = {w1}
    ProviderIds = {"p", "q"}
    SearchIds = {}
    ContinuationIds = {}
    ConfirmIds = {"p", "q"}
    GuardedIds = {}
    CloudIds = {"q"}
    TurnOf <- OneTurn
    NewChatAllowed = FALSE
    MaxTime = 3
    MaxIssued = 2
    MaxEpoch = 4
INVARIANTS OneIntentPerTurn
PROPERTIES QuestionEnds
CHECK_DEADLOCK FALSE
