\* A typed command, a proposal, a local search and the question that continues a file search race for the owner, with Stop, revocation, expiry and both ways of answering.
SPECIFICATION Spec
CONSTANTS
    None = None
    Ids = {"d", "p", "s", "c"}
    Values = {v1}
    MaxGaps = 1
    ClarificationLifetime = 2
    ConfirmationLifetime = 1
    Workers = {w1, w2}
    ProviderIds = {"p"}
    SearchIds = {"s"}
    ContinuationIds = {"c"}
    ConfirmIds = {"d", "s", "c"}
    GuardedIds = {"d"}
    CloudIds = {"p"}
    TurnOf <- OneTurn
    NewChatAllowed = TRUE
    MaxTime = 3
    MaxIssued = 2
    MaxEpoch = 4
INVARIANTS OwnerCoherent LeaseSpentOnce ApprovedExactly
PROPERTIES IdentityBound OnlyOwnerApproves DeadlinesFixed KeepsAuthority
SYMMETRY WorkerSymmetry
CHECK_DEADLOCK FALSE
