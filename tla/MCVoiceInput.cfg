SPECIFICATION Spec
CONSTANTS
    None = None
    MaxSessions = 2
    MaxTurns = 2
INVARIANTS SessionsOwned MicOwned Answered
PROPERTIES HeardOnce
CHECK_DEADLOCK FALSE
