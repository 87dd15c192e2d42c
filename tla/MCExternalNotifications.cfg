SPECIFICATION Spec
CONSTANTS
    None = None
    Events = {"a", "b"}
    Kinds = {"mail"}
    KindOf <- OneKind
    Rank <- NormalAndImportant
    Occurred <- Ahead
    MaxQueue = 2
    Expiry = 1
    Cooldown = 1
    Retention = 2
    MaxTime = 3
    MaxIssued = 3
    MaxClears = 1
    MaxFaults = 1
INVARIANTS AnnouncedOnce ReceiptsTruthful NothingForgotten
PROPERTIES ImportantKept
CHECK_DEADLOCK FALSE
