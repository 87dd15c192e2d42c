\* A care action while the clock stands before the durable baseline.
SPECIFICATION Spec
CONSTANTS
    None = None
    CareKinds = {"feed"}
    BondKinds = {}
    Events = {}
    Items = {}
    Full = 1
    Gain = 1
    StartAffection = 1
    Second = 2
    Interval <- SlowAndFast
    OfflineCap = 1
    Cooldown <- CareTwoTalkOne
    Window = 3
    CareCap = 2
    TalkCap = 1
    CareXp = 5
    CareCurrency = 2
    TalkXp = 1
    Price <- OneCareBuys
    RequiredXp <- FreeLevel
    MaxTime = 5
    MaxRevision = 5
PROPERTIES BaselineHolds
CHECK_DEADLOCK FALSE
