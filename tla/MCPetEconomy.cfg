\* Two care kinds that share a cap of two, two conversations, one item;
\* two ticks of the clock make a second.
SPECIFICATION Spec
CONSTANTS
    None = None
    CareKinds = {"feed", "spend_time"}
    BondKinds = {"spend_time"}
    Events = {e1, e2}
    Items = {cap}
    Full = 1
    Gain = 1
    StartAffection = 1
    Second = 2
    Interval <- SlowAndFast
    OfflineCap = 1
    Cooldown <- CareTwoTalkOne
    Window = 3
    CareCap = 2
    TalkCap = 1
    CareXp = 5
    CareCurrency = 2
    TalkXp = 1
    Price <- OneCareBuys
    RequiredXp <- FreeLevel
    MaxTime = 5
    MaxRevision = 5
INVARIANTS RewardsLimited EventsOnce LedgerBalances CacheCoherent
PROPERTIES TimeChargedOnce
CHECK_DEADLOCK FALSE
