SPECIFICATION Spec
CONSTANTS
    None = None
    Line = Line
    MaxResponses = 2
    Length <- ThreeThenOne
    MaxWorkers = 2
    MaxPrefetch = 2
    MaxQueued = 2
    MaxTurns = 2
INVARIANTS SoundIsCurrent OutputOwned NeverStalls
PROPERTIES PlaysInOrder CompletedHonestly
CHECK_DEADLOCK FALSE
