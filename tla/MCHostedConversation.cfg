\* Two conversations, the first with two turns: interruptions, lost connections,
\* failures of the microphone and the device, settings saved in between, and a
\* worker that outlives its conversation.
SPECIFICATION FairSpec
CONSTANTS
    None = None
    MaxSessions = 2
    MaxTurns = 2
    MaxTries = 1
    MaxCalls = 1
    MaxWire = 1
    MaxSignals = 1
INVARIANTS Moves SoundIsOwn AllReleased
PROPERTIES WrittenOnce WorkersEnd
CHECK_DEADLOCK FALSE
