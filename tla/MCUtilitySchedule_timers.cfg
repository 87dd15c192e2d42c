\* A timer beside a reminder: restarts, clock changes, failing polls, a snooze.
\* Every claim, presentation and suppression is told truthfully by the inbox.
SPECIFICATION FairSpec
CONSTANTS
    None = None
    Timers = {t1}
    Reminders = {r1}
    Snoozes = {q1}
    Durations = {1}
    Grace = 1
    MaxActive = 1
    MaxTime = 3
INVARIANTS Scheduled DelayBounded InboxTruthful
PROPERTIES DeadlineFixed KeepsPromise TimerEnds
CHECK_DEADLOCK FALSE
