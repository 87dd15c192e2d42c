---------------------------- MODULE UtilitySchedule ----------------------------
(***************************************************************************)
(* Timers and reminders: TimerScheduleService over its two tables, the     *)
(* Notification Center inbox and the 1 s poll that presents what is due.   *)
(* A running timer waits for a deadline of the monotonic clock, which only *)
(* the process knows; a reminder waits for its wall-clock time.            *)
(*                                                                         *)
(* Action workers create, cancel and snooze under the service's RLock, the *)
(* application thread polls under it and presents after releasing it.  The *)
(* process may crash anywhere, every store may fail, and the wall clock    *)
(* may be set at any time.                                                 *)
(***************************************************************************)
EXTENDS Integers, FiniteSets

CONSTANTS
    Timers,      \* request ids of timers: a request names one timer for good
    Reminders,   \* request ids of reminders
    Snoozes,     \* request ids of snooze operations
    Durations,   \* seconds a request may ask for
    Grace,       \* TIMER_RECOVERY_GRACE_SECONDS
    MaxActive,   \* MAX_ACTIVE_TIMERS, of either kind
    None,        \* absence
    MaxTime      \* bound: both clocks stay at or below it

Alarms == Timers \cup Reminders
Statuses == {"pending", "elapsed", "cancelled", "missed"}
Alarm == [status : Statuses, due : Int, span : Durations]
Row == [of : Alarms, nth : Nat,
        status : {"pending", "silent", "suppressed", "delivered"}]
Receipt == [of : Alarms, nth : Nat]

ASSUME ScheduleAssumption ==
    /\ Timers \cap Reminders = {}
    /\ IsFiniteSet(Timers) /\ IsFiniteSet(Reminders)
    /\ Durations \subseteq Nat \ {0}
    /\ Grace \in Nat /\ MaxActive \in Nat \ {0} /\ MaxTime \in Nat
    /\ None \notin Alarm \cup Reminders \cup Int

VARIABLES
    phase,      \* "down", "open" or, after close(), "closed"
    wall, mono, \* the two clocks
    alarms,     \* the rows of utility_timers and utility_reminders
    deadlines,  \* _deadlines: per timer the monotonic deadline, or None
    late,       \* _missed: timers found overdue beyond the grace at start
    snoozed,    \* utility_reminder_snoozes: the reminder of a used request id
    receipts,   \* per alarm: inbox rows ever issued (the ids never repeat)
    inbox,      \* the rows of notification_inbox
    batch,      \* receipts the running poll has still to present
    shown       \* history: per alarm, presentations

clocks == <<wall, mono>>
schedule == <<deadlines, late>>
notices == <<receipts, inbox, batch, shown>>
vars == <<phase, clocks, alarms, schedule, snoozed, notices>>

Known(a) == alarms[a] # None
Pending(a) == Known(a) /\ alarms[a].status = "pending"
NewAlarm(d) == [status |-> "pending", due |-> wall + d, span |-> d]
SetStatus(a, s) == alarms' = [alarms EXCEPT ![a].status = s]

Init ==
    /\ phase = "down"
    /\ wall \in 0 .. MaxTime
    /\ mono = 0
    /\ alarms = [a \in Alarms |-> None]
    /\ deadlines = [t \in Timers |-> None]
    /\ late = {}
    /\ snoozed = [q \in Snoozes |-> None]
    /\ receipts = [a \in Alarms |-> 0]
    /\ inbox = {}
    /\ batch = {}
    /\ shown = [a \in Alarms |-> 0]

(***************************************************************************)
(* The process: construction, close, crash.                                *)
(***************************************************************************)

\* Mutant of Recovered: a start waits for what the wall clock says.
RecoveredUnclamped(r) ==
    IF r.due > wall THEN mono + (r.due - wall) ELSE mono

\* The recovered deadline: what is left by the wall clock, never less than
\* nothing and never more than the timer's duration.
Recovered(r) ==
    IF r.due - wall > r.span THEN mono + r.span
    ELSE IF r.due > wall THEN mono + (r.due - wall)
    ELSE mono

\* Mutant of Start: what became due meanwhile is not scheduled.
StartFuture ==
    /\ phase = "down"
    /\ phase' = "open"
    /\ deadlines' = [t \in Timers |-> IF Pending(t) /\ alarms[t].due >= wall
                                    THEN Recovered(alarms[t]) ELSE None]
    /\ late' = {}
    /\ UNCHANGED <<clocks, alarms, snoozed, notices>>

\* __init__ schedules every pending row again.
Start ==
    /\ phase = "down"
    /\ phase' = "open"
    /\ deadlines' = [t \in Timers |-> IF Pending(t) THEN Recovered(alarms[t]) ELSE None]
    /\ late' = {t \in Timers : Pending(t) /\ alarms[t].due - wall < -Grace}
    /\ UNCHANGED <<clocks, alarms, snoozed, notices>>

Unscheduled == /\ deadlines' = [t \in Timers |-> None]
               /\ late' = {}

\* close(), once the poll has been stopped: workers may still be running.
Close ==
    /\ phase = "open" /\ batch = {}
    /\ phase' = "closed"
    /\ Unscheduled
    /\ UNCHANGED <<clocks, alarms, snoozed, notices>>

\* Exit or crash; the next process starts with a monotonic clock of its own.
Crash ==
    /\ phase # "down"
    /\ phase' = "down"
    /\ Unscheduled
    /\ batch' = {}
    /\ mono' = 0
    /\ UNCHANGED <<wall, alarms, snoozed, receipts, inbox, shown>>

(***************************************************************************)
(* Operations of action workers.  A store that fails rolls back, and the   *)
(* operation has done nothing.                                             *)
(***************************************************************************)

ActiveLeft(kind) == Cardinality({a \in kind : Pending(a)}) < MaxActive

\* Mutant of CreateTimer: a replayed request renews the deadline.
CreateTimerRenews(t, d) ==
    /\ phase = "open" /\ mono + d <= MaxTime
    /\ Known(t) => alarms[t].span = d /\ Pending(t)
    /\ ~Known(t) => ActiveLeft(Timers)
    /\ alarms' = IF Known(t) THEN alarms ELSE [alarms EXCEPT ![t] = NewAlarm(d)]
    /\ deadlines' = [deadlines EXCEPT ![t] = mono + d]
    /\ UNCHANGED <<phase, clocks, late, snoozed, notices>>

\* create: a request id that is known returns its row (or fails, if the request
\* has changed) and changes nothing.  Bound: the deadline is within MaxTime.
CreateTimer(t, d) ==
    /\ phase = "open" /\ mono + d <= MaxTime
    /\ ~Known(t)
    /\ ActiveLeft(Timers)
    /\ alarms' = [alarms EXCEPT ![t] = NewAlarm(d)]
    /\ deadlines' = [deadlines EXCEPT ![t] = mono + d]
    /\ UNCHANGED <<phase, clocks, late, snoozed, notices>>

\* create_reminder: a time ahead of the wall clock.
CreateReminder(r, d) ==
    /\ phase = "open"
    /\ ~Known(r)
    /\ ActiveLeft(Reminders)
    /\ alarms' = [alarms EXCEPT ![r] = NewAlarm(d)]
    /\ UNCHANGED <<phase, clocks, schedule, snoozed, notices>>

\* Mutant of CancelTimer: the deadline of a cancelled timer stays.
CancelTimerKeeps(t) ==
    /\ phase = "open"
    /\ Pending(t)
    /\ SetStatus(t, "cancelled")
    /\ UNCHANGED <<phase, clocks, schedule, snoozed, notices>>

\* cancel: only a pending row changes; the deadline goes with it.
CancelTimer(t) ==
    /\ phase = "open"
    /\ Pending(t)
    /\ SetStatus(t, "cancelled")
    /\ deadlines' = [deadlines EXCEPT ![t] = None]
    /\ late' = late \ {t}
    /\ UNCHANGED <<phase, clocks, snoozed, notices>>

CancelReminder(r) ==
    /\ phase = "open"
    /\ Pending(r)
    /\ SetStatus(r, "cancelled")
    /\ UNCHANGED <<phase, clocks, schedule, snoozed, notices>>

\* snooze: pending, rung and missed reminders, the latter two within the limit.
Snoozable(r) ==
    /\ Known(r)
    /\ alarms[r].status # "cancelled"
    /\ Pending(r) \/ ActiveLeft(Reminders)

\* A request id snoozes once: its replay returns the row as it is.
Snooze(q, r, d) ==
    /\ phase = "open"
    /\ snoozed[q] = None
    /\ Snoozable(r)
    /\ snoozed' = [snoozed EXCEPT ![q] = r]
    /\ alarms' = [alarms EXCEPT ![r] = NewAlarm(d)]
    /\ UNCHANGED <<phase, clocks, schedule, notices>>

(***************************************************************************)
(* The poll and the presentation, on the application thread.               *)
(***************************************************************************)

DueTimers == {t \in Timers : deadlines[t] # None /\ mono >= deadlines[t]}
DueReminders == {r \in Reminders : Pending(r) /\ wall >= alarms[r].due}

Missed(a) == IF a \in Timers THEN a \in late ELSE wall - alarms[a].due > Grace

NewRow(a) == [of |-> a, nth |-> receipts[a] + 1,
              status |-> IF Missed(a) THEN "silent" ELSE "pending"]

\* claim_expiry of each alarm in `due`: the row and its inbox entry commit
\* together.  A row that is not pending any more is left alone.
Claim(due) ==
    LET claimed == {a \in due : Pending(a)}
    IN  /\ alarms' = [a \in Alarms |->
                        IF a \in claimed
                        THEN [alarms[a] EXCEPT !.status = IF Missed(a) THEN "missed"
                                                          ELSE "elapsed"]
                        ELSE alarms[a]]
        /\ receipts' = [a \in Alarms |->
                          IF a \in claimed THEN receipts[a] + 1 ELSE receipts[a]]
        /\ inbox' = inbox \cup {NewRow(a) : a \in claimed}
        /\ deadlines' = [t \in Timers |-> IF t \in due THEN None ELSE deadlines[t]]
        /\ late' = late \ due

Loud(due) == {[of |-> a, nth |-> receipts[a] + 1] :
                a \in {b \in due : Pending(b) /\ ~Missed(b)}}

\* Mutant of Poll: what has been missed is presented with the rest.
PollLoudly ==
    LET due == DueTimers \cup DueReminders
    IN  /\ phase = "open" /\ batch = {} /\ due # {}
        /\ Claim(due)
        /\ batch' = {[of |-> a, nth |-> receipts[a] + 1] : a \in {b \in due : Pending(b)}}
        /\ UNCHANGED <<phase, clocks, snoozed, shown>>

\* tick: everything due is claimed, and what has not been missed is presented.
Poll ==
    LET due == DueTimers \cup DueReminders
    IN  /\ phase = "open" /\ batch = {} /\ due # {}
        /\ Claim(due)
        /\ batch' = Loud(due)
        /\ UNCHANGED <<phase, clocks, snoozed, shown>>

\* A claim fails after those of `done` have committed, timers before reminders:
\* the poll raises, and their receipts are never presented.
PollFails(done) ==
    /\ phase = "open" /\ batch = {}
    /\ done # DueTimers \cup DueReminders
    /\ done \cap Reminders # {} => DueTimers \subseteq done
    /\ Claim(done)
    /\ UNCHANGED <<phase, clocks, snoozed, batch, shown>>

Outcomes == {"suppressed", "silent", "delivered", "raised", "unrecorded"}
Presents(outcome) == outcome \in {"delivered", "unrecorded"}

\* What _deliver makes of the inbox, if the entry is still there; an exception,
\* before ("raised") or after the notice was presented, leaves it as it is.
Recorded(n, outcome) ==
    IF outcome \in {"raised", "unrecorded"} THEN inbox
    ELSE {IF r.of = n.of /\ r.nth = n.nth THEN [r EXCEPT !.status = outcome] ELSE r :
            r \in inbox}

\* Mutant of Deliver: a presentation that raised is tried again.
DeliverRetries(n, outcome) ==
    /\ n \in batch
    /\ batch' = IF outcome \in {"raised", "unrecorded"} THEN batch ELSE batch \ {n}
    /\ inbox' = Recorded(n, outcome)
    /\ shown' = [shown EXCEPT ![n.of] = IF Presents(outcome) /\ @ < 3 THEN @ + 1 ELSE @]
    /\ UNCHANGED <<phase, clocks, alarms, schedule, snoozed, receipts>>

\* _deliver of one receipt: suppressed by the policy or a busy assistant, shown
\* on a surface, silent for lack of one, or an exception; never retried.
Deliver(n, outcome) ==
    /\ n \in batch
    /\ batch' = batch \ {n}
    /\ inbox' = Recorded(n, outcome)
    /\ shown' = [shown EXCEPT ![n.of] = IF Presents(outcome) THEN @ + 1 ELSE @]
    /\ UNCHANGED <<phase, clocks, alarms, schedule, snoozed, receipts>>

\* The user clears the Notification Center, from the event loop.
ClearInbox ==
    /\ phase = "open" /\ batch = {}
    /\ inbox' = {}
    /\ UNCHANGED <<phase, clocks, alarms, schedule, snoozed, receipts, batch, shown>>

(***************************************************************************)
(* The clocks.                                                             *)
(***************************************************************************)

Advance ==
    /\ phase = "open" /\ mono < MaxTime
    /\ mono' = mono + 1
    /\ wall' = IF wall < MaxTime THEN wall + 1 ELSE wall
    /\ UNCHANGED <<phase, alarms, schedule, snoozed, notices>>

SetWall(t) ==
    /\ t # wall
    /\ wall' = t
    /\ UNCHANGED <<phase, mono, alarms, schedule, snoozed, notices>>

Next ==
    \/ Start \/ Close \/ Crash
    \/ \E t \in Timers, d \in Durations : CreateTimer(t, d)
    \/ \E r \in Reminders, d \in Durations : CreateReminder(r, d)
    \/ \E t \in Timers : CancelTimer(t)
    \/ \E r \in Reminders : CancelReminder(r)
    \/ \E q \in Snoozes, r \in Reminders, d \in Durations : Snooze(q, r, d)
    \/ Poll
    \/ \E done \in SUBSET (DueTimers \cup DueReminders) : PollFails(done)
    \/ \E n \in batch, outcome \in Outcomes : Deliver(n, outcome)
    \/ ClearInbox \/ Advance
    \/ \E t \in 0 .. MaxTime : SetWall(t)

Spec == Init /\ [][Next]_vars

\* The poll timer fires again and again, a presentation returns, time passes,
\* and the database does not fail at every single poll.
FairSpec ==
    /\ Spec
    /\ WF_vars(Poll)
    /\ WF_vars(\E n \in batch, outcome \in Outcomes : Deliver(n, outcome))
    /\ WF_vars(Advance)

(***************************************************************************)
(* Properties.                                                             *)
(***************************************************************************)

\* Every variable keeps the shape of its table or field.
TypeOK ==
    /\ phase \in {"down", "open", "closed"}
    /\ wall \in 0 .. MaxTime /\ mono \in 0 .. MaxTime
    /\ alarms \in [Alarms -> Alarm \cup {None}]
    /\ deadlines \in [Timers -> Nat \cup {None}]
    /\ late \subseteq Timers
    /\ snoozed \in [Snoozes -> Reminders \cup {None}]
    /\ receipts \in [Alarms -> Nat]
    /\ inbox \subseteq Row
    /\ batch \subseteq Receipt
    /\ shown \in [Alarms -> Nat]

\* While the service is open exactly the pending timers have a deadline: none is
\* forgotten until the next start, none rings after it was cancelled.
Scheduled ==
    /\ phase = "open" => \A t \in Timers : deadlines[t] # None <=> Pending(t)
    /\ late \subseteq {t \in Timers : deadlines[t] # None}

\* However the wall clock was set before a restart, no timer has longer to wait
\* than the duration it was created with.
DelayBounded ==
    \A t \in Timers : deadlines[t] # None => deadlines[t] <= mono + alarms[t].span

\* No more than MaxActive timers, and no more than MaxActive reminders, are
\* pending at once, however they became pending.
ActiveCapped ==
    \A kind \in {Timers, Reminders} :
        Cardinality({a \in kind : Pending(a)}) <= MaxActive

\* The inbox tells what happened: a delivered entry was presented, and a
\* suppressed or silent one never was.
Entries(a, statuses) == {r \in inbox : r.of = a /\ r.status \in statuses}

InboxTruthful ==
    \A a \in Alarms :
        /\ Cardinality(Entries(a, {"delivered"})) <= shown[a]
        /\ shown[a] + Cardinality(Entries(a, {"suppressed", "silent"})) <= receipts[a]

\* Neither a wall-clock change nor a replayed request moves the deadline of a
\* running timer.
DeadlineFixed ==
    [][\A t \in Timers : (deadlines[t] # None /\ deadlines'[t] # None)
                            => deadlines'[t] = deadlines[t]]_vars

\* The schedule keeps the promise of AlarmPromise: an alarm is armed while its
\* row is pending, and it rings while a poll holds its receipt.
Over == {a \in Alarms : Known(a) /\ \/ alarms[a].status = "cancelled"
                                    \/ a \in Timers /\ ~Pending(a)}

Promise == INSTANCE AlarmPromise WITH
    OneShot <- Timers,
    armed <- {a \in Alarms : Pending(a)},
    over <- Over,
    ringing <- {n.of : n \in batch},
    notices <- shown

KeepsPromise == Promise!Spec

\* A timer that is pending while the process runs ends: it rings, is missed or
\* is cancelled, unless the process stops first.
TimerEnds ==
    \A t \in Timers : (phase = "open" /\ Pending(t)) ~> (phase # "open" \/ ~Pending(t))
=============================================================================
