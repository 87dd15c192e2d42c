------------------------- MODULE UtilityScheduleProofs -------------------------
(***************************************************************************)
(* What holds of UtilitySchedule for every number of alarms, every clock   *)
(* bound and every limit.                                                  *)
(***************************************************************************)
EXTENDS UtilitySchedule, FiniteSetTheorems, TLAPS

\* A poll holds one receipt per alarm; a service that is not open holds none,
\* and no deadlines either.
BatchUnique == \A m, n \in batch : m.of = n.of => m = n

Held == phase # "open" => batch = {} /\ \A t \in Timers : deadlines[t] = None

IInv == TypeOK /\ Scheduled /\ DelayBounded /\ BatchUnique /\ Held

\* The rows a worker or a poll writes are rows.
LEMMA NewAlarmType ==
    ASSUME TypeOK, NEW d \in Durations
    PROVE  /\ NewAlarm(d) \in Alarm
           /\ NewAlarm(d).status = "pending" /\ NewAlarm(d).span = d
           /\ NewAlarm(d) # None
  BY ScheduleAssumption DEF NewAlarm, Alarm, Statuses, TypeOK

\* A recovered deadline lies between now and the timer's duration from now.
LEMMA RecoveredBounds ==
    ASSUME TypeOK, NEW r \in Alarm
    PROVE  /\ Recovered(r) \in Nat
           /\ Recovered(r) <= mono + r.span
           /\ Recovered(r) # None
<1>1. mono \in Nat /\ wall \in Int
  BY ScheduleAssumption DEF TypeOK
<1>2. r.span \in Durations /\ r.due \in Int
  BY DEF Alarm
<1>3. r.span \in Nat
  BY <1>2, ScheduleAssumption
<1>4. Recovered(r) \in Nat /\ Recovered(r) <= mono + r.span
  BY <1>1, <1>2, <1>3 DEF Recovered
<1> QED BY <1>4, ScheduleAssumption

\* Claiming turns pending rows into elapsed or missed ones, and nothing else.
LEMMA ClaimEffect ==
    ASSUME TypeOK, NEW due \in SUBSET Alarms, Claim(due)
    PROVE  /\ alarms' \in [Alarms -> Alarm \cup {None}]
           /\ \A a \in Alarms :
                /\ Known(a)' <=> Known(a)
                /\ Pending(a)' <=> Pending(a) /\ a \notin due
                /\ Known(a) => alarms'[a].span = alarms[a].span
                /\ Known(a) => (alarms'[a].status = "cancelled"
                                  <=> alarms[a].status = "cancelled")
           /\ receipts' \in [Alarms -> Nat]
           /\ inbox' \subseteq Row
           /\ deadlines' = [t \in Timers |-> IF t \in due THEN None ELSE deadlines[t]]
           /\ late' = late \ due
<1> DEFINE claimed == {a \in due : Pending(a)}
           rung(a) == [alarms[a] EXCEPT !.status = IF Missed(a) THEN "missed" ELSE "elapsed"]
<1>1. /\ alarms' = [a \in Alarms |-> IF a \in claimed THEN rung(a) ELSE alarms[a]]
      /\ receipts' = [a \in Alarms |-> IF a \in claimed THEN receipts[a] + 1 ELSE receipts[a]]
      /\ inbox' = inbox \cup {NewRow(a) : a \in claimed}
      /\ deadlines' = [t \in Timers |-> IF t \in due THEN None ELSE deadlines[t]]
      /\ late' = late \ due
  BY DEF Claim
<1>2. \A a \in claimed : /\ alarms[a] \in Alarm /\ rung(a) \in Alarm
                         /\ rung(a).span = alarms[a].span
                         /\ rung(a).status \in {"missed", "elapsed"}
                         /\ alarms[a].status = "pending"
  <2> TAKE a \in claimed
  <2>1. a \in Alarms /\ alarms[a] \in Alarm /\ alarms[a].status = "pending"
    BY DEF TypeOK, Pending, Known
  <2>2. rung(a) \in Alarm /\ rung(a).span = alarms[a].span
           /\ rung(a).status \in {"missed", "elapsed"}
    BY <2>1 DEF Alarm, Statuses
  <2> QED BY <2>1, <2>2
<1>3. None \notin Alarm
  BY ScheduleAssumption
<1>4. alarms' \in [Alarms -> Alarm \cup {None}]
  BY <1>1, <1>2 DEF TypeOK
<1>5. ASSUME NEW a \in Alarms
      PROVE  /\ Known(a)' <=> Known(a)
             /\ Pending(a)' <=> Pending(a) /\ a \notin due
             /\ Known(a) => alarms'[a].span = alarms[a].span
             /\ Known(a) => (alarms'[a].status = "cancelled"
                               <=> alarms[a].status = "cancelled")
  <2>1. CASE a \in claimed
    <3>1. alarms'[a] = rung(a) BY <1>1, <2>1
    <3> HIDE DEF rung
    <3> QED BY <3>1, <2>1, <1>2, <1>3 DEF Known, Pending
  <2>2. CASE a \notin claimed
    <3>1. alarms'[a] = alarms[a] BY <1>1, <2>2
    <3> QED BY <3>1, <2>2 DEF Known, Pending
  <2> QED BY <2>1, <2>2
<1>6. receipts' \in [Alarms -> Nat]
  BY <1>1 DEF TypeOK
<1>7. inbox' \subseteq Row
  BY <1>1 DEF TypeOK, NewRow, Row
<1> QED BY <1>1, <1>4, <1>5, <1>6, <1>7

LEMMA DueType == DueTimers \cup DueReminders \subseteq Alarms
  BY DEF DueTimers, DueReminders, Alarms

LEMMA InitInvariant == Init => IInv
<1> SUFFICES ASSUME Init PROVE IInv
  OBVIOUS
<1>1. TypeOK
  BY ScheduleAssumption DEF Init, TypeOK
<1> QED
  BY <1>1 DEF Init, IInv, Scheduled, DelayBounded, BatchUnique, Held

\* A new process: every pending timer is scheduled, within its duration.
LEMMA StartInvariant == IInv /\ Start => IInv'
<1> SUFFICES ASSUME IInv, Start PROVE IInv'
  OBVIOUS
<1>1. \A t \in Timers : Pending(t) => alarms[t] \in Alarm
  BY DEF IInv, TypeOK, Pending, Known, Alarms
<1>2. \A t \in Timers : Pending(t) =>
         /\ Recovered(alarms[t]) \in Nat /\ Recovered(alarms[t]) # None
         /\ Recovered(alarms[t]) <= mono + alarms[t].span
  BY <1>1, RecoveredBounds DEF IInv
<1>3. TypeOK'
  BY <1>2 DEF IInv, TypeOK, Start, clocks, notices
<1>4. \A t \in Timers : Pending(t)' <=> Pending(t)
  BY DEF Start, Pending, Known
<1>5. Scheduled'
  BY <1>2, <1>4 DEF Scheduled, Start
<1>6. DelayBounded'
  BY <1>2 DEF DelayBounded, Start, clocks
<1>7. BatchUnique' /\ Held'
  BY DEF IInv, BatchUnique, Held, Start, notices
<1> QED BY <1>3, <1>5, <1>6, <1>7 DEF IInv

LEMMA StopInvariant == IInv /\ (Close \/ Crash) => IInv'
<1> SUFFICES ASSUME IInv, Close \/ Crash PROVE IInv'
  OBVIOUS
<1>1. TypeOK'
  BY ScheduleAssumption DEF IInv, TypeOK, Close, Crash, Unscheduled, clocks, notices
<1>2. /\ phase' # "open" /\ batch' = {}
      /\ late' = {} /\ \A t \in Timers : deadlines'[t] = None
  BY DEF Close, Crash, Unscheduled, notices
<1> QED BY <1>1, <1>2 DEF IInv, Scheduled, DelayBounded, BatchUnique, Held

LEMMA CreateTimerInvariant ==
    ASSUME IInv, NEW t \in Timers, NEW d \in Durations, CreateTimer(t, d)
    PROVE  IInv'
<1>1. /\ d \in Nat /\ mono \in Nat /\ mono + d \in Nat /\ mono + d # None
  BY ScheduleAssumption DEF IInv, TypeOK
<1>2. NewAlarm(d) \in Alarm /\ NewAlarm(d).status = "pending" /\ NewAlarm(d).span = d
        /\ NewAlarm(d) # None
  BY NewAlarmType DEF IInv
<1>3. /\ phase = "open" /\ UNCHANGED <<phase, clocks, late, snoozed, notices>>
      /\ alarms' = [alarms EXCEPT ![t] = NewAlarm(d)]
      /\ deadlines' = [deadlines EXCEPT ![t] = mono + d]
  BY DEF CreateTimer
<1>4. t \in Alarms /\ Timers \subseteq Alarms
  BY DEF Alarms
<1> HIDE DEF NewAlarm
<1>5. TypeOK'
  BY <1>1, <1>2, <1>3, <1>4 DEF IInv, TypeOK, clocks, notices
<1>6. \A u \in Timers : /\ Pending(u)' <=> Pending(u) \/ u = t
                        /\ u # t => alarms'[u] = alarms[u] /\ deadlines'[u] = deadlines[u]
                        /\ alarms'[t] = NewAlarm(d) /\ deadlines'[t] = mono + d
  BY <1>2, <1>3, <1>4 DEF IInv, TypeOK, Pending, Known
<1>7. Scheduled'
  BY <1>1, <1>3, <1>6 DEF IInv, Scheduled
<1>8. DelayBounded'
  BY <1>1, <1>2, <1>3, <1>6 DEF IInv, DelayBounded, clocks
<1>9. BatchUnique' /\ Held'
  BY <1>3 DEF IInv, BatchUnique, Held, notices
<1> QED BY <1>5, <1>7, <1>8, <1>9 DEF IInv

\* A step that leaves the timers and what the service holds of them alone.
LEMMA ReminderStep ==
    ASSUME IInv, TypeOK', phase = "open", UNCHANGED <<phase, mono, schedule, batch>>,
           \A t \in Timers : alarms'[t] = alarms[t]
    PROVE  IInv'
  BY DEF IInv, Scheduled, DelayBounded, BatchUnique, Held, Pending, Known, schedule

LEMMA CreateReminderInvariant ==
    ASSUME IInv, NEW r \in Reminders, NEW d \in Durations, CreateReminder(r, d)
    PROVE  IInv'
<1>1. NewAlarm(d) \in Alarm
  BY NewAlarmType DEF IInv
<1>2. r \in Alarms /\ r \notin Timers /\ Timers \subseteq Alarms
  BY ScheduleAssumption DEF Alarms
<1>3. TypeOK' /\ \A t \in Timers : alarms'[t] = alarms[t]
  BY <1>1, <1>2 DEF IInv, TypeOK, CreateReminder, clocks, schedule, notices
<1> QED BY <1>3, ReminderStep DEF CreateReminder, clocks, notices

LEMMA SnoozeInvariant ==
    ASSUME IInv, NEW q \in Snoozes, NEW r \in Reminders, NEW d \in Durations,
           Snooze(q, r, d)
    PROVE  IInv'
<1>1. NewAlarm(d) \in Alarm
  BY NewAlarmType DEF IInv
<1>2. r \in Alarms /\ r \notin Timers /\ Timers \subseteq Alarms
  BY ScheduleAssumption DEF Alarms
<1>3. TypeOK' /\ \A t \in Timers : alarms'[t] = alarms[t]
  BY <1>1, <1>2 DEF IInv, TypeOK, Snooze, clocks, schedule, notices
<1> QED BY <1>3, ReminderStep DEF Snooze, clocks, notices

\* Cancelling writes the row of one alarm.
LEMMA CancelEffect ==
    ASSUME TypeOK, NEW a \in Alarms, Pending(a), SetStatus(a, "cancelled")
    PROVE  /\ alarms' \in [Alarms -> Alarm \cup {None}]
           /\ \A b \in Alarms \ {a} : alarms'[b] = alarms[b]
           /\ alarms'[a] # None /\ alarms'[a].status = "cancelled"
<1>1. alarms[a] \in Alarm
  BY DEF TypeOK, Pending, Known
<1>2. [alarms[a] EXCEPT !.status = "cancelled"] \in Alarm
  BY <1>1 DEF Alarm, Statuses
<1>3. alarms' = [alarms EXCEPT ![a] = [alarms[a] EXCEPT !.status = "cancelled"]]
  BY DEF SetStatus
<1>4. alarms'[a] = [alarms[a] EXCEPT !.status = "cancelled"]
  BY <1>3 DEF TypeOK
<1>5. alarms'[a].status = "cancelled"
  BY <1>1, <1>4 DEF Alarm
<1>6. None \notin Alarm
  BY ScheduleAssumption
<1> QED BY <1>2, <1>3, <1>4, <1>5, <1>6 DEF TypeOK

LEMMA CancelTimerInvariant ==
    ASSUME IInv, NEW t \in Timers, CancelTimer(t)
    PROVE  IInv'
<1>1. t \in Alarms /\ Timers \subseteq Alarms
  BY DEF Alarms
<1>2. /\ alarms' \in [Alarms -> Alarm \cup {None}]
      /\ \A b \in Alarms \ {t} : alarms'[b] = alarms[b]
      /\ alarms'[t] # None /\ alarms'[t].status = "cancelled"
  BY <1>1, CancelEffect DEF CancelTimer, IInv
<1>3. /\ phase = "open" /\ UNCHANGED <<phase, clocks, snoozed, notices>>
      /\ deadlines' = [deadlines EXCEPT ![t] = None] /\ late' = late \ {t}
  BY DEF CancelTimer
<1>4. TypeOK'
  BY <1>2, <1>3 DEF IInv, TypeOK, clocks, notices
<1>5. \A u \in Timers : /\ Pending(u)' <=> Pending(u) /\ u # t
                        /\ u # t => alarms'[u] = alarms[u] /\ deadlines'[u] = deadlines[u]
                        /\ deadlines'[t] = None
  BY <1>1, <1>2, <1>3 DEF IInv, TypeOK, Pending, Known
<1>6. Scheduled'
  BY <1>3, <1>5 DEF IInv, Scheduled
<1>7. DelayBounded'
  BY <1>3, <1>5 DEF IInv, DelayBounded, clocks
<1>8. BatchUnique' /\ Held'
  BY <1>3 DEF IInv, BatchUnique, Held, notices
<1> QED BY <1>4, <1>6, <1>7, <1>8 DEF IInv

LEMMA CancelReminderInvariant ==
    ASSUME IInv, NEW r \in Reminders, CancelReminder(r)
    PROVE  IInv'
<1>1. r \in Alarms /\ r \notin Timers /\ Timers \subseteq Alarms
  BY ScheduleAssumption DEF Alarms
<1>2. /\ alarms' \in [Alarms -> Alarm \cup {None}]
      /\ \A b \in Alarms \ {r} : alarms'[b] = alarms[b]
  BY <1>1, CancelEffect DEF CancelReminder, IInv
<1>3. TypeOK'
  BY <1>2 DEF IInv, TypeOK, CancelReminder, clocks, schedule, notices
<1> QED BY <1>1, <1>2, <1>3, ReminderStep DEF CancelReminder, clocks, notices

\* What a claim leaves of the schedule, before the poll's receipts are held.
LEMMA ClaimInvariant ==
    ASSUME IInv, NEW due \in SUBSET Alarms, Claim(due), phase = "open",
           UNCHANGED <<phase, clocks, snoozed, shown>>,
           batch' \subseteq Receipt, BatchUnique'
    PROVE  IInv'
<1>1. /\ alarms' \in [Alarms -> Alarm \cup {None}]
      /\ \A a \in Alarms : /\ Pending(a)' <=> Pending(a) /\ a \notin due
                           /\ Known(a) => alarms'[a].span = alarms[a].span
      /\ receipts' \in [Alarms -> Nat]
      /\ inbox' \subseteq Row
      /\ deadlines' = [t \in Timers |-> IF t \in due THEN None ELSE deadlines[t]]
      /\ late' = late \ due
  BY ClaimEffect DEF IInv
<1>2. Timers \subseteq Alarms
  BY DEF Alarms
<1>3. TypeOK'
  BY <1>1 DEF IInv, TypeOK, clocks
<1>4. Scheduled'
  BY <1>1, <1>2 DEF IInv, Scheduled
<1>5. DelayBounded'
  <2> SUFFICES ASSUME NEW t \in Timers, deadlines'[t] # None
               PROVE  deadlines'[t] <= mono' + alarms'[t].span
    BY DEF DelayBounded
  <2>1. t \notin due /\ deadlines'[t] = deadlines[t] /\ deadlines[t] # None
    BY <1>1
  <2>2. Known(t)
    BY <2>1 DEF IInv, Scheduled, Pending
  <2>3. alarms'[t].span = alarms[t].span /\ mono' = mono
    BY <1>1, <1>2, <2>2 DEF clocks
  <2> QED BY <2>1, <2>3 DEF IInv, DelayBounded
<1>6. Held'
  BY DEF Held
<1> QED BY <1>3, <1>4, <1>5, <1>6 DEF IInv

LEMMA PollInvariant == IInv /\ Poll => IInv'
<1> SUFFICES ASSUME IInv, Poll PROVE IInv'
  OBVIOUS
<1> DEFINE due == DueTimers \cup DueReminders
<1>1. due \subseteq Alarms
  BY DueType
<1>2. /\ Claim(due) /\ phase = "open" /\ batch' = Loud(due)
      /\ UNCHANGED <<phase, clocks, snoozed, shown>>
  BY DEF Poll
<1>3. batch' \subseteq Receipt
  BY <1>1, <1>2 DEF Loud, Receipt, IInv, TypeOK
<1>4. BatchUnique'
  BY <1>2 DEF Loud, BatchUnique
<1> HIDE DEF due
<1> QED BY <1>1, <1>2, <1>3, <1>4, ClaimInvariant

LEMMA PollFailsInvariant ==
    ASSUME IInv, NEW done \in SUBSET (DueTimers \cup DueReminders), PollFails(done)
    PROVE  IInv'
<1>1. done \in SUBSET Alarms
  BY DueType
<1>2. batch' \subseteq Receipt /\ BatchUnique'
  BY DEF PollFails, IInv, TypeOK, BatchUnique
<1> QED BY <1>1, <1>2, ClaimInvariant DEF PollFails

LEMMA DeliverInvariant ==
    ASSUME IInv, NEW n \in batch, NEW outcome \in Outcomes, Deliver(n, outcome)
    PROVE  IInv'
<1>1. n \in Receipt /\ n.of \in Alarms
  BY DEF IInv, TypeOK, Receipt
<1>2. inbox' \subseteq Row
  <2>1. \A r \in Row : outcome \in {"suppressed", "silent", "delivered"}
                         => [r EXCEPT !.status = outcome] \in Row
    BY DEF Row
  <2> QED BY <2>1 DEF Deliver, Recorded, Outcomes, IInv, TypeOK
<1>3. TypeOK'
  BY <1>1, <1>2 DEF IInv, TypeOK, Deliver, clocks, schedule
<1>4. phase = "open"
  BY DEF IInv, Held
<1> QED
  BY <1>3, <1>4 DEF IInv, Deliver, Scheduled, DelayBounded, BatchUnique, Held, Pending,
                    Known, clocks, schedule

LEMMA ClockInvariant ==
    ASSUME IInv,
           \/ Advance \/ ClearInbox \/ \E t \in 0 .. MaxTime : SetWall(t)
           \/ UNCHANGED vars
    PROVE  IInv'
<1>1. TypeOK' /\ mono <= mono' /\ mono \in Nat /\ mono' \in Nat
  BY ScheduleAssumption DEF IInv, TypeOK, Advance, ClearInbox, SetWall, vars, clocks,
                            schedule, notices
<1>2. UNCHANGED <<phase, alarms, deadlines, late, batch>>
  BY DEF Advance, ClearInbox, SetWall, vars, clocks, schedule, notices
<1>3. Scheduled' /\ BatchUnique' /\ Held'
  BY <1>2 DEF IInv, Scheduled, BatchUnique, Held, Pending, Known
<1>4. DelayBounded'
  <2> SUFFICES ASSUME NEW t \in Timers, deadlines[t] # None
               PROVE  deadlines[t] <= mono' + alarms[t].span
    BY <1>2 DEF DelayBounded
  <2>1. phase = "open" /\ Pending(t)
    BY DEF IInv, Held, Scheduled
  <2>2. alarms[t].span \in Nat /\ deadlines[t] \in Nat
    BY <2>1, ScheduleAssumption DEF IInv, TypeOK, Pending, Known, Alarm, Alarms
  <2>3. deadlines[t] <= mono + alarms[t].span
    BY DEF IInv, DelayBounded
  <2> QED BY <1>1, <2>2, <2>3
<1> QED BY <1>1, <1>3, <1>4 DEF IInv

\* The invariant is inductive.
LEMMA StepInvariant == IInv /\ [Next]_vars => IInv'
<1> SUFFICES ASSUME IInv, [Next]_vars PROVE IInv'
  OBVIOUS
<1>1. CASE Start BY <1>1, StartInvariant
<1>2. CASE Close \/ Crash BY <1>2, StopInvariant
<1>3. CASE \E t \in Timers, d \in Durations : CreateTimer(t, d)
  BY <1>3, CreateTimerInvariant
<1>4. CASE \E r \in Reminders, d \in Durations : CreateReminder(r, d)
  BY <1>4, CreateReminderInvariant
<1>5. CASE \E t \in Timers : CancelTimer(t)
  BY <1>5, CancelTimerInvariant
<1>6. CASE \E r \in Reminders : CancelReminder(r)
  BY <1>6, CancelReminderInvariant
<1>7. CASE \E q \in Snoozes, r \in Reminders, d \in Durations : Snooze(q, r, d)
  BY <1>7, SnoozeInvariant
<1>8. CASE Poll BY <1>8, PollInvariant
<1>9. CASE \E done \in SUBSET (DueTimers \cup DueReminders) : PollFails(done)
  BY <1>9, PollFailsInvariant
<1>10. CASE \E n \in batch, outcome \in Outcomes : Deliver(n, outcome)
  BY <1>10, DeliverInvariant
<1>11. CASE \/ Advance \/ ClearInbox \/ \E t \in 0 .. MaxTime : SetWall(t)
            \/ UNCHANGED vars
  BY <1>11, ClockInvariant
<1> QED
  BY <1>1, <1>2, <1>3, <1>4, <1>5, <1>6, <1>7, <1>8, <1>9, <1>10, <1>11 DEF Next

THEOREM ScheduleInvariance == Spec => []IInv
<1>1. Init => IInv BY InitInvariant
<1>2. IInv /\ [Next]_vars => IInv' BY StepInvariant
<1> QED BY <1>1, <1>2, PTL DEF Spec
\* The tables and fields of the schedule keep their shape.
THEOREM TimersTypeCorrect == Spec => []TypeOK
<1>1. IInv => TypeOK BY DEF IInv
<1> QED BY <1>1, ScheduleInvariance, PTL

\* No pending timer of a running process is forgotten, no cancelled one waits:
\* create, cancel, expiry and recovery keep the table and _deadlines together.
THEOREM TimersAreScheduled == Spec => []Scheduled
<1>1. IInv => Scheduled BY DEF IInv
<1> QED BY <1>1, ScheduleInvariance, PTL

\* A restart never makes a timer wait longer than its duration.
THEOREM DelaysAreBounded == Spec => []DelayBounded
<1>1. IInv => DelayBounded BY DEF IInv
<1> QED BY <1>1, ScheduleInvariance, PTL

\* No step of a running service moves the deadline of a timer.
THEOREM DeadlinesAreFixed == Spec => DeadlineFixed
<1>1. IInv /\ [Next]_vars =>
        [\A t \in Timers : (deadlines[t] # None /\ deadlines'[t] # None)
                              => deadlines'[t] = deadlines[t]]_vars
  <2> SUFFICES ASSUME IInv, Next, NEW t \in Timers,
                      deadlines[t] # None, deadlines'[t] # None
               PROVE  deadlines'[t] = deadlines[t]
    OBVIOUS
  <2>1. phase = "open" /\ Pending(t)
    BY DEF IInv, Held, Scheduled
  <2>2. ASSUME NEW u \in Timers, NEW d \in Durations, CreateTimer(u, d)
        PROVE  deadlines'[t] = deadlines[t]
    <3>1. u # t /\ deadlines' = [deadlines EXCEPT ![u] = mono + d]
      BY <2>1, <2>2 DEF CreateTimer, Pending
    <3> QED BY <3>1 DEF IInv, TypeOK
  <2>3. ASSUME NEW u \in Timers, CancelTimer(u)
        PROVE  deadlines'[t] = deadlines[t]
    BY <2>3 DEF CancelTimer, IInv, TypeOK
  <2>4. ASSUME NEW due, Claim(due)
        PROVE  deadlines'[t] = deadlines[t]
    BY <2>4 DEF Claim
  <2>5. CASE Start \/ Close \/ Crash
    BY <2>1, <2>5 DEF Start, Close, Crash, Unscheduled
  <2>6. CASE Poll \/ \E done \in SUBSET (DueTimers \cup DueReminders) : PollFails(done)
    BY <2>4, <2>6 DEF Poll, PollFails
  <2>7. CASE \/ \E r \in Reminders, d \in Durations : CreateReminder(r, d)
             \/ \E r \in Reminders : CancelReminder(r)
             \/ \E q \in Snoozes, r \in Reminders, d \in Durations : Snooze(q, r, d)
             \/ \E n \in batch, outcome \in Outcomes : Deliver(n, outcome)
             \/ ClearInbox \/ Advance \/ \E v \in 0 .. MaxTime : SetWall(v)
    BY <2>7 DEF CreateReminder, CancelReminder, Snooze, Deliver, ClearInbox, Advance,
                SetWall, schedule
  <2> QED BY <2>2, <2>3, <2>5, <2>6, <2>7 DEF Next
<1> QED BY <1>1, ScheduleInvariance, PTL DEF Spec, DeadlineFixed

(***************************************************************************)
(* The limit.                                                              *)
(***************************************************************************)

PendingOf(kind) == {a \in kind : Pending(a)}

LEMMA PendingFinite ==
    ASSUME NEW kind \in {Timers, Reminders}
    PROVE  /\ IsFiniteSet(PendingOf(kind)) /\ IsFiniteSet(PendingOf(kind)')
           /\ Cardinality(PendingOf(kind)) \in Nat
           /\ Cardinality(PendingOf(kind)') \in Nat
<1>1. IsFiniteSet(kind)
  BY ScheduleAssumption
<1>2. PendingOf(kind) \subseteq kind /\ PendingOf(kind)' \subseteq kind
  BY DEF PendingOf
<1>3. IsFiniteSet(PendingOf(kind)) /\ IsFiniteSet(PendingOf(kind)')
  BY <1>1, <1>2, FS_Subset
<1> QED BY <1>3, FS_CardinalityType

\* Nothing becomes pending: the limit holds as before.
LEMMA FewerPending ==
    ASSUME NEW kind \in {Timers, Reminders}, PendingOf(kind)' \subseteq PendingOf(kind),
           Cardinality(PendingOf(kind)) <= MaxActive
    PROVE  Cardinality(PendingOf(kind)') <= MaxActive
<1>1. Cardinality(PendingOf(kind)') <= Cardinality(PendingOf(kind))
  BY PendingFinite, FS_Subset
<1> QED BY <1>1, PendingFinite, ScheduleAssumption

\* One alarm becomes pending, below the limit.
LEMMA OneMorePending ==
    ASSUME NEW kind \in {Timers, Reminders}, NEW a,
           PendingOf(kind)' \subseteq PendingOf(kind) \cup {a}, ActiveLeft(kind)
    PROVE  Cardinality(PendingOf(kind)') <= MaxActive
<1>1. /\ IsFiniteSet(PendingOf(kind) \cup {a})
      /\ Cardinality(PendingOf(kind) \cup {a}) <= Cardinality(PendingOf(kind)) + 1
  <2> DEFINE S == PendingOf(kind)
  <2>1. IsFiniteSet(S) /\ Cardinality(S) \in Nat
    BY PendingFinite
  <2> HIDE DEF S
  <2>2. /\ IsFiniteSet(S \cup {a})
        /\ Cardinality(S \cup {a}) = IF a \in S THEN Cardinality(S) ELSE Cardinality(S) + 1
    BY <2>1, FS_AddElement
  <2>3. Cardinality(S \cup {a}) <= Cardinality(S) + 1
    BY <2>1, <2>2
  <2> QED BY <2>2, <2>3 DEF S
<1>2. Cardinality(PendingOf(kind)') <= Cardinality(PendingOf(kind) \cup {a})
  BY <1>1, FS_Subset
<1>3. Cardinality(PendingOf(kind)) < MaxActive
  BY DEF ActiveLeft, PendingOf
<1>4. Cardinality(PendingOf(kind) \cup {a}) \in Nat
  BY <1>1, FS_CardinalityType
<1> QED BY <1>1, <1>2, <1>3, <1>4, PendingFinite, ScheduleAssumption

Capped(kind) == Cardinality(PendingOf(kind)) <= MaxActive

LEMMA CapStep ==
    ASSUME IInv, [Next]_vars, NEW kind \in {Timers, Reminders}, Capped(kind)
    PROVE  Capped(kind)'
<1>1. Timers \subseteq Alarms /\ Reminders \subseteq Alarms /\ kind \subseteq Alarms
        /\ Timers \cap Reminders = {}
  BY ScheduleAssumption DEF Alarms
<1>2. ASSUME NEW a \in Alarms, NEW d \in Durations,
             alarms' = [alarms EXCEPT ![a] = NewAlarm(d)]
      PROVE  /\ PendingOf(kind)' \subseteq PendingOf(kind) \cup {a}
             /\ a \notin kind \/ Pending(a) => PendingOf(kind)' \subseteq PendingOf(kind)
  BY <1>1, <1>2 DEF PendingOf, Pending, Known, IInv, TypeOK
<1>3. ASSUME NEW t \in Timers, NEW d \in Durations, CreateTimer(t, d)
      PROVE  Capped(kind)'
  <2>1. CASE kind = Timers
    BY <1>1, <1>2, <1>3, <2>1, OneMorePending DEF CreateTimer, Capped
  <2>2. CASE kind = Reminders
    BY <1>1, <1>2, <1>3, <2>2, FewerPending DEF CreateTimer, Capped
  <2> QED BY <2>1, <2>2
<1>4. ASSUME NEW r \in Reminders, NEW d \in Durations, CreateReminder(r, d)
      PROVE  Capped(kind)'
  <2>1. CASE kind = Reminders
    BY <1>1, <1>2, <1>4, <2>1, OneMorePending DEF CreateReminder, Capped
  <2>2. CASE kind = Timers
    BY <1>1, <1>2, <1>4, <2>2, FewerPending DEF CreateReminder, Capped
  <2> QED BY <2>1, <2>2
<1>5. ASSUME NEW q \in Snoozes, NEW r \in Reminders, NEW d \in Durations, Snooze(q, r, d)
      PROVE  Capped(kind)'
  <2>1. CASE kind = Reminders /\ ~Pending(r)
    BY <1>1, <1>2, <1>5, <2>1, OneMorePending DEF Snooze, Snoozable, Capped
  <2>2. CASE kind = Timers \/ Pending(r)
    BY <1>1, <1>2, <1>5, <2>2, FewerPending DEF Snooze, Capped
  <2> QED BY <2>1, <2>2
<1>6. ASSUME \A a \in Alarms : Pending(a)' => Pending(a)
      PROVE  Capped(kind)'
  <2>1. PendingOf(kind)' \subseteq PendingOf(kind)
    BY <1>1, <1>6 DEF PendingOf
  <2> QED BY <2>1, FewerPending DEF Capped
<1>7. ASSUME NEW a \in Alarms, Pending(a), SetStatus(a, "cancelled")
      PROVE  Capped(kind)'
  <2>1. \A b \in Alarms : Pending(b)' => Pending(b)
    BY <1>7, CancelEffect DEF IInv, Pending, Known
  <2> QED BY <2>1, <1>6
<1>8. ASSUME NEW due \in SUBSET Alarms, Claim(due)
      PROVE  Capped(kind)'
  BY <1>6, <1>8, ClaimEffect DEF IInv
<1>9. CASE UNCHANGED alarms
  BY <1>6, <1>9 DEF Pending, Known
<1>10. CASE \/ Poll
            \/ \E done \in SUBSET (DueTimers \cup DueReminders) : PollFails(done)
  <2>1. PICK due \in SUBSET (DueTimers \cup DueReminders) : Claim(due)
    BY <1>10 DEF Poll, PollFails
  <2>2. due \in SUBSET Alarms
    BY DueType
  <2> QED BY <2>1, <2>2, <1>8
<1>11. CASE (\E t \in Timers : CancelTimer(t)) \/ (\E r \in Reminders : CancelReminder(r))
  BY <1>1, <1>7, <1>11 DEF CancelTimer, CancelReminder
<1>12. CASE \/ Start \/ Close \/ Crash \/ ClearInbox \/ Advance
            \/ \E v \in 0 .. MaxTime : SetWall(v)
            \/ \E n \in batch, outcome \in Outcomes : Deliver(n, outcome)
            \/ UNCHANGED vars
  <2>1. UNCHANGED alarms
    BY <1>12 DEF Start, Close, Crash, ClearInbox, Advance, SetWall, Deliver, vars
  <2> QED BY <2>1, <1>9
<1> QED BY <1>3, <1>4, <1>5, <1>10, <1>11, <1>12 DEF Next

\* At most MaxActive timers and MaxActive reminders are pending, whether they
\* were created, recovered or snoozed back.
THEOREM ActiveIsCapped == Spec => []ActiveCapped
<1> DEFINE Both == \A kind \in {Timers, Reminders} : Capped(kind)
<1>1. Init => Both
  <2> SUFFICES ASSUME Init, NEW kind \in {Timers, Reminders} PROVE Capped(kind)
    OBVIOUS
  <2>1. PendingOf(kind) = {}
    BY DEF Init, PendingOf, Pending, Known, Alarms
  <2> QED BY <2>1, FS_EmptySet, ScheduleAssumption DEF Capped
<1>2. IInv /\ Both /\ [Next]_vars => Both'
  BY CapStep
<1>3. Both => ActiveCapped
  BY DEF ActiveCapped, Capped, PendingOf
<1> QED BY <1>1, <1>2, <1>3, ScheduleInvariance, PTL DEF Spec
(***************************************************************************)
(* The promise.                                                            *)
(***************************************************************************)

Armed == {a \in Alarms : Pending(a)}
Ringing == {n.of : n \in batch}

LEMMA InitPromise == Init => Promise!Init
  BY DEF Init, Promise!Init, Pending, Known, Over

\* Steps that neither arm, end nor ring anything.
LEMMA PromiseStutter ==
    ASSUME UNCHANGED <<alarms, receipts, batch, shown>>
    PROVE  UNCHANGED Promise!promiseVars
  BY DEF Promise!promiseVars, Over, Pending, Known

LEMMA ArmPromise ==
    ASSUME IInv, NEW a \in Alarms, NEW d \in Durations,
           ~Pending(a), a \notin Over,
           alarms' = [alarms EXCEPT ![a] = NewAlarm(d)],
           UNCHANGED <<receipts, batch, shown>>
    PROVE  Promise!Arm(a)
<1>1. /\ NewAlarm(d).status = "pending" /\ NewAlarm(d) # None
  BY NewAlarmType DEF IInv
<1> HIDE DEF NewAlarm
<1>2. \A b \in Alarms : alarms'[b] = IF b = a THEN NewAlarm(d) ELSE alarms[b]
  BY DEF IInv, TypeOK
<1>3. /\ Pending(a)' /\ \A b \in Alarms \ {a} : Pending(b)' <=> Pending(b)
      /\ a \notin Over'
      /\ \A b \in Alarms \ {a} : b \in Over' <=> b \in Over
  BY <1>1, <1>2 DEF Pending, Known, Over
<1>4. Armed' = Armed \cup {a} /\ Over' = Over
  BY <1>3 DEF Armed, Over
<1> QED BY <1>4 DEF Promise!Arm, Armed

LEMMA CancelPromise ==
    ASSUME IInv, NEW a \in Alarms, Pending(a), SetStatus(a, "cancelled"),
           UNCHANGED <<receipts, batch, shown>>
    PROVE  Promise!Cancel(a)
<1>1. /\ \A b \in Alarms \ {a} : alarms'[b] = alarms[b]
      /\ alarms'[a] # None /\ alarms'[a].status = "cancelled"
  BY CancelEffect DEF IInv
<1>2. /\ ~Pending(a)' /\ a \in Over'
      /\ \A b \in Alarms \ {a} : Pending(b)' <=> Pending(b)
      /\ \A b \in Alarms \ {a} : b \in Over' <=> b \in Over
  BY <1>1 DEF Pending, Known, Over
<1>3. Armed' = Armed \ {a} /\ Over' = Over \cup {a}
  BY <1>2 DEF Armed, Over
<1> QED BY <1>3 DEF Promise!Cancel, Armed

\* What the service finds due is armed: a deadline belongs to a pending timer.
LEMMA DueArmed ==
    ASSUME IInv, phase = "open"
    PROVE  DueTimers \cup DueReminders \subseteq Armed
  BY DEF IInv, Scheduled, DueTimers, DueReminders, Armed, Alarms

LEMMA FirePromise ==
    ASSUME IInv, NEW due \in SUBSET Armed, Claim(due), batch = {},
           UNCHANGED shown, NEW loud \in SUBSET due, Ringing' = loud
    PROVE  Promise!Fire(due, loud)
<1>1. due \in SUBSET Alarms /\ \A a \in due : Pending(a)
  BY DEF Armed
<1>2. \A a \in Alarms :
        /\ Known(a)' <=> Known(a)
        /\ Pending(a)' <=> Pending(a) /\ a \notin due
        /\ Known(a) => (alarms'[a].status = "cancelled" <=> alarms[a].status = "cancelled")
  BY <1>1, ClaimEffect DEF IInv
<1>3. Armed' = Armed \ due
  BY <1>2 DEF Armed
<1>4. Over' = Over \cup (due \cap Timers)
  BY <1>1, <1>2 DEF Over, Pending
<1>5. receipts' = [a \in Alarms |-> IF a \in due THEN receipts[a] + 1 ELSE receipts[a]]
  BY <1>1 DEF Claim
<1>6. Ringing = {}
  BY DEF Ringing
<1> QED BY <1>3, <1>4, <1>5, <1>6 DEF Promise!Fire, Armed, Ringing

LEMMA DeliverPromise ==
    ASSUME IInv, NEW n \in batch, NEW outcome \in Outcomes, Deliver(n, outcome)
    PROVE  Promise!Present(n.of) \/ Promise!Drop({n.of})
<1>1. n.of \in Alarms /\ n.of \in Ringing
  BY DEF IInv, TypeOK, Receipt, Ringing
<1>2. Ringing' = Ringing \ {n.of}
  BY DEF IInv, BatchUnique, Ringing, Deliver
<1>3. Armed' = Armed /\ Over' = Over /\ receipts' = receipts
  BY DEF Deliver, Armed, Over, Pending, Known
<1>4. CASE Presents(outcome)
  <2>1. shown' = [shown EXCEPT ![n.of] = @ + 1]
    BY <1>4 DEF Deliver
  <2> QED BY <1>1, <1>2, <1>3, <2>1 DEF Promise!Present, Armed, Ringing
<1>5. CASE ~Presents(outcome)
  <2>1. shown' = shown
    BY <1>5 DEF Deliver, IInv, TypeOK
  <2> QED BY <1>2, <1>3, <2>1 DEF Promise!Drop, Armed, Ringing
<1> QED BY <1>4, <1>5

LEMMA StepPromise == IInv /\ [Next]_vars => [Promise!Next]_Promise!promiseVars
<1> SUFFICES ASSUME IInv, [Next]_vars
             PROVE  Promise!Next \/ UNCHANGED Promise!promiseVars
  OBVIOUS
<1>1. Timers \subseteq Alarms /\ Reminders \subseteq Alarms /\ Timers \cap Reminders = {}
  BY ScheduleAssumption DEF Alarms
<1>2. ASSUME NEW t \in Timers, NEW d \in Durations, CreateTimer(t, d)
      PROVE  Promise!Next
  <2>1. Promise!Arm(t)
    BY <1>1, <1>2, ArmPromise DEF CreateTimer, Pending, Over, notices
  <2> QED BY <1>1, <2>1 DEF Promise!Next
<1>3. ASSUME NEW r \in Reminders, NEW d \in Durations, CreateReminder(r, d)
      PROVE  Promise!Next
  <2>1. Promise!Arm(r)
    BY <1>1, <1>3, ArmPromise DEF CreateReminder, Pending, Over, notices
  <2> QED BY <1>1, <2>1 DEF Promise!Next
<1>4. ASSUME NEW q \in Snoozes, NEW r \in Reminders, NEW d \in Durations, Snooze(q, r, d)
      PROVE  Promise!Next \/ UNCHANGED Promise!promiseVars
  <2>1. r \in Alarms /\ r \notin Over
          /\ alarms' = [alarms EXCEPT ![r] = NewAlarm(d)]
          /\ UNCHANGED <<receipts, batch, shown>>
    BY <1>1, <1>4 DEF Snooze, Snoozable, Over, notices
  <2>2. CASE ~Pending(r)
    <3>1. Promise!Arm(r)
      BY <2>1, <2>2, ArmPromise
    <3> QED BY <2>1, <3>1 DEF Promise!Next
  <2>3. CASE Pending(r)
    <3>1. /\ NewAlarm(d).status = "pending" /\ NewAlarm(d) # None
      BY NewAlarmType DEF IInv
    <3> HIDE DEF NewAlarm
    <3>2. \A b \in Alarms : alarms'[b] = IF b = r THEN NewAlarm(d) ELSE alarms[b]
      BY <2>1 DEF IInv, TypeOK
    <3>3. \A b \in Alarms : (Pending(b)' <=> Pending(b)) /\ (b \in Over' <=> b \in Over)
      BY <2>1, <2>3, <3>1, <3>2 DEF Pending, Known, Over
    <3>4. Armed' = Armed /\ Over' = Over
      BY <3>3 DEF Armed, Over
    <3> QED BY <2>1, <3>4 DEF Promise!promiseVars, Armed
  <2> QED BY <2>2, <2>3
<1>5. ASSUME NEW t \in Timers, CancelTimer(t)
      PROVE  Promise!Next
  <2>1. Promise!Cancel(t)
    BY <1>1, <1>5, CancelPromise DEF CancelTimer, notices
  <2> QED BY <1>1, <2>1 DEF Promise!Next
<1>6. ASSUME NEW r \in Reminders, CancelReminder(r)
      PROVE  Promise!Next
  <2>1. Promise!Cancel(r)
    BY <1>1, <1>6, CancelPromise DEF CancelReminder, notices
  <2> QED BY <1>1, <2>1 DEF Promise!Next
<1>7. ASSUME NEW due \in SUBSET (DueTimers \cup DueReminders), Claim(due),
             phase = "open", batch = {}, UNCHANGED shown, Ringing' \subseteq due
      PROVE  Promise!Next
  <2>1. due \in SUBSET Armed
    BY <1>7, DueArmed
  <2>2. PICK loud \in SUBSET due : Ringing' = loud
    BY <1>7
  <2>3. Promise!Fire(due, loud)
    BY <1>7, <2>1, <2>2, FirePromise
  <2> QED BY <2>1, <2>3 DEF Promise!Next, Armed
<1>8. CASE Poll
  <2>1. Ringing' \subseteq DueTimers \cup DueReminders
    BY <1>8 DEF Poll, Loud, Ringing
  <2> QED BY <1>7, <1>8, <2>1 DEF Poll
<1>9. ASSUME NEW done \in SUBSET (DueTimers \cup DueReminders), PollFails(done)
      PROVE  Promise!Next
  <2>1. Ringing' = {}
    BY <1>9 DEF PollFails, Ringing
  <2> QED BY <1>7, <1>9, <2>1 DEF PollFails
<1>10. ASSUME NEW n \in batch, NEW outcome \in Outcomes, Deliver(n, outcome)
       PROVE  Promise!Next
  <2>1. n.of \in Alarms /\ {n.of} \in SUBSET Ringing
    BY DEF IInv, TypeOK, Receipt, Ringing
  <2>2. Promise!Present(n.of) \/ Promise!Drop({n.of})
    BY <1>10, DeliverPromise
  <2> QED BY <2>1, <2>2 DEF Promise!Next, Ringing
<1>11. CASE Crash
  <2>1. PICK silenced : silenced = Ringing
    OBVIOUS
  <2>2. Promise!Drop(silenced)
    BY <1>11, <2>1 DEF Crash, Promise!Drop, Ringing, Over, Pending, Known
  <2> QED BY <2>1, <2>2 DEF Promise!Next, Ringing
<1>12. CASE \/ Start \/ Close \/ ClearInbox \/ Advance
            \/ \E v \in 0 .. MaxTime : SetWall(v)
            \/ UNCHANGED vars
  <2>1. UNCHANGED <<alarms, receipts, batch, shown>>
    BY <1>12 DEF Start, Close, ClearInbox, Advance, SetWall, vars, notices
  <2> QED BY <2>1, PromiseStutter
<1> QED BY <1>2, <1>3, <1>4, <1>5, <1>6, <1>8, <1>9, <1>10, <1>11, <1>12 DEF Next

\* Crashes, failing stores, clock changes, replays and snoozes included, the
\* schedule implements AlarmPromise: one receipt per arming, at most one
\* presentation per receipt, and nothing rings once it was cancelled.
THEOREM PromiseIsKept == Spec => KeepsPromise
<1>1. Init => Promise!Init BY InitPromise
<1>2. IInv /\ [Next]_vars => [Promise!Next]_Promise!promiseVars BY StepPromise
<1> QED BY <1>1, <1>2, ScheduleInvariance, PTL DEF Spec, KeepsPromise, Promise!Spec
(***************************************************************************)
(* The inbox.                                                              *)
(***************************************************************************)

Quiet == {"suppressed", "silent"}
Told(a) == Entries(a, {"delivered"})
Untold(a) == Entries(a, Quiet)
InHand(a) == IF \E n \in batch : n.of = a THEN 1 ELSE 0

\* Every receipt of an alarm is accounted for: it was presented, is told to have been
\* kept quiet, is still in the poll's hand, or its entry has gone from the inbox.
Accounted(a) ==
    /\ IsFiniteSet(Told(a)) /\ IsFiniteSet(Untold(a))
    /\ Cardinality(Told(a)) <= shown[a]
    /\ shown[a] + Cardinality(Untold(a)) + InHand(a) <= receipts[a]

LEMMA GrowsByOne ==
    ASSUME NEW S, NEW T, NEW x, IsFiniteSet(S), T \subseteq S \cup {x}
    PROVE  /\ IsFiniteSet(T) /\ Cardinality(S) \in Nat /\ Cardinality(T) \in Nat
           /\ Cardinality(T) <= Cardinality(S) + 1
           /\ T \subseteq S => Cardinality(T) <= Cardinality(S)
<1>1. /\ IsFiniteSet(S \cup {x})
      /\ Cardinality(S \cup {x}) = IF x \in S THEN Cardinality(S) ELSE Cardinality(S) + 1
  BY FS_AddElement
<1>2. IsFiniteSet(T) /\ Cardinality(T) <= Cardinality(S \cup {x})
  BY <1>1, FS_Subset
<1>3. Cardinality(S) \in Nat /\ Cardinality(T) \in Nat /\ Cardinality(S \cup {x}) \in Nat
  BY <1>1, <1>2, FS_CardinalityType
<1>4. T \subseteq S => Cardinality(T) <= Cardinality(S)
  BY FS_Subset
<1> QED BY <1>1, <1>2, <1>3, <1>4

\* Entries only go, and nothing comes into the poll's hand.
LEMMA LessAccounted ==
    ASSUME IInv, NEW a \in Alarms, Accounted(a), inbox' \subseteq inbox,
           UNCHANGED <<receipts, shown>>, batch' \subseteq batch
    PROVE  Accounted(a)'
<1>1. Told(a)' \subseteq Told(a) /\ Untold(a)' \subseteq Untold(a)
  BY DEF Told, Untold, Entries
<1>2. InHand(a)' <= InHand(a) /\ InHand(a) \in Nat /\ InHand(a)' \in Nat
  BY DEF InHand
<1>3. /\ IsFiniteSet(Told(a)') /\ Cardinality(Told(a)') <= Cardinality(Told(a))
      /\ Cardinality(Told(a)) \in Nat /\ Cardinality(Told(a)') \in Nat
  BY <1>1, GrowsByOne DEF Accounted
<1>4. /\ IsFiniteSet(Untold(a)') /\ Cardinality(Untold(a)') <= Cardinality(Untold(a))
      /\ Cardinality(Untold(a)) \in Nat /\ Cardinality(Untold(a)') \in Nat
  BY <1>1, GrowsByOne DEF Accounted
<1>5. shown[a] \in Nat /\ receipts[a] \in Nat
  BY DEF IInv, TypeOK
<1> QED BY <1>2, <1>3, <1>4, <1>5 DEF Accounted

\* A claim writes one entry of each claimed alarm: a silent one, or a pending one whose
\* receipt the poll may take into its hand.
LEMMA ClaimAccounted ==
    ASSUME IInv, NEW due \in SUBSET Alarms, Claim(due), batch = {}, UNCHANGED shown,
           batch' \in {{}, Loud(due)}, NEW a \in Alarms, Accounted(a)
    PROVE  Accounted(a)'
<1>1. /\ inbox' = inbox \cup {NewRow(b) : b \in {c \in due : Pending(c)}}
      /\ receipts' = [b \in Alarms |-> IF b \in {c \in due : Pending(c)}
                                       THEN receipts[b] + 1 ELSE receipts[b]]
  BY DEF Claim
<1>2. shown[a] \in Nat /\ receipts[a] \in Nat
  BY DEF IInv, TypeOK
<1>3. \A b : NewRow(b).of = b /\ NewRow(b).status = IF Missed(b) THEN "silent" ELSE "pending"
  BY DEF NewRow
<1>4. Told(a)' \subseteq Told(a)
  BY <1>1, <1>3 DEF Told, Entries
<1>5. /\ IsFiniteSet(Told(a)') /\ Cardinality(Told(a)') <= Cardinality(Told(a))
      /\ Cardinality(Told(a)) \in Nat /\ Cardinality(Told(a)') \in Nat
  BY <1>4, GrowsByOne DEF Accounted
<1>6. InHand(a) = 0
  BY DEF InHand
<1>7. CASE a \in due /\ Pending(a) /\ Missed(a)
  <2>1. Untold(a)' \subseteq Untold(a) \cup {NewRow(a)}
    BY <1>1, <1>3 DEF Untold, Entries
  <2>2. /\ IsFiniteSet(Untold(a)') /\ Cardinality(Untold(a)') <= Cardinality(Untold(a)) + 1
        /\ Cardinality(Untold(a)) \in Nat /\ Cardinality(Untold(a)') \in Nat
    BY <2>1, GrowsByOne DEF Accounted
  <2>3. InHand(a)' = 0
    BY <1>7 DEF InHand, Loud
  <2>4. receipts'[a] = receipts[a] + 1
    BY <1>1, <1>7
  <2> QED BY <1>2, <1>5, <1>6, <2>2, <2>3, <2>4 DEF Accounted
<1>8. CASE ~(a \in due /\ Pending(a) /\ Missed(a))
  <2>1. Untold(a)' \subseteq Untold(a)
    BY <1>1, <1>3, <1>8 DEF Untold, Entries, Quiet
  <2>2. /\ IsFiniteSet(Untold(a)') /\ Cardinality(Untold(a)') <= Cardinality(Untold(a))
        /\ Cardinality(Untold(a)) \in Nat /\ Cardinality(Untold(a)') \in Nat
    BY <2>1, GrowsByOne DEF Accounted
  <2>3. CASE a \in due /\ Pending(a)
    <3>1. receipts'[a] = receipts[a] + 1
      BY <1>1, <2>3
    <3>2. InHand(a)' \in {0, 1}
      BY DEF InHand
    <3> QED BY <1>2, <1>5, <1>6, <2>2, <3>1, <3>2 DEF Accounted
  <2>4. CASE ~(a \in due /\ Pending(a))
    <3>1. receipts'[a] = receipts[a]
      BY <1>1, <2>4
    <3>2. InHand(a)' = 0
      BY <2>4 DEF InHand, Loud
    <3> QED BY <1>2, <1>5, <1>6, <2>2, <3>1, <3>2 DEF Accounted
  <2> QED BY <2>3, <2>4
<1> QED BY <1>7, <1>8

\* A delivery passes one receipt from the poll's hand to the count of presentations or
\* to the quiet entries.
LEMMA DeliverAccounted ==
    ASSUME IInv, NEW n \in batch, NEW outcome \in Outcomes, Deliver(n, outcome),
           NEW a \in Alarms, Accounted(a)
    PROVE  Accounted(a)'
<1>1. n.of \in Alarms /\ shown[a] \in Nat /\ receipts[a] \in Nat /\ UNCHANGED receipts
  BY DEF IInv, TypeOK, Receipt, Deliver
<1>2. shown'[a] = IF a = n.of /\ Presents(outcome) THEN shown[a] + 1 ELSE shown[a]
  BY <1>1 DEF Deliver, IInv, TypeOK
<1>3. /\ a = n.of => InHand(a) = 1 /\ InHand(a)' = 0
      /\ a # n.of => InHand(a)' <= InHand(a)
      /\ InHand(a) \in Nat /\ InHand(a)' \in Nat
  BY DEF InHand, Deliver, IInv, BatchUnique
<1> DEFINE row == [of |-> n.of, nth |-> n.nth, status |-> outcome]
<1>4. ASSUME NEW r \in inbox' PROVE r \in inbox \/ (r = row /\ outcome \notin {"raised", "unrecorded"})
  <2>1. CASE outcome \in {"raised", "unrecorded"}
    BY <2>1 DEF Deliver, Recorded
  <2>2. CASE outcome \notin {"raised", "unrecorded"}
    <3>1. PICK q \in inbox : r = IF q.of = n.of /\ q.nth = n.nth
                                 THEN [q EXCEPT !.status = outcome] ELSE q
      BY <2>2 DEF Deliver, Recorded
    <3>2. q \in Row
      BY DEF IInv, TypeOK
    <3> QED BY <2>2, <3>1, <3>2 DEF Row
  <2> QED BY <2>1, <2>2
<1>5. /\ row.of = n.of /\ row.status = outcome
  OBVIOUS
<1>6. /\ Told(a)' \subseteq Told(a) \cup {row}
      /\ a # n.of \/ outcome # "delivered" => Told(a)' \subseteq Told(a)
  BY <1>4, <1>5 DEF Told, Entries
<1>7. /\ Untold(a)' \subseteq Untold(a) \cup {row}
      /\ a # n.of \/ outcome \notin Quiet => Untold(a)' \subseteq Untold(a)
  BY <1>4, <1>5 DEF Untold, Entries
<1> HIDE DEF row
<1>8. /\ IsFiniteSet(Told(a)') /\ Cardinality(Told(a)') <= Cardinality(Told(a)) + 1
      /\ a # n.of \/ outcome # "delivered" => Cardinality(Told(a)') <= Cardinality(Told(a))
      /\ Cardinality(Told(a)) \in Nat /\ Cardinality(Told(a)') \in Nat
  BY <1>6, GrowsByOne DEF Accounted
<1>9. /\ IsFiniteSet(Untold(a)') /\ Cardinality(Untold(a)') <= Cardinality(Untold(a)) + 1
      /\ a # n.of \/ outcome \notin Quiet => Cardinality(Untold(a)') <= Cardinality(Untold(a))
      /\ Cardinality(Untold(a)) \in Nat /\ Cardinality(Untold(a)') \in Nat
  BY <1>7, GrowsByOne DEF Accounted
<1>10. outcome = "delivered" => Presents(outcome)
  BY DEF Presents
<1>11. outcome \in Quiet => ~Presents(outcome)
  BY DEF Quiet, Presents
<1> HIDE DEF Quiet, Presents
<1> QED BY <1>1, <1>2, <1>3, <1>8, <1>9, <1>10, <1>11 DEF Accounted

LEMMA StepAccounted ==
    ASSUME IInv, [Next]_vars, NEW a \in Alarms, Accounted(a)
    PROVE  Accounted(a)'
<1>1. CASE Poll
  <2> DEFINE due == DueTimers \cup DueReminders
  <2>1. due \in SUBSET Alarms
    BY DueType
  <2>2. Claim(due) /\ batch = {} /\ UNCHANGED shown /\ batch' = Loud(due)
    BY <1>1 DEF Poll
  <2> HIDE DEF due
  <2> QED BY <2>1, <2>2, ClaimAccounted
<1>2. ASSUME NEW done \in SUBSET (DueTimers \cup DueReminders), PollFails(done)
      PROVE  Accounted(a)'
  <2>1. done \in SUBSET Alarms
    BY DueType
  <2> QED BY <1>2, <2>1, ClaimAccounted DEF PollFails
<1>3. CASE \E n \in batch, outcome \in Outcomes : Deliver(n, outcome)
  BY <1>3, DeliverAccounted
<1>4. CASE \/ Start \/ Close \/ Crash \/ ClearInbox \/ Advance
           \/ \E t \in Timers, d \in Durations : CreateTimer(t, d)
           \/ \E r \in Reminders, d \in Durations : CreateReminder(r, d)
           \/ \E t \in Timers : CancelTimer(t)
           \/ \E r \in Reminders : CancelReminder(r)
           \/ \E q \in Snoozes, r \in Reminders, d \in Durations : Snooze(q, r, d)
           \/ \E t \in 0 .. MaxTime : SetWall(t)
           \/ UNCHANGED vars
  <2>1. inbox' \subseteq inbox /\ UNCHANGED <<receipts, shown>> /\ batch' \subseteq batch
    BY <1>4 DEF Start, Close, Crash, ClearInbox, Advance, CreateTimer, CreateReminder,
                CancelTimer, CancelReminder, Snooze, SetWall, vars, notices
  <2> QED BY <2>1, LessAccounted
<1> QED BY <1>1, <1>2, <1>3, <1>4 DEF Next

\* The Notification Center tells what happened (_deliver, _record_delivery): no more
\* entries say delivered than presentations were made, and none is told to have been
\* quiet that was presented, whatever fails, crashes, is cleared or snoozed between.
THEOREM InboxIsTruthful == Spec => []InboxTruthful
<1> DEFINE All == \A a \in Alarms : Accounted(a)
<1>1. Init => All
  <2> SUFFICES ASSUME Init, NEW a \in Alarms PROVE Accounted(a)
    OBVIOUS
  <2>1. Told(a) = {} /\ Untold(a) = {} /\ InHand(a) = 0 /\ shown[a] = 0 /\ receipts[a] = 0
    BY DEF Init, Told, Untold, Entries, InHand
  <2> QED BY <2>1, FS_EmptySet DEF Accounted
<1>2. IInv /\ All /\ [Next]_vars => All'
  BY StepAccounted
<1>3. IInv /\ All => InboxTruthful
  <2> SUFFICES ASSUME IInv, NEW a \in Alarms, Accounted(a)
               PROVE  /\ Cardinality(Told(a)) <= shown[a]
                      /\ shown[a] + Cardinality(Untold(a)) <= receipts[a]
    BY DEF InboxTruthful, Told, Untold, Quiet
  <2>1. /\ Cardinality(Untold(a)) \in Nat /\ shown[a] \in Nat /\ receipts[a] \in Nat
        /\ InHand(a) \in {0, 1}
    BY FS_CardinalityType DEF Accounted, IInv, TypeOK, InHand
  <2> QED BY <2>1 DEF Accounted
<1> QED BY <1>1, <1>2, <1>3, ScheduleInvariance, PTL DEF Spec
=============================================================================
