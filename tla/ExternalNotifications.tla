------------------------- MODULE ExternalNotifications -------------------------
(***************************************************************************)
(* The path of an external event (a mail, a Discord mention) from the      *)
(* provider thread that submits it to the notice on screen: the claim of   *)
(* its receipt, the hand-over to the application thread, the policy, the   *)
(* bounded queue, the batches and the delivery results.                    *)
(* app/integration_notification_coordinator.py with                        *)
(* core/notifications/pending.py, the two SQLite repositories, the         *)
(* proactive delivery controller and the synchronous event bus.            *)
(*                                                                         *)
(* A provider thread only submits.  Everything else is a handler of the    *)
(* application thread; a flush publishes one batch after the other, and a  *)
(* provider, the clock or a crash may come between two of them.            *)
(***************************************************************************)
EXTENDS Integers, FiniteSets

CONSTANTS
    None,         \* no receipt; no presentation of this kind yet
    Events,       \* external ids, as the provider names them
    Kinds,        \* event kinds (each belongs to one service)
    KindOf,       \* the kind of each event
    Rank,         \* the priority rank of each event, 1 low to 4 critical
    Occurred,     \* when each event happened, by the provider's account and clock:
                  \* it may lie ahead of the application's
    MaxQueue,     \* maximum_size of the pending queue (100)
    Expiry,       \* event_expiry_seconds
    Cooldown,     \* notification_cooldown_seconds
    Retention,    \* receipt_retention_days
    MaxTime,      \* bound: the clock
    MaxIssued,    \* bound: how many claims succeed
    MaxClears,    \* bound: how often the user clears the receipts
    MaxFaults     \* bound: crashes, raising subscribers and failing stores

ASSUME SetsAssumption ==
    /\ KindOf \in [Events -> Kinds]
    /\ Rank \in [Events -> 1..4]
    /\ Occurred \in [Events -> Nat]
    /\ MaxQueue \in Nat \ {0}

\* The settings allow an expiry of at most an hour and a retention of at least
\* a day (config/settings.py 536-547).
ASSUME TimesAssumption ==
    /\ Expiry \in Nat /\ Cooldown \in Nat
    /\ Retention \in Nat /\ Expiry <= Retention
    /\ MaxTime \in Nat /\ MaxIssued \in Nat /\ MaxClears \in Nat /\ MaxFaults \in Nat

VARIABLES
    receipts,     \* table external_event_receipts: None or status and creation
    inbox,        \* table notification_inbox: the rows of published batches
    scheduled,    \* callbacks posted to the application thread
    queue,        \* PendingNotificationQueue._items
    draining,     \* notices of the running handler not published yet
    lastAt,       \* _last_notification_at_by_kind
    links,        \* _pending_receipts: links in order, per kind
    now,          \* the wall clock
    issued,       \* how many claims succeeded; stamps them in order
    clears,       \* how often the receipts were cleared
    faults,       \* how many faults there have been
    shown,        \* history: the notices that were presented
    lost,         \* history: events a crash, a raise or the store let fall
    muddled       \* history: kinds of which a delivery result was lost

vars == <<receipts, inbox, scheduled, queue, draining, lastAt, links,
          now, issued, clears, faults, shown, lost, muddled>>
tables == <<receipts, inbox>>
clocks == <<now, clears>>

Important == 3
Open == {"received", "queued"}
ReceiptStatus == Open \cup {"delivered", "suppressed", "expired", "silent"}
Receipt == [status: ReceiptStatus, at: Nat]
RowStatus == {"pending", "delivered", "suppressed"}
Channels == {"visual", "voice"}

\* One claim of an event on its way: PendingNotification, or the event a posted
\* callback holds.  gen tells claims apart that a clearing of the table lies between,
\* and at dates the claim (both history).
Claims == [event: Events, stamp: Nat, gen: Nat, at: Nat]
Notices == [event: Events, stamp: Nat, gen: Nat, at: Nat, channel: Channels, eligible: Nat]
Links == [event: Events, row: Nat, at: Int]    \* at: the place in the deque
Rows == [id: Nat, about: SUBSET Events, status: RowStatus]

ASSUME NoneAssumption == None \notin Nat /\ None \notin Receipt

EventsOf(S) == {i.event : i \in S}
ClaimOf(i) == [event |-> i.event, stamp |-> i.stamp, gen |-> i.gen, at |-> i.at]
TooOld(e) == now - Occurred[e] > Expiry
Earliest(S) == {i \in S : \A j \in S : i.stamp <= j.stamp}
AppFree == draining = {}

-----------------------------------------------------------------------------
(* The two tables.  A store that fails (~up) is logged and ignored. *)

Stored(es, up) == IF up THEN es ELSE {}

\* set_notification_status: an UPDATE, so a receipt that is gone stays gone.
SetStatus(table, es, status) ==
    [e \in Events |-> IF e \in es /\ table[e] # None
                      THEN [table[e] EXCEPT !.status = status] ELSE table[e]]

\* Rows written with their final status (silent, denied, evicted, expired) are
\* never touched again and are left out; the row of a batch starts as pending.
AddRow(rows, id, about, up) ==
    IF up THEN rows \cup {[id |-> id, about |-> about, status |-> "pending"]} ELSE rows

SetRows(rows, ids, status, up) ==
    {IF up /\ r.id \in ids THEN [r EXCEPT !.status = status] ELSE r : r \in rows}

\* What the failed store keeps from being recorded.
Unrecorded(es, up) == lost' = IF up THEN lost ELSE lost \cup es

\* Mutant of Pruned: a receipt exactly as old as the retention goes too.
PrunedEarly(due) ==
    [e \in Events |-> IF due /\ receipts[e] # None /\ receipts[e].at <= now - Retention
                      THEN None ELSE receipts[e]]

\* prune_receipts, once a day: `due` stands for the day that has passed.
Pruned(due) ==
    [e \in Events |-> IF due /\ receipts[e] # None /\ receipts[e].at < now - Retention
                      THEN None ELSE receipts[e]]

\* A step with a failing store or a raising subscriber is a fault.
Faulty(fault) ==
    /\ fault => faults < MaxFaults
    /\ faults' = IF fault THEN faults + 1 ELSE faults

-----------------------------------------------------------------------------
(* Provider threads *)

\* submit: the receipts are pruned when a day has passed, then the event is
\* claimed by an INSERT OR IGNORE; a duplicate and a store error end here.  The
\* date of the event is not compared with the clock.
Submit(e, due) ==
    LET table == Pruned(due)
        claimed == [status |-> "received", at |-> now]
    IN  /\ \/ /\ receipts' = table
              /\ UNCHANGED <<scheduled, issued, faults>>
           \/ /\ table[e] = None
              /\ issued < MaxIssued
              /\ issued' = issued + 1
              /\ receipts' = [table EXCEPT ![e] = claimed]
              /\ scheduled' = scheduled \cup
                     {[event |-> e, stamp |-> issued + 1, gen |-> clears, at |-> now]}
              /\ UNCHANGED faults
           \/ /\ table[e] = None
              /\ receipts' = [table EXCEPT ![e] = [claimed EXCEPT !.status = "suppressed"]]
              /\ Faulty(TRUE)
              /\ UNCHANGED <<scheduled, issued>>
        /\ UNCHANGED <<inbox, queue, draining, lastAt, links, clocks, shown, lost, muddled>>

-----------------------------------------------------------------------------
(* The application thread *)

\* The event has expired; or its kind is switched off, its preparation raised or
\* the policy denies it; or its channels are silent.
Dismiss(i, up) ==
    /\ \E status \in IF TooOld(i.event) THEN {"expired"} ELSE {"suppressed", "silent"} :
          receipts' = SetStatus(receipts, Stored({i.event}, up), status)
    /\ Unrecorded({i.event}, up)
    /\ UNCHANGED <<queue, draining>>

\* A subscriber of EXTERNAL_EVENT_ACCEPTED raises: the callback ends there.
Abandon(i) ==
    /\ lost' = lost \cup {i.event}
    /\ UNCHANGED <<receipts, queue, draining>>

Lowest(S) == {i \in S : \A j \in S : Rank[i.event] <= Rank[j.event]}

\* Mutant of Enqueue: a full queue drops its oldest notice, whatever its rank.
EnqueueOverOldest(n, up) ==
    LET evicted == IF Cardinality(queue) < MaxQueue THEN {} ELSE Earliest(queue)
        queued == SetStatus(receipts, Stored({n.event}, up), "queued")
    IN  /\ queue' = (queue \ evicted) \cup {n}
        /\ receipts' = SetStatus(queued, Stored(EventsOf(evicted), up), "suppressed")
        /\ Unrecorded({n.event} \cup EventsOf(evicted), up)

\* PendingNotificationQueue.enqueue and the coordinator's answer to it: a full
\* queue drops its first notice of the lowest rank, or refuses the new one.
Enqueue(n, up) ==
    LET queued == SetStatus(receipts, Stored({n.event}, up), "queued")
    IN  \/ /\ Cardinality(queue) < MaxQueue
           /\ queue' = queue \cup {n}
           /\ receipts' = queued
           /\ Unrecorded({n.event}, up)
        \/ /\ Cardinality(queue) >= MaxQueue
           /\ \E evicted \in Earliest(Lowest(queue)) :
                 LET refused == \/ Rank[evicted.event] > Rank[n.event]
                                \/ Rank[evicted.event] >= Important
                     loser == IF refused THEN n ELSE evicted
                 IN  /\ queue' = IF refused THEN queue ELSE (queue \ {evicted}) \cup {n}
                     /\ receipts' = SetStatus(queued, Stored({loser.event}, up), "suppressed")
                     /\ Unrecorded({n.event, loser.event}, up)

EligibleAt(kind) ==
    IF lastAt[kind] # None /\ lastAt[kind] + Cooldown > now
    THEN lastAt[kind] + Cooldown ELSE now

\* The policy allows it: wait behind speech or a cooldown, or publish at once.
Admit(i, channel, busy, up) ==
    LET n == [event |-> i.event, stamp |-> i.stamp, gen |-> i.gen, at |-> i.at,
              channel |-> channel, eligible |-> EligibleAt(KindOf[i.event])]
    IN  /\ ~TooOld(i.event)
        /\ IF busy \/ n.eligible > now
           THEN Enqueue(n, up) /\ UNCHANGED draining
           ELSE /\ draining' = {n}
                /\ receipts' = SetStatus(receipts, Stored({i.event}, up), "queued")
                /\ Unrecorded({i.event}, up)
                /\ UNCHANGED queue

\* _process_on_app_thread, in the order the callbacks were posted.
Process ==
    /\ AppFree
    /\ \E i \in Earliest(scheduled) :
           /\ scheduled' = scheduled \ {i}
           /\ \/ \E up \in BOOLEAN : Dismiss(i, up) /\ Faulty(~up)
              \/ \E up, busy \in BOOLEAN, channel \in Channels :
                     Admit(i, channel, busy, up) /\ Faulty(~up)
              \/ Abandon(i) /\ Faulty(TRUE)
    /\ UNCHANGED <<inbox, lastAt, links, clocks, issued, shown, muddled>>

\* Mutant of Flush: what has expired leaves the queue without a word to the store.
FlushSilently(busy, up) ==
    LET expired == {n \in queue : TooOld(n.event)}
        ready == IF busy THEN {} ELSE {n \in queue \ expired : n.eligible <= now}
    IN  /\ AppFree
        /\ queue' = queue \ (expired \cup ready)
        /\ draining' = ready
        /\ UNCHANGED <<receipts, inbox, scheduled, lastAt, links, clocks, issued,
                       faults, shown, lost, muddled>>

\* flush_pending, once a second: expired notices leave first, then those that
\* are due, unless the voice is busy.
Flush(busy, up) ==
    LET expired == {n \in queue : TooOld(n.event)}
        ready == IF busy THEN {} ELSE {n \in queue \ expired : n.eligible <= now}
    IN  /\ AppFree
        /\ Faulty(~up)
        /\ receipts' = SetStatus(receipts, Stored(EventsOf(expired), up), "expired")
        /\ queue' = queue \ (expired \cup ready)
        /\ draining' = ready
        /\ Unrecorded(EventsOf(expired), up)
        /\ UNCHANGED <<inbox, scheduled, lastAt, links, clocks, issued, shown, muddled>>

-----------------------------------------------------------------------------
(* One batch: _publish_batch, and _handle_delivery_result inside it *)

\* Notices of one kind and the same channels are one batch; the batch with the
\* oldest notice goes first.
BatchOf(first) == {n \in draining : /\ KindOf[n.event] = KindOf[first.event]
                                    /\ n.channel = first.channel}

LinksFor(ls, batch, row) ==
    {[event |-> n.event, row |-> row,
      at |-> Cardinality(ls) + Cardinality({m \in batch : m.stamp <= n.stamp})] : n \in batch}

\* Mutant of Answered: every result counts as delivered.
AnsweredAlways(kind, all, rows, count, delivered, up) ==
    LET popped == {l \in all : l.at <= count}
    IN  /\ links' = [links EXCEPT ![kind] = {[l EXCEPT !.at = @ - count] : l \in all \ popped}]
        /\ receipts' = SetStatus(receipts, Stored(EventsOf(popped), up), "delivered")
        /\ inbox' = SetRows(rows, {l.row : l \in popped} \ {0}, "delivered", up)

\* The result reaches the coordinator: the oldest links of the kind take it,
\* whatever batch it is the result of.
Answered(kind, all, rows, count, delivered, up) ==
    LET popped == {l \in all : l.at <= count}
        status == IF delivered THEN "delivered" ELSE "suppressed"
    IN  /\ links' = [links EXCEPT ![kind] = {[l EXCEPT !.at = @ - count] : l \in all \ popped}]
        /\ receipts' = SetStatus(receipts, Stored(EventsOf(popped), up), status)
        /\ inbox' = SetRows(rows, {l.row : l \in popped} \ {0}, status, up)

\* A subscriber raised: the result never reaches the coordinator.
Unanswered(kind, all, rows) ==
    /\ links' = [links EXCEPT ![kind] = all]
    /\ inbox' = rows
    /\ UNCHANGED receipts

\* presented: the surface showed it (a batch for the voice alone counts as
\* delivered by being published); heard: the coordinator's own subscription ran;
\* raised: some subscriber raised, which ends the handler and leaves the rest of
\* the drained notices unpublished.
Publish(first, presented, heard, raised, up) ==
    LET batch == BatchOf(first)
        kind == KindOf[first.event]
        rows == AddRow(inbox, first.stamp, EventsOf(batch), up)
        all == links[kind] \cup LinksFor(links[kind], batch, IF up THEN first.stamp ELSE 0)
    IN  /\ ~heard => raised
        /\ first.channel = "voice" => presented
        /\ Faulty(raised \/ ~up)
        /\ lastAt' = [lastAt EXCEPT ![kind] = now]
        /\ shown' = IF presented THEN shown \cup {ClaimOf(n) : n \in batch} ELSE shown
        /\ \/ heard /\ Answered(kind, all, rows, Cardinality(batch), presented, up)
           \/ ~heard /\ Unanswered(kind, all, rows)
        /\ muddled' = IF heard THEN muddled ELSE muddled \cup {kind}
        /\ draining' = IF raised THEN {} ELSE draining \ batch
        /\ lost' = lost \cup (IF raised THEN EventsOf(draining \ batch) ELSE {})
                        \cup (IF up THEN {} ELSE EventsOf(batch))
        /\ UNCHANGED <<scheduled, queue, clocks, issued>>

-----------------------------------------------------------------------------
(* The user, the clock, the end of the process *)

OnTheirWay == EventsOf(scheduled) \cup EventsOf(queue) \cup EventsOf(draining)

\* clear_external_integration_data: the receipts of every service go, and with
\* them the memory of what was announced.
ClearReceipts ==
    /\ AppFree
    /\ clears < MaxClears
    /\ clears' = clears + 1
    /\ receipts' = [e \in Events |-> None]
    /\ UNCHANGED <<inbox, scheduled, queue, draining, lastAt, links, now,
                   issued, faults, shown, lost, muddled>>

\* The process ends and starts again: everything in memory is gone.
Crash ==
    /\ Faulty(TRUE)
    /\ scheduled' = {} /\ queue' = {} /\ draining' = {}
    /\ lastAt' = [k \in Kinds |-> None]
    /\ links' = [k \in Kinds |-> {}]
    /\ lost' = lost \cup OnTheirWay \cup {e \in Events : KindOf[e] \in muddled}
    /\ muddled' = {}
    /\ UNCHANGED <<tables, clocks, issued, shown>>

Tick ==
    /\ now < MaxTime
    /\ now' = now + 1
    /\ UNCHANGED <<tables, scheduled, queue, draining, lastAt, links,
                   issued, clears, faults, shown, lost, muddled>>

Init ==
    /\ receipts = [e \in Events |-> None]
    /\ inbox = {} /\ scheduled = {} /\ queue = {} /\ draining = {}
    /\ lastAt = [k \in Kinds |-> None]
    /\ links = [k \in Kinds |-> {}]
    /\ now = 0 /\ issued = 0 /\ clears = 0 /\ faults = 0
    /\ shown = {} /\ lost = {} /\ muddled = {}

Next ==
    \/ \E e \in Events, due \in BOOLEAN : Submit(e, due)
    \/ Process
    \/ \E busy, up \in BOOLEAN : Flush(busy, up)
    \/ \E first \in Earliest(draining), presented, heard, raised, up \in BOOLEAN :
           Publish(first, presented, heard, raised, up)
    \/ ClearReceipts
    \/ Crash
    \/ Tick

Spec == Init /\ [][Next]_vars

-----------------------------------------------------------------------------
(* Properties *)

TypeOK ==
    /\ receipts \in [Events -> {None} \cup Receipt]
    /\ inbox \subseteq Rows
    /\ scheduled \subseteq Claims
    /\ queue \subseteq Notices
    /\ draining \subseteq Notices
    /\ Cardinality(queue) <= MaxQueue
    /\ lastAt \in [Kinds -> Nat \cup {None}]
    /\ links \in [Kinds -> SUBSET Links]
    /\ now \in Nat /\ issued \in Nat /\ clears \in Nat /\ faults \in Nat
    /\ shown \subseteq Claims
    /\ lost \subseteq Events
    /\ muddled \subseteq Kinds

\* An event is dated so far ahead of its claim that its receipt may be pruned
\* while the event still counts as fresh.
FarAhead(x) == Occurred[x.event] - x.at > Retention - Expiry

\* Between two clearings of the receipts an event is presented at most once,
\* whatever is submitted again, pruned, queued or retried after a restart
\* (claim_event, prune_receipts and the expiry test of the callback and flush),
\* also when it is dated in the future, up to the retention less the expiry.
AnnouncedOnce ==
    \A x \in shown : ~FarAhead(x) =>
        /\ \A y \in shown : x.event = y.event /\ x.gen = y.gen => x = y \/ FarAhead(y)
        /\ \A n \in draining : n.event = x.event /\ n.gen = x.gen => FarAhead(n)

\* A receipt says delivered only of an event that was presented, as long as no
\* delivery result of its kind went missing: results are matched first in,
\* first out (_handle_delivery_result), and one that is missing shifts the rest.
ReceiptsTruthful ==
    \A e \in Events :
        (/\ receipts[e] # None /\ receipts[e].status = "delivered"
         /\ e \notin lost /\ KindOf[e] \notin muddled)
            => e \in EventsOf(shown)

\* A receipt is left open (received, queued), and an inbox row pending, only while
\* its event is on its way, or when a crash, a raising subscriber or the store let
\* it fall.
NothingForgotten ==
    /\ \A e \in Events :
          (/\ receipts[e] # None /\ receipts[e].status \in Open
           /\ e \notin lost /\ KindOf[e] \notin muddled)
              => e \in OnTheirWay
    /\ \A r \in inbox : r.status = "pending" =>
          \E e \in r.about : e \in lost \/ KindOf[e] \in muddled

\* An important notice leaves the queue by being published, by expiring or with
\* the process: a full queue drops others (enqueue).
ImportantKept ==
    [][\A n \in queue : Rank[n.event] >= Important /\ n \notin queue' =>
          n \in draining' \/ TooOld(n.event) \/ queue' = {}]_vars
=============================================================================
