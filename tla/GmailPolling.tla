------------------------------ MODULE GmailPolling ------------------------------
(***************************************************************************)
(* The Gmail poller: history pages read from a durable cursor, each mail   *)
(* handed over and claimed by its receipt, and the cursor that commits     *)
(* when the last page is done.  integrations/gmail/provider.py under       *)
(* app/external_integration_runtime.py, on the receipts and cursors of     *)
(* database/sqlite_external_event_repository.py.                           *)
(*                                                                         *)
(* Mails are numbered by the history id at which they arrive.  A poller    *)
(* runs on its own thread.  stop() waits for it three seconds at most, so  *)
(* an old poller may live on beside a new one, whose start clears the very *)
(* event the old one was to see.                                           *)
(***************************************************************************)
EXTENDS Integers, FiniteSets

CONSTANTS
    None,        \* no cursor, no thread
    Threads,     \* polling threads of one run of the process
    PageSize,    \* maxResults of a history request
    MaxMails,    \* bound: mails that arrive
    MaxFaults    \* bound: failed requests, failed claims, expired cursors, crashes, stops

ASSUME PollingAssumption ==
    /\ PageSize \in Nat \ {0}
    /\ MaxMails \in Nat /\ MaxFaults \in Nat
    /\ None \notin Nat /\ None \notin Threads

VARIABLES
    mailbox,   \* how many mails have arrived: the current history id
    cursor,    \* table integration_sync_state
    receipts,  \* table external_event_receipts
    pollers,   \* what each thread is doing
    thread,    \* _thread
    stopping,  \* _stop_event
    wanted,    \* whether _on_event is set
    faults,    \* how many faults there were
    handed,    \* history: mails claimed, hence announced or recorded as not announced
    dropped,   \* history: mails passed over because of a stop or a failing claim
    skipped    \* history: mails before a baseline, announced by nobody

vars == <<mailbox, cursor, receipts, pollers, thread, stopping, wanted,
          faults, handed, dropped, skipped>>
service == <<thread, stopping, wanted>>
history == <<handed, dropped, skipped>>
store == <<cursor, receipts>>

Mails == 1..MaxMails
Positions == 0..MaxMails
Phases == {"none", "top", "load", "list", "emit", "claim", "save", "ended"}

\* base: the history id of the profile; at: the last mail this poll is done
\* with; last: the last mail of the page; high: the id the cursor is to take;
\* fresh: whether the poll takes a new baseline.
Poll == [phase: Phases, base: Positions, at: Positions, last: Positions,
         high: Positions, fresh: BOOLEAN]
NoPoll == [phase |-> "none", base |-> 0, at |-> 0, last |-> 0, high |-> 0, fresh |-> FALSE]

Alive(t) == pollers[t].phase \notin {"none", "ended"}
Fault == faults < MaxFaults /\ faults' = faults + 1
Enters(t, phase) == pollers' = [pollers EXCEPT ![t].phase = phase]

-----------------------------------------------------------------------------
(* The life of the service *)

\* start: a new thread, unless the one it knows is alive.
Start(t) ==
    /\ thread = None
    /\ pollers[t].phase = "none"
    /\ pollers' = [pollers EXCEPT ![t] = [NoPoll EXCEPT !.phase = "top"]]
    /\ thread' = t
    /\ stopping' = FALSE
    /\ wanted' = TRUE
    /\ UNCHANGED <<mailbox, store, faults, history>>

\* stop, before and after the wait for the thread, which may have run out.
StopBegins ==
    /\ thread # None
    /\ ~stopping
    /\ Fault
    /\ stopping' = TRUE
    /\ UNCHANGED <<mailbox, store, pollers, thread, wanted, history>>

StopEnds ==
    /\ thread # None
    /\ stopping
    /\ thread' = None
    /\ wanted' = FALSE
    /\ UNCHANGED <<mailbox, store, pollers, stopping, faults, history>>

\* clear_external_integration_data, while the poller may be running.
ClearData ==
    /\ Fault
    /\ cursor' = None
    /\ receipts' = {}
    /\ UNCHANGED <<mailbox, pollers, service, history>>

Crash ==
    /\ Fault
    /\ pollers' = [t \in Threads |-> NoPoll]
    /\ thread' = None /\ stopping' = FALSE /\ wanted' = FALSE
    /\ UNCHANGED <<mailbox, store, history>>

-----------------------------------------------------------------------------
(* The polling thread *)

\* The stop event is looked at between two polls; then the profile is read.
BeginPoll(t) ==
    /\ pollers[t].phase = "top"
    /\ IF stopping THEN Enters(t, "ended")
       ELSE pollers' = [pollers EXCEPT ![t].phase = "load", ![t].base = mailbox]
    /\ UNCHANGED <<mailbox, store, service, faults, history>>

\* Without a cursor the profile's history id becomes the baseline.
LoadCursor(t) ==
    /\ pollers[t].phase = "load"
    /\ IF cursor = None
       THEN pollers' = [pollers EXCEPT ![t].phase = "save", ![t].fresh = TRUE,
                                       ![t].high = pollers[t].base]
       ELSE pollers' = [pollers EXCEPT ![t].phase = "list", ![t].fresh = FALSE,
                                       ![t].at = cursor]
    /\ UNCHANGED <<mailbox, store, service, faults, history>>

\* list_history: the next mails, and the mailbox's current history id.
ListPage(t) ==
    LET p == pollers[t]
        last == IF p.at + PageSize < mailbox THEN p.at + PageSize ELSE mailbox
    IN  /\ p.phase = "list"
        /\ pollers' = [pollers EXCEPT ![t].phase = "emit", ![t].last = last,
                                      ![t].high = mailbox]
        /\ UNCHANGED <<mailbox, store, service, faults, history>>

\* The cursor is too old for the service: the profile's id replaces it.
Expired(t) ==
    /\ pollers[t].phase = "list"
    /\ Fault
    /\ pollers' = [pollers EXCEPT ![t].phase = "save", ![t].fresh = TRUE,
                                  ![t].high = pollers[t].base]
    /\ UNCHANGED <<mailbox, store, service, history>>

\* _emit_metadata looks whether anyone still wants the mail; if not, it returns
\* and the poll goes on to the next one.
Emit(t) ==
    LET p == pollers[t]
    IN  /\ p.phase = "emit"
        /\ p.at < p.last
        /\ IF wanted /\ ~stopping
           THEN Enters(t, "claim") /\ UNCHANGED dropped
           ELSE /\ pollers' = [pollers EXCEPT ![t].at = @ + 1]
                /\ dropped' = dropped \cup {p.at + 1}
        /\ UNCHANGED <<mailbox, store, service, faults, handed, skipped>>

\* submit of the notification coordinator claims the mail, finds it claimed, or
\* returns repository_error, which nobody reads.
Claim(t) ==
    LET mail == pollers[t].at + 1
    IN  /\ pollers[t].phase = "claim"
        /\ pollers' = [pollers EXCEPT ![t].phase = "emit", ![t].at = mail]
        /\ \/ /\ receipts' = receipts \cup {mail}
              /\ handed' = handed \cup {mail}
              /\ UNCHANGED <<faults, dropped>>
           \/ /\ Fault
              /\ dropped' = dropped \cup {mail}
              /\ UNCHANGED <<receipts, handed>>
        /\ UNCHANGED <<mailbox, cursor, service, skipped>>

\* Mutant of PageDone: the first page is taken for the whole history.
PageDoneEarly(t) ==
    /\ pollers[t].phase = "emit"
    /\ pollers[t].at = pollers[t].last
    /\ Enters(t, "save")
    /\ UNCHANGED <<mailbox, store, service, faults, history>>

PageDone(t) ==
    /\ pollers[t].phase = "emit"
    /\ pollers[t].at = pollers[t].last
    /\ Enters(t, IF pollers[t].at < pollers[t].high THEN "list" ELSE "save")
    /\ UNCHANGED <<mailbox, store, service, faults, history>>

SaveCursor(t) ==
    LET p == pollers[t]
    IN  /\ p.phase = "save"
        /\ cursor' = p.high
        /\ skipped' = IF p.fresh THEN skipped \cup (1..p.high) ELSE skipped
        /\ Enters(t, "top")
        /\ UNCHANGED <<mailbox, receipts, service, faults, handed, dropped>>

\* Mutant of PollFails: a poll that fails ends the thread.
PollFailsForGood(t) ==
    /\ pollers[t].phase \in {"load", "list", "emit", "save"}
    /\ Fault
    /\ Enters(t, "ended")
    /\ UNCHANGED <<mailbox, store, service, history>>

\* A request or the store raises: the poll is over, the cursor stays.
PollFails(t) ==
    /\ pollers[t].phase \in {"load", "list", "emit", "save"}
    /\ Fault
    /\ Enters(t, "top")
    /\ UNCHANGED <<mailbox, store, service, history>>

Arrive ==
    /\ mailbox < MaxMails
    /\ mailbox' = mailbox + 1
    /\ UNCHANGED <<store, pollers, service, faults, history>>

Init ==
    /\ mailbox = 0 /\ cursor = None /\ receipts = {}
    /\ pollers = [t \in Threads |-> NoPoll]
    /\ thread = None /\ stopping = FALSE /\ wanted = FALSE
    /\ faults = 0
    /\ handed = {} /\ dropped = {} /\ skipped = {}

PollStep(t) ==
    \/ BeginPoll(t) \/ LoadCursor(t) \/ ListPage(t) \/ Emit(t) \/ Claim(t)
    \/ PageDone(t) \/ SaveCursor(t)

Next ==
    \/ \E t \in Threads : Start(t) \/ PollStep(t) \/ Expired(t) \/ PollFails(t)
    \/ StopBegins \/ StopEnds \/ ClearData \/ Crash \/ Arrive

\* The system schedules every thread, its requests have time limits, and so has
\* the wait of stop().
Fairness == WF_vars(StopEnds) /\ \A t \in Threads : WF_vars(PollStep(t))
Spec == Init /\ [][Next]_vars /\ Fairness

-----------------------------------------------------------------------------
TypeOK ==
    /\ mailbox \in Positions
    /\ cursor \in Positions \cup {None}
    /\ receipts \subseteq Mails
    /\ pollers \in [Threads -> Poll]
    /\ thread \in Threads \cup {None}
    /\ stopping \in BOOLEAN /\ wanted \in BOOLEAN
    /\ faults \in Nat
    /\ handed \subseteq Mails /\ dropped \subseteq Mails /\ skipped \subseteq Mails

Covered(n) == 1..n \subseteq handed \cup dropped \cup skipped

\* Whatever the cursor has passed was claimed, lies before a baseline, or was
\* passed over because of a stop or a failing claim: no failing request, page
\* boundary, restart or second poller moves it past a mail nobody looked at.
CursorCovers == cursor # None => Covered(cursor)

\* A mail that has arrived is claimed or passed over, unless the service is off:
\* failed polls are repeated and the cursor they left is read again.
MailsArrive ==
    \A m \in Mails : (m <= mailbox) ~> (m \in handed \cup dropped \cup skipped \/ ~wanted)
=============================================================================
