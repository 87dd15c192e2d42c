# Formal models of Project Akiha

Project Akiha is a desktop companion: a Qt application with one application
thread, worker threads for actions, models and audio, provider threads for
integrations, and one SQLite database. This directory holds TLA+ models of its
stateful services, the TLC configurations that check them on small instances,
and proofs that TLAPS checks for every value of the constants. All paths below
are under `src/project_akiha/` unless they start with `docs/`.

    tlc -workers 2 -config MCPetEconomy.cfg MCPetEconomy     # one run
    tlapm PetEconomyProofs.tla                               # one proof module

`PROJECT.json` lists the runs, the source lines each definition stands for, the
mutants that show each property can fail, the hazards and the theorems.

## 1. Inventory

| Component | State | Operations | Interacts with |
|---|---|---|---|
| Action ownership (`services/action_clarification.py`, `app/action_clarification_controller.py`, `ui/action_clarification_panel.py`) | owner epoch, current request, request digests, one pending question, confirmation leases, one local search, one admitted execution; all under an RLock | claim, begin, resolve, publish_result, issue/consume_confirmation, start/continue/enqueue/cancel_local_search, supersede, invalidate; expiry on entry | called from the application thread and from provider workers; notifies the panel |
| Evaluation and permissions (`services/assistant_actions.py`, `core/actions/permissions.py`, `services/assistant_permissions.py`) | permission rows | evaluate_request, grant, revoke, reset | reads grants in a worker thread, invalidates leases on the application thread |
| Intents and proposals (`services/intent_arbitration.py`, `services/provider_action_dispatcher.py`, `services/provider_action_proposal_gateway.py`, `services/modular_provider_turn_authority.py`) | turns, consumed proposal ids, the accepted proposal of each turn, pending confirmations | convert, dispatch, resolve_confirmation, complete_local_routing, clear | called by the Ollama and hosted workers |
| Pet state (`services/pet_state.py`, `core/pet/*`, `database/sqlite_pet_repository.py`) | one durable row with a revision, its cached copy, the reward ledger | initialize, evaluate_runtime, apply_care_action, apply_interaction_event, reset, refresh | one pet, shop or maintenance thread at a time |
| Shop (`services/shop.py`, `database/sqlite_shop_repository.py`) | inventory, transactions | browse, purchase | writes the pet's row, then has it refreshed |
| Timers and reminders (`services/timer_schedule.py`, `app/timer_delivery_controller.py`, `database/sqlite_{timer,reminder}_repository.py`) | two tables, monotonic deadlines, inbox rows | create, cancel, snooze, tick, deliver, close | workers and a 1 s poll; Notification Center; proactive delivery |
| External notifications (`app/integration_notification_coordinator.py`, `core/notifications/*`) | claimed events, queue, receipts, inbox | submit, flush, delivery results, prune | provider threads, event bus |
| Integrations (`integrations/gmail`, `integrations/discord`, `integrations/spotify`) | threads, cursor, backoff, tokens | start, stop, poll, reconnect | external notifications |
| Voice session (`app/voice_session_coordinator.py`, `core/voice_session/*`) | session, turns, tokens, stages, transcript revisions | start, end, open/close turn, transition, revise | push to talk, local conversation, recognition |
| Speech input (`app/push_to_talk_session_controller.py`, `app/local_conversation_session_controller.py`, `app/voice_capture_controller.py`, `app/rolling_voice_transcription_controller.py`, `services/rolling_speech_input.py`) | who owns the turn, the microphone, the recogniser, what waits for it, its worker | talk, stop, cancel, snapshot, recognise, transcript, conversation start/end/resume | voice session and voice state over the event bus, recognition threads |
| Voice controller and streaming output (`app/voice_controller.py`, `app/streaming_voice_output_controller.py`, `providers/voice/qt_playback.py`) | voice state, segments, prefetch slots, playback | submit, synthesise, play, cancel | event bus, worker threads |
| Hosted conversation (`app/hosted_conversation_runtime.py`, `app/hosted_live_session_controller.py`, `ui/hosted_live_session_worker.py`, `app/live_{transcript_controller,audio_playback}.py`, `app/voice_audio_bridge.py`, `providers/live`) | runtime (active, turn, thread), transcript snapshot, playback queue, frame bridge; per session a worker thread with its controller, adapter and transport | start, end, talk, frames, end of the user's turn, clarification; connected, transcript, audio, interrupted, completed, failed, state, finished; connect, reconnect, deadline, stop | voice state, microphone, device, the coordinator (from both threads), the live provider, proposals above |
| Chat and memory, mood, activity and animation, engine manager, start-up and shutdown, exports and settings | see `PROJECT.json` | | |

What is hard here is concurrency inside one process (handlers of the
application thread, modal dialogs with their own event loop, worker threads, Qt
timers), authority that must not outlive its owner, wall clocks that are set
back, commits separated by a possible crash, and presentations that may happen
at most once. What makes each part correct:

* *actions*: an execution happens only for the current owner, with the approved
  arguments, within the deadline, once; one intent per turn; questions end;
* *pet and shop*: rewards spaced and capped whatever the clock does, the balance
  equals what was earned less what was spent, no lost update through the cache;
* *timers*: no alarm is lost, none waits longer than asked for, each receipt is
  presented at most once, the inbox tells the truth;
* *notifications*: an event is claimed once and its receipt follows its own
  delivery; *voice*: segments play in order, a stale callback changes nothing,
  a cancelled response leaves nothing running;
* *hosted conversation*: it moves or ends, plays the answer to the open turn only,
  writes a turn once, gives everything back however it ends, and its threads end.

The 40 hazards of `PROJECT.json` place these at their lines.

## 2. Modules

    ClarificationLeases   operators on one lease owner: each method under the lock
    LeaseAuthority        what a confirmation lease promises (abstract)
      ActionOwnership     the lease owner with its threads, dialogs, turns, permissions
        ActionOwnershipProofs, MCActionOwnership
    PetEconomy            the pet's row, its cache, rewards and the shop
      PetEconomyProofs, MCPetEconomy
    AlarmPromise          what the schedule promises of an alarm (abstract)
    UtilitySchedule       timers and reminders over tables, clocks and the inbox
      UtilityScheduleProofs, MCUtilitySchedule
    ExternalNotifications the inbox of provider events, its queue and the surfaces
      ExternalNotificationsProofs, MCExternalNotifications
    SpeechOutput          replies, segment workers, playback and the voice state
      SpeechOutputProofs, MCSpeechOutput
    VoiceInput            sessions, turns, the microphone and recognition workers
      VoiceInputProofs, MCVoiceInput
    HostedConversation    the hosted runtime, its session workers and the provider
      HostedConversationProofs, MCHostedConversation
    GmailPolling          the poller threads, the history cursor and the mailbox
      GmailPollingProofs, MCGmailPolling

### ActionOwnership

`leases` is the fields of `ActionClarificationService` (`epoch` is `_epoch`,
`current` is `_current_request`, `pending`, `confirmations`, `search`, `ready`
are `_pending`, `_confirmations`, `_local_search`, `_search_ready`). `jobs` is
one evaluation per worker slot with the stage it has reached: `prepare` and
`capture` are the two halves of `start_action_thread` or of `dispatch`,
`evaluate` reads the grants, `execute` runs the executor behind its guard,
`report` is the result on its way back. `dialogs` are confirmations shown to the
user, `searches` the local search workers, `panel` the question on screen, which
may be stale. `proposed`, `routed`, `accepted`, `turns` are the gateway, the
arbiter and the turn authority; `granted` and `revoking` the permission and a
revocation half way; `executed` is history.

A step is one method under the RLock, or one handler of the application thread.
`AppFree` expresses that a handler of that thread runs to its end before the next
one starts; an open modal dialog does not count, because its event loop serves
the other handlers. Provider workers need no `AppFree`.

Abstractions: a request is an id, how many required parameters are missing and
one value for its other arguments; its fingerprint is the request itself. One
grant stands for all. Lifetimes are 2 and 1 clock steps for 120 s and 60 s, which
keeps their order. The Spotify-history continuation, the publication guard of
exports and the limits of 32 and 128 entries are not modelled: an evicted confirmation is
lost, never an extra one, and forgetting an open turn has the effect of the `newchat`
finding. Stop reaches direct workers through a token their executor checks
(`ui/assistant_action_worker.py` 79) and provider workers not at all: an evaluation of
theirs that is under way may still execute, which the model allows. A provider that
clarifies during a cloud session pauses that session; the model keeps its effect
on answers (`CloudIds` are not answered by text).

`LeaseAuthority` says what a lease is, without lanes, dialogs, searches or turns: it
is issued under a new number, to the owner of the moment, while no other waits; it is
approved once, before its deadline and by that owner; it is carried away from the
service and pays for one execution of the request it was issued for; whatever is
refused, expires or loses its owner is withdrawn, and a new owner starts without a
lease. `ActionOwnership` implements it under the mapping of the instance `Lease`: the
owner is the epoch, live leases are `confirmations`, carried ones belong to a worker
that has not reported, spent ones are the executions of the history that had a lease.

### PetEconomy

`db` is the row of `pet_state`, `cache` is `PetStateService._record`, `grants`
the reward ledger, `owned` the inventory, `op` the operation between its two
commits, `spent` history. The comparison of `save_transition` is `Snapshot`: the
revision, needs, affection and progression. `Settle` is
`_evaluate_and_commit_locked` with its one retry after a conflict; the second
conflict of one operation cannot happen because operations do not overlap
(`app/main.py` 1705-1745, 1799-1815, 1878-1905, 4459-4480), and is left out.
`Fail` is a store error between two commits, `Crash` the end of the process,
`SetClock` any change of the wall clock. `apply_interaction_event` is modelled as
the service offers it, although `main.py` does not call it yet.

The clock runs in ticks, `Second` of them to a second: instants, baselines, cooldowns
and windows are compared in full, as the code compares them, and only `Elapsed` rounds
down to the seconds that decay is computed in (`core/pet/rules.py` 48). The commit
writes the instant itself as the new baseline (`services/pet_state.py` 171), so each
commit drops the fraction it has not charged. With a maintenance run every 60 s that is
up to a second a minute in the pet's favour; no document says otherwise.
`TimeChargedOnce` says what remains true of it, and why an exact law (splitting an
interval charges the same) would be false.

Abstractions: each care kind restores one need; band transitions and history rows are
left out.

### UtilitySchedule and AlarmPromise

`alarms` are the rows of both tables, `deadlines` is `_deadlines`, `late` is
`_missed`, `inbox` the inbox rows, `batch` the receipts the running poll has
claimed and not yet presented, `shown` history. `Poll` is `tick` of the service
(the RLock spans it), `PollFails` a claim that raises after others have
committed, `Deliver` one iteration of the presentation loop, which holds no lock:
workers cancel and snooze between two of them. `Crash` may come anywhere; the
next `Start` finds another monotonic clock and possibly another wall clock.

`AlarmPromise` says what a user is promised of an alarm: armed, it is cancelled
or gets one receipt; a receipt is presented at most once or dropped; a one-shot
alarm does not ring twice and a cancelled one never again. `UtilitySchedule`
implements it under the mapping of the instance `Promise`: armed alarms are
pending rows, over are cancelled rows and timers that have gone off, ringing is
`batch`, notices is `shown`.

Abstractions: labels and redaction, list and inspect, the link from a timer to its
inbox row; a request id with other content is refused and does nothing; a store
that fails does nothing; a service that could not be constructed is one that has
not started.

### ExternalNotifications

`receipts` and `inbox` are the two tables, `scheduled` the callbacks posted to the
application thread, `queue` is `PendingNotificationQueue._items`, `draining` the
notices a flush still has to publish, `lastAt` is `_last_notification_at_by_kind`,
`links` is `_pending_receipts` (per kind, first in, first out). `Submit` is a provider
thread: it claims the receipt and posts. `Process` is the posted callback with the
whole policy: dismiss, publish at once, or enqueue with eviction. `Flush` takes what
is due out of the queue, and each `Publish` is one batch with the delivery result
that comes back inside the same call. A subscriber that raises ends the handler and
lets the rest of the drained notices fall, and `Crash` ends the process between any
two steps: what was claimed stays claimed. `shown`, `lost` and `muddled` are history:
what was presented, what a fault let fall, and the kinds of which a result went
missing, so that first in, first out gives the later ones to the wrong receipts.

The date of an event is the provider's, and nothing compares it with the clock
(`services/external_event_validation.py` 52-57 checks its type and zone only): a date in
the future counts as fresh until the clock is `Expiry` past it. Its receipt is pruned
`Retention` after the claim. An event dated further ahead than the difference, at least 23
hours, therefore loses its receipt while it is fresh and is announced a second time when
it is submitted again. That is a gap of the code; `AnnouncedOnce` excuses exactly these
claims (`FarAhead`) and holds for every other date.

Abstractions: the clock never goes back; "once a day" of the prune is a
nondeterministic choice; one failure of the store per step; expiry is at most an
hour and retention at least a day (`config/settings.py` 536-547), which the order
of the two constants keeps; policy and quiet hours are a nondeterministic verdict;
the cooldown is computed when an event is processed, as in the code; an inbox row
that is written with its final status at once is left out. No fairness is stated.

### SpeechOutput

`app` is one record with the state of `StreamingVoiceOutputController`, the player,
and the output side of `VoiceController`: the active response, the segments
pending, active, ready and failed, the next index to play, what sounds, and the voice
state. `chat` is the chat worker of each reply, `line` the worker of
`VoiceSynthesisController`, which speaks a text in one piece. A handler of the
application thread is one function of the record and an action applies it whole,
with every nested call it makes; workers run beside it and report by queued
signals, so a result and its `finished` arrive in that order, and anything may lie
between them. `fate`, `told` and `robbed` are history: how far each segment got, how
often the end of a reply was announced, and whether a stale worker gave the output
of a reply away.

Abstractions: one `enabled` flag for the settings of voice and output; LISTENING and
THINKING of the input side are one step; live playback of a hosted session and
microphone tests are left out; a device that refuses at once is a sound that fails
at once. No fairness is stated: `NeverStalls` is the safety form of progress (while
a reply is not finished something is under way that moves it on).

Known from reading, and stated by no run: a reply whose chat worker fails half way
leaves its response active, without a last segment, until Stop or the next reply; the
late `_handle_cancelled` of a single line (`app/voice_synthesis_controller.py` 275)
recovers the output of a newer reply (`robbed`); a segment queued before Stop may begin
to speak after it; and a stray segment of an interrupted reply cancels the next one.

### VoiceInput

`app` is again one record: the settings, the voice state (`state`, `op`), the session
and turn of the coordinator's ledger with the cancelled tokens, push to talk (`owns`,
`persistent`), the local `conversation`, the microphone, the `recognizer`, what waits
for it (`frames`, `endpoint`) and its `worker`. A turn is a pair of session and number,
as the ledger numbers the turns of each session from one. Handlers are functions of
the record in the order of the event bus: `Begin` is one `VOICE_LISTEN_REQUESTED`
through voice, push to talk and recognition, `Listen` adds the microphone, `Close` the
conversation that observes the coordinator and ends from inside another handler, and
`ReportError` everything an error event sets off. A worker that was abandoned
(`cancel(wait_ms=0)`) counts no more, except that its transcript may still come
(`late`). `heard`, `stray` and `deaf` are history.

Abstractions: STARTING, STOPPING and ERROR last no longer than a call; the stages of a
turn and partial transcripts change nothing here; all chat, action and tool threads are
one `work`; speech output is one state (SpeechOutput has the rest); a snapshot that
the frame bridge refuses, microphone tests, the hosted lane and voice switched off
as a whole are left out. No fairness is stated: `Answered` is the safety form of
progress.

Two gaps of the code are in the model and excused by name in the properties:

* *deaf*: the end of an earlier turn's worker is handled as the current turn's. If that
  worker was cancelled, `_handle_thread_cancelled` drops the audio and the endpoint of
  the new turn; if it was a final one, `_handle_thread_finished` releases the new turn's
  recogniser. Moving the microphone or switching push to talk off while recording also
  leaves the voice listening without a microphone. In each case Stop leads to a
  transcription that never comes, until the user cancels, although
  `docs/roadmap/VOICE_INTELLIGENCE_V0_V8.md` 991 ticks "Prove stale results cannot affect
  a replacement turn";
* *stray*: saving any settings while recording ends in `capture_busy`
  (`providers/voice/qt_microphone.py` 107-113). The error closes turn and session, the
  microphone stays open until its time limit, and the next Talk takes over its buffer;
  line 779 of the same document promises its release.

### HostedConversation

`app` is one record for what lives on the application thread: the fields of
`HostedConversationRuntime` (`active`, `thread`, `turn`, `out` is
`_native_output_started`), the voice state, the microphone (`mic`, `heard`, `renew`), the
frame bridge, the transcript snapshot (`text`), the playback queue (`play`, `playing`,
`more`, `sound`), and the coordinator with its ledger (`life`, `session`, `held`, `next`).
`workers` has one record per session: the stage of `_run_session` (`phase`), the stop
event, the controller (`own`), the adapter (`link`, `turn`, `complete`, `quarantine`,
`tries`), the calls on its loop, the wire and the provider. `signals` is what the
runtime's own worker has emitted. A handler is a function of the record, and `Do`
applies its outcome: it opens the microphone, which may fail, and hands calls or the stop
to the worker. `paused` and `barred` are set on the application thread and read by the
worker, without a lock as in the code. The coordinator is changed by both sides:
`Reserve`, `Connected`, `Fail`, `Deadline`, `Stop` and `Release` change it from a worker.

Reductions, each safe for the properties: names start again in a session, so a
session has `LastTurn` turns; the history is reset at `Start`; a worker that is to
stop loses its calls, wire and turn state (`Doomed`), because whatever it still says is
said to a runtime that has ended or is about to; the provider and the network act
only while the worker is not to stop; a segment is what the device plays at once and at
most one more waits, the code's other lengths do what these do; the renewal of a
capture (posted with no delay) comes before the next limit; a request to stop is lost
while the worker's loop does not run, as in the code.

Left out: push to talk while hosted voice is idle (VoiceInput has the local lane),
proposals and confirmations on the worker (ActionOwnership has them), partial and
assistant text, the limit of 600 segments, a full send queue, shutdown, the stages of a turn.

Gaps of the code that the model has, and that the properties excuse by name:

* *crossed*: events of the provider carry no turn. After an interruption is confirmed,
  the completion that may follow it counts as the new turn's: it ends before it was
  answered, and its answer belongs to whatever turn comes next. With two quick
  interruptions the first confirmation lifts the quarantine of the second.
  `docs/roadmap/VOICE_INTELLIGENCE_V0_V8.md` 1411-1414 says that the adapter
  "quarantines old assistant text, audio, and completion events until one matching
  provider interruption confirmation arrives" and that late callbacks "cannot regain
  ownership";
* *unanswered*: an interruption while the provider has nothing to interrupt is never
  confirmed, and every later answer is quarantined until the deadline; an answer that
  a resumed connection does not repeat is awaited until then;
* the time limit of a capture ends the user's turn but leaves the voice listening, so
  that the first audio of the answer is refused (`hosted_playback_busy`) and the
  conversation ends, although the same document says at 1797-1799 that "A hosted microphone
  hard limit no longer destroys the Cloud session: detected speech is finalized as the
  current turn";
* *deaf*: Stop in the chat or New Chat stop the device but not the queue, and
  saving settings stops device or microphone: the conversation stays active and waits
  for a sound that never ends, until the user ends it or the deadline does. A
  microphone that cannot be opened leaves the conversation active and not listening;
* not *alone*: End and Start in quick succession leave a worker whose stop came before
  its loop. It may reserve the coordinator beside the new one, and `end()` of a
  controller whose own session is over closes the other's. Such a worker lives
  until its deadline, which is why `WorkersEnd` needs `Deadline`;
* a frame, or any call, that meets a reconnection fails the session.

### GmailPolling

The provider of `integrations/gmail/provider.py` with its threads, because `stop()`
waits three seconds and a poller that is still in a request survives it: `Threads`
are the pollers of successive starts. `cursor` is the durable history id, `mailbox` the
current one of the service, `pollers` what each thread is doing. A poll
is one action per request: baseline, a page of the history, the detail of a mail,
publication, and the commit of the cursor; every request may fail, an expired
history id starts a new baseline, and `Stop` falls between any two.

Assumption: the last page of the history covers everything up to the history id it
names. Tokens, intervals and refresh of credentials are left out. Known gap, in the
model as `dropped`: mails passed over after a stop or when their record fails
do not hold the cursor back, although
`docs/phases/phase-11-integrations/README.md` 172 says that the cursor commits only
after events are safely recorded. `CursorCovers` therefore says that a mail at or
below the cursor was published or dropped on one of those two ways, and no other.

## 3. Runs

| Run | Question | Bounds |
|---|---|---|
| `lanes` | Is a confirmation spent once, by its owner, in time, for its arguments, without renewal (which `KeepsAuthority` says once more for the whole life of a lease, by refinement of `LeaseAuthority`), and does what the owner holds belong to the current request? | a typed command, a proposal, a local search and a continuation, two workers, clock 3, 2 issued leases, 4 epochs |
| `turns` | One intent per turn, and does every question end? | two proposals of a turn and a typed command, one worker; `FairSpec` |
| `newchat` | finding: a turn accepts a second proposal after New Chat | two proposals |
| `revocation` | finding: a lease outlives a completed revocation | one proposal |
| `pet` | Rewards, balance, cache and decay under any clock | two care kinds with a cap of 2, one conversation kind, one item, a second of two ticks, clock 0..5, 5 revisions |
| `pet_baseline` | finding: the baseline moves back | one care kind |
| `timers` | Schedule, delays, deadlines, refinement, the inbox, termination | one timer, one reminder, one snooze, durations and grace of 1, clocks 0..3; `FairSpec` |
| `notifications` | Announced once, receipts of the right delivery, nothing forgotten but by a crash, important events kept | two events of one kind, one normal and one important, dated 1 and 2; queue of 2, expiry 1, retention 2, clock 0..3, 3 deliveries, one failure, one clear |
| `speech` | Does only the current reply sound, in order, does it own the output, does it move on, and is its completion honest? | two replies of 3 and 1 segments, two workers, prefetch 2, two turns |
| `gmail` | Does the cursor cover only what was published, and do mails arrive? | two poller threads, two mails on pages of one, two faults; `Spec` is fair |
| `voice` | Is a transcript heard once and by its own turn, and is nobody left with a session, a microphone or a wait that will not end? | two sessions of two turns; failures, settings and errors unbounded |
| `hosted` | Does a conversation move, play and write its own turn only, release everything, and do its workers end? | two conversations of two turns and one, one reconnection, one call, event and signal waiting at a time before more are made; failures, settings, Stop and clarifications unbounded; `FairSpec` |

Why these bounds are enough to be interesting: two workers and two lanes are what
it takes for one request to lose its owner while it is evaluated and for another
to gain it; four epochs allow a claim, a loss, and a claim again; the clock passes
both deadlines. A cap of two with two kinds of one group separates a cap per group
from a cap per kind, and a clock of 0..5 with a window of 3 lets grants leave the
window and lie in the future. A second of two ticks lets two fractions make a second,
and an interval of two seconds leaves a remainder to carry. A reply of three segments with
prefetch two makes segments finish out of order and wait for a slot; the second reply
lets every late report meet a newer one. Two threads are a survivor and its
successor, and two mails on pages of one let a stop fall between two pages. Two sessions
of two turns are what it takes for a late transcript to meet a turn of the same number,
and for a conversation to take a second turn. Three clock steps beside a duration and a
grace of 1 put an alarm before, at, after and long after its time at a restart. Two hosted
conversations are a worker that was left over and its successor, and two turns an
interrupted answer and the next one; beyond the run, the safety properties were
checked on two conversations with turns 3 and 2 (3.8 million states) and on one with three
turns, two calls and two events waiting (1.8 million). Every property has a mutant, a
plausible bug in one mapped definition, which its run finds. All runs switch the
deadlock check off: the bounds end the behaviour, and a process that is down may
stay down.

**Fairness.** `ActionOwnership!FairSpec`: the clock advances, the panel's 250 ms
timer fires (`RefreshPanel`; `ui/action_clarification_panel.py` 107-110), and a
handler of the application thread that has begun runs to its end. Users, models
and workers are not assumed to do anything. `UtilitySchedule!FairSpec`: time
passes while the process runs, the 1 s timer polls, and the loop presents what
the poll returned; a poll that fails is allowed again and again but not for ever.
`TimerEnds` allows that the process is down or closed. `GmailPolling!Spec`: a
thread that can take a step takes one (it is scheduled by the system, and every
request has a time limit), and the wait of `stop()` ends; faults are bounded, and
`MailsArrive` allows that the service is off. `HostedConversation!FairSpec`: a worker's
loop runs what is due at its start and at its end, an attempt to connect ends, and the
clock reaches the deadline of a session (`_duration_guard`); nothing is assumed of the
user, the provider or the network, and the application thread need not take a signal.

## 4. Findings

* `revocation`: `revoke_*` invalidates the leases and then writes the grant. A
  provider worker in between reads the old grant and is issued a new lease, which
  is live after the revocation; the documentation says revocation invalidates
  leases synchronously. An execution under it is still refused by the second read
  of the grants, unless the grant is restored in time.
* `newchat`: New Chat clears the arbiter while a hosted turn is open, after which
  a second proposal of that turn is accepted; the class promises at most one.
* `pet_baseline`: a care action while the clock is behind the baseline moves the
  baseline back, and the interval is charged twice; the documentation says a
  rollback does not move it.

## 5. Proofs

Proved for every value of the constants that satisfies the named assumptions of
the modules (finite sets where a cardinality is counted, positive lifetimes,
intervals and prices, cooldowns within the window, disjoint id classes):

* **ActionOwnershipProofs**: `TypeCorrect`, `OwnerIsCoherent`,
  `LeasesAreSingleUse`, `ExecutionsAreApproved`, `OwnersApprove`, `IdentitiesAreBound`,
  `DeadlinesNeverExtend`, `OneIntentIsAccepted`, `AuthorityIsKept`. The invariant
  `IInv` is `TypeOK` and `Authority`: the owner is coherent; every lease number in
  use, whether waiting, carried by a worker or executed, is at most `issued`; the
  leases a worker carries and the ones executed are no longer waiting; no two
  workers carry one; and what was executed carried its approval. Single use needs
  this because a lease leaves `confirmations` in one step and is executed several
  steps later, while new numbers are issued in between. The proof first shows that
  each operation on the owner takes a sound owner to a sound owner that keeps the
  leases apart, and then one step per action. For the action properties each operation
  is put into one of three classes, and `NextMoves` shows that every step is in one: it
  `Leaves` what is bound and live (it may bind free ids, end an owner, drop leases), it
  `Revises` the current owner's request, or it `Issues` the only confirmation. Identities
  and deadlines follow, the latter with one more invariant, `OneConfirmation`.
  `OneIntentIsAccepted` assumes that New Chat does not clear the arbiter
  (`~NewChatAllowed`; with it the finding `newchat` is a counterexample) and rests on
  `Leaves`: nothing but a prepared proposal binds a proposal's id. `AuthorityIsKept` is
  the refinement of `LeaseAuthority`: a step of the first two classes is a `Withdraw` or
  a stutter, the third an `Issue`; a lease reaches a worker only in `AnswerDialog`, which
  is `Approve`, and leaves it in `Execute`, in a report or with the worker; that the
  carried leases are of different workers, from `IInv`, makes the two sets lose one only.
* **PetEconomyProofs**: `PetTypeCorrect`, `RewardsAreSpaced`, `RewardsAreCapped`,
  `RewardsAreLimited` (both together, as the run checks them),
  `EventsAreRewardedOnce`, `LedgerIsBalanced`, `CacheIsCoherent`, `TimeIsChargedOnce`.
  `IInv` adds to the
  types that a stopped process has no cache, that an operation under way has a
  row, that the ledger respects cooldown, cap and single events, that the
  balance is the sum of the grants less what was spent, and that a cached row with
  the durable revision is the durable row. The balance needs the last part: a
  stale copy would otherwise pass the comparison and write old currency back. `TimeIsChargedOnce`
  needs a second invariant, `DatedInv`: the cached baseline is the durable one, and an
  operation between its commits has settled all whole seconds before its instant, so that
  its second commit moves the baseline over a fraction only. The rest is arithmetic: the
  quotient of a sum with the remainder carried, the whole seconds of two spans, which are
  those of both or one less, and the case that the need runs out in between.
* **UtilityScheduleProofs**: `TimersTypeCorrect`, `TimersAreScheduled`,
  `DelaysAreBounded`, `DeadlinesAreFixed`, `ActiveIsCapped`, `InboxIsTruthful`, and
  `PromiseIsKept`: the
  schedule implements `AlarmPromise`. `IInv` adds that the poll holds at most one
  receipt of an alarm (so presenting one is presenting the alarm once) and that
  only an open service holds receipts and deadlines. A poll maps to `Fire`, a
  failing poll to a `Fire` that nobody hears, a delivery to `Present` or `Drop`, a
  crash to `Drop`. The inbox needs `Accounted`: of one alarm the receipts presented, those
  the poll still holds and the entries that were held back are together no more than the
  receipts claimed, and entries are counted as finite sets, one more at a time.
* **ExternalNotificationsProofs**: types, `AnnouncedOnce`, `ReceiptsTruthful`,
  `NothingForgotten`, `ImportantKept`. `OnceInv` says that a claim of the present table
  has its receipt, no older than the claim, or is too old to be announced, and that of two
  claims of one event only one can still be shown; claims dated too far ahead
  (`FarAhead`) are left out of both. Pruning then never frees an event that could be
  announced again. `LinkInv` says
  that receipts wait for a result only where one of their kind was lost.
* **SpeechOutputProofs**: types, `SoundIsCurrent`,
  `OutputOwned`, `NeverStalls`, `PlaysInOrder`, `CompletedHonestly`. Its first
  half proves `IInv == TypeOK /\ Sound(app) /\ LineSound /\ ChatSound`: whoever
  sounds is the current reply or line, and an output that is taken has an owner.
  Since handlers are functions of the record, each has one lemma, and each action
  cites those of the handlers it runs. The second half adds, as `Kept`, that every accepted
  segment has had its turn or is somewhere, that segments start in order, that a
  worker owes an answer until it has posted one, and what was heard of each segment;
  `Filled` and `Settled` say that no slot, no audio and no completion is left unused
  between two handlers. `Follows` relates the record before a handler to the one
  after it, which is what the two action properties need.
* **VoiceInputProofs**: types, `SessionsOwned`, `MicOwned`, `Answered`, `HeardOnce`.
  `Core` holds of every record one handler passes to another: everything that names a
  turn names one that has been begun (`Fresh`), the session is the last one opened and
  its turn has not been heard, and once the end of a recording is under way the voice
  listens no more (`Numbered`). Since a new turn has a name nothing holds yet, no late
  worker can be taken for it; that is why `HeardOnce` survives session numbers that
  grow and turn numbers that start again. `Owned`, `Mic` and `Hears` are true only
  between two events and are proved of the record an action leaves; `Hears` says of a
  voice that listens which microphone and recogniser serve its turn, which is what
  `Answered` needs when Stop comes.
* **HostedConversationProofs**: types, `AllReleased`, `WrittenOnce`, `SoundIsOwn`, `Moves`, for any number of
  conversations, turns and reconnections and queues of any length. `AllReleased` alone
  is not inductive: a signal that is still queued may touch what has been given back,
  and a turn may be begun for a session that is gone. `IInv` adds to `TypeOK` four parts.
  `Core`, of every record one handler passes to another: a ledger hands out each number
  once, so what names a turn names one that has been begun (`Numbered`), and the
  transcript is the open turn's, which is not yet in the chat (`Transcribed`). `Rested`,
  of the record an action leaves: what is not active has given everything back. `Held`:
  the session belongs to a worker that reserved it and has not let it go, so the next
  worker can only begin numbers on a fresh ledger. `Connecting`: connected is said once
  and before any turn, for otherwise it would open a second turn over the first.
  `Heeds` and `Told` are about the provider: it speaks only of a turn it has heard.
  Each handler has lemmas that relate the record before and after it (`Less` gives up,
  `Goes` may begin a turn, `Writes` adds one to the chat), and each action one lemma that
  cites those of its handlers.
  `SoundIsOwn` needs a second invariant, `Order`: what a worker is asked and what it
  answers are one line. Each call has a place in it (`Place`, `Rank`: the frames of a
  turn, its end, its interruption, then the next turn), and in every state there is a
  place `k` the worker has reached: the calls that wait for it are in order and none
  comes before `k` (`Lined`, `Ahead`), what the application can still send comes after
  them (`Fore`), and the worker is `Fit` for `k`. `Fit` says that the provider speaks of
  the worker's turn and, once that is over, of no earlier one (`Paced`), that only a
  turn it has heard is answered, and each once (`OnlyHeard`, `Once`), and that sound of
  an earlier turn stays in quarantine until the interruption has been read (`Guarded`).
  `Sounding` says of the application that what plays or waits is the open turn's;
  `Plain`, that a signal of sound names its own turn and a new worker has no past. `k`
  moves on with every call served. The exception in `SoundIsOwn`, a worker that has
  `crossed`, is the finding on unnumbered provider events: after it nothing is claimed.
  `Moves` needs a third invariant, `Progress`, of a conversation that `Lasts`: it is
  active, began beside no other worker, its worker is not about to end and has not
  crossed. Such a conversation is `Moving`. The coordinator's state goes with the phase
  of the worker (`Reserved`), and everything that is called, answered or signalled is of
  turns that have been begun, what is interrupted of earlier ones (`Bygone`), so that no
  late signal ends the open turn. Before the first turn it `Waits`, and a live worker's
  `connected` is still queued. Afterwards a turn is `Open`: it is the last that was
  begun, the ledger holds it, and the user is no longer heard on it once its completion
  is signalled. Either the user is heard (`Hears`) or nobody is and an answer may play
  (`Replies`). `Coming` is the heart of it: while the queue is open, the worker not paused
  and the connection never lost, a user who has been heard has an end of turn among the
  calls, an answer that the provider owes for this very turn, or a completion of this
  turn on the wire or among the signals, unless an interruption that nobody
  confirms keeps it (`Answered`); and a provider that is quiet on the turn has answered
  it. `Lonely` and `Parted` keep other workers from the session: they have not begun
  or are done, and one that has not connected is linked to nothing. Each action has one
  lemma (`TalkProgress`, `DispatchProgress`, ...); a conversation that is about to
  end owes nothing, so errors and the user's `End` are the short ones. `Progress` talks of
  queues as sets (`Members`): the order in them is the business of `Order`.
* **GmailPollingProofs**: types, `CursorCovers`. `IInv` adds `PollsSound` (no poll
  knows a mail beyond the mailbox, all it has passed is accounted for, and what it is
  about to save either starts afresh or is passed) and `CursorSound`. The argument
  holds for any number of threads that commit over each other.

Only model-checked: the liveness properties `QuestionEnds`, `TimerEnds`, `MailsArrive`
and `WorkersEnd` (liveness under fairness and ENABLED are beyond the prover, as is
induction over data; no module uses RECURSIVE). Every invariant and every action property
that a passing run checks is also proved. The findings are model-checked counterexamples. All
type invariants are proved; they, like `ActiveCapped`, are left out of the runs.

## 6. Plan

Done, in this order: the action core, the pet's economy, the schedule, external
notifications, speech output, the Gmail poller, speech input, the hosted
conversation. Next:

1. The stages of a voice turn, and proposals on the hosted worker.
2. The Discord gateway and the Spotify client: reconnection, stale sessions, tokens.
3. The engine manager and the order of start-up and shutdown.
4. A wallet that earns and spends, as the abstract specification of `PetEconomy`.

### Not modelled

Parsing and formatting, Spotify's remote API, audio processing, animation, windows
for settings and history, themes, exports and text persistence hold little control
of their own. `app/main.py` wires the parts together: the handlers the models need
are mapped, the construction of objects is not.
