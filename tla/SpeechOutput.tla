------------------------------ MODULE SpeechOutput ------------------------------
(***************************************************************************)
(* A reply that is spoken while it is being written: segments of the chat  *)
(* worker, up to MaxWorkers synthesis workers, one player, and the voice   *)
(* state that decides who may speak or listen.                             *)
(* app/streaming_voice_output_controller.py, app/voice_controller.py,      *)
(* app/voice_playback_controller.py, app/voice_synthesis_controller.py,    *)
(* app/talk_interruption_controller.py and the workers and the player they *)
(* drive.                                                                  *)
(*                                                                         *)
(* The controllers live on the application thread and call each other      *)
(* synchronously, so their state is one record, app, and a handler is a    *)
(* function from record to record.  Workers only post signals; a worker's  *)
(* result and its end are two of them, and anything may come in between.   *)
(***************************************************************************)
EXTENDS Integers, FiniteSets

CONSTANTS
    None,           \* no response, no segment, no sound
    Line,           \* the text spoken in one piece: a replay, a notice, a whole reply
    MaxResponses,   \* bound: chat replies
    Length,         \* bound: segments of each reply
    MaxWorkers,     \* maximum_concurrent_synthesis
    MaxPrefetch,    \* maximum_prefetched_segments
    MaxQueued,      \* maximum_queued_segments
    MaxTurns        \* bound: what users do and what fails, together

\* The controller refuses to be built otherwise (lines 59-66).
ASSUME BoundsAssumption ==
    /\ MaxResponses \in Nat /\ MaxTurns \in Nat
    /\ Length \in [1..MaxResponses -> Nat]
    /\ MaxWorkers \in Nat \ {0}
    /\ MaxQueued \in Nat /\ MaxPrefetch \in Nat
    /\ MaxQueued >= MaxWorkers /\ MaxPrefetch >= MaxWorkers

Responses == 1..MaxResponses
Indices == UNION {0..(Length[r] - 1) : r \in Responses}

\* A worker is named by the segment it speaks.
Threads == {t \in Responses \X Indices : t[2] < Length[t[1]]}

ASSUME NamesAssumption ==
    /\ None \notin Nat /\ None \notin Threads /\ None # Line
    /\ Line \notin Threads

VARIABLES
    chat,     \* the chat worker of each reply: segments sent and taken, and how it ends
    app,      \* the controllers of the application thread
    line,     \* the worker of VoiceSynthesisController: its phase and cancel flag
    turns     \* how many interventions and failures there were

vars == <<chat, app, line, turns>>

Output == {"THINKING", "SPEAKING"}
WorkerPhases == {"none", "running", "audio", "failure", "finishing", "gone"}
LinePhases == {"none", "running", "audio", "failure", "stopped", "finishing"}

\* ready holds whose audio waits: _ready_audio maps an index to what its worker
\* made.  fate is history: how far each segment got.  told counts the completion events.
\* robbed is history: a stale worker gave the output of a reply away.
App == [enabled: BOOLEAN,
        state: {"IDLE", "LISTENING", "MUTED"} \cup Output,
        op: {"none", "input", "output"},
        resp: Responses \cup {None}, submitted: Nat, next: Nat,
        final: Nat \cup {None},
        pending: SUBSET Indices, active: SUBSET Indices, ready: SUBSET Threads,
        failed: SUBSET Indices, played: SUBSET Indices,
        playing: Indices \cup {None},
        cancelled: SUBSET Threads, work: [Threads -> WorkerPhases],
        sound: Threads \cup {None, Line}, started: BOOLEAN,
        callback: Threads \cup {None},
        fate: [Threads -> {"unheard", "begun", "ended", "failed"}],
        told: [Responses -> Nat], robbed: BOOLEAN]

Chat == [status: {"none", "running", "cancelled", "over"},
         sent: Nat, taken: Nat, final: BOOLEAN]

-----------------------------------------------------------------------------
(* VoiceController *)

Recover(s) == [s EXCEPT !.state = IF s.enabled THEN "IDLE" ELSE "MUTED", !.op = "none"]

\* report_error: the error state is left within the same call.
ReportError(s) == Recover(s)

OwnsOutput(s) == s.op = "output" /\ s.state \in Output
Free(s) == s.enabled /\ s.state = "IDLE" /\ s.op = "none"

StopOutput(s) == IF OwnsOutput(s) THEN [s EXCEPT !.state = "IDLE", !.op = "none"] ELSE s

Listen(s) ==
    IF s.enabled /\ s.op # "output" /\ s.state \in {"IDLE", "LISTENING"}
    THEN [s EXCEPT !.state = "LISTENING", !.op = "input"] ELSE s

ApplyConfig(s, on) ==
    IF ~on THEN [s EXCEPT !.enabled = FALSE, !.state = "MUTED", !.op = "none"]
    ELSE [s EXCEPT !.enabled = TRUE, !.state = IF @ = "MUTED" THEN "IDLE" ELSE @]

-----------------------------------------------------------------------------
(* StreamingVoiceOutputController *)

Clear(s) ==
    [s EXCEPT !.resp = None, !.submitted = 0, !.next = 0, !.final = None,
              !.pending = {}, !.active = {}, !.ready = {}, !.failed = {},
              !.played = {}, !.playing = None]

\* cancel: the flag of every worker is set, the player stops without a callback.
Cancel(s) ==
    LET c == Clear([s EXCEPT !.cancelled = @ \cup {<<s.resp, i>> : i \in s.active},
                             !.sound = None, !.started = FALSE, !.callback = None])
    IN  IF OwnsOutput(c) THEN Recover(c) ELSE c

Waiting(s) == {t[2] : t \in s.ready}
Prefetched(s) ==
    s.active \cup Waiting(s) \cup (IF s.playing = None THEN {} ELSE {s.playing})

\* _fill_synthesis_slots: the oldest pending segments, as far as the slots go.
Fill(s) ==
    LET before(i) == Cardinality({j \in s.pending : j < i})
        starts == {i \in s.pending :
                      /\ Cardinality(s.active) + before(i) < MaxWorkers
                      /\ Cardinality(Prefetched(s)) + before(i) < MaxPrefetch}
    IN  [s EXCEPT !.pending = @ \ starts,
                  !.active = @ \cup starts,
                  !.work = [t \in Threads |-> IF t[1] = s.resp /\ t[2] \in starts
                                              THEN "running" ELSE @[t]]]

\* The event is published if something was spoken.
Told(s) == IF s.played = {} THEN s.told ELSE [s.told EXCEPT ![s.resp] = @ + 1]

\* Mutant of Finish: one segment too early.
FinishEarly(s) ==
    LET finished == s.final # None /\ s.playing = None /\ s.next >= s.final
        c == [Clear(s) EXCEPT !.told = Told(s)]
    IN  IF ~finished THEN s ELSE IF OwnsOutput(c) THEN Recover(c) ELSE c

\* _maybe_finish_response
Finish(s) ==
    LET finished == /\ s.resp # None /\ s.final # None
                    /\ s.playing = None /\ s.next > s.final
                    /\ s.pending = {} /\ s.active = {} /\ s.ready = {}
        c == [Clear(s) EXCEPT !.told = Told(s)]
    IN  IF ~finished THEN s ELSE IF OwnsOutput(c) THEN Recover(c) ELSE c

\* Mutant of PlaybackError: the error is reported and the reply goes on.
PlaybackErrorGoesOn(s) == ReportError([s EXCEPT !.playing = None])

\* _handle_playback_error
PlaybackError(s) == Cancel(ReportError([s EXCEPT !.playing = None]))

\* play of VoicePlaybackController on behalf of the reply: refused without a
\* callback when the voice is not in output; a busy player calls back with an
\* error.  A device that refuses at once is a sound that fails at once (SoundFails).
Play(s, i) ==
    LET t == CHOOSE a \in s.ready : a[2] = i
        p == [s EXCEPT !.playing = i, !.ready = @ \ {t}]
    IN  IF ~OwnsOutput(s) THEN ReportError(p)
        ELSE IF s.sound # None THEN PlaybackError([p EXCEPT !.callback = None])
        ELSE [p EXCEPT !.sound = t, !.started = FALSE, !.callback = t,
                       !.fate[t] = "begun"]

\* Mutant of FirstAlive: whatever is ready first is played first.
FirstReady(s) ==
    IF s.ready = {} THEN s.next
    ELSE CHOOSE n \in Waiting(s) : \A m \in Waiting(s) : n <= m

\* _try_play_next: failed segments are passed over, the next one is played if
\* its audio is there.
FirstAlive(s) == CHOOSE n \in s.next..s.submitted :
    n \notin s.failed /\ \A j \in s.next..(n - 1) : j \in s.failed

TryPlay(s) ==
    IF s.playing # None \/ s.resp = None THEN s
    ELSE LET n == FirstAlive(s)
             p == [s EXCEPT !.failed = @ \ (s.next..(n - 1)), !.next = n]
         IN  IF n \in Waiting(s) THEN Play(p, n) ELSE Finish(p)

\* Mutant of Accepts: a worker is known by its index alone.
AcceptsIndex(s, t) == t[2] \in s.active

Accepts(s, t) == s.resp = t[1] /\ t[2] \in s.active /\ t \notin s.cancelled

AudioReady(s, t) ==
    IF Accepts(s, t) /\ t[2] \notin s.failed
    THEN TryPlay([s EXCEPT !.ready = @ \cup {t}]) ELSE s

SynthesisFailed(s, t) ==
    IF Accepts(s, t) /\ t[2] >= s.next /\ t[2] \notin s.failed
    THEN TryPlay([s EXCEPT !.failed = @ \cup {t[2]}, !.fate[t] = "failed"])
    ELSE s

\* Mutant of ThreadFinished: the slot is filled and nothing else is looked at.
ThreadFinishedFills(s, t) ==
    LET active == IF s.resp = t[1] THEN s.active \ {t[2]} ELSE s.active
    IN  Fill([s EXCEPT !.active = active, !.cancelled = @ \ {t}])

ThreadFinished(s, t) ==
    LET active == IF s.resp = t[1] THEN s.active \ {t[2]} ELSE s.active
        f == Fill([s EXCEPT !.active = active, !.cancelled = @ \ {t}])
    IN  Finish(TryPlay(f))

PlaybackFinished(s, t) ==
    IF s.resp # None /\ t[2] = s.next
    THEN TryPlay(Fill([s EXCEPT !.played = @ \cup {t[2]}, !.playing = None,
                                !.next = @ + 1]))
    ELSE s

\* submit, with its early returns.  A segment of another reply first cancels the
\* one that is being spoken; a segment out of order, after the last, or beyond
\* the queue cancels its own.
Start(s, r, i) ==
    IF s.resp = None /\ i = 0 /\ Free(s)
    THEN [s EXCEPT !.resp = r, !.state = "THINKING", !.op = "output"] ELSE s

Submit(s, r, i, last) ==
    LET begun == Start(IF s.resp \in {None, r} THEN s ELSE Cancel(s), r, i)
        refused == \/ i # begun.submitted
                   \/ begun.final # None
                   \/ begun.submitted - begun.next >= MaxQueued
    IN  IF ~s.enabled THEN s
        ELSE IF begun.resp # r THEN begun
        ELSE IF refused THEN Cancel(begun)
        ELSE Fill([begun EXCEPT !.pending = @ \cup {i}, !.submitted = @ + 1,
                                !.final = IF last THEN i ELSE None])

-----------------------------------------------------------------------------
(* The chat workers *)

Turn == turns < MaxTurns /\ turns' = turns + 1
Unless(fault) == IF fault THEN Turn ELSE UNCHANGED turns

Ask(r) ==
    /\ chat[r].status = "none"
    /\ \A q \in Responses : /\ q < r => chat[q].status # "none"
                            /\ chat[q].status # "running"
    /\ chat' = [chat EXCEPT ![r].status = "running"]
    /\ UNCHANGED <<app, line, turns>>

\* A worker looks at its cancel flag between chunks, so a segment may still be
\* sent after the reply was cancelled.
Send(r, last) ==
    /\ chat[r].status \in {"running", "cancelled"}
    /\ chat[r].sent < Length[r]
    /\ chat' = [chat EXCEPT ![r].sent = @ + 1, ![r].final = last,
                            ![r].status = IF last THEN "over" ELSE @]
    /\ UNCHANGED <<app, line, turns>>

\* The provider fails, or the cancel flag is seen: no final segment is sent.
BreakOff(r) ==
    /\ chat[r].status \in {"running", "cancelled"}
    /\ chat' = [chat EXCEPT ![r].status = "over"]
    /\ UNCHANGED <<app, line, turns>>

\* handle_speech_segment: the queued signal reaches the application thread.
TakeSegment(r) ==
    LET i == chat[r].taken
    IN  /\ i < chat[r].sent
        /\ chat' = [chat EXCEPT ![r].taken = @ + 1]
        /\ app' = Submit(app, r, i, chat[r].final /\ i + 1 = chat[r].sent)
        /\ UNCHANGED <<line, turns>>

-----------------------------------------------------------------------------
(* The synthesis workers of the reply *)

\* The signal of a cancelled worker is handled by doing nothing and left out.
Synthesize(t) ==
    /\ app.work[t] = "running"
    /\ \E result \in IF t \in app.cancelled THEN {"finishing"} ELSE {"audio", "failure"} :
           app' = [app EXCEPT !.work[t] = result] /\ Unless(result = "failure")
    /\ UNCHANGED <<chat, line>>

TakeResult(t) ==
    LET s == [app EXCEPT !.work[t] = "finishing"]
    IN  /\ \/ app.work[t] = "audio" /\ app' = AudioReady(s, t)
           \/ app.work[t] = "failure" /\ app' = SynthesisFailed(s, t)
        /\ UNCHANGED <<chat, line, turns>>

TakeFinished(t) ==
    /\ app.work[t] = "finishing"
    /\ app' = ThreadFinished([app EXCEPT !.work[t] = "gone"], t)
    /\ UNCHANGED <<chat, line, turns>>

-----------------------------------------------------------------------------
(* A text spoken in one piece: VoiceSynthesisController *)

\* Replay, a notice or a reply without segments: requested only while the voice
\* is idle; a worker that is still there makes it an error.
Speak ==
    /\ Turn
    /\ Free(app)
    /\ IF line.phase = "none"
       THEN /\ app' = [app EXCEPT !.state = "THINKING", !.op = "output"]
            /\ line' = [phase |-> "running", cancelled |-> FALSE]
       ELSE /\ app' = ReportError(app)
            /\ line' = [line EXCEPT !.cancelled = TRUE]
    /\ UNCHANGED chat

SynthesizeLine ==
    /\ line.phase = "running"
    /\ \E result \in IF line.cancelled THEN {"stopped"} ELSE {"audio", "failure"} :
           line' = [line EXCEPT !.phase = result] /\ Unless(result = "failure")
    /\ UNCHANGED <<chat, app>>

\* play without callbacks of the reply: it takes the place of whatever
\* callbacks are registered, even when it then finds the player busy.
PlayLine(s) ==
    IF s.sound # None THEN ReportError([s EXCEPT !.callback = None])
    ELSE [s EXCEPT !.sound = Line, !.started = FALSE, !.callback = None]

\* _handle_cancelled recovers whatever output is thinking, its own or not.
LineCancelled(s) ==
    IF s.op = "output" /\ s.state = "THINKING"
    THEN [Recover(s) EXCEPT !.robbed = @ \/ s.resp # None] ELSE s

TakeLine ==
    /\ line.phase \in {"audio", "failure", "stopped"}
    /\ line' = [line EXCEPT !.phase = "finishing"]
    /\ app' = CASE /\ line.phase = "audio" /\ ~line.cancelled
                   /\ app.op = "output" /\ app.state = "THINKING" -> PlayLine(app)
                [] line.phase = "failure" /\ ~line.cancelled -> ReportError(app)
                [] line.phase = "stopped" -> LineCancelled(app)
                [] OTHER -> app
    /\ UNCHANGED <<chat, turns>>

LineFinished ==
    /\ line.phase = "finishing"
    /\ line' = [phase |-> "none", cancelled |-> FALSE]
    /\ UNCHANGED <<chat, app, turns>>

CancelLine == [line EXCEPT !.cancelled = line.phase # "none"]

-----------------------------------------------------------------------------
(* The player *)

\* mark_speaking
SoundStarts ==
    /\ app.sound # None
    /\ ~app.started
    /\ app' = IF app.enabled /\ app.op = "output"
              THEN [app EXCEPT !.started = TRUE, !.state = "SPEAKING"]
              ELSE [app EXCEPT !.started = TRUE]
    /\ UNCHANGED <<chat, line, turns>>

SoundEnds ==
    LET t == app.callback
        s == [app EXCEPT !.sound = None, !.started = FALSE, !.callback = None]
    IN  /\ app.started
        /\ app' = IF t = None
                  THEN IF s.op = "output" /\ s.state = "SPEAKING" THEN Recover(s) ELSE s
                  ELSE PlaybackFinished([s EXCEPT !.fate[t] = "ended"], t)
        /\ UNCHANGED <<chat, line, turns>>

SoundFails ==
    LET s == [app EXCEPT !.sound = None, !.started = FALSE, !.callback = None]
    IN  /\ app.sound # None
        /\ app' = IF app.callback = None THEN ReportError(s) ELSE PlaybackError(s)
        /\ Turn
        /\ UNCHANGED <<chat, line>>

-----------------------------------------------------------------------------
(* The user *)

\* VOICE_SPEAK_STOP_REQUESTED, in the order of its subscribers: the voice, the
\* player, the single worker, the reply.
Silenced(s) ==
    Cancel([StopOutput(s) EXCEPT !.sound = None, !.started = FALSE, !.callback = None])

CancelledChat ==
    [r \in Responses |-> IF chat[r].status = "running"
                         THEN [chat[r] EXCEPT !.status = "cancelled"] ELSE chat[r]]

\* cancel_active_chat; or the button that stops the speech and not the reply.
Stop ==
    /\ Turn
    /\ chat' \in {chat, CancelledChat}
    /\ app' = Silenced(app)
    /\ line' = CancelLine

\* request_talk: what is being spoken stops, the reply that is being written is
\* cancelled, the microphone opens.
Talk ==
    /\ Turn
    /\ chat' = CancelledChat
    /\ app' = Listen(IF app.op = "output" THEN Silenced(app) ELSE app)
    /\ line' = IF app.op = "output" THEN CancelLine ELSE line

\* The transcript is there, or listening is cancelled.
StopListening ==
    /\ app.op = "input"
    /\ app' = Recover(app)
    /\ UNCHANGED <<chat, line, turns>>

\* The settings are saved: voice, single worker, reply and player in this order.
Configure(on) ==
    /\ Turn
    /\ app' = Cancel(ApplyConfig(app, on))
    /\ line' = CancelLine
    /\ UNCHANGED chat

Init ==
    /\ chat = [r \in Responses |->
                  [status |-> "none", sent |-> 0, taken |-> 0, final |-> FALSE]]
    /\ app = [enabled |-> TRUE, state |-> "IDLE", op |-> "none",
              resp |-> None, submitted |-> 0, next |-> 0, final |-> None,
              pending |-> {}, active |-> {}, ready |-> {}, failed |-> {},
              played |-> {}, playing |-> None, cancelled |-> {},
              work |-> [t \in Threads |-> "none"],
              sound |-> None, started |-> FALSE, callback |-> None,
              fate |-> [t \in Threads |-> "unheard"],
              told |-> [r \in Responses |-> 0], robbed |-> FALSE]
    /\ line = [phase |-> "none", cancelled |-> FALSE]
    /\ turns = 0

Next ==
    \/ \E r \in Responses : \/ Ask(r) \/ BreakOff(r) \/ TakeSegment(r)
                            \/ \E last \in BOOLEAN : Send(r, last)
    \/ \E t \in Threads : \/ Synthesize(t)
                          \/ TakeResult(t) \/ TakeFinished(t)
    \/ Speak \/ SynthesizeLine \/ TakeLine \/ LineFinished
    \/ SoundStarts \/ SoundEnds \/ SoundFails
    \/ Stop \/ Talk \/ StopListening
    \/ \E on \in BOOLEAN : Configure(on)

Spec == Init /\ [][Next]_vars

-----------------------------------------------------------------------------
(* Properties *)

TypeOK ==
    /\ chat \in [Responses -> Chat]
    /\ app \in App
    /\ line \in [phase: LinePhases, cancelled: BOOLEAN]
    /\ turns \in Nat

\* What sounds is the segment the controller waits for, of the reply that is
\* current: the audio of a reply that was stopped, replaced or failed never
\* sounds, however late its worker answers (_accepts_callback, cancel).
SoundIsCurrent ==
    /\ app.sound \in Threads => app.sound = <<app.resp, app.playing>>
    /\ app.playing # None /\ ~app.robbed =>
          app.sound = <<app.resp, app.playing>> /\ app.callback = app.sound

\* A reply that is being spoken owns the output, and nothing sounds while the
\* microphone is open, unless a stale worker gave the output away.
OutputOwned ==
    ~app.robbed => /\ app.resp # None => OwnsOutput(app)
                   /\ app.sound # None => OwnsOutput(app)

\* A reply that neither sounds nor is being synthesised waits for nothing but
\* its chat worker: no order of results, ends, failures and sounds leaves an
\* accepted segment, or the end of the reply, behind.
NeverStalls ==
    app.resp # None /\ ~app.robbed =>
        \/ app.playing # None
        \/ app.active # {}
        \/ app.final = None /\ app.next = app.submitted

\* A segment begins to sound only after every earlier one of its reply has
\* sounded to its end or has failed, and no segment twice, in whatever order
\* the workers answer.
PlaysInOrder ==
    [][\A t \in Threads : app.sound # t /\ app'.sound = t =>
          /\ app.fate[t] = "unheard"
          /\ \A i \in 0..(t[2] - 1) : app'.fate[<<t[1], i>>] \in {"ended", "failed"}]_vars

\* VOICE_RESPONSE_PLAYBACK_COMPLETED is published once per reply, and only when
\* the reply was sent to its end and each of its segments sounded or failed.
CompletedHonestly ==
    [][\A r \in Responses : app'.told[r] # app.told[r] =>
          /\ app.told[r] = 0
          /\ chat[r].final
          /\ \A i \in 0..(chat[r].sent - 1) : app'.fate[<<r, i>>] \in {"ended", "failed"}]_vars

=============================================================================
