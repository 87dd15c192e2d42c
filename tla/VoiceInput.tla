------------------------------- MODULE VoiceInput -------------------------------
(***************************************************************************)
(* Speech input: who is being listened to, in which session and turn, and  *)
(* whose transcript reaches the chat.  The turn ledger                     *)
(* (core/voice_session/ledger.py) behind the coordinator                   *)
(* (app/voice_session_coordinator.py), push to talk and the local          *)
(* conversation that own its sessions, the microphone                      *)
(* (app/voice_capture_controller.py), rolling recognition                  *)
(* (app/rolling_voice_transcription_controller.py,                         *)
(* services/rolling_speech_input.py) and the voice state.                  *)
(*                                                                         *)
(* All controllers live on the application thread and call each other      *)
(* synchronously through the event bus, so their state is one record, app, *)
(* and a handler is a function from record to record.  A recognition       *)
(* worker only posts signals: its transcript, its failure and its end are  *)
(* separate events, and anything may come in between.                      *)
(***************************************************************************)
EXTENDS Integers

CONSTANTS
    None,           \* no turn, no recogniser, no worker
    MaxSessions,    \* bound: sessions that are started
    MaxTurns        \* bound: turns of each session

ASSUME BoundsAssumption == MaxSessions \in Nat /\ MaxTurns \in Nat \ {0}

\* A turn is named by its session and its number, which starts again at one in
\* every session (ledger.py 50, 160).
Turns == (1..MaxSessions) \X (1..MaxTurns)

VARIABLE app

vars == <<app>>

Phases == {"running", "transcript", "failure", "stopped", "finishing"}
Worker == [turn: Turns, final: BOOLEAN, phase: Phases]

ASSUME NamesAssumption == None \notin Turns /\ None \notin Worker

\* input and talk are the settings (speech input, push to talk).  session = 0 is
\* IDLE and any other ACTIVE: the other life cycles last no longer than a call.
\* persistent is meaningful while owns holds.  recognizer names the turn it serves.
\* frames and endpoint wait for a worker.  late holds turns whose transcript an
\* abandoned worker may still post.  work is the chat, action and tool threads.
\* History: heard counts transcripts, stray marks a microphone that an error left
\* open, deaf a turn that lost its microphone or its recogniser.
App == [input: BOOLEAN, talk: BOOLEAN,
        state: {"IDLE", "LISTENING", "THINKING", "SPEAKING"},
        op: {"none", "input", "output"},
        session: 0..MaxSessions, sessions: 0..MaxSessions, next: 1..(MaxTurns + 1),
        turn: Turns \cup {None}, cancelled: SUBSET Turns,
        owns: BOOLEAN, persistent: BOOLEAN, conversation: BOOLEAN,
        work: {"none", "busy", "cancelled"}, mic: BOOLEAN,
        recognizer: Turns \cup {None}, spent: SUBSET Turns,
        frames: BOOLEAN, endpoint: BOOLEAN,
        worker: Worker \cup {None}, late: SUBSET Turns,
        heard: [Turns -> Nat], stray: BOOLEAN, deaf: BOOLEAN]

Only(t) == {t} \ {None}

-----------------------------------------------------------------------------
(* Voice state, sessions and recognition *)

Idle(s) == [s EXCEPT !.state = "IDLE", !.op = "none"]
Free(s) == s.state = "IDLE" /\ s.op = "none"
Interrupted(work) == IF work = "none" THEN "none" ELSE "cancelled"

\* cancel_active_turn
CancelTurn(s) == [s EXCEPT !.turn = None, !.cancelled = @ \cup Only(s.turn)]

\* request_stop and finish_stop, or an error: the session and its turn are gone.
Drop(s) == [CancelTurn(s) EXCEPT !.session = 0]
Unowned(s) == [s EXCEPT !.owns = FALSE, !.persistent = FALSE]

\* Mutant of Release: the recogniser is put down, not cancelled.
ReleaseOnly(s) ==
    [s EXCEPT !.recognizer = None, !.frames = FALSE, !.endpoint = FALSE]

\* _release_turn(cancel_recognizer=True): the recogniser cancels the token of its
\* turn, unless it has finalised and holds the token no more.
Release(s) ==
    [s EXCEPT !.recognizer = None, !.frames = FALSE, !.endpoint = FALSE,
              !.cancelled = @ \cup (Only(s.recognizer) \ s.spent)]

\* cancel(wait_ms=0): nothing waits for the worker, whose transcript may be on
\* its way already.
Abandon(s) ==
    LET posted == s.worker # None /\ s.worker.final
                  /\ s.worker.phase \in {"running", "transcript"}
    IN  [s EXCEPT !.worker = None,
                  !.late = @ \cup (IF posted THEN {s.worker.turn} ELSE {})]

CloseMic(s) == [s EXCEPT !.mic = FALSE, !.stray = FALSE]

\* Mutant of CancelListen: the microphone stays open.
CancelListenOnly(s) ==
    LET v == IF s.op = "input" THEN Idle(s) ELSE s
        p == IF ~s.owns THEN v
             ELSE Unowned(IF s.persistent THEN CancelTurn(v) ELSE Drop(v))
    IN  Release(Abandon(p))

\* VOICE_LISTEN_CANCEL_REQUESTED, in the order of its subscribers: the voice, push
\* to talk, recognition, the microphone.
CancelListen(s) ==
    LET v == IF s.op = "input" THEN Idle(s) ELSE s
        p == IF ~s.owns THEN v
             ELSE Unowned(IF s.persistent THEN CancelTurn(v) ELSE Drop(v))
    IN  CloseMic(Release(Abandon(p)))

\* LocalConversationSessionController.end
Ended(s) ==
    LET c == [s EXCEPT !.conversation = FALSE]
        v == CASE c.op = "input" -> CancelListen(c)
               [] c.op = "output" -> Idle(c)
               [] OTHER -> c
    IN  Drop([v EXCEPT !.work = Interrupted(@)])

\* Mutant of Close: the conversation is not told.
CloseQuietly(s) == Drop(s)

\* The session closes, and a conversation that runs observes it and ends.
Close(s) == IF s.conversation THEN Ended(Drop(s)) ELSE Drop(s)

\* VOICE_ERROR_OCCURRED: only push to talk acts on it, and only for its own turn.
VoiceError(s) == IF s.owns THEN Unowned(Close(s)) ELSE s

\* report_error leaves the microphone as it is.
ReportError(s) ==
    Idle(VoiceError([s EXCEPT !.op = "none", !.stray = @ \/ s.mic]))

\* Mutant of StartPending: the endpoint is not handed on.
StartFrames(s) ==
    IF s.recognizer = None \/ ~s.frames THEN s
    ELSE [s EXCEPT !.frames = FALSE, !.endpoint = FALSE,
                   !.worker = [turn |-> s.recognizer, final |-> FALSE,
                               phase |-> "running"]]

\* _start_pending: one worker takes everything that waits.
StartPending(s) ==
    IF s.recognizer = None \/ ~(s.frames \/ s.endpoint) THEN s
    ELSE [s EXCEPT !.frames = FALSE, !.endpoint = FALSE,
                   !.worker = [turn |-> s.recognizer, final |-> s.endpoint,
                               phase |-> "running"]]

\* _enqueue
Enqueue(s, endpoint) ==
    LET q == [s EXCEPT !.frames = TRUE, !.endpoint = @ \/ endpoint]
    IN  IF s.recognizer = None THEN s
        ELSE IF s.worker = None THEN StartPending(q) ELSE q

-----------------------------------------------------------------------------
(* Listening *)

\* The session is the conversation's and waits for a turn.
Waits(s) == s.session # 0 /\ s.turn = None

\* Room for one more turn, or for the session it opens.
Room(s) == IF Waits(s) THEN s.next <= MaxTurns ELSE s.sessions < MaxSessions

\* VOICE_LISTEN_REQUESTED while the voice is free: the voice listens, push to talk
\* takes a turn of the conversation that waits for one, or else closes what is
\* there and opens a session of its own, and recognition turns to the new turn.
\* A worker that is still active stays so.
Begin(s) ==
    LET v == [s EXCEPT !.state = "LISTENING", !.op = "input"]
        f == IF Waits(s) THEN v
             ELSE [Close(v) EXCEPT !.session = s.sessions + 1,
                                   !.sessions = s.sessions + 1, !.next = 1]
        t == <<f.session, f.next>>
        p == [f EXCEPT !.turn = t, !.next = @ + 1,
                       !.owns = TRUE, !.persistent = Waits(s), !.deaf = FALSE]
    IN  [Release(p) EXCEPT !.recognizer = t]

\* The microphone comes last: it opens unless it is open or the voice has left
\* LISTENING in between, and opening may fail.
Listen(s) ==
    /\ Room(s)
    /\ LET b == Begin(s)
       IN  app' \in IF b.state # "LISTENING" \/ b.mic THEN {b}
                    ELSE {[b EXCEPT !.mic = TRUE], ReportError(b)}

\* request_talk: speech that sounds stops, work is cancelled, listening starts.
\* Speech input that is switched off makes it an error and nothing else.
Talk ==
    /\ app.state = "IDLE" \/ app.op = "output"
    /\ IF app.input /\ app.talk
       THEN Listen([Idle(app) EXCEPT !.work = Interrupted(@)])
       ELSE app' = VoiceError(app)

\* VOICE_LISTEN_STOP_REQUESTED: the button, silence, or no progress of the
\* transcript.  Reading the microphone may fail; without one nothing follows.
Stop ==
    LET t == [app EXCEPT !.state = "THINKING"]
        c == CloseMic(t)
    IN  /\ app.state = "LISTENING"
        /\ app' \in IF app.mic THEN {Enqueue(c, TRUE), ReportError(c)} ELSE {t}

\* A snapshot of the microphone while it records (submit_partial).
Snapshot ==
    /\ app.state = "LISTENING" /\ app.mic
    /\ app' = Enqueue(app, FALSE)

\* The time limit of the recording, or its device is gone.
CaptureEnds ==
    /\ app.mic
    /\ app' = ReportError(CloseMic(app))

\* The button while the voice is transcribing.
CancelTranscription ==
    /\ app.state = "THINKING" /\ app.op = "input"
    /\ app' = CancelListen(app)

-----------------------------------------------------------------------------
(* The recognition worker *)

\* What a worker may post.  A partial posts nothing that is remembered.  A final
\* posts its transcript if the token of the turn is not cancelled, or if that
\* happens between its last look at it and the signal.
Results(s) ==
    LET alive == s.worker.turn \notin s.cancelled
    IN  IF s.worker.final
        THEN {"transcript", "failure"} \cup (IF alive THEN {} ELSE {"stopped", "finishing"})
        ELSE {"finishing"} \cup (IF alive THEN {} ELSE {"stopped", "failure"})

\* Whatever comes out of it, a final leaves its recogniser spent.
Recognize ==
    /\ app.worker # None /\ app.worker.phase = "running"
    /\ \E result \in Results(app) :
           app' = [app EXCEPT !.worker.phase = result,
                              !.spent = @ \cup (IF app.worker.final
                                                THEN {app.worker.turn} ELSE {})]

\* Mutant of Accepts: the number of the turn without its session.
AcceptsNumber(s, t) ==
    /\ s.session # 0 /\ s.turn # None
    /\ s.turn[2] = t[2] /\ s.turn \notin s.cancelled

\* accepts_callback of the coordinator and its ledger
Accepts(s, t) == s.session # 0 /\ s.turn = t /\ t \notin s.cancelled

\* Mutant of Complete: the turn is over, its session stays.
CompleteKeepsSession(s) == Unowned([s EXCEPT !.turn = None])

\* Push to talk accepts the final transcript: the turn is complete, its session
\* closes unless it is the conversation's.
Complete(s) ==
    LET c == [s EXCEPT !.turn = None]
    IN  IF ~s.owns THEN s ELSE Unowned(IF s.persistent THEN c ELSE Close(c))

\* _handle_revision and publish_transcript: the voice is idle again, push to talk
\* completes the turn, the chat shows the transcript and may send it at once.
Transcript(s, t) ==
    LET p == Complete([Idle(s) EXCEPT !.heard[t] = @ + 1])
    IN  IF ~Accepts(s, t) THEN {s}
        ELSE IF s.op # "input" THEN {VoiceError(s)}
        ELSE {p, [p EXCEPT !.work = IF @ = "none" THEN "busy" ELSE @]}

Finishing(s) == [s EXCEPT !.worker.phase = "finishing"]

TakeTranscript ==
    /\ app.worker # None /\ app.worker.phase = "transcript"
    /\ app' \in Transcript(Finishing(app), app.worker.turn)

TakeLate(t) ==
    /\ t \in app.late
    /\ app' \in Transcript([app EXCEPT !.late = @ \ {t}], t)

\* _handle_failure: a partial that fails is passed over.
TakeFailure ==
    LET f == Finishing(app)
    IN  /\ app.worker # None /\ app.worker.phase = "failure"
        /\ app' = IF app.worker.final THEN ReportError(f) ELSE f

\* _handle_thread_cancelled: what waits is dropped, whichever turn it belongs to.
TakeStopped ==
    LET robs == app.recognizer # app.worker.turn /\ (app.frames \/ app.endpoint)
    IN  /\ app.worker # None /\ app.worker.phase = "stopped"
        /\ app' = [Finishing(app) EXCEPT !.frames = FALSE, !.endpoint = FALSE,
                                         !.deaf = @ \/ robs]

\* _handle_thread_finished: what waits is next, else a final worker releases the
\* recogniser, whichever turn it serves by now.
TakeFinished ==
    LET f == [app EXCEPT !.worker = None]
        robs == app.recognizer \notin {None, app.worker.turn}
    IN  /\ app.worker # None /\ app.worker.phase = "finishing"
        /\ app' = IF app.frames \/ app.endpoint THEN StartPending(f)
                  ELSE IF app.worker.final
                       THEN [Release(f) EXCEPT !.deaf = @ \/ robs]
                       ELSE f

-----------------------------------------------------------------------------
(* The conversation *)

Available(s) == s.input /\ s.talk

\* start: refused with an error while anything else is going on.
StartConversation ==
    /\ app.state = "IDLE" /\ ~app.conversation
    /\ IF Available(app) /\ app.session = 0 /\ app.work = "none"
       THEN /\ app.sessions < MaxSessions
            /\ Listen([app EXCEPT !.session = app.sessions + 1,
                                  !.sessions = @ + 1, !.next = 1,
                                  !.conversation = TRUE])
       ELSE app' = VoiceError(app)

\* The button, or one of the two time limits (tick).
EndConversation ==
    /\ app.conversation
    /\ app' = Ended(app)

\* _resume_listening
Resume(s) ==
    LET may == /\ s.conversation /\ s.session # 0 /\ s.turn = None
               /\ Free(s) /\ s.work = "none"
    IN  IF ~may THEN app' = s
        ELSE IF ~Available(s) THEN app' = Ended(s)
        ELSE Listen(s)

\* A chat, action or tool thread is gone; an action that needed no reply lets
\* the conversation go on.
WorkEnds ==
    LET s == [app EXCEPT !.work = "none"]
    IN  app.work # "none" /\ (app' = s \/ Resume(s))

\* The user sends a message, or a reply is stopped with what it speaks.
Work ==
    \/ app.work = "none" /\ app' = [app EXCEPT !.work = "busy"]
    \/ /\ app.work = "busy"
       /\ app' = [IF app.op = "output" THEN Idle(app) ELSE app
                  EXCEPT !.work = "cancelled"]

\* Speech output, as far as it concerns the input (SpeechOutput has the rest).
SpeechBegins ==
    /\ Free(app)
    /\ app' = [app EXCEPT !.state = "SPEAKING", !.op = "output"]

SpeechEnds ==
    /\ app.op = "output"
    /\ app' = Idle(app) \/ app' = ReportError(app) \/ Resume(Idle(app))

-----------------------------------------------------------------------------
(* The settings are saved: the voice, the speech output and the microphone in  *)
(* this order.  A microphone that records refuses the name of its device.      *)

Configure(input, talk, moved) ==
    LET s == [app EXCEPT !.input = input, !.talk = talk]
        v == IF s.op = "output" \/ (s.op = "input" /\ ~input) THEN Idle(s) ELSE s
        c == IF v.mic /\ (moved \/ ~Available(v))
             THEN [CloseMic(v) EXCEPT !.deaf = @ \/ v.state = "LISTENING"]
             ELSE v
    IN  app' = IF c.mic THEN ReportError(c) ELSE c

Init ==
    app = [input |-> TRUE, talk |-> TRUE, state |-> "IDLE", op |-> "none",
           session |-> 0, sessions |-> 0, next |-> 1, turn |-> None,
           cancelled |-> {}, owns |-> FALSE, persistent |-> FALSE,
           conversation |-> FALSE, work |-> "none", mic |-> FALSE,
           recognizer |-> None, spent |-> {}, frames |-> FALSE, endpoint |-> FALSE,
           worker |-> None, late |-> {}, heard |-> [t \in Turns |-> 0],
           stray |-> FALSE, deaf |-> FALSE]

Next ==
    \/ Talk \/ Stop \/ Snapshot \/ CaptureEnds \/ CancelTranscription
    \/ Recognize \/ TakeTranscript \/ TakeFailure \/ TakeStopped \/ TakeFinished
    \/ \E t \in Turns : TakeLate(t)
    \/ StartConversation \/ EndConversation
    \/ Work \/ WorkEnds \/ SpeechBegins \/ SpeechEnds
    \/ \E input, talk, moved \in BOOLEAN : Configure(input, talk, moved)

Spec == Init /\ [][Next]_vars

-----------------------------------------------------------------------------
(* Properties *)

TypeOK == app \in App

\* A session lives for its turn or for its conversation, a turn belongs to the
\* session that is open and to push to talk, and a conversation never outlives
\* its session: no order of answers, errors and settings leaves a session without
\* its owner.  Whether that owner is still listened to is another question: input
\* that is switched off ends the listening and leaves the turn.
SessionsOwned ==
    /\ app.session # 0 => app.conversation \/ app.turn # None
    /\ app.conversation => app.session # 0
    /\ app.turn # None => app.session # 0 /\ app.turn[1] = app.session /\ app.owns
    /\ app.conversation /\ app.owns => app.persistent

\* The microphone is open only while the voice listens, unless an error that did
\* not come from it left it open (report_error does not close it).
MicOwned == app.mic /\ ~app.stray => app.state = "LISTENING" /\ app.op = "input"

\* A voice that transcribes will get an answer: the worker of its own turn has
\* the endpoint or will be given it, unless the turn lost its microphone to the
\* settings or its recogniser or audio to the worker of an earlier turn.
Answered ==
    app.state = "THINKING" /\ app.op = "input" /\ ~app.deaf =>
        \/ app.worker # None /\ app.worker.final /\ app.worker.turn = app.turn
        \/ app.worker # None /\ app.endpoint /\ app.recognizer = app.turn

\* A transcript reaches the chat once, and only that of the turn which is active
\* and not cancelled: whatever a worker answers after its turn was cancelled,
\* replaced or closed with its session is not heard.
HeardOnce ==
    [][\A t \in Turns : app'.heard[t] # app.heard[t] =>
          app.heard[t] = 0 /\ app.turn = t /\ t \notin app.cancelled]_vars

=============================================================================
