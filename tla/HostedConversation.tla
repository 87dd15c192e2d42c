----------------------------- MODULE HostedConversation -----------------------------
(***************************************************************************)
(* A hosted live conversation: the application side                        *)
(* (app/hosted_conversation_runtime.py with the transcript, the playback   *)
(* queue, the frame bridge, the microphone and the voice state it          *)
(* composes), one worker thread per session                                *)
(* (ui/hosted_live_session_worker.py,                                      *)
(* app/hosted_live_session_controller.py) with its adapter and transport   *)
(* (providers/live/gemini.py, google_transport.py), and the coordinator    *)
(* both sides change (app/voice_session_coordinator.py).                   *)
(*                                                                         *)
(* The application thread is synchronous: its state is one record, app,    *)
(* and a handler is a function from record to record.  It reaches a worker *)
(* through calls, executed in order on the worker's loop, and through      *)
(* request_stop; a worker answers with signals, delivered in order as long *)
(* as it is the runtime's own.  The provider is external: it hears frames, *)
(* owes an answer once the user's turn ends, and puts events on the wire.  *)
(***************************************************************************)
EXTENDS Integers, Sequences

CONSTANTS
    None,           \* no thread, no turn, no text
    MaxSessions,    \* bound: conversations that are started
    MaxTurns,       \* bound: turns of the first session, one less of each later one
    MaxTries,       \* _max_reconnect_attempts
    MaxCalls,       \* bound: frames are captured while fewer calls wait
    MaxWire,        \* bound: the provider sends while fewer events wait
    MaxSignals      \* bound: events are dispatched while fewer signals wait

ASSUME BoundsAssumption ==
    /\ MaxSessions \in Nat /\ MaxTurns \in Nat /\ MaxTries \in Nat
    /\ MaxCalls \in Nat /\ MaxWire \in Nat /\ MaxSignals \in Nat

\* A worker serves one session and is named like it.  A turn is named by its
\* session and its number, which starts at one in every session; 0 is no turn.
Sessions == 1..MaxSessions
Numbers == 0..MaxTurns
LastTurn(w) == MaxTurns + 1 - w
Turns == Sessions \X (1..MaxTurns)

ASSUME NamesAssumption == None \notin Sessions /\ None \notin Sessions \X Nat

VARIABLES
    app,        \* the application thread, and the coordinator
    workers,    \* the worker of each session
    signals     \* what the runtime's own worker has emitted

vars == <<app, workers, signals>>

Text == [turn: Turns, final: BOOLEAN]
Calls == [op: {"frame", "end", "interrupt"}, turn: Turns]

\* voice: THINKING stands for SPEAKING too.  heard: this capture has audio.  renew:
\* the capture is renewed soon.  text: the transcript snapshot, until it is
\* committed or has failed.  play: the playback queue, with a segment that is out
\* (playing), audio that waits (more) and what the device plays (sound, the turn it
\* answers).  life, session, held and next: the coordinator and its ledger.
\* History: chat, the turns written; deaf, an error or an interruption elsewhere in
\* the application has stopped listening or speech; alone, no other worker was left
\* when this one started.  halt, sent, opens and raised only pass from handler to Do.
App == [active: BOOLEAN, thread: Sessions \cup {None}, turn: Turns \cup {None},
        out: BOOLEAN, voice: {"IDLE", "LISTENING", "THINKING"},
        op: {"none", "input", "output"},
        mic: BOOLEAN, heard: BOOLEAN, renew: BOOLEAN,
        bridge: Turns \cup {None}, text: Text \cup {None},
        play: {"off", "open", "finishing"}, playing: BOOLEAN,
        more: Turns \cup {None}, sound: Turns \cup {None},
        life: {"IDLE", "STARTING", "ACTIVE", "STOPPING", "ERROR"},
        session: Sessions \cup {None}, held: Numbers, next: 1..(MaxTurns + 1),
        paused: BOOLEAN, barred: SUBSET Numbers,
        chat: Seq(Turns), deaf: BOOLEAN, alone: BOOLEAN,
        halt: BOOLEAN, sent: Seq(Calls), opens: BOOLEAN, raised: BOOLEAN]

Events == [kind: {"audio", "final", "completed", "interrupted"}, turn: Numbers]
Signals == [kind: {"connected", "audio", "final", "completed", "interrupted",
                   "failed", "idle", "finished"},
            turn: Numbers, of: Numbers]

\* stop: the stop event, which goes with _failure_emitted.  own: the controller is active.
\* link: the adapter's life cycle, with turn, complete and quarantine (the
\* interrupted turn) its turn state.  server: what the provider is at, and the turn
\* it heard last.
Worker == [phase: {"new", "spawned", "checked", "connecting", "live", "failed",
                   "closing", "done"},
           stop: BOOLEAN, own: BOOLEAN,
           link: {"IDLE", "STARTING", "ACTIVE", "STOPPING", "ERROR"},
           turn: Numbers, complete: BOOLEAN, quarantine: Numbers, crossed: BOOLEAN,
           tries: 0..MaxTries,
           calls: Seq(Calls), wire: Seq(Events),
           server: [stage: {"quiet", "hearing", "owing"}, turn: Numbers, lost: BOOLEAN]]

-----------------------------------------------------------------------------
(* Voice, microphone and speech *)

Idle(s) == [s EXCEPT !.voice = "IDLE", !.op = "none"]
CloseMic(s) == [s EXCEPT !.mic = FALSE, !.heard = FALSE]

\* report_error: the voice is free again; the microphone stays as it is.
ReportError(s) == [Idle(s) EXCEPT !.deaf = TRUE]

\* VOICE_LISTEN_CANCEL_REQUESTED
CancelListen(s) == CloseMic(IF s.op = "input" THEN Idle(s) ELSE s)

\* VOICE_LISTEN_REQUESTED from hosted_live: no microphone while speech is out.
Listen(s) ==
    IF s.op = "output" THEN s
    ELSE [s EXCEPT !.voice = "LISTENING", !.op = "input", !.opens = ~s.mic]

\* VOICE_SPEAK_STOP_REQUESTED: the device stops and forgets its callbacks.
StopSpeech(s) ==
    [(IF s.op = "output" THEN Idle(s) ELSE s) EXCEPT !.sound = None]

\* NativeAudioPlaybackQueue.cancel
CancelPlay(s) ==
    [s EXCEPT !.play = "off", !.playing = FALSE, !.more = None, !.sound = None]

\* _play_next with the audio a, which the device refuses unless speech is out.
PlaySegment(s, a) ==
    IF s.op = "output" /\ s.voice = "THINKING"
    THEN [s EXCEPT !.playing = TRUE, !.sound = a]
    ELSE [ReportError(s) EXCEPT !.playing = TRUE]

PlayMore(s) == PlaySegment([s EXCEPT !.more = None], s.more)

\* LiveTranscriptController.cancel_turn compares the number of the turn only.
CancelText(s) ==
    IF s.text # None /\ s.turn # None /\ s.text.turn[2] = s.turn[2]
    THEN [s EXCEPT !.text = None]
    ELSE s

-----------------------------------------------------------------------------
(* The coordinator *)

\* request_stop and finish_stop
Stopping(s) ==
    IF s.life = "IDLE" THEN s ELSE [s EXCEPT !.life = "STOPPING", !.held = 0]
Closed(s) == [s EXCEPT !.life = "IDLE", !.session = None, !.held = 0, !.next = 1]

\* activate, when the session is starting
Activated(s) == IF s.life = "STARTING" THEN [s EXCEPT !.life = "ACTIVE"] ELSE s

\* report_error, when the session is starting or active
Broken(s) ==
    IF s.life \in {"STARTING", "ACTIVE"} THEN [s EXCEPT !.life = "ERROR", !.held = 0]
    ELSE s

\* _owns_turn: the number is the runtime's and the ledger's.
Owns(s, n) ==
    /\ s.active /\ s.turn # None /\ s.turn[2] = n
    /\ s.life = "ACTIVE" /\ s.held = n

\* begin_turn or replace_turn of the ledger, and its adoption by the runtime.
Adopt(s) ==
    [s EXCEPT !.held = s.next, !.next = @ + 1, !.turn = <<s.session, s.next>>,
              !.out = FALSE, !.deaf = FALSE]

-----------------------------------------------------------------------------
(* The runtime *)

\* The loop and the controller of a worker exist from its first step to its last.
Reachable(w) ==
    workers[w].phase \in {"checked", "connecting", "live", "failed", "closing"}

\* Mutant of ReleaseTurn: the microphone is left to the presentation state.
ReleaseIfInput(s) ==
    LET q == CancelPlay(IF s.op = "input" THEN CancelListen(s) ELSE s)
        t == IF s.turn = None THEN q ELSE [CancelText(q) EXCEPT !.held = 0]
    IN  Idle([t EXCEPT !.bridge = None, !.turn = None, !.out = FALSE])

\* _release_turn(cancel=True)
ReleaseTurn(s) ==
    LET q == CancelPlay(CancelListen(s))
        t == IF s.turn = None THEN q ELSE [CancelText(q) EXCEPT !.held = 0]
    IN  Idle([t EXCEPT !.bridge = None, !.turn = None, !.out = FALSE])

\* The worker has gone by itself.
Gone(s) == IF s.active THEN [ReleaseTurn(s) EXCEPT !.active = FALSE] ELSE s

\* end, or _fail_visible: the worker is asked to stop.
Ended(s) == IF s.active THEN [Gone(s) EXCEPT !.halt = TRUE] ELSE s

Submit(s, op, t) ==
    IF Reachable(s.thread)
    THEN [s EXCEPT !.sent = Append(@, [op |-> op, turn |-> t])]
    ELSE Ended(s)

Raise(s) == [s EXCEPT !.raised = TRUE]

\* The transcript, the bridge and the queue take the turn in this order, and each
\* raises when it still has another.
TakeTurn(s) ==
    LET t == [s EXCEPT !.text = [turn |-> s.turn, final |-> FALSE]]
        b == [t EXCEPT !.bridge = s.turn]
    IN  IF s.text # None THEN Raise(s)
        ELSE IF s.bridge # None THEN Raise(t)
        ELSE IF s.play # "off" THEN Raise(b)
        ELSE [b EXCEPT !.play = "open", !.playing = FALSE, !.more = None]

\* _begin_turn
BeginTurn(s) ==
    IF s.life # "ACTIVE" \/ s.held # 0 THEN Raise(s)
    ELSE LET t == TakeTurn(Adopt(s))
         IN  IF t.raised THEN t ELSE Listen(t)

\* Mutant of PlaybackCompleted: the next turn is not begun.
CompleteOnly(s) ==
    IF ~s.active THEN s
    ELSE IF s.paused THEN Ended(s)
    ELSE Idle([s EXCEPT !.held = IF Owns(s, s.held) THEN 0 ELSE @,
                        !.turn = None, !.out = FALSE])

\* _handle_playback_completed
PlaybackCompleted(s) ==
    IF ~s.active THEN s
    ELSE IF s.paused THEN Ended(s)
    ELSE BeginTurn(Idle([s EXCEPT !.held = IF Owns(s, s.held) THEN 0 ELSE @,
                                  !.turn = None, !.out = FALSE]))

\* _complete_if_ready
CompleteIfReady(s) ==
    IF s.play # "finishing" \/ s.playing \/ s.more # None THEN s
    ELSE PlaybackCompleted([s EXCEPT !.play = "off"])

\* finish_turn flushes what waits; a buffer that was released raises.
FinishTurn(s) ==
    IF s.play # "open" THEN s
    ELSE LET f == [s EXCEPT !.play = "finishing"]
         IN  CompleteIfReady(IF f.more # None /\ ~f.playing THEN PlayMore(f) ELSE f)

\* end_user_turn
EndUserTurn(s) ==
    LET b == [s EXCEPT !.bridge = None]
    IN  IF ~s.active \/ s.thread = None \/ s.turn = None THEN b
        ELSE Submit(b, "end", s.turn)

Silent == [stage |-> "quiet", turn |-> 0, lost |-> FALSE]

\* A worker that is to stop: what it still hears is told to a runtime that has
\* ended, or will when it is told of the failure.
Doomed(r) == [r EXCEPT !.stop = TRUE, !.calls = <<>>, !.wire = <<>>,
                       !.turn = 0, !.complete = FALSE, !.quarantine = 0, !.tries = 0,
                       !.server = Silent]

\* A handler's outcome: the microphone opens or fails to, the worker gets its calls
\* and its stop, which is lost while its loop does not run.
Do(s) ==
    \E r \in IF s.opens THEN {[s EXCEPT !.mic = TRUE], ReportError(s)} ELSE {s} :
        /\ r.session # None => r.next <= LastTurn(r.session) + 1
        /\ app' = [r EXCEPT !.halt = FALSE, !.sent = <<>>, !.opens = FALSE, !.raised = FALSE]
        /\ workers' =
              IF r.thread = None \/ ~Reachable(r.thread) THEN workers
              ELSE [workers EXCEPT ![r.thread] =
                       IF r.halt \/ @.stop THEN Doomed(@)
                       ELSE [@ EXCEPT !.calls = workers[r.thread].calls \o r.sent]]

-----------------------------------------------------------------------------
(* What the user, the microphone and the device do *)

Fresh == [phase |-> "new", stop |-> FALSE, own |-> FALSE,
          link |-> "IDLE", turn |-> 0, complete |-> FALSE, quarantine |-> 0,
          crossed |-> FALSE, tries |-> 0, calls |-> <<>>, wire |-> <<>>,
          server |-> Silent]

\* start: a new worker becomes the runtime's own, and only its signals count.
Start ==
    /\ ~app.active /\ ~app.renew /\ app.voice = "IDLE" /\ app.op = "none" /\ app.life = "IDLE"
    /\ \E w \in Sessions :
          /\ \A v \in Sessions : workers[v].phase = "new" <=> v >= w
          /\ app' = [app EXCEPT !.active = TRUE, !.thread = w, !.paused = FALSE,
                                !.barred = {}, !.chat = <<>>, !.deaf = FALSE,
                                !.alone = \A v \in Sessions :
                                    workers[v].phase \in {"new", "done"}]
          /\ workers' = [workers EXCEPT ![w].phase = "spawned"]
          /\ signals' = <<>>

End ==
    /\ app.active
    /\ Do(Ended(app))
    /\ UNCHANGED signals

\* request_talk while the provider thinks or speaks.
Talk ==
    /\ app.active /\ app.turn # None /\ app.voice = "THINKING"
    /\ LET c == CancelText([CancelPlay(StopSpeech(app)) EXCEPT !.bridge = None])
           t == Submit(Idle(TakeTurn(Adopt(c))), "interrupt", app.turn)
       IN  Do(IF c.life # "ACTIVE" THEN Raise(c)
              ELSE IF t.active THEN Listen(t) ELSE t)
    /\ UNCHANGED signals

\* The microphone delivers audio; a paused worker takes none.
Frame ==
    /\ app.mic /\ app.voice = "LISTENING"
    /\ LET h == [app EXCEPT !.heard = TRUE]
       IN  IF ~app.active \/ app.bridge = None \/ app.paused THEN Do(h)
           ELSE /\ Len(workers[app.thread].calls) < MaxCalls
                /\ Do(Submit(h, "frame", app.bridge))
    /\ UNCHANGED signals

\* VOICE_LISTEN_STOP_REQUESTED, from the button or from silence.  A capture without
\* audio is an error.
Endpoint ==
    /\ app.voice = "LISTENING"
    /\ LET t == [app EXCEPT !.voice = "THINKING"]
           c == CloseMic(t)
       IN  Do(IF ~app.mic THEN [t EXCEPT !.deaf = @ \/ app.bridge # None]
              ELSE IF app.heard THEN EndUserTurn(c) ELSE ReportError(c))
    /\ UNCHANGED signals

\* The capture reaches its time limit: with speech it ends the user's turn and the
\* voice keeps listening, without it is renewed, at once: long before the next limit.
Timeout ==
    /\ app.mic /\ ~app.renew
    /\ \/ app.heard /\ Do(EndUserTurn(CloseMic(app)))
       \/ Do([CloseMic(app) EXCEPT !.renew = TRUE])
    /\ UNCHANGED signals

\* _renew_hosted_listening
Renew ==
    /\ app.renew
    /\ LET r == [app EXCEPT !.renew = FALSE]
       IN  Do(IF app.voice = "LISTENING" /\ ~app.mic THEN Listen(r) ELSE r)
    /\ UNCHANGED signals

\* The microphone fails: fail_input.
MicFails ==
    /\ app.mic
    /\ Do(Ended(CloseMic(app)))
    /\ UNCHANGED signals

\* New Chat, Clear or Stop in the chat stop all speech: the queue does not learn.
StopAllSpeech ==
    /\ app.op = "output"
    /\ Do([StopSpeech(app) EXCEPT !.deaf = TRUE])
    /\ UNCHANGED signals

\* Settings are saved: the device stops, and a microphone that was changed closes
\* while one that was not is busy, which is an error.
SaveSettings ==
    /\ app.mic \/ app.sound # None
    /\ LET q == [app EXCEPT !.sound = None, !.deaf = TRUE]
       IN  \/ Do(CloseMic(q))
           \/ app.mic /\ Do(ReportError(q))
    /\ UNCHANGED signals

\* suspend_for_clarification: the worker pauses for good and its turn is barred.
Suspend ==
    /\ app.active
    /\ \/ ~app.paused
       \/ app.turn # None /\ app.turn[2] \notin app.barred
    /\ Do([app EXCEPT !.paused = TRUE,
                      !.barred = IF app.turn = None THEN @ ELSE @ \cup {app.turn[2]}])
    /\ UNCHANGED signals

\* The device has played a segment.  What waits is played when it fills a segment,
\* or as the tail once the turn is finished.
SoundEnds ==
    /\ app.sound # None
    /\ LET e == [app EXCEPT !.sound = None, !.playing = FALSE]
       IN  \/ app.more # None /\ Do(PlayMore(e))
           \/ app.more # None /\ app.play # "finishing" /\ Do(e)
           \/ app.more = None /\ Do(CompleteIfReady(e))
    /\ UNCHANGED signals

SoundFails ==
    /\ app.sound # None
    /\ Do(Ended(CancelPlay(app)))
    /\ UNCHANGED signals

-----------------------------------------------------------------------------
(* What the runtime's worker tells it *)

Signal(kind, n, of) == [kind |-> kind, turn |-> n, of |-> of]

\* _handle_transcript: a final of the turn that is open, accepted by the ledger.
HandleFinal(s, n) ==
    IF ~s.paused /\ s.text # None /\ s.text.turn = <<s.thread, n>>
       /\ s.life = "ACTIVE" /\ s.held = n /\ s.session = s.thread
    THEN [s EXCEPT !.text.final = TRUE]
    ELSE s

\* _handle_audio: the first audio claims the voice, which must be thinking.  Audio
\* fills a segment or waits for more.
HandleAudio(s, n, of) ==
    LET o == [s EXCEPT !.op = "output", !.out = TRUE]
        a == <<s.thread, of>>
    IN  IF s.paused \/ ~Owns(s, n) THEN {s}
        ELSE IF ~s.out /\ s.voice # "THINKING" THEN {Ended(s)}
        ELSE LET c == IF s.out THEN s ELSE o
             IN  IF c.play # "open" \/ c.turn[1] # c.thread THEN {Ended(c)}
                 ELSE {[c EXCEPT !.more = a]}
                      \cup (IF c.playing THEN {} ELSE {PlaySegment(c, a)})

\* committed, or commit_failed: the snapshot takes and gives nothing any more.
Kept(s) == [s EXCEPT !.text = None]

\* Mutant of Barred: a pause bars nothing.
BarredNever(s, n) == FALSE

\* is_noncanonical_turn
Barred(s, n) == n \in s.barred

\* _handle_turn_completed: the turn is written when its transcript is final, and
\* the queue flushes.  Writing may fail.
HandleCompleted(s, n) ==
    IF ~Owns(s, n) THEN {s}
    ELSE IF Barred(s, n) THEN {Ended(s)}
    ELSE IF s.text # None /\ s.text.turn[2] = n /\ s.text.final
    THEN {FinishTurn([Kept(s) EXCEPT !.chat = Append(@, s.text.turn)]), Ended(Kept(s))}
    ELSE {FinishTurn(CancelText(s))}

\* deliver
Handled(s, m) ==
    CASE m.kind = "connected" ->
            {IF s.paused THEN Ended(s)
             ELSE IF s.active THEN BeginTurn(s) ELSE [s EXCEPT !.halt = TRUE]}
      [] m.kind = "final" -> {HandleFinal(s, m.turn)}
      [] m.kind = "audio" -> HandleAudio(s, m.turn, m.of)
      [] m.kind = "interrupted" -> {IF Owns(s, m.turn) THEN ReleaseTurn(s) ELSE s}
      [] m.kind = "completed" -> HandleCompleted(s, m.turn)
      [] m.kind = "failed" -> {Ended(s)}
      [] m.kind = "idle" -> {Gone(s)}
      [] m.kind = "finished" -> {[Gone(s) EXCEPT !.thread = None]}

Deliver ==
    /\ signals # <<>>
    /\ \E r \in Handled(app, Head(signals)) : Do(r)
    /\ signals' = Tail(signals)

-----------------------------------------------------------------------------
(* A worker: its start *)

\* Signals of a worker that is not the runtime's own are never delivered.
Emit(w, m) == IF app.thread = w THEN Append(signals, m) ELSE signals

\* _emit_failure_once; the worker is stopped too.
EmitFailure(w) ==
    IF workers[w].stop THEN signals ELSE Emit(w, Signal("failed", 0, 0))

\* The loop runs, and the controller looks whether the coordinator is free.
Boot(w) ==
    /\ workers[w].phase = "spawned"
    /\ IF app.life = "IDLE"
       THEN /\ workers' = [workers EXCEPT ![w].phase = "checked"]
            /\ UNCHANGED <<app, signals>>
       ELSE /\ workers' = [workers EXCEPT ![w] = [Doomed(@) EXCEPT !.phase = "failed"]]
            /\ signals' = EmitFailure(w)
            /\ UNCHANGED app

\* request_start: a session that is starting is taken over, any other but none
\* raises and is closed.
Reserve(w) ==
    /\ workers[w].phase = "checked"
    /\ IF app.life \in {"IDLE", "STARTING"}
       THEN /\ app' = [app EXCEPT !.life = "STARTING", !.session = w, !.held = 0,
                                  !.next = 1]
            /\ workers' = [workers EXCEPT ![w].phase = "connecting",
                                          ![w].link = "STARTING"]
            /\ UNCHANGED signals
       ELSE /\ app' = Closed(app)
            /\ workers' = [workers EXCEPT ![w] = [Doomed(@) EXCEPT !.phase = "failed"]]
            /\ signals' = EmitFailure(w)

Connected(w) ==
    /\ workers[w].phase = "connecting"
    /\ app' = Activated(app)
    /\ workers' = [workers EXCEPT ![w].phase = "live", ![w].link = "ACTIVE",
                                  ![w].own = TRUE]
    /\ signals' = Emit(w, Signal("connected", 0, 0))

\* _startup_failed, and the controller closes the session.
ConnectFails(w) ==
    /\ workers[w].phase = "connecting"
    /\ app' = Closed(app)
    /\ workers' = [workers EXCEPT ![w] = [Doomed(@) EXCEPT !.phase = "failed",
                                                         !.link = "IDLE"]]
    /\ signals' = EmitFailure(w)

-----------------------------------------------------------------------------
(* A worker: its calls and the provider's events *)

\* failed: an error of the adapter.
Fail(w) ==
    /\ app' = Broken(app)
    /\ workers' = [workers EXCEPT ![w] = [Doomed(@) EXCEPT !.own = FALSE, !.link = "ERROR"]]
    /\ signals' = EmitFailure(w)

\* An activity of the user starts: an answer that is owed is interrupted, and its
\* completion may still follow.
Hearing(r, n) ==
    IF r.server.stage = "hearing" THEN {[r EXCEPT !.server.turn = n]}
    ELSE {[r EXCEPT !.server.stage = "hearing", !.server.turn = n,
                   !.wire = @ \o x] :
             x \in IF r.server.stage = "quiet" THEN {<<>>}
                   ELSE LET i == [kind |-> "interrupted", turn |-> r.server.turn]
                        IN  {<<i>>, <<i, [kind |-> "completed", turn |-> r.server.turn]>>}}

\* accept_audio: the first frame, and one after a completed turn, begins a turn.
AcceptAudio(w, r, t) ==
    IF app.thread = w /\ app.paused THEN {r}
    ELSE IF t[1] # w THEN {}
    ELSE IF r.turn = 0 \/ r.complete
    THEN Hearing([r EXCEPT !.turn = t[2], !.complete = FALSE], t[2])
    ELSE IF t[2] = r.turn THEN Hearing(r, t[2]) ELSE {}

\* end_user_turn: the answer is owed if an activity was open.
EndTurn(r, n) ==
    IF n # r.turn THEN {}
    ELSE IF r.server.stage = "hearing" THEN {[r EXCEPT !.server.stage = "owing"]}
    ELSE {r}

\* interrupt: the old turn is quarantined and the user's activity starts.
Interrupt(r, n) ==
    IF n # r.turn THEN {}
    ELSE IF r.quarantine = n THEN {r}
    ELSE Hearing([r EXCEPT !.quarantine = n, !.complete = TRUE], r.server.turn)

\* The outcomes of a call; without one it has failed.
Called(w, r, c) ==
    IF ~r.own \/ r.link # "ACTIVE" \/ r.server.lost THEN {}
    ELSE CASE c.op = "frame" -> AcceptAudio(w, r, c.turn)
           [] c.op = "end" -> EndTurn(r, c.turn[2])
           [] c.op = "interrupt" -> Interrupt(r, c.turn[2])

\* A call of the application; any failure is told once and stops the worker.
Call(w) ==
    /\ workers[w].phase \in {"checked", "connecting", "live", "failed", "closing"}
    /\ workers[w].calls # <<>>
    /\ LET r == [workers[w] EXCEPT !.calls = Tail(@)]
           o == Called(w, r, Head(workers[w].calls))
       IN  IF o = {}
           THEN /\ workers' = [workers EXCEPT ![w] = Doomed(r)]
                /\ signals' = EmitFailure(w)
           ELSE /\ \E q \in o : workers' = [workers EXCEPT ![w] = q]
                /\ UNCHANGED signals
    /\ UNCHANGED app

\* External: the provider answers the turn it heard.
Answer(w) ==
    /\ workers[w].link = "ACTIVE" /\ ~workers[w].stop /\ ~workers[w].server.lost
    /\ Len(workers[w].wire) < MaxWire
    /\ workers[w].server.stage = "owing"
    /\ \E k \in {"audio", "final", "completed"} :
          workers' = [workers EXCEPT
              ![w].wire = Append(@, [kind |-> k, turn |-> workers[w].server.turn]),
              ![w].server.stage = IF k = "completed" THEN "quiet" ELSE @]
    /\ UNCHANGED <<app, signals>>

\* Mutant of Quarantined: the quarantine is forgotten.
NotQuarantined(r, e) == FALSE

\* While an interruption is pending only a transcript of another turn passes.
Quarantined(r, e) == r.quarantine # 0 /\ (e.kind # "final" \/ r.turn = r.quarantine)

\* _dispatch: events carry no turn and are the adapter's own.
Dispatch(w) ==
    /\ workers[w].phase = "live" /\ workers[w].link = "ACTIVE"
    /\ workers[w].wire # <<>>
    /\ Len(signals) < MaxSignals
    /\ LET r == [workers[w] EXCEPT !.wire = Tail(@)]
           e == Head(workers[w].wire)
           passes == ~Quarantined(r, e) /\ r.turn # 0
       IN  IF e.kind = "interrupted"
           THEN /\ workers' = [workers EXCEPT ![w] =
                       [r EXCEPT !.quarantine = 0,
                                 !.crossed = @ \/ r.quarantine \notin {0, e.turn}]]
                /\ signals' = IF r.quarantine = 0 THEN signals
                              ELSE Emit(w, Signal("interrupted", r.quarantine, 0))
           ELSE /\ workers' = [workers EXCEPT ![w] =
                       IF passes /\ e.kind = "completed"
                       THEN [r EXCEPT !.complete = TRUE, !.crossed = @ \/ r.turn # e.turn]
                       ELSE r]
                /\ signals' = IF passes /\ (e.kind = "completed" \/ ~app.paused)
                              THEN Emit(w, Signal(e.kind, r.turn, e.turn))
                              ELSE signals
    /\ UNCHANGED app

-----------------------------------------------------------------------------
(* A worker: its connection and its end *)

\* External: the connection is lost, or the provider says it goes away.
Lose(w) ==
    /\ app.thread = w /\ workers[w].link = "ACTIVE" /\ ~workers[w].stop
    /\ ~workers[w].server.lost
    /\ workers' = [workers EXCEPT ![w].server.lost = TRUE]
    /\ UNCHANGED <<app, signals>>

\* What was received is dispatched first; then the adapter reconnects, or fails
\* when it may not retry or has no handle.
Reconnect(w) ==
    /\ workers[w].phase = "live" /\ workers[w].link = "ACTIVE"
    /\ workers[w].server.lost /\ workers[w].wire = <<>>
    /\ \/ Fail(w)
       \/ /\ workers' = [workers EXCEPT ![w].link = "STARTING"]
          /\ UNCHANGED <<app, signals>>

\* The provider resumes with the answer it owed or without.
Resumed(v) == IF v.stage = "owing" THEN {"owing", "quiet"} ELSE {"quiet"}

\* The attempts are counted over the whole session.
MayRetry(r) == r.tries < MaxTries

\* One attempt.
Retry(w) ==
    /\ workers[w].phase = "live" /\ workers[w].link = "STARTING" /\ ~workers[w].stop
    /\ \/ /\ MayRetry(workers[w])
          /\ \/ /\ \E stage \in Resumed(workers[w].server) :
                      workers' = [workers EXCEPT ![w].tries = @ + 1, ![w].link = "ACTIVE",
                                                 ![w].own = TRUE,
                                                 ![w].server.stage = stage,
                                                 ![w].server.lost = FALSE]
                /\ app' = Activated(app)
             \/ /\ workers' = [workers EXCEPT ![w].tries = @ + 1]
                /\ UNCHANGED app
          /\ UNCHANGED signals
       \/ ~MayRetry(workers[w]) /\ Fail(w)

\* Mutant of Released: the deadline does not stop the thread.
ReleasedQuietly(r) == [r EXCEPT !.link = "IDLE", !.own = FALSE]

\* session_state_changed(IDLE): the adapter has let go.
Released(r) == [Doomed(r) EXCEPT !.link = "IDLE", !.own = FALSE]

\* _duration_guard: _stop_with_reason("session_timeout"), up to its first await.
Deadline(w) ==
    /\ workers[w].phase = "live" /\ workers[w].link \in {"ACTIVE", "STARTING"}
    /\ workers' = [workers EXCEPT ![w].link = "STOPPING", ![w].own = FALSE,
                                  ![w].wire = <<>>]
    /\ app' = Stopping(app)
    /\ UNCHANGED signals

\* end: nothing is left to do, or the session stops, whichever it is, and the
\* adapter closes.
Stop(w) ==
    /\ \/ workers[w].phase = "failed"
       \/ workers[w].phase = "live" /\ workers[w].stop
    /\ LET r == [workers[w] EXCEPT !.phase = "closing", !.own = FALSE]
       IN  IF ~workers[w].own /\ app.life = "IDLE"
           THEN workers' = [workers EXCEPT ![w] = r] /\ UNCHANGED app
           ELSE IF r.link = "IDLE"
           THEN workers' = [workers EXCEPT ![w] = r] /\ app' = Closed(app)
           ELSE /\ workers' = [workers EXCEPT ![w] = [r EXCEPT !.link = "STOPPING",
                                                               !.wire = <<>>]]
                /\ app' = Stopping(app)
    /\ UNCHANGED signals

\* The transport is closed: the session is let go, and its state is told.
Release(w) ==
    /\ workers[w].link = "STOPPING"
    /\ workers' = [workers EXCEPT ![w] = Released(@)]
    /\ app' = Closed(app)
    /\ signals' = Emit(w, Signal("idle", 0, 0))

\* The thread finishes.
Leave(w) ==
    /\ workers[w].phase = "closing" /\ workers[w].link # "STOPPING"
    /\ workers' = [workers EXCEPT ![w] = [Fresh EXCEPT !.phase = "done", !.crossed = workers[w].crossed]]
    /\ signals' = Emit(w, Signal("finished", 0, 0))
    /\ UNCHANGED app

-----------------------------------------------------------------------------
Init ==
    /\ app = [active |-> FALSE, thread |-> None, turn |-> None, out |-> FALSE,
              voice |-> "IDLE", op |-> "none", mic |-> FALSE, heard |-> FALSE,
              renew |-> FALSE, bridge |-> None, text |-> None, play |-> "off",
              playing |-> FALSE, more |-> None, sound |-> None, life |-> "IDLE",
              session |-> None, held |-> 0, next |-> 1,
              paused |-> FALSE, barred |-> {}, chat |-> <<>>, deaf |-> FALSE,
              alone |-> TRUE, raised |-> FALSE, halt |-> FALSE, sent |-> <<>>, opens |-> FALSE]
    /\ workers = [w \in Sessions |-> Fresh]
    /\ signals = <<>>

Runtime ==
    \/ Start \/ End \/ Talk \/ Frame \/ Endpoint \/ Timeout \/ Renew \/ MicFails
    \/ StopAllSpeech \/ SaveSettings \/ Suspend \/ SoundEnds \/ SoundFails
    \/ Deliver

\* What a worker's loop does by itself.
Work(w) ==
    \/ Boot(w) \/ Reserve(w) \/ Connected(w) \/ ConnectFails(w) \/ Call(w)
    \/ Dispatch(w) \/ Reconnect(w) \/ Retry(w)

\* Its end, once it is due.
Finish(w) == Stop(w) \/ Release(w) \/ Leave(w)

Next ==
    \/ Runtime
    \/ \E w \in Sessions : Work(w) \/ Deadline(w) \/ Finish(w) \/ Answer(w) \/ Lose(w)

Spec == Init /\ [][Next]_vars

\* A loop runs what is due, a connection attempt ends, and the clock reaches the
\* deadline.
FairSpec ==
    /\ Spec
    /\ \A w \in Sessions :
          /\ WF_vars(Boot(w)) /\ WF_vars(Reserve(w))
          /\ WF_vars(Connected(w) \/ ConnectFails(w))
          /\ WF_vars(Deadline(w)) /\ WF_vars(Finish(w))

-----------------------------------------------------------------------------
(* Properties *)

\* The application thread, the workers and what is underway between them have the
\* values the code gives them, and nothing a handler passes to Do is left.
TypeOK ==
    /\ app \in App /\ ~app.halt /\ app.sent = <<>> /\ ~app.opens /\ ~app.raised
    /\ workers \in [Sessions -> Worker]
    /\ signals \in Seq(Signals)

\* The worker is about to end the conversation: it is told to stop, or has said so.
Ending ==
    LET r == workers[app.thread]
    IN  \/ r.stop \/ r.phase \in {"failed", "closing", "done"} \/ r.link = "STOPPING"
        \/ \E i \in 1..Len(signals) : signals[i].kind \in {"failed", "idle", "finished"}

\* It has not begun: the worker connects, or has said that it has.
Beginning ==
    /\ app.turn = None
    /\ \/ workers[app.thread].phase \in {"spawned", "checked", "connecting"}
       \/ \E i \in 1..Len(signals) : signals[i].kind = "connected"

\* The user is heard, and the frames are the open turn's.
Heard ==
    /\ app.voice = "LISTENING" /\ (app.mic \/ app.renew)
    /\ app.bridge = app.turn /\ app.turn # None

\* What completes the turn is underway.
Underway ==
    LET r == workers[app.thread]
    IN  \/ r.server.stage = "owing" \/ r.server.lost
        \/ r.calls # <<>> \/ r.wire # <<>> \/ signals # <<>>

\* The answer may never come, and the conversation waits for its deadline or the
\* user: the worker is paused, the connection was resumed, or an interruption
\* waits for a confirmation nobody sends.
Unanswered ==
    LET r == workers[app.thread]
    IN  \/ app.paused \/ r.tries # 0
        \/ r.quarantine # 0 /\ \A i \in 1..Len(r.wire) : r.wire[i].kind # "interrupted"

\* The user has been heard, and the answer is awaited.
Awaited ==
    /\ app.turn # None /\ app.bridge = None /\ ~app.mic
    /\ app.voice # "IDLE" /\ app.play = "open"
    /\ Underway \/ Unanswered

\* A conversation moves (_begin_turn, _handle_playback_completed): while it is active
\* it begins, hears the user on the open turn, waits for an answer that is underway,
\* plays it, or ends.  Not promised after an intrusion of the rest of the application
\* (deaf), beside a worker that was left over, or once the adapter has taken one
\* turn's event for another's (crossed).
Moves ==
    app.active /\ app.alone /\ ~app.deaf /\ ~workers[app.thread].crossed =>
        Ending \/ Beginning \/ Heard \/ Awaited \/ app.sound # None

\* What is heard answers the open turn of the worker that is the runtime's own, so an
\* interrupted answer is never played on (request_talk, the quarantine of the adapter
\* and _handle_audio), unless the adapter has taken one turn's event for another's.
SoundIsOwn ==
    app.sound # None =>
        /\ app.active /\ app.sound[1] = app.thread
        /\ app.sound = app.turn \/ workers[app.thread].crossed

\* However a conversation ends, it leaves the voice free, the microphone closed and
\* no turn open (_release_turn), and a worker that is done leaves no session behind.
AllReleased ==
    /\ ~app.active =>
          /\ app.voice = "IDLE" /\ app.op = "none" /\ ~app.mic /\ app.bridge = None
          /\ app.play = "off" /\ app.turn = None /\ app.text = None
    /\ \A w \in Sessions : workers[w].phase = "done" => app.session # w

\* The chat gets the open turn, at most once, and never a turn that is barred by a
\* clarification (_handle_turn_completed, commit_completed_turn).
WrittenOnce ==
    [][app'.chat \notin {app.chat, <<>>} =>
          /\ app.turn # None /\ app.turn[2] \notin app.barred
          /\ \A i \in 1..Len(app.chat) : app.chat[i] # app.turn
          /\ app'.chat = Append(app.chat, app.turn)]_vars

\* Every worker thread ends, at the latest by the deadline of its session
\* (_duration_guard, _run_session): none is left connected, whoever forgot it.
WorkersEnd ==
    \A w \in Sessions : workers[w].phase # "new" ~> workers[w].phase = "done"
=============================================================================
