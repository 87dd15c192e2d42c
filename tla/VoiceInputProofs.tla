--------------------------- MODULE VoiceInputProofs ---------------------------
(***************************************************************************)
(* Proofs about VoiceInput, for any number of sessions and turns.          *)
(*                                                                         *)
(* The handlers are functions of the application's record.  Core holds of  *)
(* every record they pass to each other; what is true only between two     *)
(* events (Owned, Mic, Hears) is proved of the record an action leaves.    *)
(***************************************************************************)
EXTENDS VoiceInput, TLAPS

\* A turn that has been begun: no later turn has its name.
Begun(s, t) == t[1] < s.sessions \/ (t[1] = s.sessions /\ t[2] < s.next)

\* Everything that names a turn names one that has been begun.
Fresh(s) ==
    \A t \in Turns :
        \/ t \in s.cancelled \/ t \in s.late \/ s.heard[t] # 0
        \/ t = s.turn \/ t = s.recognizer
        \/ s.worker # None /\ s.worker.turn = t
        => Begun(s, t)

\* Whether the end of the recording of a turn is under way, or past.
Ending(s, t) ==
    \/ t \in s.late
    \/ s.worker # None /\ s.worker.final /\ s.worker.turn = t
    \/ s.endpoint /\ s.recognizer = t

Numbered(s) ==
    /\ s.session # 0 => s.session = s.sessions
    /\ s.turn # None => /\ s.session # 0 /\ s.turn[1] = s.session
                        /\ s.heard[s.turn] = 0
                        /\ Ending(s, s.turn) => s.state # "LISTENING"

Waiting(s) ==
    /\ s.frames \/ s.endpoint => s.recognizer # None
    /\ s.worker # None /\ s.worker.phase = "stopped" => s.worker.turn \in s.cancelled
    /\ s.worker # None /\ s.worker.phase = "transcript" => s.worker.final

Core(s) == s \in App /\ Fresh(s) /\ Numbered(s) /\ Waiting(s)

\* Between two events: a session lives for its turn or its conversation.
Owned(s) ==
    /\ s.session # 0 => s.conversation \/ s.turn # None
    /\ s.conversation => s.session # 0
    /\ s.turn # None => s.owns
    /\ s.conversation /\ s.owns => s.persistent
    /\ s.session # 0 /\ s.owns /\ s.persistent => s.conversation

Mic(s) == s.mic /\ ~s.stray => s.state = "LISTENING" /\ s.op = "input"

\* What the voice is doing, and what it may count on while it listens or
\* transcribes.
Hears(s) ==
    /\ s.op = "input" => s.state \in {"LISTENING", "THINKING"}
    /\ s.op = "output" => s.state = "SPEAKING"
    /\ s.op = "none" => s.state = "IDLE"
    /\ s.op = "input" /\ ~s.deaf => s.turn # None /\ s.turn \notin s.cancelled
    /\ s.op = "input" /\ s.state = "LISTENING" /\ ~s.deaf =>
          s.mic /\ s.recognizer = s.turn
    /\ s.op = "input" /\ s.state = "THINKING" /\ ~s.deaf =>
          \/ /\ s.worker # None /\ s.worker.final /\ s.worker.turn = s.turn
             /\ s.worker.phase \in {"running", "transcript", "failure"}
          \/ s.worker # None /\ s.endpoint /\ s.recognizer = s.turn

Good(s) == Core(s) /\ Owned(s) /\ Mic(s) /\ Hears(s)

IInv == Good(app)

-----------------------------------------------------------------------------
(* Small changes of the record *)

LEMMA TurnNames ==
    /\ \A t \in Turns : /\ t # None /\ t = <<t[1], t[2]>>
                        /\ t[1] \in Nat /\ t[1] >= 1 /\ t[1] <= MaxSessions
                        /\ t[2] \in Nat /\ t[2] >= 1 /\ t[2] <= MaxTurns
    /\ \A w \in Worker : w # None
    /\ MaxSessions \in Nat /\ MaxTurns \in Nat /\ MaxTurns >= 1
  BY BoundsAssumption, NamesAssumption DEF Turns

\* What a handler leaves alone: the history, the session and its turn, the voice,
\* the microphone.
Same(s, r) == r.heard = s.heard /\ r.sessions = s.sessions /\ r.next = s.next
SameTurn(s, r) ==
    /\ r.session = s.session /\ r.turn = s.turn /\ r.conversation = s.conversation
    /\ r.owns = s.owns /\ r.persistent = s.persistent
SameVoice(s, r) == r.state = s.state /\ r.op = s.op
SameMic(s, r) == r.mic = s.mic /\ r.stray = s.stray

\* The voice falls idle.
LEMMA IdleCore ==
    ASSUME NEW s, Core(s)
    PROVE  /\ Core(Idle(s)) /\ Same(s, Idle(s))
           /\ SameTurn(s, Idle(s)) /\ SameMic(s, Idle(s))
           /\ Idle(s).op = "none" /\ Idle(s).state = "IDLE"
           /\ Idle(s).recognizer = s.recognizer /\ Idle(s).cancelled = s.cancelled
           /\ Idle(s).work = s.work
<1>1. s \in App
  BY DEF Core
<1>2. Idle(s) \in App
  BY <1>1 DEF App, Idle
<1> QED
  BY <1>1, <1>2
  DEF Core, App, Idle, Fresh, Begun, Numbered,
      Ending, Waiting, Same, SameTurn, SameVoice, SameMic

\* The turn is cancelled, and nothing else changes.
LEMMA CancelTurnCore ==
    ASSUME NEW s, Core(s)
    PROVE  /\ Core(CancelTurn(s)) /\ Same(s, CancelTurn(s))
           /\ SameVoice(s, CancelTurn(s)) /\ SameMic(s, CancelTurn(s))
           /\ CancelTurn(s).turn = None
           /\ CancelTurn(s).session = s.session
           /\ CancelTurn(s).conversation = s.conversation
           /\ CancelTurn(s).owns = s.owns /\ CancelTurn(s).persistent = s.persistent
           /\ CancelTurn(s).work = s.work
<1>1. s \in App
  BY DEF Core
<1>2. CancelTurn(s) \in App
  BY <1>1 DEF App, CancelTurn, Only
<1> QED
  BY <1>1, <1>2, TurnNames
  DEF Core, App, CancelTurn, Only, Fresh, Begun, Numbered, Ending, Waiting, Same,
      SameVoice, SameMic

\* The session goes with its turn.
LEMMA DropCore ==
    ASSUME NEW s, Core(s)
    PROVE  /\ Core(Drop(s)) /\ Same(s, Drop(s))
           /\ SameVoice(s, Drop(s)) /\ SameMic(s, Drop(s))
           /\ Drop(s).turn = None /\ Drop(s).session = 0
           /\ Drop(s).conversation = s.conversation
           /\ Drop(s).owns = s.owns /\ Drop(s).persistent = s.persistent
           /\ Drop(s).work = s.work
<1>1. /\ Core(CancelTurn(s)) /\ Same(s, CancelTurn(s)) /\ CancelTurn(s).turn = None
      /\ SameVoice(s, CancelTurn(s)) /\ SameMic(s, CancelTurn(s))
      /\ CancelTurn(s).conversation = s.conversation
      /\ CancelTurn(s).owns = s.owns /\ CancelTurn(s).persistent = s.persistent
      /\ CancelTurn(s).work = s.work
  BY CancelTurnCore
<1>2. CancelTurn(s) \in App
  BY <1>1 DEF Core
<1>3. Drop(s) \in App
  BY <1>2, BoundsAssumption DEF App, Drop
<1> QED
  BY <1>1, <1>2, <1>3
  DEF Core, App, Drop, Fresh, Begun, Numbered, Ending, Waiting, Same, SameVoice, SameMic

LEMMA UnownedCore ==
    ASSUME NEW s, Core(s)
    PROVE  /\ Core(Unowned(s)) /\ Same(s, Unowned(s))
           /\ SameVoice(s, Unowned(s)) /\ SameMic(s, Unowned(s))
           /\ Unowned(s).session = s.session /\ Unowned(s).turn = s.turn
           /\ Unowned(s).conversation = s.conversation
           /\ Unowned(s).owns = FALSE /\ Unowned(s).persistent = FALSE
           /\ Unowned(s).work = s.work
<1>1. s \in App
  BY DEF Core
<1>2. Unowned(s) \in App
  BY <1>1 DEF App, Unowned
<1> QED
  BY <1>1, <1>2
  DEF Core, App, Unowned, Fresh, Begun, Numbered,
      Ending, Waiting, Same, SameTurn, SameVoice, SameMic

LEMMA ReleaseCore ==
    ASSUME NEW s, Core(s)
    PROVE  /\ Core(Release(s)) /\ Same(s, Release(s))
           /\ SameTurn(s, Release(s)) /\ SameVoice(s, Release(s)) /\ SameMic(s, Release(s))
           /\ Release(s).recognizer = None /\ Release(s).worker = s.worker
           /\ ~Release(s).frames /\ ~Release(s).endpoint
           /\ Release(s).work = s.work /\ Release(s).deaf = s.deaf
<1>1. s \in App
  BY DEF Core
<1>2. Release(s) \in App
  BY <1>1 DEF App, Release, Only
<1> QED
  BY <1>1, <1>2, TurnNames
  DEF Core, App, Release, Only, Fresh, Begun, Numbered,
      Ending, Waiting, Same, SameTurn, SameVoice, SameMic

LEMMA AbandonCore ==
    ASSUME NEW s, Core(s)
    PROVE  /\ Core(Abandon(s)) /\ Same(s, Abandon(s))
           /\ SameTurn(s, Abandon(s)) /\ SameVoice(s, Abandon(s)) /\ SameMic(s, Abandon(s))
           /\ Abandon(s).work = s.work
<1>1. s \in App
  BY DEF Core
<1>2. Abandon(s) \in App
  BY ZenonT(40), <1>1 DEF App, Abandon, Worker
<1> QED
  BY <1>1, <1>2, TurnNames
  DEF Core, App, Abandon, Fresh, Begun, Numbered,
      Ending, Waiting, Same, SameTurn, SameVoice, SameMic

LEMMA CloseMicCore ==
    ASSUME NEW s, Core(s)
    PROVE  /\ Core(CloseMic(s)) /\ Same(s, CloseMic(s))
           /\ SameTurn(s, CloseMic(s)) /\ SameVoice(s, CloseMic(s))
           /\ ~CloseMic(s).mic /\ ~CloseMic(s).stray
           /\ CloseMic(s).work = s.work
<1>1. s \in App
  BY DEF Core
<1>2. CloseMic(s) \in App
  BY <1>1 DEF App, CloseMic
<1> QED
  BY <1>1, <1>2
  DEF Core, App, CloseMic, Fresh, Begun, Numbered,
      Ending, Waiting, Same, SameTurn, SameVoice, SameMic

LEMMA StartPendingCore ==
    ASSUME NEW s, Core(s)
    PROVE  /\ Core(StartPending(s)) /\ Same(s, StartPending(s))
           /\ SameTurn(s, StartPending(s)) /\ SameVoice(s, StartPending(s))
           /\ SameMic(s, StartPending(s))
           /\ StartPending(s).recognizer = s.recognizer
           /\ StartPending(s).cancelled = s.cancelled
           /\ StartPending(s).deaf = s.deaf
<1>1. s \in App
  BY DEF Core
<1>a. s.recognizer # None => [turn |-> s.recognizer, final |-> s.endpoint, phase |-> "running"] \in Worker
  BY <1>1 DEF App, Worker, Phases
<1> DEFINE w == [turn |-> s.recognizer, final |-> s.endpoint, phase |-> "running"]
           r == [s EXCEPT !.frames = FALSE, !.endpoint = FALSE, !.worker = w]
<1>2. CASE s.recognizer = None \/ ~(s.frames \/ s.endpoint)
  BY <1>1, <1>2 DEF StartPending, Same, SameTurn, SameVoice, SameMic
<1>3. CASE s.recognizer # None /\ (s.frames \/ s.endpoint)
  <2>1. StartPending(s) = r
    BY <1>3 DEF StartPending
  <2>2. w \in Worker /\ w # None
    BY <1>a, <1>3, TurnNames
  <2>3. /\ w.turn = s.recognizer /\ w.final = s.endpoint /\ w.phase = "running"
    OBVIOUS
  <2> HIDE DEF w
  <2>4. r \in App /\ r.worker = w
    BY <1>1, <2>2 DEF App
  <2>5. Fresh(r)
    BY <1>1, <1>3, <2>2, <2>3, <2>4 DEF Core, App, Fresh, Begun
  <2>6. Numbered(r)
    BY <1>1, <1>3, <2>2, <2>3, <2>4 DEF Core, App, Numbered, Ending
  <2>7. Waiting(r)
    BY <1>1, <1>3, <2>2, <2>3, <2>4 DEF Core, App, Waiting
  <2> QED
    BY <1>1, <2>1, <2>4, <2>5, <2>6, <2>7
    DEF Core, App, Same, SameTurn, SameVoice, SameMic
<1> QED BY <1>2, <1>3

-----------------------------------------------------------------------------
(* The ends of a turn, a session and a conversation *)

\* Listening is cancelled: push to talk gives up its turn, and with it a session
\* that is not the conversation's.
LEMMA CancelListenCore ==
    ASSUME NEW s, Core(s)
    PROVE  LET r == CancelListen(s)
           IN  /\ Core(r) /\ Same(s, r) /\ r.conversation = s.conversation
               /\ ~r.mic /\ ~r.owns /\ r.work = s.work
               /\ r.turn \in {None, s.turn} /\ (s.owns => r.turn = None)
               /\ r.session = IF s.owns /\ ~s.persistent THEN 0 ELSE s.session
               /\ IF s.op = "input" THEN r.op = "none" /\ r.state = "IDLE"
                  ELSE SameVoice(s, r)
<1> DEFINE v == IF s.op = "input" THEN Idle(s) ELSE s
           c == CancelTurn(v)
           d == Drop(v)
           o == IF s.persistent THEN c ELSE d
           u == Unowned(o)
           p == IF ~s.owns THEN v ELSE u
           a == Abandon(p)
           e == Release(a)
           r == CloseMic(e)
<1>1. /\ Core(v) /\ Same(s, v) /\ SameTurn(s, v) /\ v.work = s.work
      /\ IF s.op = "input" THEN v.op = "none" /\ v.state = "IDLE" ELSE SameVoice(s, v)
  BY IdleCore DEF Same, SameTurn, SameVoice
<1>2. /\ Core(o) /\ Same(s, o) /\ SameVoice(v, o) /\ o.turn = None
      /\ o.conversation = s.conversation
      /\ o.session = IF s.persistent THEN s.session ELSE 0
      /\ o.work = s.work
  <2>1. CASE s.persistent
    BY <1>1, <2>1, CancelTurnCore DEF Same, SameTurn
  <2>2. CASE ~s.persistent
    BY <1>1, <2>2, DropCore DEF Same, SameTurn
  <2> QED BY <2>1, <2>2
<1> HIDE DEF o
<1>3. /\ Core(u) /\ Same(o, u) /\ SameVoice(o, u) /\ u.turn = o.turn
      /\ u.session = o.session /\ u.conversation = o.conversation /\ ~u.owns
      /\ u.work = o.work
  BY <1>2, UnownedCore
<1> HIDE DEF u, v
<1>4. /\ Core(p) /\ Same(s, p) /\ SameVoice(v, p) /\ p.conversation = s.conversation
      /\ ~p.owns /\ p.work = s.work
      /\ p.turn \in {None, s.turn} /\ (s.owns => p.turn = None)
      /\ p.session = IF s.owns /\ ~s.persistent THEN 0 ELSE s.session
  <2>1. s.owns \in BOOLEAN /\ s.persistent \in BOOLEAN
    BY DEF Core, App
  <2> QED BY <1>1, <1>2, <1>3, <2>1 DEF Same, SameTurn, SameVoice
<1> HIDE DEF p
<1>5. /\ Core(a) /\ Same(p, a) /\ SameTurn(p, a) /\ SameVoice(p, a) /\ a.work = p.work
  BY <1>4, AbandonCore
<1> HIDE DEF a
<1>6. /\ Core(e) /\ Same(a, e) /\ SameTurn(a, e) /\ SameVoice(a, e) /\ e.work = a.work
  BY <1>5, ReleaseCore
<1> HIDE DEF e
<1>7. /\ Core(r) /\ Same(e, r) /\ SameTurn(e, r) /\ SameVoice(e, r) /\ r.work = e.work
      /\ ~r.mic
  BY <1>6, CloseMicCore
<1>8. CancelListen(s) = r
  BY DEF CancelListen, p, u, o, v, a, e
<1> HIDE DEF r
<1> QED
  BY <1>1, <1>4, <1>5, <1>6, <1>7, <1>8 DEF Same, SameTurn, SameVoice

\* The conversation ends: no session, no turn, and the voice is idle unless it
\* was in an error.
LEMMA EndedCore ==
    ASSUME NEW s, Core(s)
    PROVE  LET r == Ended(s)
           IN  /\ Core(r) /\ Same(s, r)
               /\ ~r.conversation /\ r.session = 0 /\ r.turn = None
               /\ r.op = "none"
               /\ IF s.op = "none" THEN r.state = s.state ELSE r.state = "IDLE"
               /\ IF s.op = "input" THEN ~r.mic ELSE SameMic(s, r)
<1> DEFINE c == [s EXCEPT !.conversation = FALSE]
           v == CASE c.op = "input" -> CancelListen(c)
                  [] c.op = "output" -> Idle(c)
                  [] OTHER -> c
           w == [v EXCEPT !.work = Interrupted(@)]
           r == Drop(w)
<1>1. /\ Core(c) /\ Same(s, c) /\ SameVoice(s, c) /\ SameMic(s, c) /\ ~c.conversation
  <2>1. s \in App
    BY DEF Core
  <2>2. c \in App
    BY <2>1 DEF App
  <2> QED BY <2>1, <2>2
    DEF Core, App, Fresh, Begun, Numbered, Ending, Waiting, Same, SameVoice, SameMic
<1> HIDE DEF c
<1>2. c.op \in {"none", "input", "output"}
  BY <1>1 DEF Core, App
<1>3. /\ Core(v) /\ Same(s, v) /\ ~v.conversation /\ v.op = "none"
      /\ IF s.op = "none" THEN v.state = s.state ELSE v.state = "IDLE"
      /\ IF s.op = "input" THEN ~v.mic ELSE SameMic(s, v)
  <2>1. CASE c.op = "input"
    <3>1. v = CancelListen(c)
      BY <2>1
    <3> QED BY <1>1, <2>1, <3>1, CancelListenCore DEF Same, SameVoice
  <2>2. CASE c.op = "output"
    <3>1. v = Idle(c)
      BY <2>2
    <3> QED BY <1>1, <2>2, <3>1, IdleCore DEF Same, SameVoice, SameMic, SameTurn
  <2>3. CASE c.op = "none"
    <3>1. v = c
      BY <2>3
    <3> QED BY <1>1, <2>3, <3>1 DEF Same, SameVoice, SameMic
  <2> QED BY <1>2, <2>1, <2>2, <2>3
<1> HIDE DEF v
<1>4. /\ Core(w) /\ Same(v, w) /\ SameVoice(v, w) /\ SameMic(v, w)
      /\ w.conversation = v.conversation
  <2>1. v \in App
    BY <1>3 DEF Core
  <2>2. w \in App
    BY <2>1 DEF App, Interrupted
  <2> QED BY <1>3, <2>1, <2>2
    DEF Core, App, Fresh, Begun, Numbered, Ending, Waiting, Same, SameVoice, SameMic
<1> HIDE DEF w
<1>5. /\ Core(r) /\ Same(w, r) /\ SameVoice(w, r) /\ SameMic(w, r)
      /\ r.turn = None /\ r.session = 0 /\ r.conversation = w.conversation
  BY <1>4, DropCore
<1>6. Ended(s) = r
  BY DEF Ended, w, v, c
<1> HIDE DEF r
<1> QED BY <1>3, <1>4, <1>5, <1>6 DEF Same, SameVoice, SameMic

\* A session closes, with the conversation that observes it.
LEMMA CloseCore ==
    ASSUME NEW s, s \in App, Core(Drop(s))
    PROVE  LET r == Close(s)
           IN  /\ Core(r) /\ Same(s, r)
               /\ ~r.conversation /\ r.session = 0 /\ r.turn = None
               /\ \/ SameVoice(s, r) /\ SameMic(s, r) /\ (s.conversation => s.op = "none")
                  \/ /\ s.conversation /\ r.op = "none" /\ r.state = "IDLE"
                     /\ IF s.op = "input" THEN ~r.mic ELSE SameMic(s, r)
<1>1. /\ Same(s, Drop(s)) /\ SameVoice(s, Drop(s)) /\ SameMic(s, Drop(s))
      /\ Drop(s).turn = None /\ Drop(s).session = 0
      /\ Drop(s).conversation = s.conversation
  <2>1. /\ Same(s, CancelTurn(s)) /\ SameVoice(s, CancelTurn(s))
        /\ SameMic(s, CancelTurn(s)) /\ CancelTurn(s).turn = None
        /\ CancelTurn(s).conversation = s.conversation /\ CancelTurn(s) \in App
    BY DEF App, CancelTurn, Only, Same, SameVoice, SameMic
  <2> QED BY <2>1 DEF App, Drop, Same, SameVoice, SameMic
<1>2. s.conversation \in BOOLEAN /\ s.op \in {"none", "input", "output"}
  BY DEF App
<1>3. CASE s.conversation
  <2>1. Close(s) = Ended(Drop(s))
    BY <1>3 DEF Close
  <2> QED BY <1>1, <1>2, <1>3, <2>1, EndedCore DEF Same, SameVoice, SameMic
<1>4. CASE ~s.conversation
  <2>1. Close(s) = Drop(s)
    BY <1>4 DEF Close
  <2> QED BY <1>1, <1>4, <2>1
<1> QED BY <1>2, <1>3, <1>4

\* Push to talk hears of an error: its own turn ends, and nothing of another.
LEMMA VoiceErrorCore ==
    ASSUME NEW s, Core(s), Owned(s)
    PROVE  LET r == VoiceError(s)
           IN  /\ Core(r) /\ Owned(r) /\ Same(s, r)
               /\ \/ SameVoice(s, r) /\ SameMic(s, r)
                  \/ /\ s.op # "none" /\ r.op = "none" /\ r.state = "IDLE"
                     /\ IF s.op = "input" THEN ~r.mic ELSE SameMic(s, r)
<1>1. s.owns \in BOOLEAN /\ s \in App
  BY DEF Core, App
<1>2. CASE s.owns
  <2> DEFINE c == Close(s)
             r == Unowned(c)
  <2>1. Core(Drop(s))
    BY DropCore
  <2>2. /\ Core(c) /\ Same(s, c) /\ ~c.conversation /\ c.session = 0 /\ c.turn = None
        /\ \/ SameVoice(s, c) /\ SameMic(s, c)
           \/ /\ s.op # "none" /\ c.op = "none" /\ c.state = "IDLE"
              /\ IF s.op = "input" THEN ~c.mic ELSE SameMic(s, c)
    <3>1. s.op = "none" /\ s.conversation => SameVoice(s, c) /\ SameMic(s, c)
      <4>1. SUFFICES ASSUME s.op = "none", s.conversation
                     PROVE  SameVoice(s, c) /\ SameMic(s, c)
        OBVIOUS
      <4>2. c = Ended(Drop(s))
        BY <4>1 DEF Close
      <4> QED BY <2>1, <4>1, <4>2, DropCore, EndedCore DEF SameVoice, SameMic
    <3> QED BY <1>1, <2>1, <3>1, CloseCore
  <2> HIDE DEF c
  <2>3. /\ Core(r) /\ Same(c, r) /\ SameVoice(c, r) /\ SameMic(c, r)
        /\ r.session = c.session /\ r.turn = c.turn /\ r.conversation = c.conversation
    BY <2>2, UnownedCore
  <2>4. VoiceError(s) = r
    BY <1>2 DEF VoiceError, c
  <2> HIDE DEF r
  <2> QED BY <2>2, <2>3, <2>4 DEF Owned, Same, SameVoice, SameMic
<1>3. CASE ~s.owns
  BY <1>3 DEF VoiceError, Same, SameVoice, SameMic
<1> QED BY <1>1, <1>2, <1>3

\* An error leaves the voice idle, and only a microphone it counts as stray open.
LEMMA ReportErrorGood ==
    ASSUME NEW s, Core(s), Owned(s)
    PROVE  Good(ReportError(s)) /\ Same(s, ReportError(s))
<1> DEFINE open == s.stray \/ s.mic
           e == [s EXCEPT !.op = "none", !.stray = open]
           v == VoiceError(e)
           r == Idle(v)
<1>1. s \in App
  BY DEF Core
<1>2. /\ Core(e) /\ Owned(e) /\ Same(s, e) /\ e.op = "none" /\ (e.mic => e.stray)
  <2>a. open \in BOOLEAN /\ (s.mic => open)
    OBVIOUS
  <2> HIDE DEF open
  <2>1. e \in App
    BY <1>1, <2>a DEF App
  <2>2. Core(e)
    BY <1>1, <2>1 DEF Core, App, Fresh, Begun, Numbered, Ending, Waiting
  <2>3. Owned(e)
    BY <1>1 DEF App, Owned
  <2> QED BY <1>1, <2>a, <2>1, <2>2, <2>3 DEF App, Same
<1> HIDE DEF e
<1>3. /\ Core(v) /\ Owned(v) /\ Same(e, v) /\ (v.mic => v.stray)
  BY <1>2, VoiceErrorCore DEF SameMic
<1> HIDE DEF v
<1>4. /\ Core(r) /\ Same(v, r) /\ SameTurn(v, r) /\ SameMic(v, r)
      /\ r.op = "none" /\ r.state = "IDLE"
  BY <1>3, IdleCore
<1>5. ReportError(s) = r
  BY DEF ReportError, v, e, open
<1> HIDE DEF r
<1> QED BY <1>2, <1>3, <1>4, <1>5
  DEF Good, Owned, Mic, Hears, Same, SameTurn, SameMic

-----------------------------------------------------------------------------
(* Listening *)

\* The voice begins to listen where there is no turn.
LEMMA ListeningCore ==
    ASSUME NEW s, Core(s), s.turn = None
    PROVE  Core([s EXCEPT !.state = "LISTENING", !.op = "input"])
<1> DEFINE v == [s EXCEPT !.state = "LISTENING", !.op = "input"]
<1>1. s \in App
  BY DEF Core
<1>2. v \in App
  BY ZenonT(40), <1>1 DEF App
<1> QED
  BY <1>1, <1>2 DEF Core, App, Fresh, Begun, Numbered, Ending, Waiting

\* What a turn begins from: a session that was opened last and has no turn.
Ready(s) ==
    /\ s \in App /\ Fresh(s) /\ Waiting(s)
    /\ s.turn = None /\ s.session # 0 /\ s.session = s.sessions /\ s.next <= MaxTurns

\* The turn begins: its name is new, so nothing late can be taken for it.
LEMMA NewTurn ==
    ASSUME NEW f, Ready(f), NEW waits \in BOOLEAN
    PROVE  LET t == <<f.session, f.next>>
               p == [f EXCEPT !.turn = t, !.next = @ + 1,
                              !.owns = TRUE, !.persistent = waits, !.deaf = FALSE]
               b == [Release(p) EXCEPT !.recognizer = t]
           IN  /\ Core(b) /\ b.heard = f.heard /\ SameVoice(f, b) /\ SameMic(f, b)
               /\ b.turn = t /\ b.turn # None /\ b.turn \notin b.cancelled
               /\ b.recognizer = b.turn /\ ~b.deaf
               /\ b.session = f.session /\ b.session # 0
               /\ b.conversation = f.conversation
               /\ b.owns /\ b.persistent = waits
<1> DEFINE t == <<f.session, f.next>>
           p == [f EXCEPT !.turn = t, !.next = @ + 1,
                          !.owns = TRUE, !.persistent = waits, !.deaf = FALSE]
           r == Release(p)
           b == [r EXCEPT !.recognizer = t]
<1>1. t \in Turns /\ t # None /\ t[1] = f.session /\ t[2] = f.next
  BY NamesAssumption DEF Ready, App, Turns
<1>2. ~Begun(f, t)
  BY <1>1 DEF Ready, Begun, App
<1>3. /\ t \notin f.cancelled /\ t \notin f.late /\ f.heard[t] = 0
      /\ t # f.recognizer /\ ~(f.worker # None /\ f.worker.turn = t)
  BY <1>1, <1>2 DEF Ready, Fresh
<1> HIDE DEF t
<1>4. /\ p \in App /\ SameVoice(f, p) /\ SameMic(f, p) /\ p.turn = t
      /\ p.session = f.session /\ p.heard = f.heard /\ p.conversation = f.conversation
      /\ p.owns /\ p.persistent = waits /\ ~p.deaf /\ p.recognizer = f.recognizer
      /\ p.cancelled = f.cancelled /\ p.late = f.late /\ p.worker = f.worker
      /\ p.endpoint = f.endpoint /\ p.frames = f.frames
      /\ p.sessions = f.sessions /\ p.next = f.next + 1
  <2>1. f \in App /\ f.next + 1 \in 1..(MaxTurns + 1)
    BY BoundsAssumption DEF Ready, App
  <2>2. p \in App
    BY <1>1, <2>1 DEF App
  <2> QED BY <2>1, <2>2 DEF App, SameVoice, SameMic
<1> HIDE DEF p
<1>5. Core(p)
  <2>1. Fresh(p)
    BY <1>1, <1>4 DEF Ready, App, Fresh, Begun, Turns
  <2>2. Numbered(p)
    BY <1>1, <1>3, <1>4 DEF Ready, Numbered, Ending
  <2>3. Waiting(p)
    BY <1>4 DEF Ready, Waiting
  <2> QED BY <1>4, <2>1, <2>2, <2>3 DEF Core
<1>6. /\ Core(r) /\ Same(p, r) /\ SameTurn(p, r) /\ SameVoice(p, r) /\ SameMic(p, r)
      /\ ~r.endpoint /\ ~r.frames /\ r.worker = p.worker /\ r.deaf = p.deaf
  BY <1>5, ReleaseCore
<1>7. t \notin r.cancelled
  BY <1>3, <1>4 DEF App, Release, Only
<1> HIDE DEF r
<1>8. r \in App
  BY <1>6 DEF Core
<1>9. /\ b \in App /\ Same(r, b) /\ SameTurn(r, b) /\ SameVoice(r, b) /\ SameMic(r, b)
      /\ b.recognizer = t /\ b.cancelled = r.cancelled /\ b.deaf = r.deaf
      /\ b.late = r.late /\ b.worker = r.worker
      /\ b.frames = r.frames /\ b.endpoint = r.endpoint
  BY <1>1, <1>8 DEF App, Same, SameTurn, SameVoice, SameMic
<1> HIDE DEF b
<1>10. Core(b)
  <2>1. Fresh(b)
    BY <1>1, <1>4, <1>6, <1>9 DEF Core, Fresh, Begun, Same, SameTurn
  <2>2. Numbered(b)
    BY <1>6, <1>9 DEF Core, Numbered, Ending, Same, SameTurn, SameVoice
  <2>3. Waiting(b)
    BY <1>6, <1>9 DEF Core, Waiting
  <2> QED BY <1>9, <2>1, <2>2, <2>3 DEF Core
<1>11. b.session # 0
  BY <1>4, <1>6, <1>9 DEF Ready, SameTurn
<1>12. /\ Core(b) /\ b.heard = f.heard /\ SameVoice(f, b) /\ SameMic(f, b)
       /\ b.turn = t /\ b.turn # None /\ b.turn \notin b.cancelled
       /\ b.recognizer = b.turn /\ ~b.deaf
       /\ b.session = f.session /\ b.session # 0
       /\ b.conversation = f.conversation
       /\ b.owns /\ b.persistent = waits
  BY <1>1, <1>4, <1>6, <1>7, <1>9, <1>10, <1>11
  DEF Same, SameTurn, SameVoice, SameMic
<1> QED BY <1>12 DEF b, r, p, t

\* Listening begins, in the session of the conversation or in a new one.  A
\* conversation that ends for it leaves the voice idle.
LEMMA BeginGood ==
    ASSUME NEW s, Core(s), Room(s),
           s.session # 0 => s.conversation \/ s.turn # None,
           s.conversation => s.session # 0
    PROVE  LET b == Begin(s)
           IN  /\ Core(b) /\ Owned(b) /\ b.heard = s.heard
               /\ \/ b.op = "none" /\ b.state = "IDLE" /\ ~b.mic
                  \/ /\ b.op = "input" /\ b.state = "LISTENING" /\ SameMic(s, b)
                     /\ b.turn # None /\ b.turn \notin b.cancelled
                     /\ b.recognizer = b.turn /\ ~b.deaf
<1> DEFINE v == [s EXCEPT !.state = "LISTENING", !.op = "input"]
           n == s.sessions + 1
           g == Close(v)
           o == [g EXCEPT !.session = n, !.sessions = n, !.next = 1]
           f == IF Waits(s) THEN v ELSE o
           t == <<f.session, f.next>>
           p == [f EXCEPT !.turn = t, !.next = @ + 1,
                          !.owns = TRUE, !.persistent = Waits(s), !.deaf = FALSE]
           b == [Release(p) EXCEPT !.recognizer = t]
<1>1. /\ s \in App /\ s.sessions \in Nat /\ s.next \in Nat /\ s.next >= 1
      /\ s.conversation \in BOOLEAN
  BY BoundsAssumption DEF Core, App
<1>2. /\ v \in App /\ v.op = "input" /\ v.state = "LISTENING" /\ SameTurn(s, v)
      /\ SameMic(s, v) /\ Same(s, v)
  BY <1>1 DEF App, SameTurn, SameMic, Same
<1>3. Core(Drop(v))
  <2> DEFINE d == Drop(s)
             e == [d EXCEPT !.state = "LISTENING", !.op = "input"]
  <2>1. Core(d) /\ d.turn = None
    BY DropCore
  <2>2. Core(e)
    BY <2>1, ListeningCore
  <2>3. Drop(v) = e
    BY <1>1 DEF App, Drop, CancelTurn, Only
  <2> QED BY <2>2, <2>3
<1>4. /\ Ready(f) /\ f.heard = s.heard
      /\ (Waits(s) /\ s.conversation /\ f.conversation) \/ (~Waits(s) /\ ~f.conversation)
      /\ \/ f.op = "none" /\ f.state = "IDLE" /\ ~f.mic
         \/ f.op = "input" /\ f.state = "LISTENING" /\ SameMic(s, f)
  <2>1. CASE Waits(s)
    <3>1. f = v
      BY <2>1
    <3>2. Core(v)
      BY <2>1, ListeningCore DEF Waits
    <3>3. Ready(f)
      BY <1>1, <1>2, <2>1, <3>1, <3>2
      DEF Core, Ready, Waits, Room, Numbered, Same, SameTurn
    <3> QED BY <1>2, <2>1, <3>1, <3>3 DEF Waits, Same, SameTurn
  <2>2. CASE ~Waits(s)
    <3>1. f = o
      BY <2>2
    <3>2. /\ Core(g) /\ Same(v, g) /\ ~g.conversation /\ g.turn = None
          /\ \/ SameVoice(v, g) /\ SameMic(v, g)
             \/ g.op = "none" /\ g.state = "IDLE" /\ ~g.mic
      BY <1>2, <1>3, CloseCore
    <3> HIDE DEF g
    <3>3. g \in App /\ n \in 1..MaxSessions /\ s.sessions < n
      BY <1>1, <2>2, <3>2, BoundsAssumption DEF Core, Room
    <3>4. /\ o \in App /\ o.session = n /\ o.sessions = n /\ o.next = 1
          /\ o.turn = None /\ o.heard = g.heard /\ o.conversation = g.conversation
          /\ SameVoice(g, o) /\ SameMic(g, o)
          /\ o.cancelled = g.cancelled /\ o.late = g.late /\ o.worker = g.worker
          /\ o.recognizer = g.recognizer /\ o.frames = g.frames
          /\ o.endpoint = g.endpoint
      <4> HIDE DEF n
      <4>1. n \in 0..MaxSessions /\ 1 \in 1..(MaxTurns + 1)
        BY <3>3, BoundsAssumption
      <4>2. o \in App
        BY <3>3, <4>1 DEF App
      <4> QED BY <3>2, <3>3, <4>2 DEF App, SameVoice, SameMic
    <3> HIDE DEF o
    <3>5. Fresh(o)
      BY <1>1, <1>2, <3>2, <3>3, <3>4, TurnNames DEF Core, Fresh, Begun, Same
    <3>6. Waiting(o)
      BY <3>2, <3>4 DEF Core, Waiting
    <3>7. Ready(o)
      BY <3>3, <3>4, <3>5, <3>6, BoundsAssumption DEF Ready
    <3> QED
      BY <1>2, <2>2, <3>1, <3>2, <3>4, <3>7
      DEF Same, SameTurn, SameVoice, SameMic
  <2> QED BY <2>1, <2>2
<1> HIDE DEF f
<1>5. Waits(s) \in BOOLEAN
  BY DEF Waits
<1>6. /\ Core(b) /\ b.heard = f.heard /\ SameVoice(f, b) /\ SameMic(f, b)
      /\ b.turn = t /\ b.turn # None /\ b.turn \notin b.cancelled
      /\ b.recognizer = b.turn /\ ~b.deaf
      /\ b.session = f.session /\ b.session # 0
      /\ b.conversation = f.conversation
      /\ b.owns /\ b.persistent = Waits(s)
  BY <1>4, <1>5, NewTurn
<1>7. Begin(s) = b
  BY DEF Begin, f, o, g, n, v
<1> HIDE DEF b
<1>8. Owned(b)
  BY <1>4, <1>6 DEF Owned
<1> QED BY <1>4, <1>6, <1>7, <1>8 DEF SameVoice, SameMic

\* The microphone comes last: it is open, or it opens, or that is an error.
LEMMA ListenGood ==
    ASSUME NEW s, Core(s), Listen(s), s.heard = app.heard,
           s.session # 0 => s.conversation \/ s.turn # None,
           s.conversation => s.session # 0
    PROVE  IInv' /\ app'.heard = app.heard
<1> DEFINE b == Begin(s)
           m == [b EXCEPT !.mic = TRUE]
<1>1. /\ Core(b) /\ Owned(b) /\ b.heard = s.heard
      /\ \/ b.op = "none" /\ b.state = "IDLE" /\ ~b.mic
         \/ /\ b.op = "input" /\ b.state = "LISTENING"
            /\ b.turn # None /\ b.turn \notin b.cancelled
            /\ b.recognizer = b.turn /\ ~b.deaf
  BY BeginGood DEF Listen
<1>2. IF b.state # "LISTENING" \/ b.mic THEN app' = b
      ELSE app' = m \/ app' = ReportError(b)
  BY DEF Listen
<1> HIDE DEF b
<1>3. CASE b.state # "LISTENING" \/ b.mic
  <2>1. app' = b
    BY <1>2, <1>3
  <2> QED BY <1>1, <1>3, <2>1 DEF IInv, Good, Mic, Hears
<1>4. CASE b.state = "LISTENING" /\ ~b.mic /\ app' = m
  <2>1. b \in App
    BY <1>1 DEF Core
  <2>2. /\ m \in App /\ SameTurn(b, m) /\ SameVoice(b, m) /\ m.mic /\ m.heard = b.heard
        /\ m.cancelled = b.cancelled /\ m.recognizer = b.recognizer
    BY <2>1 DEF App, SameTurn, SameVoice
  <2>3. Core(m)
    BY <1>1, <2>1, <2>2 DEF Core, App, Fresh, Begun, Numbered, Ending, Waiting
  <2>4. app' = m
    BY <1>4
  <2> HIDE DEF m
  <2> QED
    BY <1>1, <1>4, <2>2, <2>3, <2>4
    DEF IInv, Good, Owned, Mic, Hears, SameTurn, SameVoice
<1>5. CASE app' = ReportError(b)
  BY <1>1, <1>5, ReportErrorGood DEF IInv, Same
<1> QED BY <1>2, <1>3, <1>4, <1>5

\* Audio is queued behind a worker, or given to a new one.
LEMMA EnqueueCore ==
    ASSUME NEW s, Core(s), NEW endpoint \in BOOLEAN,
           endpoint => s.state # "LISTENING"
    PROVE  LET r == Enqueue(s, endpoint)
           IN  /\ Core(r) /\ Same(s, r) /\ SameTurn(s, r) /\ SameVoice(s, r)
               /\ SameMic(s, r)
               /\ r.cancelled = s.cancelled /\ r.recognizer = s.recognizer
               /\ r.deaf = s.deaf
               /\ s.recognizer # None /\ endpoint =>
                    /\ r.worker # None
                    /\ \/ r.endpoint
                       \/ /\ r.worker.final /\ r.worker.turn = s.recognizer
                          /\ r.worker.phase = "running"
<1> DEFINE k == s.endpoint \/ endpoint
           q == [s EXCEPT !.frames = TRUE, !.endpoint = k]
<1>1. s \in App
  BY DEF Core
<1>2. k \in BOOLEAN /\ (endpoint => k) /\ (~endpoint => k = s.endpoint)
  BY <1>1 DEF App
<1> HIDE DEF k
<1>3. CASE s.recognizer = None
  BY <1>3 DEF Enqueue, Same, SameTurn, SameVoice, SameMic
<1>4. CASE s.recognizer # None
  <2>1. /\ q \in App /\ Same(s, q) /\ SameTurn(s, q) /\ SameVoice(s, q)
        /\ SameMic(s, q)
        /\ q.cancelled = s.cancelled /\ q.recognizer = s.recognizer
        /\ q.deaf = s.deaf /\ q.worker = s.worker /\ q.frames /\ q.endpoint = k
        /\ q.late = s.late
    BY <1>1, <1>2 DEF App, Same, SameTurn, SameVoice, SameMic
  <2> HIDE DEF q
  <2>2. Fresh(q)
    BY <2>1 DEF Core, Fresh, Begun, Same, SameTurn
  <2>3. Numbered(q)
    BY <1>2, <2>1 DEF Core, Numbered, Ending, Same, SameTurn, SameVoice
  <2>4. Core(q)
    BY <1>4, <2>1, <2>2, <2>3 DEF Core, Waiting
  <2>5. CASE s.worker = None
    <3>1. Enqueue(s, endpoint) = StartPending(q)
      BY <1>4, <2>5 DEF Enqueue, q, k
    <3>2. /\ Core(StartPending(q)) /\ Same(q, StartPending(q))
          /\ SameTurn(q, StartPending(q)) /\ SameVoice(q, StartPending(q))
          /\ SameMic(q, StartPending(q))
          /\ StartPending(q).recognizer = q.recognizer
          /\ StartPending(q).cancelled = q.cancelled
          /\ StartPending(q).deaf = q.deaf
      BY <2>4, StartPendingCore
    <3>3. LET w == StartPending(q).worker
          IN  /\ w = [turn |-> q.recognizer, final |-> q.endpoint, phase |-> "running"]
              /\ q.recognizer # None
      BY <1>4, <2>1 DEF StartPending, App
    <3>4. /\ StartPending(q).worker \in Worker /\ StartPending(q).worker # None
      BY <2>1, <3>3, TurnNames DEF App, Worker, Phases
    <3> QED
      BY <1>2, <2>1, <3>1, <3>2, <3>3, <3>4
      DEF Same, SameTurn, SameVoice, SameMic
  <2>6. CASE s.worker # None
    <3>1. Enqueue(s, endpoint) = q
      BY <1>4, <2>6 DEF Enqueue, q, k
    <3> QED
      BY <1>2, <2>1, <2>4, <2>6, <3>1 DEF Same, SameTurn, SameVoice, SameMic
  <2> QED BY <2>5, <2>6
<1> QED BY <1>3, <1>4

\* What the chat, the actions and the tools do is nothing to the voice.
LEMMA WorkGood ==
    ASSUME NEW s, NEW x \in {"none", "busy", "cancelled"}
    PROVE  /\ Core(s) => Core([s EXCEPT !.work = x])
           /\ Good(s) => Good([s EXCEPT !.work = x])
           /\ s \in App => LET r == [s EXCEPT !.work = x]
                           IN  /\ Same(s, r) /\ SameTurn(s, r) /\ SameVoice(s, r)
                               /\ SameMic(s, r)
<1> DEFINE r == [s EXCEPT !.work = x]
<1>1. SUFFICES ASSUME s \in App
               PROVE  /\ Core(s) => Core(r)
                      /\ Good(s) => Good(r)
                      /\ Same(s, r) /\ SameTurn(s, r) /\ SameVoice(s, r) /\ SameMic(s, r)
  BY DEF Core, Good
<1>2. r \in App
  BY <1>1 DEF App
<1>3. /\ Same(s, r) /\ SameTurn(s, r) /\ SameVoice(s, r) /\ SameMic(s, r)
      /\ r.cancelled = s.cancelled /\ r.recognizer = s.recognizer
      /\ r.worker = s.worker /\ r.endpoint = s.endpoint /\ r.frames = s.frames
      /\ r.late = s.late /\ r.deaf = s.deaf
  BY <1>1 DEF App, Same, SameTurn, SameVoice, SameMic
<1> HIDE DEF r
<1>4. Core(s) => Core(r)
  BY <1>2, <1>3
  DEF Core, Fresh, Begun, Numbered, Ending, Waiting, Same, SameTurn, SameVoice
<1>5. Good(s) => Good(r)
  BY <1>3, <1>4 DEF Good, Owned, Mic, Hears, SameTurn, SameVoice, SameMic
<1> QED BY <1>3, <1>4, <1>5

\* A transcript ends its turn or is not heard at all.
LEMMA TranscriptGood ==
    ASSUME NEW s, NEW t \in Turns, Core(s), Owned(s), Mic(s),
           s.op # "input" \/ ~Accepts(s, t) => Hears(s),
           Accepts(s, t) => s.state # "LISTENING",
           NEW r \in Transcript(s, t)
    PROVE  /\ Good(r)
           /\ \/ r.heard = s.heard
              \/ /\ Accepts(s, t) /\ s.heard[t] = 0
                 /\ r.heard = [s.heard EXCEPT ![t] = @ + 1]
<1> DEFINE i == Idle(s)
           h == [i EXCEPT !.heard[t] = @ + 1]
           c == [h EXCEPT !.turn = None]
           d == IF s.persistent THEN c ELSE Close(c)
           p == Complete(h)
           w == IF p.work = "none" THEN "busy" ELSE p.work
<1>1. s \in App
  BY DEF Core
<1>2. CASE ~Accepts(s, t)
  BY <1>2 DEF Transcript, Good
<1>3. CASE Accepts(s, t) /\ s.op # "input"
  <2>1. r = VoiceError(s)
    BY <1>3 DEF Transcript
  <2>2. /\ Core(r) /\ Owned(r) /\ r.heard = s.heard
        /\ \/ SameVoice(s, r) /\ SameMic(s, r)
           \/ r.op = "none" /\ r.state = "IDLE" /\ SameMic(s, r)
    BY <1>3, <2>1, VoiceErrorCore DEF Same
  <2> QED
    BY <1>3, <2>2 DEF Good, Mic, Hears, SameVoice, SameMic
<1>4. CASE Accepts(s, t) /\ s.op = "input"
  <2>1. /\ s.turn = t /\ s.session # 0 /\ s.owns /\ s.heard[t] = 0 /\ t # None
        /\ Begun(s, t) /\ (s.mic => s.stray)
    BY <1>1, <1>4, TurnNames
    DEF Accepts, Core, Numbered, Fresh, Owned, Mic
  <2>2. /\ Core(i) /\ Same(s, i) /\ SameTurn(s, i) /\ SameMic(s, i)
        /\ i.op = "none" /\ i.state = "IDLE"
    BY IdleCore
  <2> HIDE DEF i
  <2>3. /\ i \in App /\ h \in App /\ c \in App
        /\ h.heard = [s.heard EXCEPT ![t] = @ + 1] /\ c.heard = h.heard
        /\ c.sessions = i.sessions /\ c.next = i.next
        /\ c.session = s.session /\ c.conversation = s.conversation
        /\ h.owns = s.owns /\ h.persistent = s.persistent
        /\ c.turn = None /\ SameVoice(i, c) /\ SameMic(s, c)
        /\ c.cancelled = i.cancelled /\ c.late = i.late /\ c.worker = i.worker
        /\ c.recognizer = i.recognizer /\ c.endpoint = i.endpoint
        /\ c.frames = i.frames
    <3>1. i \in App /\ i.heard = s.heard
      BY <2>2 DEF Core, Same
    <3>2. h \in App
      BY <3>1 DEF App
    <3>3. c \in App
      BY <3>2 DEF App
    <3>4. /\ h.heard = [i.heard EXCEPT ![t] = @ + 1]
          /\ SameTurn(i, h) /\ SameVoice(i, h) /\ SameMic(i, h)
          /\ h.sessions = i.sessions /\ h.next = i.next
          /\ h.cancelled = i.cancelled /\ h.late = i.late /\ h.worker = i.worker
          /\ h.recognizer = i.recognizer /\ h.endpoint = i.endpoint
          /\ h.frames = i.frames
      BY <3>1 DEF App, SameTurn, SameVoice, SameMic
    <3> HIDE DEF h
    <3>5. /\ c.turn = None /\ SameVoice(h, c) /\ SameMic(h, c) /\ Same(h, c)
          /\ c.session = h.session /\ c.conversation = h.conversation
          /\ c.cancelled = h.cancelled /\ c.late = h.late /\ c.worker = h.worker
          /\ c.recognizer = h.recognizer /\ c.endpoint = h.endpoint
          /\ c.frames = h.frames
      BY <3>2 DEF App, SameVoice, SameMic, Same
    <3> QED BY <2>2, <3>1, <3>2, <3>3, <3>4, <3>5 DEF Same, SameTurn, SameVoice, SameMic
  <2> HIDE DEF c
  <2>4. Core(c)
    <3>1. Fresh(c)
      BY <1>1, <2>1, <2>2, <2>3, TurnNames DEF App, Core, Fresh, Begun, Same
    <3>2. Numbered(c)
      BY <2>2, <2>3 DEF Core, Numbered, SameTurn
    <3>3. Waiting(c)
      BY <2>2, <2>3 DEF Core, Waiting
    <3> QED BY <2>3, <3>1, <3>2, <3>3 DEF Core
  <2>5. /\ Core(d) /\ d.heard = c.heard /\ d.turn = None /\ SameVoice(c, d) /\ SameMic(c, d)
        /\ d.session # 0 => d.conversation
        /\ d.conversation => d.session # 0
    <3>1. CASE s.persistent
      BY <2>1, <2>3, <2>4, <3>1
      DEF Owned, SameVoice, SameMic
    <3>2. CASE ~s.persistent
      <4>1. ~c.conversation
        BY <2>1, <2>3, <3>2 DEF Owned
      <4>2. d = Drop(c)
        BY <3>2, <4>1 DEF Close
      <4> QED BY <2>4, <4>1, <4>2, DropCore DEF Same
    <3> QED BY <3>1, <3>2
  <2>6. p = Unowned(d)
    BY <2>1, <2>3 DEF Complete, d, c
  <2> HIDE DEF d, p
  <2>7. /\ Core(p) /\ Same(d, p) /\ SameVoice(d, p) /\ SameMic(d, p)
        /\ p.session = d.session /\ p.turn = d.turn /\ p.conversation = d.conversation
        /\ ~p.owns
    BY <2>5, <2>6, UnownedCore
  <2>8. Good(p) /\ p.heard = [s.heard EXCEPT ![t] = @ + 1]
    BY <2>1, <2>2, <2>3, <2>5, <2>7
    DEF Good, Owned, Mic, Hears, Same, SameVoice, SameMic
  <2>9. p \in App /\ w \in {"none", "busy", "cancelled"}
    BY <2>7 DEF Core, App
  <2>10. r = p \/ r = [p EXCEPT !.work = w]
    BY <1>4 DEF Transcript, p, h, i
  <2> HIDE DEF w
  <2>11. Good(r) /\ r.heard = p.heard
    <3>1. LET q == [p EXCEPT !.work = w] IN Good(q) /\ Same(p, q)
      BY <2>8, <2>9, WorkGood
    <3> QED BY <2>8, <2>10, <3>1 DEF Same
  <2> QED BY <1>4, <2>1, <2>8, <2>11
<1> QED BY <1>2, <1>3, <1>4

-----------------------------------------------------------------------------
(* The actions *)

\* The invariant is kept, and nothing is heard but the active turn, once.
Kept ==
    /\ IInv'
    /\ \/ app'.heard = app.heard
       \/ \E t \in Turns : /\ app.turn = t /\ t \notin app.cancelled
                           /\ app.heard[t] = 0
                           /\ app'.heard = [app.heard EXCEPT ![t] = @ + 1]

\* Nothing speaks or listens where the voice is idle.
LEMMA IdleGood ==
    ASSUME NEW s, Good(s), s.op # "input"
    PROVE  Good(Idle(s)) /\ Idle(s).heard = s.heard
<1>1. /\ Core(Idle(s)) /\ Same(s, Idle(s)) /\ SameTurn(s, Idle(s))
      /\ SameMic(s, Idle(s))
      /\ Idle(s).op = "none" /\ Idle(s).state = "IDLE"
  BY IdleCore DEF Good
<1> QED
  BY <1>1 DEF Good, Owned, Mic, Hears, Same, SameTurn, SameMic

LEMMA VoiceErrorGood ==
    ASSUME NEW s, Good(s), s.op # "input"
    PROVE  Good(VoiceError(s)) /\ VoiceError(s).heard = s.heard
<1>1. LET r == VoiceError(s)
      IN  /\ Core(r) /\ Owned(r) /\ Same(s, r)
          /\ \/ SameVoice(s, r) /\ SameMic(s, r)
             \/ r.op = "none" /\ r.state = "IDLE" /\ SameMic(s, r)
  BY VoiceErrorCore DEF Good
<1> QED BY <1>1 DEF Good, Mic, Hears, Same, SameVoice, SameMic

LEMMA EndedGood ==
    ASSUME NEW s, Good(s)
    PROVE  Good(Ended(s)) /\ Ended(s).heard = s.heard
<1>1. LET r == Ended(s)
      IN  /\ Core(r) /\ Same(s, r)
          /\ ~r.conversation /\ r.session = 0 /\ r.turn = None /\ r.op = "none"
          /\ IF s.op = "none" THEN r.state = s.state ELSE r.state = "IDLE"
          /\ IF s.op = "input" THEN ~r.mic ELSE SameMic(s, r)
  BY EndedCore DEF Good
<1> QED BY <1>1 DEF Good, Owned, Mic, Hears, Same, SameMic

LEMMA ResumeGood ==
    ASSUME NEW s, Good(s), Resume(s), s.heard = app.heard
    PROVE  IInv' /\ app'.heard = app.heard
<1>1. app' = s \/ app' = Ended(s) \/ Listen(s)
  BY DEF Resume
<1>2. CASE app' = s
  BY <1>2 DEF IInv
<1>3. CASE app' = Ended(s)
  BY <1>3, EndedGood DEF IInv
<1>4. CASE Listen(s)
  <2>1. Core(s) /\ Owned(s)
    BY DEF Good
  <2> QED BY <1>4, <2>1, ListenGood DEF Owned
<1> QED BY <1>1, <1>2, <1>3, <1>4

LEMMA TalkStep ==
    ASSUME IInv, Talk
    PROVE  Kept
<1> DEFINE i == Idle(app)
           x == Interrupted(i.work)
           s == [i EXCEPT !.work = x]
<1>1. Good(app) /\ Core(app) /\ app.op # "input"
  BY DEF IInv, Good, Hears, Talk
<1>2. CASE app.input /\ app.talk
  <2>1. Good(i) /\ i.heard = app.heard /\ i \in App
    BY <1>1, IdleGood DEF Good, Core
  <2>2. x \in {"none", "busy", "cancelled"}
    BY DEF Interrupted
  <2>3. Listen(s)
    BY <1>2 DEF Talk
  <2> HIDE DEF i, x
  <2>4. Good(s) /\ s.heard = app.heard
    BY <2>1, <2>2, WorkGood DEF Same
  <2> HIDE DEF s
  <2> QED BY <2>3, <2>4, ListenGood DEF Good, Owned, Kept
<1>3. CASE ~(app.input /\ app.talk)
  BY <1>1, <1>3, VoiceErrorGood DEF Talk, Kept, IInv
<1> QED BY <1>2, <1>3

LEMMA StopStep ==
    ASSUME IInv, Stop
    PROVE  Kept
<1> DEFINE t == [app EXCEPT !.state = "THINKING"]
           c == CloseMic(t)
           e == Enqueue(c, TRUE)
<1>1. /\ Core(app) /\ app \in App /\ Owned(app) /\ app.state = "LISTENING" /\ app.op = "input"
      /\ ~app.deaf => app.turn # None /\ app.turn \notin app.cancelled /\ app.mic
                      /\ app.recognizer = app.turn
  BY DEF IInv, Good, Core, App, Hears, Stop
<1>2. /\ Core(t) /\ Same(app, t) /\ SameTurn(app, t) /\ SameMic(app, t)
      /\ t.state = "THINKING" /\ t.op = "input" /\ t.deaf = app.deaf
      /\ t.recognizer = app.recognizer /\ t.cancelled = app.cancelled
  <2>1. t \in App
    BY <1>1 DEF App
  <2> QED
    BY <1>1, <2>1
    DEF Core, App, Fresh, Begun, Numbered, Ending, Waiting, Same, SameTurn, SameMic
<1>3. IF app.mic THEN app' = e \/ app' = ReportError(c) ELSE app' = t
  BY DEF Stop
<1>4. /\ Core(c) /\ Same(t, c) /\ SameTurn(t, c) /\ SameVoice(t, c) /\ ~c.mic
      /\ c.deaf = t.deaf /\ c.recognizer = t.recognizer /\ c.cancelled = t.cancelled
  <2>1. t \in App
    BY <1>2 DEF Core
  <2> HIDE DEF t
  <2>2. c.deaf = t.deaf /\ c.recognizer = t.recognizer /\ c.cancelled = t.cancelled
    BY <2>1 DEF App, CloseMic
  <2> QED BY <1>2, <2>2, CloseMicCore
<1> HIDE DEF t, c
<1>5. CASE app.mic /\ app' = e
  <2>1. /\ Core(e) /\ Same(c, e) /\ SameTurn(c, e) /\ SameVoice(c, e)
        /\ SameMic(c, e)
        /\ e.cancelled = c.cancelled /\ e.recognizer = c.recognizer
        /\ e.deaf = c.deaf
        /\ c.recognizer # None =>
             /\ e.worker # None
             /\ \/ e.endpoint
                \/ /\ e.worker.final /\ e.worker.turn = c.recognizer
                   /\ e.worker.phase = "running"
    BY <1>2, <1>4, EnqueueCore DEF SameVoice
  <2> HIDE DEF e
  <2>2. Owned(e) /\ Mic(e)
    BY <1>1, <1>2, <1>4, <2>1 DEF Owned, Mic, SameTurn, SameMic
  <2>3. Hears(e)
    BY <1>1, <1>2, <1>4, <2>1 DEF Hears, SameTurn, SameVoice
  <2> QED
    BY <1>2, <1>4, <1>5, <2>1, <2>2, <2>3 DEF Kept, IInv, Good, Same
<1>6. CASE app.mic /\ app' = ReportError(c)
  <2>1. Owned(c)
    BY <1>1, <1>2, <1>4 DEF Owned, SameTurn
  <2> QED BY <1>2, <1>4, <1>6, <2>1, ReportErrorGood DEF Kept, IInv, Same
<1>7. CASE ~app.mic /\ app' = t
  <2>1. Owned(t) /\ Mic(t) /\ Hears(t)
    BY <1>1, <1>2, <1>7 DEF Owned, Mic, Hears, SameTurn, SameMic
  <2> QED BY <1>2, <1>7, <2>1 DEF Kept, IInv, Good, Same
<1>8. app.mic \in BOOLEAN
  BY <1>1 DEF App
<1> QED BY <1>3, <1>5, <1>6, <1>7, <1>8

LEMMA SnapshotStep ==
    ASSUME IInv, Snapshot
    PROVE  Kept
<1> DEFINE e == Enqueue(app, FALSE)
<1>1. /\ Good(app) /\ Core(app) /\ app' = e /\ app.state = "LISTENING" /\ app.op = "input"
  BY DEF IInv, Good, Core, App, Hears, Snapshot
<1>2. /\ Core(e) /\ Same(app, e) /\ SameTurn(app, e) /\ SameVoice(app, e)
      /\ SameMic(app, e)
      /\ e.cancelled = app.cancelled /\ e.recognizer = app.recognizer
      /\ e.deaf = app.deaf
  BY <1>1, EnqueueCore
<1> HIDE DEF e
<1> QED
  BY <1>1, <1>2
  DEF Kept, IInv, Good, Owned, Mic, Hears, Same, SameTurn, SameVoice, SameMic

LEMMA CaptureEndsStep ==
    ASSUME IInv, CaptureEnds
    PROVE  Kept
<1> DEFINE c == CloseMic(app)
<1>1. Core(app) /\ Owned(app) /\ app' = ReportError(c)
  BY DEF IInv, Good, CaptureEnds
<1>2. Core(c) /\ Same(app, c) /\ Owned(c)
  BY <1>1, CloseMicCore DEF Owned, SameTurn
<1> QED BY <1>1, <1>2, ReportErrorGood DEF Kept, IInv, Same

LEMMA CancelTranscriptionStep ==
    ASSUME IInv, CancelTranscription
    PROVE  Kept
<1> DEFINE r == CancelListen(app)
<1>1. Core(app) /\ Owned(app) /\ app.op = "input" /\ app' = r
  BY DEF IInv, Good, CancelTranscription
<1>2. /\ Core(r) /\ Same(app, r) /\ r.conversation = app.conversation
      /\ ~r.mic /\ ~r.owns
      /\ r.turn \in {None, app.turn} /\ (app.owns => r.turn = None)
      /\ r.session = IF app.owns /\ ~app.persistent THEN 0 ELSE app.session
      /\ r.op = "none" /\ r.state = "IDLE"
  BY <1>1, CancelListenCore
<1> HIDE DEF r
<1>3. Owned(r)
  BY <1>1, <1>2 DEF Owned
<1> QED BY <1>1, <1>2, <1>3 DEF Kept, IInv, Good, Mic, Hears, Same

\* A worker goes on to its next phase.
LEMMA PhaseCore ==
    ASSUME NEW s, Core(s), s.worker # None, NEW x \in Phases,
           x = "stopped" => s.worker.turn \in s.cancelled,
           x = "transcript" => s.worker.final
    PROVE  LET r == [s EXCEPT !.worker.phase = x]
           IN  /\ Core(r) /\ Same(s, r) /\ SameTurn(s, r) /\ SameVoice(s, r)
               /\ SameMic(s, r) /\ r.cancelled = s.cancelled /\ r.deaf = s.deaf
               /\ r.recognizer = s.recognizer /\ r.frames = s.frames
               /\ r.endpoint = s.endpoint /\ r.late = s.late
               /\ r.worker # None /\ r.worker.turn = s.worker.turn
               /\ r.worker.final = s.worker.final /\ r.worker.phase = x
<1> DEFINE w == [s.worker EXCEPT !.phase = x]
           r == [s EXCEPT !.worker = w]
<1>1. s \in App /\ s.worker \in Worker
  BY DEF Core, App
<1>2. /\ w \in Worker /\ w # None /\ w.turn = s.worker.turn
      /\ w.final = s.worker.final /\ w.phase = x
  BY <1>1, TurnNames DEF Worker
<1>3. [s EXCEPT !.worker.phase = x] = r
  BY <1>1 DEF App
<1> HIDE DEF w
<1>4. /\ r \in App /\ Same(s, r) /\ SameTurn(s, r) /\ SameVoice(s, r)
      /\ SameMic(s, r) /\ r.cancelled = s.cancelled /\ r.deaf = s.deaf
      /\ r.recognizer = s.recognizer /\ r.frames = s.frames
      /\ r.endpoint = s.endpoint /\ r.late = s.late /\ r.worker = w
  BY <1>1, <1>2 DEF App, Same, SameTurn, SameVoice, SameMic
<1> HIDE DEF r
<1>5. Fresh(r)
  BY <1>2, <1>4 DEF Core, Fresh, Begun, Same, SameTurn
<1>6. Numbered(r)
  BY <1>2, <1>4 DEF Core, Numbered, Ending, Same, SameTurn, SameVoice
<1>7. Waiting(r)
  BY <1>2, <1>4 DEF Core, Waiting
<1> QED BY <1>2, <1>3, <1>4, <1>5, <1>6, <1>7 DEF Core

\* A worker that has posted only has to end.
LEMMA FinishingCore ==
    ASSUME NEW s, Core(s), s.worker # None
    PROVE  LET r == Finishing(s)
           IN  /\ Core(r) /\ Same(s, r) /\ SameTurn(s, r) /\ SameVoice(s, r)
               /\ SameMic(s, r) /\ r.cancelled = s.cancelled /\ r.deaf = s.deaf
               /\ r.recognizer = s.recognizer /\ r.frames = s.frames
               /\ r.endpoint = s.endpoint /\ r.late = s.late
               /\ r.worker # None /\ r.worker.turn = s.worker.turn
               /\ r.worker.final = s.worker.final
<1>1. "finishing" \in Phases /\ "finishing" # "stopped" /\ "finishing" # "transcript"
  BY DEF Phases
<1>2. Finishing(s) = [s EXCEPT !.worker.phase = "finishing"]
  BY DEF Finishing
<1> QED BY <1>1, <1>2, PhaseCore

LEMMA RecognizeStep ==
    ASSUME IInv, Recognize
    PROVE  Kept
<1>1. /\ Good(app) /\ Core(app) /\ app \in App /\ app.worker # None
      /\ app.worker \in Worker /\ app.worker.phase = "running"
  BY DEF IInv, Good, Core, App, Recognize
<1>2. PICK x \in Results(app) :
          app' = [app EXCEPT !.worker.phase = x,
                             !.spent = @ \cup (IF app.worker.final
                                               THEN {app.worker.turn} ELSE {})]
  BY DEF Recognize
<1> DEFINE r == [app EXCEPT !.worker.phase = x]
           z == app.spent \cup (IF app.worker.final THEN {app.worker.turn} ELSE {})
<1>3. /\ x \in Phases
      /\ x = "stopped" => app.worker.turn \in app.cancelled
      /\ x = "transcript" => app.worker.final
      /\ app.worker.final /\ app.worker.turn \notin app.cancelled =>
            x \in {"transcript", "failure"}
  BY DEF Results, Phases
<1>4. /\ Core(r) /\ Same(app, r) /\ SameTurn(app, r) /\ SameVoice(app, r)
      /\ SameMic(app, r) /\ r.cancelled = app.cancelled /\ r.deaf = app.deaf
      /\ r.recognizer = app.recognizer /\ r.frames = app.frames
      /\ r.endpoint = app.endpoint /\ r.late = app.late
      /\ r.worker # None /\ r.worker.turn = app.worker.turn
      /\ r.worker.final = app.worker.final /\ r.worker.phase = x
  BY <1>1, <1>3, PhaseCore
<1>5. z \in SUBSET Turns
  BY <1>1 DEF App, Worker
<1>6. app' = [r EXCEPT !.spent = z]
  BY <1>1, <1>2 DEF App
<1> HIDE DEF r, z
<1>7. /\ app' \in App /\ Same(r, app') /\ SameTurn(r, app') /\ SameVoice(r, app')
      /\ SameMic(r, app') /\ app'.cancelled = r.cancelled /\ app'.deaf = r.deaf
      /\ app'.recognizer = r.recognizer /\ app'.frames = r.frames
      /\ app'.endpoint = r.endpoint /\ app'.late = r.late /\ app'.worker = r.worker
  BY <1>4, <1>5, <1>6 DEF Core, App, Same, SameTurn, SameVoice, SameMic
<1>8. Core(app')
  BY <1>4, <1>7
  DEF Core, Fresh, Begun, Numbered, Ending, Waiting, Same, SameTurn, SameVoice
<1>9. Owned(app') /\ Mic(app')
  BY <1>1, <1>4, <1>7 DEF Good, Owned, Mic, SameTurn, SameVoice, SameMic
<1>10. Hears(app')
  BY <1>1, <1>3, <1>4, <1>7 DEF Good, Hears, SameTurn, SameVoice, SameMic
<1> QED BY <1>4, <1>7, <1>8, <1>9, <1>10 DEF Kept, IInv, Good, Same

\* A transcript that is taken is heard, or nothing is.
LEMMA HeardKept ==
    ASSUME NEW t \in Turns, NEW s, Good(app'), s.heard = app.heard,
           Accepts(s, t) => app.turn = t /\ t \notin app.cancelled,
           \/ app'.heard = s.heard
           \/ /\ Accepts(s, t) /\ s.heard[t] = 0
              /\ app'.heard = [s.heard EXCEPT ![t] = @ + 1]
    PROVE  Kept
  BY DEF Kept, IInv

LEMMA TakeTranscriptStep ==
    ASSUME IInv, TakeTranscript
    PROVE  Kept
<1> DEFINE s == Finishing(app)
           t == app.worker.turn
<1>1. /\ Good(app) /\ Core(app) /\ app \in App /\ app.worker # None
      /\ app.worker \in Worker /\ app.worker.phase = "transcript"
      /\ t \in Turns
  BY DEF IInv, Good, Core, App, Worker, TakeTranscript
<1>2. app' \in Transcript(s, t)
  BY DEF TakeTranscript
<1>3. /\ Core(s) /\ Same(app, s) /\ SameTurn(app, s) /\ SameVoice(app, s)
      /\ SameMic(app, s) /\ s.cancelled = app.cancelled /\ s.deaf = app.deaf
      /\ s.recognizer = app.recognizer /\ s.endpoint = app.endpoint
      /\ s.worker # None /\ s.worker.turn = t /\ s.worker.final = app.worker.final
  BY <1>1, FinishingCore
<1> HIDE DEF s
<1>4. Owned(s) /\ Mic(s)
  BY <1>1, <1>3 DEF Good, Owned, Mic, SameTurn, SameVoice, SameMic
<1>5. s.op # "input" => Hears(s)
  BY <1>1, <1>3 DEF Good, Hears, SameVoice
<1>6. ~Accepts(s, t) => Hears(s)
  BY <1>1, <1>3
  DEF Good, Core, Numbered, Accepts, Hears, SameTurn, SameVoice, SameMic
<1>7. Accepts(s, t) => s.state # "LISTENING"
  <2>1. s.worker.final
    BY <1>1, <1>3 DEF Core, Waiting
  <2> QED BY <1>1, <1>3, <2>1, TurnNames DEF Core, Numbered, Ending, Accepts
<1>8. Accepts(s, t) => app.turn = t /\ t \notin app.cancelled
  BY <1>3 DEF Accepts, SameTurn
<1>9. /\ Good(app')
      /\ \/ app'.heard = s.heard
         \/ /\ Accepts(s, t) /\ s.heard[t] = 0
            /\ app'.heard = [s.heard EXCEPT ![t] = @ + 1]
  BY <1>1, <1>2, <1>3, <1>4, <1>5, <1>6, <1>7, TranscriptGood
<1> QED BY <1>1, <1>3, <1>8, <1>9, HeardKept DEF Same

LEMMA TakeLateStep ==
    ASSUME IInv, NEW t \in Turns, TakeLate(t)
    PROVE  Kept
<1> DEFINE z == app.late \ {t}
           s == [app EXCEPT !.late = z]
<1>1. /\ Good(app) /\ Core(app) /\ app \in App /\ t \in app.late
      /\ app' \in Transcript(s, t)
  BY DEF IInv, Good, Core, TakeLate
<1>2. z \in SUBSET Turns /\ z \subseteq app.late
  BY <1>1 DEF App
<1> HIDE DEF z
<1>3. /\ s \in App /\ Same(app, s) /\ SameTurn(app, s) /\ SameVoice(app, s)
      /\ SameMic(app, s) /\ s.cancelled = app.cancelled /\ s.deaf = app.deaf
      /\ s.recognizer = app.recognizer /\ s.endpoint = app.endpoint
      /\ s.frames = app.frames /\ s.worker = app.worker /\ s.late = z
  BY <1>1, <1>2 DEF App, Same, SameTurn, SameVoice, SameMic
<1> HIDE DEF s
<1>4. Core(s)
  BY <1>1, <1>2, <1>3
  DEF Core, Fresh, Begun, Numbered, Ending, Waiting, Same, SameTurn, SameVoice
<1>5. Owned(s) /\ Mic(s) /\ Hears(s)
  BY <1>1, <1>3 DEF Good, Owned, Mic, Hears, SameTurn, SameVoice, SameMic
<1>6. Accepts(s, t) => app.turn = t /\ t \notin app.cancelled
  BY <1>3 DEF Accepts, SameTurn
<1>7. Accepts(s, t) => s.state # "LISTENING"
  BY <1>1, <1>3, <1>6, TurnNames DEF Core, Numbered, Ending, SameVoice
<1>8. /\ Good(app')
      /\ \/ app'.heard = s.heard
         \/ /\ Accepts(s, t) /\ s.heard[t] = 0
            /\ app'.heard = [s.heard EXCEPT ![t] = @ + 1]
  BY <1>1, <1>4, <1>5, <1>7, TranscriptGood
<1> QED BY <1>3, <1>6, <1>8, HeardKept DEF Same

LEMMA TakeFailureStep ==
    ASSUME IInv, TakeFailure
    PROVE  Kept
<1> DEFINE s == Finishing(app)
<1>1. /\ Good(app) /\ Core(app) /\ app.worker # None
      /\ app' = IF app.worker.final THEN ReportError(s) ELSE s
  BY DEF IInv, Good, TakeFailure
<1>2. /\ Core(s) /\ Same(app, s) /\ SameTurn(app, s) /\ SameVoice(app, s)
      /\ SameMic(app, s) /\ s.cancelled = app.cancelled /\ s.deaf = app.deaf
      /\ s.recognizer = app.recognizer /\ s.endpoint = app.endpoint
      /\ s.worker # None
  BY <1>1, FinishingCore
<1> HIDE DEF s
<1>3. Owned(s)
  BY <1>1, <1>2 DEF Good, Owned, SameTurn
<1>4. CASE app.worker.final
  BY <1>1, <1>2, <1>3, <1>4, ReportErrorGood DEF Kept, IInv, Same
<1>5. CASE ~app.worker.final
  <2>1. app' = s
    BY <1>1, <1>5
  <2>2. Mic(s) /\ Hears(s)
    BY <1>1, <1>2, <1>5 DEF Good, Mic, Hears, SameTurn, SameVoice, SameMic
  <2> QED BY <1>2, <1>3, <2>1, <2>2 DEF Kept, IInv, Good, Same
<1> QED BY <1>4, <1>5

LEMMA TakeStoppedStep ==
    ASSUME IInv, TakeStopped
    PROVE  Kept
<1> DEFINE robs == app.recognizer # app.worker.turn /\ (app.frames \/ app.endpoint)
           s == Finishing(app)
           d == s.deaf \/ robs
           r == [s EXCEPT !.frames = FALSE, !.endpoint = FALSE, !.deaf = d]
<1>1. /\ Good(app) /\ Core(app) /\ app \in App /\ app.worker # None
      /\ app.worker.turn \in app.cancelled /\ app.worker.phase = "stopped"
      /\ app' = r
  BY DEF IInv, Good, Core, Waiting, TakeStopped
<1>2. /\ Core(s) /\ Same(app, s) /\ SameTurn(app, s) /\ SameVoice(app, s)
      /\ SameMic(app, s) /\ s.cancelled = app.cancelled /\ s.deaf = app.deaf
      /\ s.recognizer = app.recognizer
      /\ s.worker # None
  BY <1>1, FinishingCore
<1>3. d \in BOOLEAN /\ (s.deaf => d) /\ (robs => d)
  OBVIOUS
<1> HIDE DEF s, d
<1>4. /\ r \in App /\ Same(s, r) /\ SameTurn(s, r) /\ SameVoice(s, r)
      /\ SameMic(s, r) /\ r.cancelled = s.cancelled /\ r.deaf = d
      /\ r.recognizer = s.recognizer /\ r.worker = s.worker /\ r.late = s.late
      /\ ~r.frames /\ ~r.endpoint
  BY ZenonT(40), <1>2, <1>3 DEF Core, App, Same, SameTurn, SameVoice, SameMic
<1> HIDE DEF r
<1>5. Core(r)
  BY <1>2, <1>4
  DEF Core, Fresh, Begun, Numbered, Ending, Waiting, Same, SameTurn, SameVoice
<1>6. Owned(r) /\ Mic(r)
  BY <1>1, <1>2, <1>4 DEF Good, Owned, Mic, SameTurn, SameVoice, SameMic
<1>7. Hears(r)
  BY <1>1, <1>2, <1>3, <1>4 DEF Good, Hears, SameTurn, SameVoice, SameMic
<1> QED BY <1>1, <1>2, <1>4, <1>5, <1>6, <1>7 DEF Kept, IInv, Good, Same

LEMMA TakeFinishedStep ==
    ASSUME IInv, TakeFinished
    PROVE  Kept
<1> DEFINE f == [app EXCEPT !.worker = None]
           robs == app.recognizer \notin {None, app.worker.turn}
<1>1. /\ Good(app) /\ Core(app) /\ app \in App /\ app.worker # None
      /\ app.worker \in Worker /\ app.worker.phase = "finishing"
  BY DEF IInv, Good, Core, App, TakeFinished
<1>2. /\ f \in App /\ Same(app, f) /\ SameTurn(app, f) /\ SameVoice(app, f)
      /\ SameMic(app, f) /\ f.cancelled = app.cancelled /\ f.deaf = app.deaf
      /\ f.recognizer = app.recognizer /\ f.endpoint = app.endpoint
      /\ f.frames = app.frames /\ f.late = app.late /\ f.worker = None
  BY <1>1 DEF App, Same, SameTurn, SameVoice, SameMic
<1>3. /\ app.frames \/ app.endpoint => app' = StartPending(f)
      /\ ~(app.frames \/ app.endpoint) /\ app.worker.final =>
            app' = [Release(f) EXCEPT !.deaf = @ \/ robs]
      /\ ~(app.frames \/ app.endpoint) /\ ~app.worker.final => app' = f
  BY DEF TakeFinished
<1> HIDE DEF f
<1>4. Core(f)
  BY <1>1, <1>2
  DEF Core, Fresh, Begun, Numbered, Ending, Waiting, Same, SameTurn, SameVoice
<1>5. Owned(f) /\ Mic(f)
  BY <1>1, <1>2 DEF Good, Owned, Mic, SameTurn, SameVoice, SameMic
<1>6. CASE app.frames \/ app.endpoint
  <2> DEFINE r == StartPending(f)
  <2>1. /\ Core(r) /\ Same(f, r) /\ SameTurn(f, r) /\ SameVoice(f, r)
        /\ SameMic(f, r) /\ r.recognizer = f.recognizer
        /\ r.cancelled = f.cancelled /\ r.deaf = f.deaf
    BY <1>4, StartPendingCore
  <2>2. app.recognizer # None
    BY <1>1, <1>6 DEF Core, Waiting
  <2>3. r.worker = [turn |-> f.recognizer, final |-> f.endpoint, phase |-> "running"]
    BY <1>2, <1>6, <2>2 DEF StartPending, App
  <2>4. r.worker \in Worker /\ r.worker # None
    BY <1>2, <2>2, <2>3, TurnNames DEF App, Worker, Phases
  <2> HIDE DEF r
  <2>5. Owned(r) /\ Mic(r)
    BY <1>5, <2>1 DEF Owned, Mic, SameTurn, SameVoice, SameMic
  <2>6. Hears(r)
    BY <1>1, <1>2, <2>1, <2>3, <2>4 DEF Good, Hears, SameTurn, SameVoice, SameMic
  <2> QED
    BY <1>2, <1>3, <1>6, <2>1, <2>5, <2>6 DEF Kept, IInv, Good, Same, r
<1>7. CASE ~(app.frames \/ app.endpoint) /\ app.worker.final
  <2> DEFINE e == Release(f)
             d == e.deaf \/ robs
             r == [e EXCEPT !.deaf = d]
  <2>1. /\ Core(e) /\ Same(f, e) /\ SameTurn(f, e) /\ SameVoice(f, e)
        /\ SameMic(f, e) /\ e.recognizer = None /\ e.worker = f.worker
        /\ ~e.frames /\ ~e.endpoint /\ e.deaf = f.deaf
    BY <1>4, ReleaseCore
  <2>2. app' = r
    BY <1>3, <1>7
  <2>3. d \in BOOLEAN /\ (e.deaf => d) /\ (robs => d)
    OBVIOUS
  <2> HIDE DEF e, d
  <2>4. /\ r \in App /\ Same(e, r) /\ SameTurn(e, r) /\ SameVoice(e, r)
        /\ SameMic(e, r) /\ r.cancelled = e.cancelled /\ r.deaf = d
        /\ r.recognizer = e.recognizer /\ r.worker = e.worker /\ r.late = e.late
        /\ r.frames = e.frames /\ r.endpoint = e.endpoint
    BY <2>1, <2>3 DEF Core, App, Same, SameTurn, SameVoice, SameMic
  <2> HIDE DEF r
  <2>5. Core(r)
    BY <2>1, <2>4
    DEF Core, Fresh, Begun, Numbered, Ending, Waiting, Same, SameTurn, SameVoice
  <2>6. Owned(r) /\ Mic(r)
    BY <1>5, <2>1, <2>4 DEF Owned, Mic, SameTurn, SameVoice, SameMic
  <2>7. app.op = "input" => app.deaf \/ robs
    <3>1. SUFFICES ASSUME app.op = "input", ~app.deaf, ~robs
                   PROVE  FALSE
      OBVIOUS
    <3>2. app.state = "LISTENING" /\ app.recognizer = app.turn /\ app.turn # None
      BY <1>1, <1>7, <3>1 DEF Good, Hears
    <3>3. app.worker.turn = app.turn
      BY <3>1, <3>2
    <3> QED BY <1>1, <1>7, <3>2, <3>3 DEF Core, Numbered, Ending
  <2>8. Hears(r)
    BY <1>1, <1>2, <2>1, <2>3, <2>4, <2>7 DEF Good, Hears, SameVoice
  <2> QED
    BY <1>2, <2>1, <2>2, <2>4, <2>5, <2>6, <2>8 DEF Kept, IInv, Good, Same
<1>8. CASE ~(app.frames \/ app.endpoint) /\ ~app.worker.final
  <2>1. Hears(f)
    BY <1>1, <1>2, <1>8 DEF Good, Hears, SameTurn, SameVoice, SameMic
  <2> QED BY <1>2, <1>3, <1>4, <1>5, <1>8, <2>1 DEF Kept, IInv, Good, Same
<1> QED BY <1>6, <1>7, <1>8

LEMMA StartConversationStep ==
    ASSUME IInv, StartConversation
    PROVE  Kept
<1>1. /\ Good(app) /\ Core(app) /\ app \in App
      /\ app.state = "IDLE" /\ ~app.conversation /\ app.op # "input"
  BY DEF IInv, Good, Core, Hears, StartConversation
<1>2. CASE Available(app) /\ app.session = 0 /\ app.work = "none"
  <2> DEFINE n == app.sessions + 1
             s == [app EXCEPT !.session = n, !.sessions = n, !.next = 1,
                              !.conversation = TRUE]
  <2>1. n \in 1..MaxSessions /\ n \in 0..MaxSessions /\ 1 \in 1..(MaxTurns + 1)
        /\ app.sessions < n /\ app.sessions \in Nat
    BY <1>1, <1>2, BoundsAssumption DEF App, StartConversation
  <2>2. Listen(s)
    BY <1>1, <1>2 DEF StartConversation
  <2> HIDE DEF n
  <2>3. /\ s \in App /\ s.session = n /\ s.sessions = n /\ s.next = 1
        /\ s.conversation /\ s.turn = app.turn /\ s.heard = app.heard
        /\ SameVoice(app, s)
        /\ s.cancelled = app.cancelled /\ s.late = app.late /\ s.worker = app.worker
        /\ s.recognizer = app.recognizer /\ s.frames = app.frames
        /\ s.endpoint = app.endpoint
    BY <1>1, <2>1 DEF App, SameVoice
  <2> HIDE DEF s
  <2>4. Fresh(s)
    BY <1>1, <2>1, <2>3, TurnNames DEF Core, Fresh, Begun
  <2>5. Numbered(s)
    BY <1>1, <1>2, <2>3 DEF Core, Numbered
  <2>6. Waiting(s)
    BY <1>1, <2>3 DEF Core, Waiting
  <2>7. Core(s) /\ s.session # 0
    BY <2>1, <2>3, <2>4, <2>5, <2>6 DEF Core
  <2> QED BY <2>2, <2>3, <2>7, ListenGood DEF Kept
<1>3. CASE ~(Available(app) /\ app.session = 0 /\ app.work = "none")
  <2>1. app' = VoiceError(app)
    BY <1>3 DEF StartConversation
  <2> QED BY <1>1, <2>1, VoiceErrorGood DEF Kept, IInv
<1> QED BY <1>2, <1>3

LEMMA EndConversationStep ==
    ASSUME IInv, EndConversation
    PROVE  Kept
  BY EndedGood DEF IInv, EndConversation, Kept

LEMMA WorkEndsStep ==
    ASSUME IInv, WorkEnds
    PROVE  Kept
<1> DEFINE s == [app EXCEPT !.work = "none"]
<1>1. Good(app) /\ app \in App
  BY DEF IInv, Good, Core
<1>2. Good(s) /\ s.heard = app.heard
  BY <1>1, WorkGood DEF Same
<1>3. app' = s \/ Resume(s)
  BY DEF WorkEnds
<1> HIDE DEF s
<1> QED BY <1>2, <1>3, ResumeGood DEF Kept, IInv

LEMMA WorkStep ==
    ASSUME IInv, Work
    PROVE  Kept
<1> DEFINE i == IF app.op = "output" THEN Idle(app) ELSE app
<1>1. Good(app) /\ app \in App
  BY DEF IInv, Good, Core
<1>2. Good(i) /\ i.heard = app.heard /\ i \in App
  BY <1>1, IdleGood DEF Good, Core
<1>3. \/ app' = [app EXCEPT !.work = "busy"]
      \/ app' = [i EXCEPT !.work = "cancelled"]
  BY DEF Work
<1> HIDE DEF i
<1>4. CASE app' = [app EXCEPT !.work = "busy"]
  BY <1>1, <1>4, WorkGood DEF Kept, IInv, Same
<1>5. CASE app' = [i EXCEPT !.work = "cancelled"]
  BY <1>2, <1>5, WorkGood DEF Kept, IInv, Same
<1> QED BY <1>3, <1>4, <1>5

LEMMA SpeechBeginsStep ==
    ASSUME IInv, SpeechBegins
    PROVE  Kept
<1>1. /\ Good(app) /\ Core(app) /\ app \in App /\ app.state = "IDLE" /\ app.op = "none"
      /\ app' = [app EXCEPT !.state = "SPEAKING", !.op = "output"]
  BY DEF IInv, Good, Core, SpeechBegins, Free
<1>2. /\ app' \in App /\ Same(app, app') /\ SameTurn(app, app') /\ SameMic(app, app')
      /\ app'.state = "SPEAKING" /\ app'.op = "output"
      /\ app'.cancelled = app.cancelled /\ app'.late = app.late
      /\ app'.worker = app.worker /\ app'.recognizer = app.recognizer
      /\ app'.frames = app.frames /\ app'.endpoint = app.endpoint
  BY <1>1 DEF App, Same, SameTurn, SameMic
<1>3. Core(app')
  BY <1>1, <1>2
  DEF Core, Fresh, Begun, Numbered, Ending, Waiting, Same, SameTurn
<1> QED
  BY <1>1, <1>2, <1>3
  DEF Kept, IInv, Good, Owned, Mic, Hears, Same, SameTurn, SameMic

LEMMA SpeechEndsStep ==
    ASSUME IInv, SpeechEnds
    PROVE  Kept
<1>1. /\ Good(app) /\ Core(app) /\ Owned(app) /\ app.op # "input"
      /\ app' = Idle(app) \/ app' = ReportError(app) \/ Resume(Idle(app))
  BY DEF IInv, Good, SpeechEnds
<1>2. Good(Idle(app)) /\ Idle(app).heard = app.heard
  BY <1>1, IdleGood
<1>3. CASE app' = Idle(app)
  BY <1>2, <1>3 DEF Kept, IInv
<1>4. CASE app' = ReportError(app)
  BY <1>1, <1>4, ReportErrorGood DEF Kept, IInv, Same
<1>5. CASE Resume(Idle(app))
  BY <1>2, <1>5, ResumeGood DEF Kept
<1> QED BY <1>1, <1>3, <1>4, <1>5

LEMMA ConfigureStep ==
    ASSUME IInv, NEW input \in BOOLEAN, NEW talk \in BOOLEAN, NEW moved \in BOOLEAN,
           Configure(input, talk, moved)
    PROVE  Kept
<1> DEFINE s == [app EXCEPT !.input = input, !.talk = talk]
           idle == s.op = "output" \/ (s.op = "input" /\ ~input)
           v == IF idle THEN Idle(s) ELSE s
           m == CloseMic(v)
           d == m.deaf \/ v.state = "LISTENING"
           k == [m EXCEPT !.deaf = d]
           c == IF v.mic /\ (moved \/ ~Available(v)) THEN k ELSE v
<1>1. Good(app) /\ Core(app) /\ Owned(app) /\ app \in App
  BY DEF IInv, Good, Core
<1>2. app' = IF c.mic THEN ReportError(c) ELSE c
  BY <1>1 DEF Configure
<1>3. /\ s \in App /\ Same(app, s) /\ SameTurn(app, s) /\ SameVoice(app, s)
      /\ SameMic(app, s) /\ s.cancelled = app.cancelled /\ s.deaf = app.deaf
      /\ s.recognizer = app.recognizer /\ s.endpoint = app.endpoint
      /\ s.frames = app.frames /\ s.late = app.late /\ s.worker = app.worker
  BY ZenonT(40), <1>1 DEF App, Same, SameTurn, SameVoice, SameMic
<1> HIDE DEF s
<1>4. Core(s)
  BY <1>1, <1>3
  DEF Core, Fresh, Begun, Numbered, Ending, Waiting, Same, SameTurn, SameVoice
<1>5. Owned(s) /\ Hears(s)
  BY <1>1, <1>3 DEF Good, Owned, Hears, SameTurn, SameVoice, SameMic
<1>6. /\ Core(v) /\ Owned(v) /\ v.heard = s.heard /\ Hears(v)
  <2>1. CASE idle
    BY <1>4, <1>5, <2>1, IdleCore DEF Owned, Hears, Same, SameTurn
  <2>2. CASE ~idle
    BY <1>4, <1>5, <2>2
  <2> QED BY <2>1, <2>2
<1> HIDE DEF v
<1>7. /\ Core(m) /\ Same(v, m) /\ SameTurn(v, m) /\ SameVoice(v, m) /\ ~m.mic
      /\ m.deaf = v.deaf /\ m.cancelled = v.cancelled /\ m.recognizer = v.recognizer
      /\ m.endpoint = v.endpoint /\ m.worker = v.worker
  <2>1. v \in App
    BY <1>6 DEF Core
  <2>2. /\ m.deaf = v.deaf /\ m.cancelled = v.cancelled /\ m.recognizer = v.recognizer
        /\ m.endpoint = v.endpoint /\ m.worker = v.worker
    BY <2>1 DEF App, CloseMic
  <2> QED BY <1>6, <2>2, CloseMicCore
<1> HIDE DEF m
<1>8. d \in BOOLEAN /\ (m.deaf => d) /\ (v.state = "LISTENING" => d)
  OBVIOUS
<1> HIDE DEF d
<1>9. /\ k \in App /\ Same(m, k) /\ SameTurn(m, k) /\ SameVoice(m, k)
      /\ SameMic(m, k) /\ k.cancelled = m.cancelled /\ k.deaf = d
      /\ k.recognizer = m.recognizer /\ k.endpoint = m.endpoint
      /\ k.frames = m.frames /\ k.late = m.late /\ k.worker = m.worker
  BY <1>7, <1>8 DEF Core, App, Same, SameTurn, SameVoice, SameMic
<1> HIDE DEF k
<1>10. Core(k)
  BY <1>7, <1>9
  DEF Core, Fresh, Begun, Numbered, Ending, Waiting, Same, SameTurn, SameVoice
<1>11. Owned(k) /\ Hears(k)
  BY <1>6, <1>7, <1>8, <1>9
  DEF Owned, Hears, SameTurn, SameVoice
<1>12. Core(c) /\ Owned(c) /\ Hears(c) /\ c.heard = v.heard
  BY <1>6, <1>7, <1>9, <1>10, <1>11 DEF Same
<1> HIDE DEF c
<1>13. CASE c.mic
  BY <1>2, <1>3, <1>6, <1>12, <1>13, ReportErrorGood DEF Kept, IInv, Same
<1>14. CASE ~c.mic
  BY <1>2, <1>3, <1>6, <1>12, <1>14 DEF Kept, IInv, Good, Mic, Same
<1> QED BY <1>13, <1>14

-----------------------------------------------------------------------------
(* The theorems *)

LEMMA InitIInv == Init => IInv
<1>1. SUFFICES ASSUME Init
               PROVE  IInv
  OBVIOUS
<1>2. app \in App
  BY <1>1, BoundsAssumption DEF Init, App
<1>3. Core(app)
  <2>1. \A t \in Turns : app.heard[t] = 0
    BY <1>1 DEF Init
  <2>2. Fresh(app)
    BY <1>1, <2>1, TurnNames DEF Init, Fresh
  <2>3. Numbered(app) /\ Waiting(app)
    BY <1>1 DEF Init, Numbered, Waiting
  <2> QED BY <1>2, <2>2, <2>3 DEF Core
<1> QED BY <1>1, <1>3 DEF Init, IInv, Good, Owned, Mic, Hears

LEMMA StepKept ==
    ASSUME IInv, [Next]_vars
    PROVE  Kept
<1>1. CASE UNCHANGED vars
  BY <1>1 DEF vars, IInv, Kept
<1>2. CASE Talk
  BY <1>2, TalkStep
<1>3. CASE Stop
  BY <1>3, StopStep
<1>4. CASE Snapshot
  BY <1>4, SnapshotStep
<1>5. CASE CaptureEnds
  BY <1>5, CaptureEndsStep
<1>6. CASE CancelTranscription
  BY <1>6, CancelTranscriptionStep
<1>7. CASE Recognize
  BY <1>7, RecognizeStep
<1>8. CASE TakeTranscript
  BY <1>8, TakeTranscriptStep
<1>9. CASE TakeFailure
  BY <1>9, TakeFailureStep
<1>10. CASE TakeStopped
  BY <1>10, TakeStoppedStep
<1>11. CASE TakeFinished
  BY <1>11, TakeFinishedStep
<1>12. CASE \E t \in Turns : TakeLate(t)
  BY <1>12, TakeLateStep
<1>13. CASE StartConversation
  BY <1>13, StartConversationStep
<1>14. CASE EndConversation
  BY <1>14, EndConversationStep
<1>15. CASE Work
  BY <1>15, WorkStep
<1>16. CASE WorkEnds
  BY <1>16, WorkEndsStep
<1>17. CASE SpeechBegins
  BY <1>17, SpeechBeginsStep
<1>18. CASE SpeechEnds
  BY <1>18, SpeechEndsStep
<1>19. CASE \E input, talk, moved \in BOOLEAN : Configure(input, talk, moved)
  BY <1>19, ConfigureStep
<1> QED
  BY <1>1, <1>2, <1>3, <1>4, <1>5, <1>6, <1>7, <1>8, <1>9, <1>10, <1>11, <1>12,
     <1>13, <1>14, <1>15, <1>16, <1>17, <1>18, <1>19
  DEF Next

\* The invariant holds in every state that speech input reaches.
THEOREM VoiceInvariant == Spec => []IInv
<1>1. IInv /\ [Next]_vars => IInv'
  BY StepKept DEF Kept
<1> QED BY <1>1, InitIInv, PTL DEF Spec

\* The record keeps its types, whatever the handlers make of it.
THEOREM VoiceTypes == Spec => []TypeOK
<1>1. IInv => TypeOK
  BY DEF IInv, Good, Core, TypeOK
<1> QED BY <1>1, VoiceInvariant, PTL

\* SessionsOwned: no session is left that neither a turn nor a conversation
\* will close, and no conversation outlives its session.
THEOREM SessionsAreOwned == Spec => []SessionsOwned
<1>1. IInv => SessionsOwned
  BY DEF IInv, Good, Core, Numbered, Owned, SessionsOwned
<1> QED BY <1>1, VoiceInvariant, PTL

\* MicOwned: the microphone is open only while the voice listens, but for one an
\* error left open.
THEOREM MicIsOwned == Spec => []MicOwned
<1>1. IInv => MicOwned
  BY DEF IInv, Good, Mic, MicOwned
<1> QED BY <1>1, VoiceInvariant, PTL

\* Answered: a voice that transcribes has a worker that will answer its turn, or
\* is given one, unless an earlier worker or the settings took it away.
THEOREM TranscriptionIsAnswered == Spec => []Answered
<1>1. IInv => Answered
  BY DEF IInv, Good, Hears, Answered
<1> QED BY <1>1, VoiceInvariant, PTL

\* HeardOnce: only the transcript of the active turn reaches the chat, and once.
THEOREM TranscriptsAreHeardOnce == Spec => HeardOnce
<1>1. IInv /\ [Next]_vars =>
        [\A t \in Turns : app'.heard[t] # app.heard[t] =>
            app.heard[t] = 0 /\ app.turn = t /\ t \notin app.cancelled]_vars
  <2>1. SUFFICES ASSUME IInv, [Next]_vars, NEW t \in Turns,
                        app'.heard[t] # app.heard[t]
                 PROVE  app.heard[t] = 0 /\ app.turn = t /\ t \notin app.cancelled
    OBVIOUS
  <2>2. Kept /\ app.heard \in [Turns -> Nat]
    BY <2>1, StepKept DEF IInv, Good, Core, App
  <2> QED BY <2>1, <2>2 DEF Kept
<1> QED BY <1>1, VoiceInvariant, PTL DEF Spec, HeardOnce

===============================================================================
