-------------------------- MODULE HostedConversationProofs --------------------------
(***************************************************************************)
(* Proofs about HostedConversation, for any number of conversations, turns *)
(* and attempts to reconnect, and queues of any length.                    *)
(*                                                                         *)
(* The handlers are functions of the application's record.  Core holds of  *)
(* every record they pass to each other; Do cuts a turn beyond the last,   *)
(* so in between the numbers are only natural.                             *)
(*                                                                         *)
(* Three invariants, each on top of the former: IInv, the types and what a *)
(* conversation leaves behind; Order, the order in which calls are served  *)
(* and answers are heard; Progress, what a conversation waits for.         *)
(***************************************************************************)
EXTENDS HostedConversation, TLAPS

Names == Sessions \X (Nat \ {0})
NamedText == [turn: Names, final: BOOLEAN]
Bars == SUBSET Numbers
Chats == Seq(Turns)
Sendings == Seq(Calls)
Wide == [active: BOOLEAN, thread: Sessions \cup {None}, turn: Names \cup {None},
         out: BOOLEAN, voice: {"IDLE", "LISTENING", "THINKING"},
         op: {"none", "input", "output"},
         mic: BOOLEAN, heard: BOOLEAN, renew: BOOLEAN,
         bridge: Names \cup {None},
         text: NamedText \cup {None},
         play: {"off", "open", "finishing"}, playing: BOOLEAN,
         more: Names \cup {None}, sound: Names \cup {None},
         life: {"IDLE", "STARTING", "ACTIVE", "STOPPING", "ERROR"},
         session: Sessions \cup {None}, held: Nat, next: Nat \ {0},
         paused: BOOLEAN, barred: Bars,
         chat: Chats, deaf: BOOLEAN, alone: BOOLEAN,
         halt: BOOLEAN, sent: Sendings, opens: BOOLEAN, raised: BOOLEAN]

\* A turn has a name the bounds allow, or is the last of the present session.
Named(s, t) == t = None \/ t \in Turns \/ (t[1] = s.session /\ t[2] < s.next)

\* What names a turn, and the number the ledger holds.
Bounded(s) ==
    /\ Named(s, s.turn) /\ Named(s, s.bridge) /\ Named(s, s.more) /\ Named(s, s.sound)
    /\ s.text # None => Named(s, s.text.turn)
    /\ s.held \in Numbers \/ s.held < s.next
    /\ s.session = None => s.held = 0 /\ s.next = 1

Early == {"new", "spawned", "checked"}

\* A turn that has been begun: no later turn has its name.
Begun(s, t) ==
    /\ workers[t[1]].phase \notin Early
    /\ s.session = t[1] => t[2] < s.next

Numbered(s) ==
    /\ s.session # None => workers[s.session].phase \notin Early
    /\ s.turn # None => Begun(s, s.turn)
    /\ \A i \in 1..Len(s.chat) : Begun(s, s.chat[i])

\* The transcript is the open turn's, which is not written yet, and is given up
\* before the turn finishes.
Transcribed(s) ==
    /\ s.text # None => /\ s.turn # None /\ s.text.turn = s.turn
                        /\ \A i \in 1..Len(s.chat) : s.chat[i] # s.turn
    /\ s.play = "finishing" => s.text = None

Lives(s) == s.life = "IDLE" <=> s.session = None

Core(s) == s \in Wide /\ Bounded(s) /\ Numbered(s) /\ Transcribed(s) /\ Lives(s)

\* A conversation that has ended has given everything back.
Rested(s) ==
    ~s.active =>
        /\ s.voice = "IDLE" /\ s.op = "none" /\ ~s.mic /\ s.bridge = None
        /\ s.play = "off" /\ s.turn = None /\ s.text = None /\ s.sound = None

Good(s) == Core(s) /\ Rested(s)

\* Before its worker has connected a conversation has no turn; connected is said once.
Unbegun(s) == s.turn = None /\ s.text = None /\ s.play = "off"
Says(i) == signals[i].kind = "connected"
Connecting ==
    /\ \A i, j \in 1..Len(signals) : Says(i) /\ Says(j) => i = j
    /\ \A i \in 1..Len(signals) : Says(i) => Unbegun(app)
    /\ app.thread # None /\ workers[app.thread].phase \in Early \cup {"connecting"} =>
          Unbegun(app) /\ \A i \in 1..Len(signals) : ~Says(i)

\* The session is that of a worker which has reserved it and not let it go.
Free(r) == r.phase \in Early \cup {"done"} \/ (r.phase = "closing" /\ r.link # "STOPPING")
Held == \A w \in Sessions : Free(workers[w]) => app.session # w

\* Whatever the provider says, it says of a turn it has heard.
Heeds(r) ==
    /\ r.turn # 0 \/ r.server.stage # "quiet" => r.server.turn # 0
    /\ \A i \in 1..Len(r.wire) : r.wire[i].turn # 0
Told == \A i \in 1..Len(signals) : signals[i].kind = "audio" => signals[i].of # 0

IInv ==
    /\ TypeOK /\ Good(app) /\ Connecting /\ Held
    /\ (\A w \in Sessions : Heeds(workers[w])) /\ Told

-----------------------------------------------------------------------------
(* Records that differ little *)

\* What a handler leaves to the worker's side.
Same(s, r) == r.session = s.session /\ r.life = s.life /\ r.thread \in {s.thread, None}

\* A record in which something has been given up, and no turn is new.
Less(s, r) ==
    /\ r \in Wide /\ Same(s, r) /\ r.chat = s.chat /\ r.next = s.next
    /\ r.held \in {s.held, 0}
    /\ r.turn = s.turn \/ (r.turn = None /\ r.text = None)
    /\ r.text \in {s.text, None}
    /\ r.bridge \in {s.bridge, None}
    /\ r.more \in {s.more, None}
    /\ r.sound \in {s.sound, s.more, None}
    /\ r.play \in {s.play, "off"}
    /\ r.active => s.active

LEMMA TurnNames ==
    /\ \A t \in Turns : /\ t # None /\ t = <<t[1], t[2]>> /\ t \in Names
                        /\ t[1] \in Sessions /\ t[2] \in 1..MaxTurns
    /\ \A t \in Names : /\ t # None /\ t = <<t[1], t[2]>> /\ t[1] \in Sessions /\ t[1] \in Nat
                        /\ t[1] >= 1 /\ t[2] \in Nat /\ t[2] >= 1
                        /\ (t[2] <= MaxTurns => t \in Turns)
    /\ \A w \in Sessions : w # None /\ w \in Nat /\ w >= 1
    /\ MaxSessions \in Nat /\ MaxTurns \in Nat
  BY BoundsAssumption, NamesAssumption DEF Turns, Names, Sessions

LEMMA LessCore ==
    ASSUME NEW s, NEW r, Core(s), Less(s, r)
    PROVE  Core(r) /\ (Unbegun(s) => Unbegun(r))
BY DEF Core, Less, Same, Bounded, Named, Wide, Numbered, Begun, Transcribed, Lives, Unbegun

LEMMA LessTwice ==
    ASSUME NEW s, NEW r, NEW q, Less(s, r), Less(r, q)
    PROVE  Less(s, q)
  BY DEF Less, Same

LEMMA LessSelf ==
    ASSUME NEW s, s \in Wide
    PROVE  Less(s, s)
  BY DEF Less, Same

\* One field of the record gets another value.
LEMMA SetVoice ==
    ASSUME NEW s \in Wide, NEW x \in {"IDLE", "LISTENING", "THINKING"}
    PROVE  [s EXCEPT !.voice = x] \in Wide
  BY DEF Wide

LEMMA SetOp ==
    ASSUME NEW s \in Wide, NEW x \in {"none", "input", "output"}
    PROVE  [s EXCEPT !.op = x] \in Wide
  BY DEF Wide

LEMMA SetFlags ==
    ASSUME NEW s \in Wide, NEW x \in BOOLEAN
    PROVE  /\ [s EXCEPT !.mic = x] \in Wide /\ [s EXCEPT !.heard = x] \in Wide
           /\ [s EXCEPT !.deaf = x] \in Wide /\ [s EXCEPT !.opens = x] \in Wide
           /\ [s EXCEPT !.playing = x] \in Wide /\ [s EXCEPT !.out = x] \in Wide
           /\ [s EXCEPT !.active = x] \in Wide /\ [s EXCEPT !.halt = x] \in Wide
           /\ [s EXCEPT !.raised = x] \in Wide /\ [s EXCEPT !.renew = x] \in Wide
           /\ [s EXCEPT !.paused = x] \in Wide
<1>3. [s EXCEPT !.playing = x] \in Wide /\ [s EXCEPT !.out = x] \in Wide
  BY DEF Wide
<1>4. [s EXCEPT !.active = x] \in Wide /\ [s EXCEPT !.halt = x] \in Wide
  BY DEF Wide
<1>5. [s EXCEPT !.raised = x] \in Wide /\ [s EXCEPT !.renew = x] \in Wide
  BY DEF Wide
<1>6. [s EXCEPT !.paused = x] \in Wide
  BY DEF Wide
<1> QED BY <1>3, <1>4, <1>5, <1>6 DEF Wide

LEMMA SetTurns ==
    ASSUME NEW s \in Wide, NEW x \in Names \cup {None}
    PROVE  /\ [s EXCEPT !.turn = x] \in Wide /\ [s EXCEPT !.bridge = x] \in Wide
           /\ [s EXCEPT !.more = x] \in Wide /\ [s EXCEPT !.sound = x] \in Wide
BY DEF Wide

LEMMA SetPlay ==
    ASSUME NEW s \in Wide, NEW x \in {"off", "open", "finishing"}
    PROVE  [s EXCEPT !.play = x] \in Wide
  BY DEF Wide

LEMMA SetText ==
    ASSUME NEW s \in Wide, NEW x \in NamedText \cup {None}
    PROVE  [s EXCEPT !.text = x] \in Wide
  BY DEF Wide

LEMMA SetLedger ==
    ASSUME NEW s \in Wide, NEW x \in Nat
    PROVE  /\ [s EXCEPT !.held = x] \in Wide
           /\ x # 0 => [s EXCEPT !.next = x] \in Wide
  BY DEF Wide

LEMMA SetSeqs ==
    ASSUME NEW s \in Wide
    PROVE  /\ \A x \in Chats : [s EXCEPT !.chat = x] \in Wide
           /\ \A x \in Sendings : [s EXCEPT !.sent = x] \in Wide
BY DEF Wide

\* The handlers of voice and microphone give up no turn at all.
Quiet(s, r) == Less(s, r) /\ r.opens = s.opens /\ r.active = s.active

LEMMA IdleQuiet ==
    ASSUME NEW s, s \in Wide
    PROVE  Quiet(s, Idle(s))
<1>1. [s EXCEPT !.voice = "IDLE"] \in Wide
  BY SetVoice
<1>2. [[s EXCEPT !.voice = "IDLE"] EXCEPT !.op = "none"] \in Wide
  BY <1>1, SetOp
<1>3. Idle(s) \in Wide
  BY <1>2, Zenon DEF Idle
<1> QED BY <1>3 DEF Wide, Idle, Quiet, Less, Same

LEMMA CloseMicQuiet ==
    ASSUME NEW s, s \in Wide
    PROVE  Quiet(s, CloseMic(s)) /\ CloseMic(s).turn = s.turn
<1>1. [s EXCEPT !.mic = FALSE] \in Wide
  BY SetFlags
<1>2. [[s EXCEPT !.mic = FALSE] EXCEPT !.heard = FALSE] \in Wide
  BY <1>1, SetFlags
<1>3. CloseMic(s) \in Wide
  BY <1>2, Zenon DEF CloseMic
<1> QED BY <1>3 DEF Wide, CloseMic, Quiet, Less, Same

LEMMA QuietTwice ==
    ASSUME NEW s, NEW r, NEW q, Quiet(s, r), Quiet(r, q)
    PROVE  Quiet(s, q)
  BY LessTwice DEF Quiet

LEMMA ReportErrorQuiet ==
    ASSUME NEW s, s \in Wide
    PROVE  Quiet(s, ReportError(s)) /\ ReportError(s).voice = "IDLE"
           /\ ReportError(s).op = "none" /\ ReportError(s).mic = s.mic
<1>1. Quiet(s, Idle(s)) /\ Idle(s) \in Wide
  BY IdleQuiet DEF Quiet, Less
<1>2. ReportError(s) \in Wide
  BY <1>1, SetFlags DEF ReportError
<1> QED BY <1>1, <1>2, QuietTwice DEF ReportError, Idle, Wide, Quiet, Less, Same

LEMMA CancelListenQuiet ==
    ASSUME NEW s, s \in Wide
    PROVE  Quiet(s, CancelListen(s)) /\ ~CancelListen(s).mic
<1> DEFINE v == IF s.op = "input" THEN Idle(s) ELSE s
<1>1. Quiet(s, v) /\ v \in Wide
  BY IdleQuiet, LessSelf DEF Quiet, Less
<1>2. CancelListen(s) = CloseMic(v)
  BY DEF CancelListen
<1> HIDE DEF v
<1> QED BY <1>1, <1>2, CloseMicQuiet, QuietTwice DEF CloseMic, Wide

LEMMA ListenLess ==
    ASSUME NEW s, s \in Wide
    PROVE  LET r == Listen(s)
           IN  Less(s, r) /\ r.active = s.active /\ (Unbegun(s) => Unbegun(r))
<1> DEFINE a == [s EXCEPT !.voice = "LISTENING"]
           b == [a EXCEPT !.op = "input"]
           o == ~s.mic
           c == [b EXCEPT !.opens = o]
<1>1. a \in Wide
  BY SetVoice
<1>2. b \in Wide
  <2> HIDE DEF a
  <2> QED BY <1>1, SetOp
<1>3. o \in BOOLEAN
  OBVIOUS
<1>4. c \in Wide
  <2> HIDE DEF b, o
  <2> QED BY <1>2, <1>3, SetFlags
<1>5. Listen(s) = s \/ Listen(s) = c
  BY Zenon DEF Listen
<1>6. Listen(s) \in Wide
  BY <1>4, <1>5
<1> QED BY <1>6 DEF Wide, Listen, Less, Same, Unbegun

LEMMA StopSpeechQuiet ==
    ASSUME NEW s, s \in Wide
    PROVE  Quiet(s, StopSpeech(s))
<1> DEFINE v == IF s.op = "output" THEN Idle(s) ELSE s
<1>1. Quiet(s, v) /\ v \in Wide
  BY IdleQuiet, LessSelf DEF Quiet, Less
<1>2. StopSpeech(s) = [v EXCEPT !.sound = None]
  BY DEF StopSpeech
<1> HIDE DEF v
<1>3. StopSpeech(s) \in Wide
  BY <1>1, <1>2, SetTurns
<1>4. Quiet(v, StopSpeech(s))
  BY <1>1, <1>2, <1>3 DEF Wide, Quiet, Less, Same
<1> QED BY <1>1, <1>4, QuietTwice

LEMMA CancelPlayQuiet ==
    ASSUME NEW s, s \in Wide
    PROVE  LET r == CancelPlay(s)
           IN  /\ Quiet(s, r)
               /\ r.play = "off" /\ r.sound = None /\ r.turn = s.turn /\ r.text = s.text
               /\ r.bridge = s.bridge /\ r.voice = s.voice /\ r.op = s.op /\ r.mic = s.mic
               /\ r.held = s.held
<1> DEFINE a == [s EXCEPT !.play = "off"]
           b == [a EXCEPT !.playing = FALSE]
           c == [b EXCEPT !.more = None]
           d == [c EXCEPT !.sound = None]
<1>1. a \in Wide
  BY SetPlay
<1>2. b \in Wide
  <2> HIDE DEF a
  <2> QED BY <1>1, SetFlags
<1>3. c \in Wide
  <2> HIDE DEF b
  <2> QED BY <1>2, SetTurns
<1>4. d \in Wide
  <2> HIDE DEF c
  <2> QED BY <1>3, SetTurns
<1>5. CancelPlay(s) = d
  BY Zenon DEF CancelPlay
<1>6. CancelPlay(s) \in Wide
  BY <1>4, <1>5
<1> QED BY <1>6 DEF Wide, CancelPlay, Quiet, Less, Same

LEMMA CancelTextLess ==
    ASSUME NEW s, Core(s)
    PROVE  LET r == CancelText(s)
           IN  Quiet(s, r) /\ r = [s EXCEPT !.text = None] /\ r.text = None
BY SetText DEF Core, CancelText, Transcribed, Wide, Quiet, Less, Same

\* A segment goes to the device, or is refused.
LEMMA PlaySegmentTakes ==
    ASSUME NEW s, s \in Wide, NEW a \in Names
    PROVE  LET r == PlaySegment(s, a)
           IN  /\ r \in Wide /\ r.opens = s.opens /\ r.active = s.active
               /\ r.more = s.more /\ r.sound \in {s.sound, a}
               /\ Same(s, r) /\ r.chat = s.chat /\ r.next = s.next /\ r.held = s.held
               /\ r.turn = s.turn /\ r.text = s.text /\ r.bridge = s.bridge
               /\ r.play = s.play
<1> DEFINE e == ReportError(s)
           p == [s EXCEPT !.playing = TRUE]
<1>1. Quiet(s, e) /\ e \in Wide
  BY ReportErrorQuiet DEF Quiet, Less
<1>2. p \in Wide
  BY SetFlags
<1>3. [p EXCEPT !.sound = a] \in Wide
  <2> HIDE DEF p
  <2> QED BY <1>2, SetTurns
<1>4. [e EXCEPT !.playing = TRUE] \in Wide
  <2> HIDE DEF e
  <2> QED BY <1>1, SetFlags
<1>5. \/ PlaySegment(s, a) = [p EXCEPT !.sound = a]
      \/ PlaySegment(s, a) = [e EXCEPT !.playing = TRUE]
  BY Zenon DEF PlaySegment
<1>6. PlaySegment(s, a) \in Wide
  BY <1>3, <1>4, <1>5
<1> QED BY <1>6 DEF Wide, PlaySegment, ReportError, Idle, Same

LEMMA PlayMoreQuiet ==
    ASSUME NEW s, s \in Wide, s.more # None
    PROVE  LET r == PlayMore(s)
           IN  Quiet(s, r) /\ r.play = s.play /\ r.text = s.text
<1> DEFINE q == [s EXCEPT !.more = None]
<1>1. q \in Wide /\ s.more \in Names
  BY SetTurns DEF Wide
<1>2. PlayMore(s) = PlaySegment(q, s.more)
  BY DEF PlayMore
<1>3. /\ Quiet(s, q) /\ q.play = s.play /\ q.text = s.text /\ q.more = None
      /\ q.sound = s.sound
  BY <1>1 DEF Wide, Quiet, Less, Same
<1> HIDE DEF q
<1> QED BY <1>1, <1>2, <1>3, PlaySegmentTakes DEF Quiet, Less, Same

-----------------------------------------------------------------------------
(* The ends of a turn and of a conversation *)

\* Everything is given back, whatever there is.
LEMMA ReleaseTurnRests ==
    ASSUME NEW s, Core(s)
    PROVE  LET r == ReleaseTurn(s)
           IN  /\ Quiet(s, r)
               /\ r.voice = "IDLE" /\ r.op = "none" /\ ~r.mic /\ r.bridge = None
               /\ r.play = "off" /\ r.turn = None /\ r.text = None /\ r.sound = None
<1> DEFINE p == CancelListen(s)
           q == CancelPlay(p)
           c == CancelText(q)
           h == [c EXCEPT !.held = 0]
           t == IF s.turn = None THEN q ELSE h
           b == [t EXCEPT !.bridge = None]
           n == [b EXCEPT !.turn = None]
           u == [n EXCEPT !.out = FALSE]
           r == Idle(u)
<1>1. Quiet(s, p) /\ ~p.mic /\ p \in Wide
  BY CancelListenQuiet DEF Core, Quiet, Less
<1>2. ReleaseTurn(s) = r
  BY Zenon DEF ReleaseTurn
<1> HIDE DEF p
<1>3. Quiet(p, q) /\ q.play = "off" /\ q.sound = None /\ ~q.mic /\ q.text = p.text
  BY <1>1, CancelPlayQuiet
<1> HIDE DEF q
<1>4. Quiet(s, q) /\ Core(q) /\ q \in Wide
  BY <1>1, <1>3, QuietTwice, LessCore DEF Quiet, Core
<1>5. /\ Quiet(q, c) /\ c.text = None /\ c.play = "off" /\ c.sound = None /\ ~c.mic
      /\ c \in Wide
  BY <1>3, <1>4, CancelTextLess DEF Wide, Quiet, Less
<1> HIDE DEF c
<1>6. /\ Quiet(c, h) /\ h.text = None /\ h.play = "off" /\ h.sound = None /\ ~h.mic
      /\ h \in Wide
  BY <1>5, SetLedger DEF Wide, Quiet, Less, Same
<1> HIDE DEF h
<1>7. s.turn = None => q.text = None
  BY <1>4 DEF Core, Transcribed, Quiet, Less
<1>8. /\ Quiet(s, t) /\ t.text = None /\ t.play = "off" /\ t.sound = None /\ ~t.mic
      /\ t \in Wide
  BY <1>3, <1>4, <1>7, <1>5, <1>6, QuietTwice
<1> HIDE DEF t
<1>9. b \in Wide
  BY <1>8, SetTurns
<1>10. n \in Wide
  <2> HIDE DEF b
  <2> QED BY <1>9, SetTurns
<1>11. u \in Wide
  <2> HIDE DEF n
  <2> QED BY <1>10, SetFlags
<1>12. /\ Quiet(t, u) /\ u.text = None /\ u.play = "off" /\ u.sound = None /\ ~u.mic
       /\ u.turn = None /\ u.bridge = None
  BY <1>8, <1>11 DEF Wide, Quiet, Less, Same
<1> HIDE DEF u
<1>13. Quiet(u, r)
  BY <1>11, IdleQuiet
<1> QED BY <1>2, <1>8, <1>12, <1>13, <1>11, QuietTwice DEF Wide, Idle

\* The conversation ends, if it has not.
Ends(s, r) == Less(s, r) /\ Rested(r) /\ r.opens = s.opens /\ ~r.active

LEMMA GoneEnds ==
    ASSUME NEW s, Core(s), Rested(s)
    PROVE  Ends(s, Gone(s))
<1>1. CASE ~s.active
  BY <1>1, LessSelf DEF Core, Gone, Ends
<1>2. CASE s.active
  <2> DEFINE q == ReleaseTurn(s)
             r == [q EXCEPT !.active = FALSE]
  <2>1. /\ Quiet(s, q) /\ q \in Wide
        /\ q.voice = "IDLE" /\ q.op = "none" /\ ~q.mic /\ q.bridge = None
        /\ q.play = "off" /\ q.turn = None /\ q.text = None /\ q.sound = None
    BY ReleaseTurnRests DEF Quiet, Less
  <2>2. Gone(s) = r
    BY <1>2 DEF Gone
  <2> HIDE DEF q
  <2>3. r \in Wide
    BY <2>1, SetFlags
  <2> QED BY <2>1, <2>2, <2>3, LessTwice DEF Quiet, Ends, Wide, Less, Same, Rested
<1> QED BY <1>1, <1>2

LEMMA EndedEnds ==
    ASSUME NEW s, Core(s), Rested(s)
    PROVE  Ends(s, Ended(s))
<1> DEFINE g == Gone(s)
           r == [g EXCEPT !.halt = TRUE]
<1>1. Ends(s, g) /\ g \in Wide
  BY GoneEnds DEF Ends, Less
<1>2. CASE ~s.active
  BY <1>2, LessSelf DEF Core, Ended, Ends
<1>3. CASE s.active
  <2>1. Ended(s) = r
    BY <1>3 DEF Ended
  <2> HIDE DEF g
  <2>2. r \in Wide
    BY <1>1, SetFlags
  <2> QED BY <1>1, <2>1, <2>2, LessTwice DEF Ends, Wide, Less, Same, Rested
<1> QED BY <1>2, <1>3

\* A call is sent, or the conversation ends for want of a worker.
LEMMA SubmitRests ==
    ASSUME NEW s, Core(s), Rested(s), NEW op \in {"frame", "end", "interrupt"},
           NEW t \in Turns
    PROVE  LET r == Submit(s, op, t)
           IN  /\ Less(s, r) /\ Rested(r) /\ r.opens = s.opens
<1> DEFINE c == [op |-> op, turn |-> t]
           q == Append(s.sent, c)
           r == [s EXCEPT !.sent = q]
<1>1. s \in Wide
  BY DEF Core
<1>2. c \in Calls
  BY DEF Calls
<1>3. s.sent \in Seq(Calls)
  BY <1>1 DEF Wide, Sendings
<1>4. q \in Sendings
  <2> HIDE DEF c
  <2> QED BY <1>2, <1>3 DEF Sendings
<1>5. Submit(s, op, t) = r \/ Submit(s, op, t) = Ended(s)
  BY <1>1 DEF Submit, Wide
<1> HIDE DEF q
<1>6. r \in Wide
  BY <1>1, <1>4 DEF Wide
<1> QED BY <1>5, <1>1, <1>6, EndedEnds DEF Ends, Wide, Less, Same, Rested

-----------------------------------------------------------------------------
(* The beginning of a turn, and its completion *)

\* A handler's outcome, when nothing is written.
Goes(s, r) ==
    Core(r) /\ Rested(r) /\ Same(s, r) /\ r.chat = s.chat /\ (r.opens => r.active)

LEMMA LessGoes ==
    ASSUME NEW s, NEW r, Core(s), Less(s, r), Rested(r), r.opens => r.active
    PROVE  Goes(s, r)
  BY LessCore DEF Goes, Less

LEMMA GoesTwice ==
    ASSUME NEW s, NEW r, NEW q, Same(s, r), r.chat = s.chat, Goes(r, q)
    PROVE  Goes(s, q)
  BY DEF Goes, Same

\* The number that is given out next has not been given out before.
LEMMA AdoptIsNew ==
    ASSUME NEW s, Core(s), s.life # "IDLE", s.text = None
    PROVE  LET r == Adopt(s)
           IN  /\ Core(r) /\ Same(s, r) /\ r.chat = s.chat /\ r.active = s.active
               /\ r.turn # None /\ \A i \in 1..Len(r.chat) : r.chat[i] # r.turn
               /\ r.text = None /\ r.bridge = s.bridge /\ r.play = s.play
               /\ r.opens = s.opens /\ r.paused = s.paused
<1> DEFINE n == s.next
           x == <<s.session, s.next>>
           h == [s EXCEPT !.held = n]
           m == n + 1
           k == [h EXCEPT !.next = m]
           t == [k EXCEPT !.turn = x]
           o == [t EXCEPT !.out = FALSE]
           r == [o EXCEPT !.deaf = FALSE]
<1>1. /\ s \in Wide /\ n \in Nat \ {0} /\ m \in Nat \ {0} /\ s.session \in Sessions
      /\ x \in Names /\ x[1] = s.session /\ x[2] = n /\ n = s.next
  BY DEF Core, Wide, Lives, Names
<1>2. Adopt(s) = r
  BY Zenon DEF Adopt
<1>3. h \in Wide
  <2> HIDE DEF n
  <2> QED BY <1>1, SetLedger
<1>4. k \in Wide
  <2> HIDE DEF h, m
  <2> QED BY <1>1, <1>3, SetLedger
<1>5. t \in Wide
  <2> HIDE DEF k, x
  <2> QED BY <1>1, <1>4, SetTurns
<1>6. o \in Wide
  <2> HIDE DEF t
  <2> QED BY <1>5, SetFlags
<1>7. r \in Wide
  <2> HIDE DEF o
  <2> QED BY <1>6, SetFlags
<1>8. /\ r.held = n /\ r.next = n + 1 /\ r.turn = x /\ Same(s, r) /\ r.chat = s.chat
      /\ r.active = s.active /\ r.text = s.text /\ r.bridge = s.bridge
      /\ r.play = s.play /\ r.more = s.more /\ r.sound = s.sound /\ r.opens = s.opens
      /\ r.paused = s.paused
  BY <1>1, <1>7 DEF Wide, Same
<1> HIDE DEF r, n, x
<1>9. Bounded(r)
  BY <1>1, <1>7, <1>8, TurnNames DEF Core, Bounded, Named, Wide, Same
<1>10. x # None /\ \A i \in 1..Len(s.chat) : s.chat[i] \in Turns
  BY <1>1, TurnNames DEF Wide, Chats
<1>11. \A i \in 1..Len(s.chat) : s.chat[i] # x
  BY <1>1, <1>10 DEF Core, Numbered, Begun
<1>13. Numbered(r)
  BY <1>1, <1>8, <1>10, TurnNames DEF Core, Numbered, Begun, Same
<1>14. Transcribed(r) /\ Lives(r)
  BY <1>8 DEF Core, Transcribed, Lives, Same
<1> QED BY <1>2, <1>7, <1>8, <1>9, <1>10, <1>11, <1>13, <1>14 DEF Core

\* The transcript, the bridge and the queue take the turn, or one of them refuses.
LEMMA TakeTurnGoes ==
    ASSUME NEW s, Core(s), s.turn # None, s.text = None, s.play = "off",
           \A i \in 1..Len(s.chat) : s.chat[i] # s.turn
    PROVE  LET r == TakeTurn(s)
           IN  /\ Core(r) /\ Same(s, r) /\ r.chat = s.chat /\ r.active = s.active
               /\ r.opens = s.opens /\ r.paused = s.paused
               /\ s.bridge = None => ~r.raised \/ s.raised
<1> DEFINE x == [turn |-> s.turn, final |-> FALSE]
           y == s.turn
           t == [s EXCEPT !.text = x]
           b == [t EXCEPT !.bridge = y]
           o == [b EXCEPT !.play = "open"]
           p == [o EXCEPT !.playing = FALSE]
           m == [p EXCEPT !.more = None]
           r == TakeTurn(s)
<1>1. s \in Wide /\ y \in Names /\ x \in NamedText /\ x.turn = s.turn /\ y = s.turn
  BY DEF Core, Wide, NamedText
<1>2. /\ TakeTurn(s) = r /\ r \in {Raise(t), m}
      /\ s.bridge = None => r = m
  BY Zenon DEF TakeTurn
<1>3. t \in Wide
  <2> HIDE DEF x
  <2> QED BY <1>1, SetText
<1>4. b \in Wide
  <2> HIDE DEF t, y
  <2> QED BY <1>1, <1>3, SetTurns
<1>5. o \in Wide
  <2> HIDE DEF b
  <2> QED BY <1>4, SetPlay
<1>6. p \in Wide
  <2> HIDE DEF o
  <2> QED BY <1>5, SetFlags
<1>7. m \in Wide
  <2> HIDE DEF p
  <2> QED BY <1>6, SetTurns
<1>8. Raise(t) \in Wide
  <2> HIDE DEF t
  <2> QED BY <1>3, SetFlags DEF Raise
<1>9. /\ r \in Wide /\ Same(s, r) /\ r.chat = s.chat /\ r.active = s.active
      /\ r.turn = s.turn /\ r.text = x /\ r.bridge \in {s.bridge, s.turn}
      /\ r.play \in {"off", "open"} /\ r.more \in {s.more, None} /\ r.sound = s.sound
      /\ r.held = s.held /\ r.next = s.next /\ r.opens = s.opens /\ r.paused = s.paused
  <2>1. CASE r = Raise(t)
    <3> HIDE DEF r
    <3> QED BY <1>1, <1>8, <2>1 DEF Raise, Wide, Same
  <2>2. CASE r = m
    <3> HIDE DEF r
    <3> QED BY <1>1, <1>7, <2>2 DEF Wide, Same
  <2> HIDE DEF r, t, m
  <2> QED BY <1>2, <2>1, <2>2
<1>10. s.bridge = None => r.raised = s.raised
  <2> SUFFICES ASSUME r = m PROVE r.raised = s.raised
    BY <1>2
  <2> HIDE DEF r
  <2> QED BY <1>1, <1>7 DEF Wide
<1> HIDE DEF r, x
<1>11. Bounded(r)
  BY <1>1, <1>9 DEF Core, Bounded, Named, Same
<1>12. Numbered(r)
  BY <1>9 DEF Core, Numbered, Begun, Same
<1>13. Transcribed(r) /\ Lives(r)
  BY <1>1, <1>9 DEF Core, Transcribed, Lives, Same
<1> QED BY <1>2, <1>9, <1>10, <1>11, <1>12, <1>13 DEF Core

LEMMA RaiseQuiet ==
    ASSUME NEW s, s \in Wide
    PROVE  Quiet(s, Raise(s))
<1>1. Raise(s) \in Wide
  BY SetFlags DEF Raise
<1> QED BY <1>1 DEF Wide, Raise, Quiet, Less, Same

\* The next turn is begun, or something refuses.
LEMMA BeginTurnGoes ==
    ASSUME NEW s, Core(s), s.active, s.text = None, s.play = "off", ~s.opens
    PROVE  Goes(s, BeginTurn(s))
<1> DEFINE a == Adopt(s)
           t == TakeTurn(a)
<1>1. s \in Wide
  BY DEF Core
<1>2. CASE s.life # "ACTIVE" \/ s.held # 0
  BY <1>2, <1>1, RaiseQuiet, LessGoes DEF BeginTurn, Quiet, Rested
<1>3. CASE s.life = "ACTIVE" /\ s.held = 0
  <2>1. /\ Core(a) /\ Same(s, a) /\ a.chat = s.chat /\ a.active = s.active
        /\ a.turn # None /\ \A i \in 1..Len(a.chat) : a.chat[i] # a.turn
        /\ a.text = None /\ a.play = "off" /\ a.opens = s.opens
    BY <1>3, AdoptIsNew
  <2>2. BeginTurn(s) \in {t, Listen(t)}
    BY <1>3 DEF BeginTurn
  <2> HIDE DEF a
  <2>3. /\ Core(t) /\ Same(a, t) /\ t.chat = a.chat /\ t.active = a.active
        /\ t.opens = a.opens
    BY <2>1, TakeTurnGoes
  <2> HIDE DEF t
  <2>5. Less(t, t)
    BY <2>3, LessSelf DEF Core
  <2>6. Goes(t, Listen(t)) /\ Goes(t, t)
    BY <2>1, <2>3, <2>5, ListenLess, LessGoes DEF Rested, Core
  <2>7. Same(s, t)
    BY <2>1, <2>3 DEF Same
  <2> QED BY <2>1, <2>2, <2>3, <2>6, <2>7, GoesTwice
<1> QED BY <1>2, <1>3

\* The answer has been played: the next turn begins, or the conversation that was
\* paused ends.
LEMMA PlaybackCompletedGoes ==
    ASSUME NEW s, Core(s), Rested(s), ~s.opens, s.text = None, s.play = "off"
    PROVE  Goes(s, PlaybackCompleted(s))
<1> DEFINE x == IF Owns(s, s.held) THEN 0 ELSE s.held
           h == [s EXCEPT !.held = x]
           t == [h EXCEPT !.turn = None]
           o == [t EXCEPT !.out = FALSE]
           i == Idle(o)
<1>1. s \in Wide /\ x \in Nat /\ x \in {s.held, 0}
  BY DEF Core, Wide
<1>2. CASE ~s.active
  BY <1>1, <1>2, LessSelf, LessGoes DEF PlaybackCompleted
<1>3. CASE s.active /\ s.paused
  BY <1>3, EndedEnds, LessGoes DEF PlaybackCompleted, Ends
<1>4. CASE s.active /\ ~s.paused
  <2>1. PlaybackCompleted(s) = BeginTurn(i)
    BY <1>4, Zenon DEF PlaybackCompleted
  <2>2. h \in Wide
    <3> HIDE DEF x
    <3> QED BY <1>1, SetLedger
  <2>3. t \in Wide
    <3> HIDE DEF h
    <3> QED BY <2>2, SetTurns
  <2>4. o \in Wide
    <3> HIDE DEF t
    <3> QED BY <2>3, SetFlags
  <2>5. Quiet(s, o) /\ o.text = None /\ o.play = "off"
    <3> HIDE DEF x
    <3> QED BY <1>1, <2>4 DEF Wide, Quiet, Less, Same
  <2> HIDE DEF o
  <2>6. Quiet(o, i) /\ i.text = None /\ i.play = "off"
    BY <2>4, <2>5, IdleQuiet DEF Idle, Wide
  <2>7. Quiet(s, i)
    BY <2>5, <2>6, QuietTwice
  <2> HIDE DEF i
  <2>8. Core(i) /\ i.active /\ ~i.opens /\ Same(s, i) /\ i.chat = s.chat
    BY <1>4, <2>7, LessCore DEF Quiet, Less
  <2> QED BY <2>1, <2>6, <2>8, BeginTurnGoes, GoesTwice
<1> QED BY <1>2, <1>3, <1>4

LEMMA CompleteIfReadyGoes ==
    ASSUME NEW s, Core(s), Rested(s), ~s.opens
    PROVE  Goes(s, CompleteIfReady(s))
<1> DEFINE q == [s EXCEPT !.play = "off"]
<1>1. s \in Wide
  BY DEF Core
<1>2. CASE s.play # "finishing" \/ s.playing \/ s.more # None
  BY <1>1, <1>2, LessSelf, LessGoes DEF CompleteIfReady
<1>3. CASE s.play = "finishing" /\ ~s.playing /\ s.more = None
  <2>1. CompleteIfReady(s) = PlaybackCompleted(q)
    BY <1>3 DEF CompleteIfReady
  <2>2. q \in Wide
    BY <1>1, SetPlay
  <2>3. /\ Less(s, q) /\ q.active = s.active /\ q.opens = s.opens /\ q.play = "off"
        /\ q.text = s.text /\ (Rested(s) => Rested(q))
    BY <1>1, <2>2 DEF Wide, Less, Same, Rested
  <2>4. s.text = None
    BY <1>3 DEF Core, Transcribed
  <2> HIDE DEF q
  <2> QED BY <2>1, <2>3, <2>4, LessCore, PlaybackCompletedGoes, GoesTwice DEF Less
<1> QED BY <1>2, <1>3

LEMMA FinishTurnGoes ==
    ASSUME NEW s, Core(s), s.active, ~s.opens, s.text = None
    PROVE  Goes(s, FinishTurn(s))
<1> DEFINE f == [s EXCEPT !.play = "finishing"]
           g == IF f.more # None /\ ~f.playing THEN PlayMore(f) ELSE f
<1>1. s \in Wide
  BY DEF Core
<1>2. CASE s.play # "open"
  BY <1>1, <1>2, LessSelf, LessGoes DEF FinishTurn, Rested
<1>3. CASE s.play = "open"
  <2>1. FinishTurn(s) = CompleteIfReady(g)
    BY <1>3, Zenon DEF FinishTurn
  <2>2. f \in Wide
    BY <1>1, SetPlay
  <2>3. /\ f.session = s.session /\ f.life = s.life /\ f.thread = s.thread
        /\ f.chat = s.chat /\ f.next = s.next /\ f.held = s.held
        /\ f.turn = s.turn /\ f.text = s.text /\ f.bridge = s.bridge /\ f.more = s.more
        /\ f.sound = s.sound /\ f.active = s.active /\ f.opens = s.opens
    BY ZenonT(40), <1>1, <2>2 DEF Wide
  <2> HIDE DEF f
  <2>4. Bounded(f) /\ Numbered(f)
    BY <2>3 DEF Core, Bounded, Named, Numbered, Begun, Same
  <2>5. Transcribed(f) /\ Lives(f)
    BY <2>3 DEF Core, Transcribed, Lives, Same
  <2>6. Core(f)
    BY <2>2, <2>4, <2>5 DEF Core
  <2>7. Quiet(f, g)
    BY <2>2, PlayMoreQuiet, LessSelf DEF Quiet
  <2> HIDE DEF g
  <2>8. Core(g) /\ Rested(g) /\ ~g.opens /\ Same(s, g) /\ g.chat = s.chat
    BY <2>3, <2>6, <2>7, LessCore DEF Quiet, Less, Rested, Same
  <2> QED BY <2>1, <2>8, CompleteIfReadyGoes, GoesTwice
<1> QED BY <1>2, <1>3

\* The user has finished: the call goes out, or the conversation ends.
LEMMA EndUserTurnGoes ==
    ASSUME NEW s, Core(s), Rested(s), ~s.opens, s.turn \in Turns \cup {None}
    PROVE  Goes(s, EndUserTurn(s)) /\ (Unbegun(s) => Unbegun(EndUserTurn(s)))
<1> DEFINE b == [s EXCEPT !.bridge = None]
<1>1. s \in Wide
  BY DEF Core
<1>2. b \in Wide
  BY <1>1, SetTurns
<1>3. Less(s, b) /\ b.opens = s.opens /\ Rested(b)
  BY <1>1, <1>2 DEF Wide, Less, Same, Rested
<1>4. EndUserTurn(s) = b \/ (s.turn # None /\ EndUserTurn(s) = Submit(b, "end", s.turn))
  BY Zenon DEF EndUserTurn
<1> HIDE DEF b
<1>5. Core(b) /\ (Unbegun(s) => Unbegun(b))
  BY <1>3, LessCore
<1>6. CASE EndUserTurn(s) = b
  BY <1>3, <1>5, <1>6, LessGoes
<1>7. CASE s.turn # None /\ EndUserTurn(s) = Submit(b, "end", s.turn)
  <2>1. /\ Less(b, EndUserTurn(s)) /\ Rested(EndUserTurn(s))
        /\ EndUserTurn(s).opens = b.opens
    BY <1>3, <1>5, <1>7, SubmitRests
  <2>2. Less(s, EndUserTurn(s))
    BY <1>3, <2>1, LessTwice
  <2> QED BY <1>3, <2>1, <2>2, LessGoes, LessCore
<1> QED BY <1>4, <1>6, <1>7

-----------------------------------------------------------------------------
(* What the worker says *)

\* Audio is named by a turn the bounds allow.
LEMMA SoundCore ==
    ASSUME NEW s, NEW r, Core(s), r \in Wide, Same(s, r), r.chat = s.chat,
           r.next = s.next, r.held = s.held, r.turn = s.turn, r.text = s.text,
           r.bridge = s.bridge, r.play = s.play,
           r.more = s.more \/ r.more \in Turns, r.sound = s.sound \/ r.sound \in Turns
    PROVE  Core(r)
BY DEF Core, Bounded, Named, Same, Numbered, Begun, Transcribed, Lives

LEMMA HandleFinalGoes ==
    ASSUME NEW s, Core(s), Rested(s), ~s.opens, NEW n
    PROVE  Goes(s, HandleFinal(s, n)) /\ (Unbegun(s) => Unbegun(HandleFinal(s, n)))
<1> DEFINE x == [s.text EXCEPT !.final = TRUE]
           r == [s EXCEPT !.text = x]
<1>1. s \in Wide
  BY DEF Core
<1>2. HandleFinal(s, n) = s \/ (s.text # None /\ HandleFinal(s, n) = r)
  BY Zenon DEF HandleFinal
<1>3. CASE HandleFinal(s, n) = s
  BY <1>1, <1>3, LessSelf, LessGoes
<1>4. CASE s.text # None /\ HandleFinal(s, n) = r
  <2>1. s.text \in NamedText
    BY <1>1, <1>4 DEF Wide
  <2>2. x \in NamedText /\ x.turn = s.text.turn
    BY <2>1 DEF NamedText
  <2> HIDE DEF x
  <2>3. r \in Wide
    BY <1>1, <2>2, SetText
  <2>4. /\ Same(s, r) /\ r.chat = s.chat /\ r.next = s.next /\ r.held = s.held
        /\ r.turn = s.turn /\ r.text = x /\ r.bridge = s.bridge /\ r.play = s.play
        /\ r.more = s.more /\ r.sound = s.sound /\ r.opens = s.opens
        /\ r.active = s.active
    BY <1>1, <2>3 DEF Wide, Same
  <2> HIDE DEF r
  <2>5. Bounded(r)
    BY <1>4, <2>2, <2>4 DEF Core, Bounded, Named, Same
  <2>6. Numbered(r)
    BY <2>4 DEF Core, Numbered, Begun, Same
  <2>7. Transcribed(r) /\ Lives(r)
    BY <1>4, <2>2, <2>4 DEF Core, Transcribed, Lives, Same
  <2>8. s.active
    BY <1>4 DEF Rested
  <2> QED BY <1>4, <2>3, <2>4, <2>5, <2>6, <2>7, <2>8 DEF Core, Goes, Rested, Unbegun
<1> QED BY <1>2, <1>3, <1>4

LEMMA HandleAudioGoes ==
    ASSUME NEW s, Core(s), Rested(s), ~s.opens, NEW n, NEW of \in Numbers \ {0},
           NEW r \in HandleAudio(s, n, of)
    PROVE  Goes(s, r) /\ (Unbegun(s) => Unbegun(r))
<1> DEFINE p == [s EXCEPT !.op = "output"]
           o == [p EXCEPT !.out = TRUE]
           c == IF s.out THEN s ELSE o
           a == <<s.thread, of>>
           q == [c EXCEPT !.more = a]
<1>1. s \in Wide
  BY DEF Core
<1>2. CASE r = s
  BY <1>1, <1>2, LessSelf, LessGoes
<1>3. CASE r = Ended(s)
  BY <1>3, EndedEnds, LessGoes, LessCore DEF Ends
<1>4. CASE Owns(s, n) /\ r # s /\ r # Ended(s)
  <2>1. /\ r \in {Ended(c), q, PlaySegment(c, a)}
        /\ r = Ended(c) \/ c.turn[1] = c.thread
    BY <1>4, Zenon DEF HandleAudio
  <2>2. p \in Wide
    BY <1>1, SetOp
  <2>3. o \in Wide
    <3> HIDE DEF p
    <3> QED BY <2>2, SetFlags
  <2>4. s.active /\ s.turn # None
    BY <1>4 DEF Owns
  <2>5. Quiet(s, c) /\ c \in Wide /\ c.turn = s.turn /\ c.thread = s.thread
    BY <1>1, <2>3, LessSelf DEF Wide, Quiet, Less, Same
  <2> HIDE DEF c
  <2>6. Core(c) /\ c.active /\ Rested(c) /\ ~c.opens /\ Same(s, c) /\ c.chat = s.chat
    BY <2>4, <2>5, LessCore DEF Quiet, Less, Rested
  <2>7. CASE r = Ended(c)
    BY <2>4, <2>6, <2>7, EndedEnds, LessGoes, GoesTwice DEF Ends, Unbegun
  <2>8. CASE c.turn[1] = c.thread /\ r \in {q, PlaySegment(c, a)}
    <3>1. a \in Turns /\ a \in Names
      BY <1>1, <2>4, <2>5, <2>8, TurnNames DEF Wide, Turns, Numbers
    <3> HIDE DEF a
    <3>2. q \in Wide
      BY <2>5, <3>1, SetTurns
    <3>4. Goes(c, q)
      BY <2>6, <3>1, <3>2, <2>5, SoundCore DEF Goes, Rested, Wide, Same
    <3>5. Goes(c, PlaySegment(c, a))
      BY <2>5, <2>6, <3>1, PlaySegmentTakes, SoundCore DEF Goes, Rested
    <3> QED BY <2>4, <2>6, <2>8, <3>4, <3>5, GoesTwice DEF Unbegun
  <2> QED BY <2>1, <2>7, <2>8
<1>5. Owns(s, n) \/ r = s
  BY DEF HandleAudio
<1> QED BY <1>2, <1>3, <1>4, <1>5

\* The outcome of a completed turn that is written.
Writes(s, r) ==
    /\ Core(r) /\ Rested(r) /\ Same(s, r) /\ (r.opens => r.active)
    /\ s.turn # None /\ s.turn[2] \notin s.barred
    /\ \A i \in 1..Len(s.chat) : s.chat[i] # s.turn
    /\ r.chat = Append(s.chat, s.turn)

LEMMA HandleCompletedWrites ==
    ASSUME NEW s, Core(s), Rested(s), ~s.opens, s.turn \in Turns \cup {None}, NEW n,
           NEW r \in HandleCompleted(s, n)
    PROVE  Goes(s, r) \/ Writes(s, r)
<1> DEFINE k == Kept(s)
           h == Append(k.chat, s.text.turn)
           x == [k EXCEPT !.chat = h]
           c == CancelText(s)
<1>1. s \in Wide
  BY DEF Core
<1>2. CASE r = s
  BY <1>1, <1>2, LessSelf, LessGoes
<1>3. CASE r = Ended(s)
  BY <1>3, EndedEnds, LessGoes DEF Ends
<1>4. CASE Owns(s, n) /\ ~Barred(s, n) /\ r # s /\ r # Ended(s)
  <2>1. \/ r \in {FinishTurn(x), Ended(k)} /\ s.text # None
        \/ r = FinishTurn(c)
    BY <1>4, Zenon DEF HandleCompleted
  <2>2. s.active /\ s.turn # None /\ s.turn[2] \notin s.barred /\ s.turn \in Turns
    BY <1>4 DEF Owns, Barred
  <2>3. k \in Wide
    BY <1>1, SetText DEF Kept
  <2>4. Quiet(s, k) /\ k.text = None /\ k.turn = s.turn
    BY <1>1, <2>3 DEF Wide, Kept, Quiet, Less, Same
  <2> HIDE DEF k
  <2>5. Core(k) /\ k.active /\ Rested(k) /\ ~k.opens /\ Same(s, k) /\ k.chat = s.chat
        /\ k.turn = s.turn
    BY <2>2, <2>3, <2>4, LessCore DEF Quiet, Less, Rested
  <2>6. CASE r = Ended(k)
    BY <2>5, <2>6, EndedEnds, LessGoes, GoesTwice DEF Ends
  <2>7. CASE r = FinishTurn(c)
    <3>1. Quiet(s, c) /\ c.text = None
      BY CancelTextLess
    <3> HIDE DEF c
    <3> QED BY <2>7, <3>1, <2>2, LessCore, FinishTurnGoes, GoesTwice DEF Quiet, Less
  <2>8. CASE r = FinishTurn(x) /\ s.text # None
    <3>1. s.text.turn = s.turn /\ \A i \in 1..Len(s.chat) : s.chat[i] # s.turn
      BY <2>8 DEF Core, Transcribed
    <3>2. h = Append(s.chat, s.turn) /\ h \in Chats /\ s.chat \in Seq(Turns)
      BY <1>1, <2>2, <2>5, <3>1 DEF Chats, Wide
    <3> HIDE DEF h
    <3>3. x \in Wide
      BY <2>3, <3>2, SetSeqs
    <3>4. /\ Same(k, x) /\ x.chat = h /\ x.next = k.next /\ x.held = k.held
          /\ x.turn = k.turn /\ x.text = None /\ x.bridge = k.bridge /\ x.play = k.play
          /\ x.more = k.more /\ x.sound = k.sound /\ x.opens = k.opens
          /\ x.active = k.active
      BY <2>3, <2>4, <3>3 DEF Wide, Same
    <3> HIDE DEF x
    <3>5. Bounded(x)
      BY <2>5, <3>4 DEF Core, Bounded, Named, Same
    <3>7. Numbered(x)
      BY <2>4, <2>5, <3>4, <2>2, <3>2 DEF Same, Quiet, Less, Begun, Core, Numbered
    <3>9. Core(x) /\ x.active /\ ~x.opens /\ Same(s, x)
      BY <2>5, <3>3, <3>4, <3>5, <3>7 DEF Core, Same, Transcribed, Lives
    <3>10. Goes(x, r)
      BY <2>8, <3>4, <3>9, FinishTurnGoes
    <3> QED BY <2>2, <3>1, <3>2, <3>4, <3>9, <3>10 DEF Goes, Writes, Same
  <2> QED BY <2>1, <2>6, <2>7, <2>8
<1> QED BY <1>2, <1>3, <1>4 DEF HandleCompleted

\* Whatever the worker says: nothing is written, or the open turn is.
LEMMA HandledGoes ==
    ASSUME NEW s, Core(s), Rested(s), ~s.opens, s.turn \in Turns \cup {None},
           NEW m \in Signals, m.kind = "audio" => m.of # 0,
           m.kind = "connected" => Unbegun(s), NEW r \in Handled(s, m)
    PROVE  /\ Goes(s, r) \/ Writes(s, r)
           /\ Unbegun(s) => m.kind = "connected" \/ (Goes(s, r) /\ Unbegun(r))
<1> DEFINE g == Gone(s)
           f == [g EXCEPT !.thread = None]
           h == [s EXCEPT !.halt = TRUE]
<1>1. s \in Wide /\ m.of \in Numbers
  BY DEF Core, Signals
<1>2. /\ Goes(s, s)
      /\ Goes(s, Ended(s)) /\ (Unbegun(s) => Unbegun(Ended(s)))
      /\ Goes(s, g) /\ (Unbegun(s) => Unbegun(g))
  BY <1>1, LessSelf, EndedEnds, GoneEnds, LessGoes, LessCore DEF Ends
<1>3. CASE m.kind = "connected"
  <2>1. r \in {Ended(s), h} \/ (r = BeginTurn(s) /\ s.active)
    <3>1. r = IF s.paused THEN Ended(s) ELSE IF s.active THEN BeginTurn(s) ELSE h
      BY <1>3, Zenon DEF Handled
    <3> QED BY <3>1, Zenon
  <2>2. h \in Wide
    BY <1>1, SetFlags
  <2>3. Less(s, h) /\ h.opens = s.opens /\ Rested(h)
    BY <1>1, <2>2 DEF Wide, Less, Same, Rested
  <2>4. Goes(s, h)
    <3> HIDE DEF h
    <3> QED BY <2>3, LessGoes
  <2> HIDE DEF h
  <2> QED BY <1>2, <1>3, <2>1, <2>4, BeginTurnGoes DEF Unbegun
<1>4. CASE m.kind = "final"
  <2>1. r = HandleFinal(s, m.turn)
    BY <1>4, Zenon DEF Handled
  <2> QED BY <2>1, HandleFinalGoes
<1>5. CASE m.kind = "audio"
  <2>1. r \in HandleAudio(s, m.turn, m.of)
    BY <1>5, Zenon DEF Handled
  <2> QED BY <1>1, <1>5, <2>1, HandleAudioGoes
<1>6. CASE m.kind = "interrupted"
  <2>1. r \in {ReleaseTurn(s), s}
    BY <1>6, Zenon DEF Handled
  <2> QED BY <1>2, <2>1, ReleaseTurnRests, LessGoes, LessCore DEF Quiet, Rested
<1>7. CASE m.kind = "completed"
  <2>1. r \in HandleCompleted(s, m.turn)
    BY <1>7, Zenon DEF Handled
  <2>2. Unbegun(s) => r = s
    BY <2>1 DEF HandleCompleted, Owns, Unbegun
  <2> QED BY <1>2, <2>1, <2>2, HandleCompletedWrites
<1>8. CASE m.kind = "failed"
  <2>1. r = Ended(s)
    BY <1>8, Zenon DEF Handled
  <2> QED BY <1>2, <2>1
<1>9. CASE m.kind = "idle"
  <2>1. r = g
    BY <1>9, Zenon DEF Handled
  <2> QED BY <1>2, <2>1
<1>10. CASE m.kind = "finished"
  <2>1. r = f
    BY <1>10, Zenon DEF Handled
  <2>2. g \in Wide /\ ~g.active /\ ~g.opens /\ Rested(g)
    BY GoneEnds DEF Ends, Less
  <2> HIDE DEF g
  <2>3. f \in Wide
    BY <2>2 DEF Wide
  <2>4. /\ Less(g, f) /\ f.opens = g.opens /\ Rested(f) /\ (Unbegun(g) => Unbegun(f))
    BY <2>2, <2>3 DEF Wide, Less, Same, Rested, Unbegun
  <2> HIDE DEF f
  <2>5. Goes(g, f)
    BY <1>2, <2>2, <2>4, LessGoes DEF Goes
  <2> QED BY <1>2, <2>1, <2>4, <2>5, GoesTwice DEF Goes
<1>11. m.kind \in {"connected", "audio", "final", "completed", "interrupted",
                   "failed", "idle", "finished"}
  BY DEF Signals
<1> QED BY <1>3, <1>4, <1>5, <1>6, <1>7, <1>8, <1>9, <1>10, <1>11

-----------------------------------------------------------------------------
(* A handler's outcome becomes the state *)

Desks == Seq(Calls)
Wires == Seq(Events)
Tries == 0..MaxTries
Servers == [stage: {"quiet", "hearing", "owing"}, turn: Numbers, lost: BOOLEAN]
Phases == {"new", "spawned", "checked", "connecting", "live", "failed", "closing", "done"}

LEMMA WorkerIs ==
    /\ Worker = [phase: Phases, stop: BOOLEAN, own: BOOLEAN,
                 link: {"IDLE", "STARTING", "ACTIVE", "STOPPING", "ERROR"},
                 turn: Numbers, complete: BOOLEAN, quarantine: Numbers, crossed: BOOLEAN,
                 tries: Tries, calls: Desks, wire: Wires, server: Servers]
    /\ Silent \in Servers /\ 0 \in Numbers /\ 0 \in Tries
    /\ <<>> \in Desks /\ <<>> \in Wires /\ <<>> \in Sendings
<1>1. Worker = [phase: Phases, stop: BOOLEAN, own: BOOLEAN,
                link: {"IDLE", "STARTING", "ACTIVE", "STOPPING", "ERROR"},
                turn: Numbers, complete: BOOLEAN, quarantine: Numbers, crossed: BOOLEAN,
                tries: Tries, calls: Desks, wire: Wires, server: Servers]
  BY Zenon DEF Worker, Phases, Tries, Desks, Wires, Servers
<1>2. 0 \in Numbers /\ 0 \in Tries
  BY BoundsAssumption DEF Numbers, Tries
<1>3. Silent \in Servers
  BY <1>2 DEF Servers, Silent
<1> QED BY <1>1, <1>2, <1>3 DEF Desks, Wires, Sendings

LEMMA DoomedIs ==
    ASSUME NEW r \in Worker
    PROVE  /\ Doomed(r) \in Worker /\ Heeds(Doomed(r)) /\ Doomed(r).stop
           /\ Doomed(r).phase = r.phase /\ Doomed(r).link = r.link
           /\ Doomed(r).crossed = r.crossed /\ Doomed(r).own = r.own
<1> DEFINE a == [r EXCEPT !.stop = TRUE]
           b == [a EXCEPT !.calls = <<>>]
           c == [b EXCEPT !.wire = <<>>]
           d == [c EXCEPT !.turn = 0]
           e == [d EXCEPT !.complete = FALSE]
           f == [e EXCEPT !.quarantine = 0]
           g == [f EXCEPT !.tries = 0]
           h == [g EXCEPT !.server = Silent]
<1>1. Doomed(r) = h
  BY Zenon DEF Doomed
<1>2. a \in Worker
  BY WorkerIs
<1>3. b \in Worker
  <2> HIDE DEF a
  <2> QED BY <1>2, WorkerIs
<1>4. c \in Worker
  <2> HIDE DEF b
  <2> QED BY <1>3, WorkerIs
<1>5. d \in Worker
  <2> HIDE DEF c
  <2> QED BY <1>4, WorkerIs
<1>6. e \in Worker
  <2> HIDE DEF d
  <2> QED BY <1>5, WorkerIs
<1>7. f \in Worker
  <2> HIDE DEF e
  <2> QED BY <1>6, WorkerIs
<1>8. g \in Worker
  <2> HIDE DEF f
  <2> QED BY <1>7, WorkerIs
<1>9. h \in Worker
  <2> HIDE DEF g
  <2> QED BY <1>8, WorkerIs
<1>10. /\ h.turn = 0 /\ h.server = Silent /\ h.wire = <<>> /\ h.phase = r.phase
       /\ h.link = r.link /\ h.crossed = r.crossed /\ h.own = r.own /\ h.stop
  BY <1>9, WorkerIs
<1>11. Silent.stage = "quiet"
  BY DEF Silent
<1> HIDE DEF h
<1> QED BY <1>1, <1>9, <1>10, <1>11 DEF Heeds

LEMMA AppIs ==
    App = [active: BOOLEAN, thread: Sessions \cup {None}, turn: Turns \cup {None},
           out: BOOLEAN, voice: {"IDLE", "LISTENING", "THINKING"},
           op: {"none", "input", "output"},
           mic: BOOLEAN, heard: BOOLEAN, renew: BOOLEAN,
           bridge: Turns \cup {None}, text: Text \cup {None},
           play: {"off", "open", "finishing"}, playing: BOOLEAN,
           more: Turns \cup {None}, sound: Turns \cup {None},
           life: {"IDLE", "STARTING", "ACTIVE", "STOPPING", "ERROR"},
           session: Sessions \cup {None}, held: Numbers, next: 1..(MaxTurns + 1),
           paused: BOOLEAN, barred: Bars,
           chat: Chats, deaf: BOOLEAN, alone: BOOLEAN,
           halt: BOOLEAN, sent: Sendings, opens: BOOLEAN, raised: BOOLEAN]
  BY Zenon DEF App, Bars, Chats, Sendings

\* The bound of Do keeps the names within the bounds.
LEMMA WithinBounds ==
    ASSUME NEW s \in Wide, Bounded(s), s.session # None => s.next <= LastTurn(s.session) + 1
    PROVE  s \in App
<1>1. s.next \in 1..(MaxTurns + 1)
  BY TurnNames DEF Wide, Bounded, LastTurn
<1>2. ASSUME NEW t \in Names \cup {None}, Named(s, t)
      PROVE  t \in Turns \cup {None}
  BY <1>1, <1>2, TurnNames DEF Named
<1>3. s.held \in Numbers
  BY <1>1, TurnNames DEF Wide, Bounded, Numbers
<1>6. s \in [active: BOOLEAN, thread: Sessions \cup {None}, turn: Turns \cup {None},
        out: BOOLEAN, voice: {"IDLE", "LISTENING", "THINKING"},
        op: {"none", "input", "output"},
        mic: BOOLEAN, heard: BOOLEAN, renew: BOOLEAN,
        bridge: Turns \cup {None}, text: Text \cup {None},
        play: {"off", "open", "finishing"}, playing: BOOLEAN,
        more: Turns \cup {None}, sound: Turns \cup {None},
        life: {"IDLE", "STARTING", "ACTIVE", "STOPPING", "ERROR"},
        session: Sessions \cup {None}, held: Numbers, next: 1..(MaxTurns + 1),
        paused: BOOLEAN, barred: Bars,
        chat: Chats, deaf: BOOLEAN, alone: BOOLEAN,
        halt: BOOLEAN, sent: Sendings, opens: BOOLEAN, raised: BOOLEAN]
  BY <1>1, <1>3, <1>2, TurnNames DEF Wide, Bounded, NamedText, Text
<1> QED BY <1>6, AppIs, Zenon

LEMMA AppIsWide ==
    ASSUME NEW s \in App
    PROVE  s \in Wide
<1>1. s \in [active: BOOLEAN, thread: Sessions \cup {None}, turn: Turns \cup {None},
        out: BOOLEAN, voice: {"IDLE", "LISTENING", "THINKING"},
        op: {"none", "input", "output"},
        mic: BOOLEAN, heard: BOOLEAN, renew: BOOLEAN,
        bridge: Turns \cup {None}, text: Text \cup {None},
        play: {"off", "open", "finishing"}, playing: BOOLEAN,
        more: Turns \cup {None}, sound: Turns \cup {None},
        life: {"IDLE", "STARTING", "ACTIVE", "STOPPING", "ERROR"},
        session: Sessions \cup {None}, held: Numbers, next: 1..(MaxTurns + 1),
        paused: BOOLEAN, barred: Bars,
        chat: Chats, deaf: BOOLEAN, alone: BOOLEAN,
        halt: BOOLEAN, sent: Sendings, opens: BOOLEAN, raised: BOOLEAN]
  BY AppIs, Zenon
<1>4. \A x \in Numbers : x \in Nat
  BY DEF Numbers
<1>5. \A x \in 1..(MaxTurns + 1) : x \in Nat \ {0}
  OBVIOUS
<1> QED BY <1>1, <1>4, <1>5, TurnNames DEF Wide, Text, NamedText

\* What Do makes of an outcome, before the signals.
Done(r) ==
    /\ app' \in App /\ ~app'.halt /\ app'.sent = <<>> /\ ~app'.opens /\ ~app'.raised
    /\ Core(app') /\ Rested(app') /\ Same(r, app') /\ app'.chat = r.chat
    /\ Unbegun(r) => Unbegun(app')
    /\ workers' \in [Sessions -> Worker]
    /\ \A w \in Sessions :
          /\ workers'[w].phase = workers[w].phase /\ workers'[w].link = workers[w].link
          /\ Heeds(workers'[w])

LEMMA DoDone ==
    ASSUME IInv, NEW r, Core(r), Rested(r), r.opens => r.active, Do(r)
    PROVE  Done(r)
<1>1. r \in Wide
  BY DEF Core
<1> DEFINE m == [r EXCEPT !.mic = TRUE]
           e == ReportError(r)
<1>2. Less(r, m) /\ m.active = r.active
  <2>1. m \in Wide
    BY <1>1, SetFlags
  <2> QED BY <1>1, <2>1 DEF Wide, Less, Same
<1>3. Less(r, e) /\ e.active = r.active
  BY <1>1, ReportErrorQuiet DEF Quiet
<1> HIDE DEF m, e
<1>4. PICK q \in IF r.opens THEN {m, e} ELSE {r} :
        /\ q.session # None => q.next <= LastTurn(q.session) + 1
        /\ app' = [q EXCEPT !.halt = FALSE, !.sent = <<>>, !.opens = FALSE, !.raised = FALSE]
        /\ workers' =
              IF q.thread = None \/ ~Reachable(q.thread) THEN workers
              ELSE [workers EXCEPT ![q.thread] =
                       IF q.halt \/ workers[q.thread].stop THEN Doomed(workers[q.thread])
                       ELSE [workers[q.thread] EXCEPT
                               !.calls = workers[q.thread].calls \o q.sent]]
  BY Zenon DEF Do, m, e
<1>5. Less(r, q) /\ Rested(q) /\ q \in Wide
  BY <1>1, <1>2, <1>3, <1>4, LessSelf DEF Rested, Less
<1> DEFINE a == [q EXCEPT !.halt = FALSE]
           b == [a EXCEPT !.sent = <<>>]
           c == [b EXCEPT !.opens = FALSE]
           d == [c EXCEPT !.raised = FALSE]
<1>6. a \in Wide
  BY <1>5, SetFlags
<1>7. b \in Wide
  <2> HIDE DEF a
  <2> QED BY <1>6, SetSeqs, WorkerIs
<1>8. c \in Wide
  <2> HIDE DEF b
  <2> QED BY <1>7, SetFlags
<1>9. d \in Wide
  <2> HIDE DEF c
  <2> QED BY <1>8, SetFlags
<1>10. app' = d
  BY <1>4, Zenon
<1>11. /\ Less(q, d) /\ Rested(d) /\ ~d.halt /\ d.sent = <<>> /\ ~d.opens /\ ~d.raised
       /\ d.session = q.session
  BY <1>5, <1>9 DEF Wide, Less, Same, Rested
<1> HIDE DEF d
<1>12. Less(r, d)
  BY <1>5, <1>11, LessTwice
<1>13. Core(d) /\ (Unbegun(r) => Unbegun(d))
  BY <1>12, LessCore
<1>14. d \in App
  BY <1>4, <1>11, <1>13, WithinBounds DEF Core, Less
<1>15. /\ app' \in App /\ ~app'.halt /\ app'.sent = <<>> /\ ~app'.opens /\ ~app'.raised
       /\ Core(app') /\ Rested(app') /\ Same(r, app') /\ app'.chat = r.chat
       /\ Unbegun(r) => Unbegun(app')
  BY <1>10, <1>11, <1>12, <1>13, <1>14 DEF Less
<1>16. workers \in [Sessions -> Worker] /\ \A w \in Sessions : Heeds(workers[w])
  BY DEF IInv, TypeOK
<1>17. CASE workers' = workers
  BY <1>15, <1>16, <1>17 DEF Done
<1>18. CASE q.thread # None /\ workers' # workers
  <2> DEFINE t == q.thread
             u == workers[t]
             x == u.calls \o q.sent
             v == [u EXCEPT !.calls = x]
  <2>1. t \in Sessions /\ u \in Worker /\ Heeds(u) /\ t = q.thread
    BY <1>5, <1>16, <1>18 DEF Wide
  <2>2. \/ workers' = [workers EXCEPT ![t] = Doomed(u)]
        \/ workers' = [workers EXCEPT ![t] = v]
    <3>0. ~(q.thread = None \/ ~Reachable(q.thread))
      BY <1>4, <1>18, Zenon
    <3>1. workers' = [workers EXCEPT ![q.thread] =
                         IF q.halt \/ workers[q.thread].stop THEN Doomed(workers[q.thread])
                         ELSE [workers[q.thread] EXCEPT
                                 !.calls = workers[q.thread].calls \o q.sent]]
      BY <1>4, <3>0, Zenon
    <3> QED BY <3>1, Zenon
  <2>3. x \in Desks
    BY <1>5, <2>1, WorkerIs DEF Wide, Desks, Sendings
  <2> HIDE DEF x, u, t
  <2>4. v \in Worker /\ Heeds(v) /\ v.phase = u.phase /\ v.link = u.link
    BY <2>1, <2>3, WorkerIs DEF Heeds
  <2>5. /\ Doomed(u) \in Worker /\ Heeds(Doomed(u))
        /\ Doomed(u).phase = u.phase /\ Doomed(u).link = u.link
    BY <2>1, DoomedIs
  <2>6. PICK z \in {v, Doomed(u)} : workers' = [workers EXCEPT ![t] = z]
    BY <2>2
  <2> HIDE DEF v
  <2> QED BY <1>15, <1>16, <2>1, <2>4, <2>5, <2>6 DEF Done, u
<1> QED BY <1>4, <1>17, <1>18

LEMMA DoneKeeps ==
    ASSUME IInv, NEW r, Done(r), Same(app, r), Connecting', signals' \in Seq(Signals),
           Told'
    PROVE  IInv'
<1>1. /\ app' \in App /\ ~app'.halt /\ app'.sent = <<>> /\ ~app'.opens /\ ~app'.raised
      /\ Core(app') /\ Rested(app') /\ app'.session = app.session
      /\ workers' \in [Sessions -> Worker]
      /\ \A w \in Sessions :
            /\ workers'[w].phase = workers[w].phase /\ workers'[w].link = workers[w].link
            /\ Heeds(workers'[w])
  BY DEF Done, Same
<1>2. app' \in Wide
  BY <1>1, AppIsWide
<1>3. Numbered(app)'
  <2>1. app'.session \in Sessions \cup {None} /\ app'.turn \in Names \cup {None}
        /\ app'.chat \in Seq(Turns)
    BY <1>2 DEF Wide, Chats
  <2>2. \A t : t[1] \in Sessions /\ Begun(app', t) => Begun(app, t)'
    BY <1>1 DEF Begun
  <2>5. \A i \in 1..Len(app'.chat) : Begun(app, app.chat[i])'
    BY <1>1, <2>1, <2>2, TurnNames DEF Core, Numbered
  <2> QED BY <1>1, <2>1, <2>2, <2>5, TurnNames DEF Numbered, Core
<1>4. Good(app)'
  BY <1>1, <1>3 DEF Good, Core, Rested, Bounded, Named, Transcribed, Lives
<1>5. Held'
  BY <1>1 DEF IInv, Held, Free
<1> QED BY <1>1, <1>4, <1>5 DEF IInv, TypeOK

\* A handler keeps the invariant, and what it writes is what it has decided.
LEMMA DoKeeps ==
    ASSUME IInv, NEW r, Goes(app, r), Unbegun(app) => Unbegun(r), Do(r),
           UNCHANGED signals
    PROVE  IInv' /\ app'.chat = app.chat
BY DoDone, AppIsWide, DoneKeeps DEF Goes, Done, Same, Wide, Unbegun, IInv, Connecting, Says,
   TypeOK, Told

LEMMA DeliverKeeps ==
    ASSUME IInv, Deliver
    PROVE  /\ IInv'
           /\ \/ app'.chat = app.chat
              \/ /\ app.turn # None /\ app.turn[2] \notin app.barred
                 /\ \A i \in 1..Len(app.chat) : app.chat[i] # app.turn
                 /\ app'.chat = Append(app.chat, app.turn)
<1> DEFINE m == Head(signals)
<1>2. PICK r \in Handled(app, m) : Do(r)
  BY DEF Deliver
<1>3. /\ Len(signals) \in Nat /\ Len(signals) >= 1 /\ m = signals[1] /\ m \in Signals
      /\ signals' \in Seq(Signals) /\ Len(signals') = Len(signals) - 1
      /\ \A i \in 1..Len(signals') : signals'[i] = signals[i + 1] /\ i + 1 \in 1..Len(signals)
  BY DEF IInv, TypeOK, Deliver
<1>4. /\ Core(app) /\ Rested(app) /\ ~app.opens /\ app.turn \in Turns \cup {None}
  BY DEF IInv, TypeOK, App, Good
<1>5. /\ m.kind = "audio" => m.of # 0
      /\ m.kind = "connected" => Unbegun(app)
  BY <1>3 DEF IInv, Told, Connecting, Says
<1> HIDE DEF m
<1>6. /\ Goes(app, r) \/ Writes(app, r)
      /\ Unbegun(app) => m.kind = "connected" \/ (Goes(app, r) /\ Unbegun(r))
  BY <1>2, <1>3, <1>4, <1>5, HandledGoes
<1>7. Done(r) /\ Same(app, r)
  BY <1>2, <1>6, DoDone DEF Goes, Writes
<1>8. Unbegun(app) => m.kind = "connected" \/ Unbegun(app')
  BY <1>6, <1>7 DEF Done
<1>9. app'.thread \in {app.thread, None} /\ app'.chat = r.chat
  BY <1>7 DEF Done, Same
<1>11. Connecting'
  <2>1. Unbegun(app') => Unbegun(app)'
    BY DEF Unbegun
  <2>3. \A i, j \in 1..Len(signals') :
           signals'[i].kind = "connected" /\ signals'[j].kind = "connected" => i = j
    <3> SUFFICES ASSUME NEW i \in 1..Len(signals'), NEW j \in 1..Len(signals'),
                        signals'[i].kind = "connected", signals'[j].kind = "connected"
                 PROVE  i = j
      OBVIOUS
    <3>1. i + 1 = j + 1
      BY <1>3 DEF IInv, Connecting, Says
    <3> QED BY <3>1
  <2>5. app'.thread # None /\ workers'[app'.thread].phase \in Early \cup {"connecting"} =>
           Unbegun(app') /\ \A i \in 1..Len(signals') : signals'[i].kind # "connected"
    BY <1>3, <1>8, <1>9, <1>7, AppIsWide DEF IInv, Connecting, Says, Done, Wide
  <2> QED BY <2>1, <2>3, <1>3, <1>8, <2>5 DEF Connecting, Says, IInv
<1>12. Told'
  BY <1>3 DEF IInv, Told
<1>13. IInv'
  BY <1>3, <1>7, <1>11, <1>12, DoneKeeps
<1> QED BY <1>6, <1>9, <1>13 DEF Goes, Writes

-----------------------------------------------------------------------------
(* The handlers of the application *)

LEMMA AppIsGood ==
    ASSUME IInv
    PROVE  /\ Core(app) /\ Rested(app) /\ app \in Wide /\ app \in App /\ ~app.opens
           /\ app.turn \in Turns \cup {None} /\ app.bridge \in Turns \cup {None}
           /\ app.mic => app.active
           /\ app.voice = "LISTENING" \/ app.op = "output" => app.active
           /\ app.sound # None => app.active
           /\ app.barred \in SUBSET Numbers
  BY AppIsWide DEF IInv, TypeOK, App, Good, Core, Rested

\* A handler that only gives something up.
LEMMA LessKeeps ==
    ASSUME IInv, NEW r, Less(app, r), Rested(r), r.opens => r.active, Do(r),
           UNCHANGED signals
    PROVE  IInv' /\ app'.chat = app.chat
  BY AppIsGood, LessGoes, LessCore, DoKeeps

LEMMA EndKeeps ==
    ASSUME IInv, End
    PROVE  IInv' /\ app'.chat = app.chat
  BY AppIsGood, EndedEnds, LessKeeps DEF End, Ends

LEMMA FrameKeeps ==
    ASSUME IInv, Frame
    PROVE  IInv' /\ app'.chat = app.chat
<1> DEFINE h == [app EXCEPT !.heard = TRUE]
<1>1. app \in Wide /\ app.active /\ ~app.opens /\ Core(app)
  BY AppIsGood DEF Frame
<1>2. h \in Wide
  BY <1>1, SetFlags
<1>3. Less(app, h) /\ ~h.opens /\ h.active
  BY <1>1, <1>2 DEF Wide, Less, Same
<1>4. \/ Do(h)
      \/ app.bridge # None /\ Do(Submit(h, "frame", app.bridge))
  BY Zenon DEF Frame
<1> HIDE DEF h
<1>5. Rested(h) /\ Core(h)
  BY <1>1, <1>3, LessCore DEF Rested
<1>6. CASE Do(h)
  BY <1>3, <1>5, <1>6, LessKeeps DEF Frame
<1>7. CASE app.bridge # None /\ Do(Submit(h, "frame", app.bridge))
  BY <1>3, <1>5, <1>7, SubmitRests, AppIsGood, LessTwice, LessKeeps DEF Frame
<1> QED BY <1>4, <1>6, <1>7

\* The end of the user's turn, after the microphone has been closed.
LEMMA HeardKeeps ==
    ASSUME IInv, NEW c, Less(app, c), Rested(c), ~c.opens, c.turn = app.turn,
           Do(EndUserTurn(c)), UNCHANGED signals
    PROVE  IInv' /\ app'.chat = app.chat
BY AppIsGood, LessCore, EndUserTurnGoes, GoesTwice, DoKeeps DEF Less

LEMMA EndpointKeeps ==
    ASSUME IInv, Endpoint
    PROVE  IInv' /\ app'.chat = app.chat
<1> DEFINE t == [app EXCEPT !.voice = "THINKING"]
           c == CloseMic(t)
           x == t.deaf \/ app.bridge # None
           d == [t EXCEPT !.deaf = x]
<1>1. app \in Wide /\ app.active /\ ~app.opens
  BY AppIsGood DEF Endpoint
<1>2. t \in Wide
  BY <1>1, SetVoice
<1>3. Less(app, t) /\ ~t.opens /\ t.active /\ t.turn = app.turn
  BY <1>1, <1>2 DEF Wide, Less, Same
<1>4. Do(d) \/ Do(EndUserTurn(c)) \/ Do(ReportError(c))
  BY Zenon DEF Endpoint
<1> HIDE DEF t
<1>5. d \in Wide
  <2>1. x \in BOOLEAN
    BY <1>2 DEF Wide
  <2> HIDE DEF x
  <2> QED BY <1>2, <2>1, SetFlags
<1>6. Less(t, d) /\ d.opens = t.opens /\ d.active = t.active
  BY <1>2, <1>5 DEF Wide, Less, Same
<1> HIDE DEF d
<1>7. Quiet(t, c) /\ c.turn = t.turn /\ c \in Wide
  BY <1>2, CloseMicQuiet DEF Quiet, Less
<1> HIDE DEF c
<1>8. CASE Do(d)
  BY <1>3, <1>6, <1>8, LessTwice, LessKeeps DEF Rested, Endpoint
<1>9. CASE Do(EndUserTurn(c))
  BY <1>3, <1>7, <1>9, LessTwice, HeardKeeps DEF Rested, Endpoint, Quiet
<1>10. CASE Do(ReportError(c))
  BY <1>7, ReportErrorQuiet, <1>3, LessTwice, <1>10, LessKeeps DEF Quiet, Rested, Endpoint
<1> QED BY <1>4, <1>8, <1>9, <1>10

LEMMA TimeoutKeeps ==
    ASSUME IInv, Timeout
    PROVE  IInv' /\ app'.chat = app.chat
<1> DEFINE c == CloseMic(app)
           d == [c EXCEPT !.renew = TRUE]
<1>1. app \in Wide /\ app.active /\ ~app.opens
  BY AppIsGood DEF Timeout
<1>2. Quiet(app, c) /\ c.turn = app.turn /\ c \in Wide
  BY <1>1, CloseMicQuiet DEF Quiet, Less
<1>3. Do(EndUserTurn(c)) \/ Do(d)
  BY DEF Timeout
<1> HIDE DEF c
<1>4. d \in Wide
  BY <1>2, SetFlags
<1>5. Less(c, d) /\ d.opens = c.opens /\ d.active = c.active
  BY <1>2, <1>4 DEF Wide, Less, Same
<1> HIDE DEF d
<1>6. CASE Do(EndUserTurn(c))
  BY <1>1, <1>2, <1>6, HeardKeeps DEF Rested, Timeout, Quiet
<1>7. CASE Do(d)
  BY <1>1, <1>2, <1>5, <1>7, LessTwice, LessKeeps DEF Rested, Timeout, Quiet
<1> QED BY <1>3, <1>6, <1>7

LEMMA RenewKeeps ==
    ASSUME IInv, Renew
    PROVE  IInv' /\ app'.chat = app.chat
<1> DEFINE r == [app EXCEPT !.renew = FALSE]
<1>1. app \in Wide /\ ~app.opens /\ Rested(app)
  BY AppIsGood
<1>2. r \in Wide
  BY <1>1, SetFlags
<1>3. Less(app, r) /\ ~r.opens /\ r.active = app.active /\ Rested(r)
  BY <1>1, <1>2 DEF Wide, Less, Same, Rested
<1>4. Do(r) \/ (app.voice = "LISTENING" /\ Do(Listen(r)))
  BY Zenon DEF Renew
<1> HIDE DEF r
<1>5. CASE Do(r)
  BY <1>3, <1>5, LessKeeps DEF Renew
<1>6. CASE app.voice = "LISTENING" /\ Do(Listen(r))
  BY <1>2, <1>3, <1>6, ListenLess, AppIsGood, LessTwice, LessKeeps DEF Rested, Renew
<1> QED BY <1>4, <1>5, <1>6

LEMMA MicFailsKeeps ==
    ASSUME IInv, MicFails
    PROVE  IInv' /\ app'.chat = app.chat
<1> DEFINE c == CloseMic(app)
<1>1. app \in Wide /\ app.active /\ ~app.opens /\ Core(app)
  BY AppIsGood DEF MicFails
<1>2. Quiet(app, c)
  BY <1>1, CloseMicQuiet
<1> HIDE DEF c
<1>3. Core(c) /\ Rested(c)
  BY <1>1, <1>2, LessCore DEF Rested, Quiet
<1>4. Ends(c, Ended(c))
  BY <1>3, EndedEnds
<1> QED BY <1>1, <1>2, <1>4, LessTwice, LessKeeps DEF MicFails, Ends, Quiet, c

LEMMA StopAllSpeechKeeps ==
    ASSUME IInv, StopAllSpeech
    PROVE  IInv' /\ app'.chat = app.chat
<1> DEFINE c == StopSpeech(app)
           d == [c EXCEPT !.deaf = TRUE]
<1>1. app \in Wide /\ app.active /\ ~app.opens
  BY AppIsGood DEF StopAllSpeech
<1>2. Quiet(app, c) /\ c \in Wide
  BY <1>1, StopSpeechQuiet DEF Quiet, Less
<1>3. Do(d)
  BY DEF StopAllSpeech
<1> HIDE DEF c
<1>4. d \in Wide
  BY <1>2, SetFlags
<1>5. Less(c, d) /\ d.opens = c.opens /\ d.active = c.active
  BY <1>2, <1>4 DEF Wide, Less, Same
<1> HIDE DEF d
<1> QED BY <1>1, <1>2, <1>3, <1>5, LessTwice, LessKeeps DEF Rested, StopAllSpeech, Quiet

LEMMA SaveSettingsKeeps ==
    ASSUME IInv, SaveSettings
    PROVE  IInv' /\ app'.chat = app.chat
<1> DEFINE p == [app EXCEPT !.sound = None]
           q == [p EXCEPT !.deaf = TRUE]
<1>1. app \in Wide /\ app.active /\ ~app.opens
  BY AppIsGood DEF SaveSettings
<1>2. p \in Wide
  BY <1>1, SetTurns
<1>3. q \in Wide
  <2> HIDE DEF p
  <2> QED BY <1>2, SetFlags
<1>4. Less(app, q) /\ ~q.opens /\ q.active
  BY <1>1, <1>3 DEF Wide, Less, Same
<1>5. Do(CloseMic(q)) \/ Do(ReportError(q))
  BY Zenon DEF SaveSettings
<1> HIDE DEF q
<1>6. ASSUME NEW r, Quiet(q, r), Do(r)
      PROVE  IInv' /\ app'.chat = app.chat
  BY <1>4, <1>6, LessTwice, LessKeeps DEF Rested, SaveSettings, Quiet
<1> QED BY <1>3, <1>5, <1>6, CloseMicQuiet, ReportErrorQuiet

LEMMA SuspendKeeps ==
    ASSUME IInv, Suspend
    PROVE  IInv' /\ app'.chat = app.chat
<1> DEFINE p == [app EXCEPT !.paused = TRUE]
           x == IF app.turn = None THEN app.barred ELSE app.barred \cup {app.turn[2]}
           q == [p EXCEPT !.barred = x]
<1>1. app \in Wide /\ app.active /\ ~app.opens /\ x \in Bars
  BY AppIsGood, TurnNames DEF Suspend, Bars, Numbers
<1>2. Do(q)
  BY Zenon DEF Suspend
<1>3. p \in Wide
  BY <1>1, SetFlags
<1>4. q \in Wide
  <2> HIDE DEF p, x
  <2> QED BY <1>1, <1>3 DEF Wide
<1>5. Less(app, q) /\ ~q.opens /\ q.active
  <2> HIDE DEF x
  <2> QED BY <1>1, <1>4 DEF Wide, Less, Same
<1> HIDE DEF q
<1> QED BY <1>2, <1>5, LessKeeps DEF Rested, Suspend

LEMMA SoundEndsKeeps ==
    ASSUME IInv, SoundEnds
    PROVE  IInv' /\ app'.chat = app.chat
<1> DEFINE p == [app EXCEPT !.sound = None]
           e == [p EXCEPT !.playing = FALSE]
<1>1. app \in Wide /\ app.active /\ ~app.opens /\ Core(app)
  BY AppIsGood DEF SoundEnds
<1>2. p \in Wide
  BY <1>1, SetTurns
<1>3. e \in Wide
  <2> HIDE DEF p
  <2> QED BY <1>2, SetFlags
<1>4. /\ Less(app, e) /\ ~e.opens /\ e.active /\ e.more = app.more /\ e.play = app.play
  BY <1>1, <1>3 DEF Wide, Less, Same
<1>5. \/ app.more # None /\ Do(PlayMore(e))
      \/ Do(e)
      \/ Do(CompleteIfReady(e))
  BY Zenon DEF SoundEnds
<1> HIDE DEF e
<1>6. CASE app.more # None /\ Do(PlayMore(e))
  BY <1>3, <1>4, <1>6, PlayMoreQuiet, LessTwice, LessKeeps DEF Rested, SoundEnds, Quiet
<1>7. CASE Do(e)
  BY <1>4, <1>7, LessKeeps DEF Rested, SoundEnds
<1>8. CASE Do(CompleteIfReady(e))
  BY <1>1, <1>4, LessCore, CompleteIfReadyGoes, GoesTwice, <1>8, DoKeeps DEF Rested, Less,
     Unbegun, CompleteIfReady, SoundEnds
<1> QED BY <1>5, <1>6, <1>7, <1>8

LEMMA SoundFailsKeeps ==
    ASSUME IInv, SoundFails
    PROVE  IInv' /\ app'.chat = app.chat
<1> DEFINE c == CancelPlay(app)
<1>1. app \in Wide /\ app.active /\ ~app.opens /\ Core(app)
  BY AppIsGood DEF SoundFails
<1>2. Quiet(app, c)
  BY <1>1, CancelPlayQuiet
<1>3. Do(Ended(c)) /\ UNCHANGED signals
  BY DEF SoundFails
<1> HIDE DEF c
<1>4. Core(c) /\ Rested(c)
  BY <1>1, <1>2, LessCore DEF Rested, Quiet
<1>5. Ends(c, Ended(c))
  BY <1>4, EndedEnds
<1> QED BY <1>1, <1>2, <1>3, <1>5, LessTwice, LessKeeps DEF Ends, Quiet

\* The user interrupts the answer: the old turn is given up, the next one is taken.
LEMMA TalkKeeps ==
    ASSUME IInv, Talk
    PROVE  IInv' /\ app'.chat = app.chat
<1> DEFINE v == StopSpeech(app)
           p == CancelPlay(v)
           b == [p EXCEPT !.bridge = None]
           c == CancelText(b)
           a == Adopt(c)
           k == TakeTurn(a)
           i == Idle(k)
           t == Submit(i, "interrupt", app.turn)
<1>1. /\ app \in Wide /\ app.active /\ ~app.opens /\ Core(app) /\ app.turn \in Turns
      /\ ~Unbegun(app)
  BY AppIsGood DEF Talk, Unbegun
<1>2. Do(IF c.life # "ACTIVE" THEN Raise(c) ELSE IF t.active THEN Listen(t) ELSE t)
  BY Zenon DEF Talk
<1>3. Quiet(app, v) /\ v \in Wide
  BY <1>1, StopSpeechQuiet DEF Quiet, Less
<1> HIDE DEF v
<1>4. Quiet(v, p) /\ p.play = "off" /\ p \in Wide
  BY <1>3, CancelPlayQuiet DEF Quiet, Less
<1> HIDE DEF p
<1>5. b \in Wide
  BY <1>4, SetTurns
<1>6. Quiet(p, b) /\ b.play = "off"
  BY <1>4, <1>5 DEF Wide, Quiet, Less, Same
<1> HIDE DEF b
<1>7. Quiet(app, b) /\ Core(b)
  BY <1>1, <1>3, <1>4, <1>6, QuietTwice, LessCore DEF Quiet
<1>8. Quiet(b, c) /\ c.text = None
  BY <1>7, CancelTextLess
<1> HIDE DEF c
<1>9. /\ Quiet(app, c) /\ Core(c) /\ c.play = "off" /\ c.active /\ ~c.opens
      /\ Same(app, c) /\ c.chat = app.chat
  BY <1>1, <1>6, <1>7, <1>8, QuietTwice, LessCore DEF Quiet, Less
<1>10. CASE c.life # "ACTIVE"
  BY <1>9, RaiseQuiet, LessTwice, <1>2, <1>10, LessKeeps DEF Core, Quiet, Rested, Talk
<1>11. CASE c.life = "ACTIVE"
  <2>1. /\ Core(a) /\ Same(c, a) /\ a.chat = c.chat /\ a.active = c.active
        /\ a.turn # None /\ \A j \in 1..Len(a.chat) : a.chat[j] # a.turn
        /\ a.text = None /\ a.play = c.play /\ a.opens = c.opens
    BY <1>8, <1>9, <1>11, AdoptIsNew
  <2> HIDE DEF a
  <2>2. /\ Core(k) /\ Same(a, k) /\ k.chat = a.chat /\ k.active = a.active
        /\ k.opens = a.opens
    BY <1>9, <2>1, TakeTurnGoes
  <2> HIDE DEF k
  <2>3. Quiet(k, i)
    BY <2>2, IdleQuiet DEF Core
  <2> HIDE DEF i
  <2>4. Core(i) /\ Rested(i) /\ i.active /\ ~i.opens
    BY <1>9, <2>1, <2>2, <2>3, LessCore DEF Rested, Quiet
  <2>5. Less(i, t) /\ Rested(t) /\ ~t.opens
    BY <1>1, <2>4, SubmitRests
  <2> HIDE DEF t
  <2>6. t \in Wide /\ Less(k, t)
    BY <2>3, <2>5, LessTwice DEF Quiet, Less
  <2>7. Goes(k, t)
    BY <2>2, <2>5, <2>6, LessGoes
  <2>8. t.active => Goes(k, Listen(t))
    BY <2>6, ListenLess, <2>2, LessTwice, LessGoes DEF Rested
  <2>9. Same(app, k) /\ k.chat = app.chat
    BY <1>9, <2>1, <2>2 DEF Same
  <2>10. Goes(app, t) /\ (t.active => Goes(app, Listen(t)))
    BY <2>7, <2>8, <2>9, GoesTwice
  <2> QED BY <1>1, <1>2, <1>11, <2>10, DoKeeps DEF Talk
<1> QED BY <1>10, <1>11

\* A new conversation: the last one has given everything back.
LEMMA StartKeeps ==
    ASSUME IInv, Start
    PROVE  IInv' /\ app'.chat = <<>>
<1>1. PICK w \in Sessions :
         /\ \A v \in Sessions : workers[v].phase = "new" <=> v >= w
         /\ app' = [app EXCEPT !.active = TRUE, !.thread = w, !.paused = FALSE,
                               !.barred = {}, !.chat = <<>>, !.deaf = FALSE,
                               !.alone = \A v \in Sessions :
                                   workers[v].phase \in {"new", "done"}]
         /\ workers' = [workers EXCEPT ![w].phase = "spawned"]
         /\ signals' = <<>>
  BY Zenon DEF Start
<1> DEFINE a == [app EXCEPT !.active = TRUE]
           b == [a EXCEPT !.thread = w]
           c == [b EXCEPT !.paused = FALSE]
           d == [c EXCEPT !.barred = {}]
           e == [d EXCEPT !.chat = <<>>]
           f == [e EXCEPT !.deaf = FALSE]
           x == \A v \in Sessions : workers[v].phase \in {"new", "done"}
           g == [f EXCEPT !.alone = x]
<1>2. /\ app \in Wide /\ Core(app) /\ Rested(app) /\ ~app.active /\ app.life = "IDLE"
      /\ ~app.opens
  BY AppIsGood DEF Start
<1>3. a \in Wide
  BY <1>2, SetFlags
<1>4. b \in Wide
  <2> HIDE DEF a
  <2> QED BY <1>3 DEF Wide
<1>5. c \in Wide
  <2> HIDE DEF b
  <2> QED BY <1>4, SetFlags
<1>6. d \in Wide
  <2> HIDE DEF c
  <2>1. {} \in Bars
    BY DEF Bars
  <2> QED BY <1>5, <2>1 DEF Wide
<1>7. e \in Wide
  <2> HIDE DEF d
  <2>1. <<>> \in Chats
    BY DEF Chats
  <2> QED BY <1>6, <2>1, SetSeqs
<1>8. f \in Wide
  <2> HIDE DEF e
  <2> QED BY <1>7, SetFlags
<1>9. g \in Wide
  <2> HIDE DEF f, x
  <2>1. x \in BOOLEAN
    BY DEF x
  <2> QED BY <1>8, <2>1 DEF Wide
<1>10. app' = g
  BY <1>1, Zenon
<1>11. /\ g.active /\ g.thread = w /\ g.chat = <<>> /\ g.turn = None /\ g.text = None
       /\ g.play = "off" /\ g.bridge = None /\ g.sound = None /\ g.more = app.more
       /\ g.life = app.life /\ g.session = app.session /\ g.held = app.held
       /\ g.next = app.next /\ ~g.opens /\ g.halt = app.halt /\ g.sent = app.sent
       /\ g.raised = app.raised
  <2> HIDE DEF x
  <2> QED BY <1>2, <1>9 DEF Wide, Rested
<1> HIDE DEF g
<1>12. app.session = None /\ app.held = 0 /\ app.next = 1
  BY <1>2 DEF Core, Lives, Bounded
<1>13. Bounded(g)
  BY <1>2, <1>11, <1>12 DEF Core, Bounded, Named
<1>14. g \in App
  BY <1>9, <1>11, <1>12, <1>13, WithinBounds
<1>15. Good(app)'
  BY <1>10, <1>11, <1>12, <1>2, <1>9, <1>13 DEF Numbered, Transcribed, Lives, Rested, Good,
     Core, Bounded, Named
<1>16. /\ workers' \in [Sessions -> Worker]
       /\ \A v \in Sessions : Heeds(workers[v])'
  <2>1. workers \in [Sessions -> Worker] /\ \A v \in Sessions : Heeds(workers[v])
    BY DEF IInv, TypeOK
  <2> DEFINE u == workers[w]
             y == [u EXCEPT !.phase = "spawned"]
  <2>2. u \in Worker /\ Heeds(u)
    BY <2>1
  <2>3. workers' = [workers EXCEPT ![w] = y]
    BY <1>1
  <2> HIDE DEF u
  <2>4. y \in Worker
    BY <2>2, WorkerIs DEF Phases
  <2>5. Heeds(y)
    BY <2>2, <2>4, WorkerIs DEF Heeds
  <2> HIDE DEF y
  <2> QED BY <2>1, <2>3, <2>4, <2>5
<1>17. Held'
  BY <1>10, <1>11, <1>12, TurnNames DEF Held
<1>18. Connecting'
  BY <1>10, <1>11, <1>1 DEF Unbegun, Connecting
<1>19. Told' /\ signals' \in Seq(Signals)
  BY <1>1 DEF Told
<1>20. TypeOK'
  BY <1>10, <1>11, <1>14, <1>16, <1>19 DEF TypeOK, IInv
<1> QED BY <1>10, <1>11, <1>15, <1>16, <1>17, <1>18, <1>19, <1>20 DEF IInv

-----------------------------------------------------------------------------
(* The worker's side of the coordinator *)

\* What the coordinator does not keep.
Kin(s, r) ==
    /\ r \in App /\ r.turn = s.turn /\ r.text = s.text /\ r.bridge = s.bridge
    /\ r.more = s.more /\ r.sound = s.sound /\ r.play = s.play /\ r.active = s.active
    /\ r.voice = s.voice /\ r.op = s.op /\ r.mic = s.mic /\ r.chat = s.chat
    /\ r.thread = s.thread /\ r.halt = s.halt /\ r.sent = s.sent /\ r.opens = s.opens
    /\ r.raised = s.raised /\ r.playing = s.playing

\* The session goes on with the turn or without, is let go, or is the worker's now.
Shift(w) ==
    /\ Kin(app, app') /\ Lives(app')
    /\ \/ app'.session = app.session /\ app'.next = app.next /\ app'.held \in {app.held, 0}
       \/ app'.session = None /\ app'.next = 1 /\ app'.held = 0
       \/ app'.session = w /\ app'.next = 1 /\ app'.held = 0 /\ workers[w].phase \in Early

LEMMA LedgerAnew ==
    ASSUME NEW s \in App, NEW l \in {"IDLE", "STARTING", "ACTIVE", "STOPPING", "ERROR"},
           NEW v \in Sessions \cup {None}
    PROVE  LET r == [s EXCEPT !.life = l, !.session = v, !.held = 0, !.next = 1]
           IN  Kin(s, r) /\ r.life = l /\ r.session = v /\ r.held = 0 /\ r.next = 1
<1> DEFINE a == [s EXCEPT !.life = l]
           b == [a EXCEPT !.session = v]
           c == [b EXCEPT !.held = 0]
           d == [c EXCEPT !.next = 1]
<1>0. 0 \in Numbers /\ 1 \in 1..(MaxTurns + 1)
  BY BoundsAssumption DEF Numbers
<1>1. a \in App
  BY AppIs
<1>2. b \in App
  <2> HIDE DEF a
  <2> QED BY <1>1, AppIs
<1>3. c \in App
  <2> HIDE DEF b
  <2> QED BY <1>0, <1>2, AppIs
<1>4. d \in App
  <2> HIDE DEF c
  <2> QED BY <1>0, <1>3, AppIs
<1>5. Kin(s, d) /\ d.life = l /\ d.session = v /\ d.held = 0 /\ d.next = 1
  BY <1>4, AppIs DEF Kin
<1>6. [s EXCEPT !.life = l, !.session = v, !.held = 0, !.next = 1] = d
  BY Zenon
<1> HIDE DEF d
<1> QED BY <1>5, <1>6

LEMMA LedgerHeld ==
    ASSUME NEW s \in App, NEW l \in {"IDLE", "STARTING", "ACTIVE", "STOPPING", "ERROR"}
    PROVE  LET h == [s EXCEPT !.life = l, !.held = 0]
               k == [s EXCEPT !.life = l]
           IN  /\ Kin(s, h) /\ h.life = l /\ h.session = s.session /\ h.held = 0
               /\ h.next = s.next
               /\ Kin(s, k) /\ k.life = l /\ k.session = s.session /\ k.held = s.held
               /\ k.next = s.next
<1> DEFINE a == [s EXCEPT !.life = l]
           h == [a EXCEPT !.held = 0]
<1>0. 0 \in Numbers
  BY BoundsAssumption DEF Numbers
<1>1. a \in App
  BY AppIs
<1>2. h \in App
  <2> HIDE DEF a
  <2> QED BY <1>0, <1>1, AppIs
<1>3. Kin(s, a) /\ a.life = l /\ a.session = s.session /\ a.held = s.held /\ a.next = s.next
  BY <1>1, AppIs DEF Kin
<1>4. Kin(s, h) /\ h.life = l /\ h.session = s.session /\ h.held = 0 /\ h.next = s.next
  BY <1>2, AppIs DEF Kin
<1>5. [s EXCEPT !.life = l, !.held = 0] = h
  BY Zenon
<1> HIDE DEF h, a
<1> QED BY <1>3, <1>4, <1>5 DEF a

\* The operations of the coordinator only shift the session.
LEMMA Shifting ==
    ASSUME IInv, NEW w \in Sessions
    PROVE  /\ app' = app => Shift(w)
           /\ app' = Stopping(app) => Shift(w)
           /\ app' = Closed(app) => Shift(w) /\ app'.session = None
           /\ app' = Activated(app) => Shift(w)
           /\ app' = Broken(app) => Shift(w)
<1>1. app \in App /\ Lives(app)
  BY AppIsGood DEF Core
<1>2. app' = app => Shift(w)
  BY <1>1 DEF Shift, Kin
<1>3. ASSUME app' = Stopping(app) PROVE Shift(w)
  BY <1>2, <1>3, <1>1, LedgerHeld DEF Stopping, Shift, Lives
<1>4. ASSUME app' = Closed(app) PROVE Shift(w) /\ app'.session = None
  <2>1. app' = [app EXCEPT !.life = "IDLE", !.session = None, !.held = 0, !.next = 1]
    BY <1>4 DEF Closed
  <2>2. /\ Kin(app, app') /\ app'.life = "IDLE" /\ app'.session = None /\ app'.held = 0
        /\ app'.next = 1
    <3>1. None \in Sessions \cup {None}
      OBVIOUS
    <3> QED BY ZenonT(40), <1>1, <2>1, <3>1, LedgerAnew
  <2> QED BY <2>2 DEF Shift, Lives
<1>5. ASSUME app' = Activated(app) PROVE Shift(w)
  BY <1>2, <1>5, <1>1, LedgerHeld DEF Activated, Shift, Lives
<1>6. ASSUME app' = Broken(app) PROVE Shift(w)
  BY <1>2, <1>6, <1>1, LedgerHeld DEF Broken, Shift, Lives
<1> QED BY <1>2, <1>3, <1>4, <1>5, <1>6

\* A step of one worker.
Turned(w, q) ==
    /\ q \in Worker /\ Heeds(q) /\ workers' = [workers EXCEPT ![w] = q] /\ Shift(w)
    /\ q.phase \in Early => workers[w].phase \in Early /\ app'.session # w
    /\ Free(q) => app'.session # w \/ (Free(workers[w]) /\ app'.session = app.session)

LEMMA TurnedKeeps ==
    ASSUME IInv, NEW w \in Sessions, NEW q, Turned(w, q), signals' \in Seq(Signals), Told',
           Connecting'
    PROVE  IInv' /\ app'.chat = app.chat
<1>1. /\ Kin(app, app') /\ Lives(app') /\ app' \in App /\ app' \in Wide
      /\ workers \in [Sessions -> Worker] /\ \A v \in Sessions : Heeds(workers[v])
  BY AppIsWide DEF Turned, Shift, Kin, IInv, TypeOK
<1>2. /\ workers' \in [Sessions -> Worker] /\ \A v \in Sessions : Heeds(workers'[v])
      /\ workers'[w] = q /\ \A v \in Sessions \ {w} : workers'[v] = workers[v]
  BY <1>1 DEF Turned
<1>3. Bounded(app)'
  BY <1>1, AppIs, AppIsGood, TurnNames DEF Text, Turned, Shift, Core, Bounded, Named
<1>4. Numbered(app)'
  <2>1. \A v \in Sessions : workers[v].phase \notin Early =>
           workers'[v].phase \notin Early
    BY <1>2 DEF Turned
  <2>2. \A t \in Turns : Begun(app, t) => Begun(app, t)'
    BY <2>1, TurnNames DEF Begun, Turned, Shift
  <2>4. app'.turn \in Turns \cup {None} /\ app'.chat \in Seq(Turns)
    BY <1>1 DEF App
  <2>5. app'.turn # None => Begun(app, app.turn)'
    BY <1>1, <2>4, AppIsGood, <2>2 DEF Kin, Core, Numbered, Begun
  <2>6. \A i \in 1..Len(app'.chat) : Begun(app, app.chat[i])'
    BY <1>1, <2>4, AppIsGood, <2>2 DEF Kin, Core, Numbered, Begun
  <2> QED BY <1>1, <1>2, <2>1, <2>5, <2>6, AppIsGood DEF Numbered, Wide, Turned, Shift, Core
<1>5. Transcribed(app)' /\ Rested(app)' /\ Lives(app)'
  BY <1>1, AppIsGood DEF Core, Kin, Transcribed, Rested, Lives
<1>6. Held'
  BY <1>2, TurnNames DEF Held, Free, Turned, IInv, Shift
<1>7. TypeOK'
  BY <1>1, <1>2 DEF TypeOK, IInv, Kin
<1> QED BY <1>1, <1>2, <1>3, <1>4, <1>5, <1>6, <1>7 DEF IInv, Good, Core, Kin

-----------------------------------------------------------------------------
(* The steps of a worker *)

\* What a worker says, but that it has connected.
Adds ==
    \/ signals' = signals
    \/ \E m \in Signals : /\ m.kind # "connected" /\ (m.kind = "audio" => m.of # 0)
                          /\ signals' = Append(signals, m)

LEMMA AddsKeeps ==
    ASSUME IInv, NEW w \in Sessions, NEW q, Turned(w, q), Adds,
           q.phase \in Early \cup {"connecting"} =>
              workers[w].phase \in Early \cup {"connecting"}
    PROVE  IInv' /\ app'.chat = app.chat
<1>1. signals \in Seq(Signals) /\ workers \in [Sessions -> Worker]
  BY DEF IInv, TypeOK
<1>2. /\ signals' \in Seq(Signals)
      /\ \A i \in 1..Len(signals') :
            \/ i \in 1..Len(signals) /\ signals'[i] = signals[i]
            \/ /\ signals'[i].kind # "connected"
               /\ signals'[i].kind = "audio" => signals'[i].of # 0
  <2>1. CASE signals' = signals
    BY <1>1, <2>1
  <2>2. CASE \E m \in Signals : /\ m.kind # "connected" /\ (m.kind = "audio" => m.of # 0)
                                /\ signals' = Append(signals, m)
    <3>1. PICK m \in Signals : /\ m.kind # "connected" /\ (m.kind = "audio" => m.of # 0)
                               /\ signals' = Append(signals, m)
      BY <2>2
    <3> QED BY <1>1, <3>1
  <2> QED BY <2>1, <2>2 DEF Adds
<1>3. Told'
  BY <1>2 DEF IInv, Told
<1>4. /\ app'.thread = app.thread /\ (Unbegun(app) => Unbegun(app'))
      /\ \A v \in Sessions : workers'[v].phase \in Early \cup {"connecting"} =>
            workers[v].phase \in Early \cup {"connecting"}
  BY <1>1 DEF Turned, Shift, Kin, Unbegun
<1>6. Connecting'
  BY <1>2, <1>4, AppIsGood DEF Unbegun, IInv, Connecting, Says, Wide
<1> QED BY <1>2, <1>3, <1>6, TurnedKeeps

LEMMA EmitAdds ==
    ASSUME IInv, NEW w \in Sessions
    PROVE  /\ signals' = signals => Adds
           /\ signals' = EmitFailure(w) => Adds
           /\ \A k \in {"failed", "idle", "finished"} :
                 signals' = Emit(w, Signal(k, 0, 0)) => Adds
           /\ \A k \in {"audio", "final", "completed", "interrupted"},
                 n \in Numbers, of \in Numbers :
                 (k = "audio" => of # 0) /\ signals' = Emit(w, Signal(k, n, of)) => Adds
BY WorkerIs DEF Signal, Signals, Emit, Adds, EmitFailure

\* One field of a worker.
LEMMA WorkerField ==
    ASSUME NEW r \in Worker, Heeds(r)
    PROVE  /\ \A x \in Phases : LET q == [r EXCEPT !.phase = x] IN
                 /\ q \in Worker /\ Heeds(q) /\ q.phase = x /\ q.link = r.link
           /\ \A x \in {"IDLE", "STARTING", "ACTIVE", "STOPPING", "ERROR"} :
                 LET q == [r EXCEPT !.link = x] IN
                 /\ q \in Worker /\ Heeds(q) /\ q.phase = r.phase /\ q.link = x
           /\ \A x \in BOOLEAN : LET q == [r EXCEPT !.own = x] IN
                 /\ q \in Worker /\ Heeds(q) /\ q.phase = r.phase /\ q.link = r.link
<1>1. ASSUME NEW x \in Phases
      PROVE  LET q == [r EXCEPT !.phase = x] IN
                 /\ q \in Worker /\ Heeds(q) /\ q.phase = x /\ q.link = r.link
  <2> DEFINE q == [r EXCEPT !.phase = x]
  <2>1. q \in Worker
    BY <1>1, WorkerIs
  <2> QED BY <1>1, <2>1, WorkerIs DEF Heeds
<1>2. ASSUME NEW x \in {"IDLE", "STARTING", "ACTIVE", "STOPPING", "ERROR"}
      PROVE  LET q == [r EXCEPT !.link = x] IN
                 /\ q \in Worker /\ Heeds(q) /\ q.phase = r.phase /\ q.link = x
  <2> DEFINE q == [r EXCEPT !.link = x]
  <2>1. q \in Worker
    BY <1>2, WorkerIs
  <2> QED BY <1>2, <2>1, WorkerIs DEF Heeds
<1>3. ASSUME NEW x \in BOOLEAN
      PROVE  LET q == [r EXCEPT !.own = x] IN
                 /\ q \in Worker /\ Heeds(q) /\ q.phase = r.phase /\ q.link = r.link
  <2> DEFINE q == [r EXCEPT !.own = x]
  <2>1. q \in Worker
    BY <1>3, WorkerIs
  <2> QED BY <1>3, <2>1, WorkerIs DEF Heeds
<1> QED BY <1>1, <1>2, <1>3

LEMMA Workers ==
    ASSUME IInv, NEW w \in Sessions
    PROVE  /\ workers[w] \in Worker /\ Heeds(workers[w])
           /\ Free(workers[w]) => app.session # w
           /\ signals \in Seq(Signals)
  BY DEF IInv, TypeOK, Held

LEMMA BootKeeps ==
    ASSUME IInv, NEW w \in Sessions, Boot(w)
    PROVE  IInv' /\ app'.chat = app.chat
<1> DEFINE u == workers[w]
           q == [u EXCEPT !.phase = "checked"]
           d == Doomed(u)
           f == [d EXCEPT !.phase = "failed"]
<1>1. u \in Worker /\ Heeds(u) /\ u.phase = "spawned" /\ app.session # w
  BY Workers DEF Boot, Free, Early
<1>2. app' = app /\ Adds /\ Shift(w)
  BY EmitAdds, Shifting DEF Boot
<1>3. \/ workers' = [workers EXCEPT ![w] = q]
      \/ workers' = [workers EXCEPT ![w] = f]
  BY Zenon DEF Boot
<1> HIDE DEF u
<1>4. d \in Worker /\ Heeds(d)
  BY <1>1, DoomedIs
<1> HIDE DEF d
<1>5. q \in Worker /\ Heeds(q) /\ q.phase = "checked"
  BY <1>1, WorkerField DEF Phases
<1>6. f \in Worker /\ Heeds(f) /\ f.phase = "failed"
  BY <1>4, WorkerField DEF Phases
<1> HIDE DEF q, f
<1>7. CASE workers' = [workers EXCEPT ![w] = q]
  BY <1>1, <1>2, <1>5, <1>7, AddsKeeps DEF Turned, u, Early
<1>8. CASE workers' = [workers EXCEPT ![w] = f]
  BY <1>1, <1>2, <1>6, <1>8, AddsKeeps DEF Turned, u, Early
<1> QED BY <1>3, <1>7, <1>8

LEMMA ReserveKeeps ==
    ASSUME IInv, NEW w \in Sessions, Reserve(w)
    PROVE  IInv' /\ app'.chat = app.chat
<1> DEFINE u == workers[w]
           p == [u EXCEPT !.phase = "connecting"]
           q == [p EXCEPT !.link = "STARTING"]
           d == Doomed(u)
           f == [d EXCEPT !.phase = "failed"]
<1>1. u \in Worker /\ Heeds(u) /\ u.phase = "checked"
  BY Workers DEF Reserve
<1>2. CASE app.life \in {"IDLE", "STARTING"}
  <2>1. /\ app' = [app EXCEPT !.life = "STARTING", !.session = w, !.held = 0, !.next = 1]
        /\ workers' = [workers EXCEPT ![w].phase = "connecting", ![w].link = "STARTING"]
        /\ UNCHANGED signals
    BY <1>2, Zenon DEF Reserve
  <2>2. workers' = [workers EXCEPT ![w] = q]
    BY <2>1, Workers DEF IInv, TypeOK
  <2>3. /\ Kin(app, app') /\ app'.life = "STARTING" /\ app'.session = w /\ app'.held = 0
        /\ app'.next = 1
    <3>1. w \in Sessions \cup {None} /\ app \in App
      BY AppIsGood
    <3> QED BY ZenonT(40), <2>1, <3>1, LedgerAnew
  <2>4. Shift(w)
    BY <1>1, <2>3, TurnNames DEF Shift, Lives, Early
  <2> HIDE DEF u
  <2>5. p \in Worker /\ Heeds(p) /\ p.phase = "connecting"
    BY <1>1, WorkerField DEF Phases
  <2> HIDE DEF p
  <2>6. q \in Worker /\ Heeds(q) /\ q.phase = "connecting"
    BY <2>5, WorkerField
  <2> HIDE DEF q
  <2>7. Turned(w, q)
    BY <2>2, <2>4, <2>6 DEF Turned, Early, Free
  <2> QED BY <1>1, <2>1, <2>7, AddsKeeps, EmitAdds DEF u, Early
<1>3. CASE app.life \notin {"IDLE", "STARTING"}
  <2>1. /\ app' = Closed(app) /\ workers' = [workers EXCEPT ![w] = f]
        /\ signals' = EmitFailure(w)
    BY <1>3, Zenon DEF Reserve
  <2> HIDE DEF u
  <2>2. d \in Worker /\ Heeds(d)
    BY <1>1, DoomedIs
  <2> HIDE DEF d
  <2>3. f \in Worker /\ Heeds(f) /\ f.phase = "failed"
    BY <2>2, WorkerField DEF Phases
  <2> HIDE DEF f
  <2>4. Turned(w, f)
    BY <2>1, <2>3, Shifting DEF Turned, Early, Free
  <2> QED BY <2>1, <2>3, <2>4, AddsKeeps, EmitAdds DEF Early
<1> QED BY <1>2, <1>3

LEMMA ConnectedKeeps ==
    ASSUME IInv, NEW w \in Sessions, Connected(w)
    PROVE  IInv' /\ app'.chat = app.chat
<1> DEFINE u == workers[w]
           p == [u EXCEPT !.phase = "live"]
           l == [p EXCEPT !.link = "ACTIVE"]
           q == [l EXCEPT !.own = TRUE]
           m == Signal("connected", 0, 0)
<1>1. u \in Worker /\ Heeds(u) /\ u.phase = "connecting" /\ signals \in Seq(Signals)
  BY Workers DEF Connected
<1>2. workers' = [workers EXCEPT ![w] = q] /\ workers \in [Sessions -> Worker]
  BY Workers DEF Connected, IInv, TypeOK
<1>3. Shift(w)
  BY Shifting DEF Connected
<1> HIDE DEF u
<1>4. p \in Worker /\ Heeds(p) /\ p.phase = "live"
  BY <1>1, WorkerField DEF Phases
<1> HIDE DEF p
<1>5. l \in Worker /\ Heeds(l) /\ l.phase = "live"
  BY <1>4, WorkerField
<1> HIDE DEF l
<1>6. q \in Worker /\ Heeds(q) /\ q.phase = "live"
  BY <1>5, WorkerField
<1> HIDE DEF q
<1>7. Turned(w, q)
  BY <1>2, <1>3, <1>6 DEF Turned, Early, Free
<1>8. m \in Signals /\ m.kind = "connected"
  BY WorkerIs DEF Signal, Signals
<1>9. CASE app.thread # w
  BY <1>9, <1>6, <1>7, AddsKeeps DEF Connected, Emit, Adds, Early
<1>10. CASE app.thread = w
  <2>1. signals' = Append(signals, m)
    BY <1>10 DEF Connected, Emit
  <2> HIDE DEF m
  <2>2. /\ Len(signals) \in Nat /\ Len(signals') = Len(signals) + 1
        /\ signals' \in Seq(Signals) /\ signals'[Len(signals')] = m
        /\ \A i \in 1..Len(signals) : signals'[i] = signals[i]
    BY <1>1, <1>8, <2>1
  <2>3. Told'
    BY <1>8, <2>2 DEF Told, IInv
  <2>4. /\ w # None /\ Unbegun(app)
        /\ \A i \in 1..Len(signals) : signals[i].kind # "connected"
    BY <1>1, <1>10, TurnNames DEF IInv, Connecting, Says, u
  <2>7. Connecting'
    BY <2>2, <1>2, <1>3, <1>6, <1>10, <2>4 DEF Connecting, Says, Early, Unbegun, Shift, Kin
  <2> QED BY <1>7, <2>2, <2>3, <2>7, TurnedKeeps
<1> QED BY <1>9, <1>10

LEMMA ConnectFailsKeeps ==
    ASSUME IInv, NEW w \in Sessions, ConnectFails(w)
    PROVE  IInv' /\ app'.chat = app.chat
<1> DEFINE u == workers[w]
           d == Doomed(u)
           p == [d EXCEPT !.phase = "failed"]
           q == [p EXCEPT !.link = "IDLE"]
<1>1. u \in Worker /\ Heeds(u)
  BY Workers
<1>2. workers' = [workers EXCEPT ![w] = q]
  BY Zenon DEF ConnectFails
<1>3. Shift(w) /\ Adds /\ app'.session = None
  BY Shifting, EmitAdds DEF ConnectFails
<1> HIDE DEF u
<1>4. d \in Worker /\ Heeds(d)
  BY <1>1, DoomedIs
<1> HIDE DEF d
<1>5. p \in Worker /\ Heeds(p) /\ p.phase = "failed"
  BY <1>4, WorkerField DEF Phases
<1> HIDE DEF p
<1>6. q \in Worker /\ Heeds(q) /\ q.phase = "failed"
  BY <1>5, WorkerField
<1> HIDE DEF q
<1>7. Turned(w, q)
  BY <1>2, <1>3, <1>6 DEF Turned, Early, Free
<1> QED BY <1>3, <1>6, <1>7, AddsKeeps DEF Early

LEMMA FailKeeps ==
    ASSUME IInv, NEW w \in Sessions, workers[w].phase = "live", Fail(w)
    PROVE  IInv' /\ app'.chat = app.chat
<1> DEFINE u == workers[w]
           d == Doomed(u)
           p == [d EXCEPT !.own = FALSE]
           q == [p EXCEPT !.link = "ERROR"]
<1>1. u \in Worker /\ Heeds(u) /\ u.phase = "live"
  BY Workers
<1>2. workers' = [workers EXCEPT ![w] = q]
  BY Zenon DEF Fail
<1>3. Shift(w) /\ Adds
  BY Shifting, EmitAdds DEF Fail
<1> HIDE DEF u
<1>4. d \in Worker /\ Heeds(d) /\ d.phase = "live"
  BY <1>1, DoomedIs
<1> HIDE DEF d
<1>5. p \in Worker /\ Heeds(p) /\ p.phase = "live"
  BY <1>4, WorkerField
<1> HIDE DEF p
<1>6. q \in Worker /\ Heeds(q) /\ q.phase = "live"
  BY <1>5, WorkerField
<1> HIDE DEF q
<1>7. Turned(w, q)
  BY <1>2, <1>3, <1>6 DEF Turned, Early, Free
<1> QED BY <1>3, <1>6, <1>7, AddsKeeps DEF Early

\* A step that leaves the coordinator, the signals and the phase alone.
LEMMA QuietKeeps ==
    ASSUME IInv, NEW w \in Sessions, NEW q \in Worker, Heeds(q),
           q.phase = workers[w].phase, q.link = workers[w].link,
           workers' = [workers EXCEPT ![w] = q], app' = app, Adds
    PROVE  IInv' /\ app'.chat = app.chat
BY Shifting, Workers, AddsKeeps DEF Free, Turned

\* A step of a live worker, which remains live.
LEMMA LiveKeeps ==
    ASSUME IInv, NEW w \in Sessions, NEW q \in Worker, Heeds(q), q.phase = "live",
           workers' = [workers EXCEPT ![w] = q], Shift(w), Adds
    PROVE  IInv' /\ app'.chat = app.chat
BY AddsKeeps DEF Turned, Early, Free

LEMMA ReconnectKeeps ==
    ASSUME IInv, NEW w \in Sessions, Reconnect(w)
    PROVE  IInv' /\ app'.chat = app.chat
<1>1. workers[w].phase = "live"
  BY DEF Reconnect
<1>2. CASE Fail(w)
  BY <1>1, <1>2, FailKeeps
<1>3. CASE /\ workers' = [workers EXCEPT ![w].link = "STARTING"]
           /\ UNCHANGED <<app, signals>>
  <2> DEFINE u == workers[w]
             q == [u EXCEPT !.link = "STARTING"]
  <2>1. u \in Worker /\ Heeds(u) /\ u.phase = "live"
    BY <1>1, Workers
  <2>2. workers' = [workers EXCEPT ![w] = q]
    BY <1>3, Zenon
  <2> HIDE DEF u
  <2>3. q \in Worker /\ Heeds(q) /\ q.phase = "live"
    BY <2>1, WorkerField
  <2> HIDE DEF q
  <2> QED BY <1>3, <2>2, <2>3, LiveKeeps, Shifting, EmitAdds
<1> QED BY <1>2, <1>3 DEF Reconnect

LEMMA ServerIs ==
    ASSUME NEW v \in Servers, NEW g, NEW b
    PROVE  /\ [v EXCEPT !.lost = b] = [stage |-> v.stage, turn |-> v.turn, lost |-> b]
           /\ [v EXCEPT !.stage = g] = [stage |-> g, turn |-> v.turn, lost |-> v.lost]
           /\ [v EXCEPT !.stage = g, !.lost = FALSE]
              = [stage |-> g, turn |-> v.turn, lost |-> FALSE]
           /\ [v EXCEPT !.stage = "hearing", !.turn = g]
              = [stage |-> "hearing", turn |-> g, lost |-> v.lost]
           /\ [v EXCEPT !.turn = g] = [stage |-> v.stage, turn |-> g, lost |-> v.lost]
           /\ v.stage \in {"quiet", "hearing", "owing"} /\ v.turn \in Numbers
           /\ v.lost \in BOOLEAN
<1>1. v = [stage |-> v.stage, turn |-> v.turn, lost |-> v.lost]
  BY DEF Servers
<1>2. [v EXCEPT !.lost = b] = [stage |-> v.stage, turn |-> v.turn, lost |-> b]
  BY <1>1
<1>3. [v EXCEPT !.stage = g] = [stage |-> g, turn |-> v.turn, lost |-> v.lost]
  BY <1>1
<1>4. [v EXCEPT !.stage = g, !.lost = FALSE]
              = [stage |-> g, turn |-> v.turn, lost |-> FALSE]
  <2>1. [v EXCEPT !.stage = g, !.lost = FALSE]
           = [[v EXCEPT !.stage = g] EXCEPT !.lost = FALSE]
    BY Zenon
  <2> DEFINE a == [stage |-> g, turn |-> v.turn, lost |-> v.lost]
  <2>2. [a EXCEPT !.lost = FALSE] = [stage |-> g, turn |-> v.turn, lost |-> FALSE]
    <3>1. \A l : [a EXCEPT !.lost = l] = [stage |-> g, turn |-> v.turn, lost |-> l]
      OBVIOUS
    <3> QED BY <3>1, Zenon
  <2> QED BY <1>3, <2>1, <2>2, Zenon
<1>5. [v EXCEPT !.stage = "hearing", !.turn = g]
         = [stage |-> "hearing", turn |-> g, lost |-> v.lost]
  <2>1. [v EXCEPT !.stage = "hearing", !.turn = g]
           = [[v EXCEPT !.stage = "hearing"] EXCEPT !.turn = g]
    BY Zenon
  <2>2. [v EXCEPT !.stage = "hearing"]
           = [stage |-> "hearing", turn |-> v.turn, lost |-> v.lost]
    BY <1>1
  <2> DEFINE a == [stage |-> "hearing", turn |-> v.turn, lost |-> v.lost]
  <2>3. [a EXCEPT !.turn = g] = [stage |-> "hearing", turn |-> g, lost |-> v.lost]
    OBVIOUS
  <2> QED BY <2>1, <2>2, <2>3, Zenon
<1> QED BY <1>2, <1>3, <1>4, <1>5, <1>1 DEF Servers

\* The server's stage and whether the connection is lost.
LEMMA ServerField ==
    ASSUME NEW r \in Worker, Heeds(r), NEW g \in {"quiet", "hearing", "owing"},
           NEW b \in BOOLEAN, g = "quiet" \/ r.server.stage # "quiet"
    PROVE  LET q == [r EXCEPT !.server = [stage |-> g, turn |-> r.server.turn, lost |-> b]]
           IN  q \in Worker /\ Heeds(q) /\ q.phase = r.phase /\ q.link = r.link
<1> DEFINE v == [stage |-> g, turn |-> r.server.turn, lost |-> b]
           q == [r EXCEPT !.server = v]
<1>1. r.server \in Servers
  BY WorkerIs
<1>2. v \in Servers /\ v.stage = g /\ v.turn = r.server.turn
  BY <1>1 DEF Servers
<1> HIDE DEF v
<1>3. q \in Worker
  BY <1>2, WorkerIs
<1>4. /\ q.server = v /\ q.turn = r.turn /\ q.wire = r.wire /\ q.phase = r.phase
      /\ q.link = r.link
  BY <1>3, WorkerIs
<1>5. Heeds(q)
  BY <1>2, <1>4 DEF Heeds
<1> HIDE DEF q
<1> QED BY <1>3, <1>4, <1>5 DEF v, q

LEMMA LoseKeeps ==
    ASSUME IInv, NEW w \in Sessions, Lose(w)
    PROVE  IInv' /\ app'.chat = app.chat
<1> DEFINE u == workers[w]
           v == [stage |-> u.server.stage, turn |-> u.server.turn, lost |-> TRUE]
           q == [u EXCEPT !.server = v]
<1>1. u \in Worker /\ Heeds(u) /\ u.server \in Servers
  BY Workers, WorkerIs
<1>2. workers' = [workers EXCEPT ![w].server.lost = TRUE] /\ UNCHANGED <<app, signals>>
  BY DEF Lose
<1>3. [u.server EXCEPT !.lost = TRUE] = v
  BY <1>1, ServerIs
<1>4. workers' = [workers EXCEPT ![w] = [u EXCEPT !.server = [u.server EXCEPT !.lost = TRUE]]]
  BY <1>2, Zenon
<1>5. workers' = [workers EXCEPT ![w] = q]
  BY <1>3, <1>4
<1>6. q \in Worker /\ Heeds(q) /\ q.phase = u.phase /\ q.link = u.link
  <2>1. u.server.stage \in {"quiet", "hearing", "owing"}
    BY <1>1 DEF Servers
  <2> HIDE DEF u
  <2> QED BY <1>1, <2>1, ServerField
<1> HIDE DEF q
<1> QED BY <1>2, <1>5, <1>6, QuietKeeps, EmitAdds

LEMMA WireField ==
    ASSUME NEW r \in Worker, Heeds(r), NEW x \in Wires,
           \A i \in 1..Len(x) : x[i].turn # 0
    PROVE  LET q == [r EXCEPT !.wire = x]
           IN  /\ q \in Worker /\ Heeds(q) /\ q.phase = r.phase /\ q.link = r.link
               /\ q.server = r.server /\ q.turn = r.turn
<1> DEFINE q == [r EXCEPT !.wire = x]
<1>1. q \in Worker
  BY WorkerIs
<1>2. /\ q.server = r.server /\ q.turn = r.turn /\ q.wire = x /\ q.phase = r.phase
      /\ q.link = r.link
  BY <1>1, WorkerIs
<1>3. Heeds(q)
  BY <1>2 DEF Heeds
<1> QED BY <1>1, <1>2, <1>3

LEMMA AnswerKeeps ==
    ASSUME IInv, NEW w \in Sessions, Answer(w)
    PROVE  IInv' /\ app'.chat = app.chat
<1> DEFINE u == workers[w]
<1>1. /\ u \in Worker /\ Heeds(u) /\ u.server \in Servers /\ u.wire \in Seq(Events)
      /\ u.server.stage = "owing"
  BY Workers, WorkerIs DEF Answer, Wires
<1>2. PICK k \in {"audio", "final", "completed"} :
        workers' = [workers EXCEPT
            ![w].wire = Append(@, [kind |-> k, turn |-> u.server.turn]),
            ![w].server.stage = IF k = "completed" THEN "quiet" ELSE @]
  BY Zenon DEF Answer
<1>3. UNCHANGED <<app, signals>>
  BY DEF Answer
<1> DEFINE e == [kind |-> k, turn |-> u.server.turn]
           x == Append(u.wire, e)
           g == IF k = "completed" THEN "quiet" ELSE u.server.stage
           a == [u EXCEPT !.wire = x]
           v == [stage |-> g, turn |-> u.server.turn, lost |-> u.server.lost]
           q == [a EXCEPT !.server = v]
<1>4. workers' = [workers EXCEPT ![w] =
                     [a EXCEPT !.server = [u.server EXCEPT !.stage = g]]]
  BY <1>2, Zenon
<1>5. /\ e \in Events /\ u.server.turn # 0 /\ e.turn # 0
      /\ g \in {"quiet", "hearing", "owing"} /\ u.server.lost \in BOOLEAN
  BY <1>1, ServerIs DEF Heeds, Events
<1>6. x \in Wires /\ \A i \in 1..Len(x) : x[i].turn # 0
  <2> HIDE DEF e
  <2> QED BY <1>1, <1>5 DEF Wires, Heeds
<1> HIDE DEF u, x, g
<1>7. /\ a \in Worker /\ Heeds(a) /\ a.phase = u.phase /\ a.link = u.link
      /\ a.server = u.server
  BY <1>1, <1>6, WireField
<1>8. [u.server EXCEPT !.stage = g] = v
  BY <1>1, ServerIs
<1> HIDE DEF a
<1>9. workers' = [workers EXCEPT ![w] = q]
  BY <1>4, <1>8
<1>10. q \in Worker /\ Heeds(q) /\ q.phase = u.phase /\ q.link = u.link
  BY <1>1, <1>5, <1>7, ServerField
<1> HIDE DEF q
<1> QED BY <1>3, <1>9, <1>10, QuietKeeps, EmitAdds DEF u

LEMMA RetryKeeps ==
    ASSUME IInv, NEW w \in Sessions, Retry(w)
    PROVE  IInv' /\ app'.chat = app.chat
<1> DEFINE u == workers[w]
           n == u.tries + 1
           a == [u EXCEPT !.tries = n]
<1>1. u \in Worker /\ Heeds(u) /\ u.server \in Servers /\ u.phase = "live"
  BY Workers, WorkerIs DEF Retry
<1>2. CASE Fail(w)
  BY <1>1, <1>2, FailKeeps
<1>3. CASE MayRetry(u) /\ ~Fail(w)
  <2>1. UNCHANGED signals
    BY <1>3 DEF Retry
  <2>2. n \in Tries
    BY <1>1, <1>3, WorkerIs, BoundsAssumption DEF MayRetry, Tries
  <2>3. /\ a \in Worker /\ Heeds(a) /\ a.phase = "live" /\ a.server = u.server
    <3> HIDE DEF n, u
    <3>1. a \in Worker
      BY <1>1, <2>2, WorkerIs
    <3> QED BY <1>1, <3>1, WorkerIs DEF Heeds
  <2>4. \/ /\ workers' = [workers EXCEPT ![w].tries = @ + 1]
           /\ app' = app
        \/ \E stage \in Resumed(u.server) :
              /\ workers' = [workers EXCEPT ![w].tries = @ + 1, ![w].link = "ACTIVE",
                                            ![w].own = TRUE, ![w].server.stage = stage,
                                            ![w].server.lost = FALSE]
              /\ app' = Activated(app)
    BY <1>3, Zenon DEF Retry
  <2>5. CASE workers' = [workers EXCEPT ![w].tries = @ + 1] /\ app' = app
    <3>1. workers' = [workers EXCEPT ![w] = a]
      BY <2>5, Zenon
    <3> HIDE DEF a
    <3> QED BY <2>1, <2>3, <2>5, <3>1, LiveKeeps, Shifting, EmitAdds
  <2>6. CASE \E stage \in Resumed(u.server) :
              /\ workers' = [workers EXCEPT ![w].tries = @ + 1, ![w].link = "ACTIVE",
                                            ![w].own = TRUE, ![w].server.stage = stage,
                                            ![w].server.lost = FALSE]
              /\ app' = Activated(app)
    <3>1. PICK stage \in Resumed(u.server) :
              /\ workers' = [workers EXCEPT ![w].tries = @ + 1, ![w].link = "ACTIVE",
                                            ![w].own = TRUE, ![w].server.stage = stage,
                                            ![w].server.lost = FALSE]
              /\ app' = Activated(app)
      BY <2>6
    <3> DEFINE b == [a EXCEPT !.link = "ACTIVE"]
               c == [b EXCEPT !.own = TRUE]
               v == [stage |-> stage, turn |-> u.server.turn, lost |-> FALSE]
               q == [c EXCEPT !.server = v]
    <3>2. workers' = [workers EXCEPT ![w] =
             [c EXCEPT !.server = [u.server EXCEPT !.stage = stage, !.lost = FALSE]]]
      BY ZenonT(40), <3>1
    <3>3. /\ stage \in {"quiet", "hearing", "owing"}
          /\ stage = "quiet" \/ u.server.stage # "quiet"
      BY DEF Resumed
    <3> HIDE DEF u, a
    <3>4. b \in Worker /\ Heeds(b) /\ b.phase = "live" /\ b.server = u.server
      BY <2>3, WorkerIs DEF Heeds
    <3> HIDE DEF b
    <3>5. c \in Worker /\ Heeds(c) /\ c.phase = "live" /\ c.server = u.server
      BY <3>4, WorkerIs DEF Heeds
    <3> HIDE DEF c
    <3>7. workers' = [workers EXCEPT ![w] = q]
      BY <3>2, <1>1, ServerIs
    <3>8. q \in Worker /\ Heeds(q) /\ q.phase = "live"
      BY <3>3, <3>5, ServerField
    <3> HIDE DEF q
    <3> QED BY <2>1, <3>1, <3>7, <3>8, LiveKeeps, Shifting, EmitAdds
  <2> QED BY <2>4, <2>5, <2>6
<1>4. MayRetry(u) \/ Fail(w)
  BY DEF Retry
<1> QED BY <1>2, <1>3, <1>4

\* The end of a worker: what it lets go of it does not hold.
LEMMA DeadlineKeeps ==
    ASSUME IInv, NEW w \in Sessions, Deadline(w)
    PROVE  IInv' /\ app'.chat = app.chat
<1> DEFINE u == workers[w]
           a == [u EXCEPT !.link = "STOPPING"]
           b == [a EXCEPT !.own = FALSE]
           q == [b EXCEPT !.wire = <<>>]
<1>1. u \in Worker /\ Heeds(u) /\ u.phase = "live"
  BY Workers DEF Deadline
<1>2. workers' = [workers EXCEPT ![w] = q]
  BY Zenon DEF Deadline
<1>3. Shift(w) /\ Adds
  BY Shifting, EmitAdds DEF Deadline
<1> HIDE DEF u
<1>4. a \in Worker /\ Heeds(a) /\ a.phase = "live"
  BY <1>1, WorkerField
<1> HIDE DEF a
<1>5. b \in Worker /\ Heeds(b) /\ b.phase = "live"
  BY <1>4, WorkerField
<1> HIDE DEF b
<1> HIDE DEF b
<1>6. q \in Worker /\ Heeds(q) /\ q.phase = "live"
  <2>1. <<>> \in Wires /\ 1..Len(<<>>) = {}
    BY WorkerIs
  <2> QED BY <1>5, <2>1, WireField
<1> HIDE DEF q
<1> QED BY <1>2, <1>3, <1>6, LiveKeeps

LEMMA StopKeeps ==
    ASSUME IInv, NEW w \in Sessions, Stop(w)
    PROVE  IInv' /\ app'.chat = app.chat
<1> DEFINE u == workers[w]
           p == [u EXCEPT !.phase = "closing"]
           r == [p EXCEPT !.own = FALSE]
           l == [r EXCEPT !.link = "STOPPING"]
           q == [l EXCEPT !.wire = <<>>]
<1>1. u \in Worker /\ Heeds(u)
  BY Workers
<1>2. UNCHANGED signals
  BY DEF Stop
<1>3. \/ workers' = [workers EXCEPT ![w] = r] /\ app.life = "IDLE" /\ app' = app
      \/ workers' = [workers EXCEPT ![w] = r] /\ app' = Closed(app)
      \/ workers' = [workers EXCEPT ![w] = q] /\ app' = Stopping(app)
  <2>1. [u EXCEPT !.phase = "closing", !.own = FALSE] = r
    BY Zenon
  <2>2. [r EXCEPT !.link = "STOPPING", !.wire = <<>>] = q
    BY Zenon
  <2> HIDE DEF r, q
  <2> QED BY <2>1, <2>2, Zenon DEF Stop
<1> HIDE DEF u
<1>4. p \in Worker /\ Heeds(p) /\ p.phase = "closing"
  BY <1>1, WorkerField DEF Phases
<1> HIDE DEF p
<1>5. r \in Worker /\ Heeds(r) /\ r.phase = "closing"
  BY <1>4, WorkerField
<1> HIDE DEF r
<1>6. l \in Worker /\ Heeds(l) /\ l.phase = "closing" /\ l.link = "STOPPING"
  BY <1>5, WorkerField
<1> HIDE DEF l
<1>7. q \in Worker /\ Heeds(q) /\ q.phase = "closing" /\ q.link = "STOPPING"
  BY <1>6, WireField, WorkerIs
<1> HIDE DEF q
<1>8. CASE /\ workers' = [workers EXCEPT ![w] = r]
           /\ \/ app.life = "IDLE" /\ app' = app
              \/ app' = Closed(app)
  BY <1>8, Shifting, AppIsGood, <1>5, TurnNames, <1>2, AddsKeeps, EmitAdds DEF Core, Lives,
     Turned, Early
<1>9. CASE workers' = [workers EXCEPT ![w] = q] /\ app' = Stopping(app)
  BY <1>7, <1>9, Shifting, <1>2, AddsKeeps, EmitAdds DEF Turned, Early, Free
<1> QED BY <1>3, <1>8, <1>9

LEMMA ReleaseKeeps ==
    ASSUME IInv, NEW w \in Sessions, Release(w)
    PROVE  IInv' /\ app'.chat = app.chat
<1> DEFINE u == workers[w]
           d == Doomed(u)
           l == [d EXCEPT !.link = "IDLE"]
           q == [l EXCEPT !.own = FALSE]
<1>1. u \in Worker /\ Heeds(u)
  BY Workers
<1>2. workers' = [workers EXCEPT ![w] = q]
  BY Zenon DEF Release, Released
<1>3. Shift(w) /\ app'.session = None /\ Adds
  BY Shifting, EmitAdds DEF Release
<1> HIDE DEF u
<1>4. d \in Worker /\ Heeds(d) /\ d.phase = u.phase
  BY <1>1, DoomedIs
<1> HIDE DEF d
<1>5. l \in Worker /\ Heeds(l) /\ l.phase = u.phase
  BY <1>4, WorkerField
<1> HIDE DEF l
<1>6. q \in Worker /\ Heeds(q) /\ q.phase = u.phase
  BY <1>5, WorkerField
<1> HIDE DEF q
<1>7. Turned(w, q)
  BY <1>2, <1>3, <1>6, TurnNames DEF Turned, u
<1> QED BY <1>3, <1>6, <1>7, AddsKeeps DEF u

LEMMA LeaveKeeps ==
    ASSUME IInv, NEW w \in Sessions, Leave(w)
    PROVE  IInv' /\ app'.chat = app.chat
<1> DEFINE u == workers[w]
           x == u.crossed
           p == [Fresh EXCEPT !.phase = "done"]
           q == [p EXCEPT !.crossed = x]
<1>1. u \in Worker /\ Free(u) /\ app.session # w
  BY Workers DEF Leave, Free
<1>2. workers' = [workers EXCEPT ![w] = q]
  BY Zenon DEF Leave
<1>3. Shift(w) /\ Adds /\ app' = app
  BY Shifting, EmitAdds DEF Leave
<1>4. x \in BOOLEAN
  BY <1>1, WorkerIs
<1> HIDE DEF u, x
<1>5. Fresh \in Worker /\ Heeds(Fresh)
  BY WorkerIs DEF Fresh, Phases, Heeds, Silent
<1>6. p \in Worker /\ Heeds(p) /\ p.phase = "done"
  BY <1>5, WorkerField DEF Phases
<1> HIDE DEF p
<1>7. q \in Worker /\ Heeds(q) /\ q.phase = "done"
  BY <1>4, <1>6, WorkerIs DEF Heeds
<1> HIDE DEF q
<1>8. Turned(w, q)
  BY <1>1, <1>2, <1>3, <1>7 DEF Turned, Early
<1> QED BY <1>3, <1>7, <1>8, AddsKeeps DEF Early

\* An activity of the user is heard: the provider knows its turn from then on.
LEMMA HearingIs ==
    ASSUME NEW r \in Worker, NEW n \in Numbers \ {0},
           r.server.stage # "quiet" => r.server.turn # 0,
           \A i \in 1..Len(r.wire) : r.wire[i].turn # 0, NEW q \in Hearing(r, n)
    PROVE  q \in Worker /\ Heeds(q) /\ q.phase = r.phase /\ q.link = r.link
<1> DEFINE v == [stage |-> "hearing", turn |-> n, lost |-> r.server.lost]
           a == [r EXCEPT !.server = v]
<1>1. /\ r.server \in Servers /\ v \in Servers /\ v.turn # 0 /\ r.wire \in Seq(Events)
      /\ r.server.turn \in Numbers
  BY WorkerIs DEF Wires, Servers
<1>2. a \in Worker
  <2> HIDE DEF v
  <2> QED BY <1>1, WorkerIs
<1>3. /\ a.wire = r.wire /\ a.phase = r.phase /\ a.link = r.link /\ a.server = v
  <2> HIDE DEF v
  <2> QED BY <1>2, WorkerIs
<1>4. CASE r.server.stage = "hearing"
  <2>1. q = [r EXCEPT !.server = [r.server EXCEPT !.turn = n]]
    BY <1>4, Zenon DEF Hearing
  <2>2. [r.server EXCEPT !.turn = n] = v
    <3>1. [r.server EXCEPT !.turn = n]
             = [stage |-> r.server.stage, turn |-> n, lost |-> r.server.lost]
      BY <1>1, ServerIs
    <3> QED BY <1>4, <3>1
  <2>3. q = a
    BY <2>1, <2>2
  <2> HIDE DEF a, v
  <2> QED BY <1>1, <1>2, <1>3, <2>3 DEF Heeds
<1>5. CASE r.server.stage # "hearing"
  <2> DEFINE i == [kind |-> "interrupted", turn |-> r.server.turn]
             c == [kind |-> "completed", turn |-> r.server.turn]
  <2>1. PICK x \in IF r.server.stage = "quiet" THEN {<<>>} ELSE {<<i>>, <<i, c>>} :
          q = [r EXCEPT !.server.stage = "hearing", !.server.turn = n, !.wire = @ \o x]
    BY <1>5, Zenon DEF Hearing
  <2> DEFINE y == r.wire \o x
             b == [a EXCEPT !.wire = y]
  <2>2. i \in Events /\ c \in Events /\ i.turn = r.server.turn /\ c.turn = r.server.turn
    BY <1>1 DEF Events
  <2>4. q = b
    <3>1. q = [r EXCEPT !.server = [r.server EXCEPT !.stage = "hearing", !.turn = n],
                        !.wire = y]
      BY <2>1, Zenon
    <3>2. q = [r EXCEPT !.server = v, !.wire = y]
      BY <1>1, <3>1, ServerIs
    <3> HIDE DEF y, v
    <3> QED BY <3>2, Zenon
  <2>5. x \in Seq(Events) /\ \A j \in 1..Len(x) : x[j].turn # 0
    <3> HIDE DEF i, c
    <3>1. CASE r.server.stage = "quiet"
      BY <2>1, <3>1
    <3>2. CASE r.server.stage # "quiet"
      <4>1. CASE x = <<i>>
        BY <1>1, <2>2, <3>2, <4>1
      <4>2. CASE x = <<i, c>>
        BY <1>1, <2>2, <3>2, <4>2
      <4> QED BY <2>1, <3>2, <4>1, <4>2
    <3> QED BY <3>1, <3>2
  <2>6. y \in Wires /\ \A j \in 1..Len(y) : y[j].turn # 0
    BY <1>1, <2>5 DEF Wires
  <2> HIDE DEF a, v, y
  <2>7. b \in Worker
    BY <1>2, <2>6, WorkerIs
  <2>8. b.wire = y /\ b.phase = r.phase /\ b.link = r.link /\ b.server = v
    BY <1>2, <1>3, <2>6, WorkerIs
  <2> HIDE DEF b
  <2> QED BY <1>1, <2>4, <2>6, <2>7, <2>8 DEF Heeds
<1> QED BY <1>4, <1>5

LEMMA CalledIs ==
    ASSUME NEW w \in Sessions, NEW r \in Worker, Heeds(r), NEW c \in Calls,
           NEW q \in Called(w, r, c)
    PROVE  q \in Worker /\ Heeds(q) /\ q.phase = r.phase /\ q.link = r.link
<1>1. /\ c.turn \in Turns /\ c.turn[2] \in Numbers \ {0} /\ c.turn[2] \in Numbers
      /\ c.op \in {"frame", "end", "interrupt"}
  BY TurnNames, BoundsAssumption DEF Calls, Numbers
<1>2. /\ r.server.stage # "quiet" => r.server.turn # 0
      /\ \A i \in 1..Len(r.wire) : r.wire[i].turn # 0
      /\ r.server \in Servers /\ r.server.turn \in Numbers
  BY WorkerIs DEF Heeds, Servers
<1>3. \/ c.op = "frame" /\ q \in AcceptAudio(w, r, c.turn)
      \/ c.op = "end" /\ q \in EndTurn(r, c.turn[2])
      \/ c.op = "interrupt" /\ q \in Interrupt(r, c.turn[2])
  BY <1>1 DEF Called
<1>4. CASE q \in AcceptAudio(w, r, c.turn)
  <2> DEFINE n == c.turn[2]
             a == [r EXCEPT !.turn = n]
             b == [a EXCEPT !.complete = FALSE]
  <2>1. q = r \/ q \in Hearing(b, n) \/ q \in Hearing(r, n)
    BY <1>4, Zenon DEF AcceptAudio
  <2>2. n \in Numbers /\ n \in Numbers \ {0}
    BY <1>1
  <2> HIDE DEF n
  <2>3. a \in Worker
    BY <2>2, WorkerIs
  <2>4. a.wire = r.wire /\ a.phase = r.phase /\ a.link = r.link /\ a.server = r.server
    BY <2>3, WorkerIs
  <2> HIDE DEF a
  <2>5. b \in Worker
    BY <2>3, WorkerIs
  <2>6. b.wire = r.wire /\ b.phase = r.phase /\ b.link = r.link /\ b.server = r.server
    BY <2>3, <2>4, <2>5, WorkerIs
  <2> HIDE DEF b
  <2> QED BY <1>2, <2>1, <2>2, <2>5, <2>6, HearingIs
<1>5. CASE q \in EndTurn(r, c.turn[2])
  <2> DEFINE v == [stage |-> "owing", turn |-> r.server.turn, lost |-> r.server.lost]
  <2>1. \/ q = r
        \/ /\ q = [r EXCEPT !.server = [r.server EXCEPT !.stage = "owing"]]
           /\ r.server.stage = "hearing"
    BY <1>5, Zenon DEF EndTurn
  <2>2. [r.server EXCEPT !.stage = "owing"] = v /\ r.server.lost \in BOOLEAN
    BY <1>2, ServerIs
  <2>3. r.server.stage = "hearing" =>
           LET p == [r EXCEPT !.server = v]
           IN  p \in Worker /\ Heeds(p) /\ p.phase = r.phase /\ p.link = r.link
    BY <2>2, ServerField
  <2> HIDE DEF v
  <2> QED BY <2>1, <2>2, <2>3
<1>6. CASE q \in Interrupt(r, c.turn[2])
  <2> DEFINE n == c.turn[2]
             a == [r EXCEPT !.quarantine = n]
             b == [a EXCEPT !.complete = TRUE]
  <2>1. q = r \/ (n = r.turn /\ q \in Hearing(b, r.server.turn))
    BY <1>6, Zenon DEF Interrupt
  <2>2. n \in Numbers /\ n # 0
    BY <1>1
  <2> HIDE DEF n
  <2>3. a \in Worker
    BY <2>2, WorkerIs
  <2>4. a.wire = r.wire /\ a.phase = r.phase /\ a.link = r.link /\ a.server = r.server
    BY <2>3, WorkerIs
  <2> HIDE DEF a
  <2>5. b \in Worker
    BY <2>3, WorkerIs
  <2>6. b.wire = r.wire /\ b.phase = r.phase /\ b.link = r.link /\ b.server = r.server
    BY <2>3, <2>4, <2>5, WorkerIs
  <2> HIDE DEF b
  <2> QED BY <1>2, <2>1, <2>5, <2>6, <2>2, HearingIs DEF Heeds
<1> QED BY <1>3, <1>4, <1>5, <1>6

LEMMA CallKeeps ==
    ASSUME IInv, NEW w \in Sessions, Call(w)
    PROVE  IInv' /\ app'.chat = app.chat
<1> DEFINE u == workers[w]
           x == Tail(u.calls)
           r == [u EXCEPT !.calls = x]
           c == Head(u.calls)
           d == Doomed(r)
<1>1. u \in Worker /\ Heeds(u) /\ u.calls \in Seq(Calls) /\ u.calls # <<>>
  BY Workers, WorkerIs DEF Call, Desks
<1>2. /\ app' = app
      /\ \/ workers' = [workers EXCEPT ![w] = d] /\ signals' = EmitFailure(w)
         \/ /\ \E q \in Called(w, r, c) : workers' = [workers EXCEPT ![w] = q]
            /\ UNCHANGED signals
  BY Zenon DEF Call
<1>3. Adds
  BY <1>2, EmitAdds
<1>4. x \in Desks /\ c \in Calls
  BY <1>1 DEF Desks
<1> HIDE DEF u, x, c
<1>5. r \in Worker /\ Heeds(r) /\ r.phase = u.phase /\ r.link = u.link
  BY <1>1, <1>4, WorkerIs DEF Heeds
<1> HIDE DEF r
<1>6. d \in Worker /\ Heeds(d) /\ d.phase = u.phase /\ d.link = u.link
  BY <1>5, DoomedIs
<1> HIDE DEF d
<1>7. PICK q : /\ q \in Worker /\ Heeds(q) /\ q.phase = u.phase /\ q.link = u.link
               /\ workers' = [workers EXCEPT ![w] = q]
  <2>1. CASE workers' = [workers EXCEPT ![w] = d]
    BY <1>6, <2>1
  <2>2. CASE \E q \in Called(w, r, c) : workers' = [workers EXCEPT ![w] = q]
    <3>1. PICK p \in Called(w, r, c) : workers' = [workers EXCEPT ![w] = p]
      BY <2>2
    <3>2. p \in Worker /\ Heeds(p) /\ p.phase = r.phase /\ p.link = r.link
      BY <1>4, <1>5, CalledIs
    <3> QED BY <1>5, <3>1, <3>2
  <2> QED BY <1>2, <2>1, <2>2
<1> QED BY <1>2, <1>3, <1>7, QuietKeeps DEF u

LEMMA DispatchKeeps ==
    ASSUME IInv, NEW w \in Sessions, Dispatch(w)
    PROVE  IInv' /\ app'.chat = app.chat
<1> DEFINE u == workers[w]
           x == Tail(u.wire)
           r == [u EXCEPT !.wire = x]
           e == Head(u.wire)
           a == [r EXCEPT !.quarantine = 0]
           y == r.crossed \/ r.quarantine \notin {0, e.turn}
           b == [a EXCEPT !.crossed = y]
           f == [r EXCEPT !.complete = TRUE]
           z == r.crossed \/ r.turn # e.turn
           g == [f EXCEPT !.crossed = z]
<1>1. /\ u \in Worker /\ Heeds(u) /\ u.wire \in Seq(Events) /\ u.wire # <<>>
      /\ u.phase = "live"
  BY Workers, WorkerIs DEF Dispatch, Wires
<1>2. /\ app' = app
      /\ \/ workers' = [workers EXCEPT ![w] = b]
         \/ workers' = [workers EXCEPT ![w] = g]
         \/ workers' = [workers EXCEPT ![w] = r]
      /\ \/ signals' = signals
         \/ signals' = Emit(w, Signal("interrupted", r.quarantine, 0))
         \/ signals' = Emit(w, Signal(e.kind, r.turn, e.turn))
  BY Zenon DEF Dispatch
<1>3. /\ x \in Wires /\ \A i \in 1..Len(x) : x[i].turn # 0
      /\ e \in Events /\ e.turn # 0
  <2>1. /\ Len(u.wire) \in Nat /\ Len(u.wire) >= 1 /\ e = u.wire[1] /\ e \in Events
        /\ x \in Seq(Events) /\ Len(x) = Len(u.wire) - 1
        /\ \A i \in 1..Len(x) : x[i] = u.wire[i + 1] /\ i + 1 \in 1..Len(u.wire)
    BY <1>1
  <2> HIDE DEF u, x, e
  <2> QED BY <1>1, <2>1 DEF Heeds, Wires
<1> HIDE DEF u, x, e
<1>4. r \in Worker /\ Heeds(r) /\ r.phase = "live"
  BY <1>1, <1>3, WireField
<1>5. /\ r.turn \in Numbers /\ r.quarantine \in Numbers /\ r.crossed \in BOOLEAN
      /\ e.turn \in Numbers /\ 0 \in Numbers
      /\ e.kind \in {"audio", "final", "completed", "interrupted"}
  BY <1>3, <1>4, WorkerIs DEF Events
<1>6. Adds
  <2> HIDE DEF r
  <2>1. CASE signals' = signals
    BY <2>1, EmitAdds
  <2>2. CASE signals' = Emit(w, Signal("interrupted", r.quarantine, 0))
    BY <1>5, <2>2, EmitAdds
  <2>3. CASE signals' = Emit(w, Signal(e.kind, r.turn, e.turn))
    BY <1>3, <1>5, <2>3, EmitAdds
  <2> QED BY <1>2, <2>1, <2>2, <2>3
<1> HIDE DEF r
<1>7. b \in Worker /\ Heeds(b) /\ b.phase = "live"
  <2>1. a \in Worker
    BY <1>4, <1>5, WorkerIs
  <2>2. Heeds(a) /\ a.phase = "live"
    BY <1>4, <2>1, WorkerIs DEF Heeds
  <2>3. y \in BOOLEAN
    BY <1>5
  <2> HIDE DEF a, y
  <2>4. b \in Worker
    BY <2>1, <2>3, WorkerIs
  <2> QED BY <2>1, <2>2, <2>4, WorkerIs DEF Heeds
<1>8. g \in Worker /\ Heeds(g) /\ g.phase = "live"
  <2>1. f \in Worker
    BY <1>4, WorkerIs
  <2>2. Heeds(f) /\ f.phase = "live"
    BY <1>4, <2>1, WorkerIs DEF Heeds
  <2>3. z \in BOOLEAN
    BY <1>5
  <2> HIDE DEF f, z
  <2>4. g \in Worker
    BY <2>1, <2>3, WorkerIs
  <2> QED BY <2>1, <2>2, <2>4, WorkerIs DEF Heeds
<1> HIDE DEF b, g
<1> QED BY <1>2, <1>4, <1>6, <1>7, <1>8, LiveKeeps, Shifting

-----------------------------------------------------------------------------
(* What is heard: the order of calls and answers *)

\* The place of a call in the order in which a conversation sends them: the frames of a
\* turn, its end, its interruption, then the next turn.  The worker serves its own turns
\* only, and the turns of another session come last.
Last == 3 * MaxTurns + 3
Place(w, t, n) == IF t[1] = w /\ t[2] <= MaxTurns THEN 3 * t[2] + n ELSE Last
Rank(w, c) == Place(w, c.turn, CASE c.op = "frame" -> 0
                                 [] c.op = "end" -> 1
                                 [] c.op = "interrupt" -> 2)

\* Calls in order, none before place k, and a place at or after all of them.
Lined(w, C, k) ==
    /\ \A i \in 1..Len(C) : k <= Rank(w, C[i])
    /\ \A i, j \in 1..Len(C) : i < j => Rank(w, C[i]) <= Rank(w, C[j])
Comes(w, C, k, f) == k <= f /\ \A i \in 1..Len(C) : Rank(w, C[i]) <= f

\* What can still be sent comes after the calls that wait: frames of the turn on the
\* bridge, the end of the open turn, and the frames of the turn that is next.
Fore(s) == Place(s.thread, <<s.session, s.next>>, 0)
Ahead(s, C, k) ==
    /\ Comes(s.thread, C, k, Fore(s))
    /\ s.bridge # None => /\ Comes(s.thread, C, k, Place(s.thread, s.bridge, 0))
                          /\ Place(s.thread, s.bridge, 0) <= Fore(s)
    /\ s.turn # None => /\ Comes(s.thread, C, k, Place(s.thread, s.turn, 1))
                        /\ Place(s.thread, s.turn, 1) <= Fore(s)
    /\ s.bridge # None /\ s.turn # None =>
          Place(s.thread, s.bridge, 0) <= Place(s.thread, s.turn, 1)

\* What plays or waits to be played is the open turn's, unless x.
Sounding(s, x) ==
    /\ s.sound # None => s.playing
    /\ s.playing \/ s.more # None => s.play # "off"
    /\ \A a \in {s.sound, s.more} : a # None => a[1] = s.thread /\ (a = s.turn \/ x)

Pending(s) == workers[s.thread].calls \o s.sent
Crossed(s) == s.thread # None /\ workers[s.thread].crossed
Awake(s) == s.thread # None => workers[s.thread].phase \notin Early

\* The record of a conversation whose calls are in order from place k.
Orderly(s, k) ==
    /\ s.thread = None => ~s.active
    /\ Sounding(s, Crossed(s))
    /\ s.thread # None =>
          /\ Lined(s.thread, Pending(s), k) /\ Ahead(s, Pending(s), k)
          /\ Awake(s) \/ (s.turn = None /\ s.bridge = None /\ Pending(s) = <<>>)

LEMMA PlaceIs ==
    ASSUME NEW w, NEW t, t[2] \in Nat
    PROVE  /\ Place(w, t, 0) \in 0..Last /\ Place(w, t, 1) \in 0..Last
           /\ Place(w, t, 2) \in 0..Last
           /\ Place(w, t, 0) <= Place(w, t, 1) /\ Place(w, t, 1) <= Place(w, t, 2)
  BY TurnNames DEF Place, Last

LEMMA PlaceNext ==
    ASSUME NEW w, NEW v, NEW n \in Nat
    PROVE  Place(w, <<v, n>>, 2) <= Place(w, <<v, n + 1>>, 0)
  BY TurnNames DEF Place, Last

LEMMA RankIs ==
    ASSUME NEW w, NEW c \in Calls
    PROVE  /\ Rank(w, c) \in 0..Last
           /\ c.op = "frame" => Rank(w, c) = Place(w, c.turn, 0)
           /\ c.op = "end" => Rank(w, c) = Place(w, c.turn, 1)
           /\ c.op = "interrupt" => Rank(w, c) = Place(w, c.turn, 2)
BY TurnNames, PlaceIs DEF Calls, Rank

-----------------------------------------------------------------------------
(* Records that give something up *)

\* A turn, frames, or what is heard.
Yields(s, r) ==
    /\ r \in Wide /\ r.thread = s.thread /\ r.session = s.session /\ r.next = s.next
    /\ r.sent = s.sent /\ (r.active => s.active)
    /\ r.turn \in {s.turn, None} /\ r.bridge \in {s.bridge, None}
    /\ \/ /\ r.play = "off" <=> s.play = "off"
          /\ r.more \in {s.more, None} /\ r.turn = s.turn
          /\ \/ r.sound \in {s.sound, None} /\ r.playing = s.playing
             \/ r.sound = None /\ ~r.playing
       \/ r.play = "off" /\ ~r.playing /\ r.more = None /\ r.sound = None

LEMMA YieldsOrderly ==
    ASSUME NEW s, NEW r, NEW k, Yields(s, r), Orderly(s, k)
    PROVE  Orderly(r, k)
BY DEF Yields, Orderly, Sounding, Crossed, Pending, Fore, Awake, Ahead

LEMMA YieldsTwice ==
    ASSUME NEW s, NEW r, NEW q, Yields(s, r), Yields(r, q)
    PROVE  Yields(s, q)
  BY DEF Yields

LEMMA YieldsSelf ==
    ASSUME NEW s \in Wide
    PROVE  Yields(s, s)
  BY DEF Yields

LEMMA VoiceYields ==
    ASSUME NEW s \in Wide
    PROVE  /\ Yields(s, Idle(s)) /\ Yields(s, CloseMic(s)) /\ Yields(s, ReportError(s))
           /\ Yields(s, CancelListen(s)) /\ Yields(s, Listen(s))
<1>1. Idle(s) \in Wide /\ CloseMic(s) \in Wide /\ ReportError(s) \in Wide
  BY IdleQuiet, CloseMicQuiet, ReportErrorQuiet DEF Quiet, Less
<1>2. Yields(s, Idle(s))
  BY <1>1 DEF Wide, Idle, Yields
<1>3. ASSUME NEW r \in Wide PROVE Yields(r, CloseMic(r))
  <2>1. CloseMic(r) \in Wide
    BY <1>3, CloseMicQuiet DEF Quiet, Less
  <2> QED BY <1>3, <2>1 DEF Wide, CloseMic, Yields
<1>4. Yields(Idle(s), ReportError(s))
  BY <1>1 DEF Wide, ReportError, Yields
<1>5. Yields(s, ReportError(s))
  BY <1>2, <1>4, YieldsTwice
<1>6. Yields(s, CancelListen(s))
  BY <1>1, <1>2, <1>3, YieldsTwice DEF CancelListen
<1>7. Yields(s, Listen(s))
  <2> DEFINE o == ~s.mic
             r == [s EXCEPT !.voice = "LISTENING", !.op = "input", !.opens = o]
  <2>1. Listen(s) = s \/ Listen(s) = r
    BY Zenon DEF Listen
  <2>2. r.active = s.active /\ r.thread = s.thread /\ r.session = s.session
        /\ r.next = s.next /\ r.sent = s.sent /\ r.turn = s.turn /\ r.bridge = s.bridge
        /\ r.play = s.play /\ r.more = s.more /\ r.sound = s.sound /\ r.playing = s.playing
    <3> HIDE DEF o
    <3> QED BY DEF Wide
  <2>3. Listen(s) \in Wide
    BY ListenLess DEF Less
  <2> HIDE DEF r
  <2> QED BY <2>1, <2>2, <2>3 DEF Yields
<1> QED BY <1>2, <1>3, <1>5, <1>6, <1>7

LEMMA FlagYields ==
    ASSUME NEW s \in Wide, NEW x \in BOOLEAN
    PROVE  /\ Yields(s, [s EXCEPT !.out = x]) /\ Yields(s, [s EXCEPT !.halt = x])
           /\ Yields(s, [s EXCEPT !.raised = x]) /\ Yields(s, [s EXCEPT !.heard = x])
           /\ Yields(s, [s EXCEPT !.renew = x]) /\ Yields(s, [s EXCEPT !.deaf = x])
           /\ Yields(s, [s EXCEPT !.paused = x])
<1>1. /\ [s EXCEPT !.out = x] \in Wide /\ [s EXCEPT !.halt = x] \in Wide
      /\ [s EXCEPT !.raised = x] \in Wide /\ [s EXCEPT !.heard = x] \in Wide
      /\ [s EXCEPT !.renew = x] \in Wide /\ [s EXCEPT !.deaf = x] \in Wide
      /\ [s EXCEPT !.paused = x] \in Wide
  BY SetFlags
<1>4. Yields(s, [s EXCEPT !.renew = x]) /\ Yields(s, [s EXCEPT !.deaf = x])
  BY <1>1 DEF Wide, Yields
<1>5. Yields(s, [s EXCEPT !.paused = x])
  BY <1>1 DEF Wide, Yields
<1> QED BY <1>1, <1>4, <1>5 DEF Wide, Yields

LEMMA HeldYields ==
    ASSUME NEW s \in Wide, NEW x \in Nat
    PROVE  Yields(s, [s EXCEPT !.held = x])
BY SetLedger DEF Wide, Yields

LEMMA TextYields ==
    ASSUME NEW s \in Wide, NEW x \in NamedText \cup {None}
    PROVE  Yields(s, [s EXCEPT !.text = x])
BY SetText DEF Wide, Yields

LEMMA FieldYields ==
    ASSUME NEW s \in Wide
    PROVE  /\ Yields(s, [s EXCEPT !.active = FALSE]) /\ Yields(s, [s EXCEPT !.bridge = None])
           /\ Yields(s, [s EXCEPT !.sound = None])
<1>1. [s EXCEPT !.active = FALSE] \in Wide
  BY SetFlags
<1>2. [s EXCEPT !.bridge = None] \in Wide /\ [s EXCEPT !.sound = None] \in Wide
  BY SetTurns
<1>3. Yields(s, [s EXCEPT !.active = FALSE])
  BY <1>1 DEF Wide, Yields
<1>4. Yields(s, [s EXCEPT !.bridge = None])
  BY <1>2 DEF Wide, Yields
<1>5. Yields(s, [s EXCEPT !.sound = None])
  BY <1>2 DEF Wide, Yields
<1> QED BY <1>3, <1>4, <1>5

\* The queue lets go of everything, and then the turn may go.
Still(s) == s.play = "off" /\ ~s.playing /\ s.more = None /\ s.sound = None

LEMMA CancelPlayYields ==
    ASSUME NEW s \in Wide
    PROVE  Yields(s, CancelPlay(s)) /\ Still(CancelPlay(s))
<1>1. CancelPlay(s) \in Wide
  BY CancelPlayQuiet DEF Quiet, Less
<1> QED BY <1>1 DEF Wide, CancelPlay, Yields, Still

LEMMA StopSpeechYields ==
    ASSUME NEW s \in Wide
    PROVE  Yields(s, StopSpeech(s))
BY IdleQuiet, VoiceYields, FieldYields, YieldsTwice DEF Quiet, Less, StopSpeech

LEMMA StillYields ==
    ASSUME NEW s, NEW r, Yields(s, r), Still(s)
    PROVE  Still(r)
  BY DEF Yields, Still

LEMMA CancelTextYields ==
    ASSUME NEW s, Core(s)
    PROVE  Yields(s, CancelText(s))
BY CancelTextLess, TextYields DEF Core

LEMMA ReleaseTurnYields ==
    ASSUME NEW s, Core(s)
    PROVE  Yields(s, ReleaseTurn(s)) /\ Still(ReleaseTurn(s))
<1> DEFINE p == CancelListen(s)
           q == CancelPlay(p)
           c == CancelText(q)
           h == [c EXCEPT !.held = 0]
           t == IF s.turn = None THEN q ELSE h
           b == [t EXCEPT !.bridge = None]
           n == [b EXCEPT !.turn = None]
           u == [n EXCEPT !.out = FALSE]
           r == Idle(u)
<1>1. Yields(s, p) /\ Quiet(s, p) /\ p \in Wide
  BY VoiceYields, CancelListenQuiet DEF Core, Yields
<1>2. ReleaseTurn(s) = r
  BY Zenon DEF ReleaseTurn
<1> HIDE DEF p
<1>3. Yields(p, q) /\ Still(q) /\ q \in Wide /\ Quiet(p, q)
  BY <1>1, CancelPlayYields, CancelPlayQuiet DEF Yields
<1> HIDE DEF q
<1>4. Core(q)
  BY <1>1, <1>3, QuietTwice, LessCore DEF Quiet
<1>5. Yields(q, c) /\ c \in Wide
  BY <1>4, CancelTextYields DEF Yields
<1> HIDE DEF c
<1>6. Yields(c, h) /\ h \in Wide
  BY <1>5, HeldYields DEF Yields
<1> HIDE DEF h
<1>7. Yields(q, t) /\ t \in Wide
  BY <1>3, <1>5, <1>6, YieldsSelf, YieldsTwice
<1>8. Still(t)
  BY <1>3, <1>7, StillYields
<1> HIDE DEF t
<1>9. Yields(t, b) /\ b \in Wide
  BY <1>7, FieldYields DEF Yields
<1>10. Still(b)
  BY <1>8, <1>9, StillYields
<1> HIDE DEF b
<1>11. Yields(b, n) /\ n \in Wide
  BY <1>9, SetTurns, <1>10 DEF Wide, Yields, Still
<1> HIDE DEF n
<1>12. Yields(n, u) /\ u \in Wide
  BY <1>11, FlagYields DEF Yields
<1> HIDE DEF u
<1>13. Yields(u, r)
  BY <1>12, VoiceYields
<1>14. Yields(t, r)
  BY <1>9, <1>11, <1>12, <1>13, YieldsTwice
<1> QED BY <1>1, <1>2, <1>3, <1>7, <1>8, <1>14, YieldsTwice, StillYields

LEMMA EndYields ==
    ASSUME NEW s, Core(s)
    PROVE  Yields(s, Gone(s)) /\ Yields(s, Ended(s))
<1>1. Yields(s, Gone(s))
  <2>1. CASE ~s.active
    BY <2>1, YieldsSelf DEF Core, Gone
  <2>2. CASE s.active
    <3> DEFINE q == ReleaseTurn(s)
    <3>1. Yields(s, q) /\ q \in Wide
      BY ReleaseTurnYields DEF Yields
    <3>2. Gone(s) = [q EXCEPT !.active = FALSE]
      BY <2>2 DEF Gone
    <3> HIDE DEF q
    <3> QED BY <3>1, <3>2, FieldYields, YieldsTwice
  <2> QED BY <2>1, <2>2
<1>2. Gone(s) \in Wide
  BY <1>1 DEF Yields
<1>3. Yields(s, Ended(s))
  BY <1>1, <1>2, FlagYields, YieldsTwice, YieldsSelf DEF Ended, Core
<1> QED BY <1>1, <1>3

LEMMA RaiseYields ==
    ASSUME NEW s \in Wide
    PROVE  Yields(s, Raise(s))
  BY FlagYields DEF Raise

-----------------------------------------------------------------------------
(* The next turn *)

\* A turn that is new, and nothing that sounds.
Renews(s, r) ==
    /\ r \in Wide /\ r.thread = s.thread /\ r.session = s.session /\ r.next = s.next + 1
    /\ r.sent = s.sent /\ (r.active => s.active)
    /\ r.turn = <<s.session, s.next>> /\ r.bridge \in {s.bridge, None, r.turn}
    /\ ~r.playing /\ r.more = None /\ r.sound = None

LEMMA RenewsOrderly ==
    ASSUME IInv, NEW s \in Wide, NEW r, NEW k \in Nat, Renews(s, r), Orderly(s, k), Awake(s)
    PROVE  Orderly(r, k)
<1> DEFINE x == <<s.session, s.next>>
           y == <<s.session, s.next + 1>>
           w == s.thread
           C == Pending(s)
<1>1. /\ Pending(r) = C /\ Awake(r) /\ r.thread = w /\ r.turn = x
      /\ Fore(s) = Place(w, x, 0) /\ Fore(r) = Place(w, y, 0)
  BY DEF Renews, Pending, Awake, Fore
<1>2. Sounding(r, Crossed(r))
  BY DEF Renews, Sounding
<1>3. s.next \in Nat /\ s.bridge \in Names \cup {None}
  BY DEF Wide
<1>4. /\ Place(w, x, 0) \in Nat /\ Place(w, x, 1) \in Nat /\ Place(w, y, 0) \in Nat
      /\ Place(w, x, 0) <= Place(w, x, 1) /\ Place(w, x, 1) <= Place(w, y, 0)
      /\ s.bridge # None => Place(w, s.bridge, 0) \in Nat
  <2>1. x[2] \in Nat /\ y[2] \in Nat /\ (s.bridge # None => s.bridge[2] \in Nat)
    BY <1>3, TurnNames
  <2>2. /\ Place(w, x, 0) \in 0..Last /\ Place(w, x, 1) \in 0..Last /\ Place(w, x, 2) \in 0..Last
        /\ Place(w, y, 0) \in 0..Last
        /\ Place(w, x, 0) <= Place(w, x, 1) /\ Place(w, x, 1) <= Place(w, x, 2)
        /\ s.bridge # None => Place(w, s.bridge, 0) \in 0..Last
    <3> HIDE DEF x, y, w
    <3> QED BY <2>1, PlaceIs
  <2>3. Place(w, x, 2) <= Place(w, y, 0)
    BY <1>3, PlaceNext
  <2>4. Last \in Nat
    BY TurnNames DEF Last
  <2> HIDE DEF x, y, w
  <2> QED BY <2>2, <2>3, <2>4
<1>5. ASSUME w # None
      PROVE  /\ Lined(w, C, k) /\ Ahead(r, C, k)
  <2>1. Lined(w, C, k) /\ Ahead(s, C, k)
    BY <1>5 DEF Orderly
  <2>2. C \in Seq(Calls)
    BY <1>5, WorkerIs DEF Wide, Sendings, IInv, TypeOK, Desks, Pending
  <2>3. \A i \in 1..Len(C) : Rank(w, C[i]) \in Nat
    BY <2>2, RankIs DEF Last
  <2> HIDE DEF C, x, y, w
  <2>4. Comes(w, C, k, Place(w, x, 0))
    BY <1>1, <2>1 DEF Ahead, w
  <2> QED BY <1>1, <1>4, <2>1, <2>3, <2>4 DEF Ahead, Comes, w, Renews
<1> QED BY <1>1, <1>2, <1>5 DEF Orderly, Renews

LEMMA RenewsYields ==
    ASSUME NEW s, NEW r, NEW q, Renews(s, r), Yields(r, q), q.turn = r.turn
    PROVE  Renews(s, q)
  BY DEF Renews, Yields

-----------------------------------------------------------------------------
(* What plays, and what is sent *)

\* Something more waits or plays, of the turn a.
Sounds(s, r, a) ==
    /\ r \in Wide /\ r.thread = s.thread /\ r.session = s.session /\ r.next = s.next
    /\ r.sent = s.sent /\ (r.active => s.active) /\ r.turn = s.turn /\ r.bridge = s.bridge
    /\ r.play = s.play /\ r.play # "off"
    /\ r.sound \in {s.sound, a} /\ r.more \in {s.more, a}
    /\ r.playing \/ (r.playing = s.playing /\ r.sound = s.sound)

\* A turn whose audio may be heard.
Sound(s, a) == a \in Names /\ a[1] = s.thread /\ (a = s.turn \/ Crossed(s))

LEMMA SoundsOrderly ==
    ASSUME NEW s, NEW r, NEW a, NEW k, Sounds(s, r, a), Sound(s, a), Orderly(s, k)
    PROVE  Orderly(r, k)
BY DEF Sounds, Pending, Fore, Awake, Crossed, Sound, Orderly, Sounding, Ahead

LEMMA PlaySegmentSounds ==
    ASSUME NEW s \in Wide, NEW a \in Names, s.play # "off"
    PROVE  Sounds(s, PlaySegment(s, a), a)
<1> DEFINE e == ReportError(s)
           p == [s EXCEPT !.playing = TRUE, !.sound = a]
           q == [e EXCEPT !.playing = TRUE]
<1>1. PlaySegment(s, a) \in Wide
  BY PlaySegmentTakes
<1>2. PlaySegment(s, a) = p \/ PlaySegment(s, a) = q
  BY Zenon DEF PlaySegment
<1>3. CASE PlaySegment(s, a) = p
  BY <1>1, <1>3 DEF Wide, Sounds
<1>4. CASE PlaySegment(s, a) = q
  <2>1. e \in Wide /\ e = [Idle(s) EXCEPT !.deaf = TRUE] /\ Idle(s) \in Wide
    BY IdleQuiet, ReportErrorQuiet DEF Quiet, Less, ReportError
  <2> QED BY <1>4, <1>1, <2>1 DEF Wide, Sounds, Idle
<1> QED BY <1>2, <1>3, <1>4

LEMMA PlayMoreOrderly ==
    ASSUME NEW s \in Wide, s.more # None, NEW k, Orderly(s, k)
    PROVE  Orderly(PlayMore(s), k)
<1> DEFINE q == [s EXCEPT !.more = None]
<1>1. q \in Wide /\ s.more \in Names
  BY SetTurns DEF Wide
<1>2. PlayMore(s) = PlaySegment(q, s.more)
  BY DEF PlayMore
<1>3. Yields(s, q) /\ q.play = s.play /\ q.turn = s.turn /\ q.thread = s.thread
  BY <1>1 DEF Wide, Yields
<1> HIDE DEF q
<1>4. Orderly(q, k)
  BY <1>3, YieldsOrderly
<1>5. Sound(q, s.more) /\ q.play # "off"
  BY <1>1, <1>3 DEF Orderly, Sounding, Sound, Crossed
<1> QED BY <1>1, <1>2, <1>4, <1>5, PlaySegmentSounds, SoundsOrderly

\* A call that nothing overtakes is sent, or the conversation ends for want of a worker.
LEMMA SubmitOrderly ==
    ASSUME IInv, NEW s, Core(s), NEW k \in Nat, Orderly(s, k), s.thread # None, Awake(s),
           NEW op \in {"frame", "end", "interrupt"}, NEW t \in Turns, NEW R \in Nat,
           R = Rank(s.thread, [op |-> op, turn |-> t]),
           Comes(s.thread, Pending(s), k, R), R <= Fore(s),
           s.bridge # None => R <= Place(s.thread, s.bridge, 0),
           s.turn # None => R <= Place(s.thread, s.turn, 1)
    PROVE  Orderly(Submit(s, op, t), k)
<1> DEFINE c == [op |-> op, turn |-> t]
           x == Append(s.sent, c)
           r == [s EXCEPT !.sent = x]
           w == s.thread
           C == Pending(s)
           D == Pending(r)
<1>1. s \in Wide /\ c \in Calls /\ w \in Sessions
  BY DEF Core, Calls, Wide
<1>2. s.sent \in Seq(Calls) /\ workers[w].calls \in Seq(Calls)
  BY <1>1, WorkerIs DEF IInv, TypeOK, Wide, Sendings, Desks
<1>3. x \in Sendings
  <2> HIDE DEF c
  <2> QED BY <1>1, <1>2 DEF Sendings
<1>4. Submit(s, op, t) = r \/ Submit(s, op, t) = Ended(s)
  BY <1>1 DEF Submit, Wide
<1>5. Orderly(Ended(s), k)
  BY EndYields, YieldsOrderly
<1>6. /\ r.sent = x /\ r.thread = w /\ r.session = s.session /\ r.next = s.next
      /\ r.active = s.active /\ r.turn = s.turn /\ r.bridge = s.bridge /\ r.play = s.play
      /\ r.playing = s.playing /\ r.more = s.more /\ r.sound = s.sound
  <2> HIDE DEF x
  <2> QED BY <1>1 DEF Wide
<1>7. /\ C \in Seq(Calls) /\ D \in Seq(Calls) /\ Len(D) = Len(C) + 1 /\ D[Len(C) + 1] = c
      /\ \A i \in 1..Len(C) : D[i] = C[i]
  <2> DEFINE B == workers[w].calls
  <2>1. C = B \o s.sent /\ D = B \o Append(s.sent, c)
    BY <1>6 DEF Pending
  <2> HIDE DEF B, c, r, C, D
  <2>2. B \in Seq(Calls)
    BY <1>2 DEF B
  <2> QED BY <1>1, <1>2, <2>1, <2>2
<1>8. Orderly(r, k)
  <2>1. /\ Fore(r) = Fore(s) /\ Awake(r) /\ Crossed(r) = Crossed(s)
    BY <1>6 DEF Fore, Awake, Crossed
  <2>2. Lined(w, C, k) /\ Ahead(s, C, k) /\ Sounding(s, Crossed(s))
    BY DEF Orderly
  <2>3. \A i \in 1..Len(C) : Rank(w, C[i]) \in Nat
    BY <1>7, RankIs DEF Last
  <2>4. R = Rank(w, c) /\ Comes(w, C, k, R)
    OBVIOUS
  <2> HIDE DEF c, r, C, D, w
  <2>5. \A i \in 1..Len(D) : \/ i \in 1..Len(C) /\ D[i] = C[i]
                             \/ i = Len(C) + 1 /\ D[i] = c
    BY <1>7
  <2>6. Lined(w, D, k)
    BY SMTT(25), <1>7, <2>2, <2>3, <2>4, <2>5 DEF Lined, Comes
  <2>7. ASSUME NEW f, Comes(w, C, k, f), R <= f
        PROVE  Comes(w, D, k, f)
    BY <2>4, <2>5, <2>7 DEF Comes
  <2>8. Ahead(r, D, k)
    BY <1>6, <2>1, <2>2, <2>7 DEF Ahead, w
  <2>9. Sounding(r, Crossed(r))
    BY <1>6, <2>1, <2>2 DEF Sounding, w
  <2> QED BY <1>6, <2>1, <2>6, <2>8, <2>9 DEF Orderly, D, w
<1> QED BY <1>4, <1>5, <1>8

-----------------------------------------------------------------------------
(* The handlers keep the order *)

LEMMA AdoptTakes ==
    ASSUME NEW s, Core(s), s.life # "IDLE", s.text = None, Still(s)
    PROVE  Renews(s, TakeTurn(Adopt(s)))
<1> DEFINE a == Adopt(s)
           x == [turn |-> a.turn, final |-> FALSE]
           t == [a EXCEPT !.text = x]
           m == [t EXCEPT !.bridge = a.turn, !.play = "open", !.playing = FALSE, !.more = None]
<1>1. s \in Wide
  BY DEF Core
<1>2. /\ Core(a) /\ a.turn # None /\ \A i \in 1..Len(a.chat) : a.chat[i] # a.turn
      /\ a.text = None /\ a.play = s.play
  BY AdoptIsNew
<1>3. a \in Wide
  BY <1>2 DEF Core
<1>4. /\ a.thread = s.thread /\ a.session = s.session /\ a.next = s.next + 1
      /\ a.sent = s.sent /\ a.active = s.active /\ a.turn = <<s.session, s.next>>
      /\ a.bridge = s.bridge /\ a.playing = s.playing /\ a.more = s.more /\ a.sound = s.sound
  BY <1>1 DEF Wide, Adopt
<1>5. TakeTurn(a) \in Wide
  BY <1>2, TakeTurnGoes DEF Still, Core
<1>6. TakeTurn(a) \in {Raise(t), m}
  BY <1>2, Zenon DEF TakeTurn, Still
<1> HIDE DEF a
<1>7. CASE TakeTurn(a) = Raise(t)
  <2>1. Renews(s, Raise(t))
    <3> HIDE DEF x
    <3> QED BY <1>3, <1>4, <1>5, <1>7 DEF Raise, Wide, Renews, Still
  <2> QED BY <1>7, <2>1 DEF a
<1>8. CASE TakeTurn(a) = m
  <2>1. Renews(s, m)
    <3> HIDE DEF x
    <3> QED BY <1>3, <1>4, <1>5, <1>8 DEF Wide, Renews, Still
  <2> QED BY <1>8, <2>1 DEF a
<1> QED BY <1>6, <1>7, <1>8 DEF a

LEMMA BeginTurnOrderly ==
    ASSUME IInv, NEW s, Core(s), s.text = None, Still(s), Awake(s), NEW k \in Nat, Orderly(s, k)
    PROVE  Orderly(BeginTurn(s), k)
<1> DEFINE t == TakeTurn(Adopt(s))
<1>1. s \in Wide
  BY DEF Core
<1>2. BeginTurn(s) = Raise(s) \/ (s.life # "IDLE" /\ BeginTurn(s) \in {t, Listen(t)})
  BY Zenon DEF BeginTurn
<1>3. CASE BeginTurn(s) = Raise(s)
  BY <1>1, <1>3, RaiseYields, YieldsOrderly
<1>4. CASE s.life # "IDLE" /\ BeginTurn(s) \in {t, Listen(t)}
  <2>1. Orderly(t, k) /\ t \in Wide
    BY <1>1, <1>4, AdoptTakes, RenewsOrderly DEF Renews
  <2> HIDE DEF t
  <2> QED BY <1>4, <2>1, VoiceYields, YieldsOrderly
<1> QED BY <1>2, <1>3, <1>4

LEMMA PlaybackCompletedOrderly ==
    ASSUME IInv, NEW s, Core(s), Rested(s), s.text = None, Still(s), Awake(s),
           NEW k \in Nat, Orderly(s, k)
    PROVE  Orderly(PlaybackCompleted(s), k)
<1> DEFINE x == IF Owns(s, s.held) THEN 0 ELSE s.held
           h == [s EXCEPT !.held = x]
           t == [h EXCEPT !.turn = None]
           o == [t EXCEPT !.out = FALSE]
           i == Idle(o)
<1>1. s \in Wide /\ x \in Nat /\ x \in {s.held, 0}
  BY DEF Core, Wide
<1>2. CASE ~s.active
  BY <1>2 DEF PlaybackCompleted
<1>3. CASE s.active /\ s.paused
  BY <1>3, EndYields, YieldsOrderly DEF PlaybackCompleted
<1>4. CASE s.active /\ ~s.paused
  <2>1. PlaybackCompleted(s) = BeginTurn(i)
    BY <1>4, Zenon DEF PlaybackCompleted
  <2>2. Yields(s, h) /\ h \in Wide /\ h.text = None /\ h.life = s.life /\ h.held = x
        /\ h.chat = s.chat /\ h.turn = s.turn /\ h.play = s.play
    <3> HIDE DEF x
    <3>1. Yields(s, h) /\ h \in Wide
      BY <1>1, HeldYields DEF Yields
    <3> QED BY <1>1, <3>1 DEF Wide
  <2>3. Still(h) /\ Less(s, h)
    <3> HIDE DEF x
    <3>1. Less(s, h)
      BY <1>1, <2>2 DEF Less, Same, Wide
    <3> QED BY <2>2, <3>1, StillYields
  <2> HIDE DEF h
  <2>4. Yields(h, t) /\ t \in Wide /\ Still(t) /\ Less(h, t) /\ t.text = None
    BY <2>2, SetTurns, <2>3 DEF Wide, Yields, Still, Less, Same
  <2> HIDE DEF t
  <2>5. Yields(t, o) /\ o \in Wide /\ Less(t, o) /\ o.text = None
    <3>1. o \in Wide
      BY <2>4, SetFlags
    <3> QED BY <2>4, <3>1 DEF Wide, Yields, Less, Same
  <2> HIDE DEF o
  <2>6. Yields(o, i) /\ Less(o, i) /\ i.text = None
    BY <2>5, VoiceYields, IdleQuiet DEF Quiet, Less
  <2> HIDE DEF i
  <2>7. Yields(s, i) /\ Less(s, i)
    BY <2>2, <2>3, <2>4, <2>5, <2>6, YieldsTwice, LessTwice
  <2>8. Core(i) /\ Still(i) /\ Orderly(i, k) /\ Awake(i)
    BY <2>7, LessCore, StillYields, YieldsOrderly DEF Awake, Yields
  <2> QED BY <2>1, <2>6, <2>8, BeginTurnOrderly
<1> QED BY <1>2, <1>3, <1>4

LEMMA CompleteIfReadyOrderly ==
    ASSUME IInv, NEW s, Core(s), Rested(s), Awake(s), NEW k \in Nat, Orderly(s, k)
    PROVE  Orderly(CompleteIfReady(s), k)
<1> DEFINE q == [s EXCEPT !.play = "off"]
<1>1. s \in Wide
  BY DEF Core
<1>2. CASE s.play # "finishing" \/ s.playing \/ s.more # None
  BY <1>2 DEF CompleteIfReady
<1>3. CASE s.play = "finishing" /\ ~s.playing /\ s.more = None
  <2>1. CompleteIfReady(s) = PlaybackCompleted(q)
    BY <1>3 DEF CompleteIfReady
  <2>2. q \in Wide
    BY <1>1, SetPlay
  <2>3. /\ Less(s, q) /\ q.active = s.active /\ q.text = s.text /\ Rested(q)
    BY <1>1, <2>2 DEF Wide, Less, Same, Rested
  <2>4. s.text = None /\ s.sound = None
    BY <1>3 DEF Core, Transcribed, Orderly, Sounding
  <2>5. Yields(s, q) /\ Still(q)
    BY <1>1, <1>3, <2>2, <2>4 DEF Wide, Yields, Still
  <2> HIDE DEF q
  <2>6. Core(q) /\ Orderly(q, k) /\ Awake(q)
    BY <2>3, <2>5, LessCore, YieldsOrderly DEF Awake, Yields
  <2> QED BY <2>1, <2>3, <2>4, <2>5, <2>6, PlaybackCompletedOrderly
<1> QED BY <1>2, <1>3

LEMMA FinishTurnOrderly ==
    ASSUME IInv, NEW s, Core(s), s.active, s.text = None, ~s.opens, Awake(s),
           NEW k \in Nat, Orderly(s, k)
    PROVE  Orderly(FinishTurn(s), k)
<1> DEFINE f == [s EXCEPT !.play = "finishing"]
           g == IF f.more # None /\ ~f.playing THEN PlayMore(f) ELSE f
<1>1. s \in Wide
  BY DEF Core
<1>2. CASE s.play # "open"
  BY <1>2 DEF FinishTurn
<1>3. CASE s.play = "open"
  <2>1. FinishTurn(s) = CompleteIfReady(g)
    BY <1>3, Zenon DEF FinishTurn
  <2>2. f \in Wide
    BY <1>1, SetPlay
  <2>3. /\ f.session = s.session /\ f.life = s.life /\ f.thread = s.thread
        /\ f.chat = s.chat /\ f.next = s.next /\ f.held = s.held
        /\ f.turn = s.turn /\ f.text = s.text /\ f.bridge = s.bridge /\ f.more = s.more
        /\ f.sound = s.sound /\ f.active = s.active
    BY ZenonT(40), <1>1, <2>2 DEF Wide
  <2>4. Orderly(f, k)
    BY <1>1, <1>3, <2>2, YieldsOrderly DEF Wide, Yields
  <2> HIDE DEF f
  <2>5. Bounded(f) /\ Numbered(f)
    BY <2>3 DEF Core, Bounded, Named, Numbered, Begun, Same
  <2>6. Transcribed(f) /\ Lives(f)
    BY <2>3 DEF Core, Transcribed, Lives, Same
  <2>7. Core(f)
    BY <2>2, <2>5, <2>6 DEF Core
  <2>8. Quiet(f, g) /\ g.thread = f.thread /\ Orderly(g, k)
    <3>1. CASE f.more # None /\ ~f.playing
      BY <2>2, <2>4, <3>1, PlayMoreQuiet, PlayMoreOrderly DEF PlayMore, PlaySegment,
         ReportError, Idle, Wide
    <3>2. CASE ~(f.more # None /\ ~f.playing)
      BY <2>2, <2>4, <3>2, LessSelf DEF Quiet
    <3> QED BY <3>1, <3>2
  <2> HIDE DEF g
  <2>9. Core(g) /\ Rested(g) /\ Awake(g)
    BY <2>3, <2>7, <2>8, LessCore DEF Quiet, Less, Rested, Awake
  <2> QED BY <2>1, <2>8, <2>9, CompleteIfReadyOrderly
<1> QED BY <1>2, <1>3

LEMMA EndUserTurnOrderly ==
    ASSUME IInv, NEW s, Core(s), Rested(s), s.turn \in Turns \cup {None}, NEW k \in Nat,
           Orderly(s, k)
    PROVE  Orderly(EndUserTurn(s), k)
<1> DEFINE b == [s EXCEPT !.bridge = None]
           R == Rank(b.thread, [op |-> "end", turn |-> s.turn])
<1>1. s \in Wide
  BY DEF Core
<1>2. Yields(s, b) /\ b \in Wide
  BY <1>1, FieldYields DEF Yields
<1>3. Less(s, b) /\ Rested(b) /\ b.bridge = None /\ b.turn = s.turn /\ b.thread = s.thread
  BY <1>1, <1>2 DEF Wide, Less, Same, Rested
<1>4. \/ EndUserTurn(s) = b
      \/ /\ s.turn # None /\ s.thread # None
         /\ EndUserTurn(s) = Submit(b, "end", s.turn)
  BY Zenon DEF EndUserTurn
<1> HIDE DEF b
<1>5. Core(b) /\ Orderly(b, k)
  BY <1>2, <1>3, LessCore, YieldsOrderly
<1>6. CASE s.turn # None /\ s.thread # None /\ EndUserTurn(s) = Submit(b, "end", s.turn)
  <2>1. s.turn \in Turns /\ [op |-> "end", turn |-> s.turn] \in Calls
    BY <1>6 DEF Calls
  <2>2. R = Place(b.thread, b.turn, 1) /\ R \in Nat
    BY <1>3, <2>1, RankIs DEF Last
  <2>3. Comes(b.thread, Pending(b), k, R) /\ R <= Fore(b) /\ Awake(b)
    BY <1>3, <1>5, <1>6, <2>2 DEF Orderly, Ahead
  <2> HIDE DEF R
  <2>4. R = Rank(b.thread, [op |-> "end", turn |-> s.turn])
    BY DEF R
  <2>5. R <= R
    BY <2>2
  <2>6. Orderly(Submit(b, "end", s.turn), k)
    BY <1>3, <1>5, <1>6, <2>1, <2>2, <2>3, <2>4, <2>5, SubmitOrderly
  <2> QED BY <1>6, <2>6
<1> QED BY <1>4, <1>5, <1>6

\* Audio of the open turn, or of any once a turn has been taken for another.
LEMMA HandleAudioOrderly ==
    ASSUME NEW s, Core(s), NEW n, NEW of \in Numbers \ {0},
           of = n \/ Crossed(s), NEW r \in HandleAudio(s, n, of), NEW k, Orderly(s, k)
    PROVE  Orderly(r, k)
<1> DEFINE o == [s EXCEPT !.op = "output", !.out = TRUE]
           c == IF s.out THEN s ELSE o
           a == <<s.thread, of>>
           q == [c EXCEPT !.more = a]
<1>1. s \in Wide
  BY DEF Core
<1>2. CASE r \in {s, Ended(s)}
  BY <1>2, EndYields, YieldsOrderly
<1>3. CASE Owns(s, n) /\ r \notin {s, Ended(s)}
  <2>1. /\ r \in {Ended(c), q, PlaySegment(c, a)}
        /\ r = Ended(c) \/ (c.turn[1] = c.thread /\ c.play = "open")
    BY <1>3, Zenon DEF HandleAudio
  <2>2. s.active /\ s.turn # None /\ s.turn[2] = n /\ s.thread # None
    BY <1>3 DEF Owns, Orderly
  <2>3. o \in Wide
    <3>1. [s EXCEPT !.op = "output"] \in Wide
      BY <1>1, SetOp
    <3>2. [[s EXCEPT !.op = "output"] EXCEPT !.out = TRUE] \in Wide
      BY <3>1, SetFlags
    <3> QED BY <3>2, Zenon
  <2>4. Yields(s, o) /\ Less(s, o) /\ o.turn = s.turn /\ o.thread = s.thread
    BY <1>1, <2>3 DEF Wide, Yields, Less, Same
  <2> HIDE DEF o
  <2>5. /\ Orderly(c, k) /\ c \in Wide /\ Core(c) /\ c.turn = s.turn /\ c.thread = s.thread
    BY <1>1, <2>3, <2>4, YieldsOrderly, LessCore
  <2> HIDE DEF c
  <2>6. CASE r = Ended(c)
    BY <2>5, <2>6, EndYields, YieldsOrderly
  <2>7. CASE r \in {q, PlaySegment(c, a)} /\ c.turn[1] = c.thread /\ c.play = "open"
    <3>1. a \in Names /\ c.turn = <<c.thread, n>> /\ Crossed(c) = Crossed(s)
      BY <1>1, <2>2, <2>5, <2>7, TurnNames DEF Wide, Names, Numbers, Crossed
    <3>2. Sound(c, a)
      BY <2>5, <3>1 DEF Sound
    <3> HIDE DEF a
    <3>3. q \in Wide
      BY <2>5, <3>1, SetTurns
    <3>4. Sounds(c, q, a)
      BY <2>5, <2>7, <3>3 DEF Wide, Sounds
    <3>5. Sounds(c, PlaySegment(c, a), a)
      BY <2>5, <2>7, <3>1, PlaySegmentSounds
    <3> QED BY <2>5, <2>7, <3>2, <3>4, <3>5, SoundsOrderly
  <2> QED BY <2>1, <2>6, <2>7
<1> QED BY <1>2, <1>3 DEF HandleAudio

LEMMA HandleCompletedOrderly ==
    ASSUME IInv, NEW s, Core(s), Rested(s), ~s.opens, s.turn \in Turns \cup {None},
           s.play # "off" => Awake(s), NEW n, NEW r \in HandleCompleted(s, n),
           NEW k \in Nat, Orderly(s, k)
    PROVE  Orderly(r, k)
<1> DEFINE e == Kept(s)
           h == Append(e.chat, s.text.turn)
           x == [e EXCEPT !.chat = h]
           c == CancelText(s)
<1>1. s \in Wide
  BY DEF Core
<1>2. CASE r \in {s, Ended(s)}
  BY <1>2, EndYields, YieldsOrderly
<1>3. CASE Owns(s, n) /\ r \notin {s, Ended(s)}
  <2>1. \/ r \in {FinishTurn(x), Ended(e)} /\ s.text # None
        \/ r = FinishTurn(c)
    BY <1>3, Zenon DEF HandleCompleted
  <2>2. s.active /\ s.turn # None
    BY <1>3 DEF Owns
  <2>3. e \in Wide /\ Yields(s, e)
    BY <1>1, TextYields DEF Kept, Yields
  <2>4. Quiet(s, e) /\ e.text = None
    BY <1>1, <2>3 DEF Wide, Kept, Quiet, Less, Same
  <2> HIDE DEF e
  <2>5. Core(e) /\ Orderly(e, k) /\ e.chat = s.chat
    BY <2>3, <2>4, LessCore, YieldsOrderly DEF Quiet, Less
  <2>6. CASE r = Ended(e)
    BY <2>5, <2>6, EndYields, YieldsOrderly
  <2>7. CASE r = FinishTurn(c)
    <3>1. Quiet(s, c) /\ c.text = None /\ Yields(s, c) /\ c.play = s.play
      BY CancelTextLess, CancelTextYields, <1>1 DEF CancelText, Wide
    <3> HIDE DEF c
    <3>2. /\ Core(c) /\ c.active /\ ~c.opens /\ Orderly(c, k)
      BY <2>2, <3>1, LessCore, YieldsOrderly DEF Quiet
    <3>3. c.play # "off" => Awake(c)
      BY <3>1 DEF Awake, Yields
    <3>4. CASE c.play = "off"
      BY <2>7, <3>2, <3>4 DEF FinishTurn
    <3> QED BY <2>7, <3>1, <3>2, <3>3, <3>4, FinishTurnOrderly
  <2>8. CASE r = FinishTurn(x) /\ s.text # None
    <3>1. s.text.turn = s.turn
      BY <2>8 DEF Core, Transcribed
    <3>2. h = Append(s.chat, s.turn) /\ h \in Chats /\ s.chat \in Seq(Turns)
      BY <1>1, <2>2, <2>5, <3>1 DEF Chats, Wide
    <3> HIDE DEF h
    <3>3. x \in Wide
      BY <2>3, <3>2, SetSeqs
    <3>4. /\ Same(e, x) /\ x.chat = h /\ x.next = e.next /\ x.held = e.held
          /\ x.turn = e.turn /\ x.text = None /\ x.bridge = e.bridge /\ x.play = e.play
          /\ x.more = e.more /\ x.sound = e.sound /\ x.opens = e.opens
          /\ x.active = e.active /\ Yields(e, x)
      BY <2>3, <2>4, <3>3 DEF Wide, Same, Yields
    <3>5. e.active = s.active /\ e.opens = s.opens /\ e.play \in {s.play, "off"}
          /\ e.thread = s.thread /\ e.turn \in {s.turn, None} /\ e.session = s.session
          /\ e.next = s.next
      BY <2>3, <2>4 DEF Quiet, Less, Yields
    <3> HIDE DEF x
    <3>6. Bounded(x)
      BY <2>5, <3>4 DEF Core, Bounded, Named, Same
    <3>8. Numbered(x)
      BY <3>4, <3>5, <2>2, <3>2 DEF Same, Begun, Core, Numbered
    <3>9. Transcribed(x) /\ Lives(x)
      BY <2>5, <3>4 DEF Core, Transcribed, Lives, Same
    <3>10. Core(x) /\ x.active /\ ~x.opens /\ x.text = None /\ Orderly(x, k)
      BY <2>2, <2>5, <3>3, <3>4, <3>5, <3>6, <3>8, <3>9, YieldsOrderly DEF Core
    <3>11. x.play # "off" => Awake(x)
      BY <3>4, <3>5 DEF Awake, Yields
    <3>12. CASE x.play = "off"
      BY <2>8, <3>10, <3>12 DEF FinishTurn
    <3> QED BY <2>8, <3>10, <3>11, <3>12, FinishTurnOrderly
  <2> QED BY <2>1, <2>6, <2>7, <2>8
<1> QED BY <1>2, <1>3 DEF HandleCompleted

LEMMA HandleFinalYields ==
    ASSUME NEW s, Core(s), NEW n
    PROVE  Yields(s, HandleFinal(s, n))
<1> DEFINE x == [s.text EXCEPT !.final = TRUE]
<1>1. s \in Wide
  BY DEF Core
<1>2. HandleFinal(s, n) = s \/ (s.text # None /\ HandleFinal(s, n) = [s EXCEPT !.text = x])
  BY Zenon DEF HandleFinal
<1>3. s.text # None => x \in NamedText
  BY <1>1 DEF Wide, NamedText
<1> HIDE DEF x
<1> QED BY <1>1, <1>2, <1>3, TextYields, YieldsSelf

LEMMA HandledOrderly ==
    ASSUME IInv, NEW s, Core(s), Rested(s), ~s.opens, s.turn \in Turns \cup {None},
           s.play # "off" => Awake(s), NEW m \in Signals,
           m.kind = "audio" => m.of # 0 /\ (m.of = m.turn \/ Crossed(s)),
           m.kind = "connected" => Unbegun(s) /\ Awake(s), NEW r \in Handled(s, m),
           NEW k \in Nat, Orderly(s, k)
    PROVE  Orderly(r, k)
<1> DEFINE g == Gone(s)
           f == [g EXCEPT !.thread = None]
           h == [s EXCEPT !.halt = TRUE]
<1>1. s \in Wide /\ m.of \in Numbers
  BY DEF Core, Signals
<1>2. Orderly(Ended(s), k) /\ Orderly(g, k) /\ Orderly(h, k)
  BY <1>1, EndYields, FlagYields, YieldsOrderly
<1>3. CASE m.kind = "connected"
  <2>1. r \in {Ended(s), h, BeginTurn(s)}
    <3>1. r = IF s.paused THEN Ended(s) ELSE IF s.active THEN BeginTurn(s) ELSE h
      BY <1>3, Zenon DEF Handled
    <3> QED BY <3>1, Zenon
  <2>2. Still(s)
    BY <1>3 DEF Unbegun, Orderly, Sounding, Still
  <2> HIDE DEF h
  <2> QED BY <1>2, <1>3, <2>1, <2>2, BeginTurnOrderly DEF Unbegun
<1>4. CASE m.kind = "final"
  <2>1. r = HandleFinal(s, m.turn)
    BY <1>4, Zenon DEF Handled
  <2> QED BY <2>1, HandleFinalYields, YieldsOrderly
<1>5. CASE m.kind = "audio"
  <2>1. r \in HandleAudio(s, m.turn, m.of)
    BY <1>5, Zenon DEF Handled
  <2> QED BY <1>1, <1>5, <2>1, HandleAudioOrderly
<1>6. CASE m.kind = "interrupted"
  <2>1. r \in {ReleaseTurn(s), s}
    BY <1>6, Zenon DEF Handled
  <2> QED BY <2>1, ReleaseTurnYields, YieldsOrderly
<1>7. CASE m.kind = "completed"
  <2>1. r \in HandleCompleted(s, m.turn)
    BY <1>7, Zenon DEF Handled
  <2> QED BY <2>1, HandleCompletedOrderly
<1>8. CASE m.kind = "failed"
  <2>1. r = Ended(s)
    BY <1>8, Zenon DEF Handled
  <2> QED BY <1>2, <2>1
<1>9. CASE m.kind = "idle"
  <2>1. r = g
    BY <1>9, Zenon DEF Handled
  <2> QED BY <1>2, <2>1
<1>10. CASE m.kind = "finished"
  <2>1. r = f
    BY <1>10, Zenon DEF Handled
  <2>2. g \in Wide /\ ~g.active /\ Rested(g) /\ Orderly(g, k)
    BY <1>2, GoneEnds DEF Ends, Less
  <2> HIDE DEF g
  <2>3. /\ f.thread = None /\ ~f.active /\ f.sound = None /\ f.play = "off"
        /\ f.playing = g.playing /\ f.more = g.more /\ g.play = "off"
    BY <2>2 DEF Wide, Rested
  <2> HIDE DEF f
  <2>4. Sounding(f, Crossed(f))
    BY <2>2, <2>3 DEF Orderly, Sounding
  <2> QED BY <2>1, <2>3, <2>4 DEF Orderly
<1>11. m.kind \in {"connected", "audio", "final", "completed", "interrupted",
                   "failed", "idle", "finished"}
  BY DEF Signals
<1> QED BY <1>3, <1>4, <1>5, <1>6, <1>7, <1>8, <1>9, <1>10, <1>11

-----------------------------------------------------------------------------
(* The worker's side of the order *)

\* What closes an answer, and an answer that is closed or about to be.
Closes(e) == e.kind \in {"interrupted", "completed"}
Over(r) == r.complete \/ \E i \in 1..Len(r.wire) : r.wire[i].turn = r.turn /\ Closes(r.wire[i])

\* Audio on the wire that the quarantine keeps until it has been read.
Guarded(r, i) ==
    /\ r.quarantine # 0
    /\ \A j \in 1..(i - 1) : r.wire[j].kind = "interrupted" => r.wire[j].turn # r.quarantine

\* The provider speaks of the worker's turn and then of no earlier one.
Paced(r) ==
    /\ r.server.turn = r.turn
    /\ r.turn = 0 => r.wire = <<>> /\ r.server.stage = "quiet" /\ ~r.complete
    /\ \A i \in 1..Len(r.wire) : r.wire[i].turn <= r.turn
    /\ \A i, j \in 1..Len(r.wire) : i < j => r.wire[i].turn <= r.wire[j].turn

\* A turn that is only being heard, and an answer that comes once.
OnlyHeard(r) ==
    /\ r.server.stage # "owing" /\ ~r.complete
    /\ \A i \in 1..Len(r.wire) : r.wire[i].turn # r.turn
Once(r) ==
    /\ Over(r) => r.server.stage # "owing"
    /\ \A i, j \in 1..Len(r.wire) :
          i < j /\ r.wire[i].turn = r.wire[j].turn /\ Closes(r.wire[i]) => r.wire[j].kind # "audio"
    /\ r.complete => \A i \in 1..Len(r.wire) : r.wire[i].kind = "audio" => Guarded(r, i)

\* The worker after the calls before place k: while turns of its own can come it answers
\* each once, and audio of an earlier turn is kept from the application.
Fit(r, k) ==
    /\ Paced(r) /\ 3 * r.turn <= k
    /\ k = 3 * r.turn /\ r.turn # 0 => OnlyHeard(r)
    /\ k = 3 * r.turn + 1 /\ r.server.stage = "hearing" => ~Over(r)
    /\ k < Last => Once(r)
    /\ \A i \in 1..Len(r.wire) :
          r.wire[i].kind = "audio" /\ r.wire[i].turn # r.turn => Guarded(r, i)

\* Both sides agree on a place k, and audio is signalled of its own turn.
Agreed(k) ==
    /\ Orderly(app, k)
    /\ app.thread # None /\ ~workers[app.thread].crossed => Fit(workers[app.thread], k)
Plain ==
    /\ app.thread # None =>
          /\ workers[app.thread].phase \in Early => workers[app.thread].turn = 0
          /\ \A i \in 1..Len(signals) : signals[i].kind = "audio" =>
                signals[i].of = signals[i].turn \/ workers[app.thread].crossed
    /\ \A w \in Sessions : workers[w].phase = "new" => workers[w] = Fresh
Order == (\E k \in Nat : Agreed(k)) /\ Plain

LEMMA WorkerTyped ==
    ASSUME NEW r \in Worker
    PROVE  /\ r.turn \in Nat /\ r.quarantine \in Nat /\ r.complete \in BOOLEAN
           /\ r.calls \in Seq(Calls) /\ r.wire \in Seq(Events) /\ r.server \in Servers
           /\ \A i \in 1..Len(r.wire) : r.wire[i] \in Events /\ r.wire[i].turn \in Nat
           /\ r.server.stage \in {"quiet", "hearing", "owing"} /\ r.server.turn \in Nat
           /\ r.crossed \in BOOLEAN /\ r.stop \in BOOLEAN /\ r.own \in BOOLEAN
<1>1. /\ r.turn \in Numbers /\ r.quarantine \in Numbers /\ r.complete \in BOOLEAN
      /\ r.calls \in Desks /\ r.wire \in Wires /\ r.server \in Servers
      /\ r.crossed \in BOOLEAN /\ r.stop \in BOOLEAN /\ r.own \in BOOLEAN
  BY WorkerIs
<1>2. \A i \in 1..Len(r.wire) : r.wire[i] \in Events
  BY <1>1 DEF Wires
<1>3. \A n \in Numbers : n \in Nat
  BY DEF Numbers
<1> QED BY <1>1, <1>2, <1>3 DEF Desks, Wires, Servers, Events

LEMMA DoomedFits ==
    ASSUME NEW r \in Worker, NEW k \in Nat
    PROVE  /\ Fit(Doomed(r), k) /\ Doomed(r).calls = <<>> /\ Doomed(r).turn = 0
<1>1. /\ Doomed(r).turn = 0 /\ Doomed(r).complete = FALSE /\ Doomed(r).quarantine = 0
      /\ Doomed(r).wire = <<>> /\ Doomed(r).calls = <<>> /\ Doomed(r).server = Silent
  BY WorkerIs DEF Doomed
<1>2. Silent.turn = 0 /\ Silent.stage = "quiet"
  BY DEF Silent
<1> DEFINE d == Doomed(r)
<1>3. Len(d.wire) = 0
  BY <1>1
<1> HIDE DEF d
<1>5. Fit(d, k)
  BY <1>3, <1>1, <1>2 DEF Fit, Paced, Once, Over, d
<1> QED BY <1>1, <1>5 DEF d

LEMMA FitCalls ==
    ASSUME NEW r, NEW q, NEW k, Fit(r, k), q.turn = r.turn, q.complete = r.complete,
           q.quarantine = r.quarantine, q.wire = r.wire, q.server = r.server
    PROVE  Fit(q, k)
  BY DEF Fit, Paced, OnlyHeard, Once, Over, Guarded

LEMMA FitLater ==
    ASSUME NEW r \in Worker, NEW k \in Nat, NEW l \in Nat, k <= l, Fit(r, k)
    PROVE  Fit(r, l)
<1>1. r.turn \in Nat /\ Last \in Nat
  BY WorkerTyped, TurnNames DEF Last
<1>2. Paced(r) /\ 3 * r.turn <= l
  BY <1>1 DEF Fit
<1>4. ASSUME l = 3 * r.turn + 1, r.server.stage = "hearing" PROVE ~Over(r)
  BY <1>4, <1>1 DEF Fit, Paced, OnlyHeard, Over
<1>5. l < Last => Once(r)
  BY <1>1 DEF Fit
<1> QED BY <1>2, <1>1, <1>4, <1>5 DEF Fit

\* The application's side after a step: what it holds is an orderly record's, some of the
\* calls wait, and the session goes on or is another's.
LEMMA OrderlyNext ==
    ASSUME IInv, NEW q \in Wide, NEW k \in Nat, Orderly(q, k), app'.thread = q.thread,
           app'.active => q.active, app'.turn = q.turn, app'.bridge = q.bridge,
           app'.play = q.play, app'.playing = q.playing, app'.more = q.more,
           app'.sound = q.sound, app'.sent = <<>>,
           q.thread # None =>
              /\ Fore(app') \in {Fore(q), Last}
              /\ workers'[q.thread].calls \in Seq(Calls)
              /\ Len(workers'[q.thread].calls) <= Len(Pending(q))
              /\ \A i \in 1..Len(workers'[q.thread].calls) :
                    workers'[q.thread].calls[i] = Pending(q)[i]
              /\ workers[q.thread].crossed => workers'[q.thread].crossed
              /\ workers'[q.thread].phase \in Early => workers[q.thread].phase \in Early
    PROVE  Orderly(app, k)'
<1> DEFINE w == q.thread
           C == Pending(q)
           D == workers'[w].calls
<1>2. (app'.thread = None => ~app'.active) /\ Sounding(app, Crossed(app))'
  BY DEF Orderly, Sounding, Crossed, Fore
<1>3. ASSUME w # None
      PROVE  /\ Lined(w, D, k) /\ Ahead(app', D, k) /\ Pending(app)' = D
             /\ Awake(app)' \/ (app'.turn = None /\ app'.bridge = None /\ D = <<>>)
  <2>0. Fore(app') \in {Fore(q), Last}
    BY <1>3
  <2>1. w \in Sessions /\ workers[w] \in Worker /\ q.sent \in Seq(Calls)
    BY <1>3 DEF Wide, Sendings, IInv, TypeOK
  <2>2. C \in Seq(Calls) /\ D \in Seq(Calls)
    <3>1. workers[w].calls \in Seq(Calls)
      BY <2>1, WorkerTyped
    <3>2. C = workers[w].calls \o q.sent
      BY DEF Pending
    <3>3. C \in Seq(Calls)
      <4> HIDE DEF C, D, w
      <4> QED BY <2>1, <3>1, <3>2
    <3> QED BY <1>3, <3>3
  <2>3. Pending(app)' = D
    BY <2>2 DEF Pending
  <2>4. Lined(w, C, k) /\ Ahead(q, C, k)
    BY <1>3 DEF Orderly
  <2>5. Len(D) <= Len(C) /\ \A i \in 1..Len(D) : D[i] = C[i] /\ i \in 1..Len(C)
    BY <1>3, <2>2
  <2>6. Lined(w, D, k)
    <3> HIDE DEF C, D, w
    <3> QED BY <2>4, <2>5 DEF Lined
  <2>7. \A f : Comes(w, C, k, f) => Comes(w, D, k, f)
    <3> HIDE DEF C, D, w
    <3> QED BY <2>5 DEF Comes
  <2>8. \A c \in Calls : Rank(w, c) \in Nat /\ Rank(w, c) <= Last
    BY RankIs, TurnNames DEF Last
  <2>9. Fore(q) <= Last /\ Fore(q) \in Nat
    <3>1. <<q.session, q.next>>[2] \in Nat
      BY DEF Wide
    <3> HIDE DEF w
    <3> QED BY <3>1, PlaceIs, TurnNames DEF Fore, Last
  <2>10. Comes(w, C, k, Fore(q))
    BY <2>4 DEF Ahead
  <2>11. Comes(w, D, k, Fore(app'))
    <3>1. k <= Last /\ \A i \in 1..Len(C) : Rank(w, C[i]) <= Last
      <4>1. \A i \in 1..Len(C) : Rank(w, C[i]) <= Last
        <5> HIDE DEF C, D, w
        <5> QED BY <2>2, <2>8
      <4>2. k <= Fore(q) /\ Last \in Nat
        BY <2>10, TurnNames DEF Comes, Last
      <4> HIDE DEF C, D, w
      <4> QED BY <2>9, <4>1, <4>2
    <3>2. Comes(w, C, k, Last)
      <4> HIDE DEF C, D, w
      <4> QED BY <3>1 DEF Comes
    <3> HIDE DEF C, D, w
    <3> QED BY <2>0, <2>7, <2>10, <3>2
  <2>12. /\ q.bridge # None => Place(w, q.bridge, 0) <= Fore(app')
         /\ q.turn # None => Place(w, q.turn, 1) <= Fore(app')
    <3>1. /\ q.bridge # None => Place(w, q.bridge, 0) <= Last
          /\ q.turn # None => Place(w, q.turn, 1) <= Last
      <4>1. (q.bridge # None => q.bridge[2] \in Nat) /\ (q.turn # None => q.turn[2] \in Nat)
        BY TurnNames DEF Wide
      <4> HIDE DEF w
      <4> QED BY <4>1, PlaceIs, TurnNames DEF Last
    <3> QED BY <2>0, <2>4, <3>1 DEF Ahead
  <2>13. Ahead(app', D, k)
    <3> HIDE DEF C, D
    <3> QED BY <2>4, <2>7, <2>11, <2>12 DEF Ahead
  <2> QED BY <2>3, <2>6, <2>13, <1>3, <2>2, <2>5 DEF Awake, Orderly
<1> QED BY <1>2, <1>3 DEF Orderly

-----------------------------------------------------------------------------
(* The handlers of the application keep the order *)

\* A handler that ends with an orderly record keeps the order.
LEMMA DoOrder ==
    ASSUME IInv, Plain, NEW k \in Nat, Agreed(k), NEW r \in Wide, Orderly(r, k),
           r.thread \in {app.thread, None}, Do(r),
           \A i \in 1..Len(signals') : \E j \in 1..Len(signals) : signals'[i] = signals[j]
    PROVE  Order'
<1> DEFINE m == [r EXCEPT !.mic = TRUE]
           e == ReportError(r)
<1>1. Yields(r, m)
  <2>1. m \in Wide
    BY SetFlags
  <2> QED BY <2>1 DEF Wide, Yields
<1>2. Yields(r, e)
  BY VoiceYields
<1> HIDE DEF m, e
<1>3. PICK q \in IF r.opens THEN {m, e} ELSE {r} :
        /\ q.session # None => q.next <= LastTurn(q.session) + 1
        /\ app' = [q EXCEPT !.halt = FALSE, !.sent = <<>>, !.opens = FALSE, !.raised = FALSE]
        /\ workers' =
              IF q.thread = None \/ ~Reachable(q.thread) THEN workers
              ELSE [workers EXCEPT ![q.thread] =
                       IF q.halt \/ workers[q.thread].stop THEN Doomed(workers[q.thread])
                       ELSE [workers[q.thread] EXCEPT
                               !.calls = workers[q.thread].calls \o q.sent]]
  BY Zenon DEF Do, m, e
<1>4. Yields(r, q) /\ q \in Wide /\ q.thread = r.thread
  BY <1>1, <1>2, <1>3, YieldsSelf DEF Yields
<1>5. Orderly(q, k)
  BY <1>4, YieldsOrderly
<1> DEFINE a == [q EXCEPT !.halt = FALSE]
           b == [a EXCEPT !.sent = <<>>]
           c == [b EXCEPT !.opens = FALSE]
           d == [c EXCEPT !.raised = FALSE]
<1>6. a \in Wide
  BY <1>4, SetFlags
<1>7. b \in Wide
  <2> HIDE DEF a
  <2> QED BY <1>6, SetSeqs, WorkerIs
<1>8. c \in Wide
  <2> HIDE DEF b
  <2> QED BY <1>7, SetFlags
<1>9. d \in Wide
  <2> HIDE DEF c
  <2> QED BY <1>8, SetFlags
<1>10. app' = d
  BY <1>3, Zenon
<1>11. /\ d.thread = q.thread /\ d.active = q.active /\ d.turn = q.turn /\ d.bridge = q.bridge
       /\ d.play = q.play /\ d.playing = q.playing /\ d.more = q.more /\ d.sound = q.sound
       /\ d.sent = <<>> /\ d.session = q.session /\ d.next = q.next
  BY <1>4, <1>9 DEF Wide
<1> HIDE DEF d
<1>12. /\ app'.thread = q.thread /\ app'.active = q.active /\ app'.turn = q.turn
       /\ app'.bridge = q.bridge /\ app'.play = q.play /\ app'.playing = q.playing
       /\ app'.more = q.more /\ app'.sound = q.sound /\ app'.sent = <<>> /\ Fore(app') = Fore(q)
  BY <1>10, <1>11 DEF Fore
<1>13. workers \in [Sessions -> Worker]
  BY DEF IInv, TypeOK
<1>14. ASSUME NEW w \in Sessions
       PROVE  \/ workers'[w] = workers[w]
              \/ /\ w = q.thread /\ Reachable(w)
                 /\ workers'[w] \in {Doomed(workers[w]),
                                     [workers[w] EXCEPT !.calls = workers[w].calls \o q.sent]}
  <2>1. CASE q.thread = None \/ ~Reachable(q.thread)
    BY <1>3, <2>1
  <2>2. CASE ~(q.thread = None \/ ~Reachable(q.thread))
    <3>1. workers' = [workers EXCEPT ![q.thread] =
                         IF q.halt \/ workers[q.thread].stop THEN Doomed(workers[q.thread])
                         ELSE [workers[q.thread] EXCEPT
                                 !.calls = workers[q.thread].calls \o q.sent]]
      BY <1>3, <2>2, Zenon
    <3>2. CASE w # q.thread
      BY <1>13, <3>1, <3>2
    <3>3. CASE w = q.thread
      <4>1. workers'[w] = IF q.halt \/ workers[w].stop THEN Doomed(workers[w])
                          ELSE [workers[w] EXCEPT !.calls = workers[w].calls \o q.sent]
        BY <1>13, <3>1, <3>3, Zenon
      <4> QED BY <2>2, <3>3, <4>1
    <3> QED BY <3>2, <3>3
  <2> QED BY <2>1, <2>2
<1>15. ASSUME NEW w \in Sessions
       PROVE  /\ workers'[w].phase = workers[w].phase /\ workers'[w].crossed = workers[w].crossed
              /\ workers'[w] = workers[w] \/ workers'[w].phase # "new"
              /\ workers'[w].turn = 0 \/ workers'[w].turn = workers[w].turn
              /\ Fit(workers[w], k) => Fit(workers'[w], k)
              /\ \/ workers'[w].calls = <<>>
                 \/ workers'[w].calls = workers[w].calls
                 \/ w = q.thread /\ workers'[w].calls = Pending(q)
  <2> DEFINE u == workers[w]
             x == u.calls \o q.sent
             v == [u EXCEPT !.calls = x]
  <2>1. u \in Worker
    BY <1>13
  <2>2. CASE workers'[w] = u
    BY <2>2
  <2>3. CASE w = q.thread /\ Reachable(w) /\ workers'[w] = Doomed(u)
    BY <2>1, <2>3, DoomedIs, DoomedFits DEF Reachable
  <2>4. CASE w = q.thread /\ Reachable(w) /\ workers'[w] = v
    <3>1. x = Pending(q)
      BY <2>4 DEF Pending
    <3>2. u.phase # "new"
      BY <2>4 DEF Reachable
    <3>3. workers'[w] = v
      BY <2>4
    <3> HIDE DEF x, u
    <3>4. /\ v.phase = u.phase /\ v.crossed = u.crossed /\ v.turn = u.turn
          /\ v.complete = u.complete /\ v.quarantine = u.quarantine /\ v.wire = u.wire
          /\ v.server = u.server /\ v.calls = x
      BY <2>1, WorkerIs
    <3> HIDE DEF v
    <3>5. Fit(u, k) => Fit(v, k)
      BY <3>4, FitCalls
    <3> QED BY <2>4, <3>1, <3>2, <3>3, <3>4, <3>5 DEF u
  <2> QED BY <1>14, <2>2, <2>3, <2>4
<1>16. q.thread # None =>
         /\ workers'[q.thread].calls \in Seq(Calls)
         /\ Len(workers'[q.thread].calls) <= Len(Pending(q))
         /\ \A i \in 1..Len(workers'[q.thread].calls) :
               workers'[q.thread].calls[i] = Pending(q)[i]
         /\ workers[q.thread].crossed => workers'[q.thread].crossed
         /\ workers'[q.thread].phase \in Early => workers[q.thread].phase \in Early
  <2> SUFFICES ASSUME q.thread # None
               PROVE  /\ workers'[q.thread].calls \in Seq(Calls)
                      /\ Len(workers'[q.thread].calls) <= Len(Pending(q))
                      /\ \A i \in 1..Len(workers'[q.thread].calls) :
                            workers'[q.thread].calls[i] = Pending(q)[i]
    BY <1>4, <1>15 DEF Wide
  <2> DEFINE w == q.thread
             C == workers[w].calls
             D == workers'[w].calls
             P == Pending(q)
  <2>1. w \in Sessions
    BY <1>4 DEF Wide
  <2>2. C \in Seq(Calls) /\ q.sent \in Seq(Calls)
    BY <1>4, <1>13, <2>1, WorkerTyped DEF Wide, Sendings
  <2>3. P = C \o q.sent
    BY DEF Pending
  <2>4. D = <<>> \/ D = C \/ D = P
    BY <1>15, <2>1
  <2> HIDE DEF C, D, P, w
  <2>5. /\ P \in Seq(Calls) /\ Len(C) <= Len(P) /\ Len(P) \in Nat
        /\ \A i \in 1..Len(C) : P[i] = C[i]
    BY <2>2, <2>3
  <2>6. CASE D = <<>>
    BY <2>6, <2>5 DEF D, P, w
  <2>7. CASE D = C
    BY <2>2, <2>5, <2>7 DEF D, P, w
  <2>8. CASE D = P
    BY <2>5, <2>8 DEF D, P, w
  <2> QED BY <2>4, <2>6, <2>7, <2>8
<1>17. Orderly(app, k)'
  BY <1>4, <1>5, <1>12, <1>16, OrderlyNext
<1>18. app'.thread # None => app'.thread = app.thread /\ app'.thread \in Sessions
  BY <1>4, <1>12 DEF Wide
<1>19. Agreed(k)'
  BY <1>15, <1>17, <1>18 DEF Agreed
<1>20. Plain'
  BY <1>15, <1>18 DEF Plain
<1> QED BY <1>19, <1>20 DEF Order

\* Handlers that give something up.
LEMMA YieldOrder ==
    ASSUME IInv, Plain, NEW k \in Nat, Agreed(k), NEW r, Yields(app, r), Do(r),
           UNCHANGED signals
    PROVE  Order'
BY YieldsOrderly, DoOrder DEF Agreed, Yields

LEMMA OrderlyKeeps ==
    ASSUME IInv, Plain, NEW k \in Nat, Agreed(k), NEW r \in Wide, Orderly(r, k),
           Same(app, r), Do(r), UNCHANGED signals
    PROVE  Order'
  BY DoOrder DEF Same

LEMMA EndOrder ==
    ASSUME IInv, Plain, NEW k \in Nat, Agreed(k), End
    PROVE  Order'
  BY AppIsGood, EndYields, YieldOrder DEF End

LEMMA FrameOrder ==
    ASSUME IInv, Plain, NEW k \in Nat, Agreed(k), Frame
    PROVE  Order'
<1> DEFINE h == [app EXCEPT !.heard = TRUE]
           R == Rank(h.thread, [op |-> "frame", turn |-> app.bridge])
<1>1. app \in Wide /\ Core(app) /\ Orderly(app, k) /\ app.bridge \in Turns \cup {None}
  BY AppIsGood DEF Agreed
<1>2. Yields(app, h) /\ h \in Wide
  BY <1>1, FlagYields DEF Yields
<1>3. Less(app, h) /\ h.bridge = app.bridge /\ h.thread = app.thread /\ h.active = app.active
  BY <1>1, <1>2 DEF Wide, Less, Same
<1>4. \/ Do(h)
      \/ app.bridge # None /\ app.active /\ Do(Submit(h, "frame", app.bridge))
  BY Zenon DEF Frame
<1> HIDE DEF h
<1>5. Core(h) /\ Orderly(h, k)
  BY <1>1, <1>2, <1>3, LessCore, YieldsOrderly
<1>6. CASE Do(h)
  BY <1>2, <1>6, YieldOrder DEF Frame
<1>7. CASE app.bridge # None /\ app.active /\ Do(Submit(h, "frame", app.bridge))
  <2>1. app.bridge \in Turns /\ [op |-> "frame", turn |-> app.bridge] \in Calls
    BY <1>1, <1>7 DEF Calls
  <2>2. R = Place(h.thread, h.bridge, 0) /\ R \in Nat
    BY <1>3, <2>1, RankIs DEF Last
  <2>3. h.thread # None
    BY <1>1, <1>3, <1>7 DEF Orderly
  <2>4. /\ Comes(h.thread, Pending(h), k, R) /\ R <= Fore(h) /\ Awake(h)
        /\ h.turn # None => R <= Place(h.thread, h.turn, 1)
    BY <1>3, <1>5, <1>7, <2>2, <2>3 DEF Orderly, Ahead
  <2> HIDE DEF R
  <2>5. R = Rank(h.thread, [op |-> "frame", turn |-> app.bridge])
    BY DEF R
  <2>6. R <= Place(h.thread, h.bridge, 0)
    BY <2>2
  <2>7. Orderly(Submit(h, "frame", app.bridge), k)
    BY <1>5, <2>1, <2>2, <2>3, <2>4, <2>5, <2>6, SubmitOrderly
  <2>8. Submit(h, "frame", app.bridge) \in Wide /\ Same(app, Submit(h, "frame", app.bridge))
    <3>1. Rested(h)
      BY <1>3, <1>7 DEF Rested
    <3> QED BY <1>3, <1>5, <2>1, <3>1, SubmitRests, LessTwice DEF Less
  <2> QED BY <2>7, <2>8, <1>7, OrderlyKeeps DEF Frame
<1> QED BY <1>4, <1>6, <1>7

\* The end of the user's turn, after the microphone has been closed.
LEMMA HeardOrder ==
    ASSUME IInv, Plain, NEW k \in Nat, Agreed(k), NEW c, Yields(app, c), Less(app, c),
           Rested(c), ~c.opens, c.turn = app.turn, Do(EndUserTurn(c)), UNCHANGED signals
    PROVE  Order'
BY AppIsGood, LessCore, YieldsOrderly, EndUserTurnOrderly, EndUserTurnGoes, OrderlyKeeps DEF
   Agreed, Goes, Core, Less, Same

LEMMA EndpointOrder ==
    ASSUME IInv, Plain, NEW k \in Nat, Agreed(k), Endpoint
    PROVE  Order'
<1> DEFINE t == [app EXCEPT !.voice = "THINKING"]
           c == CloseMic(t)
           x == t.deaf \/ app.bridge # None
           d == [t EXCEPT !.deaf = x]
<1>1. app \in Wide /\ app.active /\ ~app.opens
  BY AppIsGood DEF Endpoint
<1>2. t \in Wide
  BY <1>1, SetVoice
<1>3. Less(app, t) /\ ~t.opens /\ t.active /\ t.turn = app.turn /\ Yields(app, t)
  BY <1>1, <1>2 DEF Wide, Less, Same, Yields
<1>4. Do(d) \/ Do(EndUserTurn(c)) \/ Do(ReportError(c))
  BY Zenon DEF Endpoint
<1> HIDE DEF t
<1>5. Yields(t, d)
  <2>1. x \in BOOLEAN
    BY <1>2 DEF Wide
  <2> HIDE DEF x
  <2> QED BY <1>2, <2>1, FlagYields
<1> HIDE DEF d
<1>6. Quiet(t, c) /\ c.turn = t.turn /\ c \in Wide /\ Yields(t, c)
  BY <1>2, CloseMicQuiet, VoiceYields DEF Quiet, Less
<1> HIDE DEF c
<1>7. CASE Do(d)
  BY <1>3, <1>5, <1>7, YieldsTwice, YieldOrder DEF Endpoint
<1>8. CASE Do(EndUserTurn(c))
  BY <1>3, <1>6, <1>8, LessTwice, YieldsTwice, HeardOrder DEF Rested, Endpoint, Quiet
<1>9. CASE Do(ReportError(c))
  BY <1>6, VoiceYields, <1>3, YieldsTwice, <1>9, YieldOrder DEF Endpoint
<1> QED BY <1>4, <1>7, <1>8, <1>9

LEMMA TimeoutOrder ==
    ASSUME IInv, Plain, NEW k \in Nat, Agreed(k), Timeout
    PROVE  Order'
<1> DEFINE c == CloseMic(app)
           d == [c EXCEPT !.renew = TRUE]
<1>1. app \in Wide /\ app.active /\ ~app.opens
  BY AppIsGood DEF Timeout
<1>2. Quiet(app, c) /\ c.turn = app.turn /\ c \in Wide /\ Yields(app, c)
  BY <1>1, CloseMicQuiet, VoiceYields DEF Quiet, Less
<1>3. Do(EndUserTurn(c)) \/ Do(d)
  BY DEF Timeout
<1> HIDE DEF c
<1>4. Yields(c, d)
  BY <1>2, FlagYields
<1> HIDE DEF d
<1>5. CASE Do(EndUserTurn(c))
  BY <1>1, <1>2, <1>5, HeardOrder DEF Rested, Timeout, Quiet
<1>6. CASE Do(d)
  BY <1>2, <1>4, <1>6, YieldsTwice, YieldOrder DEF Timeout
<1> QED BY <1>3, <1>5, <1>6

LEMMA RenewOrder ==
    ASSUME IInv, Plain, NEW k \in Nat, Agreed(k), Renew
    PROVE  Order'
<1> DEFINE r == [app EXCEPT !.renew = FALSE]
<1>1. app \in Wide
  BY AppIsGood
<1>2. Yields(app, r) /\ r \in Wide
  BY <1>1, FlagYields DEF Yields
<1>3. Do(r) \/ Do(Listen(r))
  BY Zenon DEF Renew
<1> HIDE DEF r
<1>4. Yields(r, Listen(r))
  BY <1>2, VoiceYields
<1> QED BY <1>2, <1>3, <1>4, YieldsTwice, YieldOrder DEF Renew

LEMMA MicFailsOrder ==
    ASSUME IInv, Plain, NEW k \in Nat, Agreed(k), MicFails
    PROVE  Order'
<1> DEFINE c == CloseMic(app)
<1>1. app \in Wide /\ Core(app) /\ Do(Ended(c)) /\ UNCHANGED signals
  BY AppIsGood DEF MicFails
<1>2. Quiet(app, c) /\ Yields(app, c)
  BY <1>1, CloseMicQuiet, VoiceYields
<1> HIDE DEF c
<1>3. Yields(c, Ended(c))
  BY <1>1, <1>2, LessCore, EndYields DEF Quiet
<1> QED BY <1>1, <1>2, <1>3, YieldsTwice, YieldOrder

LEMMA StopAllSpeechOrder ==
    ASSUME IInv, Plain, NEW k \in Nat, Agreed(k), StopAllSpeech
    PROVE  Order'
<1> DEFINE c == StopSpeech(app)
           d == [c EXCEPT !.deaf = TRUE]
<1>1. Yields(app, c) /\ c \in Wide /\ Do(d) /\ UNCHANGED signals
  BY AppIsGood, StopSpeechYields DEF Yields, StopAllSpeech
<1> HIDE DEF c
<1>2. Yields(c, d)
  BY <1>1, FlagYields
<1> HIDE DEF d
<1> QED BY <1>1, <1>2, YieldsTwice, YieldOrder

LEMMA SaveSettingsOrder ==
    ASSUME IInv, Plain, NEW k \in Nat, Agreed(k), SaveSettings
    PROVE  Order'
<1> DEFINE p == [app EXCEPT !.sound = None]
           q == [p EXCEPT !.deaf = TRUE]
<1>1. app \in Wide
  BY AppIsGood
<1>2. Yields(app, p) /\ p \in Wide
  BY <1>1, FieldYields DEF Yields
<1>3. Do(CloseMic(q)) \/ Do(ReportError(q))
  BY Zenon DEF SaveSettings
<1> HIDE DEF p
<1>4. Yields(p, q) /\ q \in Wide
  BY <1>2, FlagYields DEF Yields
<1> HIDE DEF q
<1> QED BY <1>2, <1>3, <1>4, VoiceYields, YieldsTwice, YieldOrder DEF SaveSettings

LEMMA SuspendOrder ==
    ASSUME IInv, Plain, NEW k \in Nat, Agreed(k), Suspend
    PROVE  Order'
<1> DEFINE p == [app EXCEPT !.paused = TRUE]
           x == IF app.turn = None THEN app.barred ELSE app.barred \cup {app.turn[2]}
           q == [p EXCEPT !.barred = x]
<1>1. app \in Wide /\ x \in Bars
  BY AppIsGood, TurnNames DEF Suspend, Bars, Numbers
<1>2. Do(q)
  BY Zenon DEF Suspend
<1>3. Yields(app, p) /\ p \in Wide
  BY <1>1, FlagYields DEF Yields
<1> HIDE DEF p
<1>4. Yields(p, q)
  <2> HIDE DEF x
  <2>1. q \in Wide
    BY <1>1, <1>3 DEF Wide
  <2> QED BY <1>1, <1>3, <2>1 DEF Wide, Yields
<1> HIDE DEF q
<1> QED BY <1>2, <1>3, <1>4, YieldsTwice, YieldOrder DEF Suspend

\* What plays keeps its turn, which only a worker that has connected has begun.
LEMMA PlaysAwake ==
    ASSUME IInv, app.play # "off"
    PROVE  Awake(app)
  BY DEF IInv, Connecting, Unbegun, Awake

LEMMA SoundEndsOrder ==
    ASSUME IInv, Plain, NEW k \in Nat, Agreed(k), SoundEnds
    PROVE  Order'
<1> DEFINE p == [app EXCEPT !.sound = None]
           e == [p EXCEPT !.playing = FALSE]
<1>1. app \in Wide /\ app.active /\ ~app.opens /\ Core(app) /\ Orderly(app, k)
  BY AppIsGood DEF SoundEnds, Agreed
<1>2. p \in Wide
  BY <1>1, SetTurns
<1>3. e \in Wide
  <2> HIDE DEF p
  <2> QED BY <1>2, SetFlags
<1>4. /\ Less(app, e) /\ ~e.opens /\ e.active /\ e.more = app.more /\ e.play = app.play
      /\ Yields(app, e)
  BY <1>1, <1>3 DEF Wide, Less, Same, Yields
<1>5. \/ app.more # None /\ Do(PlayMore(e))
      \/ Do(e)
      \/ Do(CompleteIfReady(e))
  BY Zenon DEF SoundEnds
<1> HIDE DEF e
<1>6. Orderly(e, k) /\ Core(e) /\ Rested(e) /\ Awake(e)
  BY <1>1, PlaysAwake, <1>4, YieldsOrderly, LessCore DEF SoundEnds, Orderly, Sounding,
     Rested, Awake, Yields
<1>7. CASE app.more # None /\ Do(PlayMore(e))
  BY <1>3, <1>4, <1>6, <1>7, PlayMoreQuiet, PlayMoreOrderly, LessTwice, OrderlyKeeps DEF
     Quiet, SoundEnds, Less
<1>8. CASE Do(e)
  BY <1>4, <1>8, YieldOrder DEF SoundEnds
<1>9. CASE Do(CompleteIfReady(e))
  BY <1>4, <1>6, CompleteIfReadyGoes, CompleteIfReadyOrderly, GoesTwice, <1>9, OrderlyKeeps
     DEF Less, Goes, Core, SoundEnds
<1> QED BY <1>5, <1>7, <1>8, <1>9

LEMMA SoundFailsOrder ==
    ASSUME IInv, Plain, NEW k \in Nat, Agreed(k), SoundFails
    PROVE  Order'
<1> DEFINE c == CancelPlay(app)
<1>1. app \in Wide /\ Core(app) /\ Do(Ended(c)) /\ UNCHANGED signals
  BY AppIsGood DEF SoundFails
<1>2. Quiet(app, c) /\ Yields(app, c)
  BY <1>1, CancelPlayQuiet, CancelPlayYields
<1> HIDE DEF c
<1>3. Yields(c, Ended(c))
  BY <1>1, <1>2, LessCore, EndYields DEF Quiet
<1> QED BY <1>1, <1>2, <1>3, YieldsTwice, YieldOrder

LEMMA DeliverOrder ==
    ASSUME IInv, Plain, NEW k \in Nat, Agreed(k), Deliver
    PROVE  Order'
<1> DEFINE m == Head(signals)
<1>2. PICK r \in Handled(app, m) : Do(r)
  BY DEF Deliver
<1>3. /\ Len(signals) \in Nat /\ Len(signals) >= 1 /\ m = signals[1] /\ m \in Signals
      /\ \A i \in 1..Len(signals') : signals'[i] = signals[i + 1] /\ i + 1 \in 1..Len(signals)
  BY DEF IInv, TypeOK, Deliver
<1>4. /\ Core(app) /\ Rested(app) /\ ~app.opens /\ app.turn \in Turns \cup {None}
      /\ Orderly(app, k) /\ (app.play # "off" => Awake(app))
  BY PlaysAwake DEF IInv, TypeOK, App, Good, Agreed
<1>5. /\ m.kind = "audio" => m.of # 0
      /\ m.kind = "connected" => Unbegun(app) /\ Awake(app)
  BY <1>3 DEF IInv, Told, Connecting, Says, Awake
<1> HIDE DEF m
<1>6. Goes(app, r) \/ Writes(app, r)
  BY <1>2, <1>3, <1>4, <1>5, HandledGoes
<1>7. Same(app, r) /\ r \in Wide
  BY <1>6 DEF Goes, Writes, Core
<1>9. Orderly(r, k)
  <2>1. CASE app.thread = None /\ m.kind = "audio"
    <3>1. r \in HandleAudio(app, m.turn, m.of)
      BY <1>2, <2>1, Zenon DEF Handled
    <3>2. ~Owns(app, m.turn)
      BY <1>4, <2>1 DEF Orderly, Owns
    <3> QED BY <1>4, <3>1, <3>2 DEF HandleAudio
  <2>2. CASE ~(app.thread = None /\ m.kind = "audio")
    BY <1>3, <2>2, <1>2, <1>4, <1>5, HandledOrderly DEF Plain, Crossed
  <2> QED BY <2>1, <2>2
<1> QED BY <1>2, <1>7, <1>3, <1>9, DoOrder DEF Same

LEMMA PlaceGap ==
    ASSUME NEW w, NEW t, NEW x, t[2] \in Nat, x[2] \in Nat, Place(w, t, 1) <= Place(w, x, 0)
    PROVE  Place(w, t, 2) <= Place(w, x, 0)
  BY TurnNames DEF Place, Last

\* The interruption comes after everything of the old turn and before the new one.
LEMMA TalkOrder ==
    ASSUME IInv, Plain, NEW k \in Nat, Agreed(k), Talk
    PROVE  Order'
<1> DEFINE v == StopSpeech(app)
           p == CancelPlay(v)
           b == [p EXCEPT !.bridge = None]
           c == CancelText(b)
           n == TakeTurn(Adopt(c))
           i == Idle(n)
           R == Rank(i.thread, [op |-> "interrupt", turn |-> app.turn])
           t == Submit(i, "interrupt", app.turn)
<1>1. /\ app \in Wide /\ app.active /\ ~app.opens /\ Core(app) /\ app.turn \in Turns
      /\ Orderly(app, k) /\ app.thread # None
  BY AppIsGood DEF Talk, Agreed, Orderly
<1>2. Do(IF c.life # "ACTIVE" THEN Raise(c) ELSE IF t.active THEN Listen(t) ELSE t)
  BY Zenon DEF Talk
<1>3. Quiet(app, v) /\ v \in Wide /\ Yields(app, v)
  BY <1>1, StopSpeechQuiet, StopSpeechYields DEF Quiet, Less
<1> HIDE DEF v
<1>4. Quiet(v, p) /\ p.play = "off" /\ p \in Wide /\ Yields(v, p) /\ Still(p)
  BY <1>3, CancelPlayQuiet, CancelPlayYields DEF Quiet, Less
<1> HIDE DEF p
<1>5. b \in Wide /\ Yields(p, b)
  BY <1>4, FieldYields DEF Yields
<1>6. Quiet(p, b) /\ b.bridge = None
  BY <1>4, <1>5 DEF Wide, Quiet, Less, Same
<1> HIDE DEF b
<1>7. Quiet(app, b) /\ Core(b)
  BY <1>1, <1>3, <1>4, <1>6, QuietTwice, LessCore DEF Quiet
<1>8. Quiet(b, c) /\ c.text = None /\ Yields(b, c)
  BY <1>7, CancelTextLess, CancelTextYields
<1> HIDE DEF c
<1>9. /\ Quiet(app, c) /\ Core(c) /\ c.active /\ ~c.opens /\ Same(app, c) /\ c \in Wide
      /\ Yields(app, c) /\ Still(c) /\ c.bridge = None
  <2>1. Quiet(app, c)
    BY <1>7, <1>8, QuietTwice
  <2>3. Yields(app, c)
    BY <1>3, <1>4, <1>5, <1>8, YieldsTwice
  <2>4. Still(c)
    BY <1>4, <1>5, <1>8, StillYields
  <2>5. c.bridge = None
    BY <1>6, <1>8 DEF Quiet, Less
  <2> QED BY <2>1, <1>1, <2>3, <2>4, <2>5, LessCore DEF Quiet, Less
<1>10. Orderly(c, k) /\ Awake(c) /\ c.thread = app.thread
  BY <1>1, <1>9, YieldsOrderly, TurnNames DEF Yields, Orderly, Awake
<1>11. CASE c.life # "ACTIVE"
  BY <1>9, RaiseYields, <1>2, <1>11, YieldsTwice, YieldOrder DEF Talk
<1>12. CASE c.life = "ACTIVE"
  <2>1. Renews(c, n)
    BY <1>8, <1>9, <1>12, AdoptTakes
  <2>2. n \in Wide /\ Core(n) /\ Same(app, n) /\ n.active /\ ~n.opens
    <3> DEFINE a == Adopt(c)
    <3>1. /\ Core(a) /\ Same(c, a) /\ a.active = c.active /\ a.turn # None
          /\ \A j \in 1..Len(a.chat) : a.chat[j] # a.turn
          /\ a.text = None /\ a.play = c.play /\ a.opens = c.opens
      BY <1>8, <1>9, <1>12, AdoptIsNew
    <3> HIDE DEF a
    <3> QED BY <1>9, <2>1, <3>1, TakeTurnGoes DEF Same, Renews, Still, a
  <2> HIDE DEF n
  <2>3. Quiet(n, i) /\ Yields(n, i) /\ i.turn = n.turn
    BY <2>2, IdleQuiet, VoiceYields DEF Wide, Idle
  <2> HIDE DEF i
  <2>4. Renews(c, i) /\ Core(i) /\ Rested(i) /\ i.active /\ ~i.opens /\ Same(app, i)
    BY <2>1, <2>2, <2>3, RenewsYields, LessCore DEF Rested, Quiet, Less, Same
  <2>5. Orderly(i, k) /\ Awake(i) /\ i.thread = app.thread /\ i.thread # None
    BY <1>1, <1>9, <1>10, <2>4, RenewsOrderly DEF Renews, Awake
  <2> DEFINE w == app.thread
             C == Pending(app)
             x == <<app.session, app.next>>
             y == <<app.session, app.next + 1>>
  <2>6. /\ Pending(i) = C /\ Fore(i) = Place(w, y, 0) /\ Fore(app) = Place(w, x, 0)
        /\ i.turn = x /\ i.bridge \in {None, x}
    BY <1>9, <2>4, <2>5 DEF Renews, Yields, Pending, Fore
  <2>7. app.turn[2] \in Nat /\ x[2] \in Nat /\ y[2] \in Nat
    BY <1>1, TurnNames DEF Wide
  <2>8. R = Place(w, app.turn, 2) /\ R \in Nat
    BY <1>1, RankIs, <2>5 DEF Calls, Last
  <2> HIDE DEF R
  <2>9. Place(w, app.turn, 1) <= Place(w, x, 0) /\ Comes(w, C, k, Place(w, app.turn, 1))
    <3>1. app.turn # None
      BY <1>1, TurnNames
    <3>2. Ahead(app, C, k)
      BY <1>1 DEF Orderly
    <3> HIDE DEF C, x
    <3> QED BY <2>6, <3>1, <3>2 DEF Ahead
  <2>10. R <= Place(w, x, 0) /\ Place(w, app.turn, 1) <= R
    <3> HIDE DEF w, x, C
    <3> QED BY <2>7, <2>8, <2>9, PlaceGap, PlaceIs
  <2>11. Place(w, x, 0) <= Place(w, x, 1) /\ Place(w, x, 1) <= Place(w, y, 0)
    <3>1. Place(w, x, 2) <= Place(w, y, 0)
      BY <1>1, PlaceNext DEF Wide
    <3> HIDE DEF w, x, y
    <3> QED BY <3>1, <2>7, PlaceIs DEF Last
  <2>12. /\ Place(w, app.turn, 1) \in Nat /\ Place(w, x, 0) \in Nat /\ Place(w, x, 1) \in Nat
         /\ Place(w, y, 0) \in Nat
    <3> HIDE DEF w, x, y
    <3> QED BY <2>7, PlaceIs DEF Last
  <2>13. \A j \in 1..Len(C) : Rank(w, C[j]) \in Nat
    <3>1. w \in Sessions /\ app.sent \in Seq(Calls)
      BY <1>1 DEF Wide, Sendings
    <3>2. workers[w].calls \in Seq(Calls)
      BY <3>1, Workers, WorkerTyped
    <3>3. C = workers[w].calls \o app.sent
      BY DEF Pending
    <3> HIDE DEF w, C
    <3>4. C \in Seq(Calls)
      BY <3>1, <3>2, <3>3
    <3> QED BY <3>4, RankIs DEF Last
  <2>14. /\ Comes(w, C, k, R) /\ R <= Place(w, y, 0) /\ R <= Place(w, x, 1)
    <3> HIDE DEF w, x, y, C
    <3> QED BY <2>8, <2>9, <2>10, <2>11, <2>12, <2>13 DEF Comes
  <2>15. /\ Comes(i.thread, Pending(i), k, R) /\ R <= Fore(i)
         /\ i.bridge # None => R <= Place(i.thread, i.bridge, 0)
         /\ i.turn # None => R <= Place(i.thread, i.turn, 1)
    <3> HIDE DEF w, x, y, C
    <3> QED BY <2>5, <2>6, <2>10, <2>14 DEF w
  <2>16. Orderly(t, k)
    <3>1. R = Rank(i.thread, [op |-> "interrupt", turn |-> app.turn])
      BY DEF R
    <3> HIDE DEF w, x, y, C
    <3> QED BY <1>1, <2>4, <2>5, <2>8, <2>15, <3>1, SubmitOrderly
  <2>17. Less(i, t)
    BY <1>1, <2>4, SubmitRests
  <2> HIDE DEF t
  <2>18. t \in Wide /\ Same(app, t)
    BY <2>4, <2>17 DEF Less, Same
  <2>19. Orderly(Listen(t), k) /\ Listen(t) \in Wide /\ Same(app, Listen(t))
    BY <2>16, <2>18, VoiceYields, YieldsOrderly, ListenLess DEF Yields, Less, Same
  <2> QED BY <1>2, <1>12, <2>16, <2>18, <2>19, OrderlyKeeps DEF Talk
<1> QED BY <1>11, <1>12

\* A worker that has heard nothing yet, or nothing any more.
LEMMA EmptyFits ==
    ASSUME NEW r, NEW k \in Nat, r.turn = 0, ~r.complete, r.wire = <<>>,
           r.server.turn = 0, r.server.stage = "quiet"
    PROVE  Fit(r, k)
BY DEF Fit, Paced, Once, Over

\* A new conversation, with a worker that nothing has been said to.
LEMMA StartOrder ==
    ASSUME IInv, Plain, NEW k \in Nat, Agreed(k), Start
    PROVE  Order'
<1>1. PICK w \in Sessions :
         /\ \A v \in Sessions : workers[v].phase = "new" <=> v >= w
         /\ app' = [app EXCEPT !.active = TRUE, !.thread = w, !.paused = FALSE,
                               !.barred = {}, !.chat = <<>>, !.deaf = FALSE,
                               !.alone = \A v \in Sessions :
                                   workers[v].phase \in {"new", "done"}]
         /\ workers' = [workers EXCEPT ![w].phase = "spawned"]
         /\ signals' = <<>>
  BY Zenon DEF Start
<1> DEFINE a == [app EXCEPT !.active = TRUE]
           b == [a EXCEPT !.thread = w]
           c == [b EXCEPT !.paused = FALSE]
           d == [c EXCEPT !.barred = {}]
           e == [d EXCEPT !.chat = <<>>]
           f == [e EXCEPT !.deaf = FALSE]
           x == \A v \in Sessions : workers[v].phase \in {"new", "done"}
           g == [f EXCEPT !.alone = x]
<1>2. app \in Wide /\ Rested(app) /\ ~app.active /\ Orderly(app, k) /\ app.sent = <<>>
  BY AppIsGood DEF Start, Agreed, IInv, TypeOK
<1>3. app' = g
  BY <1>1, Zenon
<1>4. /\ g.thread = w /\ g.turn = app.turn /\ g.bridge = app.bridge /\ g.play = app.play
      /\ g.playing = app.playing /\ g.more = app.more /\ g.sound = app.sound
      /\ g.sent = app.sent /\ g.session = app.session /\ g.next = app.next
  <2> HIDE DEF x
  <2> QED BY <1>2 DEF Wide
<1> HIDE DEF g
<1>5. /\ app'.thread = w /\ app'.turn = None /\ app'.bridge = None /\ app'.sound = None
      /\ app'.more = None /\ ~app'.playing /\ app'.sent = <<>> /\ app'.next \in Nat
  BY <1>2, <1>3, <1>4 DEF Rested, Orderly, Sounding, Wide
<1> DEFINE u == workers'[w]
<1>6. /\ u.phase = "spawned" /\ u.calls = <<>> /\ u.turn = 0 /\ ~u.complete /\ u.wire = <<>>
      /\ u.server.turn = 0 /\ u.server.stage = "quiet"
      /\ \A v \in Sessions : v # w => workers'[v] = workers[v]
  BY TurnNames, <1>1 DEF IInv, TypeOK, Plain, Fresh, Silent
<1> HIDE DEF u
<1>7. Fit(u, 0)
  BY <1>6, EmptyFits
<1>8. Pending(app)' = <<>>
  BY <1>5, <1>6 DEF Pending, u
<1>9. Orderly(app, 0)'
  <2>1. Sounding(app, Crossed(app))'
    BY <1>5 DEF Sounding
  <2>2. Len(<<>>) = 0
    OBVIOUS
  <2>3. Fore(app)' \in Nat
    <3> DEFINE y == <<app'.session, app'.next>>
    <3>1. y[2] \in Nat
      BY <1>5
    <3>2. Place(w, y, 0) \in 0..Last
      <4> HIDE DEF y
      <4> QED BY <3>1, PlaceIs
    <3>3. Fore(app)' = Place(w, y, 0)
      BY <1>5 DEF Fore
    <3> HIDE DEF y
    <3> QED BY <3>2, <3>3 DEF Last
  <2>4. Lined(w, <<>>, 0) /\ Comes(w, <<>>, 0, Fore(app)')
    BY <2>2, <2>3 DEF Lined, Comes
  <2> QED BY <1>5, <1>8, <2>1, <2>4, TurnNames DEF Orderly, Ahead
<1>10. Agreed(0)'
  BY <1>5, <1>7, <1>9 DEF Agreed, u
<1>11. Plain'
  BY <1>1, <1>5, <1>6 DEF Plain, u
<1> QED BY <1>10, <1>11 DEF Order

-----------------------------------------------------------------------------
(* The steps of a worker keep the order *)

\* Nothing is said of another turn's audio, unless a turn has been taken for another.
Speaks ==
    \A i \in 1..Len(signals') :
        \/ \E j \in 1..Len(signals) : signals'[i] = signals[j]
        \/ signals'[i].kind = "audio" =>
              signals'[i].of = signals'[i].turn \/ workers'[app.thread].crossed

LEMMA AppendSpeaks ==
    ASSUME IInv, NEW w \in Sessions, NEW k, NEW n \in Numbers, NEW of \in Numbers,
           k \in {"connected", "audio", "final", "completed", "interrupted",
                  "failed", "idle", "finished"},
           k = "audio" => of = n \/ workers'[w].crossed,
           signals' = Emit(w, Signal(k, n, of))
    PROVE  Speaks
<1> DEFINE m == Signal(k, n, of)
<1>1. m \in Signals /\ m.kind = k /\ m.of = of /\ m.turn = n
  BY DEF Signal, Signals
<1>2. signals \in Seq(Signals)
  BY DEF IInv, TypeOK
<1>3. signals' = signals \/ (app.thread = w /\ signals' = Append(signals, m))
  BY DEF Emit
<1> HIDE DEF m
<1>4. CASE signals' = signals
  BY <1>4 DEF Speaks
<1>5. CASE app.thread = w /\ signals' = Append(signals, m)
  BY <1>1, <1>2, <1>5 DEF Speaks
<1> QED BY <1>3, <1>4, <1>5

LEMMA EmitSpeaks ==
    ASSUME IInv, NEW w \in Sessions
    PROVE  /\ signals' = signals => Speaks
           /\ signals' = EmitFailure(w) => Speaks
           /\ \A k \in {"connected", "idle", "finished"} :
                 signals' = Emit(w, Signal(k, 0, 0)) => Speaks
BY WorkerIs, AppendSpeaks DEF Speaks, EmitFailure

\* The worker's part of an outcome that leaves the place of the conversation.
Settles(r, q, k) ==
    /\ q.calls \in {r.calls, <<>>} /\ (r.crossed => q.crossed) /\ q.turn \in {r.turn, 0}
    /\ ~q.crossed /\ Fit(r, k) => Fit(q, k)

LEMMA SettleOrder ==
    ASSUME IInv, Plain, NEW k \in Nat, Agreed(k), NEW w \in Sessions, NEW q \in Worker,
           workers' = [workers EXCEPT ![w] = q], Shift(w), Speaks, q.phase # "new",
           q.phase \in Early => workers[w].phase \in Early,
           w = app.thread => /\ Settles(workers[w], q, k)
                             /\ app'.session \in {app.session, None}
    PROVE  Order'
<1> DEFINE t == app.thread
<1>1. /\ workers \in [Sessions -> Worker] /\ app \in Wide /\ Orderly(app, k) /\ app.sent = <<>>
      /\ Kin(app, app') /\ app' \in Wide
  BY AppIsGood, AppIsWide DEF IInv, TypeOK, Agreed, Shift, Kin
<1>2. workers'[w] = q /\ \A v \in Sessions : v # w => workers'[v] = workers[v]
  BY <1>1
<1>3. app'.thread = t /\ (t # None => t \in Sessions)
  BY <1>1 DEF Kin, Wide
<1>4. t # None => Settles(workers[t], workers'[t], k)
  BY <1>1, <1>2, <1>3 DEF Settles
<1>5. t # None => Fore(app') \in {Fore(app), Last}
  BY <1>3, TurnNames DEF Fore, Place, IInv, Held, Free, Shift
<1>6. Orderly(app, k)'
  <2>1. t # None =>
           /\ workers'[t].calls \in Seq(Calls)
           /\ Len(workers'[t].calls) <= Len(Pending(app))
           /\ \A i \in 1..Len(workers'[t].calls) : workers'[t].calls[i] = Pending(app)[i]
           /\ workers[t].crossed => workers'[t].crossed
           /\ workers'[t].phase \in Early => workers[t].phase \in Early
    <3> SUFFICES ASSUME t # None
                 PROVE  /\ workers'[t].calls \in Seq(Calls)
                        /\ Len(workers'[t].calls) <= Len(Pending(app))
                        /\ \A i \in 1..Len(workers'[t].calls) :
                              workers'[t].calls[i] = Pending(app)[i]
      BY <1>2, <1>3, <1>4 DEF Settles
    <3> DEFINE C == workers[t].calls
               D == workers'[t].calls
               P == Pending(app)
    <3>1. C \in Seq(Calls)
      BY <1>1, <1>3, WorkerTyped
    <3>2. P = C \o <<>>
      BY <1>1 DEF Pending
    <3>3. D = C \/ D = <<>>
      BY <1>4 DEF Settles
    <3> HIDE DEF C, D, P, t
    <3>4. P = C
      BY <3>1, <3>2
    <3>5. D \in Seq(Calls) /\ Len(D) <= Len(P) /\ \A i \in 1..Len(D) : D[i] = P[i]
      <4>1. CASE D = C
        BY <3>1, <3>4, <4>1
      <4>2. CASE D = <<>>
        BY <4>2, <3>1, <3>4
      <4> QED BY <3>3, <4>1, <4>2
    <3> QED BY <3>5 DEF C, D, P
  <2> QED BY <1>1, <1>3, <1>5, <2>1, OrderlyNext DEF Kin
<1>7. Agreed(k)'
  BY <1>3, <1>4, <1>6 DEF Agreed, Settles
<1>8. Plain'
  BY <1>2, <1>3, <1>4 DEF Plain, Settles, Speaks
<1> QED BY <1>7, <1>8 DEF Order

\* Nothing is said and heard that was not, or everything is given up.
Calms(r, q) ==
    /\ q.calls \in {r.calls, <<>>} /\ q.crossed = r.crossed
    /\ \/ /\ q.turn = r.turn /\ q.complete = r.complete /\ q.quarantine = r.quarantine
          /\ q.server.turn = r.server.turn /\ q.server.stage \in {r.server.stage, "quiet"}
          /\ q.wire \in {r.wire, <<>>}
       \/ q.turn = 0 /\ ~q.complete /\ q.wire = <<>> /\ q.server.turn = 0
          /\ q.server.stage = "quiet"

LEMMA CalmsTwice ==
    ASSUME NEW r, NEW p, NEW q, Calms(r, p), Calms(p, q)
    PROVE  Calms(r, q)
  BY DEF Calms

LEMMA CalmsSettles ==
    ASSUME NEW r, NEW q, Calms(r, q), NEW k \in Nat
    PROVE  Settles(r, q, k)
<1>1. CASE q.turn = 0 /\ ~q.complete /\ q.wire = <<>> /\ q.server.turn = 0
           /\ q.server.stage = "quiet"
  BY <1>1, EmptyFits DEF Calms, Settles
<1>2. CASE /\ q.turn = r.turn /\ q.complete = r.complete /\ q.quarantine = r.quarantine
           /\ q.server.turn = r.server.turn /\ q.server.stage \in {r.server.stage, "quiet"}
           /\ q.wire \in {r.wire, <<>>}
  BY <1>2 DEF Fit, Paced, Over, OnlyHeard, Guarded, Once, Calms, Settles
<1> QED BY <1>1, <1>2 DEF Calms

LEMMA CalmField ==
    ASSUME NEW r \in Worker
    PROVE  /\ \A x \in Phases : Calms(r, [r EXCEPT !.phase = x])
           /\ \A x \in {"IDLE", "STARTING", "ACTIVE", "STOPPING", "ERROR"} :
                 Calms(r, [r EXCEPT !.link = x])
           /\ \A x \in BOOLEAN : Calms(r, [r EXCEPT !.own = x])
           /\ \A x \in Tries : Calms(r, [r EXCEPT !.tries = x])
           /\ Calms(r, [r EXCEPT !.wire = <<>>])
           /\ Calms(r, Doomed(r)) /\ Calms(r, r)
<1>1. ASSUME NEW x \in Phases PROVE Calms(r, [r EXCEPT !.phase = x])
  BY WorkerIs DEF Calms
<1>2. ASSUME NEW x \in {"IDLE", "STARTING", "ACTIVE", "STOPPING", "ERROR"}
      PROVE  Calms(r, [r EXCEPT !.link = x])
  BY WorkerIs DEF Calms
<1>3. ASSUME NEW x \in BOOLEAN PROVE Calms(r, [r EXCEPT !.own = x])
  BY WorkerIs DEF Calms
<1>4. ASSUME NEW x \in Tries PROVE Calms(r, [r EXCEPT !.tries = x])
  BY WorkerIs DEF Calms
<1>5. Calms(r, [r EXCEPT !.wire = <<>>])
  BY WorkerIs DEF Calms
<1>6. Calms(r, Doomed(r))
  BY WorkerIs, DoomedIs DEF Doomed, Silent, Calms
<1>7. Calms(r, r)
  BY DEF Calms
<1> QED BY <1>1, <1>2, <1>3, <1>4, <1>5, <1>6, <1>7

LEMMA CalmServer ==
    ASSUME NEW r \in Worker, NEW g \in {r.server.stage, "quiet"}, NEW b \in BOOLEAN
    PROVE  Calms(r, [r EXCEPT !.server = [stage |-> g, turn |-> r.server.turn, lost |-> b]])
<1> DEFINE v == [stage |-> g, turn |-> r.server.turn, lost |-> b]
           q == [r EXCEPT !.server = v]
<1>1. v.stage = g /\ v.turn = r.server.turn
  OBVIOUS
<1> HIDE DEF v
<1>2. /\ q.server = v /\ q.turn = r.turn /\ q.complete = r.complete /\ q.wire = r.wire
      /\ q.quarantine = r.quarantine /\ q.calls = r.calls /\ q.crossed = r.crossed
  BY WorkerIs
<1> HIDE DEF q
<1>3. Calms(r, q)
  BY <1>1, <1>2 DEF Calms
<1> QED BY <1>3 DEF q, v

LEMMA CalmOrder ==
    ASSUME IInv, Plain, NEW k \in Nat, Agreed(k), NEW w \in Sessions, NEW q \in Worker,
           workers' = [workers EXCEPT ![w] = q], Shift(w), Speaks, q.phase # "new",
           q.phase \in Early => workers[w].phase \in Early, Calms(workers[w], q),
           w = app.thread => app'.session \in {app.session, None}
    PROVE  Order'
  BY CalmsSettles, SettleOrder

\* The coordinator's operations but a reservation keep or drop the session.
LEMMA SessionKept ==
    ASSUME IInv
    PROVE  /\ app' = app => app'.session = app.session
           /\ app' = Stopping(app) => app'.session = app.session
           /\ app' = Closed(app) => app'.session = None
           /\ app' = Activated(app) => app'.session = app.session
           /\ app' = Broken(app) => app'.session = app.session
BY AppIsGood, AppIs DEF Closed, Stopping, Activated, Broken

\* A worker that has left its first state has a link or is told of.
LEMMA NotNew ==
    ASSUME Plain, NEW w \in Sessions, workers[w].link # "IDLE"
    PROVE  workers[w].phase # "new"
  BY DEF Plain, Fresh

-----------------------------------------------------------------------------
(* A worker that connects, fails, reconnects or ends *)

\* A worker that is calm as r was.
Calmed(r, q) == q \in Worker /\ Calms(r, q)

LEMMA CalmedField ==
    ASSUME NEW r, NEW p, Calmed(r, p)
    PROVE  /\ \A x \in {"IDLE", "STARTING", "ACTIVE", "STOPPING", "ERROR"} :
                 LET q == [p EXCEPT !.link = x] IN Calmed(r, q) /\ q.phase = p.phase
           /\ \A x \in BOOLEAN : LET q == [p EXCEPT !.own = x] IN
                 Calmed(r, q) /\ q.phase = p.phase
           /\ LET q == [p EXCEPT !.wire = <<>>] IN Calmed(r, q) /\ q.phase = p.phase
           /\ Calmed(r, Doomed(p)) /\ Doomed(p).phase = p.phase
<1>1. p \in Worker /\ Calms(r, p)
  BY DEF Calmed
<1>2. ASSUME NEW x \in {"IDLE", "STARTING", "ACTIVE", "STOPPING", "ERROR"}
      PROVE  LET q == [p EXCEPT !.link = x] IN Calmed(r, q) /\ q.phase = p.phase
  <2> DEFINE q == [p EXCEPT !.link = x]
  <2>1. q \in Worker /\ q.phase = p.phase
    BY <1>1, <1>2, WorkerIs
  <2>2. Calms(p, q)
    BY <1>1, <1>2, CalmField
  <2> HIDE DEF q
  <2> QED BY <1>1, <2>1, <2>2, CalmsTwice DEF Calmed, q
<1>3. ASSUME NEW x \in BOOLEAN
      PROVE  LET q == [p EXCEPT !.own = x] IN Calmed(r, q) /\ q.phase = p.phase
  <2> DEFINE q == [p EXCEPT !.own = x]
  <2>1. q \in Worker /\ q.phase = p.phase
    BY <1>1, <1>3, WorkerIs
  <2>2. Calms(p, q)
    BY <1>1, <1>3, CalmField
  <2> HIDE DEF q
  <2> QED BY <1>1, <2>1, <2>2, CalmsTwice DEF Calmed, q
<1>4. LET q == [p EXCEPT !.wire = <<>>] IN Calmed(r, q) /\ q.phase = p.phase
  <2> DEFINE q == [p EXCEPT !.wire = <<>>]
  <2>1. q \in Worker /\ q.phase = p.phase
    BY <1>1, WorkerIs
  <2>2. Calms(p, q)
    BY <1>1, CalmField
  <2> HIDE DEF q
  <2> QED BY <1>1, <2>1, <2>2, CalmsTwice DEF Calmed, q
<1>5. Calmed(r, Doomed(p)) /\ Doomed(p).phase = p.phase
  BY <1>1, DoomedIs, CalmField, CalmsTwice DEF Calmed
<1> QED BY <1>2, <1>3, <1>4, <1>5

LEMMA CalmedPhase ==
    ASSUME NEW r, NEW p, Calmed(r, p)
    PROVE  /\ LET q == [p EXCEPT !.phase = "checked"] IN Calmed(r, q) /\ q.phase = "checked"
           /\ LET q == [p EXCEPT !.phase = "connecting"] IN Calmed(r, q) /\ q.phase = "connecting"
           /\ LET q == [p EXCEPT !.phase = "live"] IN Calmed(r, q) /\ q.phase = "live"
           /\ LET q == [p EXCEPT !.phase = "failed"] IN Calmed(r, q) /\ q.phase = "failed"
           /\ LET q == [p EXCEPT !.phase = "closing"] IN Calmed(r, q) /\ q.phase = "closing"
<1>1. p \in Worker /\ Calms(r, p)
  BY DEF Calmed
<1>2. ASSUME NEW x \in Phases PROVE Calmed(r, [p EXCEPT !.phase = x])
  <2> DEFINE q == [p EXCEPT !.phase = x]
  <2>1. q \in Worker
    BY <1>1, <1>2, WorkerIs
  <2>2. Calms(p, q)
    BY <1>1, <1>2, CalmField
  <2> HIDE DEF q
  <2> QED BY <1>1, <2>1, <2>2, CalmsTwice DEF Calmed, q
<1>3. /\ "checked" \in Phases /\ "connecting" \in Phases /\ "live" \in Phases
      /\ "failed" \in Phases /\ "closing" \in Phases
  BY DEF Phases
<1>4. \A x : [p EXCEPT !.phase = x].phase = x
  BY <1>1, WorkerIs
<1> QED BY <1>2, <1>3, <1>4, Zenon

LEMMA CalmedOrder ==
    ASSUME IInv, Plain, NEW k \in Nat, Agreed(k), NEW w \in Sessions, NEW q,
           Calmed(workers[w], q), workers' = [workers EXCEPT ![w] = q], Shift(w), Speaks,
           q.phase # "new", q.phase \in Early => workers[w].phase \in Early,
           w = app.thread => app'.session \in {app.session, None}
    PROVE  Order'
  BY CalmOrder DEF Calmed

LEMMA CalmedSelf ==
    ASSUME IInv, NEW w \in Sessions
    PROVE  workers[w] \in Worker /\ Calmed(workers[w], workers[w])
  BY Workers, CalmField DEF Calmed

LEMMA BootOrder ==
    ASSUME IInv, Plain, NEW k \in Nat, Agreed(k), NEW w \in Sessions, Boot(w)
    PROVE  Order'
<1> DEFINE u == workers[w]
           q == [u EXCEPT !.phase = "checked"]
           d == Doomed(u)
           f == [d EXCEPT !.phase = "failed"]
<1>1. Calmed(u, u) /\ u.phase = "spawned" /\ app' = app /\ Speaks /\ Shift(w)
  BY CalmedSelf, EmitSpeaks, Shifting DEF Boot
<1>2. \/ workers' = [workers EXCEPT ![w] = q]
      \/ workers' = [workers EXCEPT ![w] = f]
  BY Zenon DEF Boot
<1> HIDE DEF u
<1>3. Calmed(u, d) /\ Calmed(u, q) /\ q.phase = "checked"
  BY ZenonT(40), <1>1, CalmedField, CalmedPhase
<1> HIDE DEF d, q
<1>4. Calmed(u, f) /\ f.phase = "failed"
  BY <1>3, CalmedPhase
<1> HIDE DEF f
<1> QED BY <1>1, <1>2, <1>3, <1>4, CalmedOrder DEF u, Early

LEMMA ConnectedOrder ==
    ASSUME IInv, Plain, NEW k \in Nat, Agreed(k), NEW w \in Sessions, Connected(w)
    PROVE  Order'
<1> DEFINE u == workers[w]
           p == [u EXCEPT !.phase = "live"]
           l == [p EXCEPT !.link = "ACTIVE"]
           q == [l EXCEPT !.own = TRUE]
<1>1. Calmed(u, u) /\ Speaks /\ Shift(w) /\ app'.session = app.session
  BY CalmedSelf, EmitSpeaks, Shifting, SessionKept DEF Connected
<1>2. workers' = [workers EXCEPT ![w] = q] /\ workers \in [Sessions -> Worker]
  BY Workers DEF Connected, IInv, TypeOK
<1> HIDE DEF u
<1>3. Calmed(u, p) /\ p.phase = "live"
  BY <1>1, CalmedPhase
<1> HIDE DEF p
<1>4. Calmed(u, l) /\ l.phase = "live"
  BY <1>3, CalmedField
<1> HIDE DEF l
<1>5. Calmed(u, q) /\ q.phase = "live"
  BY <1>4, CalmedField
<1> HIDE DEF q
<1> QED BY <1>1, <1>2, <1>5, CalmedOrder DEF u, Early

LEMMA ConnectFailsOrder ==
    ASSUME IInv, Plain, NEW k \in Nat, Agreed(k), NEW w \in Sessions, ConnectFails(w)
    PROVE  Order'
<1> DEFINE u == workers[w]
           d == Doomed(u)
           p == [d EXCEPT !.phase = "failed"]
           q == [p EXCEPT !.link = "IDLE"]
<1>1. Calmed(u, u) /\ Speaks /\ Shift(w) /\ app'.session = None
  BY CalmedSelf, EmitSpeaks, Shifting, SessionKept DEF ConnectFails
<1>2. workers' = [workers EXCEPT ![w] = q]
  BY Zenon DEF ConnectFails
<1> HIDE DEF u
<1>3. Calmed(u, d)
  BY <1>1, CalmedField
<1> HIDE DEF d
<1>4. Calmed(u, p) /\ p.phase = "failed"
  BY <1>3, CalmedPhase
<1> HIDE DEF p
<1>5. Calmed(u, q) /\ q.phase = "failed"
  BY <1>4, CalmedField
<1> HIDE DEF q
<1> QED BY <1>1, <1>2, <1>5, CalmedOrder DEF u, Early

LEMMA FailOrder ==
    ASSUME IInv, Plain, NEW k \in Nat, Agreed(k), NEW w \in Sessions,
           workers[w].phase = "live", Fail(w)
    PROVE  Order'
<1> DEFINE u == workers[w]
           d == Doomed(u)
           p == [d EXCEPT !.own = FALSE]
           q == [p EXCEPT !.link = "ERROR"]
<1>1. /\ Calmed(u, u) /\ Speaks /\ Shift(w) /\ app'.session = app.session
      /\ u.phase = "live"
  BY CalmedSelf, EmitSpeaks, Shifting, SessionKept DEF Fail
<1>2. workers' = [workers EXCEPT ![w] = q]
  BY Zenon DEF Fail
<1> HIDE DEF u
<1>3. Calmed(u, d) /\ d.phase = "live"
  BY <1>1, CalmedField
<1> HIDE DEF d
<1>4. Calmed(u, p) /\ p.phase = "live"
  BY <1>3, CalmedField
<1> HIDE DEF p
<1>5. Calmed(u, q) /\ q.phase = "live"
  BY <1>4, CalmedField
<1> HIDE DEF q
<1> QED BY <1>1, <1>2, <1>5, CalmedOrder DEF u, Early

LEMMA DeadlineOrder ==
    ASSUME IInv, Plain, NEW k \in Nat, Agreed(k), NEW w \in Sessions, Deadline(w)
    PROVE  Order'
<1> DEFINE u == workers[w]
           a == [u EXCEPT !.link = "STOPPING"]
           b == [a EXCEPT !.own = FALSE]
           q == [b EXCEPT !.wire = <<>>]
<1>1. /\ Calmed(u, u) /\ Speaks /\ Shift(w) /\ app'.session = app.session
      /\ u.phase = "live"
  BY CalmedSelf, EmitSpeaks, Shifting, SessionKept DEF Deadline
<1>2. workers' = [workers EXCEPT ![w] = q]
  BY Zenon DEF Deadline
<1> HIDE DEF u
<1>3. Calmed(u, a) /\ a.phase = "live"
  BY <1>1, CalmedField
<1> HIDE DEF a
<1>4. Calmed(u, b) /\ b.phase = "live"
  BY <1>3, CalmedField
<1> HIDE DEF b
<1>5. Calmed(u, q) /\ q.phase = "live"
  BY <1>4, CalmedField
<1> HIDE DEF q
<1> QED BY <1>1, <1>2, <1>5, CalmedOrder DEF u, Early

LEMMA StopOrder ==
    ASSUME IInv, Plain, NEW k \in Nat, Agreed(k), NEW w \in Sessions, Stop(w)
    PROVE  Order'
<1> DEFINE u == workers[w]
           p == [u EXCEPT !.phase = "closing"]
           r == [p EXCEPT !.own = FALSE]
           l == [r EXCEPT !.link = "STOPPING"]
           q == [l EXCEPT !.wire = <<>>]
<1>1. Calmed(u, u) /\ Speaks
  BY CalmedSelf, EmitSpeaks DEF Stop
<1>2. \/ workers' = [workers EXCEPT ![w] = r] /\ app' = app
      \/ workers' = [workers EXCEPT ![w] = r] /\ app' = Closed(app)
      \/ workers' = [workers EXCEPT ![w] = q] /\ app' = Stopping(app)
  <2>1. [u EXCEPT !.phase = "closing", !.own = FALSE] = r
    BY Zenon
  <2>2. [r EXCEPT !.link = "STOPPING", !.wire = <<>>] = q
    BY Zenon
  <2> HIDE DEF r, q
  <2> QED BY <2>1, <2>2, Zenon DEF Stop
<1>3. Shift(w) /\ app'.session \in {app.session, None}
  BY <1>2, Shifting, SessionKept
<1> HIDE DEF u
<1>4. Calmed(u, p) /\ p.phase = "closing"
  BY <1>1, CalmedPhase
<1> HIDE DEF p
<1>5. Calmed(u, r) /\ r.phase = "closing"
  BY <1>4, CalmedField
<1> HIDE DEF r
<1>6. Calmed(u, l) /\ l.phase = "closing"
  BY <1>5, CalmedField
<1> HIDE DEF l
<1>7. Calmed(u, q) /\ q.phase = "closing"
  BY <1>6, CalmedField
<1> HIDE DEF q
<1>8. PICK x : workers' = [workers EXCEPT ![w] = x] /\ Calmed(u, x) /\ x.phase = "closing"
  BY <1>2, <1>5, <1>7
<1> QED BY <1>1, <1>3, <1>8, CalmedOrder DEF u, Early

LEMMA ReleaseOrder ==
    ASSUME IInv, Plain, NEW k \in Nat, Agreed(k), NEW w \in Sessions, Release(w)
    PROVE  Order'
<1> DEFINE u == workers[w]
           d == Doomed(u)
           l == [d EXCEPT !.link = "IDLE"]
           q == [l EXCEPT !.own = FALSE]
<1>1. /\ Calmed(u, u) /\ Speaks /\ Shift(w) /\ app'.session = None
      /\ u.phase # "new"
  BY CalmedSelf, EmitSpeaks, Shifting, SessionKept, NotNew DEF Release
<1>2. workers' = [workers EXCEPT ![w] = q]
  BY Zenon DEF Release, Released
<1> HIDE DEF u
<1>3. Calmed(u, d) /\ d.phase = u.phase
  BY <1>1, CalmedField
<1> HIDE DEF d
<1>4. Calmed(u, l) /\ l.phase = u.phase
  BY <1>3, CalmedField
<1> HIDE DEF l
<1>5. Calmed(u, q) /\ q.phase = u.phase
  BY <1>4, CalmedField
<1> HIDE DEF q
<1> QED BY <1>1, <1>2, <1>5, CalmedOrder DEF u

LEMMA LeaveOrder ==
    ASSUME IInv, Plain, NEW k \in Nat, Agreed(k), NEW w \in Sessions, Leave(w)
    PROVE  Order'
<1> DEFINE u == workers[w]
           x == u.crossed
           p == [Fresh EXCEPT !.phase = "done"]
           q == [p EXCEPT !.crossed = x]
<1>1. u \in Worker /\ Speaks /\ Shift(w) /\ app'.session = app.session
  BY CalmedSelf, EmitSpeaks, Shifting, SessionKept DEF Leave
<1>2. workers' = [workers EXCEPT ![w] = q]
  BY Zenon DEF Leave
<1>3. x \in BOOLEAN
  BY <1>1, WorkerIs
<1>4. Fresh \in Worker
  BY WorkerIs DEF Fresh, Phases, Silent
<1>5. q \in Worker
  <2>1. p \in Worker
    BY <1>4, WorkerIs DEF Phases
  <2> HIDE DEF p, x
  <2> QED BY <1>3, <2>1, WorkerIs
<1>6. /\ q.phase = "done" /\ q.crossed = u.crossed /\ q.turn = 0 /\ ~q.complete
      /\ q.wire = <<>> /\ q.server.turn = 0 /\ q.server.stage = "quiet" /\ q.calls = <<>>
  <2> HIDE DEF u
  <2> QED BY DEF Fresh, Silent, x
<1> HIDE DEF q
<1>7. Calmed(u, q)
  BY <1>5, <1>6 DEF Calmed, Calms
<1> QED BY <1>1, <1>2, <1>6, <1>7, CalmedOrder DEF Early

LEMMA LoseOrder ==
    ASSUME IInv, Plain, NEW k \in Nat, Agreed(k), NEW w \in Sessions, Lose(w)
    PROVE  Order'
<1> DEFINE u == workers[w]
           v == [stage |-> u.server.stage, turn |-> u.server.turn, lost |-> TRUE]
           q == [u EXCEPT !.server = v]
<1>1. u \in Worker /\ u.server \in Servers /\ u.phase # "new"
  BY CalmedSelf, WorkerIs, NotNew DEF Lose
<1>2. /\ workers' = [workers EXCEPT ![w].server.lost = TRUE] /\ app' = app /\ Speaks
      /\ Shift(w)
  BY EmitSpeaks, Shifting DEF Lose
<1>3. [u.server EXCEPT !.lost = TRUE] = v
  BY <1>1, ServerIs
<1>4. workers' = [workers EXCEPT ![w] = [u EXCEPT !.server = [u.server EXCEPT !.lost = TRUE]]]
  BY <1>2, Zenon
<1>5. workers' = [workers EXCEPT ![w] = q]
  BY <1>3, <1>4
<1> HIDE DEF u
<1>6. v \in Servers
  BY <1>1 DEF Servers
<1>7. Calms(u, q)
  BY <1>1, CalmServer
<1> HIDE DEF v
<1>8. q \in Worker /\ q.phase = u.phase
  BY <1>1, <1>6, WorkerIs
<1> HIDE DEF q
<1> QED BY <1>1, <1>2, <1>5, <1>7, <1>8, CalmedOrder DEF u, Calmed

LEMMA ReconnectOrder ==
    ASSUME IInv, Plain, NEW k \in Nat, Agreed(k), NEW w \in Sessions, Reconnect(w)
    PROVE  Order'
<1>1. workers[w].phase = "live"
  BY DEF Reconnect
<1>2. CASE Fail(w)
  BY <1>1, <1>2, FailOrder
<1>3. CASE /\ workers' = [workers EXCEPT ![w].link = "STARTING"]
           /\ UNCHANGED <<app, signals>>
  <2> DEFINE u == workers[w]
             q == [u EXCEPT !.link = "STARTING"]
  <2>1. Calmed(u, u) /\ u.phase = "live" /\ Speaks /\ Shift(w) /\ app' = app
    BY <1>1, <1>3, CalmedSelf, EmitSpeaks, Shifting
  <2>2. workers' = [workers EXCEPT ![w] = q]
    BY <1>3, Zenon
  <2> HIDE DEF u
  <2>3. Calmed(u, q) /\ q.phase = "live"
    BY <2>1, CalmedField
  <2> HIDE DEF q
  <2> QED BY <2>1, <2>2, <2>3, CalmedOrder DEF u, Early
<1> QED BY <1>2, <1>3 DEF Reconnect

LEMMA RetryOrder ==
    ASSUME IInv, Plain, NEW k \in Nat, Agreed(k), NEW w \in Sessions, Retry(w)
    PROVE  Order'
<1> DEFINE u == workers[w]
           n == u.tries + 1
           a == [u EXCEPT !.tries = n]
<1>1. u \in Worker /\ u.server \in Servers /\ u.phase = "live"
  BY CalmedSelf, WorkerIs DEF Retry
<1>2. CASE Fail(w)
  BY <1>1, <1>2, FailOrder
<1>3. CASE MayRetry(u) /\ ~Fail(w)
  <2>1. Speaks
    BY <1>3, EmitSpeaks DEF Retry
  <2>2. n \in Tries
    BY <1>1, <1>3, WorkerIs, BoundsAssumption DEF MayRetry, Tries
  <2>3. Calmed(u, a) /\ a.phase = "live" /\ a.server = u.server
    <3> HIDE DEF n, u
    <3>1. a \in Worker
      BY <1>1, <2>2, WorkerIs
    <3>3. Calms(u, a)
      BY <1>1, <2>2, CalmField
    <3> QED BY <3>1, <1>1, <3>3, WorkerIs DEF Calmed
  <2>4. \/ /\ workers' = [workers EXCEPT ![w].tries = @ + 1]
           /\ app' = app
        \/ \E stage \in Resumed(u.server) :
              /\ workers' = [workers EXCEPT ![w].tries = @ + 1, ![w].link = "ACTIVE",
                                            ![w].own = TRUE, ![w].server.stage = stage,
                                            ![w].server.lost = FALSE]
              /\ app' = Activated(app)
    BY <1>3, Zenon DEF Retry
  <2>5. CASE workers' = [workers EXCEPT ![w].tries = @ + 1] /\ app' = app
    <3>1. workers' = [workers EXCEPT ![w] = a]
      BY <2>5, Zenon
    <3> HIDE DEF a
    <3> QED BY <2>1, <2>3, <2>5, <3>1, CalmedOrder, Shifting DEF Early
  <2>6. CASE \E stage \in Resumed(u.server) :
              /\ workers' = [workers EXCEPT ![w].tries = @ + 1, ![w].link = "ACTIVE",
                                            ![w].own = TRUE, ![w].server.stage = stage,
                                            ![w].server.lost = FALSE]
              /\ app' = Activated(app)
    <3>1. PICK stage \in Resumed(u.server) :
              /\ workers' = [workers EXCEPT ![w].tries = @ + 1, ![w].link = "ACTIVE",
                                            ![w].own = TRUE, ![w].server.stage = stage,
                                            ![w].server.lost = FALSE]
              /\ app' = Activated(app)
      BY <2>6
    <3> DEFINE b == [a EXCEPT !.link = "ACTIVE"]
               c == [b EXCEPT !.own = TRUE]
               v == [stage |-> stage, turn |-> u.server.turn, lost |-> FALSE]
               q == [c EXCEPT !.server = v]
    <3>2. workers' = [workers EXCEPT ![w] =
             [c EXCEPT !.server = [u.server EXCEPT !.stage = stage, !.lost = FALSE]]]
      BY ZenonT(40), <3>1
    <3>3. stage \in {"quiet", "owing"} /\ stage \in {u.server.stage, "quiet"}
      BY DEF Resumed
    <3> HIDE DEF u, a
    <3>4. Calmed(u, b) /\ b.phase = "live" /\ b.server = u.server
      <4>1. b.server = u.server
        BY <2>3, WorkerIs DEF Calmed
      <4> QED BY <2>3, <4>1, CalmedField
    <3> HIDE DEF b
    <3>5. Calmed(u, c) /\ c.phase = "live" /\ c.server = u.server
      <4>1. c.server = u.server
        BY <3>4, WorkerIs DEF Calmed
      <4> QED BY <3>4, <4>1, CalmedField
    <3> HIDE DEF c
    <3>7. workers' = [workers EXCEPT ![w] = q]
      BY <3>2, <1>1, ServerIs
    <3>8. Calmed(u, q) /\ q.phase = "live"
      <4>1. c \in Worker /\ Calms(u, c)
        BY <3>5 DEF Calmed
      <4>2. v = [stage |-> stage, turn |-> c.server.turn, lost |-> FALSE]
        BY <3>5
      <4>3. Calms(c, q)
        <5> HIDE DEF v
        <5> QED BY <4>2, <3>3, <3>5, <4>1, CalmServer
      <4>4. v \in Servers
        BY <1>1, <3>3 DEF Servers
      <4>5. q \in Worker /\ q.phase = "live"
        <5> HIDE DEF v
        <5> QED BY <3>5, <4>1, <4>4, WorkerIs
      <4> HIDE DEF v, q
      <4> QED BY <4>1, <4>3, <4>5, CalmsTwice DEF Calmed
    <3> HIDE DEF q
    <3>9. Shift(w) /\ app'.session = app.session
      BY <3>1, Shifting, SessionKept
    <3> QED BY <2>1, <3>7, <3>8, <3>9, CalmedOrder DEF u, Early
  <2> QED BY <2>4, <2>5, <2>6
<1>4. MayRetry(u) \/ Fail(w)
  BY DEF Retry
<1> QED BY <1>2, <1>3, <1>4

\* A session that is new: the conversation's own has said and heard nothing yet.
LEMMA ReserveOrder ==
    ASSUME IInv, Plain, NEW k \in Nat, Agreed(k), NEW w \in Sessions, Reserve(w)
    PROVE  Order'
<1> DEFINE u == workers[w]
           p == [u EXCEPT !.phase = "connecting"]
           q == [p EXCEPT !.link = "STARTING"]
           d == Doomed(u)
           f == [d EXCEPT !.phase = "failed"]
<1>1. Calmed(u, u) /\ u \in Worker /\ u.phase = "checked"
  BY CalmedSelf DEF Reserve
<1>2. CASE app.life \notin {"IDLE", "STARTING"}
  <2>1. /\ app' = Closed(app) /\ workers' = [workers EXCEPT ![w] = f]
        /\ signals' = EmitFailure(w)
    BY <1>2, Zenon DEF Reserve
  <2>2. Shift(w) /\ app'.session = None /\ Speaks
    BY <2>1, EmitSpeaks, Shifting, SessionKept
  <2> HIDE DEF u
  <2>3. Calmed(u, d)
    BY <1>1, CalmedField
  <2> HIDE DEF d
  <2>4. Calmed(u, f) /\ f.phase = "failed"
    BY <2>3, CalmedPhase
  <2> HIDE DEF f
  <2> QED BY <2>1, <2>2, <2>4, CalmedOrder DEF u, Early
<1>3. CASE app.life \in {"IDLE", "STARTING"}
  <2>1. /\ app' = [app EXCEPT !.life = "STARTING", !.session = w, !.held = 0, !.next = 1]
        /\ workers' = [workers EXCEPT ![w].phase = "connecting", ![w].link = "STARTING"]
        /\ signals' = signals
    BY <1>3, Zenon DEF Reserve
  <2>2. workers' = [workers EXCEPT ![w] = q]
    BY <2>1, Workers DEF IInv, TypeOK
  <2>3. /\ Kin(app, app') /\ app'.life = "STARTING" /\ app'.session = w /\ app'.held = 0
        /\ app'.next = 1
    <3>1. w \in Sessions \cup {None} /\ app \in App
      BY AppIsGood
    <3> QED BY ZenonT(40), <2>1, <3>1, LedgerAnew
  <2>4. Shift(w) /\ Speaks
    BY <1>1, <2>1, <2>3, EmitSpeaks, TurnNames DEF Shift, Lives, Early
  <2> HIDE DEF u
  <2>5. Calmed(u, p) /\ p.phase = "connecting"
    BY <1>1, CalmedPhase
  <2> HIDE DEF p
  <2>6. Calmed(u, q) /\ q.phase = "connecting"
    BY <2>5, CalmedField
  <2> HIDE DEF q
  <2>7. CASE w # app.thread
    BY <2>2, <2>4, <2>6, <2>7, CalmedOrder DEF u, Early
  <2>8. CASE w = app.thread
    <3>1. /\ workers \in [Sessions -> Worker] /\ w # None /\ Orderly(app, k) /\ app.sent = <<>>
          /\ app'.sent = <<>> /\ app'.thread = w
      BY <2>3, <2>8, TurnNames DEF Agreed, IInv, TypeOK, Kin
    <3>2. workers'[w] = q /\ \A v \in Sessions : v # w => workers'[v] = workers[v]
      BY <2>2, <3>1
    <3>3. app.turn = None /\ app.bridge = None /\ Pending(app) = <<>> /\ u.turn = 0
      BY <1>1, <2>8, <3>1 DEF Orderly, Awake, Early, Plain, u
    <3>4. u.calls = <<>>
      <4>1. u.calls \in Seq(Calls) /\ u.calls \o <<>> = <<>>
        BY <1>1, <2>8, <3>1, <3>3, WorkerTyped DEF Pending, u
      <4> DEFINE C == u.calls
      <4>2. C = <<>>
        <5> HIDE DEF C
        <5> QED BY <4>1 DEF C
      <4> QED BY <4>2
    <3>5. q.calls = <<>> /\ q.crossed = u.crossed
      BY <2>6, <3>4 DEF Calmed, Calms
    <3>6. ~u.crossed => Fit(u, k)
      BY <2>8, <3>1 DEF Agreed, u
    <3>7. ~q.crossed => Fit(q, 0)
      BY <2>6, <3>3, <3>5, <3>6, EmptyFits DEF Calmed, Calms, Fit, Paced
    <3>8. Pending(app)' = <<>>
      BY <3>1, <3>2, <3>5 DEF Pending
    <3>9. app'.turn = None /\ app'.bridge = None
      BY <2>3, <3>3 DEF Kin
    <3>10. Fore(app)' \in Nat
      <4> DEFINE y == <<app'.session, app'.next>>
      <4>1. y[2] \in Nat
        BY <2>3
      <4>2. Place(w, y, 0) \in 0..Last
        <5> HIDE DEF y
        <5> QED BY <4>1, PlaceIs
      <4>3. Fore(app)' = Place(w, y, 0)
        BY <3>1 DEF Fore
      <4> HIDE DEF y
      <4> QED BY <4>2, <4>3 DEF Last
    <3>11. Orderly(app, 0)'
      BY <2>3, <2>8, <3>1, <3>2, <3>5, <3>10, <3>8, <3>9 DEF Kin, Crossed, u, Orderly,
         Sounding, Lined, Comes, Ahead
    <3>12. Agreed(0)'
      BY <3>1, <3>2, <3>7, <3>11 DEF Agreed
    <3>13. Plain'
      BY <2>6, <3>2, <2>1, <2>8, <3>1, <3>5 DEF Early, Plain, u
    <3> QED BY <3>12, <3>13 DEF Order
  <2> QED BY <2>7, <2>8
<1> QED BY <1>2, <1>3

-----------------------------------------------------------------------------
(* A worker that is called, and the provider *)

\* The wire after the user is heard: what an interrupted answer still says is no audio.
Grows(r, q, n) ==
    /\ q.server.stage = "hearing" /\ q.server.turn = n
    /\ Len(r.wire) \in Nat /\ Len(q.wire) \in Nat
    /\ \A i \in 1..Len(q.wire) :
          \/ i \in 1..Len(r.wire) /\ q.wire[i] = r.wire[i]
          \/ i > Len(r.wire) /\ q.wire[i].turn = r.server.turn /\ q.wire[i].kind # "audio"
    /\ r.server.stage # "owing" => q.wire = r.wire

LEMMA HearingGrows ==
    ASSUME NEW r \in Worker, NEW n \in Numbers, NEW q \in Hearing(r, n)
    PROVE  /\ Grows(r, q, n) /\ q.turn = r.turn /\ q.complete = r.complete
           /\ q.quarantine = r.quarantine /\ q.calls = r.calls /\ q.crossed = r.crossed
<1> DEFINE v == [stage |-> "hearing", turn |-> n, lost |-> r.server.lost]
           a == [r EXCEPT !.server = v]
<1>1. r.server \in Servers /\ v \in Servers /\ r.wire \in Seq(Events)
  BY WorkerIs DEF Wires, Servers
<1>2. v.stage = "hearing" /\ v.turn = n
  OBVIOUS
<1> HIDE DEF v
<1>3. /\ a \in Worker /\ a.wire = r.wire /\ a.server = v /\ a.turn = r.turn
      /\ a.complete = r.complete /\ a.quarantine = r.quarantine /\ a.calls = r.calls
      /\ a.crossed = r.crossed
  BY <1>1, WorkerIs
<1>4. CASE r.server.stage = "hearing"
  <2>1. q = [r EXCEPT !.server = [r.server EXCEPT !.turn = n]]
    BY <1>4, Zenon DEF Hearing
  <2>2. [r.server EXCEPT !.turn = n] = v
    <3>1. [r.server EXCEPT !.turn = n]
             = [stage |-> r.server.stage, turn |-> n, lost |-> r.server.lost]
      BY <1>1, ServerIs
    <3> QED BY <1>4, <3>1 DEF v
  <2>3. q = a
    BY <2>1, <2>2
  <2> HIDE DEF a
  <2> QED BY <1>1, <1>2, <1>3, <2>3 DEF Grows
<1>5. CASE r.server.stage # "hearing"
  <2> DEFINE i == [kind |-> "interrupted", turn |-> r.server.turn]
             c == [kind |-> "completed", turn |-> r.server.turn]
  <2>1. PICK x \in IF r.server.stage = "quiet" THEN {<<>>} ELSE {<<i>>, <<i, c>>} :
          q = [r EXCEPT !.server.stage = "hearing", !.server.turn = n, !.wire = @ \o x]
    BY <1>5, Zenon DEF Hearing
  <2> DEFINE y == r.wire \o x
             b == [a EXCEPT !.wire = y]
  <2>2. /\ i \in Events /\ c \in Events /\ i.turn = r.server.turn /\ c.turn = r.server.turn
        /\ i.kind # "audio" /\ c.kind # "audio"
    BY <1>1 DEF Events, Servers
  <2>3. [r.server EXCEPT !.stage = "hearing", !.turn = n] = v
    BY <1>1, ServerIs DEF v
  <2>4. q = b
    <3>1. q = [r EXCEPT !.server = [r.server EXCEPT !.stage = "hearing", !.turn = n],
                        !.wire = y]
      BY <2>1, Zenon
    <3>2. q = [r EXCEPT !.server = v, !.wire = y]
      BY <2>3, <3>1
    <3> HIDE DEF y
    <3> QED BY <3>2, Zenon
  <2>5. /\ x \in Seq(Events)
        /\ \A j \in 1..Len(x) : x[j].turn = r.server.turn /\ x[j].kind # "audio"
        /\ r.server.stage # "owing" => x = <<>>
    <3>1. r.server.stage \in {"quiet", "hearing", "owing"}
      BY <1>1 DEF Servers
    <3> HIDE DEF i, c
    <3>2. CASE r.server.stage = "quiet"
      BY <2>1, <3>2
    <3>3. CASE r.server.stage # "quiet"
      <4>1. CASE x = <<i>>
        BY <1>5, <2>2, <3>1, <3>3, <4>1
      <4>2. CASE x = <<i, c>>
        BY <1>5, <2>2, <3>1, <3>3, <4>2
      <4> QED BY <2>1, <3>3, <4>1, <4>2
    <3> QED BY <3>2, <3>3
  <2> DEFINE W == r.wire
  <2>6. /\ y \in Seq(Events) /\ Len(W) \in Nat /\ Len(y) \in Nat
        /\ \A j \in 1..Len(y) : \/ j \in 1..Len(W) /\ y[j] = W[j]
                                \/ j > Len(W) /\ y[j].turn = r.server.turn /\ y[j].kind # "audio"
        /\ r.server.stage # "owing" => y = W
    <3>1. y = W \o x /\ W \in Seq(Events)
      BY <1>1
    <3> HIDE DEF y, W
    <3>4. r.server.stage # "owing" => y = W
      BY <2>5, <3>1
    <3> QED BY <2>5, <3>1, <3>4
  <2> HIDE DEF a, y
  <2>7. b \in Worker
    BY <1>3, <2>6, WorkerIs DEF Wires
  <2>8. /\ b.wire = y /\ b.server = v /\ b.turn = r.turn /\ b.complete = r.complete
        /\ b.quarantine = r.quarantine /\ b.calls = r.calls /\ b.crossed = r.crossed
    BY <1>3, <2>7, WorkerIs
  <2> HIDE DEF b
  <2> QED BY <1>2, <2>4, <2>6, <2>8 DEF Grows
<1> QED BY <1>4, <1>5

LEMMA GrowsPaced ==
    ASSUME NEW r \in Worker, NEW q, NEW n, Paced(r), Grows(r, q, n)
    PROVE  /\ \A i \in 1..Len(q.wire) : q.wire[i].turn \in Nat /\ q.wire[i].turn <= r.turn
           /\ \A i, j \in 1..Len(q.wire) : i < j => q.wire[i].turn <= q.wire[j].turn
<1>1. /\ r.turn \in Nat /\ r.server.turn = r.turn
      /\ \A i \in 1..Len(r.wire) : r.wire[i].turn \in Nat
  BY WorkerTyped DEF Paced
<1>2. ASSUME NEW i \in 1..Len(q.wire)
      PROVE  /\ q.wire[i].turn \in Nat /\ q.wire[i].turn <= r.turn
             /\ \/ i \in 1..Len(r.wire) /\ q.wire[i].turn = r.wire[i].turn
                \/ i > Len(r.wire) /\ q.wire[i].turn = r.turn
  BY <1>1 DEF Paced, Grows
<1>3. ASSUME NEW i \in 1..Len(q.wire), NEW j \in 1..Len(q.wire), i < j
      PROVE  q.wire[i].turn <= q.wire[j].turn
  BY <1>3, <1>2, <1>1 DEF Grows, Paced
<1> QED BY <1>2, <1>3

\* The three ways in which the user is heard.
LEMMA NewTurnFits ==
    ASSUME NEW r \in Worker, NEW q, NEW n \in Numbers \ {0}, Fit(r, 3 * n), 3 * n < Last,
           r.turn = 0 \/ r.complete, Grows(r, q, n), q.turn = n, q.complete = FALSE,
           q.quarantine = r.quarantine
    PROVE  Fit(q, 3 * n)
<1>1. n \in Nat /\ n # 0 /\ r.turn \in Nat
  BY WorkerTyped DEF Numbers
<1>2. r.turn < n
  BY <1>1 DEF Fit, OnlyHeard
<1>3. Paced(r) /\ Once(r)
  BY DEF Fit
<1>4. \A i \in 1..Len(r.wire) : r.wire[i].turn \in Nat
  BY WorkerTyped
<1>5. r.turn = 0 => Len(q.wire) = 0
  BY <1>3 DEF Paced, Grows
<1>6. /\ \A i \in 1..Len(q.wire) : q.wire[i].turn \in Nat /\ q.wire[i].turn <= r.turn
      /\ \A i, j \in 1..Len(q.wire) : i < j => q.wire[i].turn <= q.wire[j].turn
  BY <1>3, GrowsPaced
<1>7. Paced(q)
  BY <1>1, <1>2, <1>6 DEF Grows, Paced
<1>8. OnlyHeard(q)
  BY <1>1, <1>2, <1>6 DEF OnlyHeard, Grows
<1>9. \A i \in 1..Len(q.wire) : q.wire[i].kind = "audio" =>
         i \in 1..Len(r.wire) /\ q.wire[i] = r.wire[i] /\ Guarded(r, i)
  BY <1>3, <1>5 DEF Grows, Once
<1>10. \A i \in 1..Len(q.wire) : q.wire[i].kind = "audio" => Guarded(q, i)
  <2> SUFFICES ASSUME NEW i \in 1..Len(q.wire), q.wire[i].kind = "audio"
               PROVE  Guarded(q, i)
    OBVIOUS
  <2>1. i \in 1..Len(r.wire) /\ Guarded(r, i)
    BY <1>9
  <2> QED BY <2>1 DEF Guarded, Grows
<1>11. Once(q)
  BY <1>9, <1>3 DEF Grows, Once
<1> QED BY <1>1, <1>7, <1>8, <1>10, <1>11 DEF Fit

LEMMA SameTurnFits ==
    ASSUME NEW r \in Worker, NEW q, NEW n \in Numbers \ {0}, Fit(r, 3 * n), r.turn = n,
           Grows(r, q, n), q.turn = n, q.complete = r.complete, q.quarantine = r.quarantine
    PROVE  Fit(q, 3 * n)
BY DEF Numbers, Fit, Grows, OnlyHeard, Paced, Once, Guarded

LEMMA InterruptFits ==
    ASSUME NEW r \in Worker, NEW q, NEW l \in Nat, Fit(r, l), r.turn # 0,
           l \in {3 * r.turn + 2, Last}, Grows(r, q, r.turn), q.turn = r.turn,
           q.complete = TRUE, q.quarantine = r.turn, 3 * r.turn < Last
    PROVE  Fit(q, l)
<1>1. r.turn \in Nat /\ \A i \in 1..Len(r.wire) : r.wire[i].turn \in Nat
  BY WorkerTyped
<1>2. Paced(r)
  BY DEF Fit
<1>3. \A i \in 1..Len(q.wire) : q.wire[i].turn \in Nat /\ q.wire[i].turn <= r.turn
  BY <1>2, GrowsPaced
<1>4. \A i, j \in 1..Len(q.wire) : i < j => q.wire[i].turn <= q.wire[j].turn
  BY <1>2, GrowsPaced
<1>5. Paced(q)
  BY <1>3, <1>4 DEF Grows, Paced
<1>6. \A i \in 1..Len(q.wire) : q.wire[i].kind = "audio" =>
         i \in 1..Len(r.wire) /\ q.wire[i] = r.wire[i]
  BY DEF Grows
<1>7. ASSUME NEW i \in 1..Len(q.wire), q.wire[i].kind = "audio",
             q.wire[i].turn # r.turn \/ Once(r)
      PROVE  Guarded(q, i)
  <2> SUFFICES ASSUME NEW j \in 1..(i - 1), q.wire[j].kind = "interrupted",
                      q.wire[j].turn = r.turn
               PROVE  FALSE
    BY DEF Guarded
  <2>1. i \in 1..Len(r.wire) /\ q.wire[i] = r.wire[i]
    BY <1>6, <1>7
  <2>2. j \in 1..Len(q.wire) /\ j \in 1..Len(r.wire) /\ j < i
    BY <2>1 DEF Grows
  <2>3. q.wire[j] = r.wire[j]
    BY <2>2 DEF Grows
  <2>4. q.wire[i].turn = r.turn
    BY <1>1, <1>3, <1>4, <2>2
  <2> QED BY <1>7, <2>1, <2>2, <2>3, <2>4 DEF Once, Closes
<1>8. Once(r) => Once(q)
  <2> SUFFICES ASSUME Once(r) PROVE Once(q)
    OBVIOUS
  <2>1. \A i, j \in 1..Len(q.wire) :
           i < j /\ q.wire[i].turn = q.wire[j].turn /\ Closes(q.wire[i]) =>
              q.wire[j].kind # "audio"
    <3> SUFFICES ASSUME NEW i \in 1..Len(q.wire), NEW j \in 1..Len(q.wire), i < j,
                        q.wire[i].turn = q.wire[j].turn, Closes(q.wire[i]),
                        q.wire[j].kind = "audio"
                 PROVE  FALSE
      OBVIOUS
    <3>1. j \in 1..Len(r.wire) /\ q.wire[j] = r.wire[j]
      BY <1>6
    <3>2. i \in 1..Len(r.wire)
      BY <3>1
    <3>3. q.wire[i] = r.wire[i]
      BY <3>2 DEF Grows
    <3> QED BY <3>1, <3>2, <3>3 DEF Once
  <2> QED BY <1>7, <2>1 DEF Once, Grows
<1>9. l # 3 * r.turn /\ l # 3 * r.turn + 1
  BY <1>1, TurnNames DEF Last
<1> QED BY <1>5, <1>7, <1>8, <1>9 DEF Fit

\* A call that is served in its place leaves a worker fit for the calls that follow.
LEMMA CallFits ==
    ASSUME NEW w \in Sessions, NEW r \in Worker, NEW c \in Calls, Heeds(r),
           NEW q \in Called(w, r, c)
    PROVE  /\ Fit(r, Rank(w, c)) => Fit(q, Rank(w, c))
           /\ q.calls = r.calls /\ q.crossed = r.crossed
<1> DEFINE n == c.turn[2]
           l == Rank(w, c)
<1>1. /\ c.turn \in Turns /\ n \in Numbers \ {0} /\ n \in Numbers /\ n \in Nat /\ n <= MaxTurns
      /\ c.op \in {"frame", "end", "interrupt"} /\ MaxTurns \in Nat /\ n # 0
  BY TurnNames, BoundsAssumption DEF Calls, Numbers
<1>2. /\ l \in Nat /\ 3 * n < Last
      /\ c.op = "frame" => l = IF c.turn[1] = w THEN 3 * n ELSE Last
      /\ c.op = "end" => l \in {3 * n + 1, Last}
      /\ c.op = "interrupt" => l \in {3 * n + 2, Last}
  <2>1. l \in 0..Last
    BY RankIs
  <2>2. 3 * n < Last
    BY <1>1 DEF Last
  <2>3. /\ c.op = "frame" => l = Place(w, c.turn, 0)
        /\ c.op = "end" => l = Place(w, c.turn, 1)
        /\ c.op = "interrupt" => l = Place(w, c.turn, 2)
    BY RankIs
  <2>4. Place(w, c.turn, 0) = IF c.turn[1] = w THEN 3 * n + 0 ELSE Last
    BY <1>1 DEF Place
  <2>5. Place(w, c.turn, 1) \in {3 * n + 1, Last} /\ Place(w, c.turn, 2) \in {3 * n + 2, Last}
    BY <1>1 DEF Place
  <2> HIDE DEF l, n
  <2> QED BY <1>1, <2>1, <2>2, <2>3, <2>4, <2>5 DEF Last
<1>3. \/ c.op = "frame" /\ q \in AcceptAudio(w, r, c.turn)
      \/ c.op = "end" /\ q \in EndTurn(r, n)
      \/ c.op = "interrupt" /\ q \in Interrupt(r, n)
  BY <1>1 DEF Called
<1>4. r.turn \in Nat /\ r.server.turn \in Numbers /\ (Fit(r, l) => Paced(r))
  BY WorkerIs, WorkerTyped DEF Fit, Servers
<1>5. CASE c.op = "frame" /\ q \in AcceptAudio(w, r, c.turn)
  <2> DEFINE a == [r EXCEPT !.turn = n]
             b == [a EXCEPT !.complete = FALSE]
  <2>1. \/ q = r
        \/ c.turn[1] = w /\ (r.turn = 0 \/ r.complete) /\ q \in Hearing(b, n)
        \/ c.turn[1] = w /\ n = r.turn /\ q \in Hearing(r, n)
    <3>1. [r EXCEPT !.turn = n, !.complete = FALSE] = b
      BY Zenon
    <3> HIDE DEF b
    <3> QED BY <1>5, <3>1, Zenon DEF AcceptAudio
  <2> HIDE DEF l, n
  <2>2. CASE c.turn[1] = w /\ (r.turn = 0 \/ r.complete) /\ q \in Hearing(b, n)
    <3>1. a \in Worker
      BY <1>1, WorkerIs
    <3>2. /\ a.wire = r.wire /\ a.server = r.server /\ a.turn = n /\ a.quarantine = r.quarantine
          /\ a.calls = r.calls /\ a.crossed = r.crossed
      BY <3>1, WorkerIs
    <3> HIDE DEF a
    <3>3. b \in Worker
      BY <3>1, WorkerIs
    <3>4. /\ b.wire = r.wire /\ b.server = r.server /\ b.turn = n /\ b.quarantine = r.quarantine
          /\ b.calls = r.calls /\ b.crossed = r.crossed /\ b.complete = FALSE
      BY <3>1, <3>2, <3>3, WorkerIs
    <3> HIDE DEF b
    <3>5. /\ Grows(b, q, n) /\ q.turn = n /\ q.complete = FALSE /\ q.quarantine = r.quarantine
          /\ q.calls = r.calls /\ q.crossed = r.crossed
      BY <1>1, <2>2, <3>3, <3>4, HearingGrows
    <3>6. Grows(r, q, n)
      BY <3>4, <3>5 DEF Grows
    <3>7. l = 3 * n
      BY <1>2, <1>5, <2>2
    <3>8. Fit(r, 3 * n) => Fit(q, 3 * n)
      BY <1>1, <1>2, <2>2, <3>5, <3>6, NewTurnFits
    <3> QED BY <3>5, <3>7, <3>8 DEF l
  <2>3. CASE c.turn[1] = w /\ n = r.turn /\ q \in Hearing(r, n)
    BY <1>1, <2>3, HearingGrows, <1>2, <1>5, SameTurnFits DEF l
  <2> QED BY <1>4, <2>1, <2>2, <2>3 DEF l
<1>6. CASE c.op = "end" /\ q \in EndTurn(r, n)
  <2> DEFINE v == [stage |-> "owing", turn |-> r.server.turn, lost |-> r.server.lost]
  <2>1. \/ q = r
        \/ /\ q = [r EXCEPT !.server = [r.server EXCEPT !.stage = "owing"]]
           /\ n = r.turn /\ r.server.stage = "hearing"
    BY <1>6, Zenon DEF EndTurn
  <2> HIDE DEF l, n
  <2>2. CASE /\ q = [r EXCEPT !.server = [r.server EXCEPT !.stage = "owing"]]
             /\ n = r.turn /\ r.server.stage = "hearing"
    <3>1. r.server \in Servers
      BY WorkerIs
    <3>2. [r.server EXCEPT !.stage = "owing"] = v /\ v \in Servers
      BY <3>1, ServerIs DEF Servers
    <3>3. v.stage = "owing" /\ v.turn = r.server.turn
      OBVIOUS
    <3> HIDE DEF v
    <3>4. q = [r EXCEPT !.server = v]
      BY <2>2, <3>2
    <3>5. /\ q.wire = r.wire /\ q.server = v /\ q.turn = r.turn /\ q.complete = r.complete
          /\ q.quarantine = r.quarantine /\ q.calls = r.calls /\ q.crossed = r.crossed
      BY <3>4, WorkerIs
    <3>6. l # 3 * r.turn /\ Last # 3 * r.turn + 1
      BY <1>1, <1>2, <1>6, <2>2 DEF Last
    <3>7. ASSUME Fit(r, l) PROVE Fit(q, l)
      <4>1. Paced(q)
        BY <1>1, <1>4, <2>2, <3>3, <3>5, <3>7 DEF Paced
      <4>3. l < Last => Once(q)
        BY <1>4, <3>5, <3>7, <1>2, <1>6, <2>2 DEF Fit, Once, Over, Guarded
      <4> QED BY <3>5, <3>6, <4>1, <4>3, <3>7, <3>3 DEF Fit, Guarded
    <3> QED BY <3>5, <3>7 DEF l
  <2> QED BY <1>4, <2>1, <2>2 DEF l
<1>7. CASE c.op = "interrupt" /\ q \in Interrupt(r, n)
  <2> DEFINE a == [r EXCEPT !.quarantine = n]
             b == [a EXCEPT !.complete = TRUE]
  <2>1. q = r \/ (n = r.turn /\ q \in Hearing(b, r.server.turn))
    <3>1. [r EXCEPT !.quarantine = n, !.complete = TRUE] = b
      BY Zenon
    <3> HIDE DEF b
    <3> QED BY <1>7, <3>1, Zenon DEF Interrupt
  <2> HIDE DEF l, n
  <2>2. CASE n = r.turn /\ q \in Hearing(b, r.server.turn)
    <3>1. a \in Worker
      BY <1>1, WorkerIs
    <3>2. /\ a.wire = r.wire /\ a.server = r.server /\ a.turn = r.turn /\ a.quarantine = n
          /\ a.calls = r.calls /\ a.crossed = r.crossed
      BY <3>1, WorkerIs
    <3> HIDE DEF a
    <3>3. b \in Worker
      BY <3>1, WorkerIs
    <3>4. /\ b.wire = r.wire /\ b.server = r.server /\ b.turn = r.turn /\ b.quarantine = n
          /\ b.calls = r.calls /\ b.crossed = r.crossed /\ b.complete = TRUE
      BY <3>1, <3>2, <3>3, WorkerIs
    <3> HIDE DEF b
    <3>5. /\ Grows(b, q, r.server.turn) /\ q.turn = r.turn /\ q.complete = TRUE
          /\ q.quarantine = n /\ q.calls = r.calls /\ q.crossed = r.crossed
      BY <1>4, <2>2, <3>3, <3>4, HearingGrows
    <3>6. l \in {3 * r.turn + 2, Last} /\ r.turn # 0 /\ 3 * r.turn < Last
      BY <1>1, <1>2, <1>7, <2>2
    <3>7. ASSUME Fit(r, l) PROVE Fit(q, l)
      <4>1. r.server.turn = r.turn
        BY <1>4, <3>7 DEF Paced
      <4>2. Grows(r, q, r.turn)
        BY <3>4, <3>5, <4>1 DEF Grows
      <4> QED BY <1>2, <2>2, <3>5, <3>6, <3>7, <4>2, InterruptFits
    <3> QED BY <3>5, <3>7 DEF l
  <2> QED BY <1>4, <2>1, <2>2 DEF l
<1> QED BY <1>3, <1>5, <1>6, <1>7

\* The calls that follow the one that is served.
LEMMA TailOrderly ==
    ASSUME IInv, NEW k \in Nat, Orderly(app, k), app' = app, app.thread # None,
           workers[app.thread].calls # <<>>,
           NEW l, l = Rank(app.thread, Head(workers[app.thread].calls)),
           workers'[app.thread].calls \in {Tail(workers[app.thread].calls), <<>>},
           workers[app.thread].crossed => workers'[app.thread].crossed,
           workers'[app.thread].phase = workers[app.thread].phase
    PROVE  l \in Nat /\ k <= l /\ Orderly(app, l)' /\ Awake(app)
<1> DEFINE w == app.thread
           C == workers[w].calls
           D == workers'[w].calls
<1>0. l = Rank(w, Head(C))
  OBVIOUS
<1>1. w \in Sessions /\ C \in Seq(Calls) /\ app.sent = <<>>
  BY AppIsGood, WorkerTyped DEF IInv, TypeOK, Wide
<1>2. Pending(app) = C /\ Pending(app)' = D
  <2>1. Pending(app) = C \o <<>> /\ Pending(app)' = D \o <<>>
    BY <1>1 DEF Pending
  <2>2. D \in Seq(Calls) /\ C # <<>>
    <3>1. D \in {Tail(C), <<>>} /\ C # <<>>
      OBVIOUS
    <3>2. C \in Seq(Calls)
      BY <1>1
    <3> HIDE DEF C, D
    <3>3. Tail(C) \in Seq(Calls) /\ <<>> \in Seq(Calls)
      BY <3>1, <3>2
    <3> QED BY <3>1, <3>3
  <2> HIDE DEF C, D
  <2> QED BY <1>1, <2>1, <2>2
<1>3. /\ C # <<>> /\ D \in {Tail(C), <<>>} /\ Lined(w, C, k) /\ Ahead(app, C, k)
  BY <1>2 DEF Orderly
<1>4. Awake(app) /\ Awake(app)'
  BY <1>2, <1>3 DEF Orderly, Awake
<1>5. Sounding(app, Crossed(app))'
  BY DEF Orderly, Sounding, Crossed
<1> HIDE DEF C, D, w
<1>6. /\ Len(C) \in Nat /\ 1 \in 1..Len(C) /\ Head(C) = C[1] /\ Head(C) \in Calls
      /\ \A i \in 1..Len(D) : i + 1 \in 1..Len(C) /\ D[i] = C[i + 1] /\ D[i] \in Calls
  <2>1. /\ Len(C) \in Nat /\ 1 \in 1..Len(C) /\ Head(C) = C[1] /\ Head(C) \in Calls
    BY <1>1, <1>3
  <2>2. CASE D = <<>>
    BY <2>2, <2>1
  <2>3. CASE D = Tail(C)
    BY <1>1, <1>3, <2>1, <2>3
  <2> QED BY <1>3, <2>1, <2>2, <2>3
<1>7. l \in Nat /\ k <= l
  BY <1>0, <1>3, <1>6, RankIs DEF Lined
<1>9. Lined(w, D, l)
  BY <1>6, <1>1, <1>0, <1>7, <1>3, RankIs DEF Lined
<1>11. Ahead(app, D, l)
  BY <1>3, <1>0, <1>6 DEF Ahead, w, Comes
<1>12. Orderly(app, l)'
  BY <1>2, <1>9, <1>11, <1>4, <1>5 DEF Orderly, w
<1> QED BY <1>4, <1>7, <1>12

LEMMA CallOrder ==
    ASSUME IInv, Plain, NEW k \in Nat, Agreed(k), NEW w \in Sessions, Call(w)
    PROVE  Order'
<1> DEFINE u == workers[w]
           x == Tail(u.calls)
           r == [u EXCEPT !.calls = x]
           c == Head(u.calls)
           d == Doomed(r)
<1>1. /\ u \in Worker /\ Heeds(u) /\ u.calls \in Seq(Calls) /\ u.calls # <<>>
      /\ u.phase # "new"
  BY Workers, WorkerIs DEF Call, Desks
<1>2. /\ app' = app
      /\ \/ workers' = [workers EXCEPT ![w] = d] /\ signals' = EmitFailure(w)
         \/ /\ \E q \in Called(w, r, c) : workers' = [workers EXCEPT ![w] = q]
            /\ UNCHANGED signals
  BY Zenon DEF Call
<1>3. Speaks /\ Shift(w) /\ app'.session = app.session
  BY <1>2, EmitSpeaks, Shifting
<1>4. x \in Desks /\ c \in Calls
  BY <1>1 DEF Desks
<1> HIDE DEF x, c, u
<1>5. /\ r \in Worker /\ Heeds(r) /\ r.phase = u.phase /\ r.crossed = u.crossed
      /\ r.calls = x /\ r.turn = u.turn /\ r.complete = u.complete
      /\ r.quarantine = u.quarantine /\ r.wire = u.wire /\ r.server = u.server
  BY <1>1, <1>4, WorkerIs DEF Heeds
<1> HIDE DEF r
<1>6. PICK q : /\ q \in Worker /\ workers' = [workers EXCEPT ![w] = q]
               /\ q.phase = u.phase /\ q.crossed = u.crossed /\ q.calls \in {x, <<>>}
               /\ \A l \in Nat : l = Rank(w, c) /\ Fit(r, l) => Fit(q, l)
  <2>1. CASE workers' = [workers EXCEPT ![w] = d]
    <3>1. d \in Worker /\ d.phase = u.phase /\ d.crossed = u.crossed
      BY <1>5, DoomedIs
    <3>2. d.calls = <<>> /\ \A l \in Nat : Fit(d, l)
      BY <1>5, DoomedFits
    <3> HIDE DEF d
    <3> QED BY <2>1, <3>1, <3>2
  <2>2. CASE \E q \in Called(w, r, c) : workers' = [workers EXCEPT ![w] = q]
    <3>1. PICK q \in Called(w, r, c) : workers' = [workers EXCEPT ![w] = q]
      BY <2>2
    <3>3. /\ Fit(r, Rank(w, c)) => Fit(q, Rank(w, c))
          /\ q.calls = r.calls /\ q.crossed = r.crossed
      BY <1>4, <1>5, CallFits
    <3> QED BY <1>5, <3>1, <1>4, <3>3, CalledIs
  <2> QED BY <1>2, <2>1, <2>2
<1>7. workers \in [Sessions -> Worker]
  BY DEF IInv, TypeOK
<1>8. workers'[w] = q /\ \A v \in Sessions : v # w => workers'[v] = workers[v]
  BY <1>6, <1>7
<1>9. CASE w # app.thread
  BY <1>1, <1>3, <1>6, <1>9, SettleOrder DEF u
<1>10. CASE w = app.thread
  <2>1. w # None /\ Orderly(app, k) /\ (~u.crossed => Fit(u, k))
    BY <1>10, TurnNames DEF Agreed, u
  <2>2. PICK l : l = Rank(w, c)
    OBVIOUS
  <2>3. l \in Nat /\ k <= l /\ Orderly(app, l)' /\ Awake(app)
    BY <1>1, <1>6, <1>8, <1>10, <2>1, <2>2, <1>2, TailOrderly DEF u, x, c
  <2>4. ~q.crossed => Fit(q, l)
    BY <1>6, <2>1, <1>5, FitCalls, <2>3, FitLater, <2>2
  <2>5. Agreed(l)'
    BY <1>2, <1>8, <1>10, <2>3, <2>4 DEF Agreed
  <2>6. Plain'
    BY <1>6, <1>8, <1>10, <2>1, <2>3, <1>3, <1>2 DEF Awake, Early, u, Plain, Speaks
  <2> QED BY <2>3, <2>5, <2>6 DEF Order
<1> QED BY <1>9, <1>10

\* The provider answers.
LEMMA AnswerFits ==
    ASSUME NEW r \in Worker, NEW q, NEW k \in Nat, Fit(r, k), r.server.stage = "owing",
           NEW e \in Events, e.turn = r.server.turn, e.kind # "interrupted",
           q.wire = Append(r.wire, e), q.turn = r.turn, q.complete = r.complete,
           q.quarantine = r.quarantine, q.server.turn = r.server.turn,
           q.server.stage = IF e.kind = "completed" THEN "quiet" ELSE "owing"
    PROVE  Fit(q, k)
<1> DEFINE W == r.wire
           V == q.wire
<1>1. /\ r.turn \in Nat /\ W \in Seq(Events)
      /\ \A i \in 1..Len(W) : W[i] \in Events /\ W[i].turn \in Nat
  BY WorkerTyped
<1>2. Paced(r) /\ r.turn # 0 /\ e.turn = r.turn
  BY DEF Fit, Paced
<1>3. /\ Len(W) \in Nat /\ Len(V) = Len(W) + 1 /\ V[Len(V)] = e
      /\ \A i \in 1..Len(W) : V[i] = W[i]
  <2>1. V = Append(W, e)
    OBVIOUS
  <2> HIDE DEF V, W
  <2> QED BY <1>1, <2>1
<1> HIDE DEF V, W
<1>4. \A i \in 1..Len(V) : \/ i \in 1..Len(W) /\ V[i] = W[i]
                           \/ i = Len(W) + 1 /\ V[i] = e
  BY <1>3
<1>5. Paced(q)
  <2>1. \A i \in 1..Len(V) : V[i].turn <= r.turn
    BY <1>1, <1>2, <1>4 DEF Paced, W
  <2>2. ASSUME NEW i \in 1..Len(V), NEW j \in 1..Len(V), i < j
        PROVE  V[i].turn <= V[j].turn
    BY <1>3, <2>2, <1>2, <1>4, <2>1 DEF Paced, W
  <2> QED BY <1>2, <2>1, <2>2 DEF Paced, V
<1>6. k # 3 * r.turn
  BY <1>2 DEF Fit, OnlyHeard
<1>8. Once(r) => Once(q)
  BY <1>4, <1>3, <1>2 DEF Once, Over, W, V, Closes
<1>9. \A i \in 1..Len(V) : V[i].kind = "audio" /\ V[i].turn # q.turn => Guarded(q, i)
  BY <1>2, <1>4, <1>3 DEF Fit, W, Guarded, V
<1>10. q.server.stage # "hearing"
  OBVIOUS
<1> QED BY <1>5, <1>6, <1>8, <1>9, <1>10 DEF Fit, V

LEMMA AnswerOrder ==
    ASSUME IInv, Plain, NEW k \in Nat, Agreed(k), NEW w \in Sessions, Answer(w)
    PROVE  Order'
<1> DEFINE u == workers[w]
<1>1. /\ u \in Worker /\ u.server \in Servers /\ u.wire \in Seq(Events)
      /\ u.server.stage = "owing" /\ u.phase # "new"
  BY Workers, WorkerIs, NotNew DEF Answer, Wires
<1>2. PICK n \in {"audio", "final", "completed"} :
        workers' = [workers EXCEPT
            ![w].wire = Append(@, [kind |-> n, turn |-> u.server.turn]),
            ![w].server.stage = IF n = "completed" THEN "quiet" ELSE @]
  BY Zenon DEF Answer
<1>3. app' = app /\ Speaks /\ Shift(w)
  BY EmitSpeaks, Shifting DEF Answer
<1> DEFINE e == [kind |-> n, turn |-> u.server.turn]
           x == Append(u.wire, e)
           g == IF n = "completed" THEN "quiet" ELSE u.server.stage
           a == [u EXCEPT !.wire = x]
           v == [stage |-> g, turn |-> u.server.turn, lost |-> u.server.lost]
           q == [a EXCEPT !.server = v]
<1>4. workers' = [workers EXCEPT ![w] =
                     [a EXCEPT !.server = [u.server EXCEPT !.stage = g]]]
  BY <1>2, Zenon
<1>5. /\ e \in Events /\ e.turn = u.server.turn /\ e.kind = n /\ g \in {"quiet", "owing"}
      /\ g = IF e.kind = "completed" THEN "quiet" ELSE "owing"
  BY <1>1 DEF Events, Servers
<1>6. v \in Servers /\ v.stage = g /\ v.turn = u.server.turn
  BY <1>1, <1>5 DEF Servers
<1>7. [u.server EXCEPT !.stage = g] = v
  BY <1>1, ServerIs
<1>8. x \in Wires /\ x = Append(u.wire, e)
  <2> HIDE DEF e
  <2> QED BY <1>1, <1>5 DEF Wires
<1> HIDE DEF u, x, g, v, e
<1>9. /\ a \in Worker /\ a.phase = u.phase /\ a.turn = u.turn /\ a.wire = x
      /\ a.complete = u.complete /\ a.quarantine = u.quarantine /\ a.calls = u.calls
      /\ a.crossed = u.crossed
  BY <1>1, <1>8, WorkerIs
<1> HIDE DEF a
<1>10. workers' = [workers EXCEPT ![w] = q]
  BY <1>4, <1>7
<1>11. /\ q \in Worker /\ q.phase = u.phase /\ q.turn = u.turn /\ q.wire = x
       /\ q.complete = u.complete /\ q.quarantine = u.quarantine /\ q.calls = u.calls
       /\ q.crossed = u.crossed /\ q.server = v
  BY <1>6, <1>9, WorkerIs
<1> HIDE DEF q
<1>12. Fit(u, k) => Fit(q, k)
  BY <1>1, <1>5, <1>6, <1>8, <1>11, AnswerFits
<1>13. Settles(u, q, k)
  BY <1>11, <1>12 DEF Settles
<1> QED BY <1>1, <1>3, <1>10, <1>11, <1>13, SettleOrder DEF u

\* An event is read: it is passed over, it ends the quarantine, or it closes the answer.
Reads(r, q) ==
    \/ q.complete = r.complete /\ q.quarantine = r.quarantine
    \/ /\ q.complete = r.complete /\ q.quarantine = 0
       /\ r.wire[1].kind = "interrupted" /\ r.quarantine \in {0, r.wire[1].turn}
    \/ /\ q.complete = TRUE /\ q.quarantine = 0 /\ r.quarantine = 0
       /\ r.wire[1].kind = "completed" /\ r.wire[1].turn = r.turn /\ r.turn # 0

LEMMA ReadFits ==
    ASSUME NEW r \in Worker, NEW q, NEW k \in Nat, Fit(r, k), r.wire # <<>>,
           q.wire = Tail(r.wire), q.turn = r.turn, q.server = r.server, Reads(r, q)
    PROVE  Fit(q, k)
<1> DEFINE W == r.wire
           V == q.wire
<1>1. W \in Seq(Events) /\ W # <<>> /\ V = Tail(W)
  BY WorkerTyped
<1> HIDE DEF V, W
<1>2. /\ Len(W) \in Nat /\ 1 \in 1..Len(W) /\ Len(V) \in Nat
      /\ \A i \in 1..Len(V) : i + 1 \in 1..Len(W) /\ V[i] = W[i + 1]
  BY <1>1
<1>4. Over(q) => Over(r)
  BY <1>2 DEF Over, V, W, Closes, Reads
<1>5. ASSUME NEW i \in 1..Len(V), NEW j \in 1..Len(V), i < j
      PROVE  /\ i + 1 \in 1..Len(W) /\ j + 1 \in 1..Len(W) /\ i + 1 < j + 1
             /\ V[i] = W[i + 1] /\ V[j] = W[j + 1]
  BY <1>2, <1>5
<1>6. Paced(q)
  BY <1>1, <1>2, <1>5 DEF Paced, W, V, Fit, Reads
<1>7. OnlyHeard(r) => OnlyHeard(q)
  BY <1>2 DEF OnlyHeard, Reads, W, V
<1>8. ASSUME NEW i \in 1..Len(V), Guarded(r, i + 1)
      PROVE  Guarded(q, i) /\ q.complete = r.complete
  BY <1>2, <1>8 DEF Guarded, W, Reads, V
<1>9. \A i \in 1..Len(V) : V[i].kind = "audio" /\ V[i].turn # q.turn => Guarded(q, i)
  BY <1>2, <1>8 DEF Fit, W
<1>10. Once(r) => Once(q)
  <2> SUFFICES ASSUME Once(r) PROVE Once(q)
    OBVIOUS
  <2>3. ASSUME q.complete, NEW i \in 1..Len(V), V[i].kind = "audio"
        PROVE  Guarded(q, i)
    <3>1. CASE r.complete
      BY <1>2, <1>8, <2>3, <3>1 DEF Once, W
    <3>2. CASE ~r.complete
      <4>2. i + 1 \in 1..Len(W) /\ 1 < i + 1 /\ W[i + 1].kind = "audio"
        BY <1>2, <2>3
      <4>3. W[i + 1].turn # r.turn
        BY <1>2, <2>3, <3>2, <4>2 DEF Once, Closes, W, Reads
      <4> QED BY <1>2, <1>9, <2>3, <4>3
    <3> QED BY <3>1, <3>2
  <2> QED BY <1>4, <1>5, <2>3 DEF Once, V, W
<1> QED BY <1>4, <1>6, <1>7, <1>9, <1>10 DEF Fit, V

LEMMA DispatchOrder ==
    ASSUME IInv, Plain, NEW k \in Nat, Agreed(k), NEW w \in Sessions, Dispatch(w)
    PROVE  Order'
<1> DEFINE u == workers[w]
           x == Tail(u.wire)
           r == [u EXCEPT !.wire = x]
           e == Head(u.wire)
           passes == ~Quarantined(r, e) /\ r.turn # 0
           a == [r EXCEPT !.quarantine = 0]
           y == r.crossed \/ r.quarantine \notin {0, e.turn}
           b == [a EXCEPT !.crossed = y]
           f == [r EXCEPT !.complete = TRUE]
           z == r.crossed \/ r.turn # e.turn
           g == [f EXCEPT !.crossed = z]
<1>1. /\ u \in Worker /\ Heeds(u) /\ u.wire \in Seq(Events) /\ u.wire # <<>>
      /\ u.phase = "live" /\ u.wire \in Wires
  BY Workers, WorkerIs DEF Dispatch, Wires
<1>2. /\ app' = app
      /\ \/ /\ e.kind = "interrupted" /\ workers' = [workers EXCEPT ![w] = b]
            /\ \/ signals' = signals
               \/ signals' = Emit(w, Signal("interrupted", r.quarantine, 0))
         \/ /\ e.kind # "interrupted" /\ passes /\ e.kind = "completed"
            /\ workers' = [workers EXCEPT ![w] = g]
            /\ signals' = Emit(w, Signal(e.kind, r.turn, e.turn))
         \/ /\ e.kind # "interrupted" /\ workers' = [workers EXCEPT ![w] = r]
            /\ signals' = signals \/ (passes /\ signals' = Emit(w, Signal(e.kind, r.turn, e.turn)))
  <2>1. [r EXCEPT !.quarantine = 0, !.crossed = r.crossed \/ r.quarantine \notin {0, e.turn}] = b
    BY Zenon
  <2>2. [r EXCEPT !.complete = TRUE, !.crossed = r.crossed \/ r.turn # e.turn] = g
    BY Zenon
  <2>3. app' = app
    BY DEF Dispatch
  <2>4. CASE e.kind = "interrupted"
    <3>1. /\ workers' = [workers EXCEPT ![w] =
                   [r EXCEPT !.quarantine = 0,
                             !.crossed = r.crossed \/ r.quarantine \notin {0, e.turn}]]
          /\ \/ signals' = signals
             \/ signals' = Emit(w, Signal("interrupted", r.quarantine, 0))
      BY <2>4, Zenon DEF Dispatch
    <3> HIDE DEF b, r, e
    <3> QED BY <2>1, <2>3, <2>4, <3>1
  <2>5. CASE e.kind # "interrupted"
    <3>1. /\ workers' = [workers EXCEPT ![w] =
                 IF passes /\ e.kind = "completed"
                 THEN [r EXCEPT !.complete = TRUE, !.crossed = r.crossed \/ r.turn # e.turn]
                 ELSE r]
          /\ signals' = IF passes /\ (e.kind = "completed" \/ ~app.paused)
                        THEN Emit(w, Signal(e.kind, r.turn, e.turn))
                        ELSE signals
      BY <2>5, Zenon DEF Dispatch
    <3> HIDE DEF passes, g, r, e
    <3> QED BY <2>2, <2>3, <2>5, <3>1
  <2> QED BY <2>4, <2>5
<1>3. /\ x \in Wires /\ x = Tail(u.wire) /\ e = u.wire[1] /\ e \in Events
      /\ e.turn \in Numbers /\ e.turn # 0
      /\ e.kind \in {"audio", "final", "completed", "interrupted"} /\ 1 \in 1..Len(u.wire)
  <2>1. /\ Len(u.wire) \in Nat /\ Len(u.wire) >= 1 /\ e = u.wire[1] /\ e \in Events
        /\ x \in Seq(Events)
    BY <1>1
  <2> HIDE DEF u, x, e
  <2> QED BY <1>1, <2>1 DEF Wires, Events, Heeds, x
<1> HIDE DEF u, x, e
<1>4. /\ r \in Worker /\ r.phase = "live" /\ r.turn = u.turn /\ r.wire = x
      /\ r.complete = u.complete /\ r.quarantine = u.quarantine /\ r.calls = u.calls
      /\ r.crossed = u.crossed /\ r.server = u.server
      /\ r.turn \in Numbers /\ r.quarantine \in Numbers
  BY <1>1, <1>3, WorkerIs
<1> HIDE DEF r
<1>5. /\ b \in Worker /\ b.phase = "live" /\ b.turn = u.turn /\ b.wire = x
      /\ b.complete = u.complete /\ b.quarantine = 0 /\ b.calls = u.calls
      /\ b.crossed = y /\ b.server = u.server
  <2>1. a \in Worker
    BY <1>4, WorkerIs
  <2>2. /\ a.phase = "live" /\ a.turn = u.turn /\ a.wire = x /\ a.quarantine = 0
        /\ a.complete = u.complete /\ a.calls = u.calls /\ a.server = u.server
    BY <1>4, <2>1, WorkerIs
  <2>3. y \in BOOLEAN
    BY <1>4, WorkerIs
  <2> HIDE DEF a, y
  <2>4. b \in Worker
    BY <2>1, <2>3, WorkerIs
  <2> QED BY <2>1, <2>2, <2>3, <2>4, WorkerIs
<1>6. /\ g \in Worker /\ g.phase = "live" /\ g.turn = u.turn /\ g.wire = x
      /\ g.complete = TRUE /\ g.quarantine = u.quarantine /\ g.calls = u.calls
      /\ g.crossed = z /\ g.server = u.server
  <2>1. f \in Worker
    BY <1>4, WorkerIs
  <2>2. /\ f.phase = "live" /\ f.turn = u.turn /\ f.wire = x /\ f.quarantine = u.quarantine
        /\ f.complete = TRUE /\ f.calls = u.calls /\ f.server = u.server
    BY <1>4, <2>1, WorkerIs
  <2>3. z \in BOOLEAN
    BY <1>4, WorkerIs
  <2> HIDE DEF f, z
  <2>4. g \in Worker
    BY <2>1, <2>3, WorkerIs
  <2> QED BY <2>1, <2>2, <2>3, <2>4, WorkerIs
<1> HIDE DEF b, g
<1>7. passes /\ e.kind \in {"audio", "completed"} => u.quarantine = 0 /\ u.turn # 0
  BY <1>4 DEF Quarantined
<1>8. workers \in [Sessions -> Worker]
  BY DEF IInv, TypeOK
<1>9. PICK q : /\ q \in Worker /\ workers' = [workers EXCEPT ![w] = q] /\ q.phase = "live"
               /\ q.turn = u.turn /\ q.wire = x /\ q.calls = u.calls /\ q.server = u.server
               /\ (u.crossed => q.crossed) /\ (~q.crossed => Reads(u, q))
  <2>1. CASE workers' = [workers EXCEPT ![w] = r]
    BY <1>4, <2>1 DEF Reads
  <2>2. CASE e.kind = "interrupted" /\ workers' = [workers EXCEPT ![w] = b]
    BY <1>3, <1>4, <1>5, <2>2 DEF Reads
  <2>3. CASE passes /\ e.kind = "completed" /\ workers' = [workers EXCEPT ![w] = g]
    BY <1>3, <1>4, <1>6, <1>7, <2>3 DEF Reads
  <2> QED BY <1>2, <2>1, <2>2, <2>3
<1>10. Settles(u, q, k)
  BY <1>1, <1>3, <1>9, ReadFits DEF Settles
<1>11. workers'[w] = q
  BY <1>8, <1>9
<1>12. Speaks
  <2>1. CASE signals' = signals
    BY <2>1, EmitSpeaks
  <2>2. CASE signals' = Emit(w, Signal("interrupted", r.quarantine, 0))
    BY <1>4, <2>2, AppendSpeaks, WorkerIs
  <2>3. CASE passes /\ signals' = Emit(w, Signal(e.kind, r.turn, e.turn))
    <3>1. CASE w # app.thread
      BY <2>3, <3>1, EmitSpeaks DEF Emit
    <3>2. CASE w = app.thread
      <4>1. ASSUME e.kind = "audio" PROVE e.turn = r.turn \/ workers'[w].crossed
        BY <3>2, TurnNames, <1>3, <1>4, <1>7, <2>3, <4>1, <1>9, <1>11 DEF Agreed, u, Fit,
           Guarded
      <4> QED BY <1>3, <1>4, <2>3, <4>1, AppendSpeaks
    <3> QED BY <3>1, <3>2
  <2> QED BY <1>2, <2>1, <2>2, <2>3
<1>13. Shift(w)
  BY <1>2, Shifting
<1> QED BY <1>2, <1>9, <1>10, <1>12, <1>13, SettleOrder DEF u, Early

-----------------------------------------------------------------------------
(* Every step keeps the order *)

LEMMA OrderBegins == Init => Order
BY DEF Init, Agreed, Orderly, Sounding, Plain, Order

LEMMA OrderNext == IInv /\ Order /\ [Next]_vars => Order'
<1> SUFFICES ASSUME IInv, Order, [Next]_vars PROVE Order'
  OBVIOUS
<1>0. Plain
  BY DEF Order
<1> PICK k \in Nat : Agreed(k)
  BY DEF Order
<1>1. CASE Start
  BY <1>0, <1>1, StartOrder
<1>2. CASE End
  BY <1>0, <1>2, EndOrder
<1>3. CASE Talk
  BY <1>0, <1>3, TalkOrder
<1>4. CASE Frame
  BY <1>0, <1>4, FrameOrder
<1>5. CASE Endpoint
  BY <1>0, <1>5, EndpointOrder
<1>6. CASE Timeout
  BY <1>0, <1>6, TimeoutOrder
<1>7. CASE Renew
  BY <1>0, <1>7, RenewOrder
<1>8. CASE MicFails
  BY <1>0, <1>8, MicFailsOrder
<1>9. CASE StopAllSpeech
  BY <1>0, <1>9, StopAllSpeechOrder
<1>10. CASE SaveSettings
  BY <1>0, <1>10, SaveSettingsOrder
<1>11. CASE Suspend
  BY <1>0, <1>11, SuspendOrder
<1>12. CASE SoundEnds
  BY <1>0, <1>12, SoundEndsOrder
<1>13. CASE SoundFails
  BY <1>0, <1>13, SoundFailsOrder
<1>14. CASE Deliver
  BY <1>0, <1>14, DeliverOrder
<1>15. ASSUME NEW w \in Sessions, Work(w)
       PROVE  Order'
  BY <1>0, <1>15, BootOrder, ReserveOrder, ConnectedOrder, ConnectFailsOrder, CallOrder,
     DispatchOrder, ReconnectOrder, RetryOrder DEF Work
<1>16. ASSUME NEW w \in Sessions, Deadline(w) \/ Finish(w) \/ Answer(w) \/ Lose(w)
       PROVE  Order'
  BY <1>0, <1>16, DeadlineOrder, StopOrder, ReleaseOrder, LeaveOrder, AnswerOrder,
     LoseOrder DEF Finish
<1>17. CASE UNCHANGED vars
  BY <1>17, <1>0 DEF vars, Orderly, Ahead, Fore, Pending, Crossed, Awake, Agreed, Plain,
     Order
<1> QED BY <1>1, <1>2, <1>3, <1>4, <1>5, <1>6, <1>7, <1>8, <1>9, <1>10, <1>11, <1>12,
           <1>13, <1>14, <1>15, <1>16, <1>17 DEF Next, Runtime

-----------------------------------------------------------------------------
(* A conversation moves *)

Members(q) == {q[i] : i \in 1..Len(q)}

\* A worker that is about to end, and a conversation that lasts: no other worker was
\* left, its own is not about to end and has taken no turn's event for another's.
Quits(r) == r.stop \/ r.phase \in {"failed", "closing", "done"} \/ r.link = "STOPPING"
Lasts(s, r, S) ==
    /\ s.active /\ s.alone /\ ~Quits(r) /\ ~r.crossed
    /\ \A m \in S : m.kind \notin {"failed", "idle", "finished"}

\* The session goes with the worker.
Reserved(s, r) ==
    \/ r.phase \in {"spawned", "checked"} /\ s.life = "IDLE"
    \/ r.phase = "connecting" /\ s.life = "STARTING" /\ s.session = s.thread
    \/ /\ r.phase = "live" /\ s.life = "ACTIVE" /\ s.session = s.thread
       /\ r.link \in {"ACTIVE", "STARTING"}

\* Whatever is called, answered and signalled is of turns that have been begun, and
\* what is interrupted of turns before the last.
Bygone(s, r, C, S) ==
    /\ \A c \in C : /\ c.turn[1] = s.thread /\ c.turn[2] < s.next
                    /\ c.op = "interrupt" => c.turn[2] + 1 < s.next
    /\ r.turn < s.next
    /\ r.quarantine # 0 => r.quarantine + 1 < s.next
    /\ \A e \in Members(r.wire) : e.kind = "interrupted" => e.turn + 1 < s.next
    /\ \A m \in S : /\ m.turn < s.next
                    /\ m.kind = "interrupted" => m.turn + 1 < s.next

\* Before its first turn.
Waits(s, r, C, S) ==
    /\ s.held = 0 /\ s.next = 1 /\ s.voice = "IDLE" /\ s.op = "none"
    /\ ~s.mic /\ ~s.renew /\ ~s.opens /\ s.bridge = None /\ s.sound = None
    /\ C = {} /\ r.wire = <<>>
    /\ r.phase = "live" => \E m \in S : m.kind = "connected"

\* A turn is open: it is the last that was begun, and the user is no more heard on it
\* once it finishes or its completion has been signalled.
Open(s, r, S) ==
    /\ r.phase = "live" /\ s.turn[1] = s.thread
    /\ s.held = s.turn[2] /\ s.next = s.turn[2] + 1
    /\ s.bridge \in {None, s.turn}
    /\ s.play = "finishing" => s.bridge = None
    /\ \A m \in S : m.kind = "completed" /\ m.turn = s.turn[2] => s.bridge = None

\* The completion of turn n is underway, or is kept by an interruption that nobody
\* confirms.
Answered(r, C, S, n) ==
    \/ \E e \in Members(r.wire) : e.kind = "completed" /\ e.turn = n
    \/ \E m \in S : m.kind = "completed" /\ m.turn = n
    \/ /\ r.quarantine # 0 /\ \A e \in Members(r.wire) : e.kind # "interrupted"
       /\ \A c \in C : c.op # "interrupt"

\* An answer comes to a user who has been heard.
Coming(s, r, C, S) ==
    s.play = "open" /\ ~s.paused /\ r.tries = 0 /\ ~r.server.lost =>
        /\ s.bridge = None =>
              \/ \E c \in C : c.op = "end" /\ c.turn[2] = s.turn[2]
              \/ r.server.stage = "owing" /\ r.turn = s.turn[2]
              \/ Answered(r, C, S, s.turn[2])
        /\ r.turn = s.turn[2] /\ r.server.stage = "quiet" => Answered(r, C, S, s.turn[2])

\* The user is heard, or is not and the answer may be.
Hears(s) ==
    /\ s.voice = "LISTENING" /\ s.op = "input" /\ (s.mic \/ s.renew \/ s.opens)
    /\ s.bridge = s.turn /\ ~s.out /\ s.play = "open" /\ ~s.playing
Replies(s) ==
    /\ s.bridge = None /\ ~s.mic /\ ~s.opens /\ s.voice # "IDLE"
    /\ s.voice = "LISTENING" => ~s.renew
    /\ s.play # "off" /\ (s.playing \/ s.play = "finishing" => s.sound # None)

Moving(s, r, C, S) ==
    /\ Reserved(s, r) /\ Bygone(s, r, C, S)
    /\ s.turn = None => Waits(s, r, C, S)
    /\ s.turn # None => /\ Open(s, r, S) /\ Coming(s, r, C, S)
                        /\ s.deaf \/ Hears(s) \/ Replies(s)
Going(s, r, C, S) == Lasts(s, r, S) => Moving(s, r, C, S)

\* A worker beside a conversation that lasts has not begun or is done, and one that
\* has not connected or is done holds no session.
Linked(r) ==
    /\ r.phase \in Early \cup {"done"} => r.link = "IDLE"
    /\ r.phase = "connecting" => r.link = "STARTING"
Parted == \A v \in Sessions : Linked(workers[v])
Lonely ==
    app.active /\ app.alone =>
        \A v \in Sessions : v # app.thread => workers[v].phase \in {"new", "done"}
Present ==
    Going(app, workers[app.thread], Members(workers[app.thread].calls), Members(signals))
Progress == Parted /\ Lonely /\ Present

LEMMA MembersAre ==
    ASSUME NEW X, NEW q \in Seq(X)
    PROVE  /\ Members(q) = {} => q = <<>>
           /\ \A m \in Members(q) : m \in X
           /\ \A m \in X : Members(Append(q, m)) = Members(q) \cup {m}
           /\ q # <<>> => /\ Head(q) \in X /\ Tail(q) \in Seq(X)
                          /\ Members(q) = Members(Tail(q)) \cup {Head(q)}
<1>1. Members(q) = {} => q = <<>>
  BY DEF Members
<1>2. \A m \in Members(q) : m \in X
  BY DEF Members
<1>3. ASSUME NEW m \in X
      PROVE  Members(Append(q, m)) = Members(q) \cup {m}
  <2> DEFINE p == Append(q, m)
  <2>1. Len(p) = Len(q) + 1 /\ p[Len(q) + 1] = m /\ \A i \in 1..Len(q) : p[i] = q[i]
    OBVIOUS
  <2> HIDE DEF p
  <2>2. Len(q) \in Nat
    OBVIOUS
  <2>5. Members(p) = Members(q) \cup {m}
    BY <2>1, <2>2 DEF Members
  <2> QED BY <2>5 DEF p
<1>4. ASSUME q # <<>>
      PROVE  /\ Head(q) \in X /\ Tail(q) \in Seq(X)
             /\ Members(q) = Members(Tail(q)) \cup {Head(q)}
  <2> DEFINE t == Tail(q)
  <2>1. /\ Len(q) \in Nat /\ Len(q) >= 1 /\ Len(t) = Len(q) - 1 /\ t \in Seq(X)
        /\ Head(q) = q[1] /\ q[1] \in X /\ \A i \in 1..Len(t) : t[i] = q[i + 1]
    BY <1>4
  <2> HIDE DEF t
  <2>2. \A i \in 1..Len(q) : i = 1 \/ (i - 1 \in 1..Len(t) /\ t[i - 1] = q[i])
    BY <2>1
  <2>4. Members(q) = Members(t) \cup {q[1]}
    BY <2>2, <2>1 DEF Members
  <2> QED BY <2>1, <2>4 DEF t
<1> QED BY <1>1, <1>2, <1>3, <1>4

LEMMA MembersOf ==
    /\ Members(<<>>) = {}
    /\ \A X : \A p, q \in Seq(X) : Members(p \o q) = Members(p) \cup Members(q)
<1>1. Members(<<>>) = {}
  BY DEF Members
<1>2. ASSUME NEW X, NEW p \in Seq(X), NEW q \in Seq(X)
      PROVE  Members(p \o q) = Members(p) \cup Members(q)
  <2> DEFINE r == p \o q
  <2>1. /\ Len(p) \in Nat /\ Len(q) \in Nat /\ Len(r) = Len(p) + Len(q)
        /\ \A i \in 1..Len(p) : r[i] = p[i]
        /\ \A i \in 1..Len(r) : i > Len(p) => r[i] = q[i - Len(p)]
    OBVIOUS
  <2> HIDE DEF r
  <2>2. ASSUME NEW e \in Members(r) PROVE e \in Members(p) \cup Members(q)
    <3>1. PICK i \in 1..Len(r) : e = r[i]
      BY <2>2 DEF Members
    <3>2. CASE i <= Len(p)
      BY <2>1, <3>2, <3>1 DEF Members
    <3>3. CASE i > Len(p)
      BY <2>1, <3>3, <3>1 DEF Members
    <3> QED BY <2>1, <3>2, <3>3
  <2>3. ASSUME NEW e \in Members(p) PROVE e \in Members(r)
    <3>1. PICK i \in 1..Len(p) : e = p[i]
      BY <2>3 DEF Members
    <3>2. i \in 1..Len(r)
      BY <2>1
    <3> QED BY <2>1, <3>1, <3>2 DEF Members
  <2>4. ASSUME NEW e \in Members(q) PROVE e \in Members(r)
    <3>1. PICK i \in 1..Len(q) : e = q[i]
      BY <2>4 DEF Members
    <3>2. i + Len(p) \in 1..Len(r) /\ i + Len(p) > Len(p) /\ (i + Len(p)) - Len(p) = i
      BY <2>1
    <3> QED BY <2>1, <3>1, <3>2 DEF Members
  <2>5. Members(r) = Members(p) \cup Members(q)
    BY <2>2, <2>3, <2>4
  <2> QED BY <2>5 DEF r
<1> QED BY <1>1, <1>2

\* The ranges of what is compared.
LEMMA CallsTyped ==
    /\ \A c \in Calls : /\ c.op \in {"frame", "end", "interrupt"} /\ c.turn \in Turns
                        /\ c.turn[2] \in Nat /\ c.turn[2] >= 1 /\ c.turn[2] <= MaxTurns
    /\ \A m \in Signals : m.turn \in Nat
    /\ \A e \in Events : e.turn \in Nat
BY TurnNames DEF Calls, Numbers, Signals, Events

-----------------------------------------------------------------------------
(* Records that keep a conversation going *)

\* A record in which the turn goes on, with the user on it or not.
Stays(s, q) ==
    /\ q.thread = s.thread /\ q.turn = s.turn /\ q.play = s.play
    /\ q.life = s.life /\ q.session = s.session /\ q.held = s.held /\ q.next = s.next
    /\ s.paused => q.paused

LEMMA StaysGoing ==
    ASSUME NEW s, NEW q, NEW r, NEW C, NEW S, Moving(s, r, C, S), s.turn # None,
           Stays(s, q), q.bridge = s.bridge, q.deaf \/ Hears(q) \/ Replies(q)
    PROVE  Moving(q, r, C, S)
BY DEF Moving, Stays, Reserved, Bygone, Open, Coming

\* The signals may get fewer, unless the answer is among them.
LEMMA TakenGoing ==
    ASSUME NEW s, NEW r, NEW C, NEW S, NEW T, Moving(s, r, C, S), s.turn # None, T \subseteq S,
           \A m \in S \ T : m.kind = "completed" => m.turn # s.turn[2] \/ s.play # "open"
    PROVE  Moving(s, r, C, T)
BY DEF Moving, Reserved, Bygone, Open, Coming, Answered

\* A call is sent.
LEMMA SentGoing ==
    ASSUME NEW s, NEW r, NEW C, NEW S, NEW c, Moving(s, r, C, S), s.turn # None,
           c.turn = s.turn, c.op # "interrupt", s.next \in Nat, s.turn[2] \in Nat
    PROVE  Moving(s, r, C \cup {c}, S)
BY DEF Moving, Bygone, Open, Coming, Answered

\* The user's turn ends.
LEMMA EndsGoing ==
    ASSUME NEW s, NEW q, NEW r, NEW C, NEW S, NEW c, Moving(s, r, C, S), s.turn # None,
           c.turn = s.turn, c.op = "end", s.next \in Nat, s.turn[2] \in Nat,
           Stays(s, q), q.bridge = None, q.deaf \/ Replies(q)
    PROVE  Moving(q, r, C \cup {c}, S)
<1>1. Moving(s, r, C \cup {c}, S)
  BY SentGoing
<1> DEFINE D == C \cup {c}
<1>2. c \in D
  OBVIOUS
<1> HIDE DEF D
<1>4. Coming(q, r, D, S)
  BY <1>1, <1>2 DEF Moving, Stays, Coming, D
<1>5. Moving(q, r, D, S)
  BY <1>1, <1>4 DEF Moving, Stays, Reserved, Bygone, Open, D
<1> QED BY <1>5 DEF D

\* The next turn is begun.
LEMMA BegunGoing ==
    ASSUME NEW s, NEW q, NEW r, NEW C, NEW S, Reserved(s, r), r.phase = "live",
           Bygone(s, r, C, S), s.next \in Nat, r.turn \in Nat,
           r.quarantine \in Nat, \A c \in C : c.turn[2] \in Nat,
           \A m \in S : m.turn \in Nat, \A e \in Members(r.wire) : e.turn \in Nat,
           q.thread = s.thread, q.life = s.life, q.session = s.session,
           q.turn = <<s.session, s.next>>, q.turn # None, q.held = s.next, q.next = s.next + 1,
           Hears(q)
    PROVE  Moving(q, r, C, S)
BY DEF Reserved, Bygone, Open, Hears, Coming, Moving
-----------------------------------------------------------------------------
(* What the voice and the microphone leave alone *)

Around(s, q) ==
    /\ q \in Wide /\ q.active = s.active /\ q.alone = s.alone /\ q.thread = s.thread
    /\ q.turn = s.turn /\ q.bridge = s.bridge /\ q.text = s.text /\ q.out = s.out
    /\ q.play = s.play /\ q.playing = s.playing /\ q.more = s.more
    /\ q.life = s.life /\ q.session = s.session /\ q.held = s.held /\ q.next = s.next
    /\ q.paused = s.paused /\ q.sent = s.sent /\ q.chat = s.chat /\ q.raised = s.raised

LEMMA AroundTwice ==
    ASSUME NEW s, NEW q, NEW p, Around(s, q), Around(q, p)
    PROVE  Around(s, p)
  BY DEF Around

LEMMA AroundSelf ==
    ASSUME NEW s \in Wide
    PROVE  Around(s, s)
  BY DEF Around

LEMMA IdleIs ==
    ASSUME NEW s \in Wide
    PROVE  LET q == Idle(s)
           IN  /\ Around(s, q) /\ q.voice = "IDLE" /\ q.op = "none" /\ q.mic = s.mic
               /\ q.renew = s.renew /\ q.deaf = s.deaf /\ q.sound = s.sound
               /\ q.opens = s.opens
BY IdleQuiet DEF Quiet, Less, Wide, Idle, Around

LEMMA CloseMicIs ==
    ASSUME NEW s \in Wide
    PROVE  LET q == CloseMic(s)
           IN  /\ Around(s, q) /\ q.voice = s.voice /\ q.op = s.op /\ ~q.mic
               /\ q.renew = s.renew /\ q.deaf = s.deaf /\ q.sound = s.sound
               /\ q.opens = s.opens
BY CloseMicQuiet DEF Quiet, Less, Wide, CloseMic, Around

LEMMA ReportErrorIs ==
    ASSUME NEW s \in Wide
    PROVE  LET q == ReportError(s)
           IN  /\ Around(s, q) /\ q.voice = "IDLE" /\ q.op = "none" /\ q.mic = s.mic
               /\ q.renew = s.renew /\ q.deaf /\ q.sound = s.sound
               /\ q.opens = s.opens
<1> DEFINE i == Idle(s)
<1>1. /\ Around(s, i) /\ i.voice = "IDLE" /\ i.op = "none" /\ i.mic = s.mic
      /\ i.renew = s.renew /\ i.sound = s.sound /\ i.opens = s.opens /\ i \in Wide
  BY IdleIs DEF Around
<1>2. ReportError(s) = [i EXCEPT !.deaf = TRUE] /\ ReportError(s) \in Wide
  BY ReportErrorQuiet DEF ReportError, Quiet, Less
<1> HIDE DEF i
<1> QED BY <1>1, <1>2 DEF Wide, Around

LEMMA ListenIs ==
    ASSUME NEW s \in Wide, s.op # "output"
    PROVE  LET q == Listen(s)
           IN  /\ Around(s, q) /\ q.voice = "LISTENING" /\ q.op = "input" /\ q.mic = s.mic
               /\ q.renew = s.renew /\ q.deaf = s.deaf /\ q.sound = s.sound
               /\ q.opens = ~s.mic
<1> DEFINE o == ~s.mic
           r == [s EXCEPT !.voice = "LISTENING", !.op = "input", !.opens = o]
<1>1. Listen(s) = r /\ Listen(s) \in Wide
  BY ListenLess DEF Listen, Less
<1>2. /\ r.voice = "LISTENING" /\ r.op = "input" /\ r.mic = s.mic /\ r.renew = s.renew
      /\ r.deaf = s.deaf /\ r.sound = s.sound /\ r.opens = o
  <2> HIDE DEF o
  <2> QED BY DEF Wide
<1>3. r \in Wide => Around(s, r)
  <2> HIDE DEF o
  <2> QED BY DEF Wide, Around
<1> HIDE DEF r
<1> QED BY <1>1, <1>2, <1>3

LEMMA StopSpeechIs ==
    ASSUME NEW s \in Wide
    PROVE  LET q == StopSpeech(s)
           IN  /\ Around(s, q) /\ q.voice \in {s.voice, "IDLE"} /\ q.op # "output"
               /\ q.mic = s.mic /\ q.renew = s.renew /\ q.deaf = s.deaf /\ q.sound = None
               /\ q.opens = s.opens
<1> DEFINE i == IF s.op = "output" THEN Idle(s) ELSE s
<1>1. /\ Around(s, i) /\ i.voice \in {s.voice, "IDLE"} /\ i.op # "output" /\ i.mic = s.mic
      /\ i.renew = s.renew /\ i.deaf = s.deaf /\ i.opens = s.opens /\ i \in Wide
  BY IdleIs, AroundSelf DEF Around
<1>2. StopSpeech(s) = [i EXCEPT !.sound = None] /\ StopSpeech(s) \in Wide
  BY StopSpeechQuiet DEF StopSpeech, Quiet, Less
<1> HIDE DEF i
<1> QED BY <1>1, <1>2 DEF Wide, Around

\* One flag is set.
LEMMA FlagIs ==
    ASSUME NEW s \in Wide, NEW x \in BOOLEAN
    PROVE  /\ LET q == [s EXCEPT !.mic = x]
              IN  /\ Around(s, q) /\ q.voice = s.voice /\ q.op = s.op /\ q.mic = x
                  /\ q.renew = s.renew /\ q.deaf = s.deaf /\ q.sound = s.sound
                  /\ q.opens = s.opens
           /\ LET q == [s EXCEPT !.heard = x]
              IN  /\ Around(s, q) /\ q.voice = s.voice /\ q.op = s.op /\ q.mic = s.mic
                  /\ q.renew = s.renew /\ q.deaf = s.deaf /\ q.sound = s.sound
                  /\ q.opens = s.opens
           /\ LET q == [s EXCEPT !.renew = x]
              IN  /\ Around(s, q) /\ q.voice = s.voice /\ q.op = s.op /\ q.mic = s.mic
                  /\ q.renew = x /\ q.deaf = s.deaf /\ q.sound = s.sound
                  /\ q.opens = s.opens
           /\ LET q == [s EXCEPT !.deaf = x]
              IN  /\ Around(s, q) /\ q.voice = s.voice /\ q.op = s.op /\ q.mic = s.mic
                  /\ q.renew = s.renew /\ q.deaf = x /\ q.sound = s.sound
                  /\ q.opens = s.opens
<1>1. /\ [s EXCEPT !.mic = x] \in Wide /\ [s EXCEPT !.heard = x] \in Wide
      /\ [s EXCEPT !.renew = x] \in Wide /\ [s EXCEPT !.deaf = x] \in Wide
  BY SetFlags
<1>4. LET q == [s EXCEPT !.renew = x]
      IN  /\ Around(s, q) /\ q.voice = s.voice /\ q.op = s.op /\ q.mic = s.mic
          /\ q.renew = x /\ q.deaf = s.deaf /\ q.sound = s.sound
          /\ q.opens = s.opens
  BY <1>1 DEF Wide, Around
<1>5. LET q == [s EXCEPT !.deaf = x]
      IN  /\ Around(s, q) /\ q.voice = s.voice /\ q.op = s.op /\ q.mic = s.mic
          /\ q.renew = s.renew /\ q.deaf = x /\ q.sound = s.sound
          /\ q.opens = s.opens
  BY <1>1 DEF Wide, Around
<1> QED BY <1>1, <1>4, <1>5 DEF Wide, Around

LEMMA AroundLess ==
    ASSUME NEW s, NEW q, Around(s, q), q.sound \in {s.sound, s.more, None}
    PROVE  Less(s, q)
  BY DEF Around, Less, Same

LEMMA EndedIs ==
    ASSUME NEW s, Core(s)
    PROVE  Ended(s) \in Wide /\ ~Ended(s).active
BY EndedEnds DEF Rested, Ends, Less, Ended, Core

\* A call is sent by a record that does not change otherwise, or the conversation ends.
LEMMA SubmitIs ==
    ASSUME NEW s, Core(s), NEW op \in {"frame", "end", "interrupt"}, NEW t \in Turns
    PROVE  LET q == Submit(s, op, t)
               c == [op |-> op, turn |-> t]
           IN  /\ q \in Wide /\ c \in Calls
               /\ \/ ~q.active
                  \/ /\ q.sent = Append(s.sent, c)
                     /\ q.voice = s.voice /\ q.op = s.op /\ q.mic = s.mic /\ q.renew = s.renew
                     /\ q.deaf = s.deaf /\ q.sound = s.sound /\ q.opens = s.opens
                     /\ q.active = s.active /\ q.alone = s.alone /\ q.thread = s.thread
                     /\ q.turn = s.turn /\ q.bridge = s.bridge /\ q.out = s.out
                     /\ q.play = s.play /\ q.playing = s.playing /\ q.life = s.life
                     /\ q.session = s.session /\ q.held = s.held /\ q.next = s.next
                     /\ q.paused = s.paused
<1> DEFINE c == [op |-> op, turn |-> t]
           x == Append(s.sent, c)
           r == [s EXCEPT !.sent = x]
<1>1. s \in Wide /\ c \in Calls
  BY DEF Core, Calls
<1>2. x \in Sendings
  <2>1. s.sent \in Seq(Calls)
    BY <1>1 DEF Wide, Sendings
  <2> HIDE DEF c
  <2> QED BY <1>1, <2>1 DEF Sendings
<1>3. Submit(s, op, t) = r \/ Submit(s, op, t) = Ended(s)
  BY <1>1 DEF Submit, Wide
<1>4. CASE Submit(s, op, t) = Ended(s)
  BY <1>1, <1>4, EndedIs
<1>5. CASE Submit(s, op, t) = r
  <2> HIDE DEF x, c
  <2>1. r \in Wide /\ r.sent = x
    BY <1>1, <1>2, SetSeqs DEF Wide
  <2>3. /\ r.voice = s.voice
        /\ r.op = s.op /\ r.mic = s.mic /\ r.renew = s.renew
        /\ r.deaf = s.deaf /\ r.sound = s.sound /\ r.opens = s.opens
        /\ r.active = s.active /\ r.alone = s.alone /\ r.thread = s.thread
        /\ r.turn = s.turn /\ r.bridge = s.bridge /\ r.out = s.out
        /\ r.play = s.play /\ r.playing = s.playing /\ r.life = s.life
        /\ r.session = s.session /\ r.held = s.held /\ r.next = s.next
        /\ r.paused = s.paused
    BY <1>1 DEF Wide
  <2> HIDE DEF r
  <2> QED BY <1>5, <2>1, <2>3, <1>1 DEF x, c
<1> QED BY <1>3, <1>4, <1>5
-----------------------------------------------------------------------------
(* A handler's outcome keeps a conversation going *)

\* What is looked at in a record.
Alike(q, d) ==
    /\ d.active = q.active /\ d.alone = q.alone /\ d.thread = q.thread /\ d.turn = q.turn
    /\ d.voice = q.voice /\ d.op = q.op /\ d.mic = q.mic /\ d.renew = q.renew
    /\ d.bridge = q.bridge /\ d.out = q.out /\ d.play = q.play /\ d.playing = q.playing
    /\ d.sound = q.sound /\ d.life = q.life /\ d.session = q.session /\ d.held = q.held
    /\ d.next = q.next /\ d.paused = q.paused /\ d.deaf = q.deaf

\* The microphone has been opened, or has failed to.
LEMMA OpensGoing ==
    ASSUME NEW h, NEW q, NEW d, NEW r, NEW C, NEW S, h \in Wide, Moving(h, r, C, S),
           q \in IF h.opens THEN {[h EXCEPT !.mic = TRUE], ReportError(h)} ELSE {h},
           Alike(q, d), ~d.opens
    PROVE  Moving(d, r, C, S)
<1>1. Reserved(h, r) /\ Bygone(h, r, C, S)
  BY DEF Moving
<1> DEFINE m == [h EXCEPT !.mic = TRUE]
           e == ReportError(h)
<1>2. /\ Around(h, m) /\ m.mic /\ m.deaf = h.deaf /\ m.voice = h.voice /\ m.op = h.op
      /\ Around(h, e) /\ e.deaf
  BY FlagIs, ReportErrorIs
<1> HIDE DEF m, e
<1>3. /\ h.opens => q.deaf \/ (q.mic /\ q.deaf = h.deaf /\ q.voice = h.voice /\ q.op = h.op)
      /\ ~h.opens => q = h
      /\ Around(h, q)
  BY <1>2, AroundSelf DEF m, e
<1>4. ~h.opens => q = h
  BY <1>3
<1>5. Stays(h, d) /\ d.bridge = h.bridge
  BY <1>3 DEF Alike, Stays, Around
<1>6. CASE h.turn # None
  BY <1>3, <1>6, <1>4, <1>5, StaysGoing DEF Moving, Alike, Hears, Replies, Around
<1>7. CASE h.turn = None
  BY <1>7, <1>4, <1>1, <1>5 DEF Moving, Waits, Alike, Reserved, Bygone, Stays
<1> QED BY <1>6, <1>7

\* The state that Do makes of an outcome.
LEMMA DoMakes ==
    ASSUME IInv, NEW h \in Wide, Do(h)
    PROVE  /\ \E q \in IF h.opens THEN {[h EXCEPT !.mic = TRUE], ReportError(h)} ELSE {h} :
                 Alike(q, app') /\ q.thread = h.thread /\ q.active = h.active
                 /\ q.alone = h.alone
           /\ ~app'.opens
           /\ \A w \in Sessions :
                 \/ workers'[w] = workers[w] /\ (w = h.thread => ~Reachable(w))
                 \/ /\ w = h.thread /\ Reachable(w)
                    /\ workers'[w] \in
                          {Doomed(workers[w]),
                           [workers[w] EXCEPT !.calls = workers[w].calls \o h.sent]}
<1> DEFINE m == [h EXCEPT !.mic = TRUE]
           e == ReportError(h)
<1>1. /\ m \in Wide /\ m.thread = h.thread /\ m.sent = h.sent /\ m.active = h.active
      /\ m.alone = h.alone
  <2>1. m \in Wide
    BY SetFlags
  <2> QED BY <2>1 DEF Wide
<1>2. /\ e \in Wide /\ e.thread = h.thread /\ e.sent = h.sent /\ e.active = h.active
      /\ e.alone = h.alone
  <2>1. e \in Wide
    BY ReportErrorQuiet DEF Quiet, Less
  <2> QED BY <2>1 DEF Wide, ReportError, Idle
<1> DEFINE Q == IF h.opens THEN {m, e} ELSE {h}
<1>3. PICK q \in Q :
        /\ q.session # None => q.next <= LastTurn(q.session) + 1
        /\ app' = [q EXCEPT !.halt = FALSE, !.sent = <<>>, !.opens = FALSE, !.raised = FALSE]
        /\ workers' =
              IF q.thread = None \/ ~Reachable(q.thread) THEN workers
              ELSE [workers EXCEPT ![q.thread] =
                       IF q.halt \/ workers[q.thread].stop THEN Doomed(workers[q.thread])
                       ELSE [workers[q.thread] EXCEPT
                               !.calls = workers[q.thread].calls \o q.sent]]
  BY Zenon DEF Do
<1> HIDE DEF m, e
<1>4. /\ q \in Wide /\ q.thread = h.thread /\ q.sent = h.sent /\ q.active = h.active
      /\ q.alone = h.alone
  BY <1>1, <1>2
<1> HIDE DEF Q
<1> DEFINE a == [q EXCEPT !.halt = FALSE]
           b == [a EXCEPT !.sent = <<>>]
           c == [b EXCEPT !.opens = FALSE]
           d == [c EXCEPT !.raised = FALSE]
<1>5. a \in Wide
  BY <1>4, SetFlags
<1>6. b \in Wide
  <2> HIDE DEF a
  <2> QED BY <1>5, SetSeqs, WorkerIs
<1>7. c \in Wide
  <2> HIDE DEF b
  <2> QED BY <1>6, SetFlags
<1>8. d \in Wide
  <2> HIDE DEF c
  <2> QED BY <1>7, SetFlags
<1>9. app' = d
  BY <1>3, Zenon
<1>10. Alike(q, d) /\ ~d.opens
  BY <1>4, <1>8 DEF Wide, Alike
<1> HIDE DEF d
<1>12. workers \in [Sessions -> Worker]
  BY DEF IInv, TypeOK
<1>13. ASSUME NEW w \in Sessions
       PROVE  \/ workers'[w] = workers[w] /\ (w = h.thread => ~Reachable(w))
              \/ /\ w = h.thread /\ Reachable(w)
                 /\ workers'[w] \in {Doomed(workers[w]),
                                     [workers[w] EXCEPT !.calls = workers[w].calls \o h.sent]}
  <2>1. CASE q.thread = None \/ ~Reachable(q.thread)
    <3>1. workers' = workers
      BY <1>3, <2>1, Zenon
    <3>2. w # None
      BY TurnNames
    <3> QED BY <1>4, <2>1, <3>1, <3>2
  <2>2. CASE ~(q.thread = None \/ ~Reachable(q.thread))
    <3>1. workers' = [workers EXCEPT ![q.thread] =
                         IF q.halt \/ workers[q.thread].stop THEN Doomed(workers[q.thread])
                         ELSE [workers[q.thread] EXCEPT
                                 !.calls = workers[q.thread].calls \o q.sent]]
      BY <1>3, <2>2, Zenon
    <3>2. CASE w # q.thread
      BY <1>4, <1>12, <3>1, <3>2
    <3>3. CASE w = q.thread
      <4>1. workers'[w] = IF q.halt \/ workers[w].stop THEN Doomed(workers[w])
                          ELSE [workers[w] EXCEPT !.calls = workers[w].calls \o q.sent]
        BY <1>12, <3>1, <3>3, Zenon
      <4> QED BY <1>4, <2>2, <3>3, <4>1
    <3> QED BY <3>2, <3>3
  <2> QED BY <2>1, <2>2
<1> QED BY <1>4, <1>9, <1>10, <1>13 DEF Q, m, e

\* An outcome that keeps its conversation going, beside the signals S.
Desk(s) == Members(workers[app.thread].calls \o s.sent)
Keeps(h, S) ==
    /\ h \in Wide
    /\ h.active => /\ app.active /\ h.alone = app.alone
                   /\ h.thread = app.thread /\ h.thread # None
    /\ Going(h, workers[app.thread], Desk(h), S)

LEMMA KeepsProgress ==
    ASSUME IInv, Parted, Lonely, NEW h, Keeps(h, Members(signals')), Do(h)
    PROVE  Progress'
<1> DEFINE Q == IF h.opens THEN {[h EXCEPT !.mic = TRUE], ReportError(h)} ELSE {h}
           S == Members(signals')
<1>1. h \in Wide
  BY DEF Keeps
<1>2. /\ \E q \in Q : Alike(q, app') /\ q.thread = h.thread /\ q.active = h.active
                      /\ q.alone = h.alone
      /\ ~app'.opens
      /\ \A w \in Sessions :
            \/ workers'[w] = workers[w] /\ (w = h.thread => ~Reachable(w))
            \/ /\ w = h.thread /\ Reachable(w)
               /\ workers'[w] \in
                     {Doomed(workers[w]),
                      [workers[w] EXCEPT !.calls = workers[w].calls \o h.sent]}
  BY <1>1, DoMakes
<1>3. PICK q \in Q : Alike(q, app') /\ q.thread = h.thread /\ q.active = h.active
                     /\ q.alone = h.alone
  BY <1>2
<1>4. workers \in [Sessions -> Worker]
  BY DEF IInv, TypeOK
<1>5. ASSUME NEW w \in Sessions
      PROVE  workers'[w].phase = workers[w].phase /\ workers'[w].link = workers[w].link
  <2> DEFINE x == workers[w].calls \o h.sent
  <2>1. workers[w] \in Worker
    BY <1>4
  <2>2. /\ [workers[w] EXCEPT !.calls = x].phase = workers[w].phase
        /\ [workers[w] EXCEPT !.calls = x].link = workers[w].link
    <3> HIDE DEF x
    <3> QED BY <2>1, WorkerIs
  <2> QED BY <1>2, <2>1, <2>2, DoomedIs
<1>6. Parted'
  BY <1>5 DEF Parted, Linked
<1>7. Lonely'
  BY <1>3, <1>5 DEF Lonely, Alike, Keeps
<1>8. ASSUME Lasts(app', workers'[app'.thread], S)
      PROVE  Moving(app', workers'[app'.thread], Members(workers'[app'.thread].calls), S)
  <2> DEFINE w == app.thread
             r == workers[w]
             x == r.calls \o h.sent
             u == workers'[w]
  <2>1. h.active /\ h.thread = w /\ app'.thread = w /\ w \in Sessions /\ app'.alone = h.alone
    BY <1>1, <1>3, <1>8 DEF Lasts, Alike, Keeps, Wide
  <2>2. r \in Worker /\ r.calls \in Seq(Calls) /\ h.sent \in Seq(Calls)
    BY <1>1, <1>4, <2>1, WorkerTyped DEF Wide, Sendings
  <2>3. x \in Desks
    <3> HIDE DEF r
    <3> QED BY <2>2 DEF Desks
  <2>4. \/ u = r /\ ~Reachable(w)
        \/ u = [r EXCEPT !.calls = x]
        \/ u = Doomed(r)
    BY <1>2, <2>1
  <2>5. u # Doomed(r)
    BY <1>8, <2>1, <2>2, DoomedIs DEF Lasts, Quits
  <2>6. /\ u.phase = r.phase /\ u.stop = r.stop /\ u.link = r.link /\ u.crossed = r.crossed
        /\ u.turn = r.turn /\ u.quarantine = r.quarantine /\ u.wire = r.wire
        /\ u.tries = r.tries /\ u.server = r.server
        /\ u.calls = x \/ (u.calls = r.calls /\ ~Reachable(w))
    <3> HIDE DEF x, r
    <3> QED BY <2>2, <2>3, <2>4, <2>5, WorkerIs
  <2>7. Lasts(h, r, S)
    BY <1>8, <2>1, <2>6 DEF Lasts, Quits
  <2>8. Moving(h, r, Desk(h), S)
    BY <2>7 DEF Keeps, Going
  <2>9. Moving(app', r, Desk(h), S)
    BY <1>1, <1>2, <1>3, <2>8, OpensGoing
  <2>10. Desk(h) = Members(x)
    BY DEF Desk
  <2>11. Desk(h) = Members(u.calls)
    <3>1. CASE u.calls = x
      BY <2>10, <3>1
    <3>2. CASE u.calls = r.calls /\ ~Reachable(w)
      <4>2. app'.turn = None
        BY <2>9, <3>2 DEF Moving, Open, Reachable
      <4>3. Desk(h) = {}
        BY <2>9, <4>2 DEF Moving, Waits
      <4>4. Members(r.calls) = {}
        <5> HIDE DEF x, r
        <5>1. Members(r.calls \o h.sent) = Members(r.calls) \cup Members(h.sent)
          BY <2>2, MembersOf
        <5> QED BY <2>10, <4>3, <5>1 DEF x
      <4> QED BY <3>2, <4>3, <4>4
    <3> QED BY <2>6, <3>1, <3>2
  <2>12. Moving(app', r, Members(u.calls), S)
    BY <2>9, <2>11
  <2> HIDE DEF u, r, x
  <2>13. Moving(app', u, Members(u.calls), S)
    BY <2>6, <2>12 DEF Moving, Reserved, Bygone, Waits, Open, Coming, Answered
  <2> QED BY <2>1, <2>13 DEF u
<1>9. Present'
  BY <1>8 DEF Present, Going
<1> QED BY <1>6, <1>7, <1>9 DEF Progress
-----------------------------------------------------------------------------
(* What the user, the microphone and the device do *)

Own == workers[app.thread]

LEMMA Here ==
    ASSUME IInv, Order
    PROVE  /\ app \in Wide /\ Core(app) /\ ~app.opens /\ app.sent = <<>>
           /\ app.next \in Nat /\ app.turn \in Turns \cup {None}
           /\ app.turn # None => app.turn[2] \in Nat
           /\ app.active => app.thread \in Sessions /\ app.thread # None
           /\ app.sound # None => app.playing
           /\ app.thread \in Sessions => Own \in Worker /\ Own.calls \in Seq(Calls)
           /\ signals \in Seq(Signals)
<1>1. app \in Wide /\ Core(app) /\ ~app.opens /\ app.turn \in Turns \cup {None}
  BY AppIsGood
<1>3. PICK k \in Nat : Orderly(app, k)
  BY DEF Order, Agreed
<1>4. app.active => app.thread \in Sessions /\ app.thread # None
  BY <1>1, <1>3, TurnNames DEF Orderly, Wide
<1>5. app.sound # None => app.playing
  BY <1>3 DEF Orderly, Sounding
<1>7. app.next \in Nat /\ (app.turn # None => app.turn[2] \in Nat)
  BY <1>1, TurnNames DEF Wide
<1> QED BY <1>1, <1>4, <1>5, <1>7, WorkerTyped DEF Own, IInv, TypeOK

LEMMA DeskIs ==
    ASSUME IInv, Order, app.thread \in Sessions, NEW s
    PROVE  /\ s.sent = <<>> => Desk(s) = Members(Own.calls)
           /\ \A c \in Calls : s.sent = Append(<<>>, c) =>
                                  Desk(s) = Members(Own.calls) \cup {c}
<1> DEFINE C == Own.calls
<1>1. C \in Seq(Calls)
  BY Here
<1>2. Desk(s) = Members(C \o s.sent)
  BY DEF Desk, Own
<1> HIDE DEF C
<1>3. <<>> \in Seq(Calls) /\ Members(<<>>) = {}
  BY MembersOf
<1>4. s.sent = <<>> => Desk(s) = Members(C)
  BY <1>1, <1>2, <1>3, MembersOf
<1>5. ASSUME NEW c \in Calls, s.sent = Append(<<>>, c)
      PROVE  Desk(s) = Members(C) \cup {c}
  <2>1. s.sent \in Seq(Calls)
    BY <1>3, <1>5
  <2>2. Members(s.sent) = Members(<<>>) \cup {c}
    BY <1>3, <1>5, MembersAre
  <2> QED BY <1>1, <1>2, <1>3, <2>1, <2>2, MembersOf
<1> QED BY <1>4, <1>5 DEF C

\* It is enough to look at a conversation that lasts.
LEMMA ToKeep ==
    ASSUME IInv, Order, Present, NEW h \in Wide,
           h.active => app.active /\ h.alone = app.alone /\ h.thread = app.thread,
           (/\ h.active /\ app.active /\ app.thread \in Sessions /\ Own \in Worker
            /\ Lasts(app, Own, Members(signals))
            /\ Moving(app, Own, Members(Own.calls), Members(signals)))
           => Moving(h, Own, Desk(h), Members(signals))
    PROVE  Keeps(h, Members(signals))
BY Here DEF Lasts, Present, Going, Own, Keeps

\* What a conversation does not do before its first turn.
Busy == app.voice # "IDLE" \/ app.op # "none" \/ app.mic \/ app.renew \/ app.sound # None

LEMMA ToStay ==
    ASSUME IInv, Order, Present, Busy, NEW h \in Wide, Stays(app, h), h.bridge = app.bridge,
           h.sent = app.sent, h.active => app.active /\ h.alone = app.alone,
           app.turn # None /\ (app.deaf \/ Hears(app) \/ Replies(app)) =>
               h.deaf \/ Hears(h) \/ Replies(h)
    PROVE  Keeps(h, Members(signals))
<1>1. ASSUME app.thread \in Sessions,
             Moving(app, Own, Members(Own.calls), Members(signals))
      PROVE  Moving(h, Own, Desk(h), Members(signals))
  <2>1. app.turn # None
    BY <1>1 DEF Moving, Waits, Busy
  <2>3. Desk(h) = Members(Own.calls)
    BY <1>1, Here, DeskIs
  <2> QED BY <1>1, <2>1, <2>3, StaysGoing DEF Moving
<1> QED BY <1>1, ToKeep DEF Stays

\* The user's turn ends with an outcome in which the answer is awaited.
LEMMA ToEnd ==
    ASSUME IInv, Order, Present, Busy, NEW h, Around(app, h),
           h.sound \in {app.sound, None}, ~h.opens,
           app.turn # None /\ ~app.deaf /\ (Hears(app) \/ Replies(app)) =>
              /\ ~h.mic /\ h.voice # "IDLE" /\ (h.voice = "LISTENING" => ~h.renew)
              /\ h.sound = app.sound,
           app.deaf => h.deaf
    PROVE  Keeps(EndUserTurn(h), Members(signals))
<1> DEFINE b == [h EXCEPT !.bridge = None]
           t == app.turn
           q == Submit(b, "end", t)
           c == [op |-> "end", turn |-> t]
<1>1. Core(h) /\ h \in Wide
  <2>1. Less(app, h)
    BY AroundLess
  <2> QED BY <2>1, Here, LessCore DEF Around
<1>2. /\ b \in Wide /\ b.active = h.active /\ b.alone = h.alone /\ b.thread = h.thread
      /\ b.turn = h.turn /\ b.bridge = None /\ b.play = h.play /\ b.playing = h.playing
      /\ b.life = h.life /\ b.session = h.session /\ b.held = h.held /\ b.next = h.next
      /\ b.paused = h.paused /\ b.sent = h.sent /\ b.voice = h.voice /\ b.op = h.op
      /\ b.mic = h.mic /\ b.renew = h.renew /\ b.deaf = h.deaf /\ b.sound = h.sound
      /\ b.opens = h.opens /\ b.text = h.text /\ b.more = h.more /\ b.chat = h.chat
  BY <1>1, SetTurns DEF Wide
<1>3. EndUserTurn(h) = b \/ (EndUserTurn(h) = Submit(b, "end", h.turn) /\ h.turn # None)
  BY Zenon DEF EndUserTurn
<1>4. EndUserTurn(h) = b => ~h.active \/ h.thread = None \/ h.turn = None
                            \/ b = Submit(b, "end", h.turn)
  BY Zenon DEF EndUserTurn
<1> HIDE DEF b
<1>5. Core(b)
  BY <1>1, <1>2, LessCore DEF Less, Same
<1>6. h.turn = t /\ h.thread = app.thread /\ h.active = app.active
  BY DEF Around
<1>7. CASE EndUserTurn(h) = q /\ t # None
  <2>1. t \in Turns
    BY <1>7, Here
  <2>2. /\ q \in Wide /\ c \in Calls
        /\ ~q.active \/ (/\ q.sent = Append(b.sent, c)
                         /\ q.voice = b.voice /\ q.op = b.op /\ q.mic = b.mic
                         /\ q.renew = b.renew /\ q.deaf = b.deaf /\ q.sound = b.sound
                         /\ q.opens = b.opens /\ q.active = b.active /\ q.alone = b.alone
                         /\ q.thread = b.thread /\ q.turn = b.turn /\ q.bridge = b.bridge
                         /\ q.out = b.out /\ q.play = b.play /\ q.playing = b.playing
                         /\ q.life = b.life /\ q.session = b.session /\ q.held = b.held
                         /\ q.next = b.next /\ q.paused = b.paused)
    BY <1>5, <2>1, SubmitIs
  <2> HIDE DEF q
  <2>3. ASSUME q.active, app.thread \in Sessions,
               Moving(app, Own, Members(Own.calls), Members(signals))
        PROVE  Moving(q, Own, Desk(q), Members(signals))
    <3>1. Stays(app, q) /\ q.bridge = None
      BY <1>2, <2>2, <2>3 DEF Stays, Around
    <3>2. q.deaf \/ Replies(q)
      BY <1>2, <1>7, <2>2, <2>3 DEF Moving, Replies, Hears, Around
    <3>3. q.sent = Append(<<>>, c)
      BY <1>2, <2>2, <2>3, Here DEF Around
    <3> HIDE DEF c
    <3>4. Desk(q) = Members(Own.calls) \cup {c}
      BY <2>2, <2>3, <3>3, DeskIs
    <3>5. c.turn = t /\ c.op = "end"
      BY DEF c
    <3> QED BY <1>7, <2>3, <3>1, <3>2, <3>4, <3>5, Here, EndsGoing
  <2> QED BY <1>7, <2>2, <2>3, <1>2, ToKeep DEF Around
<1>8. CASE EndUserTurn(h) = b /\ ~(b = q /\ t # None)
  BY <1>4, <1>6, <1>8, Here, <1>2, ToKeep DEF Moving, Waits, Busy, Around
<1> QED BY <1>3, <1>6, <1>7, <1>8
LEMMA InactiveKeeps ==
    ASSUME NEW h \in Wide, ~h.active, NEW S
    PROVE  Keeps(h, S)
  BY DEF Keeps, Going, Lasts

LEMMA DoProgress ==
    ASSUME IInv, Progress, NEW h, Keeps(h, Members(signals)), Do(h), UNCHANGED signals
    PROVE  Progress'
  BY KeepsProgress DEF Progress

LEMMA EndProgress ==
    ASSUME IInv, Order, Progress, End
    PROVE  Progress'
BY Here, EndedIs, InactiveKeeps, DoProgress DEF End

LEMMA FrameProgress ==
    ASSUME IInv, Order, Progress, Frame
    PROVE  Progress'
<1> DEFINE h == [app EXCEPT !.heard = TRUE]
           t == app.bridge
           q == Submit(h, "frame", t)
           c == [op |-> "frame", turn |-> t]
<1>1. app \in Wide /\ app.bridge \in Turns \cup {None} /\ Busy /\ Present
  BY AppIsGood DEF Frame, Busy, Progress
<1>2. /\ Around(app, h) /\ h.voice = app.voice /\ h.op = app.op /\ h.mic = app.mic
      /\ h.renew = app.renew /\ h.deaf = app.deaf /\ h.sound = app.sound
      /\ h.opens = app.opens
  BY <1>1, FlagIs
<1>3. Do(h) \/ (app.bridge # None /\ Do(q))
  BY Zenon DEF Frame
<1> HIDE DEF h
<1>4. Keeps(h, Members(signals))
  BY <1>2, <1>1, ToStay DEF Stays, Around, Hears, Replies
<1>5. CASE app.bridge # None /\ Do(q)
  <2>1. Core(h) /\ t \in Turns
    BY <1>1, <1>2, <1>5, Here, AroundLess, LessCore
  <2>2. /\ q \in Wide /\ c \in Calls
        /\ ~q.active \/ (/\ q.sent = Append(h.sent, c)
                         /\ q.voice = h.voice /\ q.op = h.op /\ q.mic = h.mic
                         /\ q.renew = h.renew /\ q.deaf = h.deaf /\ q.sound = h.sound
                         /\ q.opens = h.opens /\ q.active = h.active /\ q.alone = h.alone
                         /\ q.thread = h.thread /\ q.turn = h.turn /\ q.bridge = h.bridge
                         /\ q.out = h.out /\ q.play = h.play /\ q.playing = h.playing
                         /\ q.life = h.life /\ q.session = h.session /\ q.held = h.held
                         /\ q.next = h.next /\ q.paused = h.paused)
    BY <2>1, SubmitIs
  <2> HIDE DEF q
  <2>3. ASSUME q.active, app.thread \in Sessions,
               Moving(app, Own, Members(Own.calls), Members(signals))
        PROVE  Moving(q, Own, Desk(q), Members(signals))
    <3>1. app.turn # None /\ t = app.turn
      BY <1>1, <1>5, <2>3 DEF Moving, Waits, Busy, Open
    <3>2. Stays(app, q) /\ q.bridge = app.bridge
      BY <1>2, <2>2, <2>3 DEF Stays, Around
    <3>3. q.deaf \/ Hears(q) \/ Replies(q)
      BY <1>2, <2>2, <2>3, <3>1 DEF Moving, Replies, Hears, Around
    <3>4. q.sent = Append(<<>>, c)
      BY <1>2, <2>2, <2>3, Here DEF Around
    <3>5. c.turn = app.turn /\ c.op = "frame"
      BY <3>1
    <3> HIDE DEF c
    <3>6. Desk(q) = Members(Own.calls) \cup {c}
      BY <2>2, <2>3, <3>4, DeskIs
    <3>7. Moving(app, Own, Members(Own.calls) \cup {c}, Members(signals))
      BY <2>3, <3>1, <3>5, Here, SentGoing
    <3> QED BY <3>1, <3>2, <3>3, <3>6, <3>7, StaysGoing
  <2>5. Keeps(q, Members(signals))
    BY <1>1, <2>2, <2>3, <1>2, ToKeep DEF Around
  <2> QED BY <1>5, <2>5, DoProgress DEF Frame
<1> QED BY <1>3, <1>4, <1>5, DoProgress DEF Frame

LEMMA EndpointProgress ==
    ASSUME IInv, Order, Progress, Endpoint
    PROVE  Progress'
<1> DEFINE t == [app EXCEPT !.voice = "THINKING"]
           x == t.deaf \/ app.bridge # None
           d == [t EXCEPT !.deaf = x]
           c == CloseMic(t)
           e == ReportError(c)
<1>1. app \in Wide /\ ~app.opens /\ Busy /\ Present /\ app.voice = "LISTENING"
  BY Here DEF Endpoint, Busy, Progress
<1>2. /\ Around(app, t) /\ t.voice = "THINKING" /\ t.op = app.op /\ t.mic = app.mic
      /\ t.renew = app.renew /\ t.deaf = app.deaf /\ t.sound = app.sound
      /\ t.opens = app.opens
  BY <1>1, SetVoice DEF Wide, Around
<1>3. Do(IF ~app.mic THEN d ELSE IF app.heard THEN EndUserTurn(c) ELSE e)
  BY Zenon DEF Endpoint
<1> HIDE DEF t
<1>4. t \in Wide /\ x \in BOOLEAN
  BY <1>2 DEF Around, Wide
<1>5. CASE Do(d) /\ ~app.mic
  <2>1. /\ Around(t, d) /\ d.voice = t.voice /\ d.op = t.op /\ d.mic = t.mic
        /\ d.renew = t.renew /\ d.deaf = x /\ d.sound = t.sound /\ d.opens = t.opens
    <3> HIDE DEF x
    <3>1. d \in Wide
      BY <1>4, SetFlags
    <3> QED BY <1>4, <3>1 DEF Wide, Around
  <2> HIDE DEF d
  <2>2. Around(app, d)
    BY <1>2, <2>1, AroundTwice
  <2>3. Stays(app, d)
    BY <2>2 DEF Stays, Around
  <2>5. Keeps(d, Members(signals))
    BY <1>1, <2>2, <2>3, <1>2, <2>1, ToStay DEF Around, Hears, Replies
  <2> QED BY <1>5, <2>5, DoProgress DEF Endpoint
<1>6. /\ Around(t, c) /\ c.voice = t.voice /\ c.op = t.op /\ ~c.mic /\ c.renew = t.renew
      /\ c.deaf = t.deaf /\ c.sound = t.sound /\ c.opens = t.opens /\ c \in Wide
  BY <1>4, CloseMicIs DEF Around
<1> HIDE DEF c
<1>7. Around(app, c)
  BY <1>2, <1>6, AroundTwice
<1>8. CASE Do(e)
  <2>1. Around(c, e) /\ e.deaf
    BY <1>6, ReportErrorIs
  <2> HIDE DEF e
  <2>2. Around(app, e)
    BY <1>7, <2>1, AroundTwice
  <2>3. Stays(app, e)
    BY <2>2 DEF Stays, Around
  <2>4. Keeps(e, Members(signals))
    BY <1>1, <2>1, <2>2, <2>3, ToStay DEF Around
  <2> QED BY <1>8, <2>4, DoProgress DEF Endpoint
<1>9. CASE Do(EndUserTurn(c))
  BY <1>1, <1>2, <1>6, <1>7, ToEnd, <1>9, DoProgress DEF Endpoint
<1> QED BY <1>3, <1>5, <1>8, <1>9

LEMMA TimeoutProgress ==
    ASSUME IInv, Order, Progress, Timeout
    PROVE  Progress'
<1> DEFINE c == CloseMic(app)
           h == [c EXCEPT !.renew = TRUE]
<1>1. app \in Wide /\ ~app.opens /\ Busy /\ Present /\ app.mic /\ ~app.renew
  BY Here DEF Timeout, Busy, Progress
<1>2. /\ Around(app, c) /\ c.voice = app.voice /\ c.op = app.op /\ ~c.mic
      /\ c.renew = app.renew /\ c.deaf = app.deaf /\ c.sound = app.sound
      /\ c.opens = app.opens /\ c \in Wide
  BY <1>1, CloseMicIs DEF Around
<1>3. Do(EndUserTurn(c)) \/ Do(h)
  BY Zenon DEF Timeout
<1> HIDE DEF c
<1>4. CASE Do(EndUserTurn(c))
  BY <1>1, <1>2, ToEnd, <1>4, DoProgress DEF Hears, Replies, Timeout
<1>5. CASE Do(h)
  <2>1. /\ Around(c, h) /\ h.voice = c.voice /\ h.op = c.op /\ h.mic = c.mic
        /\ h.renew /\ h.deaf = c.deaf /\ h.sound = c.sound /\ h.opens = c.opens
    BY <1>2, FlagIs
  <2> HIDE DEF h
  <2>2. Around(app, h)
    BY <1>2, <2>1, AroundTwice
  <2>3. Stays(app, h)
    BY <2>2 DEF Stays, Around
  <2>5. Keeps(h, Members(signals))
    BY <1>1, <2>2, <2>3, <1>2, <2>1, ToStay DEF Around, Hears, Replies
  <2> QED BY <1>5, <2>5, DoProgress DEF Timeout
<1> QED BY <1>3, <1>4, <1>5

LEMMA RenewProgress ==
    ASSUME IInv, Order, Progress, Renew
    PROVE  Progress'
<1> DEFINE r == [app EXCEPT !.renew = FALSE]
           l == Listen(r)
           h == IF app.voice = "LISTENING" /\ ~app.mic THEN l ELSE r
<1>1. app \in Wide /\ ~app.opens /\ Busy /\ Present /\ app.renew
  BY Here DEF Renew, Busy, Progress
<1>2. /\ Around(app, r) /\ r.voice = app.voice /\ r.op = app.op /\ r.mic = app.mic
      /\ ~r.renew /\ r.deaf = app.deaf /\ r.sound = app.sound
      /\ r.opens = app.opens /\ r \in Wide
  BY <1>1, FlagIs DEF Around
<1>3. Do(h)
  BY Zenon DEF Renew
<1> HIDE DEF r
<1>4. CASE h = l /\ r.op # "output" /\ app.voice = "LISTENING" /\ ~app.mic
  <2>1. /\ Around(r, l) /\ l.voice = "LISTENING" /\ l.op = "input" /\ l.mic = r.mic
        /\ l.renew = r.renew /\ l.deaf = r.deaf /\ l.sound = r.sound
        /\ l.opens = ~r.mic
    BY <1>2, <1>4, ListenIs
  <2> HIDE DEF l
  <2>2. Around(app, l)
    BY <1>2, <2>1, AroundTwice
  <2>3. Stays(app, l)
    BY <2>2 DEF Stays, Around
  <2>4. app.turn # None /\ (app.deaf \/ Hears(app) \/ Replies(app)) => l.deaf \/ Hears(l)
    BY ZenonT(40), <1>1, <1>2, <1>4, <2>1, <2>2 DEF Hears, Replies, Around
  <2>5. Keeps(l, Members(signals))
    BY <1>1, <2>2, <2>3, <2>4, ToStay DEF Around
  <2> QED BY <1>3, <1>4, <2>5, DoProgress DEF Renew
<1>5. CASE h = r /\ (app.voice # "LISTENING" \/ app.mic \/ r.op = "output")
  BY <1>2, <1>1, <1>5, ToStay, <1>3, DoProgress DEF Stays, Around, Hears, Replies, Renew
<1>6. r.op = "output" => l = r
  BY DEF Listen
<1> QED BY <1>4, <1>5, <1>6

LEMMA MicFailsProgress ==
    ASSUME IInv, Order, Progress, MicFails
    PROVE  Progress'
BY Here, CloseMicIs, AroundLess, LessCore, EndedIs, InactiveKeeps, DoProgress DEF MicFails

LEMMA StopAllSpeechProgress ==
    ASSUME IInv, Order, Progress, StopAllSpeech
    PROVE  Progress'
<1> DEFINE v == StopSpeech(app)
           h == [v EXCEPT !.deaf = TRUE]
<1>1. app \in Wide /\ Busy /\ Present
  BY Here DEF StopAllSpeech, Busy, Progress
<1>2. Around(app, v) /\ v \in Wide
  BY <1>1, StopSpeechIs DEF Around
<1> HIDE DEF v
<1>3. Around(v, h) /\ h.deaf
  BY <1>2, FlagIs
<1>4. Do(h)
  BY Zenon DEF StopAllSpeech, v
<1> HIDE DEF h
<1>5. Around(app, h)
  BY <1>2, <1>3, AroundTwice
<1>6. Stays(app, h)
  BY <1>5 DEF Stays, Around
<1>7. Keeps(h, Members(signals))
  BY <1>1, <1>3, <1>5, <1>6, ToStay DEF Around
<1> QED BY <1>4, <1>7, DoProgress DEF StopAllSpeech

LEMMA SaveSettingsProgress ==
    ASSUME IInv, Order, Progress, SaveSettings
    PROVE  Progress'
<1> DEFINE p == [app EXCEPT !.sound = None]
           q == [p EXCEPT !.deaf = TRUE]
<1>1. app \in Wide /\ Busy /\ Present
  BY Here DEF SaveSettings, Busy, Progress
<1>2. Around(app, p) /\ p \in Wide
  BY <1>1, SetTurns DEF Wide, Around
<1>3. q = [app EXCEPT !.sound = None, !.deaf = TRUE]
  OBVIOUS
<1> HIDE DEF p
<1>4. Around(p, q) /\ q.deaf /\ q \in Wide
  BY <1>2, FlagIs DEF Around
<1> HIDE DEF q
<1>5. Do(CloseMic(q)) \/ Do(ReportError(q))
  BY <1>3, Zenon DEF SaveSettings
<1>6. ASSUME NEW h, h \in {CloseMic(q), ReportError(q)}
      PROVE  Keeps(h, Members(signals))
  BY <1>4, <1>6, CloseMicIs, ReportErrorIs, <1>2, AroundTwice, <1>1, ToStay DEF Stays,
     Around
<1> QED BY <1>5, <1>6, DoProgress DEF SaveSettings

\* A pause excuses what is then not answered.
LEMMA SuspendProgress ==
    ASSUME IInv, Order, Progress, Suspend
    PROVE  Progress'
<1> DEFINE x == IF app.turn = None THEN app.barred ELSE app.barred \cup {app.turn[2]}
           p == [app EXCEPT !.paused = TRUE]
           h == [p EXCEPT !.barred = x]
<1>1. app \in Wide /\ Present
  BY Here DEF Progress
<1>2. x \in Bars
  BY AppIsGood, TurnNames DEF Wide, Bars, Numbers
<1>3. h = [app EXCEPT !.paused = TRUE, !.barred = x]
  OBVIOUS
<1>4. Do(h)
  BY <1>3, Zenon DEF Suspend
<1> HIDE DEF x
<1>5. p \in Wide
  BY <1>1, SetFlags
<1>6. /\ p.voice = app.voice /\ p.op = app.op /\ p.mic = app.mic
      /\ p.renew = app.renew /\ p.deaf = app.deaf /\ p.sound = app.sound
      /\ p.opens = app.opens /\ p.sent = app.sent /\ p.active = app.active
      /\ p.alone = app.alone /\ p.thread = app.thread
      /\ p.turn = app.turn /\ p.bridge = app.bridge /\ p.out = app.out
      /\ p.play = app.play /\ p.playing = app.playing /\ p.life = app.life
      /\ p.session = app.session /\ p.held = app.held /\ p.next = app.next /\ p.paused
  BY <1>1 DEF Wide
<1> HIDE DEF p
<1>7. /\ h \in Wide
      /\ h.voice = p.voice /\ h.op = p.op /\ h.mic = p.mic
      /\ h.renew = p.renew /\ h.deaf = p.deaf /\ h.sound = p.sound
      /\ h.opens = p.opens /\ h.sent = p.sent /\ h.active = p.active
      /\ h.alone = p.alone /\ h.thread = p.thread
      /\ h.turn = p.turn /\ h.bridge = p.bridge /\ h.out = p.out
      /\ h.play = p.play /\ h.playing = p.playing /\ h.life = p.life
      /\ h.session = p.session /\ h.held = p.held /\ h.next = p.next /\ h.paused
  BY <1>2, <1>5, <1>6 DEF Wide
<1> HIDE DEF h
<1>8. ASSUME app.thread \in Sessions,
             Moving(app, Own, Members(Own.calls), Members(signals))
      PROVE  Moving(h, Own, Desk(h), Members(signals))
  <2>1. Desk(h) = Members(Own.calls)
    BY <1>6, <1>7, <1>8, Here, DeskIs
  <2>2. CASE app.turn # None
    BY <1>6, <1>7, <1>8, <2>2, <2>1, StaysGoing DEF Stays, Moving, Hears, Replies
  <2>3. CASE app.turn = None
    BY <1>6, <1>7, <1>8, <2>3, <2>1 DEF Moving, Reserved, Bygone, Waits
  <2> QED BY <2>2, <2>3
<1>9. Keeps(h, Members(signals))
  BY <1>1, <1>6, <1>7, <1>8, ToKeep
<1> QED BY <1>4, <1>9, DoProgress DEF Suspend

LEMMA SoundFailsProgress ==
    ASSUME IInv, Order, Progress, SoundFails
    PROVE  Progress'
BY Here, CancelPlayQuiet, LessCore, EndedIs, InactiveKeeps, DoProgress DEF Quiet, SoundFails
-----------------------------------------------------------------------------
(* The next turn *)

\* The conversation goes on, if at all, with its own worker.
Stands(s, q) ==
    /\ q \in Wide
    /\ q.active => s.active /\ q.alone = s.alone /\ q.thread = s.thread

\* The next turn has been begun and the user is heard on it.
Begins(s, q) ==
    /\ q.thread = s.thread /\ q.life = s.life /\ q.session = s.session /\ q.sent = s.sent
    /\ q.turn = <<s.session, s.next>> /\ q.turn # None
    /\ q.held = s.next /\ q.next = s.next + 1
    /\ Hears(q)

LEMMA TakesIs ==
    ASSUME NEW s, Core(s), s.life # "IDLE", s.text = None, s.play = "off"
    PROVE  LET k == TakeTurn(Adopt(s))
           IN  /\ Stands(s, k) /\ k.active = s.active /\ Core(k)
               /\ s.bridge = None =>
                     /\ k.thread = s.thread /\ k.life = s.life /\ k.session = s.session
                     /\ k.sent = s.sent /\ k.turn = <<s.session, s.next>> /\ k.turn # None
                     /\ k.held = s.next /\ k.next = s.next + 1 /\ k.bridge = k.turn
                     /\ ~k.out /\ k.play = "open" /\ ~k.playing /\ k.op = s.op
                     /\ k.voice = s.voice /\ k.mic = s.mic /\ k.raised = s.raised
<1> DEFINE a == Adopt(s)
           x == [turn |-> a.turn, final |-> FALSE]
           t == [a EXCEPT !.text = x]
           m == [t EXCEPT !.bridge = a.turn, !.play = "open", !.playing = FALSE, !.more = None]
           k == TakeTurn(a)
<1>1. s \in Wide
  BY DEF Core
<1>2. /\ Core(a) /\ a.turn # None /\ \A i \in 1..Len(a.chat) : a.chat[i] # a.turn
      /\ a.text = None /\ a.play = s.play /\ a.active = s.active
  BY AdoptIsNew
<1>3. a \in Wide
  BY <1>2 DEF Core
<1>4. /\ a.thread = s.thread /\ a.session = s.session /\ a.next = s.next + 1
      /\ a.held = s.next /\ a.life = s.life
      /\ a.sent = s.sent /\ a.turn = <<s.session, s.next>> /\ a.alone = s.alone
      /\ a.bridge = s.bridge /\ ~a.out /\ a.op = s.op /\ a.voice = s.voice
      /\ a.mic = s.mic /\ a.raised = s.raised
  BY <1>1 DEF Wide, Adopt
<1>5. Core(k) /\ k \in Wide /\ k.active = a.active
  BY <1>2, TakeTurnGoes DEF Core
<1>6. k \in {Raise(t), m} /\ (a.bridge = None => k = m)
  BY <1>2, Zenon DEF TakeTurn
<1> HIDE DEF a
<1>7. k.alone = a.alone /\ k.thread = a.thread
  <2>1. CASE k = Raise(t)
    <3>1. Raise(t).alone = a.alone /\ Raise(t).thread = a.thread
      <4> HIDE DEF x, k
      <4> QED BY <1>3 DEF Raise, Wide
    <3> QED BY <2>1, <3>1
  <2>2. CASE k = m
    <3>1. m.alone = a.alone /\ m.thread = a.thread
      <4> HIDE DEF x, k
      <4> QED BY <1>3 DEF Wide
    <3> QED BY <2>2, <3>1
  <2> HIDE DEF k, t, m
  <2> QED BY <1>6, <2>1, <2>2
<1>8. ASSUME k = m
      PROVE  /\ k.thread = a.thread /\ k.life = a.life /\ k.session = a.session
             /\ k.sent = a.sent /\ k.turn = a.turn
             /\ k.held = a.held /\ k.next = a.next /\ k.bridge = a.turn
             /\ k.out = a.out /\ k.play = "open" /\ ~k.playing /\ k.op = a.op
             /\ k.voice = a.voice /\ k.mic = a.mic /\ k.raised = a.raised
  <2> HIDE DEF x, k
  <2> QED BY <1>3, <1>8 DEF Wide
<1> HIDE DEF k, m, t
<1>9. Stands(s, k)
  BY <1>2, <1>4, <1>5, <1>7 DEF Stays, Stands
<1> QED BY <1>2, <1>4, <1>5, <1>6, <1>8, <1>9 DEF a, k

LEMMA BeginTurnIs ==
    ASSUME NEW s, Core(s), s.text = None, s.play = "off"
    PROVE  LET q == BeginTurn(s)
           IN  /\ Stands(s, q)
               /\ /\ s.life = "ACTIVE" /\ s.held = 0 /\ s.bridge = None
                  /\ s.op # "output" /\ ~s.raised
                  => Begins(s, q)
<1> DEFINE k == TakeTurn(Adopt(s))
           q == BeginTurn(s)
<1>1. s \in Wide
  BY DEF Core
<1>2. CASE s.life # "ACTIVE" \/ s.held # 0
  <2>1. q = Raise(s) /\ Raise(s) \in Wide
    BY <1>1, <1>2, SetFlags DEF BeginTurn, Raise
  <2>2. Stands(s, Raise(s))
    BY <1>1, <2>1 DEF Raise, Stands, Wide
  <2> QED BY <1>2, <2>1, <2>2
<1>3. CASE s.life = "ACTIVE" /\ s.held = 0
  <2>1. /\ Stands(s, k) /\ k.active = s.active /\ Core(k)
        /\ s.bridge = None =>
              /\ k.thread = s.thread /\ k.life = s.life /\ k.session = s.session
              /\ k.sent = s.sent /\ k.turn = <<s.session, s.next>> /\ k.turn # None
              /\ k.held = s.next /\ k.next = s.next + 1 /\ k.bridge = k.turn
              /\ ~k.out /\ k.play = "open" /\ ~k.playing /\ k.op = s.op
              /\ k.voice = s.voice /\ k.mic = s.mic /\ k.raised = s.raised
    BY <1>3, TakesIs
  <2>2. q = IF k.raised THEN k ELSE Listen(k)
    BY <1>3 DEF BeginTurn
  <2> HIDE DEF k
  <2>3. k.op = "output" => Listen(k) = k
    BY DEF Listen
  <2>4. k \in Wide
    BY <2>1 DEF Stands
  <2>5. k.op # "output" =>
           /\ Around(k, Listen(k)) /\ Listen(k).voice = "LISTENING"
           /\ Listen(k).op = "input" /\ Listen(k).mic = k.mic
           /\ Listen(k).opens = ~k.mic
    BY <2>4, ListenIs
  <2>6. Stands(s, q)
    BY <2>1, <2>2, <2>3, <2>5 DEF Stands, Around
  <2>7. ASSUME s.bridge = None, s.op # "output", ~s.raised
        PROVE  Begins(s, q)
    BY <2>1, <2>2, <2>4, <2>7, <2>5 DEF Wide, Hears, Around, Begins
  <2> HIDE DEF q
  <2> QED BY <2>6, <2>7 DEF q
<1> QED BY <1>2, <1>3

\* An open turn that can be completed.
Full(s) ==
    /\ s.turn # None /\ s.life = "ACTIVE" /\ s.held = s.turn[2] /\ s.bridge = None /\ ~s.raised

LEMMA PlaybackCompletedIs ==
    ASSUME NEW s, Core(s), s.active, s.text = None, s.play = "off"
    PROVE  LET q == PlaybackCompleted(s)
           IN  /\ Stands(s, q)
               /\ Full(s) => ~q.active \/ Begins(s, q)
<1> DEFINE x == IF Owns(s, s.held) THEN 0 ELSE s.held
           h == [s EXCEPT !.held = x]
           t == [h EXCEPT !.turn = None]
           o == [t EXCEPT !.out = FALSE]
           i == Idle(o)
           q == PlaybackCompleted(s)
<1>1. s \in Wide /\ x \in Nat /\ x \in {s.held, 0}
  BY DEF Core, Wide
<1>2. CASE s.paused
  BY <1>2, EndedIs DEF PlaybackCompleted, Stands
<1>3. CASE ~s.paused
  <2>1. q = BeginTurn(i)
    BY <1>3, Zenon DEF PlaybackCompleted
  <2>2. h \in Wide
    <3> HIDE DEF x
    <3> QED BY <1>1, SetLedger
  <2>3. t \in Wide
    <3> HIDE DEF h
    <3> QED BY <2>2, SetTurns
  <2>4. o \in Wide
    <3> HIDE DEF t
    <3> QED BY <2>3, SetFlags
  <2>5. Full(s) => x = 0
    BY DEF Full, Owns
  <2> HIDE DEF x, i, q
  <2>6. Less(s, o) /\ o.text = None /\ o.play = "off" /\ o.held = x /\ o.thread = s.thread
    BY <1>1, <2>4 DEF Wide, Less, Same
  <2>7. /\ o.active = s.active /\ o.alone = s.alone /\ o.life = s.life
        /\ o.session = s.session /\ o.sent = s.sent /\ o.next = s.next
        /\ o.bridge = s.bridge /\ o.raised = s.raised
    BY <1>1 DEF Wide
  <2> HIDE DEF o
  <2>8. Around(o, i) /\ i.op = "none" /\ i.sound = o.sound
    BY <2>4, IdleIs DEF i
  <2>9. Core(i)
    BY <2>6, <2>8, AroundLess, LessCore
  <2>10. /\ Stands(i, q)
         /\ /\ i.life = "ACTIVE" /\ i.held = 0 /\ i.bridge = None
            /\ i.op # "output" /\ ~i.raised
            => Begins(i, q)
    BY <2>1, <2>6, <2>8, <2>9, BeginTurnIs DEF Around
  <2>11. Stands(s, q)
    BY <2>6, <2>7, <2>8, <2>10 DEF Stands, Around
  <2>12. Full(s) => Begins(s, q)
    BY <2>5, <2>6, <2>7, <2>8, <2>10 DEF Full, Begins, Around
  <2> QED BY <2>11, <2>12 DEF q
<1> QED BY <1>2, <1>3

LEMMA CompleteIfReadyIs ==
    ASSUME NEW s, Core(s), s.active
    PROVE  LET q == CompleteIfReady(s)
           IN  /\ Stands(s, q)
               /\ Full(s) => \/ ~q.active
                             \/ q = s /\ (s.play # "finishing" \/ s.playing \/ s.more # None)
                             \/ Begins(s, q)
<1> DEFINE p == [s EXCEPT !.play = "off"]
           q == CompleteIfReady(s)
<1>1. s \in Wide
  BY DEF Core
<1>2. \/ q = s /\ (s.play # "finishing" \/ s.playing \/ s.more # None)
      \/ q = PlaybackCompleted(p) /\ s.play = "finishing"
  BY DEF CompleteIfReady
<1>3. CASE q = s /\ (s.play # "finishing" \/ s.playing \/ s.more # None)
  BY <1>1, <1>3 DEF Stands
<1>4. CASE q = PlaybackCompleted(p) /\ s.play = "finishing"
  <2>1. p \in Wide
    BY <1>1, SetPlay
  <2>2. /\ Less(s, p) /\ p.play = "off" /\ p.text = s.text /\ p.active = s.active
        /\ p.alone = s.alone /\ p.thread = s.thread /\ p.life = s.life
        /\ p.session = s.session /\ p.sent = s.sent /\ p.next = s.next /\ p.held = s.held
        /\ p.bridge = s.bridge /\ p.raised = s.raised /\ p.turn = s.turn
    BY <1>1, <2>1 DEF Wide, Less, Same
  <2> HIDE DEF p, q
  <2>3. Core(p) /\ p.text = None
    BY <1>4, <2>2, LessCore DEF Core, Transcribed
  <2>4. Stands(p, q) /\ (Full(p) => ~q.active \/ Begins(p, q))
    BY <1>4, <2>2, <2>3, PlaybackCompletedIs
  <2>5. Stands(s, q)
    BY <2>2, <2>4 DEF Stands
  <2>6. Full(s) => ~q.active \/ Begins(s, q)
    BY <2>2, <2>4 DEF Full, Begins
  <2> QED BY <2>5, <2>6 DEF q
<1> HIDE DEF q, p
<1> QED BY <1>2, <1>3, <1>4 DEF q

LEMMA PlaySegmentIs ==
    ASSUME NEW s \in Wide, NEW a \in Names
    PROVE  LET q == PlaySegment(s, a)
           IN  /\ q \in Wide /\ q.playing /\ q.active = s.active /\ q.alone = s.alone
               /\ q.thread = s.thread /\ q.turn = s.turn /\ q.bridge = s.bridge
               /\ q.text = s.text /\ q.play = s.play /\ q.more = s.more /\ q.life = s.life
               /\ q.session = s.session /\ q.held = s.held /\ q.next = s.next
               /\ q.paused = s.paused /\ q.sent = s.sent /\ q.raised = s.raised
               /\ q.opens = s.opens /\ q.mic = s.mic /\ q.renew = s.renew
               /\ \/ q.deaf
                  \/ q.sound = a /\ q.voice = "THINKING" /\ q.deaf = s.deaf
               /\ s.deaf => q.deaf
<1> DEFINE e == ReportError(s)
           p == [s EXCEPT !.playing = TRUE, !.sound = a]
           q == [e EXCEPT !.playing = TRUE]
<1>1. PlaySegment(s, a) \in Wide
  BY PlaySegmentTakes
<1>2. (PlaySegment(s, a) = p /\ s.voice = "THINKING") \/ PlaySegment(s, a) = q
  BY DEF PlaySegment
<1>3. CASE PlaySegment(s, a) = p /\ s.voice = "THINKING"
  BY <1>1, <1>3 DEF Wide
<1>4. CASE PlaySegment(s, a) = q
  <2>1. Around(s, e) /\ e.deaf /\ e.opens = s.opens /\ e.mic = s.mic /\ e.renew = s.renew
    BY ReportErrorIs
  <2> HIDE DEF e
  <2> QED BY <1>1, <1>4, <2>1 DEF Around, Wide
<1> QED BY <1>2, <1>3, <1>4

LEMMA PlayMoreIs ==
    ASSUME NEW s \in Wide, s.more # None
    PROVE  LET q == PlayMore(s)
           IN  /\ q \in Wide /\ q.playing /\ q.active = s.active /\ q.alone = s.alone
               /\ q.thread = s.thread /\ q.turn = s.turn /\ q.bridge = s.bridge
               /\ q.text = s.text /\ q.play = s.play /\ q.life = s.life
               /\ q.session = s.session /\ q.held = s.held /\ q.next = s.next
               /\ q.paused = s.paused /\ q.sent = s.sent /\ q.raised = s.raised
               /\ q.opens = s.opens /\ q.mic = s.mic /\ q.renew = s.renew
               /\ \/ q.deaf
                  \/ q.sound # None /\ q.voice = "THINKING" /\ q.deaf = s.deaf
               /\ s.deaf => q.deaf
<1> DEFINE m == [s EXCEPT !.more = None]
           a == s.more
<1>1. m \in Wide /\ a \in Names /\ a # None
  BY SetTurns, TurnNames DEF Wide
<1>2. PlayMore(s) = PlaySegment(m, a)
  BY DEF PlayMore
<1>3. /\ m.active = s.active /\ m.alone = s.alone
      /\ m.thread = s.thread /\ m.turn = s.turn /\ m.bridge = s.bridge
      /\ m.text = s.text /\ m.play = s.play /\ m.life = s.life
      /\ m.session = s.session /\ m.held = s.held /\ m.next = s.next
      /\ m.paused = s.paused /\ m.sent = s.sent /\ m.raised = s.raised
      /\ m.opens = s.opens /\ m.mic = s.mic /\ m.renew = s.renew /\ m.deaf = s.deaf
  BY <1>1 DEF Wide
<1> HIDE DEF m, a
<1> DEFINE q == PlaySegment(m, a)
<1>4. /\ q \in Wide /\ q.playing /\ q.active = m.active /\ q.alone = m.alone
      /\ q.thread = m.thread /\ q.turn = m.turn /\ q.bridge = m.bridge
      /\ q.text = m.text /\ q.play = m.play /\ q.more = m.more /\ q.life = m.life
      /\ q.session = m.session /\ q.held = m.held /\ q.next = m.next
      /\ q.paused = m.paused /\ q.sent = m.sent /\ q.raised = m.raised
      /\ q.opens = m.opens /\ q.mic = m.mic /\ q.renew = m.renew
      /\ \/ q.deaf
         \/ q.sound = a /\ q.voice = "THINKING" /\ q.deaf = m.deaf
      /\ m.deaf => q.deaf
  BY <1>1, PlaySegmentIs
<1> HIDE DEF q
<1> QED BY <1>2, <1>1, <1>3, <1>4 DEF q

\* An open turn that finishes: nothing more is awaited, and what is heard is its sound.
Finishes(s, q) ==
    /\ q.thread = s.thread /\ q.turn = s.turn /\ q.life = s.life /\ q.session = s.session
    /\ q.held = s.held /\ q.next = s.next /\ q.sent = s.sent
    /\ q.bridge = None /\ q.play # "open"
    /\ q.deaf \/ Replies(q)

LEMMA FinishTurnIs ==
    ASSUME NEW s, Core(s), s.active, s.text = None
    PROVE  LET q == FinishTurn(s)
           IN  /\ Stands(s, q)
               /\ Full(s) /\ (s.deaf \/ Replies(s)) =>
                     ~q.active \/ Begins(s, q) \/ Finishes(s, q)
<1> DEFINE f == [s EXCEPT !.play = "finishing"]
           g == IF f.more # None /\ ~f.playing THEN PlayMore(f) ELSE f
           q == FinishTurn(s)
<1>1. s \in Wide
  BY DEF Core
<1>2. CASE s.play # "open"
  <2>1. q = s
    BY <1>2 DEF FinishTurn
  <2> HIDE DEF q
  <2> QED BY <1>1, <1>2, <2>1 DEF q, Stands, Full, Finishes
<1>3. CASE s.play = "open"
  <2>1. q = CompleteIfReady(g)
    BY <1>3, Zenon DEF FinishTurn
  <2>2. f \in Wide
    BY <1>1, SetPlay
  <2>3. /\ f.session = s.session /\ f.life = s.life /\ f.thread = s.thread
        /\ f.chat = s.chat /\ f.next = s.next /\ f.held = s.held
        /\ f.turn = s.turn /\ f.text = s.text /\ f.bridge = s.bridge /\ f.more = s.more
        /\ f.sound = s.sound /\ f.active = s.active /\ f.opens = s.opens
    BY ZenonT(40), <1>1, <2>2 DEF Wide
  <2>4. /\ f.play = "finishing" /\ f.playing = s.playing /\ f.deaf = s.deaf
        /\ f.voice = s.voice /\ f.mic = s.mic /\ f.renew = s.renew /\ f.sent = s.sent
        /\ f.alone = s.alone /\ f.paused = s.paused /\ f.raised = s.raised
    BY <1>1, <2>2 DEF Wide
  <2> HIDE DEF f, q
  <2>5. Bounded(f) /\ Numbered(f)
    BY <2>3 DEF Core, Bounded, Named, Numbered, Begun
  <2>6. Core(f)
    BY <2>2, <2>3, <2>5 DEF Core, Transcribed, Lives
  <2>7. f.more # None =>
           LET p == PlayMore(f)
           IN  /\ p \in Wide /\ p.playing /\ p.active = f.active /\ p.alone = f.alone
               /\ p.thread = f.thread /\ p.turn = f.turn /\ p.bridge = f.bridge
               /\ p.text = f.text /\ p.play = f.play /\ p.life = f.life
               /\ p.session = f.session /\ p.held = f.held /\ p.next = f.next
               /\ p.paused = f.paused /\ p.sent = f.sent /\ p.raised = f.raised
               /\ p.opens = f.opens /\ p.mic = f.mic /\ p.renew = f.renew
               /\ \/ p.deaf
                  \/ p.sound # None /\ p.voice = "THINKING" /\ p.deaf = f.deaf
               /\ f.deaf => p.deaf
    BY <2>2, PlayMoreIs
  <2>8. Core(g)
    <3>1. Less(f, g)
      BY <2>2, PlayMoreQuiet, LessSelf DEF Quiet
    <3> HIDE DEF g
    <3> QED BY <2>6, <3>1, LessCore
  <2>9. /\ g.active = s.active /\ g.alone = s.alone /\ g.thread = s.thread
        /\ g.turn = s.turn /\ g.bridge = s.bridge /\ g.play = "finishing"
        /\ g.life = s.life /\ g.session = s.session /\ g.held = s.held /\ g.next = s.next
        /\ g.sent = s.sent /\ g.raised = s.raised
        /\ g.opens = s.opens /\ g.mic = s.mic
        /\ s.deaf => g.deaf
    BY <2>3, <2>4, <2>7
  <2>10. s.deaf \/ Replies(s) =>
            \/ g.deaf \/ Replies(g)
            \/ ~g.playing /\ g.more = None
    BY <2>3, <2>4, <2>7 DEF Replies
  <2> HIDE DEF g
  <2>11. /\ Stands(g, q)
         /\ Full(g) => \/ ~q.active
                       \/ q = g /\ (g.play # "finishing" \/ g.playing \/ g.more # None)
                       \/ Begins(g, q)
    BY <1>3, <2>1, <2>8, <2>9, CompleteIfReadyIs
  <2>12. Stands(s, q)
    BY <2>9, <2>11 DEF Stands
  <2>13. ASSUME Full(s), s.deaf \/ Replies(s)
         PROVE  ~q.active \/ Begins(s, q) \/ Finishes(s, q)
    BY <2>9, <2>13, <2>10, <2>11 DEF Full, Begins, Finishes
  <2> QED BY <2>12, <2>13 DEF q
<1> QED BY <1>2, <1>3

\* The next turn is begun beside the signals S.
LEMMA ToBegin ==
    ASSUME IInv, Order, app.thread \in Sessions, NEW S, \A m \in S : m \in Signals,
           Reserved(app, Own), Own.phase = "live",
           Bygone(app, Own, Members(Own.calls), S),
           NEW s, s.thread = app.thread, s.life = app.life, s.session = app.session,
           s.next = app.next, s.sent = <<>>, NEW q, Begins(s, q)
    PROVE  Moving(q, Own, Desk(q), S)
<1> DEFINE C == Members(Own.calls)
<1>1. Desk(q) = C
  BY Here, DeskIs DEF Begins
<1>2. Own.turn \in Nat /\ Own.quarantine \in Nat /\ Own.calls \in Seq(Calls)
      /\ Own.wire \in Seq(Events)
  BY Here, WorkerTyped
<1>3. \A c \in C : c.turn[2] \in Nat
  BY <1>2, MembersAre, CallsTyped
<1>4. \A e \in Members(Own.wire) : e.turn \in Nat
  BY <1>2, MembersAre, CallsTyped
<1>5. \A m \in S : m.turn \in Nat
  BY CallsTyped
<1>6. app.next \in Nat
  BY Here
<1> HIDE DEF C
<1>7. Moving(q, Own, C, S)
  BY <1>2, <1>3, <1>4, <1>5, <1>6, BegunGoing DEF C, Begins
<1> QED BY <1>1, <1>7

LEMMA SoundEndsProgress ==
    ASSUME IInv, Order, Progress, SoundEnds
    PROVE  Progress'
<1> DEFINE p == [app EXCEPT !.sound = None]
           e == [p EXCEPT !.playing = FALSE]
           S == Members(signals)
<1>1. /\ app \in Wide /\ Core(app) /\ Busy /\ Present /\ app.playing /\ ~app.raised
      /\ app.sent = <<>> /\ app.sound # None /\ app.active
  BY Here DEF SoundEnds, Busy, Progress, IInv, TypeOK, Good, Rested
<1>2. e = [app EXCEPT !.sound = None, !.playing = FALSE]
  OBVIOUS
<1>3. \/ app.more # None /\ Do(PlayMore(e))
      \/ app.more # None /\ app.play # "finishing" /\ Do(e)
      \/ app.more = None /\ Do(CompleteIfReady(e))
  BY <1>2, Zenon DEF SoundEnds
<1>4. p \in Wide
  BY <1>1, SetTurns
<1>5. e \in Wide
  <2> HIDE DEF p
  <2> QED BY <1>4, SetFlags
<1>6. /\ e.active = app.active /\ e.alone = app.alone /\ e.thread = app.thread
      /\ e.turn = app.turn /\ e.bridge = app.bridge /\ e.text = app.text
      /\ e.out = app.out /\ e.play = app.play /\ ~e.playing /\ e.more = app.more
      /\ e.life = app.life /\ e.session = app.session /\ e.held = app.held
      /\ e.next = app.next /\ e.paused = app.paused /\ e.sent = app.sent
      /\ e.chat = app.chat /\ e.raised = app.raised
  BY <1>1 DEF Wide
<1>7. /\ e.voice = app.voice /\ e.op = app.op /\ e.mic = app.mic /\ e.renew = app.renew
      /\ e.deaf = app.deaf /\ e.opens = app.opens /\ e.sound = None
  BY <1>1 DEF Wide
<1> HIDE DEF e
<1>8. Less(app, e)
  BY <1>5, <1>6, <1>7 DEF Less, Same
<1>9. Core(e)
  BY <1>1, <1>8, LessCore
<1>10. Stays(app, e)
  BY <1>6 DEF Stays
<1>11. CASE app.more # None /\ Do(PlayMore(e))
  <2> DEFINE q == PlayMore(e)
  <2>1. /\ q \in Wide /\ q.playing /\ q.active = e.active /\ q.alone = e.alone
        /\ q.thread = e.thread /\ q.turn = e.turn /\ q.bridge = e.bridge
        /\ q.text = e.text /\ q.play = e.play /\ q.life = e.life
        /\ q.session = e.session /\ q.held = e.held /\ q.next = e.next
        /\ q.paused = e.paused /\ q.sent = e.sent /\ q.raised = e.raised
        /\ q.opens = e.opens /\ q.mic = e.mic /\ q.renew = e.renew
        /\ \/ q.deaf
           \/ q.sound # None /\ q.voice = "THINKING" /\ q.deaf = e.deaf
        /\ e.deaf => q.deaf
    BY <1>5, <1>6, <1>11, PlayMoreIs
  <2> HIDE DEF q
  <2>2. Stays(app, q)
    BY <1>6, <2>1 DEF Stays
  <2>4. Keeps(q, S)
    BY <1>1, <1>6, <2>1, <2>2, <1>7, ToStay DEF Hears, Replies
  <2> QED BY <1>11, <2>4, DoProgress DEF SoundEnds, q
<1>12. CASE app.play # "finishing" /\ Do(e)
  BY <1>1, <1>6, <1>7, <1>12, <1>5, <1>10, ToStay, DoProgress DEF Hears, Replies, SoundEnds
<1>13. CASE app.play = "finishing" /\ Do(CompleteIfReady(e)) /\ app.more = None
  <2> DEFINE q == CompleteIfReady(e)
  <2>1. /\ Stands(e, q)
        /\ Full(e) => \/ ~q.active
                      \/ q = e /\ (e.play # "finishing" \/ e.playing \/ e.more # None)
                      \/ Begins(e, q)
    BY <1>1, <1>6, <1>9, CompleteIfReadyIs
  <2> HIDE DEF q
  <2>3. ASSUME q.active, app.thread \in Sessions, Own \in Worker,
               Moving(app, Own, Members(Own.calls), S)
        PROVE  Moving(q, Own, Desk(q), S)
    <3>1. app.turn # None
      BY <1>1, <2>3 DEF Moving, Waits
    <3>2. Full(e) /\ Own.phase = "live"
      BY <1>1, <1>6, <1>13, <2>3, <3>1 DEF Moving, Full, Open, Reserved
    <3>3. Begins(e, q)
      BY <1>6, <1>13, <2>1, <2>3, <3>2
    <3>4. \A m \in S : m \in Signals
      BY Here, MembersAre
    <3> HIDE DEF S
    <3> QED BY <1>1, <1>6, <2>3, <3>2, <3>3, <3>4, ToBegin DEF Moving
  <2>5. Keeps(q, S)
    BY <1>1, <2>1, <2>3, <1>6, ToKeep DEF Stands
  <2> QED BY <1>13, <2>5, DoProgress DEF SoundEnds, q
<1> QED BY <1>3, <1>11, <1>12, <1>13, <1>6 DEF CompleteIfReady

\* The answer is given up, with what is played of it.
LEMMA GivenUpIs ==
    ASSUME IInv, Order
    PROVE  LET c == CancelText([CancelPlay(StopSpeech(app)) EXCEPT !.bridge = None])
           IN  /\ Core(c) /\ c.text = None /\ c.play = "off" /\ c.bridge = None
               /\ c.active = app.active /\ c.alone = app.alone /\ c.thread = app.thread
               /\ c.life = app.life /\ c.session = app.session /\ c.next = app.next
               /\ c.sent = app.sent /\ c.raised = app.raised /\ c.deaf = app.deaf
<1> DEFINE v == StopSpeech(app)
           p == CancelPlay(v)
           b == [p EXCEPT !.bridge = None]
           c == CancelText(b)
<1>1. app \in Wide /\ Core(app)
  BY Here
<1>2. Around(app, v) /\ Quiet(app, v) /\ v \in Wide /\ v.deaf = app.deaf
  BY <1>1, StopSpeechIs, StopSpeechQuiet DEF Around
<1> HIDE DEF v
<1>3. Quiet(v, p) /\ p.play = "off" /\ p \in Wide
  BY <1>2, CancelPlayQuiet DEF Quiet, Less
<1>4. /\ p.active = v.active /\ p.alone = v.alone /\ p.thread = v.thread
      /\ p.life = v.life /\ p.session = v.session /\ p.next = v.next
      /\ p.sent = v.sent /\ p.raised = v.raised /\ p.deaf = v.deaf
  BY <1>2 DEF Wide, CancelPlay
<1> HIDE DEF p
<1>5. b \in Wide
  BY <1>3, SetTurns
<1>6. Quiet(p, b) /\ b.play = "off" /\ b.bridge = None
  BY <1>3, <1>5 DEF Wide, Quiet, Less, Same
<1>7. /\ b.active = p.active /\ b.alone = p.alone /\ b.thread = p.thread
      /\ b.life = p.life /\ b.session = p.session /\ b.next = p.next
      /\ b.sent = p.sent /\ b.raised = p.raised /\ b.deaf = p.deaf
  BY <1>3 DEF Wide
<1> HIDE DEF b
<1>8. Quiet(app, b) /\ Core(b)
  BY <1>1, <1>2, <1>3, <1>6, QuietTwice, LessCore DEF Quiet
<1>9. c = [b EXCEPT !.text = None] /\ c.text = None /\ Quiet(b, c)
  BY <1>8, CancelTextLess
<1>10. /\ c.active = b.active /\ c.alone = b.alone /\ c.thread = b.thread
       /\ c.life = b.life /\ c.session = b.session /\ c.next = b.next
       /\ c.sent = b.sent /\ c.raised = b.raised /\ c.deaf = b.deaf
       /\ c.play = b.play /\ c.bridge = b.bridge
  BY <1>5, <1>9 DEF Wide
<1>11. Core(c)
  BY <1>8, <1>9, LessCore DEF Quiet
<1> HIDE DEF c
<1>12. /\ Core(c) /\ c.text = None /\ c.play = "off" /\ c.bridge = None
       /\ c.active = app.active /\ c.alone = app.alone /\ c.thread = app.thread
       /\ c.life = app.life /\ c.session = app.session /\ c.next = app.next
       /\ c.sent = app.sent /\ c.raised = app.raised /\ c.deaf = app.deaf
  BY <1>2, <1>4, <1>6, <1>7, <1>9, <1>10, <1>11 DEF Around
<1> QED BY <1>12, Zenon DEF c, b, p, v

LEMMA TalkProgress ==
    ASSUME IInv, Order, Progress, Talk
    PROVE  Progress'
<1> DEFINE c == CancelText([CancelPlay(StopSpeech(app)) EXCEPT !.bridge = None])
           k == TakeTurn(Adopt(c))
           i == Idle(k)
           t == Submit(i, "interrupt", app.turn)
           d == [op |-> "interrupt", turn |-> app.turn]
           S == Members(signals)
           C == Members(Own.calls)
<1>1. /\ app \in Wide /\ app.turn \in Turns /\ app.turn # None /\ Busy /\ Present /\ ~app.opens
      /\ app.sent = <<>> /\ ~app.raised /\ app.active /\ app.voice = "THINKING"
  BY Here, TurnNames DEF Talk, Busy, Progress, IInv, TypeOK
<1>2. Do(IF c.life # "ACTIVE" THEN Raise(c) ELSE IF t.active THEN Listen(t) ELSE t)
  BY Zenon DEF Talk
<1>3. /\ Core(c) /\ c.text = None /\ c.play = "off" /\ c.bridge = None
      /\ c.active = app.active /\ c.alone = app.alone /\ c.thread = app.thread
      /\ c.life = app.life /\ c.session = app.session /\ c.next = app.next
      /\ c.sent = app.sent /\ c.raised = app.raised /\ c.deaf = app.deaf
  BY GivenUpIs
<1> HIDE DEF c
<1>4. CASE Do(Raise(c)) /\ c.life # "ACTIVE"
  <2> DEFINE q == Raise(c)
  <2>1. q \in Wide
    BY <1>3, SetFlags DEF Core, Raise
  <2>2. q.active = c.active /\ q.alone = c.alone /\ q.thread = c.thread
    BY <1>3 DEF Core, Wide, Raise
  <2> HIDE DEF q
  <2>4. Keeps(q, S)
    BY <1>1, <1>3, <1>4, <2>1, <2>2, ToKeep DEF Moving, Reserved, Waits, Open, Busy
  <2> QED BY <1>4, <2>4, DoProgress DEF Talk, q
<1>5. CASE c.life = "ACTIVE"
  <2>1. /\ Stands(c, k) /\ k.active = c.active /\ Core(k)
        /\ k.thread = c.thread /\ k.life = c.life /\ k.session = c.session
        /\ k.sent = c.sent /\ k.turn = <<c.session, c.next>> /\ k.turn # None
        /\ k.held = c.next /\ k.next = c.next + 1 /\ k.bridge = k.turn
        /\ ~k.out /\ k.play = "open" /\ ~k.playing
    BY <1>3, <1>5, TakesIs
  <2> HIDE DEF k
  <2>2. Around(k, i) /\ i.op = "none"
    BY <2>1, IdleIs DEF Core
  <2>3. Core(i)
    BY <2>1, IdleIs, <2>2, AroundLess, LessCore DEF Core
  <2> HIDE DEF i
  <2>4. /\ t \in Wide /\ d \in Calls
        /\ ~t.active \/ (/\ t.sent = Append(i.sent, d)
                         /\ t.voice = i.voice /\ t.op = i.op /\ t.mic = i.mic
                         /\ t.renew = i.renew /\ t.deaf = i.deaf /\ t.sound = i.sound
                         /\ t.opens = i.opens /\ t.active = i.active /\ t.alone = i.alone
                         /\ t.thread = i.thread /\ t.turn = i.turn /\ t.bridge = i.bridge
                         /\ t.out = i.out /\ t.play = i.play /\ t.playing = i.playing
                         /\ t.life = i.life /\ t.session = i.session /\ t.held = i.held
                         /\ t.next = i.next /\ t.paused = i.paused)
    BY <1>1, <2>3, SubmitIs
  <2> HIDE DEF t
  <2>5. CASE ~t.active
    BY <2>4, <2>5, InactiveKeeps, <1>2, <1>5, DoProgress DEF Talk
  <2>6. CASE t.active
    <3> DEFINE q == Listen(t)
    <3>0. d.turn = app.turn
      OBVIOUS
    <3> HIDE DEF d, S, C
    <3>1. t.op # "output" /\ t.mic \in BOOLEAN
      BY <2>2, <2>4, <2>6 DEF Wide
    <3>2. /\ Around(t, q) /\ q.voice = "LISTENING" /\ q.op = "input" /\ q.mic = t.mic
          /\ q.opens = ~t.mic
      BY <2>4, <3>1, ListenIs
    <3> HIDE DEF q
    <3>7. /\ i.active /\ i.alone = app.alone /\ i.thread = app.thread
          /\ i.life = app.life /\ i.session = app.session
          /\ i.turn = <<app.session, app.next>> /\ i.turn # None
          /\ i.held = app.next /\ i.next = app.next + 1 /\ i.sent = <<>>
          /\ i.bridge = i.turn /\ ~i.out /\ i.play = "open" /\ ~i.playing
      BY <1>1, <1>3, <2>1, <2>2 DEF Around, Stands
    <3>3. /\ q \in Wide /\ q.active /\ q.alone = app.alone /\ q.thread = app.thread
          /\ q.life = app.life /\ q.session = app.session
          /\ q.turn = <<app.session, app.next>> /\ q.turn # None
          /\ q.held = app.next /\ q.next = app.next + 1 /\ q.sent = Append(<<>>, d)
      BY ZenonT(40), <2>4, <2>6, <3>2, <3>7 DEF Around
    <3>4. Hears(q)
      BY ZenonT(40), <2>4, <2>6, <3>1, <3>2, <3>7 DEF Hears, Around
    <3>5. ASSUME app.thread \in Sessions, Own \in Worker, Moving(app, Own, C, S)
          PROVE  Moving(q, Own, Desk(q), S)
      <4>1. Open(app, Own, S) /\ Reserved(app, Own) /\ Bygone(app, Own, C, S)
        BY <1>1, <3>5 DEF Moving
      <4> DEFINE D == C \cup {d}
      <4>2. Desk(q) = D
        BY <2>4, <3>3, <3>5, DeskIs DEF C
      <4>3. Own.turn \in Nat /\ Own.quarantine \in Nat /\ Own.calls \in Seq(Calls)
            /\ Own.wire \in Seq(Events) /\ app.next \in Nat /\ app.turn[2] \in Nat
        BY <1>1, <3>5, Here, WorkerTyped
      <4>4. \A x \in C : x.turn[2] \in Nat
        BY <4>3, MembersAre, CallsTyped DEF C
      <4>5. \A e \in Members(Own.wire) : e.turn \in Nat
        BY <4>3, MembersAre, CallsTyped
      <4>6. \A m \in S : m.turn \in Nat
        BY Here, MembersAre, CallsTyped DEF S
      <4>8. Own.phase = "live"
        BY <4>1 DEF Open
      <4>9. Moving(q, Own, C, S)
        BY <3>3, <3>4, <4>1, <4>3, <4>4, <4>5, <4>6, <4>8, BegunGoing
      <4>10. Reserved(q, Own) /\ Open(q, Own, S) /\ Bygone(q, Own, C, S)
        BY <3>3, <4>9 DEF Moving
      <4>11. Bygone(q, Own, D, S)
        BY <3>3, <4>1, <4>3, <3>0, <4>10 DEF Bygone, Open
      <4>14. Moving(q, Own, D, S)
        BY <3>3, <3>4, <4>10, <4>11, <4>1, <4>3 DEF Moving, Coming, Bygone, Hears
      <4> QED BY <4>2, <4>14
    <3>6. Keeps(q, Members(signals))
      BY <1>1, <3>3, <3>5, ToKeep DEF C, S
    <3> QED BY <1>2, <1>5, <2>6, <3>6, DoProgress DEF Talk, q
  <2> QED BY <2>5, <2>6
<1> QED BY <1>2, <1>4, <1>5
-----------------------------------------------------------------------------
(* What the worker says *)

\* A signal is taken from the others.
LEMMA TakenAll ==
    ASSUME NEW s, NEW r, NEW C, NEW T, NEW m, Moving(s, r, C, T \cup {m}),
           m.kind # "connected",
           m.kind = "completed" /\ s.turn # None => m.turn # s.turn[2]
    PROVE  Moving(s, r, C, T)
<1> DEFINE S == T \cup {m}
<1>1. T \subseteq S /\ \A x \in S \ T : x = m
  OBVIOUS
<1>2. \A x \in S : x.kind = "connected" => x \in T
  BY <1>1
<1> HIDE DEF S
<1>3. Moving(s, r, C, S)
  BY DEF S
<1>4. CASE s.turn # None
  BY <1>1, <1>3, <1>4, TakenGoing
<1>5. CASE s.turn = None
  BY <1>1, <1>3, <1>2, <1>5 DEF Moving, Bygone, Waits
<1> QED BY <1>4, <1>5

LEMMA ToTake ==
    ASSUME IInv, Order, Present, NEW T, NEW m, Members(signals) = T \cup {m},
           m.kind \notin {"failed", "idle", "finished"}, NEW h \in Wide,
           h.active => app.active /\ h.alone = app.alone /\ h.thread = app.thread,
           (/\ h.active /\ app.active /\ app.thread \in Sessions /\ Own \in Worker
            /\ Moving(app, Own, Members(Own.calls), T \cup {m}))
           => Moving(h, Own, Desk(h), T)
    PROVE  Keeps(h, T)
BY Here DEF Lasts, Present, Going, Own, Keeps

\* The record stays as it is.
LEMMA SelfTakes ==
    ASSUME IInv, Order, Present, NEW T, NEW m, Members(signals) = T \cup {m},
           m.kind \notin {"connected", "failed", "idle", "finished"},
           app.active /\ Moving(app, Own, Members(Own.calls), T \cup {m})
              /\ m.kind = "completed" /\ app.turn # None => m.turn # app.turn[2]
    PROVE  Keeps(app, T)
<1>1. ASSUME app.active, app.thread \in Sessions,
             Moving(app, Own, Members(Own.calls), T \cup {m})
      PROVE  Moving(app, Own, Desk(app), T)
  BY <1>1, Here, DeskIs, TakenAll
<1>2. app \in Wide
  BY Here
<1> QED BY <1>1, <1>2, ToTake

LEMMA ConnectedTaken ==
    ASSUME IInv, Order, Present, NEW T, NEW m, Members(signals) = T \cup {m},
           m.kind = "connected", Unbegun(app), app.active
    PROVE  Keeps(BeginTurn(app), T)
<1> DEFINE q == BeginTurn(app)
           C == Members(Own.calls)
<1>1. /\ Core(app) /\ app.text = None /\ app.play = "off" /\ app.turn = None
      /\ app.sent = <<>> /\ ~app.raised
  BY Here DEF IInv, TypeOK, Unbegun
<1>2. /\ Stands(app, q)
      /\ /\ app.life = "ACTIVE" /\ app.held = 0 /\ app.bridge = None
         /\ app.op # "output" /\ ~app.raised
         => Begins(app, q)
  BY <1>1, BeginTurnIs
<1>3. app.thread # None => workers[app.thread].phase \notin Early \cup {"connecting"}
  <2>1. PICK i \in 1..Len(signals) : signals[i] = m
    BY DEF Members
  <2> QED BY <2>1 DEF IInv, Connecting, Says
<1> HIDE DEF q
<1>4. ASSUME app.thread \in Sessions, Moving(app, Own, C, T \cup {m})
      PROVE  Moving(q, Own, Desk(q), T)
  BY <1>1, <1>4, <1>3, TurnNames, <1>2, Here, MembersAre, ToBegin DEF Moving, Reserved,
     Early, Own, Waits, Bygone
<1> QED BY <1>2, <1>4, ToTake DEF Stands, q

LEMMA FinalTaken ==
    ASSUME IInv, Order, Present, NEW T, NEW m, Members(signals) = T \cup {m},
           m.kind = "final", NEW n
    PROVE  Keeps(HandleFinal(app, n), T)
<1> DEFINE x == [app.text EXCEPT !.final = TRUE]
           h == [app EXCEPT !.text = x]
<1>1. app \in Wide /\ Core(app)
  BY Here
<1>2. HandleFinal(app, n) = app \/ (app.text # None /\ HandleFinal(app, n) = h)
  BY Zenon DEF HandleFinal
<1>3. Keeps(app, T)
  BY SelfTakes
<1>4. CASE app.text # None /\ HandleFinal(app, n) = h
  <2>1. app.text \in NamedText
    BY <1>1, <1>4 DEF Wide
  <2>2. x \in NamedText
    BY <2>1 DEF NamedText
  <2> HIDE DEF x
  <2>3. h \in Wide
    BY <1>1, <2>2, SetText
  <2>4. /\ h.active = app.active /\ h.alone = app.alone /\ Stays(app, h)
        /\ h.bridge = app.bridge /\ h.sent = app.sent /\ h.deaf = app.deaf
        /\ (Hears(app) => Hears(h)) /\ (Replies(app) => Replies(h))
    BY <1>1, <2>3 DEF Wide, Stays, Hears, Replies
  <2> HIDE DEF h
  <2>5. app.turn # None
    BY <1>1, <1>4 DEF Core, Transcribed
  <2>6. ASSUME app.thread \in Sessions, Moving(app, Own, Members(Own.calls), T \cup {m})
        PROVE  Moving(h, Own, Desk(h), T)
    <3>1. Desk(h) = Members(Own.calls)
      BY <2>4, <2>6, Here, DeskIs
    <3> QED BY <2>4, <2>5, <3>1, <2>6, TakenAll, StaysGoing DEF Moving
  <2>7. Keeps(h, T)
    BY <2>3, <2>4, <2>6, ToTake DEF Stays
  <2> QED BY <1>4, <2>7 DEF h
<1> QED BY <1>2, <1>3, <1>4

LEMMA AudioTaken ==
    ASSUME IInv, Order, Present, NEW T, NEW m, Members(signals) = T \cup {m},
           m.kind = "audio", NEW n, NEW of \in Numbers \ {0},
           NEW h \in HandleAudio(app, n, of)
    PROVE  Keeps(h, T)
<1> DEFINE p == [app EXCEPT !.op = "output"]
           o == [p EXCEPT !.out = TRUE]
           c == IF app.out THEN app ELSE o
           a == <<app.thread, of>>
           q == [c EXCEPT !.more = a]
<1>1. app \in Wide /\ Core(app) /\ app.sent = <<>>
  BY Here
<1>2. Keeps(app, T)
  BY SelfTakes
<1>3. Keeps(Ended(app), T)
  BY <1>1, EndedIs, InactiveKeeps
<1>4. CASE h # app /\ h # Ended(app)
  <2>1. /\ h \in {Ended(c), q, PlaySegment(c, a)}
        /\ h = Ended(c) \/ c.turn[1] = c.thread
        /\ Owns(app, n) /\ (app.out \/ app.voice = "THINKING")
    BY <1>4, Zenon DEF HandleAudio
  <2>2. p \in Wide
    BY <1>1, SetOp
  <2>3. o \in Wide
    <3> HIDE DEF p
    <3> QED BY <2>2, SetFlags
  <2>4. app.active /\ app.turn # None
    BY <2>1 DEF Owns
  <2>5. /\ c \in Wide /\ Quiet(app, c) /\ Stays(app, c) /\ c.bridge = app.bridge
        /\ c.sent = app.sent /\ c.active = app.active /\ c.alone = app.alone
        /\ c.turn = app.turn /\ c.thread = app.thread /\ c.deaf = app.deaf
        /\ c.voice = app.voice /\ c.mic = app.mic /\ c.renew = app.renew
        /\ c.opens = app.opens /\ c.playing = app.playing /\ c.sound = app.sound
    <3>1. /\ Quiet(app, o) /\ Stays(app, o) /\ o.bridge = app.bridge
          /\ o.sent = app.sent /\ o.active = app.active /\ o.alone = app.alone
          /\ o.turn = app.turn /\ o.thread = app.thread /\ o.deaf = app.deaf
          /\ o.voice = app.voice /\ o.mic = app.mic /\ o.renew = app.renew
          /\ o.opens = app.opens /\ o.playing = app.playing /\ o.sound = app.sound
      BY <1>1, <2>3 DEF Wide, Quiet, Less, Same, Stays
    <3>2. Quiet(app, app) /\ Stays(app, app)
      BY <1>1, LessSelf DEF Quiet, Stays
    <3> HIDE DEF o
    <3> QED BY <1>1, <2>3, <3>1, <3>2
  <2> HIDE DEF c
  <2>6. CASE h = Ended(c)
    BY <1>1, <2>5, LessCore, <2>6, EndedIs, InactiveKeeps DEF Quiet
  <2>7. CASE c.turn[1] = c.thread /\ h \in {q, PlaySegment(c, a)}
    <3>1. a \in Names /\ a # None
      BY <1>1, <2>4, <2>5, <2>7, TurnNames DEF Wide, Names, Numbers
    <3> HIDE DEF a
    <3>2. q \in Wide
      BY <2>5, <3>1, SetTurns
    <3>3. /\ q.active = c.active /\ q.alone = c.alone /\ q.sent = c.sent
          /\ q.bridge = c.bridge /\ Stays(c, q)
          /\ q.deaf = c.deaf /\ q.voice = c.voice /\ q.mic = c.mic /\ q.renew = c.renew
          /\ q.opens = c.opens /\ q.playing = c.playing /\ q.sound = c.sound
      BY <2>5, <3>2 DEF Wide, Stays
    <3> HIDE DEF q
    <3> DEFINE u == PlaySegment(c, a)
    <3>4. /\ u \in Wide /\ u.playing /\ u.active = c.active /\ u.alone = c.alone
          /\ u.thread = c.thread /\ u.turn = c.turn /\ u.bridge = c.bridge
          /\ u.text = c.text /\ u.play = c.play /\ u.more = c.more /\ u.life = c.life
          /\ u.session = c.session /\ u.held = c.held /\ u.next = c.next
          /\ u.paused = c.paused /\ u.sent = c.sent /\ u.raised = c.raised
          /\ u.opens = c.opens /\ u.mic = c.mic /\ u.renew = c.renew
          /\ \/ u.deaf
             \/ u.sound = a /\ u.voice = "THINKING" /\ u.deaf = c.deaf
          /\ c.deaf => u.deaf
      BY <2>5, <3>1, PlaySegmentIs
    <3> HIDE DEF u
    <3>5. /\ h \in Wide /\ h.active = app.active /\ h.alone = app.alone
          /\ h.sent = app.sent /\ h.bridge = app.bridge /\ Stays(app, h)
      BY <2>5, <3>2, <3>3, <3>4, <2>7 DEF Stays, u
    <3>6. ~app.deaf /\ Hears(app) => FALSE
      BY <2>1 DEF Hears
    <3>7. app.deaf \/ Replies(app) => h.deaf \/ Replies(h)
      BY <2>5, <3>3, <3>5, <3>1, <3>4, <2>7 DEF Replies, Stays, u
    <3>8. ASSUME app.thread \in Sessions, Moving(app, Own, Members(Own.calls), T \cup {m})
          PROVE  Moving(h, Own, Desk(h), T)
      BY <1>1, <3>5, <3>8, DeskIs, TakenAll, <2>4, <3>6, <3>7, StaysGoing DEF Moving
    <3> QED BY <3>5, <3>8, ToTake DEF Stays
  <2> QED BY <2>1, <2>6, <2>7
<1> QED BY <1>2, <1>3, <1>4

\* What is interrupted is never the open turn.
LEMMA InterruptedTaken ==
    ASSUME IInv, Order, Present, NEW T, NEW m, Members(signals) = T \cup {m},
           m.kind = "interrupted", m \in Signals
    PROVE  Keeps(IF Owns(app, m.turn) THEN ReleaseTurn(app) ELSE app, T)
<1> DEFINE q == ReleaseTurn(app)
           C == Members(Own.calls)
<1>1. Keeps(app, T)
  BY SelfTakes
<1>2. CASE Owns(app, m.turn)
  <2>1. app \in Wide /\ Core(app) /\ app.turn # None /\ app.active
    BY <1>2, Here DEF Owns
  <2>2. q \in Wide /\ (q.active => app.active) /\ q.thread = app.thread
    BY <2>1, ReleaseTurnRests, ReleaseTurnYields DEF Quiet, Less, Yields
  <2>3. q.alone = app.alone
    <3> DEFINE l == CancelListen(app)
               p == CancelPlay(l)
               c == CancelText(p)
               t == [c EXCEPT !.held = 0]
               r == [t EXCEPT !.bridge = None, !.turn = None, !.out = FALSE]
    <3>1. q = Idle(r)
      BY <2>1, Zenon DEF ReleaseTurn
    <3>2. l \in Wide /\ l.alone = app.alone
      <4> DEFINE i == IF app.op = "input" THEN Idle(app) ELSE app
      <4>1. Around(app, i)
        BY <2>1, IdleIs, AroundSelf
      <4>2. l = CloseMic(i)
        BY DEF CancelListen
      <4> HIDE DEF i
      <4> QED BY <4>1, <4>2, CloseMicIs DEF Around
    <3> HIDE DEF l
    <3>3. p \in Wide /\ p.alone = l.alone
      <4>1. p \in Wide
        BY <3>2, CancelPlayQuiet DEF Quiet, Less
      <4> QED BY <3>2, <4>1 DEF Wide, CancelPlay
    <3> HIDE DEF p
    <3>4. c = p \/ c = [p EXCEPT !.text = None]
      BY Zenon DEF CancelText
    <3>5. c.alone = p.alone /\ c \in Wide
      <4> HIDE DEF c
      <4> QED BY <3>3, <3>4, SetText DEF Wide
    <3> HIDE DEF c
    <3> QED BY <3>1, <3>2, <3>3, <3>5 DEF Wide, Idle
  <2> HIDE DEF q
  <2>5. ASSUME Moving(app, Own, C, T \cup {m}) PROVE FALSE
    BY <2>1, <2>5, <1>2, CallsTyped DEF Moving, Open, Bygone, Owns
  <2>6. Keeps(q, T)
    BY <2>1, <2>2, <2>3, <2>5, ToTake
  <2> QED BY <1>2, <2>6 DEF q
<1> QED BY <1>1, <1>2

\* An answer that has been completed is played to its end, and the next turn is begun.
LEMMA FinishTaken ==
    ASSUME IInv, Order, Present, NEW T, NEW m, Members(signals) = T \cup {m},
           m.kind = "completed", Owns(app, m.turn),
           NEW s, Core(s), s.text = None, s.active = app.active, s.alone = app.alone,
           Stays(app, s), s.bridge = app.bridge, s.sent = app.sent, ~s.raised,
           app.deaf \/ Replies(app) => s.deaf \/ Replies(s)
    PROVE  Keeps(FinishTurn(s), T)
<1> DEFINE q == FinishTurn(s)
           C == Members(Own.calls)
<1>1. app.active /\ app.turn # None /\ app.turn[2] = m.turn /\ app.sent = <<>>
  BY Here DEF Owns
<1>2. /\ Stands(s, q)
      /\ Full(s) /\ (s.deaf \/ Replies(s)) => ~q.active \/ Begins(s, q) \/ Finishes(s, q)
  BY <1>1, FinishTurnIs
<1> HIDE DEF q
<1>3. ASSUME q.active, app.thread \in Sessions, Own \in Worker,
             Moving(app, Own, C, T \cup {m})
      PROVE  Moving(q, Own, Desk(q), T)
  <2>1. /\ Reserved(app, Own) /\ Bygone(app, Own, C, T \cup {m})
        /\ Open(app, Own, T \cup {m})
        /\ app.deaf \/ Hears(app) \/ Replies(app)
    BY <1>1, <1>3 DEF Moving
  <2>2. app.bridge = None /\ Own.phase = "live"
    BY <1>1, <2>1 DEF Open
  <2>3. s.deaf \/ Replies(s)
    BY <1>1, <2>1, <2>2 DEF Hears
  <2>4. Full(s)
    BY <1>1, <2>1, <2>2 DEF Full, Stays, Open, Reserved
  <2>5. Bygone(app, Own, C, T)
    BY <2>1 DEF Bygone
  <2>6. \A x \in T : x \in Signals
    BY Here, MembersAre
  <2>7. CASE Begins(s, q)
    BY <1>1, <1>3, <2>1, <2>2, <2>5, <2>6, <2>7, ToBegin DEF Stays
  <2>8. CASE Finishes(s, q)
    BY <1>1, <1>3, <2>8, DeskIs, <2>1, <2>5 DEF Finishes, Stays, Reserved, Bygone, Open,
       Coming, Moving
  <2> QED BY <1>2, <1>3, <2>3, <2>4, <2>7, <2>8
<1> QED BY <1>2, <1>3, ToTake DEF Stands, Stays, q

LEMMA CompletedTaken ==
    ASSUME IInv, Order, Present, NEW T, NEW m, Members(signals) = T \cup {m},
           m.kind = "completed", NEW h \in HandleCompleted(app, m.turn)
    PROVE  Keeps(h, T)
<1> DEFINE n == m.turn
           k == Kept(app)
           g == Append(k.chat, app.text.turn)
           x == [k EXCEPT !.chat = g]
           c == CancelText(app)
<1>1. app \in Wide /\ Core(app) /\ ~app.raised
  BY Here DEF IInv, TypeOK
<1>2. Keeps(Ended(app), T)
  BY <1>1, EndedIs, InactiveKeeps
<1>3. CASE ~Owns(app, n)
  BY <1>3, SelfTakes DEF HandleCompleted, Moving, Owns, Open, Reserved
<1>4. CASE Owns(app, n) /\ h # Ended(app)
  <2>1. \/ h \in {FinishTurn(x), Ended(k)} /\ app.text # None
        \/ h = FinishTurn(c)
    BY <1>4, Zenon DEF HandleCompleted
  <2>2. app.active /\ app.turn # None /\ app.turn \in Turns
    BY <1>4, Here DEF Owns
  <2>3. k \in Wide
    BY <1>1, SetText DEF Kept
  <2>4. /\ Less(app, k) /\ k.text = None /\ k.turn = app.turn /\ k.active = app.active
        /\ k.alone = app.alone /\ Stays(app, k) /\ k.bridge = app.bridge
        /\ k.sent = app.sent /\ ~k.raised /\ k.chat = app.chat
        /\ (app.deaf \/ Replies(app) => k.deaf \/ Replies(k))
    BY <1>1, <2>3 DEF Wide, Kept, Less, Same, Stays, Replies
  <2>6. c = k
    BY <1>1, CancelTextLess DEF Kept
  <2> HIDE DEF k, c
  <2>7. Core(k)
    BY <1>1, <2>4, LessCore
  <2>8. CASE h = Ended(k)
    BY <2>7, <2>8, EndedIs, InactiveKeeps
  <2>9. CASE h = FinishTurn(k)
    BY <1>4, <2>4, <2>7, <2>9, FinishTaken
  <2>10. CASE h = FinishTurn(x) /\ app.text # None
    <3>1. app.text.turn = app.turn
      BY <1>1, <2>10 DEF Core, Transcribed
    <3>2. g = Append(app.chat, app.turn) /\ g \in Chats /\ app.chat \in Seq(Turns)
      BY <1>1, <2>2, <2>4, <3>1 DEF Chats, Wide
    <3> HIDE DEF g
    <3>3. x \in Wide
      BY <2>3, <3>2, SetSeqs
    <3>4. /\ Same(k, x) /\ x.chat = g /\ x.next = k.next /\ x.held = k.held
          /\ x.turn = k.turn /\ x.text = None /\ x.bridge = k.bridge /\ x.play = k.play
          /\ x.more = k.more /\ x.sound = k.sound /\ x.active = k.active
      BY <2>3, <2>4, <3>3 DEF Wide, Same
    <3>5. /\ x.alone = k.alone /\ Stays(k, x) /\ x.sent = k.sent /\ ~x.raised
          /\ (k.deaf \/ Replies(k) => x.deaf \/ Replies(x))
      BY <2>3, <2>4, <3>3 DEF Wide, Stays, Replies
    <3> HIDE DEF x
    <3>6. Bounded(x)
      BY <2>7, <3>4 DEF Core, Bounded, Named, Same
    <3>8. Numbered(x)
      BY <2>4, <3>4, <1>1, <2>2, <3>2 DEF Same, Less, Begun, Core, Numbered
    <3>9. Transcribed(x) /\ Lives(x)
      BY <2>7, <3>4 DEF Core, Transcribed, Lives, Same
    <3>10. Core(x)
      BY <3>3, <3>6, <3>8, <3>9 DEF Core
    <3>11. Stays(app, x)
      BY <2>4, <3>5 DEF Stays
    <3> QED BY <1>4, <2>4, <2>10, <3>4, <3>5, <3>10, <3>11, FinishTaken
  <2> QED BY <2>1, <2>6, <2>8, <2>9, <2>10
<1> QED BY <1>2, <1>3, <1>4

LEMMA DeliverProgress ==
    ASSUME IInv, Order, Progress, Deliver
    PROVE  Progress'
<1> DEFINE m == Head(signals)
           T == Members(signals')
<1>1. signals \in Seq(Signals) /\ signals # <<>> /\ signals' = Tail(signals)
  BY DEF IInv, TypeOK, Deliver
<1>2. PICK h \in Handled(app, m) : Do(h)
  BY DEF Deliver
<1>3. m \in Signals /\ Members(signals) = T \cup {m}
  BY <1>1, MembersAre
<1>4. /\ m.kind = "audio" => m.of # 0
      /\ m.kind = "connected" => Unbegun(app)
  BY <1>1 DEF IInv, Told, Connecting, Says
<1>5. app \in Wide /\ Core(app) /\ Rested(app) /\ Present
  BY Here, AppIsGood DEF Progress
<1> HIDE DEF m, T
<1>6. CASE m.kind = "connected"
  <2> DEFINE u == [app EXCEPT !.halt = TRUE]
  <2>1. h = IF app.paused THEN Ended(app) ELSE IF app.active THEN BeginTurn(app) ELSE u
    BY <1>2, <1>6, Zenon DEF Handled
  <2>2. Keeps(Ended(app), T)
    BY <1>5, EndedIs, InactiveKeeps
  <2>3. app.active => Keeps(BeginTurn(app), T)
    BY <1>3, <1>4, <1>5, <1>6, ConnectedTaken
  <2>4. u \in Wide /\ u.active = app.active
    <3>1. u \in Wide
      BY <1>5, SetFlags
    <3> QED BY <1>5, <3>1 DEF Wide
  <2>5. ~app.active => Keeps(u, T)
    BY <2>4, InactiveKeeps
  <2> HIDE DEF u
  <2> QED BY <1>2, <2>1, <2>2, <2>3, <2>5, KeepsProgress DEF Progress, T
<1>7. CASE m.kind = "final"
  <2>1. h = HandleFinal(app, m.turn)
    BY <1>2, <1>7, Zenon DEF Handled
  <2>2. Keeps(h, T)
    BY <1>3, <1>5, <1>7, <2>1, FinalTaken
  <2> QED BY <1>2, <2>2, KeepsProgress DEF Progress, T
<1>8. CASE m.kind = "audio"
  <2>1. h \in HandleAudio(app, m.turn, m.of)
    BY <1>2, <1>8, Zenon DEF Handled
  <2>2. m.of \in Numbers \ {0}
    BY <1>3, <1>4, <1>8 DEF Signals
  <2>3. Keeps(h, T)
    BY <1>3, <1>5, <1>8, <2>1, <2>2, AudioTaken
  <2> QED BY <1>2, <2>3, KeepsProgress DEF Progress, T
<1>9. CASE m.kind = "interrupted"
  <2>1. h = IF Owns(app, m.turn) THEN ReleaseTurn(app) ELSE app
    BY <1>2, <1>9, Zenon DEF Handled
  <2>2. Keeps(h, T)
    BY <1>3, <1>5, <1>9, <2>1, InterruptedTaken
  <2> QED BY <1>2, <2>2, KeepsProgress DEF Progress, T
<1>10. CASE m.kind = "completed"
  <2>1. h \in HandleCompleted(app, m.turn)
    BY <1>2, <1>10, Zenon DEF Handled
  <2>2. Keeps(h, T)
    BY <1>3, <1>5, <1>10, <2>1, CompletedTaken
  <2> QED BY <1>2, <2>2, KeepsProgress DEF Progress, T
<1>11. CASE m.kind \in {"failed", "idle", "finished"}
  <2> DEFINE g == Gone(app)
             f == [g EXCEPT !.thread = None]
  <2>1. h \in {Ended(app), g, f}
    BY <1>2, <1>11, Zenon DEF Handled
  <2>2. g \in Wide /\ ~g.active
    BY <1>5, GoneEnds DEF Ends, Less
  <2> HIDE DEF g
  <2>3. f \in Wide /\ ~f.active
    BY <2>2 DEF Wide
  <2>4. Keeps(h, T)
    BY <1>5, <2>1, <2>2, <2>3, EndedIs, InactiveKeeps
  <2> QED BY <1>2, <2>4, KeepsProgress DEF Progress, T
<1>12. m.kind \in {"connected", "audio", "final", "completed", "interrupted",
                   "failed", "idle", "finished"}
  BY <1>3 DEF Signals
<1> QED BY <1>6, <1>7, <1>8, <1>9, <1>10, <1>11, <1>12

\* A conversation starts with a worker that has done nothing yet.
LEMMA StartProgress ==
    ASSUME IInv, Order, Progress, Start
    PROVE  Progress'
<1> DEFINE x == \A v \in Sessions : workers[v].phase \in {"new", "done"}
<1>1. PICK w \in Sessions :
         /\ \A v \in Sessions : workers[v].phase = "new" <=> v >= w
         /\ app' = [app EXCEPT !.active = TRUE, !.thread = w, !.paused = FALSE,
                               !.barred = {}, !.chat = <<>>, !.deaf = FALSE, !.alone = x]
         /\ workers' = [workers EXCEPT ![w].phase = "spawned"]
         /\ signals' = <<>>
  BY Zenon DEF Start
<1>2. /\ app \in Wide /\ Core(app) /\ Rested(app) /\ ~app.opens /\ ~app.active
      /\ ~app.renew /\ app.voice = "IDLE" /\ app.op = "none" /\ app.life = "IDLE"
      /\ workers \in [Sessions -> Worker]
  BY AppIsGood DEF Start, IInv, TypeOK
<1>3. app.session = None /\ app.held = 0 /\ app.next = 1
  BY <1>2 DEF Core, Lives, Bounded
<1>4. /\ app'.thread = w /\ app'.turn = None /\ app'.bridge = None /\ app'.sound = None
      /\ app'.voice = "IDLE" /\ app'.op = "none" /\ ~app'.mic /\ ~app'.renew /\ ~app'.opens
      /\ app'.life = "IDLE" /\ app'.held = 0 /\ app'.next = 1 /\ app'.alone = x
  <2> HIDE DEF x
  <2> QED BY <1>1, <1>2, <1>3 DEF Wide, Rested
<1> DEFINE u == workers[w]
           y == [u EXCEPT !.phase = "spawned"]
<1>5. u \in Worker /\ u = Fresh
  BY TurnNames, <1>1, <1>2 DEF Order, Plain
<1>6. workers' = [workers EXCEPT ![w] = y]
  BY <1>1
<1>7. /\ y.phase = "spawned" /\ y.link = "IDLE" /\ y.turn = 0 /\ y.quarantine = 0 /\ y.wire = <<>>
      /\ y.calls = <<>>
  BY <1>5 DEF Fresh
<1> HIDE DEF y, u, x
<1>8. workers'[w] = y /\ \A v \in Sessions : v # w => workers'[v] = workers[v]
  BY <1>2, <1>6
<1>9. Parted'
  BY <1>7, <1>8 DEF Parted, Linked, Progress
<1>10. Lonely'
  BY <1>4, <1>8 DEF Lonely, x
<1>11. Members(<<>>) = {}
  BY MembersOf
<1>13. Moving(app', y, {}, {})
  BY <1>4, <1>7, <1>11 DEF Moving, Reserved, Bygone, Waits
<1>14. Present'
  BY <1>1, <1>4, <1>7, <1>8, <1>11, <1>13 DEF Present, Going
<1> QED BY <1>9, <1>10, <1>14 DEF Progress
-----------------------------------------------------------------------------
(* A worker ends *)

\* What no worker changes of the application.
Apart(s, q) == q.active = s.active /\ q.alone = s.alone /\ q.thread = s.thread

LEMMA SessionApart ==
    ASSUME IInv
    PROVE  /\ Apart(app, Closed(app)) /\ Apart(app, Stopping(app))
           /\ Apart(app, Broken(app)) /\ Apart(app, Activated(app))
BY AppIsGood DEF Wide, Apart, Closed, Stopping, Broken, Activated

\* A worker that takes steps is the conversation's own, if that lasts.
LEMMA WorkProgress ==
    ASSUME IInv, Order, Progress, NEW w \in Sessions, NEW q, Apart(app, app'),
           workers' = [workers EXCEPT ![w] = q],
           Linked(q),
           workers[w].phase \notin {"new", "done"},
           app.active /\ app.alone /\ app.thread = w =>
               Going(app', q, Members(q.calls), Members(signals'))
    PROVE  Progress'
BY DEF IInv, TypeOK, Progress, Parted, Lonely, Apart, Present, Going, Lasts

LEMMA QuitProgress ==
    ASSUME IInv, Order, Progress, NEW w \in Sessions, NEW q, Apart(app, app'),
           workers' = [workers EXCEPT ![w] = q], Quits(q),
           Linked(q),
           workers[w].phase \notin {"new", "done"}
    PROVE  Progress'
  BY WorkProgress DEF Going, Lasts

\* A worker that is told to stop, whatever else.
LEMMA DoomedQuits ==
    ASSUME NEW r \in Worker
    PROVE  /\ \A x \in Phases : LET q == [Doomed(r) EXCEPT !.phase = x] IN
                 q.stop /\ q.phase = x /\ q.link = r.link
           /\ \A x \in {"IDLE", "ERROR"} : \A p \in Worker :
                 LET q == [p EXCEPT !.link = x] IN
                 q \in Worker /\ q.stop = p.stop /\ q.phase = p.phase /\ q.link = x
           /\ \A p \in Worker : LET q == [p EXCEPT !.own = FALSE] IN
                 q \in Worker /\ q.stop = p.stop /\ q.phase = p.phase /\ q.link = p.link
<1>1. Doomed(r) \in Worker /\ Doomed(r).stop /\ Doomed(r).link = r.link
  BY DoomedIs
<1> DEFINE d == Doomed(r)
<1> HIDE DEF d
<1>2. d \in Worker /\ d.stop /\ d.link = r.link
  BY <1>1 DEF d
<1>3. ASSUME NEW x \in Phases
      PROVE  LET q == [d EXCEPT !.phase = x] IN q.stop /\ q.phase = x /\ q.link = r.link
  BY <1>2, WorkerIs
<1>4. ASSUME NEW x \in {"IDLE", "ERROR"}, NEW p \in Worker
      PROVE  LET q == [p EXCEPT !.link = x] IN
                 q \in Worker /\ q.stop = p.stop /\ q.phase = p.phase /\ q.link = x
  <2> DEFINE q == [p EXCEPT !.link = x]
  <2>1. q \in Worker
    BY <1>4, WorkerIs
  <2> QED BY <1>4, <2>1, WorkerIs
<1>5. ASSUME NEW p \in Worker
      PROVE  LET q == [p EXCEPT !.own = FALSE] IN
                 q \in Worker /\ q.stop = p.stop /\ q.phase = p.phase /\ q.link = p.link
  <2> DEFINE q == [p EXCEPT !.own = FALSE]
  <2>1. q \in Worker
    BY <1>5, WorkerIs
  <2> QED BY <1>5, <2>1, WorkerIs
<1> QED BY <1>3, <1>4, <1>5 DEF d

LEMMA ConnectFailsProgress ==
    ASSUME IInv, Order, Progress, NEW w \in Sessions, ConnectFails(w)
    PROVE  Progress'
<1> DEFINE u == workers[w]
           p == [Doomed(u) EXCEPT !.phase = "failed"]
           q == [p EXCEPT !.link = "IDLE"]
<1>1. u \in Worker /\ u.phase = "connecting" /\ app' = Closed(app)
  BY Workers DEF ConnectFails
<1>2. workers' = [workers EXCEPT ![w] = q]
  BY Zenon DEF ConnectFails
<1>3. p \in Worker
  BY <1>1, DoomedIs, WorkerField DEF Phases
<1>4. q.phase = "failed"
  <2>1. p.phase = "failed"
    BY <1>1, DoomedQuits DEF Phases
  <2> HIDE DEF p
  <2> QED BY <1>3, <2>1, WorkerIs
<1> HIDE DEF q
<1> QED BY <1>1, <1>2, <1>4, QuitProgress, SessionApart DEF Quits, Linked, Early

LEMMA FailProgress ==
    ASSUME IInv, Order, Progress, NEW w \in Sessions, workers[w].phase = "live", Fail(w)
    PROVE  Progress'
<1> DEFINE u == workers[w]
           d == Doomed(u)
           p == [d EXCEPT !.own = FALSE]
           q == [p EXCEPT !.link = "ERROR"]
<1>1. u \in Worker /\ app' = Broken(app)
  BY Workers DEF Fail
<1>2. workers' = [workers EXCEPT ![w] = q]
  BY Zenon DEF Fail
<1>3. d \in Worker /\ d.stop /\ d.phase = u.phase
  BY <1>1, DoomedIs
<1> HIDE DEF d
<1>4. p \in Worker /\ p.stop /\ p.phase = u.phase
  BY <1>1, <1>3, DoomedQuits
<1> HIDE DEF p
<1>5. q.stop /\ q.phase = u.phase
  BY <1>1, <1>4, DoomedQuits
<1> HIDE DEF q
<1> QED BY <1>1, <1>2, <1>5, QuitProgress, SessionApart DEF Quits, Linked, Early

LEMMA DeadlineProgress ==
    ASSUME IInv, Order, Progress, NEW w \in Sessions, Deadline(w)
    PROVE  Progress'
<1> DEFINE u == workers[w]
           q == [u EXCEPT !.link = "STOPPING", !.own = FALSE, !.wire = <<>>]
<1>1. u \in Worker /\ u.phase = "live" /\ app' = Stopping(app)
  BY Workers DEF Deadline
<1>2. workers' = [workers EXCEPT ![w] = q]
  BY Zenon DEF Deadline
<1>3. q.phase = "live" /\ q.link = "STOPPING"
  BY <1>1, WorkerIs
<1> HIDE DEF q
<1> QED BY <1>1, <1>2, <1>3, QuitProgress, SessionApart DEF Quits, Linked, Early

LEMMA StopProgress ==
    ASSUME IInv, Order, Progress, NEW w \in Sessions, Stop(w)
    PROVE  Progress'
<1> DEFINE u == workers[w]
           r == [u EXCEPT !.phase = "closing", !.own = FALSE]
           q == [r EXCEPT !.link = "STOPPING", !.wire = <<>>]
<1>1. u \in Worker /\ u.phase \in {"failed", "live"}
  BY Workers DEF Stop
<1>2. \/ workers' = [workers EXCEPT ![w] = r] /\ app' = app
      \/ workers' = [workers EXCEPT ![w] = r] /\ app' = Closed(app)
      \/ workers' = [workers EXCEPT ![w] = q] /\ app' = Stopping(app)
  BY Zenon DEF Stop
<1>3. r.phase = "closing" /\ q.phase = "closing"
  BY <1>1, WorkerIs
<1>4. Apart(app, app')
  BY <1>2, SessionApart DEF Apart
<1> HIDE DEF r, q
<1> QED BY <1>1, <1>2, <1>3, <1>4, QuitProgress DEF Quits, Linked, Early

LEMMA ReleaseProgress ==
    ASSUME IInv, Order, Progress, NEW w \in Sessions, Release(w)
    PROVE  Progress'
<1> DEFINE u == workers[w]
           d == Doomed(u)
           l == [d EXCEPT !.link = "IDLE"]
           q == [l EXCEPT !.own = FALSE]
<1>1. u \in Worker /\ u.phase \notin Early \cup {"connecting", "done"} /\ app' = Closed(app)
  BY Workers DEF Release, Progress, Parted, Linked, Early
<1>2. workers' = [workers EXCEPT ![w] = q]
  BY Zenon DEF Release, Released
<1>3. d \in Worker /\ d.stop /\ d.phase = u.phase
  BY <1>1, DoomedIs
<1> HIDE DEF d
<1>4. l \in Worker /\ l.stop /\ l.link = "IDLE" /\ l.phase = u.phase
  BY <1>1, <1>3, DoomedQuits
<1> HIDE DEF l
<1>5. q.stop /\ q.link = "IDLE" /\ q.phase = u.phase
  BY <1>1, <1>4, DoomedQuits
<1> HIDE DEF q
<1> QED BY <1>1, <1>2, <1>5, QuitProgress, SessionApart DEF Quits, Linked, Early

LEMMA LeaveProgress ==
    ASSUME IInv, Order, Progress, NEW w \in Sessions, Leave(w)
    PROVE  Progress'
<1> DEFINE u == workers[w]
           x == u.crossed
           q == [Fresh EXCEPT !.phase = "done", !.crossed = x]
<1>1. u.phase = "closing" /\ app' = app
  BY DEF Leave
<1>2. workers' = [workers EXCEPT ![w] = q]
  BY Zenon DEF Leave
<1>3. q.phase = "done" /\ q.link = "IDLE"
  <2> HIDE DEF x
  <2> QED BY DEF Fresh
<1> HIDE DEF q
<1> QED BY <1>1, <1>2, <1>3, QuitProgress DEF Quits, Apart, Linked, Early

-----------------------------------------------------------------------------
(* A worker starts *)

\* The worker of a conversation that is alone, and what it was.
LEMMA WorkFrom ==
    ASSUME IInv, Order, Progress, app.active, app.alone
    PROVE  /\ Going(app, Own, Members(Own.calls), Members(signals))
           /\ Own \in Worker /\ Own.calls \in Seq(Calls) /\ Own.wire \in Seq(Events)
           /\ signals \in Seq(Signals) /\ app \in Wide
  BY Here, WorkerTyped DEF Progress, Present, Own

LEMMA BootProgress ==
    ASSUME IInv, Order, Progress, NEW w \in Sessions, Boot(w)
    PROVE  Progress'
<1> DEFINE u == workers[w]
           q == [u EXCEPT !.phase = "checked"]
           f == [Doomed(u) EXCEPT !.phase = "failed"]
<1>1. u \in Worker /\ u.phase = "spawned" /\ app' = app /\ u.link = "IDLE"
  BY Workers DEF Boot, Progress, Parted, Linked, Early
<1>2. \/ app.life = "IDLE" /\ workers' = [workers EXCEPT ![w] = q] /\ signals' = signals
      \/ workers' = [workers EXCEPT ![w] = f]
  BY Zenon DEF Boot
<1>3. f.phase = "failed"
  BY <1>1, DoomedQuits DEF Phases
<1>4. /\ q.phase = "checked" /\ q.stop = u.stop /\ q.link = u.link /\ q.crossed = u.crossed
      /\ q.turn = u.turn /\ q.quarantine = u.quarantine /\ q.wire = u.wire
      /\ q.calls = u.calls /\ q.tries = u.tries /\ q.server = u.server
  BY <1>1, WorkerIs
<1> HIDE DEF q, f
<1>5. CASE workers' = [workers EXCEPT ![w] = f]
  BY <1>1, <1>3, <1>5, QuitProgress DEF Quits, Apart, Linked, Early
<1>6. CASE app.life = "IDLE" /\ workers' = [workers EXCEPT ![w] = q] /\ signals' = signals
  <2>1. ASSUME app.active, app.alone, app.thread = w
        PROVE  Going(app, q, Members(q.calls), Members(signals))
    BY <2>1, WorkFrom, <1>1, <1>4, <1>6 DEF Own, Lasts, Quits, Moving, Open, Reserved,
       Bygone, Waits, Going
  <2> QED BY <1>1, <1>4, <1>6, <2>1, WorkProgress DEF Apart, Linked, Early
<1> QED BY <1>2, <1>5, <1>6
LEMMA ReserveProgress ==
    ASSUME IInv, Order, Progress, NEW w \in Sessions, Reserve(w)
    PROVE  Progress'
<1> DEFINE u == workers[w]
           q == [u EXCEPT !.phase = "connecting", !.link = "STARTING"]
           f == [Doomed(u) EXCEPT !.phase = "failed"]
<1>1. u \in Worker /\ u.phase = "checked" /\ u.link = "IDLE" /\ workers \in [Sessions -> Worker]
  BY Workers DEF Reserve, IInv, TypeOK, Progress, Parted, Linked, Early
<1>2. CASE app.life \notin {"IDLE", "STARTING"}
  <2>1. app' = Closed(app) /\ workers' = [workers EXCEPT ![w] = f]
    BY <1>2, Zenon DEF Reserve
  <2>2. f.phase = "failed"
    BY <1>1, DoomedQuits DEF Phases
  <2> HIDE DEF f
  <2> QED BY <1>1, <2>1, <2>2, QuitProgress, SessionApart DEF Quits, Linked, Early
<1>3. CASE app.life \in {"IDLE", "STARTING"}
  <2>1. /\ app' = [app EXCEPT !.life = "STARTING", !.session = w, !.held = 0, !.next = 1]
        /\ workers' = [workers EXCEPT ![w].phase = "connecting", ![w].link = "STARTING"]
        /\ signals' = signals
    BY <1>3, Zenon DEF Reserve
  <2>2. workers' = [workers EXCEPT ![w] = q]
    BY <1>1, <2>1
  <2>3. /\ q.phase = "connecting" /\ q.stop = u.stop /\ q.link = "STARTING"
        /\ q.crossed = u.crossed /\ q.turn = u.turn /\ q.quarantine = u.quarantine
        /\ q.wire = u.wire /\ q.calls = u.calls
    BY <1>1, WorkerIs
  <2> HIDE DEF q
  <2>4. app \in Wide
    BY Here
  <2>5. /\ Apart(app, app') /\ app'.life = "STARTING" /\ app'.session = w /\ app'.held = 0
        /\ app'.next = 1 /\ app'.turn = app.turn /\ app'.voice = app.voice
        /\ app'.op = app.op /\ app'.mic = app.mic /\ app'.renew = app.renew
        /\ app'.opens = app.opens /\ app'.bridge = app.bridge /\ app'.sound = app.sound
    BY <2>1, <2>4 DEF Wide, Apart
  <2>6. ASSUME app.active, app.alone, app.thread = w
        PROVE  Going(app', q, Members(q.calls), Members(signals))
    BY <2>6, WorkFrom, <1>1, <2>3, <2>5 DEF Own, Lasts, Quits, Apart, Moving, Open,
       Reserved, Bygone, Waits, Going
  <2>7. Linked(q) /\ signals' = signals
    BY <2>1, <2>3 DEF Linked, Early
  <2> QED BY <1>1, <2>2, <2>5, <2>6, <2>7, WorkProgress
<1> QED BY <1>2, <1>3

LEMMA SignalAdds ==
    ASSUME signals \in Seq(Signals), NEW w, NEW m \in Signals
    PROVE  /\ app.thread = w => Members(Emit(w, m)) = Members(signals) \cup {m}
           /\ Members(signals) \subseteq Members(Emit(w, m))
BY MembersAre DEF Emit

LEMMA ConnectedProgress ==
    ASSUME IInv, Order, Progress, NEW w \in Sessions, Connected(w)
    PROVE  Progress'
<1> DEFINE u == workers[w]
           q == [u EXCEPT !.phase = "live", !.link = "ACTIVE", !.own = TRUE]
           m == Signal("connected", 0, 0)
<1>1. /\ u \in Worker /\ u.phase = "connecting" /\ u.link = "STARTING"
      /\ workers \in [Sessions -> Worker]
      /\ app' = Activated(app) /\ signals' = Emit(w, m)
  BY Workers DEF Connected, IInv, TypeOK, Progress, Parted, Linked
<1>2. workers' = [workers EXCEPT ![w] = q]
  BY <1>1 DEF Connected
<1>3. /\ q.phase = "live" /\ q.stop = u.stop /\ q.link = "ACTIVE"
      /\ q.crossed = u.crossed /\ q.turn = u.turn /\ q.quarantine = u.quarantine
      /\ q.wire = u.wire /\ q.calls = u.calls
  BY <1>1, WorkerIs
<1>4. m \in Signals /\ m.kind = "connected" /\ m.turn = 0
  BY BoundsAssumption DEF Signals, Signal, Numbers
<1> HIDE DEF q, m
<1>5. app \in Wide /\ signals \in Seq(Signals)
  BY Here
<1>6. Apart(app, app')
  BY <1>1, SessionApart
<1>7. ASSUME app.active, app.alone, app.thread = w
      PROVE  Going(app', q, Members(q.calls), Members(signals'))
  <2>1. Going(app, u, Members(u.calls), Members(signals))
    BY <1>7, WorkFrom DEF Own
  <2> DEFINE S == Members(signals)
             T == S \cup {m}
  <2>2. Members(signals') = T
    BY <1>1, <1>4, <1>5, <1>7, SignalAdds
  <2> HIDE DEF S
  <2>3. Lasts(app', q, T) => Lasts(app, u, S)
    BY <1>1, <1>3, <1>6 DEF Lasts, Quits, Apart
  <2>4. ASSUME Moving(app, u, Members(u.calls), S)
        PROVE  Moving(app', q, Members(q.calls), T)
    BY <1>1, <2>4, <1>5, <1>3, <1>6, <1>4 DEF Moving, Open, Reserved, Activated, Wide,
       Apart, Bygone, Waits
  <2> QED BY <2>1, <2>2, <2>3, <2>4 DEF Going, S
<1> QED BY <1>1, <1>2, <1>3, <1>6, <1>7, WorkProgress DEF Linked, Early

-----------------------------------------------------------------------------
(* The connection *)

\* A worker whose connection was lost, or was resumed once, promises no answer.
LEMMA UnsureGoing ==
    ASSUME NEW s, NEW r, NEW q, NEW C, NEW S, Going(s, r, C, S), r.phase = "live",
           Quits(r) => Quits(q), q.phase = "live", q.link \in {"ACTIVE", "STARTING"},
           q.crossed = r.crossed, q.turn = r.turn, q.quarantine = r.quarantine,
           q.wire = r.wire, q.tries # 0 \/ q.server.lost
    PROVE  Going(s, q, C, S)
BY DEF Lasts, Moving, Reserved, Bygone, Coming, Waits, Open, Going

LEMMA LoseProgress ==
    ASSUME IInv, Order, Progress, NEW w \in Sessions, Lose(w)
    PROVE  Progress'
<1> DEFINE u == workers[w]
           q == [u EXCEPT !.server.lost = TRUE]
<1>1. /\ u \in Worker /\ u.phase \notin {"new", "done"} /\ u.link = "ACTIVE" /\ Linked(u)
      /\ app' = app /\ signals' = signals
  BY Workers DEF Lose, Progress, Parted, Linked, Early
<1>2. workers' = [workers EXCEPT ![w] = q]
  BY ZenonT(40) DEF Lose
<1>3. u.server \in Servers
  BY <1>1, WorkerIs
<1> DEFINE v == [u.server EXCEPT !.lost = TRUE]
<1>4. v.lost /\ v \in Servers
  BY <1>3 DEF Servers
<1>5. q = [u EXCEPT !.server = v]
  BY Zenon
<1> HIDE DEF v
<1>6. /\ q.phase = u.phase /\ q.stop = u.stop /\ q.link = u.link
      /\ q.crossed = u.crossed /\ q.turn = u.turn /\ q.quarantine = u.quarantine
      /\ q.wire = u.wire /\ q.calls = u.calls /\ q.tries = u.tries /\ q.server = v
  BY <1>1, <1>5, WorkerIs
<1> HIDE DEF q
<1>7. ASSUME app.active, app.alone, app.thread = w
      PROVE  Going(app, q, Members(q.calls), Members(signals))
  BY <1>7, WorkFrom, <1>1, <1>4, <1>6, UnsureGoing DEF Own, Quits, Going, Moving, Open,
     Lasts, Reserved, Bygone, Waits
<1> QED BY <1>1, <1>2, <1>6, <1>7, WorkProgress DEF Apart, Linked

LEMMA ReconnectProgress ==
    ASSUME IInv, Order, Progress, NEW w \in Sessions, Reconnect(w)
    PROVE  Progress'
<1> DEFINE u == workers[w]
           q == [u EXCEPT !.link = "STARTING"]
<1>1. u \in Worker /\ u.phase = "live" /\ u.link = "ACTIVE" /\ u.server.lost
  BY Workers DEF Reconnect
<1>2. CASE Fail(w)
  BY <1>1, <1>2, FailProgress
<1>3. CASE workers' = [workers EXCEPT ![w].link = "STARTING"] /\ UNCHANGED <<app, signals>>
  <2>1. workers' = [workers EXCEPT ![w] = q]
    BY <1>3, Zenon
  <2>2. /\ q.phase = u.phase /\ q.stop = u.stop /\ q.link = "STARTING"
        /\ q.crossed = u.crossed /\ q.turn = u.turn /\ q.quarantine = u.quarantine
        /\ q.wire = u.wire /\ q.calls = u.calls /\ q.tries = u.tries /\ q.server = u.server
    BY <1>1, WorkerIs
  <2> HIDE DEF q
  <2>3. ASSUME app.active, app.alone, app.thread = w
        PROVE  Going(app, q, Members(q.calls), Members(signals))
    BY <2>3, WorkFrom, <1>1, <2>2, UnsureGoing DEF Own, Quits
  <2> QED BY <1>1, <1>3, <2>1, <2>2, <2>3, WorkProgress DEF Apart, Linked, Early
<1> QED BY <1>2, <1>3 DEF Reconnect

LEMMA RetryProgress ==
    ASSUME IInv, Order, Progress, NEW w \in Sessions, Retry(w)
    PROVE  Progress'
<1> DEFINE u == workers[w]
           n == u.tries + 1
           a == [u EXCEPT !.tries = n]
<1>1. u \in Worker /\ u.phase = "live" /\ u.link = "STARTING"
  BY Workers DEF Retry
<1>2. n # 0
  BY <1>1, WorkerIs, BoundsAssumption DEF Tries
<1>3. CASE Fail(w)
  BY <1>1, <1>3, FailProgress
<1>4. ASSUME NEW q, workers' = [workers EXCEPT ![w] = q], signals' = signals,
             app' = app \/ app' = Activated(app), q.phase = u.phase, q.stop = u.stop,
             q.link \in {"STARTING", "ACTIVE"}, q.crossed = u.crossed, q.turn = u.turn,
             q.quarantine = u.quarantine, q.wire = u.wire, q.calls = u.calls, q.tries = n
      PROVE  Progress'
  <2>1. Apart(app, app')
    BY <1>4, SessionApart DEF Apart
  <2>2. ASSUME app.active, app.alone, app.thread = w
        PROVE  Going(app', q, Members(q.calls), Members(signals))
    <3>1. Going(app, u, Members(u.calls), Members(signals))
      BY <2>2, WorkFrom DEF Own
    <3>2. Going(app, q, Members(q.calls), Members(signals))
      <4> HIDE DEF n, u
      <4> QED BY <1>1, <1>2, <1>4, <3>1, UnsureGoing DEF Quits
    <3> QED BY <3>2, <2>1, <1>1, <1>4 DEF Going, Lasts, Apart, Moving, Reserved, Activated
  <2> QED BY <1>1, <1>4, <2>1, <2>2, WorkProgress DEF Linked, Early
<1>5. CASE workers' = [workers EXCEPT ![w].tries = @ + 1] /\ app' = app /\ signals' = signals
  <2>1. workers' = [workers EXCEPT ![w] = a]
    BY <1>5, Zenon
  <2>2. /\ a.phase = u.phase /\ a.stop = u.stop /\ a.link = u.link
        /\ a.crossed = u.crossed /\ a.turn = u.turn /\ a.quarantine = u.quarantine
        /\ a.wire = u.wire /\ a.calls = u.calls /\ a.tries = n
    <3> HIDE DEF n
    <3> QED BY <1>1, WorkerIs
  <2> HIDE DEF a, n
  <2> QED BY <1>1, <1>4, <1>5, <2>1, <2>2
<1>6. CASE /\ \E stage \in Resumed(u.server) :
                workers' = [workers EXCEPT ![w].tries = @ + 1, ![w].link = "ACTIVE",
                                           ![w].own = TRUE, ![w].server.stage = stage,
                                           ![w].server.lost = FALSE]
           /\ app' = Activated(app) /\ signals' = signals
  <2>1. PICK stage \in Resumed(u.server) :
                workers' = [workers EXCEPT ![w].tries = @ + 1, ![w].link = "ACTIVE",
                                           ![w].own = TRUE, ![w].server.stage = stage,
                                           ![w].server.lost = FALSE]
    BY <1>6
  <2> DEFINE v == [u.server EXCEPT !.stage = stage, !.lost = FALSE]
             q == [u EXCEPT !.tries = n, !.link = "ACTIVE", !.own = TRUE, !.server = v]
  <2>2. workers' = [workers EXCEPT ![w] = q]
    BY ZenonT(40), <2>1
  <2> HIDE DEF n, v
  <2>3. /\ q.phase = u.phase /\ q.stop = u.stop /\ q.link = "ACTIVE"
        /\ q.crossed = u.crossed /\ q.turn = u.turn /\ q.quarantine = u.quarantine
        /\ q.wire = u.wire /\ q.calls = u.calls /\ q.tries = n
    BY <1>1, WorkerIs
  <2> HIDE DEF q
  <2> QED BY <1>4, <1>6, <2>2, <2>3
<1>7. \/ Fail(w)
      \/ workers' = [workers EXCEPT ![w].tries = @ + 1] /\ app' = app /\ signals' = signals
      \/ /\ \E stage \in Resumed(u.server) :
                workers' = [workers EXCEPT ![w].tries = @ + 1, ![w].link = "ACTIVE",
                                           ![w].own = TRUE, ![w].server.stage = stage,
                                           ![w].server.lost = FALSE]
         /\ app' = Activated(app) /\ signals' = signals
  BY Zenon DEF Retry
<1> QED BY <1>3, <1>5, <1>6, <1>7
-----------------------------------------------------------------------------
(* A call is served *)

\* The connection and the calls that wait are not touched.
Heir(r, q) ==
    /\ q.phase = r.phase /\ q.stop = r.stop /\ q.link = r.link /\ q.tries = r.tries
    /\ q.crossed = r.crossed /\ q.calls = r.calls /\ q.server.lost = r.server.lost

\* An interruption and what may follow it are put on the wire.
Puts(r, q) ==
    LET i == [kind |-> "interrupted", turn |-> r.server.turn]
        d == [kind |-> "completed", turn |-> r.server.turn]
    IN  \/ Members(q.wire) = Members(r.wire)
        \/ Members(q.wire) = Members(r.wire) \cup {i}
        \/ Members(q.wire) = Members(r.wire) \cup {i, d}

\* What serving call c of turn n makes of a worker.
Pauses(r, q, s, c) ==
    /\ q.turn = r.turn /\ q.quarantine = r.quarantine /\ q.wire = r.wire
    /\ q.server.stage = r.server.stage
    /\ \/ s.paused \/ c.op = "interrupt"
       \/ c.op = "end" /\ c.turn[2] = r.turn /\ r.server.stage \in {"quiet", "owing"}
Listens(r, q, c) ==
    /\ c.op = "frame" /\ q.turn = c.turn[2] /\ q.quarantine = r.quarantine
    /\ r.server.stage # "owing" /\ q.server.stage = "hearing" /\ q.wire = r.wire
Owes(r, q, c) ==
    /\ c.op = "end" /\ c.turn[2] = r.turn /\ q.turn = r.turn
    /\ q.quarantine = r.quarantine /\ q.wire = r.wire
    /\ r.server.stage = "hearing" /\ q.server.stage = "owing"
Breaks(r, q, c) ==
    /\ c.op = "interrupt" /\ c.turn[2] = r.turn /\ q.turn = r.turn
    /\ q.quarantine = r.turn /\ q.server.stage = "hearing" /\ r.server.turn = r.turn
    /\ Puts(r, q)

LEMMA HearingAdds ==
    ASSUME NEW r \in Worker, NEW n \in Numbers, NEW q \in Hearing(r, n)
    PROVE  /\ Heir(r, q) /\ q.server.stage = "hearing" /\ Puts(r, q)
           /\ q.turn = r.turn /\ q.quarantine = r.quarantine
           /\ r.server.stage # "owing" => q.wire = r.wire
<1> DEFINE v == [stage |-> "hearing", turn |-> n, lost |-> r.server.lost]
           a == [r EXCEPT !.server = v]
<1>1. r.server \in Servers /\ v \in Servers /\ r.wire \in Seq(Events) /\ r.server.turn \in Numbers
  BY WorkerIs DEF Wires, Servers
<1>2. v.stage = "hearing" /\ v.lost = r.server.lost
  OBVIOUS
<1>3. /\ q.turn = r.turn /\ q.quarantine = r.quarantine
      /\ r.server.stage # "owing" => q.wire = r.wire
  BY HearingGrows DEF Grows
<1> HIDE DEF v
<1>4. CASE r.server.stage = "hearing"
  <2>1. q = [r EXCEPT !.server = [r.server EXCEPT !.turn = n]]
    BY <1>4, Zenon DEF Hearing
  <2>2. [r.server EXCEPT !.turn = n] = v
    <3>1. [r.server EXCEPT !.turn = n]
             = [stage |-> r.server.stage, turn |-> n, lost |-> r.server.lost]
      BY <1>1, ServerIs
    <3> QED BY <1>4, <3>1 DEF v
  <2>3. q = a
    BY <2>1, <2>2
  <2>4. /\ a.phase = r.phase /\ a.stop = r.stop /\ a.link = r.link /\ a.tries = r.tries
        /\ a.crossed = r.crossed /\ a.calls = r.calls /\ a.server = v /\ a.wire = r.wire
    BY WorkerIs
  <2> HIDE DEF a
  <2> QED BY <1>2, <1>3, <2>3, <2>4 DEF Heir, Puts
<1>5. CASE r.server.stage # "hearing"
  <2> DEFINE i == [kind |-> "interrupted", turn |-> r.server.turn]
             d == [kind |-> "completed", turn |-> r.server.turn]
  <2>1. PICK x \in IF r.server.stage = "quiet" THEN {<<>>} ELSE {<<i>>, <<i, d>>} :
          q = [r EXCEPT !.server.stage = "hearing", !.server.turn = n, !.wire = @ \o x]
    BY <1>5, Zenon DEF Hearing
  <2> DEFINE y == r.wire \o x
             b == [r EXCEPT !.server = v, !.wire = y]
  <2>2. [r.server EXCEPT !.stage = "hearing", !.turn = n] = v
    BY <1>1, ServerIs DEF v
  <2>3. q = [r EXCEPT !.server = [r.server EXCEPT !.stage = "hearing", !.turn = n], !.wire = y]
    BY <2>1, Zenon
  <2>4. q = b
    BY <2>2, <2>3
  <2>5. /\ b.phase = r.phase /\ b.stop = r.stop /\ b.link = r.link /\ b.tries = r.tries
        /\ b.crossed = r.crossed /\ b.calls = r.calls /\ b.server = v /\ b.wire = y
    <3> HIDE DEF y
    <3> QED BY WorkerIs
  <2>6. i \in Events /\ d \in Events
    BY <1>1 DEF Events
  <2> HIDE DEF b, i, d
  <2>7. Members(<<i>>) = {i} /\ Members(<<i, d>>) = {i, d}
    BY DEF Members
  <2>8. x = <<>> \/ x = <<i>> \/ x = <<i, d>>
    BY <2>1
  <2>9. /\ x \in Seq(Events)
        /\ Members(x) = {} \/ Members(x) = {i} \/ Members(x) = {i, d}
    <3>1. CASE x = <<>>
      BY <3>1, MembersOf
    <3>2. CASE x = <<i>>
      BY <2>6, <2>7, <3>2
    <3>3. CASE x = <<i, d>>
      BY <2>6, <2>7, <3>3
    <3> QED BY <2>8, <3>1, <3>2, <3>3
  <2>10. Members(y) = Members(r.wire) \cup Members(x)
    BY <1>1, <2>9, MembersOf
  <2> HIDE DEF y
  <2>11. Puts(r, q)
    BY <2>4, <2>5, <2>9, <2>10 DEF Puts, i, d
  <2> QED BY <1>2, <1>3, <2>4, <2>5, <2>11 DEF Heir
<1> QED BY <1>3, <1>4, <1>5

LEMMA CallMakes ==
    ASSUME NEW w \in Sessions, NEW r \in Worker, NEW c \in Calls,
           NEW q \in Called(w, r, c)
    PROVE  /\ Heir(r, q)
           /\ c.turn[1] = w /\ Fit(r, Rank(w, c)) =>
                 Pauses(r, q, app, c) \/ Listens(r, q, c) \/ Owes(r, q, c) \/ Breaks(r, q, c)
<1> DEFINE n == c.turn[2]
           l == Rank(w, c)
           F == c.turn[1] = w /\ Fit(r, l)
<1>1. /\ n \in Numbers /\ n \in Nat /\ n # 0 /\ n <= MaxTurns /\ MaxTurns \in Nat
      /\ c.op \in {"frame", "end", "interrupt"}
  BY TurnNames, BoundsAssumption DEF Calls, Numbers
<1>3. /\ r.turn \in Nat /\ r.server.stage \in {"quiet", "hearing", "owing"}
      /\ r.server \in Servers /\ r.server.turn \in Numbers
  BY WorkerTyped DEF Servers
<1>4. F => Paced(r) /\ Once(r) /\ (c.op = "frame" /\ r.turn = n => OnlyHeard(r))
  BY <1>1, <1>3, RankIs DEF Fit, Rank, Place, Last
<1>5. \/ c.op = "frame" /\ q \in AcceptAudio(w, r, c.turn)
      \/ c.op = "end" /\ q \in EndTurn(r, n)
      \/ c.op = "interrupt" /\ q \in Interrupt(r, n)
  BY <1>1 DEF Called
<1> HIDE DEF l, n, F
<1>6. CASE c.op = "frame" /\ q \in AcceptAudio(w, r, c.turn)
  <2> DEFINE b == [r EXCEPT !.turn = n, !.complete = FALSE]
  <2>1. \/ q = r /\ app.paused
        \/ (r.turn = 0 \/ r.complete) /\ q \in Hearing(b, n)
        \/ n = r.turn /\ q \in Hearing(r, n)
    BY <1>6, Zenon DEF AcceptAudio, n
  <2>2. CASE q = r /\ app.paused
    BY <2>2 DEF Heir, Pauses
  <2>3. CASE (r.turn = 0 \/ r.complete) /\ q \in Hearing(b, n)
    <3>1. b \in Worker /\ Heir(r, b) /\ b.turn = n /\ b.quarantine = r.quarantine /\ b.wire = r.wire
          /\ b.server = r.server
      <4> DEFINE a == [r EXCEPT !.turn = n]
                 d == [a EXCEPT !.complete = FALSE]
      <4>1. a \in Worker
        BY <1>1, WorkerIs
      <4>2. d \in Worker
        <5> HIDE DEF a
        <5> QED BY <4>1, WorkerIs
      <4>3. b = d
        BY Zenon
      <4>4. b \in Worker
        BY <4>2, <4>3
      <4> HIDE DEF d, a
      <4> QED BY <1>1, <4>4, WorkerIs DEF Heir
    <3> HIDE DEF b
    <3>2. F => r.server.stage # "owing"
      BY <1>4, <2>3 DEF Paced, Once, Over
    <3> QED BY <1>6, <3>1, <3>2, <1>1, <2>3, HearingAdds DEF Heir, Listens, n, F, l
  <2>4. CASE n = r.turn /\ q \in Hearing(r, n)
    BY <1>4, <1>6, <2>4, <1>1, HearingAdds DEF OnlyHeard, Listens, n, F, l
  <2> QED BY <2>1, <2>2, <2>3, <2>4
<1>7. CASE c.op = "end" /\ q \in EndTurn(r, n)
  <2> DEFINE v == [r.server EXCEPT !.stage = "owing"]
  <2>1. \/ q = r /\ n = r.turn /\ r.server.stage # "hearing"
        \/ q = [r EXCEPT !.server = v] /\ n = r.turn /\ r.server.stage = "hearing"
    BY <1>7, Zenon DEF EndTurn
  <2>2. v.stage = "owing" /\ v.lost = r.server.lost
    BY <1>3 DEF Servers
  <2> HIDE DEF v
  <2>3. CASE q = r /\ n = r.turn /\ r.server.stage # "hearing"
    BY <1>3, <1>7, <2>3 DEF Heir, Pauses, n
  <2>4. CASE q = [r EXCEPT !.server = v] /\ n = r.turn /\ r.server.stage = "hearing"
    BY <2>4, WorkerIs, <1>7, <2>2 DEF Heir, Owes, n
  <2> QED BY <2>1, <2>3, <2>4
<1>8. CASE c.op = "interrupt" /\ q \in Interrupt(r, n)
  <2> DEFINE b == [r EXCEPT !.quarantine = n, !.complete = TRUE]
  <2>1. q = r \/ (n = r.turn /\ q \in Hearing(b, r.server.turn))
    BY <1>8, Zenon DEF Interrupt
  <2>2. CASE q = r
    BY <1>8, <2>2 DEF Heir, Pauses
  <2>3. CASE n = r.turn /\ q \in Hearing(b, r.server.turn)
    <3>1. b \in Worker /\ Heir(r, b) /\ b.turn = r.turn /\ b.quarantine = n /\ b.wire = r.wire
          /\ b.server = r.server
      <4> DEFINE a == [r EXCEPT !.quarantine = n]
                 d == [a EXCEPT !.complete = TRUE]
      <4>1. a \in Worker
        BY <1>1, WorkerIs
      <4>2. d \in Worker
        <5> HIDE DEF a
        <5> QED BY <4>1, WorkerIs
      <4>3. b = d
        BY Zenon
      <4>4. b \in Worker
        BY <4>2, <4>3
      <4> HIDE DEF d, a
      <4> QED BY <1>1, <4>4, WorkerIs DEF Heir
    <3> HIDE DEF b
    <3> QED BY <1>4, <1>8, <2>3, <3>1, <1>3, HearingAdds DEF Heir, Breaks, Puts, Paced, n,
         F, l
  <2> QED BY <2>1, <2>2, <2>3
<1> QED BY <1>5, <1>6, <1>7, <1>8
\* A call of a conversation that goes on is served: what it promises is kept.
LEMMA ServedGoing ==
    ASSUME NEW s, NEW r, NEW q, NEW C, NEW D, NEW S, NEW c, C = D \cup {c},
           Moving(s, r, C, S), s.turn # None, Heir(r, q),
           s.next \in Nat, s.turn[2] \in Nat, r.turn \in Nat,
           Pauses(r, q, s, c) \/ Listens(r, q, c) \/ Owes(r, q, c) \/ Breaks(r, q, c)
    PROVE  Moving(s, q, D, S)
<1> DEFINE n == s.turn[2]
           i == [kind |-> "interrupted", turn |-> r.server.turn]
           d == [kind |-> "completed", turn |-> r.server.turn]
<1>1. /\ Reserved(s, r) /\ Bygone(s, r, C, S) /\ Open(s, r, S) /\ Coming(s, r, C, S)
      /\ s.deaf \/ Hears(s) \/ Replies(s)
  BY DEF Moving
<1>2. Reserved(s, q) /\ Open(s, q, S)
  BY <1>1 DEF Heir, Reserved, Open
<1>3. c \in C /\ D \subseteq C /\ s.next = n + 1
  BY <1>1 DEF Open
<1>4. (c.op = "interrupt" => c.turn[2] + 1 < s.next) /\ c.turn[2] < s.next
  BY <1>1, <1>3 DEF Bygone
<1>5. i.kind = "interrupted" /\ i.turn = r.server.turn /\ d.kind = "completed"
  OBVIOUS
<1> HIDE DEF i, d
<1>6. Bygone(s, q, D, S)
  BY <1>1, <1>4, <1>5, <1>3 DEF Bygone, Pauses, Listens, Owes, Breaks, Puts, i, d
<1>7. ASSUME s.play = "open", ~s.paused, q.tries = 0, ~q.server.lost
      PROVE  /\ s.bridge = None =>
                   \/ \E b \in C : b.op = "end" /\ b.turn[2] = n
                   \/ r.server.stage = "owing" /\ r.turn = n
                   \/ Answered(r, C, S, n)
             /\ r.turn = n /\ r.server.stage = "quiet" => Answered(r, C, S, n)
  BY <1>1, <1>7 DEF Coming, Heir
<1>9. Coming(s, q, D, S)
  BY <1>7, <1>3, <1>4 DEF Coming, Pauses, Listens, Owes, Breaks, Puts, Answered
<1> QED BY <1>1, <1>2, <1>6, <1>9 DEF Moving

\* The worker is fit for a place before its calls and the frames that may follow.
Placed(k) ==
    /\ Fit(Own, k)
    /\ \A c \in Members(Own.calls) : k <= Rank(app.thread, c)
    /\ app.bridge # None => k <= Place(app.thread, app.bridge, 0)

LEMMA HeadIs ==
    ASSUME IInv, Order, app.thread \in Sessions, ~Own.crossed
    PROVE  /\ \E k \in Nat : Placed(k)
           /\ Own.calls # <<>> => Fit(Own, Rank(app.thread, Head(Own.calls)))
<1> DEFINE C == Own.calls
           w == app.thread
<1>1. PICK k \in Nat : Agreed(k)
  BY DEF Order
<1>2. w # None /\ Own \in Worker /\ C \in Seq(Calls) /\ app.sent = <<>>
  BY Here, TurnNames
<1>3. Orderly(app, k) /\ Fit(Own, k)
  BY <1>1, <1>2 DEF Agreed, Own
<1>4. Pending(app) = C
  <2>1. Pending(app) = C \o <<>>
    BY <1>2 DEF Pending, Own
  <2> HIDE DEF C
  <2> QED BY <1>2, <2>1
<1>5. Lined(w, C, k)
  BY <1>2, <1>3, <1>4 DEF Orderly
<1>6. ASSUME C # <<>> PROVE Fit(Own, Rank(w, Head(C)))
  <2> HIDE DEF C, w
  <2> QED BY <1>2, <1>3, <1>5, <1>6, RankIs, FitLater DEF Lined
<1>7. \A c \in Members(C) : k <= Rank(w, c)
  BY <1>5 DEF Lined, Members
<1> QED BY <1>3, <1>6, <1>7, <1>2 DEF Placed, Orderly, Ahead, Comes

LEMMA CallProgress ==
    ASSUME IInv, Order, Progress, NEW w \in Sessions, Call(w)
    PROVE  Progress'
<1> DEFINE u == workers[w]
           x == Tail(u.calls)
           r == [u EXCEPT !.calls = x]
           c == Head(u.calls)
           d == Doomed(r)
<1>1. /\ u \in Worker /\ Heeds(u) /\ u.calls \in Seq(Calls) /\ u.calls # <<>> /\ Linked(u)
      /\ u.phase \notin {"new", "done"}
  BY Workers, WorkerTyped DEF Call, Progress, Parted
<1>2. /\ app' = app
      /\ \/ workers' = [workers EXCEPT ![w] = d]
         \/ /\ \E q \in Called(w, r, c) : workers' = [workers EXCEPT ![w] = q]
            /\ UNCHANGED signals
  BY Zenon DEF Call
<1>3. /\ c \in Calls /\ x \in Seq(Calls) /\ Members(u.calls) = Members(x) \cup {c}
  BY <1>1, MembersAre
<1> HIDE DEF x, c
<1>4. /\ r \in Worker /\ Heeds(r) /\ r.phase = u.phase /\ r.crossed = u.crossed
      /\ r.calls = x /\ r.turn = u.turn /\ r.complete = u.complete /\ r.link = u.link
      /\ r.quarantine = u.quarantine /\ r.wire = u.wire /\ r.server = u.server
      /\ r.stop = u.stop /\ r.tries = u.tries
  BY <1>1, <1>3, WorkerIs DEF Desks, Heeds
<1> HIDE DEF r
<1>5. CASE workers' = [workers EXCEPT ![w] = d]
  <2>1. d.stop /\ d.phase = u.phase /\ d.link = u.link
    BY <1>4, DoomedIs
  <2> HIDE DEF d
  <2> QED BY <1>1, <1>2, <1>5, <2>1, QuitProgress DEF Quits, Apart, Linked
<1>6. CASE /\ \E q \in Called(w, r, c) : workers' = [workers EXCEPT ![w] = q]
           /\ UNCHANGED signals
  <2>1. PICK q \in Called(w, r, c) : workers' = [workers EXCEPT ![w] = q]
    BY <1>6
  <2>2. Heir(r, q) /\ q.phase = u.phase /\ q.link = u.link /\ q.stop = u.stop
        /\ q.crossed = u.crossed /\ q.calls = x
    BY <1>3, <1>4, CallMakes DEF Heir
  <2>3. ASSUME app.active, app.alone, app.thread = w
        PROVE  Going(app, q, Members(q.calls), Members(signals))
    <3>1. Going(app, u, Members(u.calls), Members(signals)) /\ app.next \in Nat
          /\ (app.turn # None => app.turn[2] \in Nat) /\ r.turn \in Nat
      BY <1>4, <2>3, WorkFrom, Here, WorkerTyped DEF Own
    <3> SUFFICES ASSUME Lasts(app, q, Members(signals))
                 PROVE  Moving(app, q, Members(q.calls), Members(signals))
      BY DEF Going
    <3>2. ~u.crossed
      BY <2>2 DEF Lasts
    <3>3. Fit(u, Rank(w, c))
      BY <1>1, <2>3, <3>2, HeadIs DEF Own, c
    <3>4. Fit(r, Rank(w, c))
      BY <1>4, <3>3, FitCalls
    <3>5. Moving(app, q, Members(x), Members(signals))
      <4>1. Lasts(app, u, Members(signals))
        BY <2>2 DEF Lasts, Quits
      <4>2. Moving(app, r, Members(x) \cup {c}, Members(signals))
        BY <1>3, <1>4, <3>1, <4>1 DEF Going, Moving, Reserved, Bygone, Waits, Open, Coming, Answered
      <4>3. c.turn[1] = w /\ app.turn # None
        BY <2>3, <4>2 DEF Moving, Bygone, Waits
      <4>4. Pauses(r, q, app, c) \/ Listens(r, q, c) \/ Owes(r, q, c) \/ Breaks(r, q, c)
        BY <1>3, <1>4, <3>4, <4>3, CallMakes
      <4> QED BY <2>2, <3>1, <4>2, <4>3, <4>4, ServedGoing
    <3> QED BY <2>2, <3>5
  <2> QED BY <1>1, <1>2, <1>6, <2>1, <2>2, <2>3, WorkProgress DEF Apart, Linked
<1> QED BY <1>2, <1>5, <1>6
-----------------------------------------------------------------------------
(* The provider answers, and the answer is read *)

LEMMA AnswersGoing ==
    ASSUME NEW s, NEW r, NEW q, NEW C, NEW S, NEW e, Moving(s, r, C, S), s.turn # None,
           q.phase = r.phase, q.link = r.link, q.tries = r.tries, q.turn = r.turn,
           q.quarantine = r.quarantine, q.server.lost = r.server.lost,
           Members(q.wire) = Members(r.wire) \cup {e}, e.turn = r.turn,
           e.kind # "interrupted", r.server.stage = "owing",
           q.server.stage = IF e.kind = "completed" THEN "quiet" ELSE "owing"
    PROVE  Moving(s, q, C, S)
BY DEF Moving, Reserved, Open, Bygone, Answered, Coming

LEMMA AnswerProgress ==
    ASSUME IInv, Order, Progress, NEW w \in Sessions, Answer(w)
    PROVE  Progress'
<1> DEFINE u == workers[w]
<1>1. /\ u \in Worker /\ u.server \in Servers /\ u.wire \in Seq(Events) /\ Linked(u)
      /\ u.server.stage = "owing" /\ u.link = "ACTIVE" /\ u.phase \notin {"new", "done"}
      /\ app' = app /\ signals' = signals /\ u.server.turn \in Numbers /\ u.turn \in Nat
  BY Workers, WorkerTyped DEF Answer, Progress, Parted, Linked, Early, Servers
<1>2. PICK k \in {"audio", "final", "completed"} :
        workers' = [workers EXCEPT
            ![w].wire = Append(@, [kind |-> k, turn |-> u.server.turn]),
            ![w].server.stage = IF k = "completed" THEN "quiet" ELSE @]
  BY Zenon DEF Answer
<1> DEFINE e == [kind |-> k, turn |-> u.server.turn]
           x == Append(u.wire, e)
           g == IF k = "completed" THEN "quiet" ELSE u.server.stage
           v == [u.server EXCEPT !.stage = g]
           q == [u EXCEPT !.wire = x, !.server = v]
<1>3. workers' = [workers EXCEPT ![w] = q]
  BY ZenonT(40), <1>2
<1>4. e \in Events /\ e.kind = k /\ e.turn = u.server.turn
  BY <1>1 DEF Events
<1> HIDE DEF e
<1>5. Members(x) = Members(u.wire) \cup {e}
  BY <1>1, <1>4, MembersAre
<1>6. v.stage = g /\ v.lost = u.server.lost
  <2> HIDE DEF g
  <2> QED BY <1>1 DEF Servers
<1>7. g = IF e.kind = "completed" THEN "quiet" ELSE "owing"
  BY <1>1, <1>4
<1> HIDE DEF x, g, v
<1>8. /\ q.phase = u.phase /\ q.stop = u.stop /\ q.link = u.link /\ q.crossed = u.crossed
      /\ q.turn = u.turn /\ q.quarantine = u.quarantine /\ q.tries = u.tries
      /\ q.calls = u.calls /\ q.wire = x /\ q.server = v
  BY <1>1, WorkerIs
<1> HIDE DEF q
<1>9. ASSUME app.active, app.alone, app.thread = w
      PROVE  Going(app, q, Members(q.calls), Members(signals))
  <2> SUFFICES ASSUME Lasts(app, q, Members(signals))
               PROVE  Moving(app, q, Members(u.calls), Members(signals))
    BY <1>8 DEF Going
  <2>2. Moving(app, u, Members(u.calls), Members(signals)) /\ ~u.crossed
    BY <1>8, <1>9, WorkFrom DEF Going, Lasts, Quits, Own
  <2>3. Paced(u)
    BY <1>9, <2>2, HeadIs DEF Own, Placed, Fit
  <2>4. app.turn # None
    BY <2>2, <1>1, <2>3 DEF Moving, Bygone, Waits, Paced
  <2>5. /\ e.turn = u.turn /\ e.kind # "interrupted"
        /\ q.server.lost = u.server.lost /\ q.server.stage = g
        /\ Members(q.wire) = Members(u.wire) \cup {e}
    BY <1>4, <1>5, <1>6, <1>8, <2>3 DEF Paced
  <2> HIDE DEF u
  <2> QED BY <1>1, <1>7, <1>8, <2>2, <2>4, <2>5, AnswersGoing
<1> QED BY <1>1, <1>3, <1>8, <1>9, WorkProgress DEF Apart, Linked

\* What reading event e makes of a worker and of the signals.
Confirms(r, q, S, T, e) ==
    /\ e.kind = "interrupted" /\ q.quarantine = 0
    /\ \/ T = S
       \/ \E m : T = S \cup {m} /\ m.kind = "interrupted" /\ m.turn = r.quarantine
                 /\ r.quarantine # 0
Completes(s, r, q, S, T, e) ==
    /\ e.kind = "completed" /\ q.quarantine = r.quarantine /\ r.turn = e.turn
    /\ \E m : T = S \cup {m} /\ m.kind = "completed" /\ m.turn = r.turn
    /\ r.turn = s.turn[2] => s.bridge = None
Withholds(s, r, q, C, S, T, e) ==
    /\ e.kind = "completed" /\ q.quarantine = r.quarantine /\ T = S /\ r.quarantine # 0
    /\ e.turn = s.turn[2] => /\ \A f \in Members(q.wire) : f.kind # "interrupted"
                             /\ \A c \in C : c.op # "interrupt"
Relays(r, q, S, T, e) ==
    /\ e.kind \in {"audio", "final"} /\ q.quarantine = r.quarantine
    /\ \/ T = S
       \/ \E m : T = S \cup {m} /\ m.kind \in {"audio", "final"} /\ m.turn = r.turn

LEMMA ReadGoing ==
    ASSUME NEW s, NEW r, NEW q, NEW C, NEW S, NEW T, NEW e,
           Moving(s, r, C, S), s.turn # None, s.next \in Nat, s.turn[2] \in Nat,
           r.quarantine \in Nat, q.phase = r.phase, q.link = r.link, q.tries = r.tries,
           q.turn = r.turn, q.server = r.server,
           Members(r.wire) = Members(q.wire) \cup {e},
           \/ Confirms(r, q, S, T, e) \/ Completes(s, r, q, S, T, e)
           \/ Withholds(s, r, q, C, S, T, e) \/ Relays(r, q, S, T, e)
    PROVE  Moving(s, q, C, T)
<1> DEFINE n == s.turn[2]
<1>1. /\ Reserved(s, r) /\ Bygone(s, r, C, S) /\ Open(s, r, S) /\ Coming(s, r, C, S)
      /\ s.deaf \/ Hears(s) \/ Replies(s)
  BY DEF Moving
<1>2. /\ S \subseteq T
      /\ \A m \in T : \/ m \in S
                      \/ /\ m.kind = "interrupted" /\ m.turn = r.quarantine /\ r.quarantine # 0
                      \/ /\ m.kind = "completed" /\ m.turn = r.turn
                         /\ r.turn = n => s.bridge = None
                      \/ /\ m.kind \in {"audio", "final"} /\ m.turn = r.turn
  BY DEF Confirms, Completes, Withholds, Relays
<1>3. (\A f \in Members(q.wire) : f \in Members(r.wire)) /\ q.quarantine \in {0, r.quarantine}
  BY DEF Confirms, Completes, Withholds, Relays
<1>4. Reserved(s, q)
  BY <1>1 DEF Reserved
<1>5. Open(s, q, T)
  BY <1>1, <1>2 DEF Open
<1>6. Bygone(s, q, C, T)
  BY <1>1, <1>2, <1>3 DEF Bygone
<1>8. Coming(s, q, C, T)
  BY <1>1, <1>2, <1>3 DEF Coming, Answered, Confirms, Completes, Withholds, Relays
<1> QED BY <1>1, <1>4, <1>5, <1>6, <1>8 DEF Moving
\* A completion that is kept from a conversation is the last word on its turn.
LEMMA LastWord ==
    ASSUME IInv, Order, app.thread \in Sessions, ~Own.crossed, Own.wire # <<>>,
           Head(Own.wire).kind \in {"audio", "final", "completed"},
           app.turn # None, NEW C, C = Members(Own.calls),
           Moving(app, Own, C, Members(signals))
    PROVE  /\ Own.turn # 0
           /\ Head(Own.wire).turn = app.turn[2] =>
                 /\ \A f \in Members(Tail(Own.wire)) : f.kind # "interrupted"
                 /\ \A c \in C : c.op # "interrupt"
           /\ Head(Own.wire).turn = Own.turn /\ Own.turn = app.turn[2] => app.bridge = None
<1> DEFINE W == Own.wire
           n == app.turn[2]
           w == app.thread
<1>1. PICK k \in Nat : /\ Fit(Own, k) /\ \A c \in C : k <= Rank(w, c)
                       /\ app.bridge # None => k <= Place(w, app.bridge, 0)
  BY HeadIs DEF Placed
<1>2. /\ Own \in Worker /\ W \in Seq(Events) /\ Own.turn \in Nat /\ app.next \in Nat
      /\ n \in Nat /\ app.turn \in Turns /\ Own.calls \in Seq(Calls)
      /\ \A i \in 1..Len(W) : W[i].turn \in Nat
  BY Here, WorkerTyped
<1>3. /\ Bygone(app, Own, C, Members(signals)) /\ app.turn[1] = w /\ app.next = n + 1
      /\ app.bridge \in {None, app.turn}
  BY DEF Moving, Open
<1>4. Paced(Own) /\ 3 * Own.turn <= k /\ (k = 3 * Own.turn /\ Own.turn # 0 => OnlyHeard(Own))
  BY <1>1 DEF Fit
<1>5. Own.turn # 0
  BY <1>4 DEF Paced
<1>6. n <= MaxTurns /\ MaxTurns \in Nat
  BY <1>2, TurnNames
<1>7. /\ Len(W) \in Nat /\ 1 \in 1..Len(W) /\ Head(W) = W[1]
      /\ \A i \in 1..Len(Tail(W)) : i + 1 \in 1..Len(W) /\ Tail(W)[i] = W[i + 1]
  <2>1. W # <<>>
    OBVIOUS
  <2> HIDE DEF W
  <2> QED BY <1>2, <2>1
<1>8. ASSUME Head(W).turn = n, NEW f \in Members(Tail(W)), f.kind = "interrupted"
      PROVE  FALSE
  <2>1. PICK i \in 1..Len(Tail(W)) : f = W[i + 1] /\ i + 1 \in 1..Len(W) /\ 1 < i + 1
    BY <1>7, <1>8 DEF Members
  <2>2. f \in Members(W) /\ f.turn \in Nat
    BY <1>2, <2>1 DEF Members
  <2>3. n <= f.turn
    BY <1>4, <1>7, <1>8, <2>1 DEF Paced
  <2> QED BY <1>2, <1>3, <1>8, <2>2, <2>3 DEF Bygone
<1>9. ASSUME Head(W).turn = n, NEW c \in C, c.op = "interrupt"
      PROVE  FALSE
  <2>1. c \in Calls
    BY <1>2, MembersAre
  <2>2. c.turn[1] = w /\ c.turn[2] + 1 < n + 1 /\ c.turn[2] \in Nat /\ c.turn[2] <= MaxTurns
    BY <1>3, <1>9, <2>1, CallsTyped DEF Bygone
  <2>3. Rank(w, c) = 3 * c.turn[2] + 2
    BY <1>9, <2>1, <2>2, RankIs DEF Place
  <2>4. n <= Own.turn
    BY <1>4, <1>7, <1>9 DEF Paced
  <2>5. k <= 3 * c.turn[2] + 2
    BY <1>1, <2>3
  <2> HIDE DEF n
  <2> QED BY <1>2, <1>4, <2>2, <2>4, <2>5
<1>10. ASSUME Head(W).turn = Own.turn, Own.turn = n, app.bridge # None
       PROVE  FALSE
  <2>1. Place(w, app.turn, 0) = 3 * n
    BY <1>2, <1>3, <1>6 DEF Place
  <2>2. k <= 3 * n
    BY <1>1, <1>3, <1>10, <2>1
  <2>3. k = 3 * Own.turn
    <3> HIDE DEF n
    <3> QED BY <1>2, <1>4, <1>10, <2>2
  <2> QED BY <1>4, <1>5, <1>7, <1>10, <2>3 DEF OnlyHeard
<1> QED BY <1>5, <1>8, <1>9, <1>10

LEMMA DispatchProgress ==
    ASSUME IInv, Order, Progress, NEW w \in Sessions, Dispatch(w)
    PROVE  Progress'
<1> DEFINE u == workers[w]
           x == Tail(u.wire)
           r == [u EXCEPT !.wire = x]
           e == Head(u.wire)
           passes == ~Quarantined(r, e) /\ r.turn # 0
           y == r.crossed \/ r.quarantine \notin {0, e.turn}
           b == [r EXCEPT !.quarantine = 0, !.crossed = y]
           z == r.crossed \/ r.turn # e.turn
           g == [r EXCEPT !.complete = TRUE, !.crossed = z]
           i == Signal("interrupted", r.quarantine, 0)
           m == Signal(e.kind, r.turn, e.turn)
<1>1. /\ u \in Worker /\ u.wire \in Seq(Events) /\ u.wire # <<>> /\ u.phase = "live"
      /\ signals \in Seq(Signals) /\ app' = app
  BY Workers, WorkerTyped DEF Dispatch
<1>2. \/ /\ e.kind = "interrupted" /\ workers' = [workers EXCEPT ![w] = b]
         /\ signals' = IF r.quarantine = 0 THEN signals ELSE Emit(w, i)
      \/ /\ e.kind # "interrupted"
         /\ workers' = [workers EXCEPT ![w] = IF passes /\ e.kind = "completed" THEN g ELSE r]
         /\ signals' = IF passes /\ (e.kind = "completed" \/ ~app.paused)
                       THEN Emit(w, m) ELSE signals
  <2>1. CASE e.kind = "interrupted"
    BY <2>1, ZenonT(40) DEF Dispatch
  <2>2. CASE e.kind # "interrupted"
    BY <2>2, ZenonT(40) DEF Dispatch
  <2> QED BY <2>1, <2>2
<1>3. /\ x \in Wires /\ e \in Events /\ e.turn \in Numbers
      /\ e.kind \in {"audio", "final", "completed", "interrupted"}
      /\ Members(u.wire) = Members(x) \cup {e}
  <2>1. e \in Events /\ x \in Seq(Events) /\ Members(u.wire) = Members(x) \cup {e}
    BY <1>1, MembersAre
  <2> HIDE DEF u, x, e
  <2> QED BY <2>1 DEF Wires, Events
<1> HIDE DEF x, e
<1>4. /\ r \in Worker /\ r.phase = "live" /\ r.turn = u.turn /\ r.wire = x
      /\ r.quarantine = u.quarantine /\ r.calls = u.calls /\ r.stop = u.stop
      /\ r.crossed = u.crossed /\ r.server = u.server /\ r.link = u.link /\ r.tries = u.tries
      /\ r.turn \in Numbers /\ r.quarantine \in Numbers
  BY <1>1, <1>3, WorkerIs
<1> HIDE DEF r
<1>5. /\ b.phase = "live" /\ b.turn = u.turn /\ b.wire = x /\ b.quarantine = 0
      /\ b.calls = u.calls /\ b.stop = u.stop /\ b.server = u.server /\ b.link = u.link
      /\ b.tries = u.tries /\ (u.crossed => b.crossed)
  <2>1. y \in BOOLEAN /\ (u.crossed => y)
    BY <1>4, WorkerTyped
  <2> HIDE DEF y
  <2> QED BY <1>4, <2>1, WorkerIs
<1>6. /\ g.phase = "live" /\ g.turn = u.turn /\ g.wire = x /\ g.quarantine = u.quarantine
      /\ g.calls = u.calls /\ g.stop = u.stop /\ g.server = u.server /\ g.link = u.link
      /\ g.tries = u.tries /\ (u.crossed => g.crossed) /\ (~g.crossed => u.turn = e.turn)
  <2>1. z \in BOOLEAN /\ (u.crossed => z) /\ (~z => u.turn = e.turn)
    BY <1>4, WorkerTyped
  <2> HIDE DEF z
  <2> QED BY <1>4, <2>1, WorkerIs
<1>7. /\ i \in Signals /\ i.kind = "interrupted" /\ i.turn = u.quarantine
      /\ m \in Signals /\ m.kind = e.kind /\ m.turn = u.turn
  <2>1. 0 \in Numbers
    BY WorkerIs
  <2> HIDE DEF u
  <2> QED BY <1>3, <1>4, <2>1 DEF Signals, Signal
<1>8. /\ e.kind = "completed" /\ passes => u.quarantine = 0 /\ u.turn # 0
      /\ e.kind = "completed" /\ ~passes => u.quarantine # 0 \/ u.turn = 0
  BY <1>4 DEF Quarantined
<1> HIDE DEF b, g, i, m, passes
<1>9. PICK q : /\ workers' = [workers EXCEPT ![w] = q]
               /\ q.phase = "live" /\ q.turn = u.turn /\ q.wire = x
               /\ q.calls = u.calls /\ q.stop = u.stop /\ q.server = u.server
               /\ q.link = u.link /\ q.tries = u.tries /\ (u.crossed => q.crossed)
               /\ \/ /\ e.kind = "interrupted" /\ q.quarantine = 0
                     /\ signals' = signals \/ (u.quarantine # 0 /\ signals' = Emit(w, i))
                  \/ /\ e.kind = "completed" /\ q.quarantine = u.quarantine /\ passes
                     /\ signals' = Emit(w, m) /\ (~q.crossed => u.turn = e.turn)
                  \/ /\ e.kind = "completed" /\ q.quarantine = u.quarantine /\ ~passes
                     /\ signals' = signals
                  \/ /\ e.kind \in {"audio", "final"} /\ q.quarantine = u.quarantine
                     /\ signals' = signals \/ signals' = Emit(w, m)
  BY <1>2, <1>4, <1>5, <1>6, <1>3
<1>10. ASSUME app.active, app.alone, app.thread = w
       PROVE  Going(app, q, Members(q.calls), Members(signals'))
  <2> DEFINE S == Members(signals)
             T == Members(signals')
             C == Members(u.calls)
  <2>1. Going(app, u, C, S) /\ app.next \in Nat /\ (app.turn # None => app.turn[2] \in Nat)
        /\ u.quarantine \in Nat
    BY <1>1, <1>10, WorkFrom, Here, WorkerTyped DEF Own
  <2>2. /\ signals' = Emit(w, m) => T = S \cup {m}
        /\ signals' = Emit(w, i) => T = S \cup {i}
        /\ signals' = signals => T = S
    BY <1>1, <1>7, <1>10, SignalAdds
  <2> HIDE DEF S, T
  <2> SUFFICES ASSUME Lasts(app, q, T)
               PROVE  Moving(app, q, C, T)
    BY <1>9 DEF Going, T
  <2>3. ~u.crossed /\ ~q.crossed
    BY <1>9 DEF Lasts
  <2>4. S \subseteq T
    BY <1>9, <2>2
  <2>5. Moving(app, u, C, S)
    BY <1>1, <1>9, <2>1, <2>3, <2>4 DEF Going, Lasts, Quits
  <2>6. app.turn # None
    BY <1>1, <2>5 DEF Moving, Waits
  <2>7. e.kind # "interrupted" =>
           /\ u.turn # 0
           /\ e.turn = app.turn[2] => /\ \A f \in Members(x) : f.kind # "interrupted"
                                      /\ \A c \in C : c.op # "interrupt"
           /\ e.turn = u.turn /\ u.turn = app.turn[2] => app.bridge = None
    BY <1>1, <1>3, <1>10, <2>3, <2>5, <2>6, LastWord DEF Own, S, x, e
  <2>8. \/ Confirms(u, q, S, T, e) \/ Completes(app, u, q, S, T, e)
        \/ Withholds(app, u, q, C, S, T, e) \/ Relays(u, q, S, T, e)
    BY <1>7, <1>9, <2>2, <2>3, <2>7, <1>8, <1>3 DEF Confirms, Completes, Withholds, Relays
  <2> HIDE DEF C, u
  <2>9. q.phase = u.phase /\ Members(u.wire) = Members(q.wire) \cup {e}
    BY <1>1, <1>3, <1>9
  <2> QED BY <1>9, <2>1, <2>5, <2>6, <2>8, <2>9, ReadGoing
<1> QED BY <1>1, <1>9, <1>10, WorkProgress DEF Apart, Linked, Early
-----------------------------------------------------------------------------
(* Every step, and what it says of the conversation *)

LEMMA ProgressBegins == Init => Progress
BY DEF Init, Fresh, Parted, Linked, Early, Progress, Lonely, Present, Going, Lasts

LEMMA ProgressNext == IInv /\ Order /\ Progress /\ [Next]_vars => Progress'
<1> SUFFICES ASSUME IInv, Order, Progress, [Next]_vars PROVE Progress'
  OBVIOUS
<1>1. CASE Runtime
  BY <1>1, StartProgress, EndProgress, TalkProgress, FrameProgress, EndpointProgress,
     TimeoutProgress, RenewProgress, MicFailsProgress, StopAllSpeechProgress,
     SaveSettingsProgress, SuspendProgress, SoundEndsProgress, SoundFailsProgress,
     DeliverProgress DEF Runtime
<1>2. ASSUME NEW w \in Sessions, Work(w)
      PROVE  Progress'
  BY <1>2, BootProgress, ReserveProgress, ConnectedProgress, ConnectFailsProgress,
     CallProgress, DispatchProgress, ReconnectProgress, RetryProgress DEF Work
<1>3. ASSUME NEW w \in Sessions, Deadline(w) \/ Finish(w) \/ Answer(w) \/ Lose(w)
      PROVE  Progress'
  BY <1>3, DeadlineProgress, StopProgress, ReleaseProgress, LeaveProgress, AnswerProgress,
     LoseProgress DEF Finish
<1>4. CASE UNCHANGED vars
  BY <1>4 DEF vars, Progress, Parted, Lonely, Present
<1> QED BY <1>1, <1>2, <1>3, <1>4 DEF Next

\* A conversation that does not last is about to end.
LEMMA LastsOrEnds ==
    ASSUME app.active, app.alone, ~Own.crossed, ~Ending
    PROVE  Lasts(app, Own, Members(signals))
BY DEF Ending, Lasts, Quits, Own, Members

\* The answer to a user who has been heard is underway, unless it may never come.
LEMMA AnswerComes ==
    ASSUME IInv, Order, app.active, app.turn # None,
           Moving(app, Own, Members(Own.calls), Members(signals)),
           app.play = "open", app.bridge = None
    PROVE  Underway \/ Unanswered
BY MembersOf DEF Underway, Unanswered, Own, Moving, Coming, Answered

LEMMA ProgressMoves ==
    ASSUME IInv, Order, Progress
    PROVE  Moves
<1> SUFFICES ASSUME app.active, app.alone, ~app.deaf, ~Own.crossed, ~Ending
             PROVE  Beginning \/ Heard \/ Awaited \/ app.sound # None
  BY DEF Moves, Own
<1> DEFINE C == Members(Own.calls)
           S == Members(signals)
<1>1. Moving(app, Own, C, S)
  BY LastsOrEnds DEF Progress, Present, Going, Own
<1>2. ~app.opens
  BY Here
<1>3. CASE app.turn = None
  BY <1>1, <1>3 DEF Moving, Waits, Reserved, Beginning, Own, Members
<1>4. CASE app.turn # None
  BY <1>1, <1>4, <1>2, Here, AnswerComes DEF Moving, Hears, Heard, Wide, Replies, Awaited
<1> QED BY <1>3, <1>4

-----------------------------------------------------------------------------
(* The theorems *)

LEMMA InitHolds == Init => IInv
<1> SUFFICES ASSUME Init PROVE IInv
  OBVIOUS
<1>1. /\ app.active = FALSE /\ app.thread = None /\ app.turn = None /\ app.voice = "IDLE"
      /\ app.op = "none" /\ app.mic = FALSE /\ app.bridge = None /\ app.text = None
      /\ app.play = "off" /\ app.more = None /\ app.sound = None /\ app.life = "IDLE"
      /\ app.session = None /\ app.held = 0 /\ app.next = 1 /\ app.chat = <<>>
      /\ ~app.halt /\ app.sent = <<>> /\ ~app.opens /\ ~app.raised
  BY DEF Init
<1>2. app \in App
  BY BoundsAssumption, WorkerIs, AppIs DEF Bars, Chats, Numbers, Init
<1>3. app \in Wide
  BY <1>2, AppIsWide
<1>4. Good(app)
  BY <1>1, <1>3 DEF Good, Core, Bounded, Named, Numbered, Transcribed, Lives, Rested
<1>6. Connecting /\ Held /\ Told /\ signals \in Seq(Signals)
  BY <1>1, TurnNames DEF Init, Connecting, Held, Told
<1> QED BY <1>1, <1>2, <1>4, <1>6, WorkerIs DEF IInv, TypeOK, Init, Fresh, Phases, Heeds,
     Silent

\* What a step may write.
Written ==
    app'.chat \notin {app.chat, <<>>} =>
        /\ app.turn # None /\ app.turn[2] \notin app.barred
        /\ \A i \in 1..Len(app.chat) : app.chat[i] # app.turn
        /\ app'.chat = Append(app.chat, app.turn)

LEMMA NextHolds == IInv /\ [Next]_vars => IInv' /\ Written
<1> SUFFICES ASSUME IInv, [Next]_vars PROVE IInv' /\ Written
  OBVIOUS
<1>1. CASE Start
  BY <1>1, StartKeeps DEF Written
<1>2. CASE End
  BY <1>2, EndKeeps DEF Written
<1>3. CASE Talk
  BY <1>3, TalkKeeps DEF Written
<1>4. CASE Frame
  BY <1>4, FrameKeeps DEF Written
<1>5. CASE Endpoint
  BY <1>5, EndpointKeeps DEF Written
<1>6. CASE Timeout
  BY <1>6, TimeoutKeeps DEF Written
<1>7. CASE Renew
  BY <1>7, RenewKeeps DEF Written
<1>8. CASE MicFails
  BY <1>8, MicFailsKeeps DEF Written
<1>9. CASE StopAllSpeech
  BY <1>9, StopAllSpeechKeeps DEF Written
<1>10. CASE SaveSettings
  BY <1>10, SaveSettingsKeeps DEF Written
<1>11. CASE Suspend
  BY <1>11, SuspendKeeps DEF Written
<1>12. CASE SoundEnds
  BY <1>12, SoundEndsKeeps DEF Written
<1>13. CASE SoundFails
  BY <1>13, SoundFailsKeeps DEF Written
<1>14. CASE Deliver
  BY <1>14, DeliverKeeps DEF Written
<1>15. ASSUME NEW w \in Sessions, Work(w)
       PROVE  IInv' /\ Written
  BY <1>15, BootKeeps, ReserveKeeps, ConnectedKeeps, ConnectFailsKeeps, CallKeeps,
     DispatchKeeps, ReconnectKeeps, RetryKeeps DEF Work, Written
<1>16. ASSUME NEW w \in Sessions, Deadline(w) \/ Finish(w) \/ Answer(w) \/ Lose(w)
       PROVE  IInv' /\ Written
  BY <1>16, DeadlineKeeps, StopKeeps, ReleaseKeeps, LeaveKeeps, AnswerKeeps, LoseKeeps
  DEF Finish, Written
<1>17. CASE UNCHANGED vars
  <2>1. app' = app /\ workers' = workers /\ signals' = signals
    BY <1>17 DEF vars
  <2>3. Good(app)' /\ Held'
    BY <2>1 DEF IInv, Good, Core, Bounded, Named, Numbered, Begun, Transcribed, Lives,
                Rested, Held, Free
  <2>4. Connecting'
    BY <2>1 DEF IInv, Connecting, Says, Unbegun
  <2> QED BY <2>1, <2>3, <2>4 DEF IInv, Written, TypeOK, Told, Heeds
<1> QED BY <1>1, <1>2, <1>3, <1>4, <1>5, <1>6, <1>7, <1>8, <1>9, <1>10, <1>11, <1>12,
           <1>13, <1>14, <1>15, <1>16, <1>17 DEF Next, Runtime

\* The inductive invariant of the conversation holds in every reachable state, for any
\* number of conversations, turns and attempts.
THEOREM HostedInvariant == Spec => []IInv
<1>1. IInv /\ [Next]_vars => IInv'
  BY NextHolds
<1> QED BY <1>1, InitHolds, PTL DEF Spec

\* The application thread, the workers and what is underway between them have the
\* values the code gives them, and no handler leaves a call, a stop or an opening
\* microphone behind.
THEOREM HostedTypes == Spec => []TypeOK
<1>1. IInv => TypeOK
  BY DEF IInv
<1> QED BY <1>1, HostedInvariant, PTL

\* However a conversation ends, and in whatever order the worker and the application
\* learn of it, the voice is free, the microphone closed and no turn is open
\* (_release_turn), and a worker that is done holds no session.
THEOREM EverythingIsReleased == Spec => []AllReleased
<1>1. IInv => AllReleased
  BY DEF IInv, Good, Rested, Held, Free, AllReleased
<1> QED BY <1>1, HostedInvariant, PTL

\* The chat gets the open turn, at most once, and never a turn that a clarification has
\* barred (_handle_turn_completed, commit_completed_turn).
THEOREM TurnsAreWrittenOnce == Spec => WrittenOnce
<1>1. IInv /\ [Next]_vars => [Written]_vars
  BY NextHolds
<1> QED BY <1>1, HostedInvariant, PTL DEF Spec, WrittenOnce, Written

\* Calls are served, and answers given and heard, in the order of their turns, for any
\* number of conversations, turns and attempts, and queues of any length.
THEOREM CallsAreServedInOrder == Spec => []Order
<1>1. IInv /\ Order /\ [Next]_vars => Order'
  BY OrderNext
<1> QED BY <1>1, OrderBegins, HostedInvariant, PTL DEF Spec

\* What is heard answers the open turn of the runtime's own worker: an interrupted answer
\* is never played on (request_talk, the quarantine of the adapter, _handle_audio), unless
\* the adapter has taken one turn's event for another's.
THEOREM SoundIsTheTurns == Spec => []SoundIsOwn
<1>1. IInv /\ Order => SoundIsOwn
  BY DEF SoundIsOwn, IInv, Good, Rested, Order, Agreed, Orderly, Sounding, Crossed
<1> QED BY <1>1, HostedInvariant, CallsAreServedInOrder, PTL

\* A conversation that lasts goes on: the user's turn that is open is the last that was
\* begun, the ledger holds it, and once the user has been heard on it what completes it
\* is underway.
THEOREM ConversationsGoOn == Spec => []Progress
<1>1. IInv /\ Order /\ Progress /\ [Next]_vars => Progress'
  BY ProgressNext
<1> QED BY <1>1, ProgressBegins, HostedInvariant, CallsAreServedInOrder, PTL DEF Spec

\* A conversation never waits for nothing (_begin_turn, _handle_playback_completed): while
\* it is active it begins, hears the user, waits for an answer that is underway or that
\* Unanswered excuses, plays it, or ends.  Not promised after an intrusion of the rest of
\* the application, beside a worker that was left over, or once the adapter has taken one
\* turn's event for another's.
THEOREM ConversationsMove == Spec => []Moves
<1>1. IInv /\ Order /\ Progress => Moves
  BY ProgressMoves
<1> QED BY <1>1, HostedInvariant, CallsAreServedInOrder, ConversationsGoOn, PTL
=============================================================================
