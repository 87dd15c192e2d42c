--------------------------- MODULE SpeechOutputProofs ---------------------------
(***************************************************************************)
(* Proofs about SpeechOutput, for any number of replies, segments, workers *)
(* and any limits of the queue and of the prefetch.                        *)
(*                                                                         *)
(* The handlers are functions of the application's record, so each gets a  *)
(* lemma about records: from a sound record it makes a sound record.  The  *)
(* actions then follow from the lemmas of the handlers they call.          *)
(*                                                                         *)
(* The second half is about the order of a reply: no segment is left       *)
(* behind, none sounds before its turn or twice, and the end is announced  *)
(* once and truthfully.  It rests on the invariant of the first half.      *)
(***************************************************************************)
EXTENDS SpeechOutput, FiniteSetTheorems, WellFoundedInduction, TLAPS

\* Nothing is kept between two replies; within one, everything the controller
\* holds is of the segments submitted, and what plays is the next one.
Ranged(s) ==
    /\ s.resp = None =>
          /\ s.submitted = 0 /\ s.next = 0 /\ s.final = None /\ s.playing = None
          /\ s.pending = {} /\ s.active = {} /\ s.ready = {} /\ s.failed = {}
    /\ s.resp # None => s.submitted <= Length[s.resp]
    /\ s.next <= s.submitted
    /\ s.final # None => s.submitted = s.final + 1
    /\ \A i \in s.pending \cup s.active \cup s.failed : i < s.submitted
    /\ \A t \in s.ready : t[1] = s.resp /\ t[2] < s.submitted
    /\ s.playing # None => s.playing = s.next /\ s.next < s.submitted

\* The player and the reply know of each other, unless the output was robbed.
Linked(s) ==
    /\ s.sound \in Threads => s.sound = <<s.resp, s.playing>>
    /\ s.callback # None => s.callback = s.sound
    /\ s.started => s.sound # None
    /\ s.sound = Line /\ ~s.robbed => s.resp = None
    /\ s.playing # None /\ ~s.robbed => s.callback = <<s.resp, s.playing>>

Owned(s) == ~s.robbed => (s.resp # None \/ s.sound # None => OwnsOutput(s))

Sound(s) == s \in App /\ Ranged(s) /\ Linked(s) /\ Owned(s)

\* A single text that may still be played owns the output alone, and the worker
\* of one that sounds is past its result.
LineSound ==
    ~app.robbed =>
        /\ line.phase \in {"running", "audio", "failure"} /\ ~line.cancelled =>
              app.resp = None /\ app.sound = None /\ OwnsOutput(app)
        /\ app.sound = Line => line.phase \in {"finishing", "none"}

ChatSound == \A r \in Responses :
    chat[r].taken <= chat[r].sent /\ chat[r].sent <= Length[r]

IInv == TypeOK /\ Sound(app) /\ LineSound /\ ChatSound

-----------------------------------------------------------------------------
(* Names, and what a record holds *)

LEMMA ThreadNames ==
    /\ \A r \in Responses : Length[r] \in Nat /\ r \in Nat /\ r # None
    /\ \A t \in Threads : /\ t = <<t[1], t[2]>> /\ t[1] \in Responses
                          /\ t[2] \in Nat /\ t[2] \in Indices /\ t[2] < Length[t[1]]
    /\ \A r \in Responses, i \in Nat : i < Length[r] => <<r, i>> \in Threads /\ i \in Indices
    /\ \A i \in Indices : i \in Nat /\ i # None
    /\ \A r, i : (<<r, i>> # None /\ <<r, i>> # Line) \/ <<r, i>> \notin Threads
    /\ Line # None /\ None \notin Threads /\ Line \notin Threads
<1>1. \A r \in Responses : Length[r] \in Nat /\ r \in Nat /\ r # None
  BY BoundsAssumption, NamesAssumption DEF Responses
<1>2. \A i \in Indices : i \in Nat
  BY <1>1 DEF Indices
<1>3. \A i \in Indices : i # None
  BY <1>2, NamesAssumption
<1>4. \A t \in Threads : /\ t = <<t[1], t[2]>> /\ t[1] \in Responses
                         /\ t[2] \in Nat /\ t[2] \in Indices /\ t[2] < Length[t[1]]
  BY <1>2 DEF Threads
<1>5. ASSUME NEW r \in Responses, NEW i \in Nat, i < Length[r]
      PROVE  <<r, i>> \in Threads /\ i \in Indices
  <2>1. i \in 0..(Length[r] - 1)
    BY <1>1, <1>5
  <2>2. i \in Indices
    BY <2>1 DEF Indices
  <2> QED BY <2>2, <1>5 DEF Threads
<1> QED BY <1>1, <1>2, <1>3, <1>4, <1>5, NamesAssumption

\* What being of type App says of each field.
LEMMA AppFields ==
    ASSUME NEW s \in App
    PROVE  /\ s.enabled \in BOOLEAN /\ s.resp \in Responses \cup {None}
           /\ s.submitted \in Nat /\ s.next \in Nat /\ s.final \in Nat \cup {None}
           /\ s.pending \subseteq Indices /\ s.active \subseteq Indices
           /\ s.ready \subseteq Threads /\ s.failed \subseteq Indices
           /\ s.played \subseteq Indices /\ s.playing \in Indices \cup {None}
           /\ s.cancelled \subseteq Threads /\ s.work \in [Threads -> WorkerPhases]
           /\ s.sound \in Threads \cup {None, Line} /\ s.started \in BOOLEAN
           /\ s.callback \in Threads \cup {None}
           /\ s.fate \in [Threads -> {"unheard", "begun", "ended", "failed"}]
           /\ s.told \in [Responses -> Nat] /\ s.robbed \in BOOLEAN
  BY DEF App

\* Changes of a few fields that stay within App.
LEMMA AppPlaying ==
    ASSUME NEW s \in App, NEW i \in Indices \cup {None}
    PROVE  [s EXCEPT !.playing = i] \in App
  BY DEF App

LEMMA AppPlayingReady ==
    ASSUME NEW s \in App, NEW i \in Indices \cup {None}, NEW R \in SUBSET Threads
    PROVE  [s EXCEPT !.playing = i, !.ready = R] \in App
  BY DEF App

LEMMA AppReady ==
    ASSUME NEW s \in App, NEW R \in SUBSET Threads
    PROVE  [s EXCEPT !.ready = R] \in App
  BY DEF App

LEMMA AppPassed ==
    ASSUME NEW s \in App, NEW F \in SUBSET Indices, NEW n \in Nat
    PROVE  [s EXCEPT !.failed = F, !.next = n] \in App
  BY DEF App

LEMMA AppFailed ==
    ASSUME NEW s \in App, NEW F \in SUBSET Indices,
           NEW f \in [Threads -> {"unheard", "begun", "ended", "failed"}]
    PROVE  [s EXCEPT !.failed = F, !.fate = f] \in App
  BY DEF App

LEMMA AppEnded ==
    ASSUME NEW s \in App, NEW A \in SUBSET Indices, NEW C \in SUBSET Threads
    PROVE  [s EXCEPT !.active = A, !.cancelled = C] \in App
  BY DEF App

LEMMA AppPlayed ==
    ASSUME NEW s \in App, NEW P \in SUBSET Indices, NEW n \in Nat
    PROVE  [s EXCEPT !.played = P, !.playing = None, !.next = n] \in App
  BY DEF App

LEMMA AppStarted ==
    ASSUME NEW s \in App, NEW r \in Responses
    PROVE  [s EXCEPT !.resp = r, !.state = "THINKING", !.op = "output"] \in App
  BY DEF App, Output

LEMMA AppQueued ==
    ASSUME NEW s \in App, NEW P \in SUBSET Indices, NEW n \in Nat,
           NEW f \in Nat \cup {None}
    PROVE  [s EXCEPT !.pending = P, !.submitted = n, !.final = f] \in App
  BY DEF App

LEMMA AppWork ==
    ASSUME NEW s \in App, NEW w \in [Threads -> WorkerPhases]
    PROVE  [s EXCEPT !.work = w] \in App
  BY DEF App

LEMMA AppSaid ==
    ASSUME NEW s \in App, NEW f \in [Threads -> {"unheard", "begun", "ended", "failed"}]
    PROVE  [s EXCEPT !.fate = f] \in App
  BY DEF App

LEMMA AppVoice ==
    ASSUME NEW s \in App, NEW st \in {"IDLE", "LISTENING", "MUTED"} \cup Output,
           NEW op \in {"none", "input", "output"}
    PROVE  [s EXCEPT !.state = st, !.op = op] \in App
  BY ZenonT(40) DEF App, Output

LEMMA AppTold ==
    ASSUME NEW s \in App, NEW n \in [Responses -> Nat]
    PROVE  [s EXCEPT !.told = n] \in App
  BY DEF App

LEMMA AppUncalled ==
    ASSUME NEW s \in App
    PROVE  [s EXCEPT !.callback = None] \in App
  BY DEF App

LEMMA AppSilent ==
    ASSUME NEW s \in App
    PROVE  [s EXCEPT !.sound = None, !.started = FALSE, !.callback = None] \in App
  BY DEF App

LEMMA AppSounding ==
    ASSUME NEW s \in App, NEW t \in Threads,
           NEW f \in [Threads -> {"unheard", "begun", "ended", "failed"}]
    PROVE  [s EXCEPT !.sound = t, !.started = FALSE, !.callback = t, !.fate = f] \in App
  BY DEF App

-----------------------------------------------------------------------------
(* The voice *)

\* Recovering changes the state and the operation only.
LEMMA RecoverEffect ==
    ASSUME NEW s \in App
    PROVE  /\ Recover(s) \in App
           /\ \E st \in {"IDLE", "MUTED"} : Recover(s) = [s EXCEPT !.state = st, !.op = "none"]
           /\ Recover(s).op = "none"
<1> DEFINE st == IF s.enabled THEN "IDLE" ELSE "MUTED"
<1>1. Recover(s) = [s EXCEPT !.state = st, !.op = "none"] /\ st \in {"IDLE", "MUTED"}
  BY DEF Recover
<1> HIDE DEF st
<1>2. [s EXCEPT !.state = st, !.op = "none"] \in App
  BY <1>1 DEF App, Output
<1>3. [s EXCEPT !.state = st, !.op = "none"].op = "none"
  BY DEF App
<1> QED BY <1>1, <1>2, <1>3

\* A cleared record holds nothing of a reply.
LEMMA ClearEffect ==
    ASSUME NEW s \in App
    PROVE  Clear(s) \in App /\ Ranged(Clear(s))
<1>1. Clear(s) \in App
  BY DEF App, Clear
<1>2. Ranged(Clear(s))
  BY DEF App, Clear, Ranged
<1> QED BY <1>1, <1>2

\* cancel leaves nothing that sounds and nothing of a reply, whoever owns the voice.
LEMMA CancelEffect ==
    ASSUME NEW s \in App, Ranged(s)
    PROVE  /\ Sound(Cancel(s))
           /\ Cancel(s).resp = None /\ Cancel(s).sound = None
           /\ Cancel(s).robbed = s.robbed /\ Cancel(s).work = s.work
           /\ Cancel(s).fate = s.fate /\ Cancel(s).told = s.told
           /\ Cancel(s).enabled = s.enabled
<1> DEFINE d == [s EXCEPT !.cancelled = @ \cup {<<s.resp, i>> : i \in s.active},
                          !.sound = None, !.started = FALSE, !.callback = None]
           c == Clear(d)
<1>1. {<<s.resp, i>> : i \in s.active} \subseteq Threads
  BY ThreadNames, AppFields DEF Ranged
<1>2. d \in App
  BY <1>1 DEF App
<1>3. /\ c.resp = None /\ c.sound = None /\ c.callback = None /\ c.started = FALSE /\ c.playing = None
      /\ c.robbed = s.robbed /\ c.work = s.work /\ c.fate = s.fate /\ c.told = s.told
      /\ c.enabled = s.enabled
  BY DEF App, Clear
<1>4. c \in App /\ Ranged(c)
  BY <1>2, ClearEffect
<1> HIDE DEF c
<1>5. ASSUME NEW e \in {c, Recover(c)}
      PROVE  /\ Sound(e) /\ e.resp = None /\ e.sound = None
             /\ e.robbed = c.robbed /\ e.work = c.work /\ e.fate = c.fate
             /\ e.told = c.told /\ e.enabled = c.enabled
  <2>1. e \in App
    BY <1>4, RecoverEffect
  <2>2. /\ e.resp = c.resp /\ e.submitted = c.submitted /\ e.next = c.next
        /\ e.final = c.final /\ e.pending = c.pending /\ e.active = c.active
        /\ e.ready = c.ready /\ e.failed = c.failed /\ e.playing = c.playing
        /\ e.sound = c.sound /\ e.callback = c.callback /\ e.started = c.started
        /\ e.robbed = c.robbed /\ e.work = c.work /\ e.fate = c.fate
        /\ e.told = c.told /\ e.enabled = c.enabled
    BY ZenonT(40), <1>4 DEF App, Recover
  <2>3. Ranged(e)
    BY <2>2, <1>4 DEF Ranged
  <2> QED BY <1>3, <2>1, <2>2, <2>3, ThreadNames DEF Sound, Linked, Owned
<1>6. Cancel(s) \in {c, Recover(c)}
  BY DEF Cancel, c
<1> QED BY <1>3, <1>5, <1>6

-----------------------------------------------------------------------------
(* The reply *)

LEMMA Least ==
    ASSUME NEW S, S \subseteq Nat, S # {}
    PROVE  \E x \in S : \A y \in S : x <= y
<1> DEFINE R == {ss \in Nat \X Nat : ss[1] < ss[2]}
<1>1. IsWellFoundedOn(R, Nat)
  BY NatLessThanWellFounded DEF OpToRel
<1> HIDE DEF R
<1>2. \E x \in S : \A y \in S : ~ (<<y, x>> \in R)
  BY <1>1, WFMin
<1>3. \A x, y \in S : y < x => <<y, x>> \in R
  BY DEF R
<1>4. \A x, y \in S : ~(y < x) => x <= y
  OBVIOUS
<1> QED BY <1>2, <1>3, <1>4

Working(s, starts) ==
    [t \in Threads |-> IF t[1] = s.resp /\ t[2] \in starts THEN "running" ELSE s.work[t]]

\* Filling the slots starts the oldest segments that wait, one at least when
\* nothing else is under way.
LEMMA FillEffect ==
    ASSUME NEW s \in App, Ranged(s)
    PROVE  \E starts \in SUBSET s.pending :
              /\ Fill(s) = [s EXCEPT !.pending = @ \ starts, !.active = @ \cup starts,
                                     !.work = Working(s, starts)]
              /\ \A i \in starts, j \in s.pending \ starts : i < j
              /\ (/\ s.pending # {} /\ s.active = {} /\ s.ready = {}
                  /\ s.playing = None) => starts # {}
<1> DEFINE before(i) == Cardinality({j \in s.pending : j < i})
           starts == {i \in s.pending :
                         /\ Cardinality(s.active) + before(i) < MaxWorkers
                         /\ Cardinality(Prefetched(s)) + before(i) < MaxPrefetch}
<1>1. Fill(s) = [s EXCEPT !.pending = @ \ starts, !.active = @ \cup starts,
                          !.work = Working(s, starts)]
  BY DEF Fill, Working
<1>2. /\ s.pending \subseteq Nat /\ s.submitted \in Nat
      /\ \A i \in s.pending \cup s.active : i \in Nat /\ i < s.submitted
      /\ s.playing = None \/ s.playing \in Nat
  BY AppFields, ThreadNames DEF Ranged
<1>3. IsFiniteSet(s.pending) /\ IsFiniteSet(s.active)
  <2>1. IsFiniteSet(0..(s.submitted - 1))
    BY <1>2, FS_Interval
  <2>2. s.pending \in SUBSET (0..(s.submitted - 1)) /\ s.active \in SUBSET (0..(s.submitted - 1))
    BY <1>2
  <2> QED BY <2>1, <2>2, FS_Subset
<1>4. IsFiniteSet(Prefetched(s))
  <2>1. Waiting(s) \in SUBSET (0..(s.submitted - 1))
    <3>1. \A t \in s.ready : t[2] \in Nat /\ t[2] < s.submitted
      BY AppFields, ThreadNames DEF Ranged
    <3> QED BY <1>2, <3>1 DEF Waiting
  <2>2. IsFiniteSet(Waiting(s))
    <3>1. IsFiniteSet(0..(s.submitted - 1))
      BY <1>2, FS_Interval
    <3> QED BY <2>1, <3>1, FS_Subset
  <2>3. IsFiniteSet(IF s.playing = None THEN {} ELSE {s.playing})
    BY FS_EmptySet, FS_Singleton
  <2> QED BY <1>3, <2>2, <2>3, FS_Union DEF Prefetched
<1>5. Cardinality(s.active) \in Nat /\ Cardinality(Prefetched(s)) \in Nat
  BY <1>3, <1>4, FS_CardinalityType
<1>6. ASSUME NEW i \in s.pending, NEW j \in s.pending, j <= i
      PROVE  before(i) \in Nat /\ before(j) \in Nat /\ before(j) <= before(i)
  <2> DEFINE low == {k \in s.pending : k < j}
             high == {k \in s.pending : k < i}
  <2>1. high \in SUBSET s.pending /\ low \in SUBSET high
    BY <1>2, <1>6
  <2>2. IsFiniteSet(high) /\ IsFiniteSet(low)
    BY <1>3, <2>1, FS_Subset
  <2>3. Cardinality(low) <= Cardinality(high)
    BY <2>1, <2>2, FS_Subset
  <2> QED BY <2>2, <2>3, FS_CardinalityType
<1>7. \A i \in starts, j \in s.pending \ starts : i < j
  <2> SUFFICES ASSUME NEW i \in starts, NEW j \in s.pending \ starts, ~(i < j) PROVE FALSE
    OBVIOUS
  <2>0. i \in s.pending /\ j \in s.pending /\ j <= i
    BY <1>2
  <2>1. before(i) \in Nat /\ before(j) \in Nat /\ before(j) <= before(i)
    BY <1>6, <2>0
  <2> HIDE DEF before
  <2>2. /\ Cardinality(s.active) + before(j) < MaxWorkers
        /\ Cardinality(Prefetched(s)) + before(j) < MaxPrefetch
    BY <1>5, <2>1, BoundsAssumption
  <2> QED BY <2>2
<1>8. ASSUME s.pending # {}, s.active = {}, s.ready = {}, s.playing = None
      PROVE  starts # {}
  <2>1. PICK i \in s.pending : \A j \in s.pending : i <= j
    BY <1>2, <1>8, Least
  <2>2. {j \in s.pending : j < i} = {} /\ Prefetched(s) = {}
    BY <1>2, <1>8, <2>1 DEF Prefetched, Waiting
  <2>3. before(i) = 0 /\ Cardinality(s.active) = 0 /\ Cardinality(Prefetched(s)) = 0
    BY <1>8, <2>2, FS_EmptySet
  <2>4. 0 < MaxWorkers /\ 0 < MaxPrefetch
    BY BoundsAssumption
  <2> HIDE DEF before
  <2>5. i \in starts
    BY <2>3, <2>4
  <2> QED BY <2>5
<1> HIDE DEF starts
<1>9. starts \in SUBSET s.pending
  BY DEF starts
<1> QED BY <1>1, <1>7, <1>8, <1>9

LEMMA FillSound ==
    ASSUME NEW s, Sound(s)
    PROVE  /\ Sound(Fill(s)) /\ Fill(s).robbed = s.robbed
           /\ Fill(s).resp = s.resp /\ Fill(s).sound = s.sound
<1>1. s \in App /\ Ranged(s) /\ Linked(s) /\ Owned(s)
  BY DEF Sound
<1>2. PICK starts \in SUBSET s.pending :
         Fill(s) = [s EXCEPT !.pending = @ \ starts, !.active = @ \cup starts,
                             !.work = Working(s, starts)]
  BY <1>1, FillEffect
<1>3. Working(s, starts) \in [Threads -> WorkerPhases]
  BY <1>1, AppFields DEF Working, WorkerPhases
<1> DEFINE f == Fill(s)
<1>4. f \in App
  <2>1. s.pending \ starts \subseteq Indices /\ s.active \cup starts \subseteq Indices
    BY <1>1, AppFields
  <2> QED BY ZenonT(40), <1>1, <1>2, <1>3, <2>1 DEF App
<1>5. /\ f.resp = s.resp /\ f.submitted = s.submitted /\ f.next = s.next
      /\ f.final = s.final /\ f.pending = s.pending \ starts
      /\ f.active = s.active \cup starts
      /\ f.ready = s.ready /\ f.failed = s.failed /\ f.playing = s.playing
      /\ f.sound = s.sound /\ f.callback = s.callback /\ f.started = s.started /\ f.robbed = s.robbed
      /\ f.op = s.op /\ f.state = s.state
  BY <1>1, <1>2 DEF App
<1> HIDE DEF f
<1>6. Ranged(f)
  BY <1>1, <1>5 DEF Ranged
<1>7. Linked(f) /\ Owned(f)
  BY <1>1, <1>5 DEF Linked, Owned, OwnsOutput
<1> QED BY <1>4, <1>5, <1>6, <1>7 DEF Sound, f

\* The end of a reply leaves nothing of it.
LEMMA FinishSound ==
    ASSUME NEW s, Sound(s)
    PROVE  /\ Sound(Finish(s)) /\ Finish(s).robbed = s.robbed
           /\ Finish(s) = s \/ Finish(s).resp = None
           /\ Finish(s).sound = s.sound
<1> DEFINE c == [Clear(s) EXCEPT !.told = Told(s)]
           finished == /\ s.resp # None /\ s.final # None
                       /\ s.playing = None /\ s.next > s.final
                       /\ s.pending = {} /\ s.active = {} /\ s.ready = {}
<1>1. s \in App /\ Ranged(s) /\ Linked(s) /\ Owned(s)
  BY DEF Sound
<1>2. CASE ~finished
  BY <1>2 DEF Finish
<1>3. CASE finished
  <2>1. Clear(s) \in App
    BY <1>1, ClearEffect
  <2>2. Told(s) \in [Responses -> Nat]
    <3>1. s.told \in [Responses -> Nat] /\ s.resp \in Responses
      BY <1>1, <1>3, AppFields
    <3>2. s.told[s.resp] + 1 \in Nat
      BY <3>1
    <3> QED BY <3>1, <3>2 DEF Told
  <2>3. c \in App
    BY <2>1, <2>2 DEF App
  <2>4. /\ c.resp = None /\ c.playing = None /\ c.submitted = 0 /\ c.next = 0 /\ c.final = None
        /\ c.pending = {} /\ c.active = {} /\ c.ready = {} /\ c.failed = {}
        /\ c.sound = s.sound /\ c.callback = s.callback /\ c.started = s.started /\ c.robbed = s.robbed
        /\ c.op = s.op /\ c.state = s.state
    BY <1>1, <2>2 DEF App, Clear
  <2> HIDE DEF c
  <2>5. \A t \in Threads : t # <<s.resp, None>>
    <3>1. \A t \in Threads : t[2] # None
      BY ThreadNames
    <3> QED BY <3>1
  <2>6. /\ c.sound \notin Threads /\ c.callback = None /\ (~s.robbed => c.sound = None)
        /\ c.started => c.sound # None
    BY <1>1, <1>3, <2>4, <2>5, ThreadNames, AppFields DEF Linked
  <2>7. ASSUME NEW e \in {c, Recover(c)}
        PROVE  Sound(e) /\ e.robbed = s.robbed /\ e.resp = None /\ e.sound = s.sound
    <3>1. e \in App
      BY <2>3, RecoverEffect
    <3>2. /\ e.resp = None /\ e.playing = None /\ e.submitted = 0 /\ e.next = 0
          /\ e.final = None
          /\ e.pending = {} /\ e.active = {} /\ e.ready = {} /\ e.failed = {}
          /\ e.sound = c.sound /\ e.callback = c.callback /\ e.started = c.started /\ e.robbed = s.robbed
      BY <2>3, <2>4 DEF App, Recover
    <3>3. Ranged(e)
      BY <3>2 DEF Ranged
    <3>4. Linked(e)
      BY <2>6, <3>2, ThreadNames DEF Linked
    <3>5. Owned(e)
      BY <2>6, <3>2 DEF Owned
    <3> QED BY <2>4, <3>1, <3>2, <3>3, <3>4, <3>5 DEF Sound
  <2>8. Finish(s) = IF OwnsOutput(c) THEN Recover(c) ELSE c
    BY <1>3 DEF Finish, c
  <2> QED BY <2>7, <2>8 DEF OwnsOutput
<1> QED BY <1>2, <1>3

\* The segment to be played is the first one after those that failed.
LEMMA FirstAliveEffect ==
    ASSUME NEW s \in App, Ranged(s)
    PROVE  /\ FirstAlive(s) \in Nat /\ FirstAlive(s) \notin s.failed
           /\ s.next <= FirstAlive(s) /\ FirstAlive(s) <= s.submitted
           /\ \A j \in s.next..(FirstAlive(s) - 1) : j \in s.failed
<1> DEFINE alive == {i \in s.next..s.submitted : i \notin s.failed}
           first(n) == n \notin s.failed /\ \A j \in s.next..(n - 1) : j \in s.failed
<1>1. s.next \in Nat /\ s.submitted \in Nat /\ s.next <= s.submitted
      /\ s.submitted \notin s.failed
  BY AppFields DEF Ranged
<1>2. s.submitted \in alive /\ alive \subseteq Nat
  BY <1>1
<1>3. PICK n \in alive : \A i \in alive : n <= i
  BY <1>2, Least
<1>4. first(n)
  <2>1. ASSUME NEW j \in s.next..(n - 1) PROVE j \in s.failed
    BY <1>1, <1>3
  <2> QED BY <1>3, <2>1
<1>5. FirstAlive(s) = CHOOSE m \in s.next..s.submitted : first(m)
  BY DEF FirstAlive
<1>6. \E m \in s.next..s.submitted : first(m)
  BY <1>3, <1>4
<1> HIDE DEF first
<1>7. FirstAlive(s) \in s.next..s.submitted /\ first(FirstAlive(s))
  BY <1>5, <1>6
<1> QED BY <1>1, <1>7 DEF first

\* Playing: the voice belongs to someone else, the player is busy and the reply is
\* cancelled, or the segment sounds.
LEMMA PlaySound ==
    ASSUME NEW s, Sound(s), NEW i \in Nat, i \in Waiting(s), i = s.next,
           s.playing = None, s.resp # None
    PROVE  /\ Sound(Play(s, i)) /\ Play(s, i).robbed = s.robbed
           /\ Play(s, i).sound = Line => s.sound = Line
           /\ Play(s, i).told = s.told /\ Play(s, i).work = s.work
           /\ <<s.resp, i>> \in Threads
           /\ Play(s, i).fate = s.fate
              \/ Play(s, i).fate = [s.fate EXCEPT ![<<s.resp, i>>] = "begun"]
           /\ \/ Play(s, i).resp = None /\ Play(s, i).fate = s.fate
              \/ /\ Play(s, i).resp = s.resp /\ Play(s, i).submitted = s.submitted
                 /\ Play(s, i).next = s.next /\ Play(s, i).final = s.final
                 /\ Play(s, i).pending = s.pending /\ Play(s, i).active = s.active
                 /\ Play(s, i).ready = s.ready \ {<<s.resp, i>>}
                 /\ Play(s, i).failed = s.failed /\ Play(s, i).playing = i
                 /\ Play(s, i).sound \notin Threads => Play(s, i).fate = s.fate
           /\ Play(s, i).sound \in Threads =>
                 Play(s, i).sound = <<s.resp, i>>
                 /\ Play(s, i).fate = [s.fate EXCEPT ![<<s.resp, i>>] = "begun"]
<1> DEFINE t == CHOOSE a \in s.ready : a[2] = i
           p == [s EXCEPT !.playing = i, !.ready = @ \ {t}]
<1>1. s \in App /\ Ranged(s) /\ Linked(s) /\ Owned(s)
  BY DEF Sound
<1>2. t \in s.ready /\ t[2] = i
  BY DEF Waiting
<1> HIDE DEF t
<1>3. t \in Threads /\ t = <<s.resp, i>> /\ i \in Indices /\ i < s.submitted /\ i # None
      /\ s.resp \in Responses
  BY <1>1, <1>2, AppFields, ThreadNames DEF Ranged
<1>4. /\ s.sound \notin Threads /\ s.callback = None /\ (~s.robbed => s.sound = None)
      /\ s.started => s.sound # None
  <2>1. \A u \in Threads : u # <<s.resp, None>>
    <3>1. \A u \in Threads : u[2] # None
      BY ThreadNames
    <3> QED BY <3>1
  <2> QED BY <1>1, <2>1, AppFields DEF Linked
<1>5. p \in App
  <2>1. s.ready \ {t} \in SUBSET Threads
    BY <1>1, AppFields
  <2>2. p = [s EXCEPT !.playing = i, !.ready = s.ready \ {t}]
    OBVIOUS
  <2> QED BY <1>1, <1>3, <2>1, <2>2, AppPlayingReady
<1>6. /\ p.resp = s.resp /\ p.submitted = s.submitted /\ p.next = s.next
      /\ p.final = s.final /\ p.pending = s.pending /\ p.active = s.active
      /\ p.ready = s.ready \ {t} /\ p.failed = s.failed /\ p.playing = i
      /\ p.sound = s.sound /\ p.callback = s.callback /\ p.started = s.started /\ p.robbed = s.robbed
      /\ p.op = s.op /\ p.state = s.state /\ p.fate = s.fate /\ p.told = s.told
      /\ p.work = s.work
  BY <1>1 DEF App
<1>7. Ranged(p)
  BY <1>1, <1>3, <1>6 DEF Ranged
<1>8. Play(s, i) = IF ~OwnsOutput(s) THEN ReportError(p)
                   ELSE IF s.sound # None THEN PlaybackError([p EXCEPT !.callback = None])
                   ELSE [p EXCEPT !.sound = t, !.started = FALSE, !.callback = t,
                                  !.fate[t] = "begun"]
  BY DEF Play, t
<1> HIDE DEF p
<1>9. CASE ~OwnsOutput(s)
  <2> DEFINE q == Recover(p)
  <2>1. Play(s, i) = q
    BY <1>8, <1>9 DEF ReportError
  <2>2. q \in App
    BY <1>5, RecoverEffect
  <2>3. /\ q.resp = p.resp /\ q.submitted = p.submitted /\ q.next = p.next
        /\ q.final = p.final /\ q.pending = p.pending /\ q.active = p.active
        /\ q.ready = p.ready /\ q.failed = p.failed /\ q.playing = p.playing
        /\ q.sound = p.sound /\ q.callback = p.callback /\ q.started = p.started /\ q.robbed = p.robbed
        /\ q.fate = p.fate /\ q.told = p.told /\ q.work = p.work
    BY <1>5 DEF App, Recover
  <2> HIDE DEF q
  <2>4. s.robbed
    BY <1>1, <1>9 DEF Owned
  <2>5. Ranged(q)
    BY <1>7, <2>3 DEF Ranged
  <2>6. Linked(q) /\ Owned(q)
    BY <1>4, <1>6, <2>3, <2>4 DEF Linked, Owned
  <2>7. Sound(q)
    BY <2>2, <2>5, <2>6 DEF Sound
  <2>8. q.sound = s.sound /\ q.sound \notin Threads
    BY <1>4, <1>6, <2>3
  <2> QED BY <1>3, <1>6, <2>1, <2>3, <2>7, <2>8
<1>10. CASE OwnsOutput(s) /\ s.sound # None
  <2> DEFINE e == [[p EXCEPT !.callback = None] EXCEPT !.playing = None]
             q == Recover(e)
  <2>1. Play(s, i) = Cancel(q)
    BY <1>8, <1>10 DEF PlaybackError, ReportError
  <2>2. e \in App
    <3>1. [p EXCEPT !.callback = None] \in App
      BY <1>5, AppUncalled
    <3> QED BY <3>1, AppPlaying
  <2>3. q \in App
    BY <2>2, RecoverEffect
  <2>4. /\ q.resp = p.resp /\ q.submitted = p.submitted /\ q.next = p.next
        /\ q.final = p.final /\ q.pending = p.pending /\ q.active = p.active
        /\ q.ready = p.ready /\ q.failed = p.failed /\ q.playing = None
        /\ q.robbed = p.robbed
        /\ q.fate = p.fate /\ q.told = p.told /\ q.work = p.work
    BY <1>5, <2>2 DEF App, Recover
  <2> HIDE DEF q
  <2>5. Ranged(q)
    BY <1>7, <2>4 DEF Ranged
  <2>6. /\ Sound(Cancel(q)) /\ Cancel(q).resp = None /\ Cancel(q).sound = None
        /\ Cancel(q).robbed = s.robbed /\ Cancel(q).fate = s.fate
        /\ Cancel(q).told = s.told /\ Cancel(q).work = s.work
    BY <1>6, <2>3, <2>4, <2>5, CancelEffect
  <2> QED BY <1>3, <2>1, <2>6, ThreadNames
<1>11. CASE OwnsOutput(s) /\ s.sound = None
  <2> DEFINE q == [p EXCEPT !.sound = t, !.started = FALSE, !.callback = t,
                            !.fate[t] = "begun"]
  <2>1. Play(s, i) = q
    BY <1>8, <1>11
  <2>2. q \in App
    <3> DEFINE g == [p.fate EXCEPT ![t] = "begun"]
    <3>1. g \in [Threads -> {"unheard", "begun", "ended", "failed"}]
      BY <1>3, <1>5, AppFields
    <3>2. q = [p EXCEPT !.sound = t, !.started = FALSE, !.callback = t, !.fate = g]
      OBVIOUS
    <3> HIDE DEF g, q
    <3> QED BY <1>3, <1>5, <3>1, <3>2, AppSounding
  <2>3. /\ q.resp = p.resp /\ q.submitted = p.submitted /\ q.next = p.next
        /\ q.final = p.final /\ q.pending = p.pending /\ q.active = p.active
        /\ q.ready = p.ready /\ q.failed = p.failed /\ q.playing = p.playing
        /\ q.sound = t /\ q.callback = t /\ q.started = FALSE /\ q.robbed = p.robbed
        /\ q.op = p.op /\ q.state = p.state
        /\ q.fate = [p.fate EXCEPT ![t] = "begun"] /\ q.told = p.told
        /\ q.work = p.work
    BY <1>5 DEF App
  <2> HIDE DEF q
  <2>4. Ranged(q)
    BY <1>7, <2>3 DEF Ranged
  <2>5. Linked(q)
    BY <1>3, <1>6, <2>3, ThreadNames DEF Linked
  <2>6. Owned(q)
    BY <1>6, <1>11, <2>3 DEF Owned, OwnsOutput
  <2>7. Sound(q)
    BY <2>2, <2>4, <2>5, <2>6 DEF Sound
  <2>8. q.sound \in Threads /\ q.sound # Line /\ q.sound = <<s.resp, i>>
    BY <1>3, <2>3, ThreadNames
  <2> QED BY <1>3, <1>6, <2>1, <2>3, <2>7, <2>8
<1> QED BY <1>9, <1>10, <1>11

\* Passing over what failed, and playing what is next, if it is there.
LEMMA TryPlaySound ==
    ASSUME NEW s, Sound(s)
    PROVE  /\ Sound(TryPlay(s)) /\ TryPlay(s).robbed = s.robbed
           /\ TryPlay(s).sound = Line => s.sound = Line
<1> DEFINE n == FirstAlive(s)
           p == [s EXCEPT !.failed = @ \ (s.next..(n - 1)), !.next = n]
<1>1. s \in App /\ Ranged(s) /\ Linked(s) /\ Owned(s)
  BY DEF Sound
<1>2. CASE s.playing # None \/ s.resp = None
  BY <1>2 DEF TryPlay
<1>3. CASE s.playing = None /\ s.resp # None
  <2>1. /\ n \in Nat /\ n \notin s.failed /\ s.next <= n /\ n <= s.submitted
        /\ \A j \in s.next..(n - 1) : j \in s.failed
    BY <1>1, FirstAliveEffect
  <2>2. TryPlay(s) = IF n \in Waiting(s) THEN Play(p, n) ELSE Finish(p)
    BY <1>3 DEF TryPlay
  <2> HIDE DEF n
  <2>3. p \in App
    <3>1. s.failed \ (s.next..(n - 1)) \in SUBSET Indices
      BY <1>1, AppFields
    <3> QED BY <1>1, <2>1, <3>1, AppPassed
  <2>4. /\ p.resp = s.resp /\ p.submitted = s.submitted /\ p.next = n
        /\ p.final = s.final /\ p.pending = s.pending /\ p.active = s.active
        /\ p.ready = s.ready /\ p.failed = s.failed \ (s.next..(n - 1))
        /\ p.playing = s.playing /\ p.sound = s.sound /\ p.callback = s.callback /\ p.started = s.started
        /\ p.robbed = s.robbed /\ p.op = s.op /\ p.state = s.state
    BY <1>1 DEF App
  <2> HIDE DEF p
  <2>5. Ranged(p)
    BY <1>1, <1>3, <2>1, <2>4 DEF Ranged
  <2>6. Linked(p) /\ Owned(p)
    BY <1>1, <2>4 DEF Linked, Owned, OwnsOutput
  <2>7. Sound(p)
    BY <2>3, <2>5, <2>6 DEF Sound
  <2>8. CASE n \in Waiting(s)
    <3>1. n \in Waiting(p)
      BY <2>4, <2>8 DEF Waiting
    <3>2. /\ Sound(Play(p, n)) /\ Play(p, n).robbed = p.robbed
          /\ Play(p, n).sound = Line => p.sound = Line
      BY ZenonT(40), <1>3, <2>1, <2>4, <2>7, <3>1, PlaySound
    <3> QED BY <2>2, <2>4, <2>8, <3>2
  <2>9. CASE n \notin Waiting(s)
    BY <2>2, <2>4, <2>7, <2>9, FinishSound
  <2> QED BY <2>8, <2>9
<1> QED BY <1>2, <1>3

\* A record that differs in nothing the invariant looks at.
LEMMA SameSound ==
    ASSUME NEW s, Sound(s), NEW e \in App,
           e.resp = s.resp, e.submitted = s.submitted, e.next = s.next,
           e.final = s.final, e.pending = s.pending, e.active = s.active,
           e.ready = s.ready, e.failed = s.failed, e.playing = s.playing,
           e.sound = s.sound, e.callback = s.callback, e.started = s.started, e.robbed = s.robbed,
           e.op = s.op, e.state = s.state
    PROVE  Sound(e)
<1>1. Ranged(s) /\ Linked(s) /\ Owned(s)
  BY DEF Sound
<1>2. Ranged(e)
  BY <1>1 DEF Ranged
<1>3. Linked(e) /\ Owned(e)
  BY <1>1 DEF Linked, Owned, OwnsOutput
<1> QED BY <1>2, <1>3 DEF Sound

LEMMA AudioReadySound ==
    ASSUME NEW s, Sound(s), NEW t \in Threads
    PROVE  /\ Sound(AudioReady(s, t)) /\ AudioReady(s, t).robbed = s.robbed
           /\ AudioReady(s, t).sound = Line => s.sound = Line
           /\ s.resp = None => AudioReady(s, t) = s
<1> DEFINE p == [s EXCEPT !.ready = @ \cup {t}]
<1>1. s \in App /\ Ranged(s) /\ Linked(s) /\ Owned(s)
  BY DEF Sound
<1>2. CASE Accepts(s, t) /\ t[2] \notin s.failed
  <2>1. t[1] = s.resp /\ t[2] < s.submitted /\ s.resp # None
    BY <1>1, <1>2, ThreadNames DEF Accepts, Ranged
  <2>2. p \in App
    <3>1. s.ready \cup {t} \in SUBSET Threads
      BY <1>1, AppFields
    <3> QED BY <1>1, <3>1, AppReady
  <2>3. /\ p.resp = s.resp /\ p.submitted = s.submitted /\ p.next = s.next
        /\ p.final = s.final /\ p.pending = s.pending /\ p.active = s.active
        /\ p.ready = s.ready \cup {t} /\ p.failed = s.failed
        /\ p.playing = s.playing /\ p.sound = s.sound /\ p.callback = s.callback /\ p.started = s.started
        /\ p.robbed = s.robbed /\ p.op = s.op /\ p.state = s.state
    BY <1>1 DEF App
  <2> HIDE DEF p
  <2>4. Ranged(p)
    BY <1>1, <2>1, <2>3 DEF Ranged
  <2>5. Linked(p) /\ Owned(p)
    BY <1>1, <2>3 DEF Linked, Owned, OwnsOutput
  <2>6. AudioReady(s, t) = TryPlay(p)
    BY <1>2 DEF AudioReady, p
  <2>7. Sound(p)
    BY <2>2, <2>4, <2>5 DEF Sound
  <2> QED BY <2>1, <2>3, <2>6, <2>7, TryPlaySound
<1>3. CASE ~(Accepts(s, t) /\ t[2] \notin s.failed)
  BY <1>3 DEF AudioReady
<1> QED BY <1>2, <1>3

LEMMA SynthesisFailedSound ==
    ASSUME NEW s, Sound(s), NEW t \in Threads
    PROVE  /\ Sound(SynthesisFailed(s, t)) /\ SynthesisFailed(s, t).robbed = s.robbed
           /\ SynthesisFailed(s, t).sound = Line => s.sound = Line
           /\ s.resp = None => SynthesisFailed(s, t) = s
<1> DEFINE f == [s.fate EXCEPT ![t] = "failed"]
           p == [s EXCEPT !.failed = @ \cup {t[2]}, !.fate[t] = "failed"]
           accepted == Accepts(s, t) /\ t[2] >= s.next /\ t[2] \notin s.failed
<1>1. s \in App /\ Ranged(s) /\ Linked(s) /\ Owned(s)
  BY DEF Sound
<1>2. CASE accepted
  <2>1. t[1] = s.resp /\ t[2] < s.submitted /\ s.resp # None /\ t[2] \in Nat
    BY <1>1, <1>2, ThreadNames DEF Accepts, Ranged
  <2>2. p \in App
    <3>1. s.failed \cup {t[2]} \in SUBSET Indices
      BY <1>1, AppFields, ThreadNames
    <3>2. f \in [Threads -> {"unheard", "begun", "ended", "failed"}]
      BY <1>1, AppFields
    <3>3. p = [s EXCEPT !.failed = s.failed \cup {t[2]}, !.fate = f]
      OBVIOUS
    <3> HIDE DEF p, f
    <3> QED BY <1>1, <3>1, <3>2, <3>3, AppFailed
  <2>3. /\ p.resp = s.resp /\ p.submitted = s.submitted /\ p.next = s.next
        /\ p.final = s.final /\ p.pending = s.pending /\ p.active = s.active
        /\ p.ready = s.ready /\ p.failed = s.failed \cup {t[2]}
        /\ p.playing = s.playing /\ p.sound = s.sound /\ p.callback = s.callback /\ p.started = s.started
        /\ p.robbed = s.robbed /\ p.op = s.op /\ p.state = s.state
    BY <1>1 DEF App
  <2>4. SynthesisFailed(s, t) = TryPlay(p)
    BY <1>2 DEF SynthesisFailed
  <2> HIDE DEF p
  <2>5. Ranged(p)
    BY <1>1, <2>1, <2>3 DEF Ranged
  <2>6. Linked(p) /\ Owned(p)
    BY <1>1, <2>3 DEF Linked, Owned, OwnsOutput
  <2>7. Sound(p)
    BY <2>2, <2>5, <2>6 DEF Sound
  <2> QED BY <2>1, <2>3, <2>4, <2>7, TryPlaySound
<1>3. CASE ~accepted
  BY <1>3 DEF SynthesisFailed
<1> QED BY <1>2, <1>3

LEMMA ThreadFinishedSound ==
    ASSUME NEW s, Sound(s), NEW t \in Threads
    PROVE  /\ Sound(ThreadFinished(s, t)) /\ ThreadFinished(s, t).robbed = s.robbed
           /\ ThreadFinished(s, t).sound = Line => s.sound = Line
           /\ s.resp = None => /\ ThreadFinished(s, t).resp = None
                               /\ ThreadFinished(s, t).op = s.op
                               /\ ThreadFinished(s, t).state = s.state
                               /\ ThreadFinished(s, t).sound = s.sound
<1> DEFINE active == IF s.resp = t[1] THEN s.active \ {t[2]} ELSE s.active
           p == [s EXCEPT !.active = active, !.cancelled = @ \ {t}]
<1>1. s \in App /\ Ranged(s) /\ Linked(s) /\ Owned(s)
  BY DEF Sound
<1>2. active \in SUBSET s.active
  OBVIOUS
<1>3. ThreadFinished(s, t) = Finish(TryPlay(Fill(p)))
  BY DEF ThreadFinished
<1> HIDE DEF active
<1>4. p \in App
  <2>1. active \in SUBSET Indices /\ s.cancelled \ {t} \in SUBSET Threads
    BY <1>1, <1>2, AppFields
  <2> QED BY <1>1, <2>1, AppEnded
<1>5. /\ p.resp = s.resp /\ p.submitted = s.submitted /\ p.next = s.next
      /\ p.final = s.final /\ p.pending = s.pending /\ p.active = active
      /\ p.ready = s.ready /\ p.failed = s.failed
      /\ p.playing = s.playing /\ p.sound = s.sound /\ p.callback = s.callback /\ p.started = s.started
      /\ p.robbed = s.robbed /\ p.op = s.op /\ p.state = s.state
  BY <1>1 DEF App
<1> HIDE DEF p
<1>6. Ranged(p)
  BY <1>1, <1>2, <1>5 DEF Ranged
<1>7. Linked(p) /\ Owned(p)
  BY <1>1, <1>5 DEF Linked, Owned, OwnsOutput
<1>8. Sound(p)
  BY <1>4, <1>6, <1>7 DEF Sound
<1>9. /\ Sound(Fill(p)) /\ Fill(p).robbed = s.robbed /\ Fill(p).resp = s.resp
      /\ Fill(p).sound = s.sound
  BY <1>5, <1>8, FillSound
<1>10. /\ Sound(TryPlay(Fill(p))) /\ TryPlay(Fill(p)).robbed = s.robbed
       /\ TryPlay(Fill(p)).sound = Line => s.sound = Line
  BY <1>9, TryPlaySound
<1>11. ASSUME s.resp = None
       PROVE  /\ ThreadFinished(s, t).resp = None
              /\ ThreadFinished(s, t).op = s.op
              /\ ThreadFinished(s, t).state = s.state
              /\ ThreadFinished(s, t).sound = s.sound
  <2>1. TryPlay(Fill(p)) = Fill(p)
    BY <1>9, <1>11 DEF TryPlay
  <2>2. Finish(Fill(p)) = Fill(p)
    BY <1>9, <1>11 DEF Finish
  <2>3. Fill(p).op = p.op /\ Fill(p).state = p.state /\ Fill(p).sound = p.sound
    BY <1>4 DEF App, Fill
  <2> QED BY <1>3, <1>5, <1>9, <1>11, <2>1, <2>2, <2>3
<1> QED BY <1>3, <1>10, <1>11, FinishSound

\* A sound that ends for the reply is the one the reply waits for.
LEMMA PlaybackFinishedSound ==
    ASSUME NEW s \in App, Ranged(s), Owned(s), NEW t \in Threads,
           s.resp = t[1], s.playing = t[2], s.sound = None, s.callback = None, ~s.started
    PROVE  /\ Sound(PlaybackFinished(s, t)) /\ PlaybackFinished(s, t).robbed = s.robbed
           /\ PlaybackFinished(s, t).sound = Line => s.sound = Line
<1> DEFINE p == [s EXCEPT !.played = @ \cup {t[2]}, !.playing = None, !.next = @ + 1]
<1>1. /\ t[1] \in Responses /\ t[2] \in Nat /\ t[2] \in Indices /\ t[2] # None
      /\ s.resp # None /\ t[2] = s.next /\ s.next < s.submitted /\ s.next \in Nat
      /\ s.submitted \in Nat
  BY ThreadNames, AppFields DEF Ranged
<1>2. PlaybackFinished(s, t) = TryPlay(Fill(p))
  BY <1>1 DEF PlaybackFinished
<1>3. p \in App
  <2>1. s.played \cup {t[2]} \in SUBSET Indices /\ s.next + 1 \in Nat
    BY <1>1, AppFields
  <2>2. p = [s EXCEPT !.played = s.played \cup {t[2]}, !.playing = None,
                      !.next = s.next + 1]
    OBVIOUS
  <2> HIDE DEF p
  <2> QED BY <2>1, <2>2, AppPlayed
<1>4. /\ p.resp = s.resp /\ p.submitted = s.submitted /\ p.next = s.next + 1
      /\ p.final = s.final /\ p.pending = s.pending /\ p.active = s.active
      /\ p.ready = s.ready /\ p.failed = s.failed
      /\ p.playing = None /\ p.sound = None /\ p.callback = None /\ p.started = s.started
      /\ p.robbed = s.robbed /\ p.op = s.op /\ p.state = s.state
  BY DEF App
<1> HIDE DEF p
<1>5. Ranged(p)
  BY <1>1, <1>4 DEF Ranged
<1>6. Linked(p) /\ Owned(p)
  BY <1>1, <1>4, ThreadNames DEF Linked, Owned, OwnsOutput
<1>7. Sound(p)
  BY <1>3, <1>5, <1>6 DEF Sound
<1> QED BY <1>2, <1>4, <1>7, FillSound, TryPlaySound

LEMMA StartSound ==
    ASSUME NEW s, Sound(s), NEW r \in Responses, NEW i \in Nat, i < Length[r]
    PROVE  /\ Sound(Start(s, r, i)) /\ Start(s, r, i).robbed = s.robbed
           /\ Start(s, r, i).sound = s.sound
<1> DEFINE p == [s EXCEPT !.resp = r, !.state = "THINKING", !.op = "output"]
<1>1. s \in App /\ Ranged(s) /\ Linked(s) /\ Owned(s)
  BY DEF Sound
<1>2. CASE s.resp = None /\ i = 0 /\ Free(s)
  <2>1. p \in App
    BY <1>1, AppStarted
  <2>2. /\ p.resp = r /\ p.submitted = s.submitted /\ p.next = s.next
        /\ p.final = s.final /\ p.pending = s.pending /\ p.active = s.active
        /\ p.ready = s.ready /\ p.failed = s.failed
        /\ p.playing = s.playing /\ p.sound = s.sound /\ p.callback = s.callback /\ p.started = s.started
        /\ p.robbed = s.robbed /\ p.op = "output" /\ p.state = "THINKING"
    BY <1>1 DEF App
  <2> HIDE DEF p
  <2>3. Ranged(p)
    BY <1>1, <1>2, <2>2, ThreadNames DEF Ranged
  <2>4. ~s.robbed => s.sound = None
    BY <1>1, <1>2 DEF Owned, OwnsOutput, Free
  <2>5. s.sound \notin Threads
    <3>1. \A u \in Threads : u # <<s.resp, None>>
      <4>1. \A u \in Threads : u[2] # None
        BY ThreadNames
      <4> QED BY <4>1
    <3> QED BY <1>1, <1>2, <3>1 DEF Linked, Ranged
  <2>6. s.callback = None /\ s.playing = None /\ (s.started => s.sound # None)
    BY <1>1, <1>2, <2>5, AppFields DEF Linked, Ranged
  <2>7. Linked(p)
    BY <2>2, <2>4, <2>5, <2>6, ThreadNames DEF Linked
  <2>8. Owned(p)
    BY <2>2 DEF Owned, OwnsOutput, Output
  <2>9. Start(s, r, i) = p
    BY <1>2 DEF Start, p
  <2> QED BY <2>1, <2>2, <2>3, <2>7, <2>8, <2>9 DEF Sound
<1>3. CASE ~(s.resp = None /\ i = 0 /\ Free(s))
  BY <1>3 DEF Start
<1> QED BY <1>2, <1>3

LEMMA SubmitSound ==
    ASSUME NEW s, Sound(s), NEW r \in Responses, NEW i \in Nat, i < Length[r],
           NEW last \in BOOLEAN
    PROVE  /\ Sound(Submit(s, r, i, last)) /\ Submit(s, r, i, last).robbed = s.robbed
           /\ Submit(s, r, i, last).sound = Line => s.sound = Line
           /\ s.resp = None /\ s.op = "output" => Submit(s, r, i, last) = s
<1> DEFINE base == IF s.resp \in {None, r} THEN s ELSE Cancel(s)
           begun == Start(base, r, i)
           refused == \/ i # begun.submitted
                      \/ begun.final # None
                      \/ begun.submitted - begun.next >= MaxQueued
           p == [begun EXCEPT !.pending = @ \cup {i}, !.submitted = @ + 1,
                              !.final = IF last THEN i ELSE None]
<1>1. s \in App /\ Ranged(s) /\ Linked(s) /\ Owned(s)
  BY DEF Sound
<1>2. Sound(base) /\ base.robbed = s.robbed /\ (base.sound = Line => s.sound = Line)
  BY <1>1, CancelEffect, ThreadNames
<1>3. Sound(begun) /\ begun.robbed = s.robbed /\ (begun.sound = Line => s.sound = Line)
  BY <1>2, StartSound
<1>4. Submit(s, r, i, last) = IF ~s.enabled THEN s
                              ELSE IF begun.resp # r THEN begun
                              ELSE IF refused THEN Cancel(begun)
                              ELSE Fill(p)
  BY DEF Submit
<1>5. ASSUME s.resp = None, s.op = "output" PROVE Submit(s, r, i, last) = s
  <2>1. base = s
    BY <1>5
  <2>2. begun = s
    BY <1>5, <2>1 DEF Start, Free
  <2>3. begun.resp # r
    BY <1>5, <2>2, ThreadNames
  <2> QED BY <1>4, <2>2, <2>3
<1> HIDE DEF begun
<1>6. begun \in App /\ Ranged(begun) /\ Linked(begun) /\ Owned(begun)
  BY <1>3 DEF Sound
<1>7. ASSUME begun.resp = r, ~refused
      PROVE  /\ Sound(Fill(p)) /\ Fill(p).robbed = s.robbed
             /\ Fill(p).sound = Line => s.sound = Line
  <2>1. i = begun.submitted /\ begun.final = None /\ r # None /\ i \in Indices
    BY <1>7, ThreadNames
  <2>2. p \in App
    <3>1. begun.pending \cup {i} \in SUBSET Indices /\ begun.submitted + 1 \in Nat
      BY <1>6, <2>1, AppFields
    <3>2. (IF last THEN i ELSE None) \in Nat \cup {None}
      OBVIOUS
    <3>3. p = [begun EXCEPT !.pending = begun.pending \cup {i},
                            !.submitted = begun.submitted + 1,
                            !.final = IF last THEN i ELSE None]
      OBVIOUS
    <3> HIDE DEF p
    <3> QED BY <1>6, <3>1, <3>2, <3>3, AppQueued
  <2>3. /\ p.resp = begun.resp /\ p.submitted = begun.submitted + 1
        /\ p.next = begun.next /\ p.final = (IF last THEN i ELSE None)
        /\ p.pending = begun.pending \cup {i} /\ p.active = begun.active
        /\ p.ready = begun.ready /\ p.failed = begun.failed
        /\ p.playing = begun.playing /\ p.sound = begun.sound
        /\ p.callback = begun.callback /\ p.started = begun.started /\ p.robbed = begun.robbed
        /\ p.op = begun.op /\ p.state = begun.state
    BY <1>6 DEF App
  <2> HIDE DEF p
  <2>4. Ranged(p)
    <3>1. begun.submitted \in Nat /\ begun.next \in Nat /\ Length[r] \in Nat
      BY <1>6, AppFields, ThreadNames
    <3>2. /\ begun.pending \subseteq Indices /\ begun.active \subseteq Indices
          /\ begun.failed \subseteq Indices /\ begun.ready \subseteq Threads
          /\ \A j \in Indices : j \in Nat
          /\ \A t \in Threads : t[2] \in Nat
      BY <1>6, AppFields, ThreadNames
    <3>3. /\ p.submitted <= Length[p.resp] /\ p.resp # None /\ p.next <= p.submitted
          /\ p.final # None => p.submitted = p.final + 1
          /\ p.playing # None => p.playing = p.next /\ p.next < p.submitted
      BY <1>6, <1>7, <2>1, <2>3, <3>1 DEF Ranged
    <3>4. ASSUME NEW j \in p.pending \cup p.active \cup p.failed PROVE j < p.submitted
      <4>1. j \in begun.pending \cup begun.active \cup begun.failed \cup {i}
        BY <2>3, <3>4
      <4>2. j < begun.submitted \/ j = begun.submitted
        BY <1>6, <2>1, <4>1 DEF Ranged
      <4>3. j \in Nat
        BY <3>2, <4>1
      <4> QED BY <2>3, <3>1, <4>2, <4>3
    <3>5. \A t \in p.ready : t[1] = p.resp /\ t[2] < p.submitted
      BY <1>6, <2>3, <3>1, <3>2 DEF Ranged
    <3> QED BY <3>3, <3>4, <3>5 DEF Ranged
  <2>5. Linked(p) /\ Owned(p)
    BY <1>6, <2>3 DEF Linked, Owned, OwnsOutput
  <2>6. Sound(p)
    BY <2>2, <2>4, <2>5 DEF Sound
  <2> QED BY <1>3, <2>3, <2>6, FillSound
<1>8. /\ Sound(Cancel(begun)) /\ Cancel(begun).robbed = s.robbed
      /\ Cancel(begun).sound # Line
  BY <1>3, <1>6, CancelEffect, ThreadNames
<1> HIDE DEF refused, p
<1> QED BY <1>3, <1>4, <1>5, <1>7, <1>8

-----------------------------------------------------------------------------
(* The single text, the player and the user *)

\* Who may speak is decided anew when there is nothing that sounds.
LEMMA QuietSound ==
    ASSUME NEW s, Sound(s), ~s.robbed => s.resp = None /\ s.sound = None,
           NEW e \in App,
           e.resp = s.resp, e.submitted = s.submitted, e.next = s.next,
           e.final = s.final, e.pending = s.pending, e.active = s.active,
           e.ready = s.ready, e.failed = s.failed, e.playing = s.playing,
           e.sound = s.sound, e.callback = s.callback, e.started = s.started, e.robbed = s.robbed
    PROVE  Sound(e)
<1>1. Ranged(s) /\ Linked(s)
  BY DEF Sound
<1>2. Ranged(e)
  BY <1>1 DEF Ranged
<1>3. Linked(e) /\ Owned(e)
  BY <1>1 DEF Linked, Owned
<1> QED BY <1>2, <1>3 DEF Sound

\* The error or the end of something that was the only one to sound.
LEMMA RecoverSound ==
    ASSUME NEW s, Sound(s), ~s.robbed => s.resp = None /\ s.sound = None
    PROVE  /\ Sound(Recover(s)) /\ Recover(s).robbed = s.robbed
           /\ Recover(s).resp = s.resp /\ Recover(s).sound = s.sound
<1> DEFINE e == Recover(s)
<1>1. s \in App
  BY DEF Sound
<1>2. e \in App
  BY <1>1, RecoverEffect
<1>3. /\ e.resp = s.resp /\ e.submitted = s.submitted /\ e.next = s.next
      /\ e.final = s.final /\ e.pending = s.pending /\ e.active = s.active
      /\ e.ready = s.ready /\ e.failed = s.failed /\ e.playing = s.playing
      /\ e.sound = s.sound /\ e.callback = s.callback /\ e.started = s.started /\ e.robbed = s.robbed
  BY <1>1 DEF App, Recover
<1> HIDE DEF e
<1>4. Sound(e)
  BY <1>2, <1>3, QuietSound
<1> QED BY <1>3, <1>4 DEF e

\* The player falls silent without a callback to the reply.
LEMMA SilentEffect ==
    ASSUME NEW s \in App, NEW e,
           e = [s EXCEPT !.sound = None, !.started = FALSE, !.callback = None]
    PROVE  /\ e \in App
           /\ e.resp = s.resp /\ e.submitted = s.submitted /\ e.next = s.next
           /\ e.final = s.final /\ e.pending = s.pending /\ e.active = s.active
           /\ e.ready = s.ready /\ e.failed = s.failed /\ e.playing = s.playing
           /\ e.sound = None /\ e.callback = None /\ e.started = FALSE /\ e.robbed = s.robbed
           /\ e.op = s.op /\ e.state = s.state /\ e.fate = s.fate
           /\ e.enabled = s.enabled /\ e.told = s.told /\ e.work = s.work
<1>1. e \in App
  BY AppSilent
<1> QED BY <1>1 DEF App

LEMMA SameRanged ==
    ASSUME NEW s, Ranged(s), NEW e,
           e.resp = s.resp, e.submitted = s.submitted, e.next = s.next,
           e.final = s.final, e.pending = s.pending, e.active = s.active,
           e.ready = s.ready, e.failed = s.failed, e.playing = s.playing
    PROVE  Ranged(e)
  BY DEF Ranged

\* A failed or refused sound of the reply cancels the reply.
LEMMA PlaybackErrorSound ==
    ASSUME NEW s \in App, Ranged(s)
    PROVE  /\ Sound(PlaybackError(s)) /\ PlaybackError(s).robbed = s.robbed
           /\ PlaybackError(s).resp = None /\ PlaybackError(s).sound = None
           /\ PlaybackError(s).fate = s.fate /\ PlaybackError(s).told = s.told
           /\ PlaybackError(s).work = s.work
<1> DEFINE e == [s EXCEPT !.playing = None]
           q == Recover(e)
<1>1. PlaybackError(s) = Cancel(q)
  BY DEF PlaybackError, ReportError
<1>2. e \in App
  BY AppPlaying
<1>3. q \in App
  BY <1>2, RecoverEffect
<1>4. /\ q.resp = s.resp /\ q.submitted = s.submitted /\ q.next = s.next
      /\ q.final = s.final /\ q.pending = s.pending /\ q.active = s.active
      /\ q.ready = s.ready /\ q.failed = s.failed /\ q.playing = None
      /\ q.robbed = s.robbed /\ q.fate = s.fate /\ q.told = s.told /\ q.work = s.work
  BY <1>2 DEF App, Recover
<1> HIDE DEF q
<1>5. Ranged(q)
  BY <1>4 DEF Ranged
<1> QED BY <1>1, <1>3, <1>4, <1>5, CancelEffect

LEMMA SilencedSound ==
    ASSUME NEW s, Sound(s)
    PROVE  /\ Sound(Silenced(s)) /\ Silenced(s).robbed = s.robbed
           /\ Silenced(s).resp = None /\ Silenced(s).sound = None
           /\ Silenced(s).fate = s.fate /\ Silenced(s).told = s.told
           /\ Silenced(s).work = s.work
<1>1. s \in App /\ Ranged(s)
  BY DEF Sound
<1> DEFINE o == StopOutput(s)
           e == [o EXCEPT !.sound = None, !.started = FALSE, !.callback = None]
<1>2. o \in App
  BY <1>1, AppVoice DEF StopOutput
<1>3. /\ o.resp = s.resp /\ o.submitted = s.submitted /\ o.next = s.next
      /\ o.final = s.final /\ o.pending = s.pending /\ o.active = s.active
      /\ o.ready = s.ready /\ o.failed = s.failed /\ o.playing = s.playing
      /\ o.robbed = s.robbed /\ o.fate = s.fate /\ o.told = s.told /\ o.work = s.work
  BY <1>1 DEF App, StopOutput
<1> HIDE DEF o
<1>4. /\ e \in App
      /\ e.resp = o.resp /\ e.submitted = o.submitted /\ e.next = o.next
      /\ e.final = o.final /\ e.pending = o.pending /\ e.active = o.active
      /\ e.ready = o.ready /\ e.failed = o.failed /\ e.playing = o.playing
      /\ e.robbed = o.robbed /\ e.fate = o.fate /\ e.told = o.told /\ e.work = o.work
  BY <1>2, SilentEffect
<1>5. Silenced(s) = Cancel(e)
  BY DEF Silenced, o
<1> HIDE DEF e
<1>6. Ranged(e)
  BY <1>1, <1>3, <1>4, SameRanged
<1> QED BY <1>3, <1>4, <1>5, <1>6, CancelEffect

-----------------------------------------------------------------------------
(* The actions *)

\* A segment more, and the chat worker may be over.
LEMMA SendEffect ==
    ASSUME NEW r \in Responses, NEW last \in BOOLEAN, chat \in [Responses -> Chat],
           Send(r, last)
    PROVE  /\ chat[r].sent < Length[r]
           /\ \E e \in Chat : /\ chat' = [chat EXCEPT ![r] = e]
                              /\ e.sent = chat[r].sent + 1 /\ e.taken = chat[r].taken
<1> DEFINE n == chat[r].sent + 1
           e == [chat[r] EXCEPT !.sent = n, !.final = last,
                                !.status = IF last THEN "over" ELSE @]
<1>1. chat[r] \in Chat /\ n \in Nat
  BY DEF Chat
<1>2. chat' = [chat EXCEPT ![r] = e]
  BY DEF Send
<1>3. e \in Chat /\ e.taken = chat[r].taken /\ e.sent = n
  <2> HIDE DEF n
  <2>1. CASE last
    BY <1>1, <2>1 DEF Chat
  <2>2. CASE ~last
    BY <1>1, <2>2 DEF Chat
  <2> QED BY <2>1, <2>2
<1>4. chat[r].sent < Length[r]
  BY DEF Send
<1> HIDE DEF e
<1> QED BY <1>2, <1>3, <1>4

\* What the chat worker has sent and what was taken of it.
LEMMA ChatStep ==
    ASSUME IInv, NEW r \in Responses,
           Ask(r) \/ BreakOff(r) \/ \E last \in BOOLEAN : Send(r, last)
    PROVE  IInv'
<1>1. chat \in [Responses -> Chat] /\ UNCHANGED <<app, line>> /\ turns' = turns
  BY DEF IInv, TypeOK, Ask, BreakOff, Send
<1>2. \A q \in Responses : /\ chat[q].sent \in Nat /\ chat[q].taken \in Nat /\ Length[q] \in Nat
                            /\ chat[q].taken <= chat[q].sent /\ chat[q].sent <= Length[q]
  BY <1>1, ThreadNames DEF IInv, ChatSound, Chat
<1>3. PICK e \in Chat : /\ chat' = [chat EXCEPT ![r] = e]
                        /\ e.taken = chat[r].taken /\ e.taken <= e.sent
                        /\ e.sent <= Length[r]
  <2>1. CASE Ask(r)
    <3>1. [chat[r] EXCEPT !.status = "running"] \in Chat
      BY <1>1 DEF Chat
    <3> QED BY <1>1, <1>2, <2>1, <3>1 DEF Ask, Chat
  <2>2. CASE BreakOff(r)
    <3>1. [chat[r] EXCEPT !.status = "over"] \in Chat
      BY <1>1 DEF Chat
    <3> QED BY <1>1, <1>2, <2>2, <3>1 DEF BreakOff, Chat
  <2>3. ASSUME NEW last \in BOOLEAN, Send(r, last)
        PROVE  \E e \in Chat : /\ chat' = [chat EXCEPT ![r] = e]
                                /\ e.taken = chat[r].taken /\ e.taken <= e.sent
                                /\ e.sent <= Length[r]
    <3>1. chat[r].sent < Length[r]
      BY <1>1, <2>3, SendEffect
    <3>2. PICK e \in Chat : /\ chat' = [chat EXCEPT ![r] = e]
                            /\ e.sent = chat[r].sent + 1 /\ e.taken = chat[r].taken
      BY <1>1, <2>3, SendEffect
    <3>3. e.taken = chat[r].taken /\ e.taken <= e.sent /\ e.sent <= Length[r]
      BY <1>2, <3>1, <3>2
    <3> QED BY <3>2, <3>3, Zenon
  <2> QED BY <2>1, <2>2, <2>3
<1>4. chat' \in [Responses -> Chat] /\ ChatSound'
  BY <1>1, <1>2, <1>3 DEF ChatSound
<1> QED BY <1>1, <1>4 DEF IInv, TypeOK, LineSound

LEMMA TakeSegmentStep ==
    ASSUME IInv, NEW r \in Responses, TakeSegment(r)
    PROVE  IInv'
<1> DEFINE i == chat[r].taken
           last == chat[r].final /\ i + 1 = chat[r].sent
           e == [chat[r] EXCEPT !.taken = @ + 1]
<1>1. /\ chat \in [Responses -> Chat] /\ i \in Nat /\ i < chat[r].sent
      /\ chat[r].sent \in Nat /\ chat[r].sent <= Length[r] /\ Length[r] \in Nat
  BY ThreadNames DEF IInv, TypeOK, ChatSound, Chat, TakeSegment
<1>2. e \in Chat /\ e.sent = chat[r].sent /\ e.taken = chat[r].taken + 1
  BY <1>1 DEF Chat
<1>3. chat' = [chat EXCEPT ![r] = e]
  BY DEF TakeSegment
<1> HIDE DEF e
<1>4. chat' \in [Responses -> Chat] /\ ChatSound'
  BY <1>1, <1>2, <1>3 DEF IInv, ChatSound
<1>5. app' = Submit(app, r, i, last) /\ line' = line /\ turns' = turns
  BY DEF TakeSegment
<1>6. last \in BOOLEAN /\ i < Length[r]
  BY <1>1
<1> HIDE DEF i, last
<1>7. /\ Sound(app') /\ app'.robbed = app.robbed
      /\ app'.sound = Line => app.sound = Line
      /\ app.resp = None /\ app.op = "output" => app' = app
  BY <1>1, <1>5, <1>6, SubmitSound DEF IInv
<1>8. LineSound'
  BY <1>5, <1>7 DEF IInv, LineSound, OwnsOutput
<1> QED BY <1>4, <1>5, <1>7, <1>8 DEF IInv, TypeOK, Sound

LEMMA WorkerStep ==
    ASSUME IInv, NEW t \in Threads, Synthesize(t) \/ TakeResult(t) \/ TakeFinished(t)
    PROVE  IInv'
<1>1. Sound(app) /\ app \in App /\ LineSound /\ TypeOK /\ ChatSound
  BY DEF IInv, TypeOK
<1>2. chat' = chat /\ line' = line /\ turns' \in Nat
  BY <1>1 DEF TypeOK, Synthesize, TakeResult, TakeFinished, Turn, Unless
<1>3. ASSUME NEW w \in WorkerPhases, NEW s, s = [app EXCEPT !.work[t] = w]
      PROVE  /\ Sound(s) /\ s.robbed = app.robbed /\ s.resp = app.resp
             /\ s.sound = app.sound /\ s.op = app.op /\ s.state = app.state
  <2> DEFINE f == [app.work EXCEPT ![t] = w]
  <2>1. f \in [Threads -> WorkerPhases]
    BY <1>1, AppFields
  <2>2. s = [app EXCEPT !.work = f]
    BY <1>3
  <2> HIDE DEF f
  <2>3. s \in App
    BY <1>1, <2>1, <2>2, AppWork
  <2>4. /\ s.resp = app.resp /\ s.submitted = app.submitted /\ s.next = app.next
        /\ s.final = app.final /\ s.pending = app.pending /\ s.active = app.active
        /\ s.ready = app.ready /\ s.failed = app.failed /\ s.playing = app.playing
        /\ s.sound = app.sound /\ s.callback = app.callback /\ s.started = app.started
        /\ s.robbed = app.robbed /\ s.op = app.op /\ s.state = app.state
    BY <1>1, <2>2 DEF App
  <2> QED BY <1>1, <2>3, <2>4, SameSound
<1>4. ASSUME Synthesize(t)
      PROVE  Sound(app') /\ LineSound'
  <2>1. PICK w \in {"finishing", "audio", "failure"} : app' = [app EXCEPT !.work[t] = w]
    BY <1>4 DEF Synthesize
  <2>2. w \in WorkerPhases
    BY DEF WorkerPhases
  <2> QED BY <1>1, <1>2, <1>3, <2>1, <2>2 DEF LineSound, OwnsOutput
<1>5. ASSUME TakeResult(t)
      PROVE  Sound(app') /\ LineSound'
  <2> DEFINE s == [app EXCEPT !.work[t] = "finishing"]
             w == "finishing"
  <2>1. w \in WorkerPhases /\ s = [app EXCEPT !.work[t] = w]
    BY DEF WorkerPhases
  <2>2. app' = AudioReady(s, t) \/ app' = SynthesisFailed(s, t)
    BY <1>5 DEF TakeResult
  <2> HIDE DEF s, w
  <2>3. /\ Sound(s) /\ s.robbed = app.robbed /\ s.resp = app.resp
        /\ s.sound = app.sound /\ s.op = app.op /\ s.state = app.state
    BY <1>3, <2>1
  <2>4. /\ Sound(app') /\ app'.robbed = s.robbed
        /\ app'.sound = Line => s.sound = Line
        /\ s.resp = None => app' = s
    BY <2>2, <2>3, AudioReadySound, SynthesisFailedSound
  <2> QED BY <1>1, <1>2, <2>3, <2>4 DEF LineSound, OwnsOutput
<1>6. ASSUME TakeFinished(t)
      PROVE  Sound(app') /\ LineSound'
  <2> DEFINE s == [app EXCEPT !.work[t] = "gone"]
             w == "gone"
  <2>1. w \in WorkerPhases /\ s = [app EXCEPT !.work[t] = w]
    BY DEF WorkerPhases
  <2>2. app' = ThreadFinished(s, t)
    BY <1>6 DEF TakeFinished
  <2> HIDE DEF s, w
  <2>3. /\ Sound(s) /\ s.robbed = app.robbed /\ s.resp = app.resp
        /\ s.sound = app.sound /\ s.op = app.op /\ s.state = app.state
    BY <1>3, <2>1
  <2>4. /\ Sound(app') /\ app'.robbed = s.robbed
        /\ app'.sound = Line => s.sound = Line
        /\ s.resp = None => /\ app'.resp = None /\ app'.op = s.op
                            /\ app'.state = s.state /\ app'.sound = s.sound
    BY <2>2, <2>3, ThreadFinishedSound
  <2> QED BY <1>1, <1>2, <2>3, <2>4 DEF LineSound, OwnsOutput
<1>7. Sound(app') /\ LineSound'
  BY <1>4, <1>5, <1>6
<1> QED BY <1>1, <1>2, <1>7 DEF IInv, TypeOK, ChatSound, Sound

LEMMA SpeakStep ==
    ASSUME IInv, Speak
    PROVE  IInv'
<1>1. Sound(app) /\ app \in App /\ LineSound /\ TypeOK /\ ChatSound
  BY DEF IInv, TypeOK
<1>2. chat' = chat /\ turns' \in Nat /\ Free(app)
  BY <1>1 DEF Speak, Turn, TypeOK
<1>3. ~app.robbed => app.resp = None /\ app.sound = None
  BY <1>1, <1>2 DEF Sound, Owned, OwnsOutput, Free
<1>4. CASE line.phase = "none"
  <2> DEFINE e == [app EXCEPT !.state = "THINKING", !.op = "output"]
  <2>1. app' = e /\ line' = [phase |-> "running", cancelled |-> FALSE]
    BY <1>4 DEF Speak
  <2>2. e \in App
    BY <1>1, AppVoice DEF Output
  <2>3. /\ e.resp = app.resp /\ e.submitted = app.submitted /\ e.next = app.next
        /\ e.final = app.final /\ e.pending = app.pending /\ e.active = app.active
        /\ e.ready = app.ready /\ e.failed = app.failed /\ e.playing = app.playing
        /\ e.sound = app.sound /\ e.callback = app.callback /\ e.started = app.started /\ e.robbed = app.robbed
        /\ e.op = "output" /\ e.state = "THINKING"
    BY <1>1 DEF App
  <2> HIDE DEF e
  <2>4. Sound(e)
    BY <1>1, <1>3, <2>2, <2>3, QuietSound
  <2>5. LineSound'
    BY <1>3, <2>1, <2>3, NamesAssumption DEF LineSound, OwnsOutput, Output
  <2>6. line' \in [phase: LinePhases, cancelled: BOOLEAN]
    BY <2>1 DEF LinePhases
  <2> QED BY <1>1, <1>2, <2>1, <2>2, <2>4, <2>5, <2>6 DEF IInv, TypeOK, ChatSound
<1>5. CASE line.phase # "none"
  <2>1. app' = Recover(app) /\ line' = [line EXCEPT !.cancelled = TRUE]
    BY <1>5 DEF Speak, ReportError
  <2>2. /\ Sound(app') /\ app'.robbed = app.robbed
        /\ app'.resp = app.resp /\ app'.sound = app.sound
    BY <1>1, <1>3, <2>1, RecoverSound
  <2>3. line' \in [phase: LinePhases, cancelled: BOOLEAN] /\ line'.cancelled
    BY <1>1, <2>1 DEF TypeOK
  <2>4. LineSound'
    BY <1>3, <2>2, <2>3, NamesAssumption DEF LineSound
  <2> QED BY <1>1, <1>2, <2>2, <2>3, <2>4 DEF IInv, TypeOK, ChatSound, Sound
<1> QED BY <1>4, <1>5

\* The worker of a single text ends: its text is played, or an error is reported,
\* or it was cancelled and recovers whatever output is thinking.
LEMMA TakeLineStep ==
    ASSUME IInv, TakeLine
    PROVE  IInv'
<1>1. Sound(app) /\ app \in App /\ LineSound /\ TypeOK /\ ChatSound
  BY DEF IInv, TypeOK
<1>2. chat' = chat /\ turns' = turns /\ line' = [line EXCEPT !.phase = "finishing"]
  BY DEF TakeLine
<1>3. line' \in [phase: LinePhases, cancelled: BOOLEAN] /\ line'.phase = "finishing"
  BY <1>1, <1>2 DEF TypeOK, LinePhases
<1>4. /\ app.robbed \in BOOLEAN /\ None # Line
      /\ line.phase \in {"audio", "failure"} /\ ~line.cancelled /\ ~app.robbed =>
            app.resp = None /\ app.sound = None /\ OwnsOutput(app)
      /\ line.phase \in {"audio", "failure", "stopped"} /\ ~app.robbed => app.sound # Line
  BY <1>1, NamesAssumption DEF LineSound, TakeLine, App
<1>5. CASE /\ line.phase = "audio" /\ ~line.cancelled
           /\ app.op = "output" /\ app.state = "THINKING"
  <2>1. app' = PlayLine(app)
    BY <1>5 DEF TakeLine
  <2>2. CASE app.sound # None
    <3> DEFINE e == [app EXCEPT !.callback = None]
    <3>1. app' = Recover(e)
      BY <2>1, <2>2 DEF PlayLine, ReportError
    <3>2. e \in App
      BY <1>1, AppUncalled
    <3>3. /\ e.resp = app.resp /\ e.submitted = app.submitted /\ e.next = app.next
          /\ e.final = app.final /\ e.pending = app.pending /\ e.active = app.active
          /\ e.ready = app.ready /\ e.failed = app.failed /\ e.playing = app.playing
          /\ e.sound = app.sound /\ e.callback = None /\ e.started = app.started /\ e.robbed = app.robbed
      BY <1>1 DEF App
    <3> HIDE DEF e
    <3>4. app.robbed
      BY <1>4, <1>5, <2>2
    <3>5. Ranged(e)
      BY <1>1, <3>3, SameRanged DEF Sound
    <3>6. Linked(e) /\ Owned(e)
      BY <1>1, <3>3, <3>4 DEF Sound, Linked, Owned
    <3>7. Sound(e)
      BY <3>2, <3>5, <3>6 DEF Sound
    <3>8. Sound(app') /\ app'.robbed
      BY <3>1, <3>3, <3>4, <3>7, RecoverSound
    <3> QED BY <1>1, <1>2, <1>3, <3>8 DEF IInv, TypeOK, ChatSound, LineSound, Sound
  <2>3. CASE app.sound = None
    <3> DEFINE e == [app EXCEPT !.sound = Line, !.started = FALSE, !.callback = None]
    <3>1. app' = e
      BY <2>1, <2>3 DEF PlayLine
    <3>2. e \in App
      BY <1>1 DEF App
    <3>3. /\ e.resp = app.resp /\ e.submitted = app.submitted /\ e.next = app.next
          /\ e.final = app.final /\ e.pending = app.pending /\ e.active = app.active
          /\ e.ready = app.ready /\ e.failed = app.failed /\ e.playing = app.playing
          /\ e.sound = Line /\ e.callback = None /\ e.started = FALSE /\ e.robbed = app.robbed
          /\ e.op = app.op /\ e.state = app.state
      BY <1>1 DEF App
    <3> HIDE DEF e
    <3>4. Ranged(e)
      BY <1>1, <3>3, SameRanged DEF Sound
    <3>5. ~e.robbed => e.resp = None /\ e.playing = None
      BY <1>1, <1>4, <1>5, <3>3 DEF Sound, Ranged
    <3>6. Linked(e) /\ Owned(e)
      BY <1>5, <3>3, <3>5, ThreadNames DEF Linked, Owned, OwnsOutput, Output
    <3>7. Sound(e)
      BY <3>2, <3>4, <3>6 DEF Sound
    <3> QED BY <1>1, <1>2, <1>3, <3>1, <3>2, <3>7 DEF IInv, TypeOK, ChatSound, LineSound
  <2> QED BY <2>2, <2>3
<1>6. CASE line.phase = "failure" /\ ~line.cancelled
  <2>1. app' = Recover(app)
    BY <1>6 DEF TakeLine, ReportError
  <2>2. Sound(app')
    BY <1>1, <1>4, <1>6, <2>1, RecoverSound
  <2> QED BY <1>1, <1>2, <1>3, <2>2 DEF IInv, TypeOK, ChatSound, LineSound, Sound
<1>7. CASE line.phase = "stopped"
  <2>1. app' = LineCancelled(app)
    BY <1>7 DEF TakeLine
  <2>2. Sound(app')
    <3>1. CASE app.op = "output" /\ app.state = "THINKING"
      <4> DEFINE c == Recover(app)
                 b == app.robbed \/ app.resp # None
                 e == [c EXCEPT !.robbed = b]
      <4>1. app' = [c EXCEPT !.robbed = @ \/ app.resp # None]
        <5>1. LineCancelled(app) = IF app.op = "output" /\ app.state = "THINKING"
                                   THEN [c EXCEPT !.robbed = @ \/ app.resp # None] ELSE app
          BY DEF LineCancelled
        <5> HIDE DEF c
        <5> QED BY <2>1, <3>1, <5>1, Zenon
      <4>2. c \in App /\ c.robbed = app.robbed
        <5>1. c \in App
          BY <1>1, RecoverEffect
        <5>2. c.robbed = app.robbed
          BY <1>1 DEF App, Recover
        <5> QED BY <5>1, <5>2
      <4>3. /\ c.resp = app.resp /\ c.submitted = app.submitted /\ c.next = app.next
            /\ c.final = app.final /\ c.pending = app.pending /\ c.active = app.active
            /\ c.ready = app.ready /\ c.failed = app.failed /\ c.playing = app.playing
            /\ c.sound = app.sound /\ c.callback = app.callback /\ c.started = app.started
        BY <1>1 DEF App, Recover
      <4> HIDE DEF c
      <4>4. app' = e
        BY <4>1, <4>2
      <4>5. b \in BOOLEAN /\ (~b => ~app.robbed /\ app.resp = None)
        BY <1>4
      <4> HIDE DEF b
      <4>6. e \in App
        BY <4>2, <4>5 DEF App
      <4>7. /\ e.resp = app.resp /\ e.submitted = app.submitted /\ e.next = app.next
            /\ e.final = app.final /\ e.pending = app.pending /\ e.active = app.active
            /\ e.ready = app.ready /\ e.failed = app.failed /\ e.playing = app.playing
            /\ e.sound = app.sound /\ e.callback = app.callback /\ e.started = app.started /\ e.robbed = b
        BY <4>2, <4>3 DEF App
      <4> HIDE DEF e
      <4>8. Ranged(e)
        BY <1>1, <4>7, SameRanged DEF Sound
      <4>9. ~b => app.sound = None
        <5>1. \A u \in Threads : u # <<app.resp, None>>
          <6>1. \A u \in Threads : u[2] # None
            BY ThreadNames
          <6> QED BY <6>1
        <5> QED BY <1>1, <1>4, <1>7, <4>5, <5>1, AppFields DEF Sound, Linked, Ranged
      <4>10. Linked(e) /\ Owned(e)
        BY <1>1, <4>5, <4>7, <4>9 DEF Sound, Linked, Owned
      <4> QED BY <4>4, <4>6, <4>8, <4>10 DEF Sound
    <3>2. CASE ~(app.op = "output" /\ app.state = "THINKING")
      BY <1>1, <2>1, <3>2 DEF LineCancelled
    <3> QED BY <3>1, <3>2
  <2>3. app'.sound = app.sound /\ (~app'.robbed => ~app.robbed)
    BY <1>1, <2>1 DEF LineCancelled, Recover, App
  <2>4. LineSound'
    BY <1>3 DEF LineSound
  <2> QED BY <1>1, <1>2, <1>3, <2>2, <2>4 DEF IInv, TypeOK, ChatSound, Sound
<1>8. CASE app' = app
  BY <1>1, <1>2, <1>3, <1>8 DEF IInv, TypeOK, ChatSound, LineSound
<1> QED BY <1>5, <1>6, <1>7, <1>8 DEF TakeLine

LEMMA LineStep ==
    ASSUME IInv, SynthesizeLine \/ LineFinished
    PROVE  IInv'
<1>1. Sound(app) /\ app \in App /\ LineSound /\ TypeOK /\ ChatSound
  BY DEF IInv, TypeOK
<1>2. chat' = chat /\ app' = app /\ turns' \in Nat
  BY <1>1 DEF TypeOK, SynthesizeLine, LineFinished, Turn, Unless
<1>3. CASE SynthesizeLine
  <2>1. PICK p \in {"stopped", "audio", "failure"} : line' = [line EXCEPT !.phase = p]
    BY <1>3 DEF SynthesizeLine
  <2>2. /\ line' \in [phase: LinePhases, cancelled: BOOLEAN]
        /\ line'.cancelled = line.cancelled /\ line.phase = "running"
    BY <1>1, <1>3, <2>1 DEF TypeOK, LinePhases, SynthesizeLine
  <2>3. LineSound'
    BY <1>1, <1>2, <2>2 DEF LineSound
  <2> QED BY <1>1, <1>2, <2>2, <2>3 DEF IInv, TypeOK, ChatSound
<1>4. CASE LineFinished
  <2>1. line' = [phase |-> "none", cancelled |-> FALSE]
    BY <1>4 DEF LineFinished
  <2>2. line' \in [phase: LinePhases, cancelled: BOOLEAN] /\ LineSound'
    BY <1>1, <1>2, <2>1 DEF LineSound, LinePhases
  <2> QED BY <1>1, <1>2, <2>2 DEF IInv, TypeOK, ChatSound
<1> QED BY <1>3, <1>4

\* A sound that ends without a callback leaves no reply that waits for it.
LEMMA UncalledEffect ==
    ASSUME NEW s \in App, Ranged(s), Linked(s), s.callback = None
    PROVE  ~s.robbed => s.playing = None /\ (s.sound # None => s.resp = None)
<1>1. s.sound \in Threads => s.playing # None
  <2>1. \A u \in Threads : u # <<s.resp, None>>
    <3>1. \A u \in Threads : u[2] # None
      BY ThreadNames
    <3> QED BY <3>1
  <2> QED BY <2>1 DEF Linked
<1>2. ~s.robbed => s.playing = None
  <2>1. ~s.robbed /\ s.playing # None => s.callback = <<s.resp, s.playing>>
    BY DEF Linked
  <2>2. \A r, i : <<r, i>> # None \/ <<r, i>> \notin Threads
    BY NamesAssumption
  <2>3. s.playing # None /\ s.resp # None => <<s.resp, s.playing>> \in Threads
    BY AppFields, ThreadNames DEF Ranged
  <2> QED BY <2>1, <2>2, <2>3 DEF Ranged
<1>3. ~s.robbed /\ s.sound # None => s.sound = Line
  BY <1>1, <1>2, AppFields
<1> QED BY <1>2, <1>3 DEF Linked

LEMMA SoundStartsStep ==
    ASSUME IInv, SoundStarts
    PROVE  IInv'
<1>1. Sound(app) /\ app \in App /\ LineSound /\ TypeOK /\ ChatSound
  BY DEF IInv, TypeOK
<1>2. chat' = chat /\ line' = line /\ turns' = turns /\ app.sound # None
  BY DEF SoundStarts
<1>3. app' \in App
  <2>1. [app EXCEPT !.started = TRUE, !.state = "SPEAKING"] \in App
    BY <1>1 DEF App, Output
  <2>2. [app EXCEPT !.started = TRUE] \in App
    BY <1>1 DEF App
  <2> QED BY <2>1, <2>2 DEF SoundStarts
<1>4. /\ app'.resp = app.resp /\ app'.submitted = app.submitted /\ app'.next = app.next
      /\ app'.final = app.final /\ app'.pending = app.pending /\ app'.active = app.active
      /\ app'.ready = app.ready /\ app'.failed = app.failed /\ app'.playing = app.playing
      /\ app'.sound = app.sound /\ app'.callback = app.callback
      /\ app'.robbed = app.robbed /\ app'.op = app.op
      /\ app'.state \in {app.state, "SPEAKING"}
  BY <1>1 DEF App, SoundStarts
<1>5. Ranged(app')
  BY <1>1, <1>4, SameRanged DEF Sound
<1>6. Linked(app') /\ Owned(app')
  BY <1>1, <1>2, <1>4 DEF Sound, Linked, Owned, OwnsOutput, Output
<1>7. LineSound'
  BY <1>1, <1>2, <1>4 DEF LineSound
<1> QED BY <1>1, <1>2, <1>3, <1>5, <1>6, <1>7 DEF IInv, TypeOK, ChatSound, Sound

LEMMA SoundEndsStep ==
    ASSUME IInv, SoundEnds
    PROVE  IInv'
<1>1. Sound(app) /\ app \in App /\ LineSound /\ TypeOK /\ ChatSound /\ Ranged(app)
      /\ Linked(app) /\ Owned(app)
  BY DEF IInv, TypeOK, Sound
<1>2. chat' = chat /\ line' = line /\ turns' = turns
  BY DEF SoundEnds
<1> DEFINE t == app.callback
           s == [app EXCEPT !.sound = None, !.started = FALSE, !.callback = None]
<1>3. /\ s \in App
      /\ s.resp = app.resp /\ s.submitted = app.submitted /\ s.next = app.next
      /\ s.final = app.final /\ s.pending = app.pending /\ s.active = app.active
      /\ s.ready = app.ready /\ s.failed = app.failed /\ s.playing = app.playing
      /\ s.sound = None /\ s.callback = None /\ s.started = FALSE /\ s.robbed = app.robbed
      /\ s.op = app.op /\ s.state = app.state
  BY ZenonT(40), <1>1, SilentEffect
<1>4. /\ t = None => app' = IF s.op = "output" /\ s.state = "SPEAKING" THEN Recover(s) ELSE s
      /\ t # None => app' = PlaybackFinished([s EXCEPT !.fate[t] = "ended"], t)
  BY DEF SoundEnds
<1> HIDE DEF s
<1>5. Ranged(s)
  BY <1>1, <1>3, SameRanged
<1>6. CASE t = None
  <2>2. ~app.robbed => s.playing = None /\ (app.sound # None => app.resp = None)
    BY <1>1, <1>3, <1>6, UncalledEffect
  <2>3. Linked(s) /\ Owned(s)
    BY <1>1, <1>3, <2>2, ThreadNames DEF Linked, Owned, OwnsOutput
  <2>4. Sound(s)
    BY <1>3, <1>5, <2>3 DEF Sound
  <2>5. CASE ~(s.op = "output" /\ s.state = "SPEAKING")
    <3>1. app' = s
      BY <1>4, <1>6, <2>5
    <3>2. LineSound'
      BY <1>1, <1>2, <1>3, <3>1, NamesAssumption DEF LineSound, OwnsOutput
    <3> QED BY <1>1, <1>2, <1>3, <2>4, <3>1, <3>2 DEF IInv, TypeOK, ChatSound
  <2>6. CASE s.op = "output" /\ s.state = "SPEAKING"
    <3>1. app' = Recover(s)
      BY <1>4, <1>6, <2>6
    <3>2. ~s.robbed => s.resp = None
      <4>1. app.sound # None
        BY <1>1 DEF Linked, SoundEnds
      <4> QED BY <1>3, <2>2, <4>1
    <3>3. Sound(app') /\ app'.robbed = s.robbed /\ app'.sound = s.sound
      BY <1>3, <2>4, <3>1, <3>2, RecoverSound
    <3>4. LineSound'
      <4>1. app.sound # None
        BY <1>1 DEF Linked, SoundEnds
      <4> QED BY <1>1, <1>2, <1>3, <3>3, <4>1, NamesAssumption DEF LineSound
    <3> QED BY <1>1, <1>2, <3>3, <3>4 DEF IInv, TypeOK, ChatSound, Sound
  <2> QED BY <2>5, <2>6
<1>7. CASE t # None
  <2> DEFINE f == [s.fate EXCEPT ![t] = "ended"]
             e == [s EXCEPT !.fate = f]
  <2>1. t \in Threads /\ app.resp = t[1] /\ app.playing = t[2]
    <3>1. t \in Threads /\ t = <<app.resp, app.playing>>
      BY <1>1, <1>7, AppFields DEF Linked
    <3> QED BY <3>1
  <2> HIDE DEF t
  <2>2. f \in [Threads -> {"unheard", "begun", "ended", "failed"}]
    BY <1>3, <2>1, AppFields
  <2>3. app' = PlaybackFinished(e, t)
    BY <1>4, <1>7
  <2> HIDE DEF f
  <2>4. e \in App
    BY <1>3, <2>2, AppSaid
  <2>5. /\ e.resp = s.resp /\ e.submitted = s.submitted /\ e.next = s.next
        /\ e.final = s.final /\ e.pending = s.pending /\ e.active = s.active
        /\ e.ready = s.ready /\ e.failed = s.failed /\ e.playing = s.playing
        /\ e.sound = s.sound /\ e.callback = s.callback /\ e.started = s.started /\ e.robbed = s.robbed
        /\ e.op = s.op /\ e.state = s.state
    BY <1>3 DEF App
  <2> HIDE DEF e
  <2>6. Ranged(e) /\ Owned(e)
    BY <1>1, <1>3, <1>5, <2>5, SameRanged DEF Owned, OwnsOutput
  <2>7. /\ Sound(app') /\ app'.robbed = e.robbed
        /\ app'.sound = Line => e.sound = Line
    BY <1>3, <2>1, <2>3, <2>4, <2>5, <2>6, PlaybackFinishedSound
  <2>8. app.resp # None
    BY <2>1, ThreadNames
  <2>9. LineSound'
    BY <1>1, <1>2, <1>3, <2>5, <2>7, <2>8, NamesAssumption DEF LineSound
  <2> QED BY <1>1, <1>2, <2>7, <2>9 DEF IInv, TypeOK, ChatSound, Sound
<1> QED BY <1>6, <1>7

LEMMA SoundFailsStep ==
    ASSUME IInv, SoundFails
    PROVE  IInv'
<1>1. Sound(app) /\ app \in App /\ LineSound /\ TypeOK /\ ChatSound /\ Ranged(app)
      /\ Linked(app) /\ Owned(app)
  BY DEF IInv, TypeOK, Sound
<1>2. chat' = chat /\ line' = line /\ turns' \in Nat /\ app.sound # None
  BY <1>1 DEF SoundFails, Turn, TypeOK
<1> DEFINE s == [app EXCEPT !.sound = None, !.started = FALSE, !.callback = None]
<1>3. /\ s \in App
      /\ s.resp = app.resp /\ s.submitted = app.submitted /\ s.next = app.next
      /\ s.final = app.final /\ s.pending = app.pending /\ s.active = app.active
      /\ s.ready = app.ready /\ s.failed = app.failed /\ s.playing = app.playing
      /\ s.sound = None /\ s.callback = None /\ s.started = FALSE /\ s.robbed = app.robbed
      /\ s.op = app.op /\ s.state = app.state
  BY ZenonT(40), <1>1, SilentEffect
<1>4. /\ app.callback = None => app' = Recover(s)
      /\ app.callback # None => app' = PlaybackError(s)
  BY DEF SoundFails, ReportError
<1> HIDE DEF s
<1>5. Ranged(s)
  BY <1>1, <1>3, SameRanged
<1>6. CASE app.callback = None
  <2>1. ~s.robbed => s.playing = None /\ s.resp = None
    BY <1>1, <1>2, <1>3, <1>6, UncalledEffect
  <2>2. Linked(s) /\ Owned(s)
    BY <1>3, <2>1, ThreadNames DEF Linked, Owned
  <2>3. Sound(s)
    BY <1>3, <1>5, <2>2 DEF Sound
  <2>4. Sound(app') /\ app'.robbed = s.robbed /\ app'.sound = s.sound
    BY <1>3, <1>4, <1>6, <2>1, <2>3, RecoverSound
  <2>5. LineSound'
    BY <1>1, <1>2, <1>3, <2>4, NamesAssumption DEF LineSound
  <2> QED BY <1>1, <1>2, <2>4, <2>5 DEF IInv, TypeOK, ChatSound, Sound
<1>7. CASE app.callback # None
  <2>1. /\ Sound(app') /\ app'.robbed = s.robbed
        /\ app'.resp = None /\ app'.sound = None
    BY <1>3, <1>4, <1>5, <1>7, PlaybackErrorSound
  <2>2. LineSound'
    BY <1>1, <1>2, <1>3, <2>1, NamesAssumption DEF LineSound
  <2> QED BY <1>1, <1>2, <2>1, <2>2 DEF IInv, TypeOK, ChatSound, Sound
<1> QED BY <1>6, <1>7

\* The chat reply is cancelled, or it is not.
LEMMA CancelledChatEffect ==
    ASSUME IInv, chat' \in {chat, CancelledChat}
    PROVE  chat' \in [Responses -> Chat] /\ ChatSound'
<1>1. chat \in [Responses -> Chat] /\ ChatSound
  BY DEF IInv, TypeOK
<1>2. ASSUME NEW r \in Responses
      PROVE  /\ CancelledChat[r] \in Chat /\ CancelledChat[r].sent = chat[r].sent
             /\ CancelledChat[r].taken = chat[r].taken
  <2>1. chat[r] \in Chat
    BY <1>1
  <2>2. CASE chat[r].status = "running"
    <3>1. CancelledChat[r] = [chat[r] EXCEPT !.status = "cancelled"]
      BY <2>2 DEF CancelledChat
    <3> QED BY <2>1, <3>1 DEF Chat
  <2>3. CASE chat[r].status # "running"
    BY <2>1, <2>3 DEF CancelledChat
  <2> QED BY <2>2, <2>3
<1>3. CASE chat' = chat
  BY <1>1, <1>3 DEF ChatSound
<1>4. CASE chat' = CancelledChat
  <2>1. CancelledChat \in [Responses -> Chat]
    BY <1>2 DEF CancelledChat
  <2>2. ChatSound'
    BY <1>1, <1>2, <1>4 DEF ChatSound
  <2> QED BY <1>4, <2>1, <2>2
<1> QED BY <1>3, <1>4

LEMMA CancelLineEffect ==
    ASSUME IInv, line' = CancelLine, app'.sound = None
    PROVE  line' \in [phase: LinePhases, cancelled: BOOLEAN] /\ LineSound'
<1>1. line \in [phase: LinePhases, cancelled: BOOLEAN]
  BY DEF IInv, TypeOK
<1>2. CASE line.phase = "none"
  <2>1. line' = [line EXCEPT !.cancelled = FALSE]
    BY <1>2 DEF CancelLine
  <2>2. line' \in [phase: LinePhases, cancelled: BOOLEAN] /\ line'.phase = "none"
    BY <1>1, <1>2, <2>1
  <2> QED BY <2>2 DEF LineSound
<1>3. CASE line.phase # "none"
  <2>1. line' = [line EXCEPT !.cancelled = TRUE]
    BY <1>3 DEF CancelLine
  <2>2. line' \in [phase: LinePhases, cancelled: BOOLEAN] /\ line'.cancelled = TRUE
    BY <1>1, <2>1
  <2> QED BY <2>2, NamesAssumption DEF LineSound
<1> QED BY <1>2, <1>3

LEMMA StopStep ==
    ASSUME IInv, Stop
    PROVE  IInv'
<1>1. Sound(app) /\ turns \in Nat
  BY DEF IInv, TypeOK
<1>2. /\ chat' \in {chat, CancelledChat} /\ app' = Silenced(app)
      /\ line' = CancelLine /\ turns' \in Nat
  BY <1>1 DEF Stop, Turn
<1>3. Sound(app') /\ app'.sound = None
  BY <1>1, <1>2, SilencedSound
<1>4. chat' \in [Responses -> Chat] /\ ChatSound'
  BY <1>2, CancelledChatEffect
<1>5. line' \in [phase: LinePhases, cancelled: BOOLEAN] /\ LineSound'
  BY <1>2, <1>3, CancelLineEffect
<1> QED BY <1>2, <1>3, <1>4, <1>5 DEF IInv, TypeOK, Sound

\* The microphone opens only when nothing is spoken.
LEMMA ListenSound ==
    ASSUME NEW s, Sound(s)
    PROVE  /\ Sound(Listen(s)) /\ Listen(s).robbed = s.robbed
           /\ Listen(s).resp = s.resp /\ Listen(s).sound = s.sound
           /\ s.op = "output" => Listen(s) = s
<1> DEFINE e == [s EXCEPT !.state = "LISTENING", !.op = "input"]
<1>1. s \in App /\ Owned(s)
  BY DEF Sound
<1>2. CASE s.enabled /\ s.op # "output" /\ s.state \in {"IDLE", "LISTENING"}
  <2>1. Listen(s) = e
    BY <1>2 DEF Listen
  <2>2. e \in App
    BY <1>1, AppVoice
  <2>3. /\ e.resp = s.resp /\ e.submitted = s.submitted /\ e.next = s.next
        /\ e.final = s.final /\ e.pending = s.pending /\ e.active = s.active
        /\ e.ready = s.ready /\ e.failed = s.failed /\ e.playing = s.playing
        /\ e.sound = s.sound /\ e.callback = s.callback /\ e.started = s.started
        /\ e.robbed = s.robbed
    BY <1>1 DEF App
  <2> HIDE DEF e
  <2>4. ~s.robbed => s.resp = None /\ s.sound = None
    BY <1>1, <1>2 DEF Owned, OwnsOutput
  <2>5. Sound(e)
    BY <2>2, <2>3, <2>4, QuietSound
  <2> QED BY <1>2, <2>1, <2>3, <2>5
<1>3. CASE ~(s.enabled /\ s.op # "output" /\ s.state \in {"IDLE", "LISTENING"})
  <2>1. Listen(s) = s
    BY <1>3 DEF Listen
  <2> QED BY <2>1
<1> QED BY <1>2, <1>3

LEMMA TalkStep ==
    ASSUME IInv, Talk
    PROVE  IInv'
<1>1. Sound(app) /\ turns \in Nat /\ LineSound /\ TypeOK
  BY DEF IInv, TypeOK
<1>2. chat' \in {chat, CancelledChat} /\ turns' \in Nat
  BY <1>1 DEF Talk, Turn
<1>3. chat' \in [Responses -> Chat] /\ ChatSound'
  BY <1>2, CancelledChatEffect
<1>4. CASE app.op = "output"
  <2>1. app' = Listen(Silenced(app)) /\ line' = CancelLine
    BY <1>4 DEF Talk
  <2>2. Sound(Silenced(app)) /\ Silenced(app).sound = None
    BY <1>1, SilencedSound
  <2>3. Sound(app') /\ app'.sound = None
    BY <2>1, <2>2, ListenSound
  <2>4. line' \in [phase: LinePhases, cancelled: BOOLEAN] /\ LineSound'
    BY <2>1, <2>3, CancelLineEffect
  <2> QED BY <1>2, <1>3, <2>3, <2>4 DEF IInv, TypeOK, Sound
<1>5. CASE app.op # "output"
  <2>1. app' = Listen(app) /\ line' = line
    BY <1>5 DEF Talk
  <2>2. Sound(app') /\ app'.robbed = app.robbed /\ app'.sound = app.sound
    BY <1>1, <2>1, ListenSound
  <2>3. LineSound'
    BY <1>1, <1>5, <2>1, <2>2 DEF LineSound, OwnsOutput
  <2> QED BY <1>1, <1>2, <1>3, <2>1, <2>2, <2>3 DEF IInv, TypeOK, Sound
<1> QED BY <1>4, <1>5

LEMMA StopListeningStep ==
    ASSUME IInv, StopListening
    PROVE  IInv'
<1>1. Sound(app) /\ LineSound /\ TypeOK /\ ChatSound
  BY DEF IInv
<1>2. /\ app.op = "input" /\ app' = Recover(app)
      /\ chat' = chat /\ line' = line /\ turns' = turns
  BY DEF StopListening
<1>3. ~app.robbed => app.resp = None /\ app.sound = None
  BY <1>1, <1>2 DEF Sound, Owned, OwnsOutput
<1>4. Sound(app') /\ app'.robbed = app.robbed /\ app'.sound = app.sound
  BY <1>1, <1>2, <1>3, RecoverSound
<1>5. LineSound'
  BY <1>1, <1>2, <1>4 DEF LineSound, OwnsOutput
<1> QED BY <1>1, <1>2, <1>4, <1>5 DEF IInv, TypeOK, ChatSound, Sound

LEMMA ConfigureStep ==
    ASSUME IInv, NEW on \in BOOLEAN, Configure(on)
    PROVE  IInv'
<1>1. Sound(app) /\ LineSound /\ TypeOK /\ ChatSound /\ app \in App /\ Ranged(app)
  BY DEF IInv, Sound
<1> DEFINE e == ApplyConfig(app, on)
<1>2. app' = Cancel(e) /\ line' = CancelLine /\ chat' = chat /\ turns' \in Nat
  BY <1>1 DEF Configure, Turn, TypeOK
<1>3. e \in App
  <2>1. CASE ~on
    <3>1. e = [app EXCEPT !.enabled = FALSE, !.state = "MUTED", !.op = "none"]
      BY <2>1 DEF ApplyConfig
    <3> QED BY ZenonT(40), <1>1, <3>1 DEF App, Output
  <2>2. CASE on /\ app.state = "MUTED"
    <3>1. e = [app EXCEPT !.enabled = TRUE, !.state = "IDLE"]
      BY <2>2 DEF ApplyConfig
    <3> QED BY <1>1, <3>1 DEF App, Output
  <2>3. CASE on /\ app.state # "MUTED"
    <3>1. e = [app EXCEPT !.enabled = TRUE, !.state = app.state]
      BY <2>3 DEF ApplyConfig
    <3>2. app.state \in {"IDLE", "LISTENING", "MUTED"} \cup Output
      BY <1>1 DEF App
    <3> QED BY <1>1, <3>1, <3>2 DEF App
  <2> QED BY <2>1, <2>2, <2>3
<1>4. /\ e.resp = app.resp /\ e.submitted = app.submitted /\ e.next = app.next
      /\ e.final = app.final /\ e.pending = app.pending /\ e.active = app.active
      /\ e.ready = app.ready /\ e.failed = app.failed /\ e.playing = app.playing
  BY <1>1 DEF App, ApplyConfig
<1> HIDE DEF e
<1>5. Ranged(e)
  BY <1>1, <1>4, SameRanged
<1>6. Sound(app') /\ app'.sound = None
  BY <1>2, <1>3, <1>5, CancelEffect
<1>7. line' \in [phase: LinePhases, cancelled: BOOLEAN] /\ LineSound'
  BY <1>2, <1>6, CancelLineEffect
<1> QED BY <1>1, <1>2, <1>6, <1>7 DEF IInv, TypeOK, ChatSound, Sound

-----------------------------------------------------------------------------
(* The theorems *)

LEMMA Initially == Init => IInv
<1> SUFFICES ASSUME Init PROVE IInv
  OBVIOUS
<1>1. chat \in [Responses -> Chat] /\ ChatSound
  BY ThreadNames DEF Init, Chat, ChatSound
<1>2. app \in App
  BY DEF Init, App, Output, WorkerPhases
<1>3. Ranged(app) /\ Linked(app) /\ Owned(app)
  BY NamesAssumption DEF Init, Ranged, Linked, Owned
<1>4. line \in [phase: LinePhases, cancelled: BOOLEAN] /\ turns \in Nat /\ LineSound
  BY NamesAssumption DEF Init, LinePhases, LineSound
<1> QED BY <1>1, <1>2, <1>3, <1>4 DEF IInv, TypeOK, Sound

LEMMA Inductive == IInv /\ [Next]_vars => IInv'
<1> SUFFICES ASSUME IInv, [Next]_vars PROVE IInv'
  OBVIOUS
<1>1. ASSUME NEW r \in Responses,
             Ask(r) \/ BreakOff(r) \/ \E last \in BOOLEAN : Send(r, last)
      PROVE  IInv'
  BY <1>1, ChatStep
<1>2. ASSUME NEW r \in Responses, TakeSegment(r) PROVE IInv'
  BY <1>2, TakeSegmentStep
<1>3. ASSUME NEW t \in Threads, Synthesize(t) \/ TakeResult(t) \/ TakeFinished(t)
      PROVE  IInv'
  BY <1>3, WorkerStep
<1>4. CASE Speak \/ SynthesizeLine \/ TakeLine \/ LineFinished
  BY <1>4, SpeakStep, TakeLineStep, LineStep
<1>5. CASE SoundStarts \/ SoundEnds \/ SoundFails
  BY <1>5, SoundStartsStep, SoundEndsStep, SoundFailsStep
<1>6. CASE Stop \/ Talk \/ StopListening \/ \E on \in BOOLEAN : Configure(on)
  BY <1>6, StopStep, TalkStep, StopListeningStep, ConfigureStep
<1>7. CASE UNCHANGED vars
  BY <1>7 DEF vars, IInv, TypeOK, LineSound, ChatSound
<1> QED BY <1>1, <1>2, <1>3, <1>4, <1>5, <1>6, <1>7 DEF Next

LEMMA Invariant == Spec => []IInv
  BY Initially, Inductive, PTL DEF Spec

\* The controllers' record, the chat workers and the single worker keep their
\* types, for any number of replies, segments and workers.
THEOREM SpeechTypes == Spec => []TypeOK
<1>1. IInv => TypeOK
  BY DEF IInv
<1> QED BY <1>1, Invariant, PTL

\* What sounds is the segment the controller waits for, of the reply that is
\* current: no audio of a reply that was stopped, replaced or failed sounds.
THEOREM CurrentSounds == Spec => []SoundIsCurrent
<1>1. IInv => SoundIsCurrent
  <2> SUFFICES ASSUME IInv PROVE SoundIsCurrent
    OBVIOUS
  <2>1. app \in App /\ Ranged(app) /\ Linked(app)
    BY DEF IInv, Sound
  <2>2. app.playing # None => app.resp # None /\ <<app.resp, app.playing>> \in Threads
    BY <2>1, AppFields, ThreadNames DEF Ranged
  <2>3. app.playing # None => <<app.resp, app.playing>> # None
    BY <2>2, NamesAssumption
  <2> QED BY <2>1, <2>3 DEF Linked, SoundIsCurrent
<1> QED BY <1>1, Invariant, PTL

\* A reply that is being spoken owns the output and nothing sounds while the
\* microphone is open, unless a stale worker gave the output away.
THEOREM OutputIsOwned == Spec => []OutputOwned
<1>1. IInv => OutputOwned
  BY DEF IInv, Sound, Owned, OutputOwned
<1> QED BY <1>1, Invariant, PTL

(* The order of a reply: where each accepted segment is, what is still *)
(* expected of each worker, and how far each segment got.              *)
Over == {"ended", "failed"}
Owing == {"running", "audio", "failure"}

\* Every segment that was accepted and has not had its turn is somewhere.
Placed(s) ==
    s.resp # None =>
        \A i \in Nat : s.next <= i /\ i < s.submitted =>
            i \in s.pending \cup s.active \cup Waiting(s) \cup s.failed \/ s.playing = i

\* Segments are started in order, and nothing that waits has had its turn.
Ordered(s) ==
    /\ \A i \in s.active \cup Waiting(s) \cup s.failed, j \in s.pending : i < j
    /\ \A j \in s.pending \cup Waiting(s) \cup s.failed : s.next <= j /\ j # s.playing
    /\ \A j \in s.failed : j \notin Waiting(s)

\* What came of a segment: it had its turn, waits for it, failed, or has it.
Answered(s, i) == i < s.next \/ i \in Waiting(s) \/ i \in s.failed \/ s.playing = i

\* A worker of the reply owes an answer exactly until it has posted one, and the
\* flags of cancelled workers are of other replies.
Workers(s) ==
    /\ \A i \in s.active :
          IF s.work[<<s.resp, i>>] \in Owing
          THEN ~Answered(s, i) /\ s.fate[<<s.resp, i>>] = "unheard"
          ELSE Answered(s, i)
    /\ \A t \in s.cancelled : t[1] # s.resp

\* How far the segments of the reply got.
Heard(s) ==
    s.resp # None =>
        /\ \A i \in Nat : i < s.next => s.fate[<<s.resp, i>>] \in Over
        /\ \A i \in s.failed : s.fate[<<s.resp, i>>] \in Over
        /\ \A i \in s.pending \cup Waiting(s) : s.fate[<<s.resp, i>>] = "unheard"

\* Of the segments outside U nobody has heard anything.
Known(s, U) ==
    /\ \A t \in Threads : t \notin U =>
          s.work[t] = "none" /\ s.fate[t] = "unheard" /\ t \notin s.cancelled
    /\ s.resp # None => \A i \in Nat : i < s.submitted => <<s.resp, i>> \in U
    /\ \A r \in Responses : <<r, 0>> \notin U => s.told[r] = 0 /\ s.resp # r
    /\ s.resp # None => s.told[s.resp] = 0

Kept(s, U) == Placed(s) /\ Ordered(s) /\ Workers(s) /\ Heard(s) /\ Known(s, U)

\* The slots are in use while something waits for one.
Filled(s) == s.pending # {} => s.active # {} \/ s.ready # {} \/ s.playing # None

Complete(s) == /\ s.final # None /\ s.next > s.final
               /\ s.pending = {} /\ s.active = {} /\ s.ready = {}

\* What can be played is being played, what is complete is finished.
Settled(s) == s.resp # None /\ s.playing = None =>
    s.next \notin Waiting(s) /\ s.next \notin s.failed /\ ~Complete(s)

\* From one record to a later one: how far a segment got is never taken back, a
\* sound that begins is of a segment nobody heard, and the end is announced of
\* the current reply when each of its segments is over.
Follows(s, e) ==
    /\ \A t \in Threads : e.fate[t] = "unheard" => s.fate[t] = "unheard"
    /\ \A t \in Threads : s.fate[t] \in Over => e.fate[t] \in Over
    /\ e.sound \in Threads /\ e.sound # s.sound => s.fate[e.sound] = "unheard"
    /\ \A r \in Responses : e.told[r] # s.told[r] =>
          /\ r = s.resp /\ s.final # None
          /\ \A i \in Nat : i <= s.final => e.fate[<<r, i>>] \in Over
    /\ e.resp # None => e.resp = s.resp /\ e.final = s.final

\* Equal in everything but the voice and the player.
Like(s, e) ==
    /\ e.resp = s.resp /\ e.submitted = s.submitted /\ e.next = s.next
    /\ e.final = s.final /\ e.pending = s.pending /\ e.active = s.active
    /\ e.ready = s.ready /\ e.failed = s.failed /\ e.playing = s.playing
    /\ e.cancelled = s.cancelled /\ e.work = s.work /\ e.fate = s.fate
    /\ e.told = s.told

-----------------------------------------------------------------------------
(* Helpers *)

LEMMA WaitingIs ==
    ASSUME NEW s \in App, Ranged(s)
    PROVE  /\ \A i : i \in Waiting(s) <=> <<s.resp, i>> \in s.ready
           /\ Waiting(s) \subseteq Nat /\ (s.ready = {} <=> Waiting(s) = {})
           /\ \A i \in Waiting(s) : i < s.submitted
<1>1. \A t \in s.ready : t = <<t[1], t[2]>> /\ t[1] = s.resp /\ t[2] \in Nat /\ t[2] < s.submitted
  BY AppFields, ThreadNames DEF Ranged
<1>2. ASSUME NEW i, i \in Waiting(s) PROVE <<s.resp, i>> \in s.ready /\ i \in Nat /\ i < s.submitted
  <2>1. PICK t \in s.ready : t[2] = i
    BY <1>2 DEF Waiting
  <2> QED BY <1>1, <2>1
<1>3. ASSUME NEW i, <<s.resp, i>> \in s.ready PROVE i \in Waiting(s)
  <2>1. <<s.resp, i>>[2] = i
    OBVIOUS
  <2> QED BY <1>3, <2>1 DEF Waiting
<1>4. s.ready = {} <=> Waiting(s) = {}
  BY DEF Waiting
<1> QED BY <1>2, <1>3, <1>4

\* What Sound says of the numbers.
LEMMA Numbers ==
    ASSUME NEW s, Sound(s)
    PROVE  /\ s \in App /\ Ranged(s) /\ s.next \in Nat /\ s.submitted \in Nat /\ s.next <= s.submitted
           /\ \A i \in s.pending \cup s.active \cup Waiting(s) \cup s.failed :
                 i \in Nat /\ i \in Indices /\ i < s.submitted
           /\ s.final # None => s.final \in Nat
           /\ s.playing # None => s.playing \in Nat
           /\ None \notin Nat
           /\ s.resp # None => s.resp \in Responses
                               /\ \A i \in Nat : i < s.submitted => <<s.resp, i>> \in Threads
<1>1. s \in App /\ Ranged(s)
  BY DEF Sound
<1>2. Waiting(s) \subseteq Indices
  BY <1>1, AppFields, ThreadNames DEF Waiting
<1>3. s.resp # None => s.resp \in Responses /\ s.submitted <= Length[s.resp]
                       /\ Length[s.resp] \in Nat
  BY <1>1, AppFields, ThreadNames DEF Ranged
<1>4. \A i \in s.pending \cup s.active \cup Waiting(s) \cup s.failed :
         i \in Nat /\ i \in Indices /\ i < s.submitted
  BY <1>1, <1>2, AppFields, ThreadNames, WaitingIs DEF Ranged
<1>5. s.next \in Nat /\ s.submitted \in Nat /\ s.next <= s.submitted
  BY <1>1, AppFields DEF Ranged
<1>6. s.resp # None => \A i \in Nat : i < s.submitted => <<s.resp, i>> \in Threads
  BY <1>3, <1>5, ThreadNames
<1> QED BY <1>1, <1>3, <1>4, <1>5, <1>6, AppFields, ThreadNames, NamesAssumption

LEMMA FollowsTransitive ==
    ASSUME NEW s, NEW e, NEW f, Sound(s), Follows(s, e), Follows(e, f)
    PROVE  Follows(s, f)
<1>1. s.resp # None /\ s.final # None => \A i \in Nat : i <= s.final => <<s.resp, i>> \in Threads
  <2>1. s.final # None => s.submitted = s.final + 1 /\ s.final \in Nat
    BY Numbers DEF Ranged
  <2> QED BY <2>1, Numbers
<1>2. \A t \in Threads : f.fate[t] = "unheard" => s.fate[t] = "unheard"
  BY DEF Follows
<1>3. \A t \in Threads : s.fate[t] \in Over => f.fate[t] \in Over
  BY DEF Follows
<1>4. f.sound \in Threads /\ f.sound # s.sound => s.fate[f.sound] = "unheard"
  BY DEF Follows
<1>5. ASSUME NEW r \in Responses, f.told[r] # s.told[r]
      PROVE  /\ r = s.resp /\ s.final # None
             /\ \A i \in Nat : i <= s.final => f.fate[<<r, i>>] \in Over
  <2>1. r # None
    BY ThreadNames
  <2>2. CASE f.told[r] # e.told[r]
    BY <2>1, <2>2 DEF Follows
  <2>3. CASE e.told[r] # s.told[r]
    <3>1. /\ r = s.resp /\ s.final # None
          /\ \A i \in Nat : i <= s.final => e.fate[<<r, i>>] \in Over
      BY <2>3 DEF Follows
    <3>2. \A i \in Nat : i <= s.final => <<r, i>> \in Threads
      BY <1>1, <2>1, <3>1
    <3> QED BY <3>1, <3>2 DEF Follows
  <2> QED BY <1>5, <2>2, <2>3
<1>6. f.resp # None => f.resp = s.resp /\ f.final = s.final
  BY DEF Follows
<1> QED BY <1>2, <1>3, <1>4, <1>5, <1>6 DEF Follows

\* What the voice and the player do changes nothing of this.
LEMMA LikeKept ==
    ASSUME NEW s, NEW e, Like(s, e), NEW U
    PROVE  /\ Kept(s, U) => Kept(e, U)
           /\ Filled(s) => Filled(e)
           /\ Settled(s) => Settled(e)
           /\ (e.sound \in Threads => e.sound = s.sound) => Follows(s, e)
<1>1. Waiting(e) = Waiting(s)
  BY DEF Like, Waiting
<1>2. \A i : Answered(e, i) <=> Answered(s, i)
  BY <1>1 DEF Like, Answered
<1>3. Kept(s, U) => Kept(e, U)
  <2> SUFFICES ASSUME Kept(s, U) PROVE Kept(e, U)
    OBVIOUS
  <2>1. Placed(e) /\ Ordered(e)
    BY <1>1 DEF Kept, Placed, Ordered, Like
  <2>2. Workers(e)
    BY <1>2 DEF Kept, Workers, Like
  <2>3. Heard(e)
    BY <1>1 DEF Kept, Heard, Like
  <2>4. Known(e, U)
    BY DEF Kept, Known, Like
  <2> QED BY <2>1, <2>2, <2>3, <2>4 DEF Kept
<1>4. (Filled(s) => Filled(e)) /\ (Settled(s) => Settled(e))
  BY <1>1 DEF Filled, Settled, Complete, Like
<1>5. (e.sound \in Threads => e.sound = s.sound) => Follows(s, e)
  BY DEF Follows, Like
<1> QED BY <1>3, <1>4, <1>5

\* Without a reply there is nothing to keep but what is known of the workers.
LEMMA NoReplyKept ==
    ASSUME NEW e \in App, Ranged(e), e.resp = None, NEW U,
           \A t \in Threads : t \notin U =>
               e.work[t] = "none" /\ e.fate[t] = "unheard" /\ t \notin e.cancelled,
           \A r \in Responses : <<r, 0>> \notin U => e.told[r] = 0
    PROVE  Kept(e, U) /\ Filled(e) /\ Settled(e)
<1>1. /\ e.pending = {} /\ e.active = {} /\ e.ready = {} /\ e.failed = {}
  BY DEF Ranged
<1>2. Waiting(e) = {}
  BY <1>1 DEF Waiting
<1>3. \A t \in e.cancelled : t[1] # None
  BY AppFields, ThreadNames
<1>4. Placed(e) /\ Ordered(e) /\ Heard(e)
  BY <1>1, <1>2 DEF Placed, Ordered, Heard
<1>5. Workers(e)
  BY <1>1, <1>3 DEF Workers
<1>6. Known(e, U)
  BY ThreadNames DEF Known
<1> QED BY <1>1, <1>4, <1>5, <1>6 DEF Kept, Filled, Settled

LEMMA CancelKept ==
    ASSUME NEW s \in App, Ranged(s), NEW U, Known(s, U)
    PROVE  /\ Kept(Cancel(s), U) /\ Filled(Cancel(s)) /\ Settled(Cancel(s))
           /\ Follows(s, Cancel(s))
<1> DEFINE d == [s EXCEPT !.cancelled = @ \cup {<<s.resp, i>> : i \in s.active},
                          !.sound = None, !.started = FALSE, !.callback = None]
           c == Clear(d)
           e == Cancel(s)
<1>1. /\ Sound(e) /\ e.resp = None /\ e.sound = None /\ e.work = s.work
      /\ e.fate = s.fate /\ e.told = s.told
  BY CancelEffect
<1>2. e.cancelled = s.cancelled \cup {<<s.resp, i>> : i \in s.active}
  <2>1. c.cancelled = s.cancelled \cup {<<s.resp, i>> : i \in s.active}
    BY DEF App, Clear
  <2>2. Recover(c).cancelled = c.cancelled
    BY DEF App, Recover, Clear
  <2>3. e \in {c, Recover(c)}
    BY DEF Cancel
  <2> QED BY <2>1, <2>2, <2>3
<1>3. \A i \in s.active : <<s.resp, i>> \in U
  BY AppFields, ThreadNames DEF Ranged, Known
<1> HIDE DEF e
<1>4. Kept(e, U) /\ Filled(e) /\ Settled(e)
  <2>1. e \in App /\ Ranged(e)
    BY <1>1 DEF Sound
  <2>2. \A t \in Threads : t \notin U =>
            e.work[t] = "none" /\ e.fate[t] = "unheard" /\ t \notin e.cancelled
    BY <1>1, <1>2, <1>3 DEF Known
  <2>3. \A r \in Responses : <<r, 0>> \notin U => e.told[r] = 0
    BY <1>1 DEF Known
  <2> QED BY <1>1, <2>1, <2>2, <2>3, NoReplyKept
<1>5. Follows(s, e)
  BY <1>1, ThreadNames DEF Follows
<1> QED BY <1>4, <1>5 DEF e

\* A failed sound of the reply cancels it.
LEMMA PlaybackErrorKept ==
    ASSUME NEW s \in App, Ranged(s), NEW U, Known(s, U)
    PROVE  /\ Kept(PlaybackError(s), U) /\ Filled(PlaybackError(s)) /\ Settled(PlaybackError(s))
           /\ Follows(s, PlaybackError(s)) /\ PlaybackError(s).sound = None
<1> DEFINE e == [s EXCEPT !.playing = None]
           q == Recover(e)
<1>1. PlaybackError(s) = Cancel(q)
  BY DEF PlaybackError, ReportError
<1>2. e \in App
  BY AppPlaying
<1>3. q \in App
  BY <1>2, RecoverEffect
<1>4. /\ q.resp = s.resp /\ q.submitted = s.submitted /\ q.next = s.next
      /\ q.final = s.final /\ q.pending = s.pending /\ q.active = s.active
      /\ q.ready = s.ready /\ q.failed = s.failed /\ q.playing = None
      /\ q.cancelled = s.cancelled /\ q.fate = s.fate /\ q.told = s.told /\ q.work = s.work
  BY <1>2 DEF App, Recover
<1> HIDE DEF q
<1>5. Ranged(q)
  BY <1>4 DEF Ranged
<1>6. Known(q, U)
  BY <1>4 DEF Known
<1>7. /\ Kept(Cancel(q), U) /\ Filled(Cancel(q)) /\ Settled(Cancel(q)) /\ Follows(q, Cancel(q))
      /\ Cancel(q).sound = None
  BY <1>3, <1>5, <1>6, CancelKept, CancelEffect
<1>8. Follows(s, Cancel(q))
  BY <1>4, <1>7, ThreadNames DEF Follows
<1> QED BY <1>1, <1>7, <1>8

-----------------------------------------------------------------------------
(* The handlers *)

LEMMA FillKept ==
    ASSUME NEW s, Sound(s), NEW U, Kept(s, U)
    PROVE  /\ Kept(Fill(s), U) /\ Filled(Fill(s)) /\ Follows(s, Fill(s))
           /\ Settled(s) => Settled(Fill(s))
<1> DEFINE e == Fill(s)
<1>1. s \in App /\ Ranged(s) /\ Placed(s) /\ Ordered(s) /\ Workers(s) /\ Heard(s) /\ Known(s, U)
  BY DEF Sound, Kept
<1>2. PICK starts \in SUBSET s.pending :
         /\ e = [s EXCEPT !.pending = @ \ starts, !.active = @ \cup starts,
                          !.work = Working(s, starts)]
         /\ \A i \in starts, j \in s.pending \ starts : i < j
         /\ (/\ s.pending # {} /\ s.active = {} /\ s.ready = {}
             /\ s.playing = None) => starts # {}
  BY <1>1, FillEffect
<1>3. /\ e.resp = s.resp /\ e.submitted = s.submitted /\ e.next = s.next
      /\ e.final = s.final /\ e.pending = s.pending \ starts
      /\ e.active = s.active \cup starts
      /\ e.ready = s.ready /\ e.failed = s.failed /\ e.playing = s.playing
      /\ e.cancelled = s.cancelled /\ e.work = Working(s, starts)
      /\ e.fate = s.fate /\ e.told = s.told /\ e.sound = s.sound
  BY <1>1, <1>2 DEF App
<1> HIDE DEF e
<1>4. /\ Waiting(e) = Waiting(s)
      /\ \A i : Answered(e, i) <=> Answered(s, i)
  BY <1>3 DEF Waiting, Answered
<1>5. Placed(e)
  BY <1>1, <1>3, <1>4 DEF Placed
<1>6. Ordered(e)
  BY <1>1, <1>2, <1>3, <1>4 DEF Ordered
<1>7. Heard(e)
  BY <1>1, <1>3, <1>4 DEF Heard
<1>8. \A i \in s.pending : /\ ~Answered(s, i) /\ s.resp # None /\ <<s.resp, i>> \in Threads
                           /\ <<s.resp, i>> \in U /\ s.fate[<<s.resp, i>>] = "unheard"
  <2> SUFFICES ASSUME NEW i \in s.pending
               PROVE  /\ ~Answered(s, i) /\ s.resp # None /\ <<s.resp, i>> \in Threads
                      /\ <<s.resp, i>> \in U /\ s.fate[<<s.resp, i>>] = "unheard"
    OBVIOUS
  <2>1. i \in Nat /\ i < s.submitted /\ s.next \in Nat
    BY Numbers
  <2>2. s.resp # None
    BY <1>1 DEF Ranged
  <2>3. ~Answered(s, i)
    BY <1>1, <2>1 DEF Ordered, Answered
  <2> QED BY <1>1, <2>1, <2>2, <2>3, Numbers DEF Known, Heard
<1>9. ASSUME NEW i \in Nat, <<s.resp, i>> \in Threads
      PROVE  e.work[<<s.resp, i>>] = IF i \in starts THEN "running" ELSE s.work[<<s.resp, i>>]
  BY <1>3, <1>9 DEF Working
<1>10. Workers(e)
  <2>1. ASSUME NEW i \in e.active
        PROVE  IF e.work[<<e.resp, i>>] \in Owing
               THEN ~Answered(e, i) /\ e.fate[<<e.resp, i>>] = "unheard"
               ELSE Answered(e, i)
    <3>1. CASE i \in starts
      <4>1. i \in Nat
        BY <3>1, Numbers
      <4>2. e.work[<<e.resp, i>>] \in Owing
        BY <1>3, <1>8, <1>9, <3>1, <4>1 DEF Owing
      <4> QED BY <1>3, <1>4, <1>8, <3>1, <4>2
    <3>2. CASE i \notin starts
      <4>1. i \in s.active /\ i \in Nat /\ <<s.resp, i>> \in Threads
        <5>1. i \in s.active
          BY <1>3, <3>2
        <5>2. s.resp # None
          BY <1>1, <5>1 DEF Ranged
        <5> QED BY <5>1, <5>2, Numbers
      <4>2. e.work[<<e.resp, i>>] = s.work[<<s.resp, i>>]
        BY <1>3, <1>9, <3>2, <4>1
      <4> QED BY <1>1, <1>3, <1>4, <4>1, <4>2 DEF Workers
    <3> QED BY <3>1, <3>2
  <2>2. \A t \in e.cancelled : t[1] # e.resp
    BY <1>1, <1>3 DEF Workers
  <2> QED BY <2>1, <2>2 DEF Workers
<1>11. Known(e, U)
  <2>1. ASSUME NEW t \in Threads, t \notin U PROVE e.work[t] = "none"
    <3>1. ~(t[1] = s.resp /\ t[2] \in starts)
      BY <1>8, <2>1, ThreadNames
    <3> QED BY <1>1, <1>3, <2>1, <3>1 DEF Working, Known
  <2> QED BY <1>1, <1>3, <2>1 DEF Known
<1>12. Filled(e)
  BY <1>2, <1>3 DEF Filled
<1>13. Settled(s) => Settled(e)
  BY <1>3, <1>4 DEF Settled, Complete
<1>14. Follows(s, e)
  BY <1>3 DEF Follows
<1> QED BY <1>5, <1>6, <1>7, <1>10, <1>11, <1>12, <1>13, <1>14 DEF Kept, e

LEMMA FinishKept ==
    ASSUME NEW s, Sound(s), NEW U, Kept(s, U), Filled(s),
           s.resp # None /\ s.playing = None => s.next \notin Waiting(s) /\ s.next \notin s.failed
    PROVE  /\ Kept(Finish(s), U) /\ Filled(Finish(s)) /\ Settled(Finish(s))
           /\ Follows(s, Finish(s))
<1> DEFINE c == [Clear(s) EXCEPT !.told = Told(s)]
           e == Finish(s)
<1>1. s \in App /\ Ranged(s) /\ Heard(s) /\ Known(s, U)
  BY DEF Sound, Kept
<1>2. CASE ~(s.resp # None /\ s.playing = None /\ Complete(s))
  <2>1. e = s
    BY <1>2 DEF Finish, Complete
  <2>2. Settled(s)
    BY <1>2 DEF Settled
  <2>3. Follows(s, s)
    BY DEF Follows
  <2> QED BY <2>1, <2>2, <2>3
<1>3. CASE s.resp # None /\ s.playing = None /\ Complete(s)
  <2>1. Told(s) \in [Responses -> Nat]
    <3>1. s.told \in [Responses -> Nat] /\ s.resp \in Responses
      BY <1>1, <1>3, AppFields
    <3>2. s.told[s.resp] + 1 \in Nat
      BY <3>1
    <3> QED BY <3>1, <3>2 DEF Told
  <2>2. \A r \in Responses : r # s.resp => Told(s)[r] = s.told[r]
    BY <1>1, AppFields DEF Told
  <2>3. Clear(s) \in App
    BY <1>1, ClearEffect
  <2>4. c \in App
    BY <2>1, <2>3, AppTold
  <2>5. /\ c.resp = None /\ c.cancelled = s.cancelled /\ c.work = s.work
        /\ c.fate = s.fate /\ c.told = Told(s) /\ c.sound = s.sound
    BY <1>1, <2>1 DEF App, Clear
  <2> HIDE DEF c
  <2>6. /\ Recover(c).resp = c.resp /\ Recover(c).cancelled = c.cancelled
        /\ Recover(c).work = c.work /\ Recover(c).fate = c.fate
        /\ Recover(c).told = c.told /\ Recover(c).sound = c.sound
    BY <2>4 DEF App, Recover
  <2>7. e \in {c, Recover(c)}
    BY <1>3 DEF Finish, Complete, c
  <2>8. Sound(e)
    BY FinishSound
  <2> HIDE DEF e
  <2>9. /\ e.resp = None /\ e.cancelled = s.cancelled /\ e.work = s.work
        /\ e.fate = s.fate /\ e.told = Told(s) /\ e.sound = s.sound
    BY <2>5, <2>6, <2>7
  <2>10. Kept(e, U) /\ Filled(e) /\ Settled(e)
    <3>1. e \in App /\ Ranged(e)
      BY <2>8 DEF Sound
    <3>2. \A t \in Threads : t \notin U =>
              e.work[t] = "none" /\ e.fate[t] = "unheard" /\ t \notin e.cancelled
      BY <1>1, <2>9 DEF Known
    <3>3. \A r \in Responses : <<r, 0>> \notin U => e.told[r] = 0
      BY <1>1, <2>2, <2>9 DEF Known
    <3> QED BY <2>9, <3>1, <3>2, <3>3, NoReplyKept
  <2>11. Follows(s, e)
    <3>1. ASSUME NEW r \in Responses, e.told[r] # s.told[r]
          PROVE  /\ r = s.resp /\ s.final # None
                 /\ \A i \in Nat : i <= s.final => e.fate[<<r, i>>] \in Over
      <4>1. r = s.resp /\ s.final # None /\ s.final \in Nat /\ s.next \in Nat /\ s.next > s.final
        BY <1>3, <2>2, <2>9, <3>1, Numbers DEF Complete
      <4>2. \A i \in Nat : i <= s.final => i < s.next
        BY <4>1
      <4> QED BY <1>1, <1>3, <2>9, <4>1, <4>2 DEF Heard
    <3> QED BY <2>9, <3>1 DEF Follows
  <2> QED BY <2>10, <2>11 DEF e
<1> QED BY <1>2, <1>3

\* Playing what is next: it was waiting, so it was not heard, and nothing else
\* that waits is touched.
LEMMA PlayKept ==
    ASSUME NEW s, Sound(s), NEW U, Kept(s, U), NEW i \in Nat, i \in Waiting(s),
           i = s.next, s.playing = None, s.resp # None
    PROVE  /\ Kept(Play(s, i), U) /\ Filled(Play(s, i)) /\ Settled(Play(s, i))
           /\ Follows(s, Play(s, i))
<1> DEFINE t == <<s.resp, i>>
           u == CHOOSE a \in s.ready : a[2] = i
           p == [s EXCEPT !.playing = i, !.ready = @ \ {u}]
<1>1. /\ s \in App /\ Ranged(s) /\ Placed(s) /\ Ordered(s) /\ Workers(s) /\ Heard(s)
      /\ Known(s, U)
  BY DEF Sound, Kept
<1>2. u = t /\ u \in s.ready /\ t \in Threads /\ t[1] = s.resp /\ t[2] = i
  <2>1. u \in s.ready /\ u[2] = i
    BY DEF Waiting
  <2> HIDE DEF u
  <2>2. u = <<u[1], u[2]>> /\ u[1] = s.resp /\ u \in Threads
    BY <1>1, <2>1, AppFields, ThreadNames DEF Ranged
  <2> QED BY <2>1, <2>2
<1>3. p = [s EXCEPT !.playing = i, !.ready = @ \ {t}]
  BY <1>2
<1>4. Play(s, i) = IF ~OwnsOutput(s) THEN ReportError(p)
                   ELSE IF s.sound # None THEN PlaybackError([p EXCEPT !.callback = None])
                   ELSE [p EXCEPT !.sound = t, !.started = FALSE, !.callback = t,
                                  !.fate[t] = "begun"]
  BY <1>2 DEF Play
<1> HIDE DEF u
<1>5. i \in Indices /\ i # None /\ i < s.submitted
  BY Numbers
<1>6. p \in App
  <2>1. s.ready \ {t} \in SUBSET Threads
    BY <1>1, AppFields
  <2>2. p = [s EXCEPT !.playing = i, !.ready = s.ready \ {t}]
    BY <1>3
  <2> HIDE DEF p
  <2> QED BY <1>1, <1>5, <2>1, <2>2, AppPlayingReady
<1>7. /\ p.resp = s.resp /\ p.submitted = s.submitted /\ p.next = s.next
      /\ p.final = s.final /\ p.pending = s.pending /\ p.active = s.active
      /\ p.ready = s.ready \ {t} /\ p.failed = s.failed /\ p.playing = i
      /\ p.cancelled = s.cancelled /\ p.work = s.work /\ p.fate = s.fate
      /\ p.told = s.told /\ p.sound = s.sound
  BY <1>1, <1>3 DEF App
<1> HIDE DEF p
<1>8. Ranged(p)
  BY <1>1, <1>5, <1>7 DEF Ranged
<1>9. \A j : j \in Waiting(p) <=> j \in Waiting(s) /\ j # i
  <2>1. \A j : j \in Waiting(p) <=> <<p.resp, j>> \in p.ready
    BY <1>6, <1>8, WaitingIs
  <2>2. \A j : j \in Waiting(s) <=> <<s.resp, j>> \in s.ready
    BY <1>1, WaitingIs
  <2>3. \A j : <<s.resp, j>> = t <=> j = i
    OBVIOUS
  <2> HIDE DEF t
  <2> QED BY <1>7, <2>1, <2>2, <2>3
<1>10. \A j \in Nat : Answered(p, j) <=> Answered(s, j)
  BY <1>7, <1>9, NamesAssumption DEF Answered
<1>11. ASSUME NEW e, e.resp = p.resp, e.submitted = p.submitted, e.next = p.next,
              e.final = p.final, e.pending = p.pending, e.active = p.active,
              e.ready = p.ready, e.failed = p.failed, e.playing = p.playing,
              e.cancelled = p.cancelled, e.work = p.work, e.told = p.told,
              e.fate = p.fate \/ e.fate = [p.fate EXCEPT ![t] = "begun"]
       PROVE  Kept(e, U) /\ Filled(e) /\ Settled(e)
  <2>1. /\ Waiting(e) = Waiting(p)
        /\ \A j \in Nat : Answered(e, j) <=> Answered(s, j)
    BY <1>10, <1>11 DEF Waiting, Answered
  <2>2. \A x \in Threads : x # t => e.fate[x] = s.fate[x]
    BY <1>1, <1>7, <1>11, AppFields
  <2>3. \A j : j # i => <<s.resp, j>> # t
    OBVIOUS
  <2>4. t \in U
    BY <1>1, <1>5 DEF Known
  <2> HIDE DEF t
  <2>5. Placed(e)
    <3> SUFFICES ASSUME NEW j \in Nat, s.next <= j, j < s.submitted
                 PROVE  j \in s.pending \cup s.active \cup Waiting(p) \cup s.failed \/ j = i
      BY <1>7, <1>11, <2>1 DEF Placed
    <3>1. j \in s.pending \cup s.active \cup Waiting(s) \cup s.failed
      BY <1>1, NamesAssumption DEF Placed
    <3> QED BY <1>9, <3>1
  <2>6. Ordered(e)
    BY <1>1, <1>7, <1>9, <1>11, <2>1, Numbers DEF Ordered
  <2>7. Workers(e)
    <3>1. ASSUME NEW j \in s.active
          PROVE  IF s.work[<<s.resp, j>>] \in Owing
                 THEN ~Answered(s, j) /\ e.fate[<<s.resp, j>>] = "unheard"
                 ELSE Answered(s, j)
      <4>1. Answered(s, i) /\ (~Answered(s, j) => j # i)
        BY DEF Answered
      <4>2. <<s.resp, j>> \in Threads
        BY <3>1, Numbers
      <4> QED BY <1>1, <2>2, <2>3, <4>1, <4>2 DEF Workers
    <3>2. \A j \in s.active : j \in Nat
      BY Numbers
    <3> QED BY <1>1, <1>7, <1>11, <2>1, <3>1, <3>2 DEF Workers
  <2>8. Heard(e)
    <3>1. \A j \in Nat : j < s.next => <<s.resp, j>> \in Threads /\ j # i
      BY <1>5, Numbers
    <3>2. \A j \in s.failed : <<s.resp, j>> \in Threads /\ j # i
      BY <1>1, Numbers DEF Ordered
    <3>3. \A j \in s.pending : <<s.resp, j>> \in Threads /\ j # i
      BY <1>1, Numbers DEF Ordered
    <3>4. \A j \in Waiting(s) : <<s.resp, j>> \in Threads
      BY Numbers
    <3>5. \A j \in Nat : j < s.next => e.fate[<<s.resp, j>>] \in Over
      BY <1>1, <2>2, <2>3, <3>1 DEF Heard
    <3>6. \A j \in s.failed : e.fate[<<s.resp, j>>] \in Over
      BY <1>1, <2>2, <2>3, <3>2 DEF Heard
    <3>7. \A j \in s.pending : e.fate[<<s.resp, j>>] = "unheard"
      BY <1>1, <2>2, <2>3, <3>3 DEF Heard
    <3>8. \A j \in Waiting(p) : e.fate[<<s.resp, j>>] = "unheard"
      BY <1>1, <1>9, <2>2, <2>3, <3>4 DEF Heard
    <3>9. /\ e.resp = s.resp /\ e.next = s.next /\ e.failed = s.failed
          /\ e.pending = s.pending /\ Waiting(e) = Waiting(p)
      BY <1>7, <1>11, <2>1
    <3> QED BY <3>5, <3>6, <3>7, <3>8, <3>9 DEF Heard
  <2>9. Known(e, U)
    BY <1>1, <1>7, <1>11, <2>2, <2>4 DEF Known
  <2>10. e.playing # None
    BY <1>5, <1>7, <1>11
  <2> QED BY <2>5, <2>6, <2>7, <2>8, <2>9, <2>10 DEF Kept, Filled, Settled
<1>12. s.fate[t] = "unheard"
  BY <1>1 DEF Heard
<1>13. CASE ~OwnsOutput(s)
  <2> DEFINE e == Recover(p)
  <2>1. Play(s, i) = e
    BY <1>4, <1>13 DEF ReportError
  <2>2. /\ e.resp = p.resp /\ e.submitted = p.submitted /\ e.next = p.next
        /\ e.final = p.final /\ e.pending = p.pending /\ e.active = p.active
        /\ e.ready = p.ready /\ e.failed = p.failed /\ e.playing = p.playing
        /\ e.cancelled = p.cancelled /\ e.work = p.work /\ e.told = p.told
        /\ e.fate = p.fate /\ e.sound = p.sound
    BY <1>6 DEF App, Recover
  <2> HIDE DEF e
  <2>3. Kept(e, U) /\ Filled(e) /\ Settled(e)
    BY <1>11, <2>2
  <2>4. Follows(s, e)
    BY <1>7, <2>2 DEF Follows
  <2> QED BY <2>1, <2>3, <2>4
<1>14. CASE OwnsOutput(s) /\ s.sound # None
  <2> DEFINE q == [p EXCEPT !.callback = None]
  <2>1. Play(s, i) = PlaybackError(q)
    BY <1>4, <1>14
  <2>2. q \in App
    BY <1>6, AppUncalled
  <2>3. /\ q.resp = p.resp /\ q.submitted = p.submitted /\ q.next = p.next
        /\ q.final = p.final /\ q.pending = p.pending /\ q.active = p.active
        /\ q.ready = p.ready /\ q.failed = p.failed /\ q.playing = p.playing
        /\ q.cancelled = p.cancelled /\ q.work = p.work /\ q.told = p.told
        /\ q.fate = p.fate
    BY <1>6 DEF App
  <2> HIDE DEF q
  <2>4. Ranged(q) /\ Known(q, U)
    <3>1. Ranged(q)
      BY <1>8, <2>3, SameRanged
    <3>2. Known(q, U)
      BY <1>1, <1>7, <2>3 DEF Known
    <3> QED BY <3>1, <3>2
  <2>5. /\ Kept(PlaybackError(q), U) /\ Filled(PlaybackError(q)) /\ Settled(PlaybackError(q))
        /\ Follows(q, PlaybackError(q)) /\ PlaybackError(q).sound = None
    BY <2>2, <2>4, PlaybackErrorKept
  <2>6. Follows(s, PlaybackError(q))
    BY <1>7, <2>3, <2>5, ThreadNames DEF Follows
  <2> QED BY <2>1, <2>5, <2>6
<1>15. CASE OwnsOutput(s) /\ s.sound = None
  <2> DEFINE g == [p.fate EXCEPT ![t] = "begun"]
             e == [p EXCEPT !.sound = t, !.started = FALSE, !.callback = t, !.fate[t] = "begun"]
  <2>1. Play(s, i) = e
    BY <1>4, <1>15
  <2>2. /\ e.resp = p.resp /\ e.submitted = p.submitted /\ e.next = p.next
        /\ e.final = p.final /\ e.pending = p.pending /\ e.active = p.active
        /\ e.ready = p.ready /\ e.failed = p.failed /\ e.playing = p.playing
        /\ e.cancelled = p.cancelled /\ e.work = p.work /\ e.told = p.told
        /\ e.fate = g /\ e.sound = t
    BY <1>6 DEF App
  <2> HIDE DEF e
  <2>3. Kept(e, U) /\ Filled(e) /\ Settled(e)
    BY <1>11, <2>2
  <2>4. \A x \in Threads : e.fate[x] = IF x = t THEN "begun" ELSE s.fate[x]
    BY <1>1, <1>7, <2>2, AppFields
  <2>5. Follows(s, e)
    BY <1>7, <1>12, <2>2, <2>4 DEF Follows, Over
  <2> QED BY <2>1, <2>3, <2>5
<1> QED BY <1>13, <1>14, <1>15

LEMMA TryPlayKept ==
    ASSUME NEW s, Sound(s), NEW U, Kept(s, U), Filled(s)
    PROVE  /\ Kept(TryPlay(s), U) /\ Filled(TryPlay(s)) /\ Settled(TryPlay(s))
           /\ Follows(s, TryPlay(s))
<1> DEFINE n == FirstAlive(s)
           p == [s EXCEPT !.failed = @ \ (s.next..(n - 1)), !.next = n]
<1>1. /\ s \in App /\ Ranged(s) /\ Linked(s) /\ Owned(s)
      /\ Placed(s) /\ Ordered(s) /\ Workers(s) /\ Heard(s) /\ Known(s, U)
  BY DEF Sound, Kept
<1>2. CASE s.playing # None \/ s.resp = None
  <2>1. TryPlay(s) = s
    BY <1>2 DEF TryPlay
  <2>2. Settled(s)
    BY <1>2 DEF Settled
  <2>3. Follows(s, s)
    BY DEF Follows
  <2> QED BY <2>1, <2>2, <2>3
<1>3. CASE s.playing = None /\ s.resp # None
  <2>1. /\ n \in Nat /\ n \notin s.failed /\ s.next <= n /\ n <= s.submitted
        /\ \A j \in s.next..(n - 1) : j \in s.failed
    BY <1>1, FirstAliveEffect
  <2>2. TryPlay(s) = IF n \in Waiting(s) THEN Play(p, n) ELSE Finish(p)
    BY <1>3 DEF TryPlay
  <2> HIDE DEF n
  <2>3. p \in App
    <3>1. s.failed \ (s.next..(n - 1)) \in SUBSET Indices
      BY <1>1, AppFields
    <3> QED BY <1>1, <2>1, <3>1, AppPassed
  <2>4. /\ p.resp = s.resp /\ p.submitted = s.submitted /\ p.next = n
        /\ p.final = s.final /\ p.pending = s.pending /\ p.active = s.active
        /\ p.ready = s.ready /\ p.failed = s.failed \ (s.next..(n - 1))
        /\ p.playing = s.playing /\ p.sound = s.sound /\ p.callback = s.callback /\ p.started = s.started
        /\ p.robbed = s.robbed /\ p.op = s.op /\ p.state = s.state
        /\ p.cancelled = s.cancelled /\ p.work = s.work /\ p.fate = s.fate /\ p.told = s.told
    BY <1>1 DEF App
  <2> HIDE DEF p
  <2>5. Ranged(p)
    BY <1>1, <1>3, <2>1, <2>4 DEF Ranged
  <2>6. Linked(p) /\ Owned(p)
    BY <1>1, <2>4 DEF Linked, Owned, OwnsOutput
  <2>7. Sound(p)
    BY <2>3, <2>5, <2>6 DEF Sound
  <2>8. /\ Waiting(p) = Waiting(s) /\ s.next \in Nat
        /\ \A j \in Nat : s.next <= j /\ j < n => j \in s.failed
        /\ \A j \in s.pending \cup Waiting(s) \cup s.failed \cup s.active : j \in Nat
        /\ \A j \in s.failed : j \in p.failed <=> n <= j
    <3>1. Waiting(p) = Waiting(s)
      BY <2>4 DEF Waiting
    <3>2. s.next \in Nat /\ \A j \in s.pending \cup Waiting(s) \cup s.failed \cup s.active : j \in Nat
      BY Numbers
    <3>3. \A j \in Nat : s.next <= j /\ j < n => j \in s.next..(n - 1)
      BY <2>1, <3>2
    <3>4. \A j \in s.failed : s.next <= j
      BY <1>1 DEF Ordered
    <3> QED BY <2>1, <2>4, <3>1, <3>2, <3>3, <3>4
  <2>9. \A j \in Nat : Answered(p, j) <=> Answered(s, j)
    <3> SUFFICES ASSUME NEW j \in Nat PROVE Answered(p, j) <=> Answered(s, j)
      OBVIOUS
    <3>1. CASE j < s.next
      BY <2>1, <2>4, <2>8, <3>1 DEF Answered
    <3>2. CASE s.next <= j /\ j < n
      BY <2>4, <2>8, <3>2 DEF Answered
    <3>3. CASE n <= j
      BY <2>1, <2>4, <2>8, <3>3 DEF Answered
    <3> QED BY <2>1, <2>8, <3>1, <3>2, <3>3
  <2>10. Placed(p)
    <3> SUFFICES ASSUME NEW j \in Nat, n <= j, j < s.submitted
                 PROVE  j \in s.pending \cup s.active \cup Waiting(s) \cup p.failed
                        \/ s.playing = j
      BY <2>4, <2>8 DEF Placed
    <3> QED BY <1>1, <1>3, <2>1, <2>8 DEF Placed
  <2>11. Ordered(p)
    <3>1. \A j \in s.pending \cup Waiting(s) : j \notin s.failed
      BY <1>1, <2>8 DEF Ordered
    <3>2. \A j \in s.pending \cup Waiting(s) : n <= j
      BY <1>1, <2>1, <2>8, <3>1 DEF Ordered
    <3>3. \A j \in p.failed : n <= j /\ j \in s.failed
      BY <2>4, <2>8
    <3> QED BY <1>1, <2>4, <2>8, <3>2, <3>3 DEF Ordered
  <2>12. Workers(p)
    BY <1>1, <2>4, <2>8, <2>9 DEF Workers
  <2>13. Heard(p)
    BY <1>1, <2>1, <2>4, <2>8 DEF Heard
  <2>14. Known(p, U)
    BY <1>1, <2>4 DEF Known
  <2>15. Kept(p, U) /\ Filled(p)
    BY <2>4, <2>10, <2>11, <2>12, <2>13, <2>14 DEF Kept, Filled
  <2>16. CASE n \in Waiting(s)
    <3>1. /\ Kept(Play(p, n), U) /\ Filled(Play(p, n)) /\ Settled(Play(p, n))
          /\ Follows(p, Play(p, n))
      BY <1>3, <2>1, <2>4, <2>7, <2>8, <2>15, <2>16, PlayKept
    <3>2. Follows(s, Play(p, n))
      BY <2>4, <3>1 DEF Follows
    <3> QED BY <2>2, <2>16, <3>1, <3>2
  <2>17. CASE n \notin Waiting(s)
    <3>1. /\ Kept(Finish(p), U) /\ Filled(Finish(p)) /\ Settled(Finish(p))
          /\ Follows(p, Finish(p))
      BY <2>1, <2>4, <2>7, <2>8, <2>15, <2>17, FinishKept
    <3>2. Follows(s, Finish(p))
      BY <2>4, <3>1 DEF Follows
    <3> QED BY <2>2, <2>17, <3>1, <3>2
  <2> QED BY <2>16, <2>17
<1> QED BY <1>2, <1>3

\* A worker has posted its answer and the answer is taken.
Posted(a, t, w) == [a EXCEPT !.work[t] = w]

LEMMA PostedEffect ==
    ASSUME NEW a, Sound(a), NEW t \in Threads, NEW w \in WorkerPhases
    PROVE  /\ Sound(Posted(a, t, w)) /\ Posted(a, t, w).resp = a.resp
           /\ Posted(a, t, w).submitted = a.submitted /\ Posted(a, t, w).next = a.next
           /\ Posted(a, t, w).final = a.final /\ Posted(a, t, w).pending = a.pending
           /\ Posted(a, t, w).active = a.active /\ Posted(a, t, w).ready = a.ready
           /\ Posted(a, t, w).failed = a.failed /\ Posted(a, t, w).playing = a.playing
           /\ Posted(a, t, w).cancelled = a.cancelled /\ Posted(a, t, w).fate = a.fate
           /\ Posted(a, t, w).told = a.told /\ Posted(a, t, w).sound = a.sound
           /\ \A u \in Threads : Posted(a, t, w).work[u] = IF u = t THEN w ELSE a.work[u]
<1> DEFINE g == [a.work EXCEPT ![t] = w]
           e == Posted(a, t, w)
<1>1. a \in App /\ g \in [Threads -> WorkerPhases]
  BY AppFields DEF Sound
<1>2. \A u \in Threads : g[u] = IF u = t THEN w ELSE a.work[u]
  BY <1>1, AppFields
<1>3. e = [a EXCEPT !.work = g]
  BY DEF Posted
<1> HIDE DEF g, e
<1>4. e \in App
  BY <1>1, <1>3, AppWork
<1>5. /\ e.resp = a.resp /\ e.submitted = a.submitted /\ e.next = a.next
      /\ e.final = a.final /\ e.pending = a.pending /\ e.active = a.active
      /\ e.ready = a.ready /\ e.failed = a.failed /\ e.playing = a.playing
      /\ e.sound = a.sound /\ e.callback = a.callback /\ e.started = a.started
      /\ e.robbed = a.robbed /\ e.op = a.op /\ e.state = a.state
      /\ e.cancelled = a.cancelled /\ e.fate = a.fate /\ e.told = a.told
      /\ e.work = g
  BY <1>1, <1>3 DEF App
<1>6. Sound(e)
  BY <1>4, <1>5, SameSound
<1> QED BY <1>2, <1>5, <1>6 DEF e

\* The answer of a worker of another reply, or of one that was stopped.
LEMMA PostedKept ==
    ASSUME NEW a, Sound(a), NEW U, Kept(a, U), NEW t \in Threads, a.work[t] # "none",
           NEW w \in WorkerPhases, NEW e, e = Posted(a, t, w),
           a.resp = t[1] /\ t[2] \in a.active => (w \in Owing <=> a.work[t] \in Owing)
    PROVE  /\ Kept(e, U) /\ (Filled(a) => Filled(e)) /\ (Settled(a) => Settled(e))
           /\ Follows(a, e)
<1>1. /\ e.resp = a.resp /\ e.submitted = a.submitted /\ e.next = a.next
      /\ e.final = a.final /\ e.pending = a.pending /\ e.active = a.active
      /\ e.ready = a.ready /\ e.failed = a.failed /\ e.playing = a.playing
      /\ e.cancelled = a.cancelled /\ e.fate = a.fate /\ e.told = a.told /\ e.sound = a.sound
      /\ \A u \in Threads : e.work[u] = IF u = t THEN w ELSE a.work[u]
  BY PostedEffect
<1>2. Placed(a) /\ Ordered(a) /\ Workers(a) /\ Heard(a) /\ Known(a, U)
  BY DEF Kept
<1>3. Waiting(e) = Waiting(a) /\ \A i : Answered(e, i) <=> Answered(a, i)
  BY <1>1 DEF Waiting, Answered
<1>4. Placed(e) /\ Ordered(e)
  BY <1>1, <1>2, <1>3 DEF Placed, Ordered
<1>5. Heard(e)
  BY <1>1, <1>2, <1>3 DEF Heard
<1>6. Workers(e)
  <2>1. ASSUME NEW i \in a.active
        PROVE  e.work[<<a.resp, i>>] \in Owing <=> a.work[<<a.resp, i>>] \in Owing
    <3>1. a.resp # None
      BY Numbers DEF Ranged
    <3>2. <<a.resp, i>> \in Threads
      BY <3>1, Numbers
    <3> QED BY <1>1, <3>2
  <2> QED BY <1>1, <1>2, <1>3, <2>1 DEF Workers
<1>7. Known(e, U)
  BY <1>1, <1>2 DEF Known
<1>8. (Filled(a) => Filled(e)) /\ (Settled(a) => Settled(e))
  BY <1>1, <1>3 DEF Filled, Settled, Complete
<1>9. Follows(a, e)
  BY <1>1 DEF Follows
<1> QED BY <1>4, <1>5, <1>6, <1>7, <1>8, <1>9 DEF Kept

LEMMA AudioReadyKept ==
    ASSUME NEW a, Sound(a), NEW U, Kept(a, U), Filled(a), Settled(a),
           NEW t \in Threads, a.work[t] = "audio", NEW s, s = Posted(a, t, "finishing")
    PROVE  /\ Kept(AudioReady(s, t), U) /\ Filled(AudioReady(s, t))
           /\ Settled(AudioReady(s, t)) /\ Follows(a, AudioReady(s, t))
<1> DEFINE i == t[2]
           w == "finishing"
           p == [s EXCEPT !.ready = @ \cup {t}]
<1>1. w \in WorkerPhases /\ w \notin Owing /\ a.work[t] \in Owing /\ a.work[t] # "none"
      /\ s = Posted(a, t, w)
  BY DEF WorkerPhases, Owing
<1>2. /\ Sound(s) /\ s.resp = a.resp /\ s.submitted = a.submitted /\ s.next = a.next
      /\ s.final = a.final /\ s.pending = a.pending /\ s.active = a.active
      /\ s.ready = a.ready /\ s.failed = a.failed /\ s.playing = a.playing
      /\ s.cancelled = a.cancelled /\ s.fate = a.fate /\ s.told = a.told /\ s.sound = a.sound
      /\ \A u \in Threads : s.work[u] = IF u = t THEN w ELSE a.work[u]
  BY <1>1, PostedEffect
<1> HIDE DEF w
<1>3. Placed(a) /\ Ordered(a) /\ Workers(a) /\ Heard(a) /\ Known(a, U)
  BY DEF Kept
<1>4. t = <<t[1], i>> /\ i \in Nat /\ i \in Indices
  BY ThreadNames
<1>5. CASE ~(a.resp = t[1] /\ i \in a.active)
  <2>1. AudioReady(s, t) = s
    BY <1>2, <1>5 DEF AudioReady, Accepts
  <2> QED BY <1>1, <1>5, <2>1, PostedKept
<1>6. CASE a.resp = t[1] /\ i \in a.active
  <2>1. ~Answered(a, i) /\ a.fate[t] = "unheard" /\ t \notin a.cancelled
    BY <1>1, <1>3, <1>4, <1>6 DEF Workers
  <2>2. /\ a.next <= i /\ i \notin Waiting(a) /\ i \notin a.failed /\ a.playing # i
        /\ i < a.submitted /\ a.resp # None /\ a.next \in Nat
    BY <1>4, <1>6, <2>1, Numbers, ThreadNames DEF Answered
  <2>3. AudioReady(s, t) = TryPlay(p)
    BY <1>2, <1>6, <2>1, <2>2 DEF AudioReady, Accepts
  <2>4. s \in App /\ Ranged(s) /\ Linked(s) /\ Owned(s)
    BY <1>2 DEF Sound
  <2>5. p \in App
    <3>1. s.ready \cup {t} \in SUBSET Threads
      BY <2>4, AppFields
    <3> QED BY <2>4, <3>1, AppReady
  <2>6. /\ p.resp = s.resp /\ p.submitted = s.submitted /\ p.next = s.next
        /\ p.final = s.final /\ p.pending = s.pending /\ p.active = s.active
        /\ p.ready = s.ready \cup {t} /\ p.failed = s.failed
        /\ p.playing = s.playing /\ p.sound = s.sound /\ p.callback = s.callback /\ p.started = s.started
        /\ p.robbed = s.robbed /\ p.op = s.op /\ p.state = s.state
        /\ p.cancelled = s.cancelled /\ p.work = s.work /\ p.fate = s.fate /\ p.told = s.told
    BY <2>4 DEF App
  <2> HIDE DEF p
  <2>7. Ranged(p)
    BY <1>2, <1>6, <2>2, <2>4, <2>6 DEF Ranged
  <2>8. Linked(p) /\ Owned(p)
    BY <2>4, <2>6 DEF Linked, Owned, OwnsOutput
  <2>9. Sound(p)
    BY <2>5, <2>7, <2>8 DEF Sound
  <2>10. \A j : j \in Waiting(p) <=> j \in Waiting(a) \/ j = i
    <3>1. \A j : j \in Waiting(p) <=> <<p.resp, j>> \in p.ready
      BY <2>5, <2>7, WaitingIs
    <3>2. \A j : j \in Waiting(a) <=> <<a.resp, j>> \in a.ready
      BY WaitingIs DEF Sound
    <3>3. \A j : <<a.resp, j>> = t <=> j = i
      BY <1>4, <1>6
    <3>4. p.resp = a.resp /\ p.ready = a.ready \cup {t}
      BY <1>2, <2>6
    <3> HIDE DEF i
    <3> QED BY <3>1, <3>2, <3>3, <3>4
  <2>11. \A j : j # i => (Answered(p, j) <=> Answered(a, j))
    BY <1>2, <2>6, <2>10 DEF Answered
  <2>12. Answered(p, i)
    BY <2>10 DEF Answered
  <2>13. Placed(p)
    BY <1>2, <1>3, <2>6, <2>10 DEF Placed
  <2>14. Ordered(p)
    BY <1>2, <1>3, <1>6, <2>2, <2>6, <2>10 DEF Ordered
  <2>15. Workers(p)
    <3>1. ASSUME NEW j \in a.active
          PROVE  IF p.work[<<a.resp, j>>] \in Owing
                 THEN ~Answered(p, j) /\ a.fate[<<a.resp, j>>] = "unheard"
                 ELSE Answered(p, j)
      <4>1. <<a.resp, j>> \in Threads
        BY <2>2, Numbers
      <4>2. CASE j = i
        BY <1>1, <1>2, <1>4, <1>6, <2>6, <2>12, <4>2
      <4>3. CASE j # i
        <5>1. <<a.resp, j>> # t
          BY <1>4, <4>3
        <5>2. p.work[<<a.resp, j>>] = a.work[<<a.resp, j>>]
          BY <1>2, <2>6, <4>1, <5>1
        <5> QED BY <1>3, <2>11, <4>3, <5>2 DEF Workers
      <4> QED BY <4>2, <4>3
    <3> QED BY <1>2, <1>3, <2>6, <3>1 DEF Workers
  <2>16. Heard(p)
    BY <1>2, <1>3, <1>4, <1>6, <2>1, <2>6, <2>10 DEF Heard
  <2>17. Known(p, U)
    BY <1>1, <1>2, <1>3, <2>6 DEF Known
  <2>18. Kept(p, U) /\ Filled(p)
    BY <1>2, <2>6, <2>13, <2>14, <2>15, <2>16, <2>17 DEF Kept, Filled
  <2>19. /\ Kept(TryPlay(p), U) /\ Filled(TryPlay(p)) /\ Settled(TryPlay(p))
         /\ Follows(p, TryPlay(p))
    BY <2>9, <2>18, TryPlayKept
  <2>20. Follows(a, TryPlay(p))
    BY <1>2, <2>6, <2>19 DEF Follows
  <2> QED BY <2>3, <2>19, <2>20
<1> QED BY <1>5, <1>6

LEMMA SynthesisFailedKept ==
    ASSUME NEW a, Sound(a), NEW U, Kept(a, U), Filled(a), Settled(a),
           NEW t \in Threads, a.work[t] = "failure", NEW s, s = Posted(a, t, "finishing")
    PROVE  /\ Kept(SynthesisFailed(s, t), U) /\ Filled(SynthesisFailed(s, t))
           /\ Settled(SynthesisFailed(s, t)) /\ Follows(a, SynthesisFailed(s, t))
<1> DEFINE i == t[2]
           w == "finishing"
           f == [s.fate EXCEPT ![t] = "failed"]
           p == [s EXCEPT !.failed = @ \cup {t[2]}, !.fate[t] = "failed"]
<1>1. w \in WorkerPhases /\ w \notin Owing /\ a.work[t] \in Owing /\ a.work[t] # "none"
      /\ s = Posted(a, t, w)
  BY DEF WorkerPhases, Owing
<1>2. /\ Sound(s) /\ s.resp = a.resp /\ s.submitted = a.submitted /\ s.next = a.next
      /\ s.final = a.final /\ s.pending = a.pending /\ s.active = a.active
      /\ s.ready = a.ready /\ s.failed = a.failed /\ s.playing = a.playing
      /\ s.cancelled = a.cancelled /\ s.fate = a.fate /\ s.told = a.told /\ s.sound = a.sound
      /\ \A u \in Threads : s.work[u] = IF u = t THEN w ELSE a.work[u]
  BY <1>1, PostedEffect
<1> HIDE DEF w
<1>3. Placed(a) /\ Ordered(a) /\ Workers(a) /\ Heard(a) /\ Known(a, U)
  BY DEF Kept
<1>4. t = <<t[1], i>> /\ i \in Nat /\ i \in Indices
  BY ThreadNames
<1>5. CASE ~(a.resp = t[1] /\ i \in a.active)
  <2>1. SynthesisFailed(s, t) = s
    BY <1>2, <1>5 DEF SynthesisFailed, Accepts
  <2> QED BY <1>1, <1>5, <2>1, PostedKept
<1>6. CASE a.resp = t[1] /\ i \in a.active
  <2>1. ~Answered(a, i) /\ a.fate[t] = "unheard" /\ t \notin a.cancelled
    BY <1>1, <1>3, <1>4, <1>6 DEF Workers
  <2>2. /\ a.next <= i /\ i \notin Waiting(a) /\ i \notin a.failed /\ a.playing # i
        /\ i < a.submitted /\ a.resp # None /\ a.next \in Nat
    BY <1>4, <1>6, <2>1, Numbers, ThreadNames DEF Answered
  <2>3. SynthesisFailed(s, t) = TryPlay(p)
    BY <1>2, <1>4, <1>6, <2>1, <2>2 DEF SynthesisFailed, Accepts
  <2>4. s \in App /\ Ranged(s) /\ Linked(s) /\ Owned(s)
    BY <1>2 DEF Sound
  <2>5. p \in App
    <3>1. s.failed \cup {i} \in SUBSET Indices
      BY <1>4, <2>4, AppFields
    <3>2. f \in [Threads -> {"unheard", "begun", "ended", "failed"}]
      BY <2>4, AppFields
    <3>3. p = [s EXCEPT !.failed = s.failed \cup {i}, !.fate = f]
      OBVIOUS
    <3> HIDE DEF p, f
    <3> QED BY <2>4, <3>1, <3>2, <3>3, AppFailed
  <2>6. /\ p.resp = s.resp /\ p.submitted = s.submitted /\ p.next = s.next
        /\ p.final = s.final /\ p.pending = s.pending /\ p.active = s.active
        /\ p.ready = s.ready /\ p.failed = s.failed \cup {i}
        /\ p.playing = s.playing /\ p.sound = s.sound /\ p.callback = s.callback /\ p.started = s.started
        /\ p.robbed = s.robbed /\ p.op = s.op /\ p.state = s.state
        /\ p.cancelled = s.cancelled /\ p.work = s.work /\ p.fate = f /\ p.told = s.told
    BY <2>4 DEF App
  <2> HIDE DEF p
  <2>7. Ranged(p)
    BY <1>2, <1>6, <2>2, <2>4, <2>6 DEF Ranged
  <2>8. Linked(p) /\ Owned(p)
    BY <2>4, <2>6 DEF Linked, Owned, OwnsOutput
  <2>9. Sound(p)
    BY <2>5, <2>7, <2>8 DEF Sound
  <2>10. Waiting(p) = Waiting(a)
    BY <1>2, <2>6 DEF Waiting
  <2>11. \A j : j # i => (Answered(p, j) <=> Answered(a, j))
    BY <1>2, <2>6, <2>10 DEF Answered
  <2>12. Answered(p, i)
    BY <2>6 DEF Answered
  <2>13. Placed(p)
    BY <1>2, <1>3, <2>6, <2>10 DEF Placed
  <2>14. Ordered(p)
    BY <1>2, <1>3, <1>6, <2>2, <2>6, <2>10 DEF Ordered
  <2>15. \A u \in Threads : p.fate[u] = IF u = t THEN "failed" ELSE a.fate[u]
    BY <1>2, <2>4, <2>6, AppFields
  <2>16. \A j : j # i => <<a.resp, j>> # t
    BY <1>4
  <2>17. Workers(p)
    <3>1. ASSUME NEW j \in a.active
          PROVE  IF p.work[<<a.resp, j>>] \in Owing
                 THEN ~Answered(p, j) /\ p.fate[<<a.resp, j>>] = "unheard"
                 ELSE Answered(p, j)
      <4>1. <<a.resp, j>> \in Threads
        BY <2>2, Numbers
      <4>2. CASE j = i
        BY <1>1, <1>2, <1>4, <1>6, <2>6, <2>12, <4>2
      <4>3. CASE j # i
        <5>1. <<a.resp, j>> # t
          BY <2>16, <4>3
        <5>2. p.work[<<a.resp, j>>] = a.work[<<a.resp, j>>]
              /\ p.fate[<<a.resp, j>>] = a.fate[<<a.resp, j>>]
          BY <1>2, <2>6, <2>15, <4>1, <5>1
        <5> QED BY <1>3, <2>11, <4>3, <5>2 DEF Workers
      <4> QED BY <4>2, <4>3
    <3> QED BY <1>2, <1>3, <2>6, <3>1 DEF Workers
  <2>18. Heard(p)
    <3>1. \A j \in Nat : j < a.next => <<a.resp, j>> \in Threads /\ j # i
      BY <2>2, Numbers
    <3>2. \A j \in a.failed \cup a.pending \cup Waiting(a) : <<a.resp, j>> \in Threads
      BY <2>2, Numbers
    <3>3. \A j \in a.pending : j # i
      BY <1>3, <1>4, <1>6 DEF Ordered
    <3>4. \A j \in Nat : j < a.next => p.fate[<<a.resp, j>>] \in Over
      BY <1>3, <2>2, <2>15, <2>16, <3>1 DEF Heard
    <3>5. \A j \in a.failed \cup {i} : p.fate[<<a.resp, j>>] \in Over
      <4>1. p.fate[<<a.resp, i>>] = "failed"
        BY <1>4, <1>6, <2>15
      <4>2. \A j \in a.failed : j # i => p.fate[<<a.resp, j>>] \in Over
        BY <1>3, <2>2, <2>15, <2>16, <3>2 DEF Heard
      <4> QED BY <4>1, <4>2 DEF Over
    <3>6. \A j \in a.pending \cup Waiting(a) : p.fate[<<a.resp, j>>] = "unheard"
      BY <1>3, <2>2, <2>15, <2>16, <3>2, <3>3 DEF Heard
    <3>7. /\ p.resp = a.resp /\ p.next = a.next /\ p.failed = a.failed \cup {i}
          /\ p.pending = a.pending
      BY <1>2, <2>6
    <3> QED BY <2>10, <3>4, <3>5, <3>6, <3>7 DEF Heard
  <2>19. Known(p, U)
    <3>1. t \in U
      BY <1>1, <1>3 DEF Known
    <3> QED BY <1>1, <1>2, <1>3, <2>6, <2>15, <3>1 DEF Known
  <2>20. Kept(p, U) /\ Filled(p)
    BY <1>2, <2>6, <2>13, <2>14, <2>17, <2>18, <2>19 DEF Kept, Filled
  <2>21. /\ Kept(TryPlay(p), U) /\ Filled(TryPlay(p)) /\ Settled(TryPlay(p))
         /\ Follows(p, TryPlay(p))
    BY <2>9, <2>20, TryPlayKept
  <2>22. Follows(a, p)
    BY <1>2, <2>1, <2>6, <2>15 DEF Follows, Over
  <2>23. Follows(a, TryPlay(p))
    BY <2>21, <2>22, FollowsTransitive
  <2> QED BY <2>3, <2>21, <2>23
<1> QED BY <1>5, <1>6

\* The slot of a worker that ended is filled, and what it was the last to keep
\* waiting is played or finished.
LEMMA ThreadFinishedKept ==
    ASSUME NEW a, Sound(a), NEW U, Kept(a, U),
           NEW t \in Threads, a.work[t] = "finishing", NEW s, s = Posted(a, t, "gone")
    PROVE  /\ Kept(ThreadFinished(s, t), U) /\ Filled(ThreadFinished(s, t))
           /\ Settled(ThreadFinished(s, t)) /\ Follows(a, ThreadFinished(s, t))
<1> DEFINE w == "gone"
           active == IF s.resp = t[1] THEN s.active \ {t[2]} ELSE s.active
           p == [s EXCEPT !.active = active, !.cancelled = @ \ {t}]
<1>1. w \in WorkerPhases /\ w \notin Owing /\ a.work[t] \notin Owing /\ a.work[t] # "none"
      /\ s = Posted(a, t, w)
  BY DEF WorkerPhases, Owing
<1>2. /\ Sound(s) /\ s.resp = a.resp /\ s.submitted = a.submitted /\ s.next = a.next
      /\ s.final = a.final /\ s.pending = a.pending /\ s.active = a.active
      /\ s.ready = a.ready /\ s.failed = a.failed /\ s.playing = a.playing
      /\ s.cancelled = a.cancelled /\ s.fate = a.fate /\ s.told = a.told /\ s.sound = a.sound
  BY <1>1, PostedEffect
<1>3. Kept(s, U) /\ Follows(a, s)
  BY <1>1, PostedKept
<1> HIDE DEF w
<1>4. s \in App /\ Ranged(s) /\ Linked(s) /\ Owned(s)
  BY <1>2 DEF Sound
<1>5. Placed(s) /\ Ordered(s) /\ Workers(s) /\ Heard(s) /\ Known(s, U)
  BY <1>3 DEF Kept
<1>6. /\ active \subseteq s.active
      /\ \A i \in s.active : i \notin active => Answered(s, i)
  <2>1. s.work[t] = w
    BY <1>1, PostedEffect
  <2>2. ASSUME s.resp = t[1], t[2] \in s.active PROVE Answered(s, t[2])
    <3>1. t = <<s.resp, t[2]>>
      BY <2>2, ThreadNames
    <3> QED BY <1>1, <1>5, <2>1, <2>2, <3>1 DEF Workers
  <2> QED BY <2>2
<1>7. ThreadFinished(s, t) = Finish(TryPlay(Fill(p)))
  BY DEF ThreadFinished
<1> HIDE DEF active
<1>8. p \in App
  <2>1. active \in SUBSET Indices /\ s.cancelled \ {t} \in SUBSET Threads
    BY <1>4, <1>6, AppFields
  <2> QED BY <1>4, <2>1, AppEnded
<1>9. /\ p.resp = s.resp /\ p.submitted = s.submitted /\ p.next = s.next
      /\ p.final = s.final /\ p.pending = s.pending /\ p.active = active
      /\ p.ready = s.ready /\ p.failed = s.failed
      /\ p.playing = s.playing /\ p.sound = s.sound /\ p.callback = s.callback /\ p.started = s.started
      /\ p.robbed = s.robbed /\ p.op = s.op /\ p.state = s.state
      /\ p.cancelled = s.cancelled \ {t} /\ p.work = s.work /\ p.fate = s.fate /\ p.told = s.told
  BY <1>4 DEF App
<1> HIDE DEF p
<1>10. Sound(p)
  <2>1. Ranged(p)
    BY <1>4, <1>6, <1>9 DEF Ranged
  <2>2. Linked(p) /\ Owned(p)
    BY <1>4, <1>9 DEF Linked, Owned, OwnsOutput
  <2> QED BY <1>8, <2>1, <2>2 DEF Sound
<1>11. Waiting(p) = Waiting(s) /\ \A i : Answered(p, i) <=> Answered(s, i)
  BY <1>9 DEF Waiting, Answered
<1>12. Kept(p, U)
  <2>1. Placed(p)
    <3> SUFFICES ASSUME s.resp # None, NEW i \in Nat, s.next <= i, i < s.submitted
                 PROVE  i \in s.pending \cup active \cup Waiting(s) \cup s.failed \/ s.playing = i
      BY <1>9, <1>11 DEF Placed
    <3>1. i \in s.pending \cup s.active \cup Waiting(s) \cup s.failed \/ s.playing = i
      BY <1>5 DEF Placed
    <3>2. Answered(s, i) => i \in Waiting(s) \cup s.failed \/ s.playing = i
      BY Numbers, <1>2 DEF Answered
    <3> QED BY <1>6, <3>1, <3>2
  <2>2. Ordered(p)
    BY <1>5, <1>6, <1>9, <1>11 DEF Ordered
  <2>3. Workers(p)
    BY <1>5, <1>6, <1>9, <1>11 DEF Workers
  <2>4. Heard(p)
    BY <1>5, <1>9, <1>11 DEF Heard
  <2>5. Known(p, U)
    BY <1>5, <1>9 DEF Known
  <2> QED BY <2>1, <2>2, <2>3, <2>4, <2>5 DEF Kept
<1>13. Follows(a, p)
  BY <1>3, <1>9 DEF Follows
<1>14. /\ Sound(Fill(p)) /\ Kept(Fill(p), U) /\ Filled(Fill(p)) /\ Follows(p, Fill(p))
  BY <1>10, <1>12, FillKept, FillSound
<1> DEFINE q == TryPlay(Fill(p))
<1>15. /\ Sound(q) /\ Kept(q, U) /\ Filled(q) /\ Settled(q) /\ Follows(Fill(p), q)
  BY <1>14, TryPlayKept, TryPlaySound
<1> HIDE DEF q
<1>16. /\ Kept(Finish(q), U) /\ Filled(Finish(q)) /\ Settled(Finish(q))
       /\ Follows(q, Finish(q))
  BY <1>15, FinishKept DEF Settled
<1>17. Follows(a, Finish(q))
  <2>1. Follows(a, Fill(p))
    BY <1>13, <1>14, FollowsTransitive
  <2>2. Follows(a, q)
    BY <1>15, <2>1, FollowsTransitive
  <2> QED BY <1>16, <2>2, FollowsTransitive
<1> QED BY <1>7, <1>16, <1>17 DEF q

LEMMA PlaybackFinishedKept ==
    ASSUME NEW a, Sound(a), NEW U, Kept(a, U),
           NEW t \in Threads, a.resp = t[1], a.playing = t[2],
           NEW s \in App, Ranged(s), Owned(s), s.sound = None, s.callback = None, ~s.started,
           s.resp = a.resp, s.submitted = a.submitted, s.next = a.next,
           s.final = a.final, s.pending = a.pending, s.active = a.active,
           s.ready = a.ready, s.failed = a.failed, s.playing = a.playing,
           s.cancelled = a.cancelled, s.work = a.work, s.told = a.told,
           s.fate = [a.fate EXCEPT ![t] = "ended"]
    PROVE  /\ Kept(PlaybackFinished(s, t), U) /\ Filled(PlaybackFinished(s, t))
           /\ Settled(PlaybackFinished(s, t)) /\ Follows(a, PlaybackFinished(s, t))
<1> DEFINE i == t[2]
           p == [s EXCEPT !.played = @ \cup {t[2]}, !.playing = None, !.next = @ + 1]
<1>1. /\ t[1] \in Responses /\ i \in Nat /\ i \in Indices /\ i # None
      /\ s.resp # None /\ i = s.next /\ s.next < s.submitted /\ s.next \in Nat
      /\ s.submitted \in Nat /\ t = <<s.resp, i>>
  BY ThreadNames, AppFields DEF Ranged
<1>2. PlaybackFinished(s, t) = TryPlay(Fill(p))
  BY <1>1 DEF PlaybackFinished
<1>3. p \in App
  <2>1. s.played \cup {i} \in SUBSET Indices /\ s.next + 1 \in Nat
    BY <1>1, AppFields
  <2>2. p = [s EXCEPT !.played = s.played \cup {i}, !.playing = None,
                      !.next = s.next + 1]
    OBVIOUS
  <2> HIDE DEF p
  <2> QED BY <2>1, <2>2, AppPlayed
<1>4. /\ p.resp = s.resp /\ p.submitted = s.submitted /\ p.next = s.next + 1
      /\ p.final = s.final /\ p.pending = s.pending /\ p.active = s.active
      /\ p.ready = s.ready /\ p.failed = s.failed
      /\ p.playing = None /\ p.sound = None /\ p.callback = None /\ p.started = s.started
      /\ p.robbed = s.robbed /\ p.op = s.op /\ p.state = s.state
      /\ p.cancelled = s.cancelled /\ p.work = s.work /\ p.fate = s.fate /\ p.told = s.told
  BY DEF App
<1> HIDE DEF p
<1>5. Sound(p)
  <2>1. Ranged(p)
    BY <1>1, <1>4 DEF Ranged
  <2>2. Linked(p) /\ Owned(p)
    BY <1>1, <1>4, ThreadNames DEF Linked, Owned, OwnsOutput
  <2> QED BY <1>3, <2>1, <2>2 DEF Sound
<1>6. Placed(a) /\ Ordered(a) /\ Workers(a) /\ Heard(a) /\ Known(a, U)
  BY DEF Kept
<1>7. Waiting(p) = Waiting(a)
  BY <1>4 DEF Waiting
<1>8. /\ \A j \in a.pending \cup a.active \cup Waiting(a) \cup a.failed : j \in Nat
                                                   /\ <<a.resp, j>> \in Threads
      /\ \A j \in Nat : j < a.next + 1 => <<a.resp, j>> \in Threads
  BY <1>1, Numbers
<1>9. \A j \in Nat : Answered(p, j) <=> Answered(a, j)
  BY <1>1, <1>4, <1>7, NamesAssumption DEF Answered
<1>10. \A u \in Threads : p.fate[u] = IF u = t THEN "ended" ELSE a.fate[u]
  BY <1>4, AppFields DEF Sound
<1>11. \A j : j # i => <<a.resp, j>> # t
  BY <1>1
<1>12. Placed(p)
  BY <1>1, <1>4, <1>6, <1>7 DEF Placed
<1>13. Ordered(p)
  <2>1. \A j \in a.pending \cup Waiting(a) \cup a.failed : a.next + 1 <= j /\ j # None
    <3> SUFFICES ASSUME NEW j \in a.pending \cup Waiting(a) \cup a.failed
                 PROVE  a.next + 1 <= j /\ j # None
      OBVIOUS
    <3>1. j \in Nat /\ a.next \in Nat
      BY <1>1, <1>8
    <3>2. a.next <= j /\ j # a.next
      BY <1>1, <1>6 DEF Ordered
    <3> QED BY <3>1, <3>2, NamesAssumption
  <2> QED BY <1>4, <1>6, <1>7, <2>1 DEF Ordered
<1>14. Workers(p)
  <2>1. ASSUME NEW j \in a.active
        PROVE  IF a.work[<<a.resp, j>>] \in Owing
               THEN ~Answered(a, j) /\ p.fate[<<a.resp, j>>] = "unheard"
               ELSE Answered(a, j)
    <3>1. Answered(a, i)
      BY DEF Answered
    <3>2. ~Answered(a, j) => j # i
      BY <3>1
    <3> QED BY <1>6, <1>8, <1>10, <1>11, <3>2 DEF Workers
  <2> QED BY <1>4, <1>6, <1>8, <1>9, <2>1 DEF Workers
<1>15. Heard(p)
  <2>1. \A j \in Nat : j < a.next + 1 => p.fate[<<a.resp, j>>] \in Over
    <3>1. p.fate[<<a.resp, i>>] = "ended"
      BY <1>1, <1>10
    <3>2. \A j \in Nat : j < a.next + 1 => j = i \/ j < a.next
      BY <1>1
    <3>3. \A j \in Nat : j < a.next /\ j # i => p.fate[<<a.resp, j>>] \in Over
      BY <1>1, <1>6, <1>8, <1>10, <1>11 DEF Heard
    <3>4. "ended" \in Over
      BY DEF Over
    <3> QED BY <1>1, <3>1, <3>2, <3>3, <3>4
  <2>2. \A j \in a.pending \cup Waiting(a) \cup a.failed : j # i
    BY <1>6 DEF Ordered
  <2>3. \A j \in a.failed : p.fate[<<a.resp, j>>] \in Over
    BY <1>1, <1>6, <1>8, <1>10, <1>11, <2>2 DEF Heard
  <2>4. \A j \in a.pending \cup Waiting(a) : p.fate[<<a.resp, j>>] = "unheard"
    BY <1>1, <1>6, <1>8, <1>10, <1>11, <2>2 DEF Heard
  <2>5. p.resp = a.resp /\ p.next = a.next + 1 /\ p.failed = a.failed /\ p.pending = a.pending
    BY <1>4
  <2> QED BY <1>7, <2>1, <2>3, <2>4, <2>5 DEF Heard
<1>16. Known(p, U)
  <2>1. t \in U
    BY <1>1, <1>6 DEF Known
  <2> QED BY <1>4, <1>6, <1>10, <2>1 DEF Known
<1>17. Kept(p, U)
  BY <1>12, <1>13, <1>14, <1>15, <1>16 DEF Kept
<1>18. Follows(a, p)
  <2>1. \A u \in Threads : p.fate[u] = "unheard" => a.fate[u] = "unheard"
    BY <1>10
  <2>2. \A u \in Threads : a.fate[u] \in Over => p.fate[u] \in Over
    BY <1>10 DEF Over
  <2> QED BY <1>4, <2>1, <2>2, ThreadNames DEF Follows
<1>19. /\ Sound(Fill(p)) /\ Kept(Fill(p), U) /\ Filled(Fill(p)) /\ Follows(p, Fill(p))
  BY <1>5, <1>17, FillKept, FillSound
<1> DEFINE q == TryPlay(Fill(p))
<1>20. /\ Kept(q, U) /\ Filled(q) /\ Settled(q) /\ Follows(Fill(p), q)
  BY <1>19, TryPlayKept
<1> HIDE DEF q
<1>21. Follows(a, q)
  <2>1. Follows(a, Fill(p))
    BY <1>18, <1>19, FollowsTransitive
  <2> QED BY <1>20, <2>1, FollowsTransitive
<1> QED BY <1>2, <1>20, <1>21 DEF q

\* Beginning a reply: nothing is held yet, and nothing was heard of it.
LEMMA StartKept ==
    ASSUME NEW s, Sound(s), NEW U, Kept(s, U), Filled(s), Settled(s),
           NEW r \in Responses, NEW i \in Nat, i < Length[r],
           i = 0 => \A j \in Nat : <<r, j>> \in Threads => <<r, j>> \notin U
    PROVE  LET e == Start(s, r, i) IN
           /\ e.fate = s.fate /\ e.told = s.told /\ e.sound = s.sound
           /\ e = s \/ (/\ i = 0 /\ s.resp = None /\ e.resp = r /\ e.final = None)
           /\ Known(e, U \cup {<<r, i>>}) /\ Kept(e, U \cup {<<r, i>>})
           /\ Filled(e) /\ Settled(e)
           /\ e.enabled = s.enabled
<1> DEFINE V == U \cup {<<r, i>>}
           e == Start(s, r, i)
           p == [s EXCEPT !.resp = r, !.state = "THINKING", !.op = "output"]
<1>1. s \in App /\ Ranged(s) /\ Known(s, U)
      /\ Placed(s) /\ Ordered(s) /\ Workers(s) /\ Heard(s)
  BY DEF Sound, Kept
<1>2. CASE ~(s.resp = None /\ i = 0 /\ Free(s))
  <2>1. e = s
    BY <1>2 DEF Start
  <2>2. Known(s, V)
    BY <1>1 DEF Known
  <2> HIDE DEF e, V
  <2>3. Kept(s, V)
    BY <1>1, <2>2 DEF Kept
  <2> QED BY <2>1, <2>2, <2>3 DEF e, V
<1>3. CASE s.resp = None /\ i = 0 /\ Free(s)
  <2>1. e = p
    BY <1>3 DEF Start
  <2>2. /\ p.resp = r /\ p.submitted = s.submitted /\ p.next = s.next
        /\ p.final = s.final /\ p.pending = s.pending /\ p.active = s.active
        /\ p.ready = s.ready /\ p.failed = s.failed /\ p.playing = s.playing
        /\ p.cancelled = s.cancelled /\ p.work = s.work /\ p.fate = s.fate
        /\ p.told = s.told /\ p.sound = s.sound /\ p.enabled = s.enabled
    BY <1>1 DEF App
  <2> HIDE DEF p
  <2>3. /\ s.submitted = 0 /\ s.next = 0 /\ s.final = None /\ s.playing = None
        /\ s.pending = {} /\ s.active = {} /\ s.ready = {} /\ s.failed = {}
    BY <1>1, <1>3 DEF Ranged
  <2>4. Waiting(p) = {}
    BY <2>2, <2>3 DEF Waiting
  <2>5. Placed(p) /\ Ordered(p) /\ Heard(p) /\ Filled(p) /\ Settled(p)
    BY <2>2, <2>3, <2>4 DEF Placed, Ordered, Heard, Filled, Settled, Complete
  <2>6. <<r, 0>> \in Threads /\ <<r, 0>> \notin U
    BY <1>3, ThreadNames
  <2>7. \A t \in s.cancelled : t[1] # r
    <3> SUFFICES ASSUME NEW t \in s.cancelled, t[1] = r PROVE FALSE
      OBVIOUS
    <3>1. t \in Threads /\ t = <<r, t[2]>> /\ t[2] \in Nat
      BY <1>1, AppFields, ThreadNames
    <3>2. t \notin U
      BY <1>3, <3>1
    <3> QED BY <1>1, <3>1, <3>2 DEF Known
  <2>8. Workers(p)
    BY <2>2, <2>3, <2>7 DEF Workers
  <2>9. Known(p, V)
    <3>1. s.told[r] = 0
      BY <1>1, <2>6 DEF Known
    <3>2. <<r, 0>> \in V
      BY <1>3
    <3>3. \A q \in Responses : <<q, 0>> \notin V => q # r /\ <<q, 0>> \notin U
      BY <3>2
    <3>4. \A t \in Threads : t \notin V => t \notin U
      OBVIOUS
    <3>5. ~(\E j \in Nat : j < p.submitted)
      BY <2>2, <2>3
    <3> HIDE DEF V
    <3> QED BY <1>1, <2>2, <3>1, <3>3, <3>4, <3>5 DEF Known
  <2> HIDE DEF V, e
  <2>10. Kept(p, V)
    BY <2>5, <2>8, <2>9 DEF Kept
  <2> QED BY <1>3, <2>1, <2>2, <2>3, <2>5, <2>9, <2>10 DEF V, e
<1> QED BY <1>2, <1>3

\* Of one segment more something may be heard.
LEMMA KnownMore ==
    ASSUME NEW s, NEW U, NEW V, Kept(s, U), U \subseteq V
    PROVE  Kept(s, V)
  BY DEF Kept, Known

\* A segment is queued behind all others, before anything was heard of it.
LEMMA SubmitKept ==
    ASSUME NEW s, Sound(s), NEW U, Kept(s, U), Filled(s), Settled(s),
           NEW r \in Responses, NEW i \in Nat, i < Length[r], NEW last \in BOOLEAN,
           \A j \in Nat : <<r, j>> \in U => j < i,
           NEW e, e = Submit(s, r, i, last)
    PROVE  /\ Kept(e, U \cup {<<r, i>>}) /\ Filled(e) /\ Settled(e)
           /\ e.fate = s.fate /\ e.told = s.told
           /\ e.sound \in Threads => e.sound = s.sound
           /\ \/ e = s \/ e.resp = None
              \/ e.resp = r /\ e.final = IF last THEN i ELSE None
<1> DEFINE V == U \cup {<<r, i>>}
           base == IF s.resp \in {None, r} THEN s ELSE Cancel(s)
           begun == Start(base, r, i)
           refused == \/ i # begun.submitted
                      \/ begun.final # None
                      \/ begun.submitted - begun.next >= MaxQueued
           p == [begun EXCEPT !.pending = @ \cup {i}, !.submitted = @ + 1,
                              !.final = IF last THEN i ELSE None]
<1>1. s \in App /\ Ranged(s) /\ Known(s, U)
  BY DEF Sound, Kept
<1>2. <<r, i>> \in Threads /\ <<r, i>> \notin U /\ i \in Indices
  BY ThreadNames
<1>3. /\ Sound(base) /\ Kept(base, U) /\ Filled(base) /\ Settled(base)
      /\ base.fate = s.fate /\ base.told = s.told
      /\ base.sound \in Threads => base.sound = s.sound
      /\ base.resp \in {None, r}
  BY <1>1, CancelEffect, CancelKept, ThreadNames
<1>4. i = 0 => \A j \in Nat : <<r, j>> \in Threads => <<r, j>> \notin U
  OBVIOUS
<1> HIDE DEF base
<1>5. /\ begun.fate = s.fate /\ begun.told = s.told
      /\ begun.sound \in Threads => begun.sound = s.sound
      /\ Known(begun, V) /\ Kept(begun, V) /\ Filled(begun) /\ Settled(begun)
      /\ begun.resp \in {None, r}
      /\ Sound(begun)
  BY SMTT(25), <1>3, <1>4, StartKept, StartSound
<1>6. e = IF ~s.enabled THEN s
          ELSE IF begun.resp # r THEN begun
          ELSE IF refused THEN Cancel(begun)
          ELSE Fill(p)
  BY DEF Submit, base
<1> HIDE DEF begun
<1>7. CASE ~s.enabled
  <2>1. Kept(s, V)
    BY KnownMore
  <2> QED BY <1>6, <1>7, <2>1
<1>8. CASE s.enabled /\ begun.resp # r
  BY <1>5, <1>6, <1>8
<1>9. CASE s.enabled /\ begun.resp = r /\ refused
  <2>1. e = Cancel(begun)
    BY <1>6, <1>9
  <2>2. begun \in App /\ Ranged(begun)
    BY <1>5 DEF Sound
  <2> HIDE DEF V
  <2>3. /\ Kept(e, V) /\ Filled(e) /\ Settled(e)
        /\ e.fate = begun.fate /\ e.told = begun.told /\ e.sound = None /\ e.resp = None
    BY <1>5, <2>1, <2>2, CancelKept, CancelEffect
  <2> QED BY <1>5, <2>3, ThreadNames DEF V
<1>10. CASE s.enabled /\ begun.resp = r /\ ~refused
  <2>1. /\ e = Fill(p) /\ i = begun.submitted /\ begun.final = None /\ r # None
        /\ begun \in App /\ Ranged(begun) /\ Linked(begun) /\ Owned(begun)
        /\ Placed(begun) /\ Ordered(begun) /\ Workers(begun) /\ Heard(begun)
    BY <1>5, <1>6, <1>10, ThreadNames DEF Sound, Kept
  <2>2. p \in App
    <3>1. begun.pending \cup {i} \in SUBSET Indices /\ begun.submitted + 1 \in Nat
      BY <1>2, <2>1, AppFields
    <3>2. (IF last THEN i ELSE None) \in Nat \cup {None}
      OBVIOUS
    <3>3. p = [begun EXCEPT !.pending = begun.pending \cup {i},
                            !.submitted = begun.submitted + 1,
                            !.final = IF last THEN i ELSE None]
      OBVIOUS
    <3> HIDE DEF p
    <3> QED BY <2>1, <3>1, <3>2, <3>3, AppQueued
  <2>3. /\ p.resp = begun.resp /\ p.submitted = i + 1
        /\ p.next = begun.next /\ p.final = (IF last THEN i ELSE None)
        /\ p.pending = begun.pending \cup {i} /\ p.active = begun.active
        /\ p.ready = begun.ready /\ p.failed = begun.failed
        /\ p.playing = begun.playing /\ p.sound = begun.sound
        /\ p.callback = begun.callback /\ p.started = begun.started /\ p.robbed = begun.robbed
        /\ p.op = begun.op /\ p.state = begun.state
        /\ p.cancelled = begun.cancelled /\ p.work = begun.work
        /\ p.fate = begun.fate /\ p.told = begun.told
    BY <2>1 DEF App
  <2> HIDE DEF p, refused, V
  <2>4. /\ begun.next \in Nat /\ begun.next <= i
        /\ \A j \in begun.pending \cup begun.active \cup Waiting(begun) \cup begun.failed :
              j \in Nat /\ j < i
        /\ \A j \in Nat : j < i => <<r, j>> \in Threads
    BY <1>5, <1>10, <2>1, Numbers
  <2>5. i # begun.playing /\ (begun.playing # None => begun.playing \in Nat /\ begun.playing < i)
    BY <2>1, <2>4, NamesAssumption DEF Ranged
  <2>6. Ranged(p)
    <3>1. Length[r] \in Nat
      BY ThreadNames
    <3>2. /\ \A j \in p.pending \cup p.active \cup p.failed : j < p.submitted
          /\ p.next <= p.submitted /\ p.submitted <= Length[r]
          /\ p.playing # None => p.playing = p.next /\ p.next < p.submitted
      BY <2>1, <2>3, <2>4, <3>1 DEF Ranged
    <3>3. \A t \in p.ready : t[1] = p.resp /\ t[2] < p.submitted
      <4>1. \A t \in begun.ready : t[1] = r /\ t[2] < i /\ t[2] \in Nat
        BY <1>10, <2>1, AppFields, ThreadNames DEF Ranged
      <4> QED BY <1>10, <2>3, <4>1
    <3> QED BY <1>10, <2>1, <2>3, <3>2, <3>3 DEF Ranged
  <2>7. Sound(p)
    BY <2>1, <2>2, <2>3, <2>6 DEF Sound, Linked, Owned, OwnsOutput
  <2>8. Waiting(p) = Waiting(begun) /\ \A j : Answered(p, j) <=> Answered(begun, j)
    BY <2>3 DEF Waiting, Answered
  <2>9. Placed(p)
    <3>1. \A j \in Nat : j < i + 1 => j < i \/ j = i
      OBVIOUS
    <3> QED BY <1>10, <2>1, <2>3, <2>8, <3>1 DEF Placed
  <2>10. Ordered(p)
    BY <2>1, <2>3, <2>4, <2>5, <2>8 DEF Ordered
  <2>11. Workers(p)
    BY <2>1, <2>3, <2>8 DEF Workers
  <2>12. begun.fate[<<r, i>>] = "unheard"
    BY <1>1, <1>2, <1>5 DEF Known
  <2>13. Heard(p)
    BY <1>10, <2>1, <2>3, <2>8, <2>12 DEF Heard
  <2>14. Known(p, V)
    <3>1. \A j \in Nat : j < i + 1 => <<r, j>> \in V
      <4>1. \A j \in Nat : j < i => <<r, j>> \in V
        BY <1>5, <1>10, <2>1 DEF Known
      <4>2. <<r, i>> \in V
        BY DEF V
      <4>3. \A j \in Nat : j < i + 1 => j < i \/ j = i
        OBVIOUS
      <4> QED BY <4>1, <4>2, <4>3
    <3> QED BY <1>5, <1>10, <2>3, <3>1 DEF Known
  <2>15. Kept(p, V)
    BY <2>9, <2>10, <2>11, <2>13, <2>14 DEF Kept
  <2>16. Settled(p)
    BY <1>5, <2>1, <2>3, <2>8 DEF Settled, Complete
  <2>17. /\ Kept(e, V) /\ Filled(e) /\ Settled(e) /\ Follows(p, e)
         /\ e.sound = p.sound /\ e.resp = p.resp
    BY <2>1, <2>7, <2>15, <2>16, FillKept, FillSound
  <2>18. e.fate = p.fate /\ e.told = p.told /\ e.final = p.final
    BY <2>1, <2>2 DEF Fill, App
  <2> QED BY <1>5, <1>10, <2>3, <2>17, <2>18 DEF V
<1> QED BY <1>5, <1>7, <1>8, <1>9, <1>10

-----------------------------------------------------------------------------
(* The voice, the player and the user *)

\* What changes the voice or the player only.
LEMMA RecoverLike ==
    ASSUME NEW s \in App
    PROVE  Like(s, Recover(s)) /\ Recover(s).sound = s.sound
  BY DEF App, Like, Recover

LEMMA SilentLike ==
    ASSUME NEW s \in App, NEW e,
           e = [s EXCEPT !.sound = None, !.started = FALSE, !.callback = None]
    PROVE  Like(s, e) /\ e.sound = None /\ e \in App
<1>1. e \in App
  BY AppSilent
<1>2. /\ e.resp = s.resp /\ e.submitted = s.submitted /\ e.next = s.next
      /\ e.final = s.final /\ e.pending = s.pending /\ e.active = s.active
      /\ e.ready = s.ready /\ e.failed = s.failed /\ e.playing = s.playing
      /\ e.cancelled = s.cancelled /\ e.work = s.work /\ e.fate = s.fate
      /\ e.told = s.told /\ e.sound = None
  BY DEF App
<1> QED BY <1>1, <1>2 DEF Like

LEMMA LikeTransitive ==
    ASSUME NEW s, NEW e, NEW f, Like(s, e), Like(e, f)
    PROVE  Like(s, f)
  BY DEF Like

\* Cancelling the reply after such a change.
LEMMA CancelledKept ==
    ASSUME NEW s, Sound(s), NEW U, Kept(s, U), NEW e \in App, Like(s, e)
    PROVE  /\ Kept(Cancel(e), U) /\ Filled(Cancel(e)) /\ Settled(Cancel(e))
           /\ Follows(s, Cancel(e)) /\ Like(s, e)
<1>1. Kept(e, U)
  BY LikeKept
<1>2. Ranged(e)
  BY DEF Sound, Ranged, Like
<1>3. Kept(Cancel(e), U) /\ Filled(Cancel(e)) /\ Settled(Cancel(e))
  BY <1>1, <1>2, CancelKept DEF Kept
<1>4. /\ Cancel(e).resp = None /\ Cancel(e).sound = None /\ Cancel(e).fate = s.fate
      /\ Cancel(e).told = s.told
  BY <1>2, CancelEffect DEF Like
<1>5. Follows(s, Cancel(e))
  BY <1>4, ThreadNames DEF Follows
<1> QED BY <1>3, <1>5

LEMMA SilencedKept ==
    ASSUME NEW s, Sound(s), NEW U, Kept(s, U)
    PROVE  /\ Kept(Silenced(s), U) /\ Filled(Silenced(s)) /\ Settled(Silenced(s))
           /\ Follows(s, Silenced(s))
<1> DEFINE o == StopOutput(s)
           e == [o EXCEPT !.sound = None, !.started = FALSE, !.callback = None]
<1>1. o \in App /\ Like(s, o)
  <2>1. s \in App
    BY DEF Sound
  <2>2. [s EXCEPT !.state = "IDLE", !.op = "none"] \in App
    BY <2>1, AppVoice
  <2>3. Like(s, [s EXCEPT !.state = "IDLE", !.op = "none"]) /\ Like(s, s)
    BY <2>1 DEF App, Like
  <2> QED BY <2>1, <2>2, <2>3 DEF StopOutput
<1> HIDE DEF o
<1>2. e \in App /\ Like(s, e)
  BY <1>1, SilentLike, LikeTransitive
<1>3. Silenced(s) = Cancel(e)
  BY DEF Silenced, o
<1> HIDE DEF e
<1> QED BY <1>2, <1>3, CancelledKept

LEMMA ListenLike ==
    ASSUME NEW s \in App
    PROVE  Like(s, Listen(s)) /\ Listen(s).sound = s.sound
  BY DEF App, Like, Listen

-----------------------------------------------------------------------------
(* The actions *)

\* The segments the application thread has taken, and the replies that are
\* complete.
Taken == {t \in Threads : t[2] < chat[t[1]].taken}

Finals == \A r \in Responses :
    /\ chat[r].final => chat[r].status = "over"
    /\ app.resp = r /\ app.final # None =>
          chat[r].final /\ app.final + 1 = chat[r].sent

JInv == IInv /\ Kept(app, Taken) /\ Filled(app) /\ Settled(app) /\ Finals

\* Nothing new is heard or announced.
Quiet(s, e) == /\ e.fate = s.fate /\ e.told = s.told
               /\ e.sound \in Threads => e.sound = s.sound

Step == JInv' /\ (Follows(app, app') \/ Quiet(app, app'))

\* A handler that takes no segment and leaves what was taken as it was.
LEMMA Handled ==
    ASSUME JInv, IInv', chat' \in {chat, CancelledChat},
           Kept(app', Taken), Filled(app'), Settled(app'), Follows(app, app')
    PROVE  Step
<1>1. /\ chat \in [Responses -> Chat] /\ Finals
  BY DEF JInv, IInv, TypeOK
<1>2. ASSUME NEW r \in Responses
      PROVE  /\ chat'[r].taken = chat[r].taken /\ chat'[r].final = chat[r].final
             /\ chat'[r].sent = chat[r].sent
             /\ chat[r].status = "over" => chat'[r].status = "over"
  <2>1. chat[r] \in Chat
    BY <1>1
  <2>2. CASE chat' = chat
    BY <2>2
  <2>3. CASE chat' = CancelledChat /\ chat[r].status = "running"
    <3>1. chat'[r] = [chat[r] EXCEPT !.status = "cancelled"]
      BY <2>3 DEF CancelledChat
    <3> QED BY <2>1, <2>3, <3>1 DEF Chat
  <2>4. CASE chat' = CancelledChat /\ chat[r].status # "running"
    <3>1. chat'[r] = chat[r]
      BY <2>4 DEF CancelledChat
    <3> QED BY <3>1
  <2> QED BY <2>2, <2>3, <2>4
<1>3. Taken' = Taken
  BY <1>2, ThreadNames DEF Taken
<1>4. Finals'
  BY <1>1, <1>2, ThreadNames DEF Finals, Follows
<1>5. Kept(app, Taken)'
  BY <1>3
<1> QED BY <1>4, <1>5 DEF JInv, Step, Filled, Settled, Complete, Waiting

\* A change of the voice or of the player.
LEMMA HandledLike ==
    ASSUME JInv, IInv', chat' \in {chat, CancelledChat}, Like(app, app'),
           app'.sound \in Threads => app'.sound = app.sound
    PROVE  Step
<1>1. Kept(app, Taken) /\ Filled(app) /\ Settled(app)
  BY DEF JInv
<1>2. Kept(app', Taken) /\ Filled(app') /\ Settled(app') /\ Follows(app, app')
  BY <1>1, LikeKept
<1> QED BY <1>2, Handled

\* The chat worker: no segment is sent after the final one.
LEMMA ChatOrder ==
    ASSUME JInv, IInv', NEW r \in Responses,
           Ask(r) \/ BreakOff(r) \/ \E last \in BOOLEAN : Send(r, last)
    PROVE  Step
<1>1. /\ chat \in [Responses -> Chat] /\ Finals /\ app' = app
      /\ chat[r] \in Chat
  BY DEF JInv, IInv, TypeOK, Ask, BreakOff, Send
<1>2. PICK e : /\ chat' = [chat EXCEPT ![r] = e] /\ e.taken = chat[r].taken
               /\ e.final => e.status = "over"
               /\ chat[r].final => e.final /\ e.sent = chat[r].sent
  <2>1. CASE Ask(r)
    <3> DEFINE e == [chat[r] EXCEPT !.status = "running"]
    <3>1. chat' = [chat EXCEPT ![r] = e] /\ chat[r].status = "none"
      BY <2>1 DEF Ask
    <3>2. e.taken = chat[r].taken /\ e.final = chat[r].final /\ e.sent = chat[r].sent
      BY <1>1 DEF Chat
    <3>3. ~chat[r].final
      BY <1>1, <3>1 DEF Finals
    <3> HIDE DEF e
    <3> QED BY <3>1, <3>2, <3>3
  <2>2. CASE BreakOff(r)
    <3> DEFINE e == [chat[r] EXCEPT !.status = "over"]
    <3>1. chat' = [chat EXCEPT ![r] = e]
      BY <2>2 DEF BreakOff
    <3>2. e.taken = chat[r].taken /\ e.final = chat[r].final /\ e.sent = chat[r].sent
          /\ e.status = "over"
      BY <1>1 DEF Chat
    <3> HIDE DEF e
    <3> QED BY <3>1, <3>2
  <2>3. CASE \E last \in BOOLEAN : Send(r, last)
    <3>1. PICK last \in BOOLEAN : Send(r, last)
      BY <2>3
    <3> DEFINE n == chat[r].sent + 1
               e == [chat[r] EXCEPT !.sent = n, !.final = last,
                                    !.status = IF last THEN "over" ELSE @]
    <3>2. chat' = [chat EXCEPT ![r] = e] /\ chat[r].status # "over"
      BY <3>1 DEF Send
    <3>3. e.taken = chat[r].taken /\ (e.final => e.status = "over")
      <4> HIDE DEF n
      <4>1. CASE last
        BY <1>1, <4>1 DEF Chat
      <4>2. CASE ~last
        BY <1>1, <4>2 DEF Chat
      <4> QED BY <4>1, <4>2
    <3>4. ~chat[r].final
      BY <1>1, <3>2 DEF Finals
    <3> HIDE DEF e
    <3> QED BY <3>2, <3>3, <3>4
  <2> QED BY <2>1, <2>2, <2>3
<1>3. \A q \in Responses : chat'[q].taken = chat[q].taken
  BY <1>1, <1>2
<1>4. Taken' = Taken
  BY <1>3, ThreadNames DEF Taken
<1>5. Finals'
  BY <1>1, <1>2 DEF Finals
<1>6. /\ Kept(app, Taken)' /\ Filled(app') /\ Settled(app') /\ Quiet(app, app')
  BY <1>1, <1>4 DEF JInv, Quiet
<1> QED BY <1>5, <1>6 DEF JInv, Step

\* A segment is taken: the controller learns of it in the order it was sent.
LEMMA TakeSegmentOrder ==
    ASSUME JInv, IInv', NEW r \in Responses, TakeSegment(r)
    PROVE  Step
<1> DEFINE i == chat[r].taken
           last == chat[r].final /\ i + 1 = chat[r].sent
           e == [chat[r] EXCEPT !.taken = @ + 1]
<1>1. /\ chat \in [Responses -> Chat] /\ i \in Nat /\ i < chat[r].sent /\ chat[r] \in Chat
      /\ chat[r].sent \in Nat /\ chat[r].sent <= Length[r] /\ Length[r] \in Nat
      /\ Sound(app) /\ Kept(app, Taken) /\ Filled(app) /\ Settled(app) /\ Finals
  BY ThreadNames DEF JInv, IInv, TypeOK, ChatSound, Chat, TakeSegment
<1>2. /\ e.sent = chat[r].sent /\ e.taken = i + 1 /\ e.final = chat[r].final
      /\ e.status = chat[r].status
  BY <1>1 DEF Chat
<1>3. chat' = [chat EXCEPT ![r] = e] /\ app' = Submit(app, r, i, last)
  BY DEF TakeSegment
<1> HIDE DEF e
<1>4. Taken' = Taken \cup {<<r, i>>}
  <2>1. <<r, i>> \in Threads
    BY <1>1, ThreadNames
  <2>2. ASSUME NEW t \in Threads
        PROVE  t \in Taken' <=> t \in Taken \/ t = <<r, i>>
    <3>1. CASE t[1] = r
      <4>1. t = <<r, t[2]>> /\ t[2] \in Nat
        BY <3>1, ThreadNames
      <4>2. t \in Taken' <=> t[2] < i + 1
        BY <1>1, <1>2, <1>3, <3>1 DEF Taken
      <4>3. t \in Taken <=> t[2] < i
        BY <3>1 DEF Taken
      <4> QED BY <1>1, <4>1, <4>2, <4>3
    <3>2. CASE t[1] # r
      <4>1. t # <<r, i>>
        BY <3>2
      <4>2. t \in Taken' <=> t \in Taken
        BY <1>1, <1>3, <3>2, ThreadNames DEF Taken
      <4> QED BY <4>1, <4>2
    <3> QED BY <3>1, <3>2
  <2> QED BY <2>1, <2>2 DEF Taken
<1>5. \A j \in Nat : <<r, j>> \in Taken => j < i
  BY DEF Taken
<1>6. last \in BOOLEAN /\ i < Length[r]
  BY <1>1
<1>7. /\ Kept(app', Taken \cup {<<r, i>>}) /\ Filled(app') /\ Settled(app')
      /\ Quiet(app, app')
      /\ \/ app' = app \/ app'.resp = None
         \/ app'.resp = r /\ app'.final = IF last THEN i ELSE None
  <2> HIDE DEF i, last
  <2> QED BY <1>1, <1>3, <1>5, <1>6, SubmitKept DEF Quiet
<1>8. Finals'
  <2> SUFFICES ASSUME NEW q \in Responses
               PROVE  /\ chat'[q].final => chat'[q].status = "over"
                      /\ app'.resp = q /\ app'.final # None =>
                            chat'[q].final /\ app'.final + 1 = chat'[q].sent
    BY DEF Finals
  <2>1. /\ chat'[q].final = chat[q].final /\ chat'[q].status = chat[q].status
        /\ chat'[q].sent = chat[q].sent
    BY <1>1, <1>2, <1>3
  <2>2. CASE app' = app
    BY <1>1, <2>1, <2>2 DEF Finals
  <2>3. CASE app'.resp = None
    BY <1>1, <2>1, <2>3, ThreadNames DEF Finals
  <2>4. CASE app'.resp = r /\ app'.final = IF last THEN i ELSE None
    BY <1>1, <2>1, <2>4 DEF Finals
  <2> QED BY <1>7, <2>2, <2>3, <2>4
<1> QED BY <1>4, <1>7, <1>8 DEF JInv, Step

LEMMA WorkerOrder ==
    ASSUME JInv, IInv', NEW t \in Threads, Synthesize(t) \/ TakeResult(t) \/ TakeFinished(t)
    PROVE  Step
<1>1. Sound(app) /\ Kept(app, Taken) /\ Filled(app) /\ Settled(app)
  BY DEF JInv, IInv
<1>2. chat' = chat
  BY DEF Synthesize, TakeResult, TakeFinished
<1>3. CASE Synthesize(t)
  <2>1. PICK w \in IF t \in app.cancelled THEN {"finishing"} ELSE {"audio", "failure"} :
           app' = Posted(app, t, w)
    BY <1>3 DEF Synthesize, Posted
  <2>2. app.work[t] = "running" /\ w \in WorkerPhases
    BY <1>3, <2>1 DEF Synthesize, WorkerPhases
  <2>3. app.resp = t[1] /\ t[2] \in app.active => (w \in Owing <=> app.work[t] \in Owing)
    <3>1. t \in app.cancelled => app.resp # t[1]
      BY <1>1 DEF Kept, Workers
    <3> QED BY <2>1, <2>2, <3>1 DEF Owing
  <2>4. app.work[t] # "none"
    BY <2>2
  <2>5. Kept(app', Taken) /\ Filled(app') /\ Settled(app') /\ Follows(app, app')
    <3> DEFINE e == app'
    <3> HIDE DEF e
    <3>1. e = Posted(app, t, w)
      BY <2>1 DEF e
    <3>2. Kept(e, Taken) /\ Filled(e) /\ Settled(e) /\ Follows(app, e)
      BY <1>1, <2>2, <2>3, <2>4, <3>1, PostedKept
    <3> QED BY <3>2 DEF e
  <2> QED BY <1>2, <2>5, Handled
<1>4. CASE TakeResult(t)
  <2> DEFINE s == Posted(app, t, "finishing")
  <2>1. \/ app.work[t] = "audio" /\ app' = AudioReady(s, t)
        \/ app.work[t] = "failure" /\ app' = SynthesisFailed(s, t)
    BY <1>4 DEF TakeResult, Posted
  <2>2. CASE app.work[t] = "audio" /\ app' = AudioReady(s, t)
    <3>1. Kept(app', Taken) /\ Filled(app') /\ Settled(app') /\ Follows(app, app')
      BY <1>1, <2>2, AudioReadyKept
    <3> QED BY <1>2, <3>1, Handled
  <2>3. CASE app.work[t] = "failure" /\ app' = SynthesisFailed(s, t)
    <3>1. Kept(app', Taken) /\ Filled(app') /\ Settled(app') /\ Follows(app, app')
      BY <1>1, <2>3, SynthesisFailedKept
    <3> QED BY <1>2, <3>1, Handled
  <2> QED BY <2>1, <2>2, <2>3
<1>5. CASE TakeFinished(t)
  <2> DEFINE s == Posted(app, t, "gone")
  <2>1. app.work[t] = "finishing" /\ app' = ThreadFinished(s, t)
    BY <1>5 DEF TakeFinished, Posted
  <2>2. Kept(app', Taken) /\ Filled(app') /\ Settled(app') /\ Follows(app, app')
    BY <1>1, <2>1, ThreadFinishedKept
  <2> QED BY <1>2, <2>2, Handled
<1> QED BY <1>3, <1>4, <1>5

\* A single text changes the voice and the player only.
LEMMA LineOrder ==
    ASSUME JInv, IInv', Speak \/ SynthesizeLine \/ TakeLine \/ LineFinished
    PROVE  Step
<1>1. app \in App
  BY DEF JInv, IInv, Sound
<1>2. chat' = chat
  BY DEF Speak, SynthesizeLine, TakeLine, LineFinished
<1>3. Like(app, app) /\ Like(app, Recover(app)) /\ Recover(app).sound = app.sound
  BY <1>1, RecoverLike DEF Like
<1>4. CASE SynthesizeLine \/ LineFinished
  <2>1. app' = app
    BY <1>4 DEF SynthesizeLine, LineFinished
  <2> QED BY <1>2, <1>3, <2>1, HandledLike
<1>5. CASE Speak
  <2> DEFINE e == [app EXCEPT !.state = "THINKING", !.op = "output"]
  <2>1. app' \in {e, Recover(app)}
    BY <1>5 DEF Speak, ReportError
  <2>2. Like(app, e) /\ e.sound = app.sound
    BY <1>1 DEF App, Like
  <2> HIDE DEF e
  <2> QED BY <1>2, <1>3, <2>1, <2>2, HandledLike
<1>6. CASE TakeLine
  <2> DEFINE q == [app EXCEPT !.callback = None]
             l == [app EXCEPT !.sound = Line, !.started = FALSE, !.callback = None]
             c == [Recover(app) EXCEPT !.robbed = @ \/ app.resp # None]
  <2>1. app' \in {app, Recover(app), Recover(q), l, c}
    BY <1>6 DEF TakeLine, PlayLine, LineCancelled, ReportError
  <2>2. q \in App
    BY <1>1, AppUncalled
  <2>3. Like(app, q) /\ q.sound = app.sound
    BY <1>1 DEF App, Like
  <2>4. Like(app, l) /\ l.sound = Line
    BY <1>1 DEF App, Like
  <2>5. Like(app, c) /\ c.sound = app.sound
    <3>1. Recover(app) \in App
      BY <1>1, RecoverEffect
    <3>2. Like(Recover(app), c) /\ c.sound = Recover(app).sound
      BY <3>1 DEF App, Like
    <3> HIDE DEF c
    <3> QED BY <1>3, <3>2, LikeTransitive
  <2> HIDE DEF q, l, c
  <2>6. Like(app, Recover(q)) /\ Recover(q).sound = app.sound
    BY <2>2, <2>3, RecoverLike, LikeTransitive
  <2>7. Like(app, app') /\ (app'.sound \in Threads => app'.sound = app.sound)
    BY <1>3, <2>1, <2>4, <2>5, <2>6, ThreadNames
  <2> QED BY <1>2, <2>7, HandledLike
<1> QED BY <1>4, <1>5, <1>6

\* The player: a sound of the reply that ends or fails is the next one.
LEMMA PlayerOrder ==
    ASSUME JInv, IInv', SoundStarts \/ SoundEnds \/ SoundFails
    PROVE  Step
<1> DEFINE t == app.callback
           s == [app EXCEPT !.sound = None, !.started = FALSE, !.callback = None]
<1>1. /\ Sound(app) /\ Kept(app, Taken) /\ Filled(app) /\ Settled(app)
      /\ app \in App /\ Ranged(app) /\ Linked(app) /\ Owned(app)
  BY DEF JInv, IInv, Sound
<1>2. chat' = chat
  BY DEF SoundStarts, SoundEnds, SoundFails
<1>3. Like(app, s) /\ s.sound = None /\ s \in App
  BY <1>1, SilentLike
<1>4. Like(app, Recover(s)) /\ Recover(s).sound = None
  BY <1>3, RecoverLike, LikeTransitive
<1>5. CASE SoundStarts
  <2>1. [app EXCEPT !.started = TRUE, !.state = "SPEAKING"].sound = app.sound
        /\ Like(app, [app EXCEPT !.started = TRUE, !.state = "SPEAKING"])
    BY <1>1 DEF App, Like
  <2>2. [app EXCEPT !.started = TRUE].sound = app.sound
        /\ Like(app, [app EXCEPT !.started = TRUE])
    BY <1>1 DEF App, Like
  <2>3. Like(app, app') /\ app'.sound = app.sound
    BY <1>5, <2>1, <2>2 DEF SoundStarts
  <2> QED BY <1>2, <2>3, HandledLike
<1>6. CASE SoundEnds /\ t = None
  <2>1. app' \in {s, Recover(s)}
    BY <1>6 DEF SoundEnds
  <2> HIDE DEF s
  <2>2. Like(app, app') /\ app'.sound = None
    BY <1>3, <1>4, <2>1
  <2> QED BY <1>2, <2>2, ThreadNames, HandledLike
<1>7. CASE SoundEnds /\ t # None
  <2> DEFINE f == [s.fate EXCEPT ![t] = "ended"]
             e == [s EXCEPT !.fate = f]
  <2>1. app' = PlaybackFinished(e, t)
    BY <1>7 DEF SoundEnds
  <2>2. /\ s.callback = None /\ s.started = FALSE /\ s.robbed = app.robbed
        /\ s.op = app.op /\ s.state = app.state
    BY <1>1, SilentEffect
  <2> HIDE DEF s
  <2>3. t \in Threads /\ app.resp = t[1] /\ app.playing = t[2]
    <3>1. t \in Threads /\ t = <<app.resp, app.playing>>
      BY <1>1, <1>7, AppFields DEF Linked
    <3> QED BY <3>1
  <2> HIDE DEF t
  <2>4. f \in [Threads -> {"unheard", "begun", "ended", "failed"}]
    BY <1>3, <2>3, AppFields
  <2>5. f = [app.fate EXCEPT ![t] = "ended"]
    BY <1>3 DEF Like
  <2> HIDE DEF f
  <2>6. e \in App
    BY <1>3, <2>4, AppSaid
  <2>7. /\ e.resp = s.resp /\ e.submitted = s.submitted /\ e.next = s.next
        /\ e.final = s.final /\ e.pending = s.pending /\ e.active = s.active
        /\ e.ready = s.ready /\ e.failed = s.failed /\ e.playing = s.playing
        /\ e.sound = s.sound /\ e.callback = s.callback /\ e.started = s.started
        /\ e.robbed = s.robbed /\ e.op = s.op /\ e.state = s.state
        /\ e.cancelled = s.cancelled /\ e.work = s.work /\ e.told = s.told /\ e.fate = f
    BY <1>3 DEF App
  <2> HIDE DEF e
  <2>8. /\ e.resp = app.resp /\ e.submitted = app.submitted /\ e.next = app.next
        /\ e.final = app.final /\ e.pending = app.pending /\ e.active = app.active
        /\ e.ready = app.ready /\ e.failed = app.failed /\ e.playing = app.playing
        /\ e.cancelled = app.cancelled /\ e.work = app.work /\ e.told = app.told
    BY <1>3, <2>7 DEF Like
  <2>9. Ranged(e) /\ Owned(e)
    BY <1>1, <1>3, <2>2, <2>7, <2>8, SameRanged DEF Owned, OwnsOutput
  <2>10. e.sound = None /\ e.callback = None /\ ~e.started
         /\ e.fate = [app.fate EXCEPT ![t] = "ended"]
    BY <1>3, <2>2, <2>5, <2>7
  <2>11. Kept(app', Taken) /\ Filled(app') /\ Settled(app') /\ Follows(app, app')
    BY <1>1, <2>1, <2>3, <2>6, <2>8, <2>9, <2>10, PlaybackFinishedKept
  <2> QED BY <1>2, <2>11, Handled
<1>8. CASE SoundFails /\ t = None
  <2>1. app' = Recover(s)
    BY <1>8 DEF SoundFails, ReportError
  <2> HIDE DEF s
  <2>2. Like(app, app') /\ app'.sound = None
    BY <1>4, <2>1
  <2> QED BY <1>2, <2>2, ThreadNames, HandledLike
<1>9. CASE SoundFails /\ t # None
  <2>1. app' = PlaybackError(s)
    BY <1>9 DEF SoundFails
  <2> HIDE DEF s
  <2>2. Ranged(s) /\ Known(s, Taken) /\ Follows(app, s)
    <3>1. Kept(s, Taken) /\ Follows(app, s)
      BY <1>1, <1>3, LikeKept, ThreadNames
    <3>2. Ranged(s)
      BY <1>1, <1>3 DEF Ranged, Like
    <3> QED BY <3>1, <3>2 DEF Kept
  <2>3. /\ Kept(app', Taken) /\ Filled(app') /\ Settled(app') /\ Follows(s, app')
    BY <1>3, <2>1, <2>2, PlaybackErrorKept
  <2>4. Follows(app, app')
    BY <1>1, <2>2, <2>3, FollowsTransitive
  <2> QED BY <1>2, <2>3, <2>4, Handled
<1> QED BY <1>5, <1>6, <1>7, <1>8, <1>9

LEMMA UserOrder ==
    ASSUME JInv, IInv', Stop \/ Talk \/ StopListening \/ \E on \in BOOLEAN : Configure(on)
    PROVE  Step
<1>1. /\ Sound(app) /\ Kept(app, Taken) /\ Filled(app) /\ Settled(app) /\ app \in App
  BY DEF JInv, IInv, Sound
<1>2. chat' \in {chat, CancelledChat}
  BY DEF Stop, Talk, StopListening, Configure
<1>3. /\ Kept(Silenced(app), Taken) /\ Filled(Silenced(app)) /\ Settled(Silenced(app))
      /\ Follows(app, Silenced(app)) /\ Sound(Silenced(app))
  BY <1>1, SilencedKept, SilencedSound
<1>4. CASE Stop
  <2>1. app' = Silenced(app)
    BY <1>4 DEF Stop
  <2> QED BY <1>2, <1>3, <2>1, Handled
<1>5. CASE Talk
  <2> DEFINE s == IF app.op = "output" THEN Silenced(app) ELSE app
  <2>1. app' = Listen(s)
    BY <1>5 DEF Talk
  <2>2. Follows(app, app)
    BY DEF Follows
  <2>3. Sound(s) /\ Kept(s, Taken) /\ Filled(s) /\ Settled(s) /\ Follows(app, s)
    BY <1>1, <1>3, <2>2
  <2> HIDE DEF s
  <2>4. Like(s, app') /\ app'.sound = s.sound
    BY <2>1, <2>3, ListenLike DEF Sound
  <2>5. Kept(app', Taken) /\ Filled(app') /\ Settled(app') /\ Follows(s, app')
    BY <2>3, <2>4, LikeKept
  <2>6. Follows(app, app')
    BY <1>1, <2>3, <2>5, FollowsTransitive
  <2> QED BY <1>2, <2>5, <2>6, Handled
<1>6. CASE StopListening
  <2>1. Like(app, app') /\ app'.sound = app.sound
    BY <1>1, <1>6, RecoverLike DEF StopListening
  <2> QED BY <1>2, <2>1, HandledLike
<1>7. ASSUME NEW on \in BOOLEAN, Configure(on) PROVE Step
  <2> DEFINE e == ApplyConfig(app, on)
  <2>1. app' = Cancel(e)
    BY <1>7 DEF Configure
  <2>2. e \in App /\ Like(app, e)
    <3>1. CASE ~on
      <4>1. e = [app EXCEPT !.enabled = FALSE, !.state = "MUTED", !.op = "none"]
        BY <3>1 DEF ApplyConfig
      <4> QED BY ZenonT(40), <1>1, <4>1 DEF App, Like, Output
    <3>2. CASE on /\ app.state = "MUTED"
      <4>1. e = [app EXCEPT !.enabled = TRUE, !.state = "IDLE"]
        BY <3>2 DEF ApplyConfig
      <4> QED BY ZenonT(40), <1>1, <4>1 DEF App, Like, Output
    <3>3. CASE on /\ app.state # "MUTED"
      <4>1. e = [app EXCEPT !.enabled = TRUE, !.state = app.state]
        BY <3>3 DEF ApplyConfig
      <4>2. app.state \in {"IDLE", "LISTENING", "MUTED"} \cup Output
        BY <1>1 DEF App
      <4> QED BY ZenonT(40), <1>1, <4>1, <4>2 DEF App, Like
    <3> QED BY <3>1, <3>2, <3>3
  <2> HIDE DEF e
  <2>3. Kept(app', Taken) /\ Filled(app') /\ Settled(app') /\ Follows(app, app')
    BY <1>1, <2>1, <2>2, CancelledKept
  <2> QED BY <1>2, <2>3, Handled
<1> QED BY <1>4, <1>5, <1>6, <1>7

-----------------------------------------------------------------------------
(* The theorems *)

LEMMA OrderInitially == Init => JInv
<1> SUFFICES ASSUME Init PROVE JInv
  OBVIOUS
<1>1. IInv
  BY Initially
<1>2. app \in App /\ Ranged(app)
  BY <1>1 DEF IInv, Sound
<1>3. /\ app.resp = None /\ app.work = [t \in Threads |-> "none"]
      /\ app.fate = [t \in Threads |-> "unheard"] /\ app.cancelled = {}
      /\ app.told = [r \in Responses |-> 0]
  BY DEF Init
<1>4. Kept(app, Taken) /\ Filled(app) /\ Settled(app)
  BY <1>2, <1>3, NoReplyKept
<1>5. Finals
  BY <1>3, ThreadNames DEF Init, Finals
<1> QED BY <1>1, <1>4, <1>5 DEF JInv

LEMMA OrderInductive == JInv /\ [Next]_vars => Step
<1> SUFFICES ASSUME JInv, [Next]_vars PROVE Step
  OBVIOUS
<1>1. IInv'
  BY Inductive DEF JInv
<1>2. ASSUME NEW r \in Responses,
             Ask(r) \/ BreakOff(r) \/ \E last \in BOOLEAN : Send(r, last)
      PROVE  Step
  BY <1>1, <1>2, ChatOrder
<1>3. ASSUME NEW r \in Responses, TakeSegment(r) PROVE Step
  BY <1>1, <1>3, TakeSegmentOrder
<1>4. ASSUME NEW t \in Threads, Synthesize(t) \/ TakeResult(t) \/ TakeFinished(t)
      PROVE  Step
  BY <1>1, <1>4, WorkerOrder
<1>5. CASE Speak \/ SynthesizeLine \/ TakeLine \/ LineFinished
  BY <1>1, <1>5, LineOrder
<1>6. CASE SoundStarts \/ SoundEnds \/ SoundFails
  BY <1>1, <1>6, PlayerOrder
<1>7. CASE Stop \/ Talk \/ StopListening \/ \E on \in BOOLEAN : Configure(on)
  BY <1>1, <1>7, UserOrder
<1>8. CASE UNCHANGED vars
  <2>1. chat' = chat /\ app' = app
    BY <1>8 DEF vars
  <2>2. Taken' = Taken /\ Finals'
    BY <2>1 DEF JInv, Taken, Finals
  <2> QED BY <1>1, <2>1, <2>2 DEF JInv, Step, Quiet
<1> QED BY <1>2, <1>3, <1>4, <1>5, <1>6, <1>7, <1>8 DEF Next

LEMMA OrderInvariant == Spec => []JInv
<1>1. JInv /\ [Next]_vars => JInv'
  BY OrderInductive DEF Step
<1> QED BY <1>1, OrderInitially, PTL DEF Spec

\* A reply that neither sounds nor is being synthesised waits for nothing but
\* its chat worker: no order of results, ends, failures and sounds leaves an
\* accepted segment, or the end of the reply, behind.
THEOREM ReplyNeverStalls == Spec => []NeverStalls
<1>1. JInv => NeverStalls
  <2> SUFFICES ASSUME JInv, app.resp # None, app.playing = None, app.active = {}
               PROVE  app.final = None /\ app.next = app.submitted
    BY DEF NeverStalls
  <2>1. Sound(app) /\ Placed(app) /\ Ordered(app) /\ Filled(app) /\ Settled(app)
    BY DEF JInv, IInv, Kept
  <2>2. app.next \in Nat /\ app.submitted \in Nat /\ app.next <= app.submitted
        /\ Waiting(app) \subseteq Nat /\ app.next # None
        /\ (app.ready = {} <=> Waiting(app) = {})
        /\ \A i \in app.pending \cup Waiting(app) \cup app.failed : i \in Nat /\ i < app.submitted
    BY <2>1, Numbers, WaitingIs
  <2>3. ASSUME app.next < app.submitted PROVE FALSE
    <3>1. app.next \in app.pending
      BY <2>1, <2>2, <2>3 DEF Placed, Settled
    <3>2. app.ready # {}
      BY <2>1, <3>1 DEF Filled
    <3>3. PICK i : i \in Waiting(app)
      BY <2>2, <3>2
    <3>4. i < app.next /\ app.next <= i /\ i \in Nat
      BY <2>1, <2>2, <3>1, <3>3 DEF Ordered
    <3> QED BY <2>2, <3>4
  <2>4. app.next = app.submitted
    BY <2>2, <2>3
  <2>5. app.pending = {} /\ Waiting(app) = {}
    <3>1. \A i \in app.pending \cup Waiting(app) : app.next <= i /\ i < app.submitted /\ i \in Nat
      BY <2>1, <2>2 DEF Ordered
    <3> QED BY <2>2, <2>4, <3>1
  <2>6. app.final = None
    <3>1. app.final # None => app.final \in Nat /\ app.submitted = app.final + 1
      BY <2>1, Numbers DEF Ranged
    <3> QED BY <2>1, <2>2, <2>4, <2>5, <3>1 DEF Settled, Complete
  <2> QED BY <2>4, <2>6
<1> QED BY <1>1, OrderInvariant, PTL

\* A segment begins to sound only after every earlier one of its reply has
\* sounded to its end or has failed, and no segment twice, in whatever order
\* the workers answer.
THEOREM SegmentsPlayInOrder == Spec => PlaysInOrder
<1> DEFINE A == \A t \in Threads : app.sound # t /\ app'.sound = t =>
          /\ app.fate[t] = "unheard"
          /\ \A i \in 0..(t[2] - 1) : app'.fate[<<t[1], i>>] \in {"ended", "failed"}
<1>1. JInv /\ [Next]_vars => [A]_vars
  <2> SUFFICES ASSUME JInv, [Next]_vars, NEW t \in Threads, app.sound # t, app'.sound = t
               PROVE  /\ app.fate[t] = "unheard"
                      /\ \A i \in 0..(t[2] - 1) : app'.fate[<<t[1], i>>] \in {"ended", "failed"}
    OBVIOUS
  <2>1. Step
    BY OrderInductive
  <2>2. app.fate[t] = "unheard"
    BY <2>1 DEF Step, Follows, Quiet
  <2>3. Sound(app') /\ Heard(app')
    BY <2>1 DEF Step, JInv, IInv, Kept
  <2>4. t = <<app'.resp, app'.playing>> /\ t[2] \in Nat /\ t[2] # None /\ t[1] # None
    BY <2>3, ThreadNames DEF Sound, Linked
  <2>5. t[1] = app'.resp /\ t[2] = app'.playing
    BY <2>4
  <2>6. t[2] = app'.next
    BY <2>3, <2>4, <2>5 DEF Sound, Ranged
  <2>7. \A i \in 0..(t[2] - 1) : i \in Nat /\ i < app'.next
    BY <2>4, <2>6
  <2> QED BY <2>2, <2>3, <2>4, <2>5, <2>7 DEF Heard, Over
<1> QED BY <1>1, OrderInvariant, PTL DEF Spec, PlaysInOrder

\* VOICE_RESPONSE_PLAYBACK_COMPLETED is published once per reply, and only when
\* the reply was sent to its end and each of its segments sounded or failed.
THEOREM CompletionIsHonest == Spec => CompletedHonestly
<1> DEFINE A == \A r \in Responses : app'.told[r] # app.told[r] =>
          /\ app.told[r] = 0
          /\ chat[r].final
          /\ \A i \in 0..(chat[r].sent - 1) : app'.fate[<<r, i>>] \in {"ended", "failed"}
<1>1. JInv /\ [Next]_vars => [A]_vars
  <2> SUFFICES ASSUME JInv, [Next]_vars, NEW r \in Responses, app'.told[r] # app.told[r]
               PROVE  /\ app.told[r] = 0
                      /\ chat[r].final
                      /\ \A i \in 0..(chat[r].sent - 1) :
                            app'.fate[<<r, i>>] \in {"ended", "failed"}
    OBVIOUS
  <2>1. Step
    BY OrderInductive
  <2>2. /\ r = app.resp /\ app.final # None
        /\ \A i \in Nat : i <= app.final => app'.fate[<<r, i>>] \in Over
    BY <2>1 DEF Step, Follows, Quiet
  <2>3. Sound(app) /\ Known(app, Taken) /\ Finals
    BY DEF JInv, IInv, Kept
  <2>4. app.told[r] = 0
    BY <2>2, <2>3, ThreadNames DEF Known
  <2>5. chat[r].final /\ app.final + 1 = chat[r].sent
    BY <2>2, <2>3 DEF Finals
  <2>6. app.final \in Nat
    BY <2>2, <2>3, Numbers
  <2>7. \A i \in 0..(chat[r].sent - 1) : i \in Nat /\ i <= app.final
    BY <2>5, <2>6
  <2> QED BY <2>2, <2>4, <2>5, <2>7 DEF Over
<1> QED BY <1>1, OrderInvariant, PTL DEF Spec, CompletedHonestly
=============================================================================
