-------------------------- MODULE GmailPollingProofs --------------------------
(***************************************************************************)
(* Proofs about GmailPolling, for any number of threads, any page size and *)
(* any bounds: the types, and that the cursor never passes a mail nobody   *)
(* looked at.                                                              *)
(***************************************************************************)
EXTENDS GmailPolling, TLAPS

Reached == handed \cup dropped \cup skipped

\* What is true of one poll p while the mailbox stands at m and the mails of R
\* are accounted for: it knows no mail beyond the mailbox, all it has passed is
\* accounted for, and what it is about to save either starts afresh or is passed.
PollSound(p, m, R) ==
    /\ p.base <= m /\ p.at <= m /\ p.last <= m /\ p.high <= m
    /\ p.phase \in {"list", "emit", "claim"} => 1..p.at \subseteq R
    /\ p.phase \in {"emit", "claim"} => p.at <= p.last /\ p.last <= p.high
    /\ p.phase = "claim" => p.at < p.last
    /\ p.phase = "save" /\ ~p.fresh => 1..p.high \subseteq R

PollsSound == \A t \in Threads : PollSound(pollers[t], mailbox, Reached)

CursorSound == cursor # None => cursor <= mailbox /\ 1..cursor \subseteq Reached

IInv == TypeOK /\ PollsSound /\ CursorSound

-----------------------------------------------------------------------------
\* A poll stays sound while mails arrive and more of them are accounted for.
LEMMA SoundStays ==
    ASSUME NEW p \in Poll, NEW m \in Nat, NEW n \in Nat, NEW R, NEW S,
           PollSound(p, m, R), m <= n, R \subseteq S
    PROVE  PollSound(p, n, S)
BY PollingAssumption DEF PollSound, Poll, Positions

\* So a step that touches one poll only has that one to answer for.
LEMMA OnePoll ==
    ASSUME IInv, NEW t \in Threads, NEW q \in Poll,
           pollers' = [pollers EXCEPT ![t] = q],
           mailbox' \in Nat, mailbox <= mailbox', Reached \subseteq Reached',
           PollSound(q, mailbox', Reached')
    PROVE  PollsSound' /\ pollers' \in [Threads -> Poll]
<1>1. pollers' \in [Threads -> Poll]
  BY DEF IInv, TypeOK
<1>2. ASSUME NEW u \in Threads PROVE PollSound(pollers'[u], mailbox', Reached')
  <2>1. CASE u = t
    BY <2>1 DEF IInv, TypeOK
  <2>2. CASE u # t
    <3>1. pollers'[u] = pollers[u] /\ pollers[u] \in Poll
      BY <2>2 DEF IInv, TypeOK
    <3>2. mailbox \in Nat /\ PollSound(pollers[u], mailbox, Reached)
      BY PollingAssumption DEF IInv, TypeOK, Positions, PollsSound
    <3> QED BY <3>1, <3>2, SoundStays
  <2> QED BY <2>1, <2>2
<1> QED BY <1>1, <1>2 DEF PollsSound

\* And one that touches none, to nothing at all.
LEMMA NoPollTouched ==
    ASSUME IInv, UNCHANGED pollers,
           mailbox' \in Nat, mailbox <= mailbox', Reached \subseteq Reached'
    PROVE  PollsSound'
<1> SUFFICES ASSUME NEW u \in Threads PROVE PollSound(pollers[u], mailbox', Reached')
  BY DEF PollsSound
<1>1. pollers[u] \in Poll /\ mailbox \in Nat /\ PollSound(pollers[u], mailbox, Reached)
  BY PollingAssumption DEF IInv, TypeOK, Positions, PollsSound
<1> QED BY <1>1, SoundStays

LEMMA NoPollIsPoll ==
    /\ NoPoll \in Poll /\ NoPoll.phase = "none"
    /\ NoPoll.base = 0 /\ NoPoll.at = 0 /\ NoPoll.last = 0 /\ NoPoll.high = 0
BY PollingAssumption DEF NoPoll, Poll, Phases, Positions

LEMMA InitSound == Init => IInv
<1> SUFFICES ASSUME Init PROVE IInv
  OBVIOUS
<1>1. NoPoll \in Poll /\ NoPoll.base = 0 /\ NoPoll.at = 0 /\ NoPoll.last = 0
      /\ NoPoll.high = 0 /\ NoPoll.phase = "none"
  BY NoPollIsPoll
<1>2. TypeOK
  <2>1. pollers \in [Threads -> Poll]
    BY <1>1 DEF Init
  <2>2. mailbox \in Positions
    BY PollingAssumption DEF Init, Positions
  <2> QED BY <2>1, <2>2 DEF Init, TypeOK
<1>3. PollsSound
  BY <1>1, PollingAssumption DEF Init, PollsSound, PollSound
<1> QED BY <1>2, <1>3 DEF IInv, CursorSound, Init

-----------------------------------------------------------------------------
(* Every step keeps the invariant *)

LEMMA StartSound == ASSUME IInv, NEW t \in Threads, Start(t) PROVE IInv'
<1> DEFINE q == [NoPoll EXCEPT !.phase = "top"]
<1>1. mailbox \in Nat /\ mailbox' = mailbox /\ Reached' = Reached
  BY PollingAssumption DEF Start, history, Reached, IInv, TypeOK, Positions
<1>2. q \in Poll /\ q.base = 0 /\ q.at = 0 /\ q.last = 0 /\ q.high = 0 /\ q.phase = "top"
  BY NoPollIsPoll DEF Poll, Phases
<1>3. PollSound(q, mailbox', Reached')
  BY <1>1, <1>2 DEF PollSound
<1>4. pollers' = [pollers EXCEPT ![t] = q]
  BY DEF Start
<1>5. PollsSound' /\ pollers' \in [Threads -> Poll]
  <2>1. mailbox <= mailbox' /\ mailbox' \in Nat /\ Reached \subseteq Reached'
    BY <1>1
  <2> HIDE DEF q
  <2> QED BY <1>2, <1>3, <1>4, <2>1, OnePoll
<1> QED BY <1>5 DEF Start, history, store, IInv, TypeOK, CursorSound, Reached

\* A poll that moves on within its round: nothing else changes.
LEMMA MoveSound ==
    ASSUME IInv, NEW t \in Threads, NEW q \in Poll,
           pollers' = [pollers EXCEPT ![t] = q],
           PollSound(q, mailbox, Reached),
           UNCHANGED <<mailbox, store, service, history>>, faults' \in Nat
    PROVE  IInv'
<1>1. PollsSound' /\ pollers' \in [Threads -> Poll]
  <2>1. mailbox \in Nat /\ mailbox' = mailbox /\ Reached' = Reached
    BY PollingAssumption DEF history, Reached, IInv, TypeOK, Positions
  <2>2. PollSound(q, mailbox', Reached') /\ mailbox <= mailbox' /\ mailbox' \in Nat
        /\ Reached \subseteq Reached'
    BY <2>1
  <2> QED BY <2>2, OnePoll
<1> QED BY <1>1 DEF history, store, service, IInv, TypeOK, CursorSound, Reached

LEMMA BeginPollSound == ASSUME IInv, NEW t \in Threads, BeginPoll(t) PROVE IInv'
<1> DEFINE q == IF stopping THEN [pollers[t] EXCEPT !.phase = "ended"]
                ELSE [pollers[t] EXCEPT !.phase = "load", !.base = mailbox]
<1>1. pollers' = [pollers EXCEPT ![t] = q]
  BY DEF BeginPoll, Enters, IInv, TypeOK
<1>2. pollers[t] \in Poll /\ mailbox \in Positions /\ PollSound(pollers[t], mailbox, Reached)
  BY DEF IInv, TypeOK, PollsSound
<1>3. mailbox \in Nat
  BY <1>2, PollingAssumption DEF Positions
<1>4. q \in Poll /\ q.at = pollers[t].at /\ q.last = pollers[t].last
      /\ q.high = pollers[t].high /\ q.base \in {pollers[t].base, mailbox}
      /\ q.phase \in {"ended", "load"}
  BY <1>2 DEF Poll, Phases
<1>5. PollSound(q, mailbox, Reached)
  BY <1>2, <1>3, <1>4 DEF PollSound
<1> QED BY <1>1, <1>4, <1>5, MoveSound DEF BeginPoll, IInv, TypeOK

LEMMA LoadCursorSound == ASSUME IInv, NEW t \in Threads, LoadCursor(t) PROVE IInv'
<1> DEFINE q == IF cursor = None
                THEN [pollers[t] EXCEPT !.phase = "save", !.fresh = TRUE,
                                        !.high = pollers[t].base]
                ELSE [pollers[t] EXCEPT !.phase = "list", !.fresh = FALSE, !.at = cursor]
<1>1. pollers' = [pollers EXCEPT ![t] = q]
  BY DEF LoadCursor, IInv, TypeOK
<1>2. pollers[t] \in Poll /\ PollSound(pollers[t], mailbox, Reached)
  BY DEF IInv, TypeOK, PollsSound
<1>3. q \in Poll /\ PollSound(q, mailbox, Reached)
  BY <1>2, PollingAssumption DEF Poll, Phases, PollSound, Positions, IInv, TypeOK, CursorSound
<1> QED BY <1>1, <1>3, MoveSound DEF LoadCursor, IInv, TypeOK

LEMMA ListPageSound == ASSUME IInv, NEW t \in Threads, ListPage(t) PROVE IInv'
<1> DEFINE p == pollers[t]
           last == IF p.at + PageSize < mailbox THEN p.at + PageSize ELSE mailbox
           q == [p EXCEPT !.phase = "emit", !.last = last, !.high = mailbox]
<1>1. pollers' = [pollers EXCEPT ![t] = q]
  BY DEF ListPage, IInv, TypeOK
<1>2. p \in Poll /\ mailbox \in Positions /\ PollSound(p, mailbox, Reached)
  BY DEF IInv, TypeOK, PollsSound
<1>3. p.at \in Nat /\ p.at <= mailbox /\ mailbox \in Nat /\ mailbox <= MaxMails
  BY <1>2, PollingAssumption DEF Poll, Positions, PollSound
<1>4. last \in Positions /\ p.at <= last /\ last <= mailbox
  BY <1>3, PollingAssumption DEF Positions
<1>5. q \in Poll /\ q.at = p.at /\ q.last = last /\ q.high = mailbox /\ q.base = p.base
      /\ q.phase = "emit"
  BY <1>2, <1>4 DEF Poll, Phases
<1>6. 1..p.at \subseteq Reached
  BY <1>2 DEF ListPage, PollSound
<1>7. PollSound(q, mailbox, Reached)
  BY <1>2, <1>3, <1>4, <1>5, <1>6 DEF PollSound
<1> QED BY <1>1, <1>5, <1>7, MoveSound DEF ListPage, IInv, TypeOK

LEMMA ExpiredSound == ASSUME IInv, NEW t \in Threads, Expired(t) PROVE IInv'
<1> DEFINE q == [pollers[t] EXCEPT !.phase = "save", !.fresh = TRUE, !.high = pollers[t].base]
<1>1. pollers' = [pollers EXCEPT ![t] = q]
  BY DEF Expired, IInv, TypeOK
<1>2. pollers[t] \in Poll /\ PollSound(pollers[t], mailbox, Reached)
  BY DEF IInv, TypeOK, PollsSound
<1>3. q \in Poll /\ q.at = pollers[t].at /\ q.last = pollers[t].last
      /\ q.high = pollers[t].base /\ q.base = pollers[t].base
      /\ q.phase = "save" /\ q.fresh = TRUE
  BY <1>2 DEF Poll, Phases
<1>4. PollSound(q, mailbox, Reached)
  BY <1>2, <1>3 DEF PollSound
<1>5. faults' \in Nat /\ UNCHANGED <<mailbox, store, service, history>>
  BY DEF Expired, Fault, IInv, TypeOK
<1> HIDE DEF q
<1> QED BY <1>1, <1>3, <1>4, <1>5, MoveSound

LEMMA PollFailsSound == ASSUME IInv, NEW t \in Threads, PollFails(t) PROVE IInv'
<1> DEFINE q == [pollers[t] EXCEPT !.phase = "top"]
<1>1. pollers' = [pollers EXCEPT ![t] = q]
  BY DEF PollFails, Enters, IInv, TypeOK
<1>2. pollers[t] \in Poll /\ PollSound(pollers[t], mailbox, Reached)
  BY DEF IInv, TypeOK, PollsSound
<1>3. q \in Poll /\ q.at = pollers[t].at /\ q.last = pollers[t].last
      /\ q.high = pollers[t].high /\ q.base = pollers[t].base /\ q.phase = "top"
  BY <1>2 DEF Poll, Phases
<1>4. PollSound(q, mailbox, Reached)
  BY <1>2, <1>3 DEF PollSound
<1>5. faults' \in Nat /\ UNCHANGED <<mailbox, store, service, history>>
  BY DEF PollFails, Fault, IInv, TypeOK
<1> HIDE DEF q
<1> QED BY <1>1, <1>3, <1>4, <1>5, MoveSound

\* The last page ends where the history did when it was listed.
LEMMA PageDoneSound == ASSUME IInv, NEW t \in Threads, PageDone(t) PROVE IInv'
<1> DEFINE p == pollers[t]
           q == [p EXCEPT !.phase = IF p.at < p.high THEN "list" ELSE "save"]
<1>1. pollers' = [pollers EXCEPT ![t] = q]
  BY DEF PageDone, Enters, IInv, TypeOK
<1>2. p \in Poll /\ PollSound(p, mailbox, Reached)
  BY DEF IInv, TypeOK, PollsSound
<1>3. p.phase = "emit" /\ p.at = p.last /\ p.at <= p.high /\ 1..p.at \subseteq Reached
      /\ p.at \in Nat /\ p.high \in Nat
  BY <1>2, PollingAssumption DEF PageDone, PollSound, Poll, Positions
<1>4. q \in Poll /\ q.at = p.at /\ q.last = p.last /\ q.high = p.high /\ q.base = p.base
      /\ q.phase = IF p.at < p.high THEN "list" ELSE "save"
  BY <1>2 DEF Poll, Phases
<1>5. ~(p.at < p.high) => p.at = p.high
  BY <1>3
<1>6. PollSound(q, mailbox, Reached)
  BY <1>2, <1>3, <1>4, <1>5 DEF PollSound
<1> QED BY <1>1, <1>4, <1>6, MoveSound DEF PageDone, IInv, TypeOK

\* One more mail is accounted for, and the poll is past it.
LEMMA PassSound ==
    ASSUME IInv, NEW t \in Threads, pollers[t].phase \in {"emit", "claim"},
           pollers[t].at < pollers[t].last,
           pollers' = [pollers EXCEPT ![t].phase = "emit", ![t].at = pollers[t].at + 1],
           Reached' = Reached \cup {pollers[t].at + 1},
           mailbox' = mailbox
    PROVE  /\ PollsSound' /\ pollers' \in [Threads -> Poll]
           /\ pollers[t].at + 1 \in Mails
<1> DEFINE p == pollers[t]
           q == [p EXCEPT !.phase = "emit", !.at = p.at + 1]
<1>1. pollers' = [pollers EXCEPT ![t] = q]
  BY DEF IInv, TypeOK
<1>2. p \in Poll /\ mailbox \in Positions /\ PollSound(p, mailbox, Reached)
  BY DEF IInv, TypeOK, PollsSound
<1>3. p.at \in Nat /\ p.last \in Nat /\ p.high \in Nat /\ p.at + 1 <= p.last
      /\ p.last <= mailbox /\ mailbox \in Nat /\ mailbox <= MaxMails /\ p.last <= p.high
      /\ p.base \in Nat
  BY <1>2, PollingAssumption DEF Poll, Positions, PollSound
<1>4. p.at + 1 \in Positions /\ p.at + 1 \in Mails
  BY <1>3, PollingAssumption DEF Positions, Mails
<1>5. q \in Poll /\ q.at = p.at + 1 /\ q.last = p.last /\ q.high = p.high
      /\ q.base = p.base /\ q.phase = "emit"
  BY <1>2, <1>4 DEF Poll, Phases
<1>6. 1..p.at \subseteq Reached
  BY <1>2 DEF PollSound
<1>7. 1..(p.at + 1) \subseteq Reached'
  BY <1>3, <1>6
<1>8. PollSound(q, mailbox', Reached')
  BY <1>2, <1>3, <1>5, <1>7 DEF PollSound
<1>9. mailbox' \in Nat /\ mailbox <= mailbox' /\ Reached \subseteq Reached'
  BY <1>3
<1> HIDE DEF q
<1> QED BY <1>1, <1>4, <1>5, <1>8, <1>9, OnePoll

LEMMA EmitSound == ASSUME IInv, NEW t \in Threads, Emit(t) PROVE IInv'
<1> DEFINE p == pollers[t]
           q == [p EXCEPT !.phase = "claim"]
<1>1. CASE wanted /\ ~stopping
  <2>1. pollers' = [pollers EXCEPT ![t] = q]
    BY <1>1 DEF Emit, Enters, IInv, TypeOK
  <2>2. p \in Poll /\ PollSound(p, mailbox, Reached)
    BY DEF IInv, TypeOK, PollsSound
  <2>3. q \in Poll /\ q.at = p.at /\ q.last = p.last /\ q.high = p.high
        /\ q.base = p.base /\ q.phase = "claim"
    BY <2>2 DEF Poll, Phases
  <2>4. PollSound(q, mailbox, Reached)
    BY <2>2, <2>3 DEF PollSound, Emit
  <2>5. faults' \in Nat /\ UNCHANGED <<mailbox, store, service, history>>
    BY <1>1 DEF Emit, history, IInv, TypeOK
  <2> QED BY <2>1, <2>3, <2>4, <2>5, MoveSound
<1>2. CASE ~(wanted /\ ~stopping)
  <2>1. p \in Poll /\ p.phase = "emit"
    BY DEF Emit, IInv, TypeOK
  <2>2. pollers' = [pollers EXCEPT ![t].at = p.at + 1]
    BY <1>2 DEF Emit, IInv, TypeOK
  <2>3. pollers' = [pollers EXCEPT ![t].phase = "emit", ![t].at = p.at + 1]
    <3>1. [p EXCEPT !.at = p.at + 1] = [p EXCEPT !.phase = "emit", !.at = p.at + 1]
      BY <2>1 DEF Poll
    <3> QED BY <2>2, <3>1 DEF IInv, TypeOK
  <2>4. Reached' = Reached \cup {p.at + 1}
    BY <1>2 DEF Emit, Reached
  <2>5. PollsSound' /\ pollers' \in [Threads -> Poll] /\ p.at + 1 \in Mails
    BY <2>1, <2>3, <2>4, PassSound DEF Emit
  <2> QED BY <1>2, <2>4, <2>5 DEF Emit, store, service, IInv, TypeOK, CursorSound
<1> QED BY <1>1, <1>2

LEMMA ClaimSound == ASSUME IInv, NEW t \in Threads, Claim(t) PROVE IInv'
<1> DEFINE p == pollers[t]
<1>1. p.at < p.last
  BY DEF Claim, IInv, PollsSound, PollSound
<1>2. Reached' = Reached \cup {p.at + 1}
  BY DEF Claim, Reached
<1>3. PollsSound' /\ pollers' \in [Threads -> Poll] /\ p.at + 1 \in Mails
  BY <1>1, <1>2, PassSound DEF Claim
<1>4. TypeOK'
  BY <1>3 DEF Claim, Fault, service, IInv, TypeOK
<1> QED BY <1>2, <1>3, <1>4 DEF Claim, IInv, CursorSound

LEMMA SaveCursorSound == ASSUME IInv, NEW t \in Threads, SaveCursor(t) PROVE IInv'
<1> DEFINE p == pollers[t]
           q == [p EXCEPT !.phase = "top"]
<1>1. pollers' = [pollers EXCEPT ![t] = q]
  BY DEF SaveCursor, Enters, IInv, TypeOK
<1>2. p \in Poll /\ mailbox \in Positions /\ PollSound(p, mailbox, Reached)
  BY DEF IInv, TypeOK, PollsSound
<1>3. q \in Poll /\ q.at = p.at /\ q.last = p.last /\ q.high = p.high
      /\ q.base = p.base /\ q.phase = "top"
  BY <1>2 DEF Poll, Phases
<1>4. Reached \subseteq Reached'
  BY DEF SaveCursor, Reached
<1>5. PollsSound' /\ pollers' \in [Threads -> Poll]
  <2>1. mailbox' = mailbox /\ mailbox \in Nat
    BY <1>2, PollingAssumption DEF SaveCursor, Positions
  <2>2. PollSound(q, mailbox', Reached') /\ mailbox <= mailbox' /\ mailbox' \in Nat
    BY <1>2, <1>3, <2>1 DEF PollSound
  <2> HIDE DEF q
  <2> QED BY <1>1, <1>3, <1>4, <2>2, OnePoll
<1>6. p.high \in Positions /\ p.high <= mailbox
  BY <1>2 DEF Poll, PollSound
<1>7. 1..p.high \subseteq Mails
  BY <1>6, PollingAssumption DEF Positions, Mails
<1>8. 1..p.high \subseteq Reached'
  <2>1. CASE p.fresh
    BY <2>1 DEF SaveCursor, Reached
  <2>2. CASE ~p.fresh
    BY <2>2, <1>2, <1>4 DEF SaveCursor, PollSound
  <2> QED BY <2>1, <2>2
<1>9. TypeOK'
  BY <1>5, <1>6, <1>7 DEF SaveCursor, service, IInv, TypeOK
<1> QED BY <1>5, <1>6, <1>8, <1>9 DEF SaveCursor, IInv, CursorSound

LEMMA ServiceSound ==
    ASSUME IInv, StopBegins \/ StopEnds \/ ClearData \/ Arrive
    PROVE  IInv'
<1>1. TypeOK'
  <2>1. CASE StopBegins
    BY <2>1 DEF StopBegins, Fault, store, history, IInv, TypeOK
  <2>2. CASE StopEnds
    BY <2>2 DEF StopEnds, store, history, IInv, TypeOK
  <2>3. CASE ClearData
    BY <2>3 DEF ClearData, Fault, service, history, IInv, TypeOK
  <2>4. CASE Arrive
    <3>1. mailbox' \in Positions
      BY <2>4, PollingAssumption DEF Arrive, IInv, TypeOK, Positions
    <3> QED BY <2>4, <3>1 DEF Arrive, store, service, history, IInv, TypeOK
  <2> QED BY <2>1, <2>2, <2>3, <2>4
<1>2. /\ UNCHANGED pollers /\ mailbox' \in Nat /\ mailbox <= mailbox'
      /\ Reached' = Reached /\ cursor' \in {cursor, None}
  BY PollingAssumption
     DEF StopBegins, StopEnds, ClearData, Arrive, store, service, history, Reached,
         IInv, TypeOK, Positions
<1>3. PollsSound'
  BY <1>2, NoPollTouched
<1>4. CursorSound'
  BY <1>2, PollingAssumption DEF IInv, CursorSound, TypeOK, Positions
<1> QED BY <1>1, <1>3, <1>4 DEF IInv

LEMMA CrashSound == ASSUME IInv, Crash PROVE IInv'
<1>1. NoPoll \in Poll /\ NoPoll.base = 0 /\ NoPoll.at = 0 /\ NoPoll.last = 0
      /\ NoPoll.high = 0 /\ NoPoll.phase = "none"
  BY NoPollIsPoll
<1>2. TypeOK'
  <2>1. pollers' \in [Threads -> Poll]
    BY <1>1 DEF Crash
  <2>2. thread' \in Threads \cup {None} /\ stopping' \in BOOLEAN /\ wanted' \in BOOLEAN
    BY DEF Crash
  <2>3. faults' \in Nat
    BY DEF Crash, Fault, IInv, TypeOK
  <2> QED BY <2>1, <2>2, <2>3 DEF Crash, store, history, IInv, TypeOK
<1>3. mailbox \in Nat
  BY PollingAssumption DEF IInv, TypeOK, Positions
<1>4. PollsSound'
  BY <1>1, <1>3 DEF Crash, PollsSound, PollSound
<1> QED BY <1>2, <1>4 DEF Crash, store, history, IInv, CursorSound, Reached

LEMMA StepSound == IInv /\ [Next]_vars => IInv'
<1> SUFFICES ASSUME IInv, [Next]_vars PROVE IInv'
  OBVIOUS
<1>1. CASE UNCHANGED vars
  BY <1>1 DEF vars, IInv, TypeOK, PollsSound, CursorSound, Reached
<1>2. ASSUME NEW t \in Threads, Start(t) \/ PollStep(t) \/ Expired(t) \/ PollFails(t)
      PROVE  IInv'
  BY <1>2, StartSound, BeginPollSound, LoadCursorSound, ListPageSound, EmitSound,
     ClaimSound, PageDoneSound, SaveCursorSound, ExpiredSound, PollFailsSound
     DEF PollStep
<1>3. CASE StopBegins \/ StopEnds \/ ClearData \/ Arrive
  BY <1>3, ServiceSound
<1>4. CASE Crash
  BY <1>4, CrashSound
<1> QED BY <1>1, <1>2, <1>3, <1>4 DEF Next

-----------------------------------------------------------------------------
\* Every variable of the poller keeps its type.
THEOREM PollingTypes == Spec => []TypeOK
<1>1. IInv => TypeOK
  BY DEF IInv
<1> QED BY <1>1, InitSound, StepSound, PTL DEF Spec

\* Whatever the cursor has passed was claimed, lies before a baseline or was
\* passed over by a stop or a failing claim, with any number of pollers at once.
THEOREM CursorCoversAll == Spec => []CursorCovers
<1>1. IInv => CursorCovers
  BY DEF IInv, CursorSound, CursorCovers, Covered, Reached
<1> QED BY <1>1, InitSound, StepSound, PTL DEF Spec
=============================================================================
