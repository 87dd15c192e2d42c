------------------------ MODULE ActionOwnershipProofs ------------------------
(***************************************************************************)
(* Proofs about ActionOwnership for any number of workers, ids, values and *)
(* lifetimes.  The methods of the lease owner are treated first, as lemmas *)
(* about one record; the inductive invariant of the specification then     *)
(* relates that record to the workers, dialogs and executions.             *)
(***************************************************************************)
EXTENDS ActionOwnership, TLAPS

(***************************************************************************)
(* The lease owner.                                                        *)
(***************************************************************************)

\* What every method of the service keeps: the record is well formed and
\* coherent, a question is about an incomplete or an unconfirmed operation, a
\* confirmation about a complete one, a search about a search id.
Sound(s) ==
    /\ s \in LeaseOwner
    /\ Coherent(s)
    /\ s.current # None => s.digests[s.current.id] = s.current
    /\ s.pending # None => ~(Ready(s.pending.request) /\ s.pending.request.id \in ConfirmIds)
    /\ \A l \in s.confirmations : /\ Ready(l.request) /\ l.request.id \in ConfirmIds
                                  /\ l.lease <= s.issued
    /\ s.search # None => Ready(s.search.request) /\ s.search.request.id \in SearchIds
    /\ s.ready # None => Ready(s.ready.request) /\ s.ready.request.id \in SearchIds

\* A search of this id is under way or admitted.
Searched(s, i) == \/ s.search # None /\ s.search.request.id = i
                  \/ s.ready # None /\ s.ready.request.id = i

\* What a method leaves alone of what others hold: ids stay bound, only a fresh
\* id is searched anew, new confirmations have new numbers.
Keeps(s, t) ==
    /\ \A i \in Ids : /\ s.digests[i] # None => t.digests[i] # None
                      /\ Searched(t, i) => Searched(s, i) \/ s.digests[i] = None
    /\ t.issued >= s.issued
    /\ \A l \in t.confirmations : l \in s.confirmations \/ l.lease > s.issued

\* A trusted revision: the current request becomes another under the same id.
Revises(s, t) ==
    /\ t.epoch = s.epoch /\ t.issued >= s.issued
    /\ s.current # None /\ t.current # None /\ s.current.id = t.current.id
    /\ s.digests[t.current.id] = s.current
    /\ t.digests = [s.digests EXCEPT ![t.current.id] = t.current]
    /\ (s.pending # None /\ t.pending # None) =>
         t.pending.lease = s.pending.lease /\ t.pending.deadline = s.pending.deadline
    /\ t.confirmations = {}

LEMMA KeepsTransitive ==
    ASSUME NEW s \in LeaseOwner, NEW t \in LeaseOwner, NEW u \in LeaseOwner,
           Keeps(s, t), Keeps(t, u)
    PROVE  Keeps(s, u)
BY DEF Searched, Keeps, LeaseOwner, Confirmation

\* An owner that holds nothing any more.
LEMMA EmptySound ==
    ASSUME NEW s, Sound(s), NEW t \in LeaseOwner,
           t.current = None, t.pending = None, t.search = None, t.ready = None,
           t.confirmations = {}, t.digests = s.digests, t.issued = s.issued
    PROVE  Sound(t) /\ Keeps(s, t)
<1>1. Coherent(t)
  BY DEF Coherent
<1>2. Sound(t)
  BY <1>1 DEF Sound
<1>3. Keeps(s, t)
  BY DEF Searched, Keeps, Sound, LeaseOwner
<1> QED
  BY <1>2, <1>3

LEMMA DisownType ==
    ASSUME NEW s \in LeaseOwner
    PROVE  /\ Disown(s) \in LeaseOwner
           /\ Disown(s).current = None /\ Disown(s).confirmations = {}
           /\ Disown(s).digests = s.digests /\ Disown(s).issued = s.issued
           /\ Disown(s).search = s.search /\ Disown(s).ready = s.ready
           /\ Disown(s).pending = s.pending /\ Disown(s).epoch = s.epoch + 1
<1> DEFINE a == [s EXCEPT !.epoch = @ + 1]
           b == [a EXCEPT !.current = None]
           c == [b EXCEPT !.confirmations = {}]
<1>1. a \in LeaseOwner
  BY DEF LeaseOwner
<1>2. b \in LeaseOwner
  <2> HIDE DEF a
  <2> QED
    BY <1>1 DEF LeaseOwner
<1>3. c \in LeaseOwner
  <2> HIDE DEF b
  <2> QED
    BY <1>2 DEF LeaseOwner
<1>4. Disown(s) = c
  BY DEF Disown
<1> QED
  BY <1>3, <1>4 DEF Disown, LeaseOwner

LEMMA FinishSound ==
    ASSUME NEW s, Sound(s), s.pending # None, NEW outcome
    PROVE  Sound(Finish(s, outcome)) /\ Keeps(s, Finish(s, outcome))
<1>1. CASE outcome \in {"cancelled", "expired"}
  <2> DEFINE d == Disown(s)
             f == [d EXCEPT !.pending = None]
  <2>1. Finish(s, outcome) = f
    BY <1>1 DEF Finish
  <2>2. s.search = None /\ s.ready = None
    BY DEF Sound, Coherent
  <2>3. /\ d \in LeaseOwner /\ d.current = None /\ d.confirmations = {}
        /\ d.digests = s.digests /\ d.issued = s.issued
        /\ d.search = None /\ d.ready = None
    BY <2>2, DisownType DEF Sound
  <2> HIDE DEF d
  <2>4. /\ f \in LeaseOwner /\ f.current = None /\ f.pending = None
        /\ f.confirmations = {} /\ f.digests = s.digests /\ f.issued = s.issued
        /\ f.search = None /\ f.ready = None
    BY <2>3 DEF LeaseOwner
  <2> HIDE DEF f
  <2> QED
    BY <2>1, <2>4, EmptySound
<1>2. CASE outcome \notin {"cancelled", "expired"}
  <2> DEFINE f == [s EXCEPT !.pending = None]
  <2>1. Finish(s, outcome) = f
    BY <1>2 DEF Finish
  <2>2. Sound(f) /\ Keeps(s, f)
    BY NoneAssumption DEF Sound, Coherent, Owns, LeaseOwner, Searched, Keeps, Ready
  <2> QED
    BY <2>1, <2>2
<1> QED
  BY <1>1, <1>2

LEMMA SupersedeSound ==
    ASSUME NEW s, Sound(s)
    PROVE  /\ Sound(Supersede(s)) /\ Keeps(s, Supersede(s))
           /\ Supersede(s).search = None /\ Supersede(s).ready = None
           /\ Supersede(s).pending = None /\ Supersede(s).confirmations = {}
<1> DEFINE d == Disown(s)
           f == [d EXCEPT !.search = None, !.ready = None, !.pending = None]
<1>1. /\ d \in LeaseOwner /\ d.current = None /\ d.confirmations = {}
      /\ d.digests = s.digests /\ d.issued = s.issued
  BY DisownType DEF Sound
<1>2. Supersede(s) = f
  BY DEF Supersede
<1> HIDE DEF d
<1>3. /\ f \in LeaseOwner /\ f.current = None /\ f.pending = None
      /\ f.confirmations = {} /\ f.digests = s.digests /\ f.issued = s.issued
      /\ f.search = None /\ f.ready = None
  BY <1>1 DEF LeaseOwner
<1> HIDE DEF f
<1> QED
  BY <1>2, <1>3, EmptySound

LEMMA InvalidateSound ==
    ASSUME NEW s, Sound(s)
    PROVE  Sound(Invalidate(s)) /\ Keeps(s, Invalidate(s))
<1> DEFINE f == IF s.pending = None THEN s ELSE Finish(s, "cancelled")
<1>1. Sound(f) /\ Keeps(s, f)
  BY FinishSound DEF Searched, Keeps, Sound, LeaseOwner
<1>2. Sound(Supersede(f)) /\ Keeps(f, Supersede(f))
  BY <1>1, SupersedeSound
<1>3. Keeps(s, Supersede(f))
  BY <1>1, <1>2, KeepsTransitive DEF Sound
<1> QED
  BY <1>2, <1>3 DEF Invalidate

LEMMA ExpireSound ==
    ASSUME NEW s, Sound(s), NEW n \in Nat
    PROVE  Sound(Expire(s, n)) /\ Keeps(s, Expire(s, n))
<1> DEFINE a == ExpireSearch(s, n)
           b == ExpireQuestion(a, n)
<1>1. Sound(a) /\ Keeps(s, a)
  BY InvalidateSound DEF ExpireSearch, Searched, Keeps, Sound, LeaseOwner
<1>2. Sound(b) /\ Keeps(a, b)
  BY <1>1, FinishSound DEF ExpireQuestion, Searched, Keeps, Sound, LeaseOwner
<1>3. Sound(Expire(s, n)) /\ Keeps(b, Expire(s, n))
  <2> HIDE DEF a, b
  <2> DEFINE c == [b EXCEPT !.confirmations = {l \in @ : n < l.deadline}]
  <2>1. /\ c.epoch = b.epoch /\ c.current = b.current /\ c.digests = b.digests
        /\ c.pending = b.pending /\ c.search = b.search /\ c.ready = b.ready
        /\ c.issued = b.issued /\ c.confirmations \subseteq b.confirmations
        /\ c \in LeaseOwner
    BY <1>2 DEF Sound, LeaseOwner
  <2>2. b.confirmations = {} => c.confirmations = {}
    BY <2>1
  <2>3. Sound(c) /\ Keeps(b, c)
    <3> HIDE DEF c
    <3>1. Coherent(c)
      BY <1>2, <2>1, <2>2 DEF Sound, Coherent, Owns
    <3> QED
      BY <1>2, <2>1, <3>1 DEF Sound, Searched, Keeps, LeaseOwner
  <2> QED
    BY <2>3 DEF Expire, a, b
<1> QED
  BY <1>1, <1>2, <1>3, KeepsTransitive DEF Sound

\* The claimed request is the owner's, and its id bound, unless it is rejected.
LEMMA ClaimSound ==
    ASSUME NEW s, Sound(s), NEW r \in Request
    PROVE  /\ Sound(Claim(s, r)) /\ Keeps(s, Claim(s, r))
           /\ Claim(s, r).digests[r.id] # None
           /\ ~ClaimRejected(s, r) =>
                /\ Claim(s, r).current = r
                /\ \/ Claim(s, r) = s
                   \/ /\ Claim(s, r).search = None /\ Claim(s, r).ready = None
                      /\ Claim(s, r).pending = None /\ Claim(s, r).confirmations = {}
<1>1. CASE ClaimRejected(s, r)
  <2>1. Claim(s, r) = Invalidate(s) /\ s.digests[r.id] # None
    BY <1>1 DEF Claim, ClaimRejected
  <2> QED
    BY <1>1, <2>1, InvalidateSound DEF Searched, Keeps, Request
<1>2. CASE ~ClaimRejected(s, r) /\ s.current = r
  <2>1. Claim(s, r) = s
    BY <1>2 DEF Claim
  <2> QED
    BY <1>2, <2>1, NoneAssumption DEF Sound, Searched, Keeps, LeaseOwner
<1>3. CASE ~ClaimRejected(s, r) /\ s.current # r
  <2> DEFINE t == Supersede(s)
             c == [t EXCEPT !.digests[r.id] = r, !.current = r]
  <2>1. Claim(s, r) = c
    BY <1>3 DEF Claim
  <2>2. Sound(t) /\ Keeps(s, t)
    BY SupersedeSound
  <2>3. /\ t.search = None /\ t.ready = None /\ t.pending = None
        /\ t.confirmations = {}
    BY SupersedeSound
  <2>4. /\ c.search = None /\ c.ready = None /\ c.pending = None
        /\ c.confirmations = {} /\ c.current = r /\ c.issued = t.issued
        /\ c.digests = [t.digests EXCEPT ![r.id] = r] /\ c \in LeaseOwner
    BY <2>2, <2>3 DEF Sound, LeaseOwner, Request
  <2>5. Sound(c) /\ Keeps(t, c) /\ c.digests[r.id] # None
    <3> HIDE DEF c, t
    <3> QED
      BY <2>2, <2>3, <2>4, NoneAssumption DEF Sound, Coherent, Owns, Searched, Keeps, LeaseOwner, Request
  <2> QED
    BY <1>3, <2>1, <2>2, <2>4, <2>5, KeepsTransitive DEF Sound
<1> QED
  BY <1>1, <1>2, <1>3

\* A request that still misses parameters, or needs no confirmation, owns
\* neither a confirmation nor a search.
LEMMA AskedOwnsNothing ==
    ASSUME NEW s, Sound(s), NEW r \in Request, s.current = r,
           ~(Ready(r) /\ r.id \in ConfirmIds)
    PROVE  s.search = None /\ s.ready = None /\ s.confirmations = {}
BY IdsAssumption DEF Sound, Coherent, Owns

LEMMA AskSound ==
    ASSUME NEW s, Sound(s), NEW r \in Request, NEW n \in Nat, s.current = r,
           ~(Ready(r) /\ r.id \in ConfirmIds)
    PROVE  Sound(Ask(s, r, n)) /\ Keeps(s, Ask(s, r, n))
<1> DEFINE q == [lease |-> s.issued + 1, revision |-> 0, request |-> r,
                 epoch |-> s.epoch, deadline |-> n + ClarificationLifetime]
           a == [s EXCEPT !.issued = @ + 1]
           b == [a EXCEPT !.pending = q]
<1>1. q \in Question /\ q # None /\ q.request = r /\ q.epoch = s.epoch
  BY NoneAssumption, LifetimeAssumption DEF Question, Sound, LeaseOwner
<1>2. /\ a \in LeaseOwner /\ a.epoch = s.epoch /\ a.current = r
      /\ a.digests = s.digests /\ a.search = s.search /\ a.ready = s.ready
      /\ a.confirmations = s.confirmations /\ a.issued = s.issued + 1
  BY DEF Sound, LeaseOwner
<1>3. s.search = None /\ s.ready = None /\ s.confirmations = {}
  BY AskedOwnsNothing
<1>4. Ask(s, r, n) = b
  BY DEF Ask
<1> HIDE DEF q, a
<1>5. /\ b \in LeaseOwner /\ b.epoch = s.epoch /\ b.current = r
      /\ b.digests = s.digests /\ b.search = None /\ b.ready = None
      /\ b.confirmations = {} /\ b.issued = s.issued + 1 /\ b.pending = q
  BY <1>1, <1>2, <1>3 DEF LeaseOwner
<1> HIDE DEF b
<1>6. Coherent(b)
  BY <1>1, <1>5 DEF Coherent, Owns
<1>7. Sound(b) /\ Keeps(s, b)
  BY <1>1, <1>5, <1>6 DEF Sound, Searched, Keeps, LeaseOwner
<1> QED
  BY <1>4, <1>7

LEMMA BeginSound ==
    ASSUME NEW s, Sound(s), NEW r \in Request, NEW n \in Nat,
           ~(Ready(r) /\ r.id \in ConfirmIds)
    PROVE  Sound(Begin(s, r, n)) /\ Keeps(s, Begin(s, r, n))
<1> DEFINE c == Claim(s, r)
<1>1. Sound(c) /\ Keeps(s, c)
  BY ClaimSound
<1>2. CASE ClaimRejected(s, r) \/ (c.pending # None /\ c.pending.request.id = r.id)
  BY <1>1, <1>2 DEF Begin
<1>3. CASE ~(ClaimRejected(s, r) \/ (c.pending # None /\ c.pending.request.id = r.id))
  <2>1. c.current = r
    BY <1>3, ClaimSound
  <2>2. Begin(s, r, n) = Ask(c, r, n)
    BY <1>3 DEF Begin
  <2> HIDE DEF c
  <2>3. Sound(Ask(c, r, n)) /\ Keeps(c, Ask(c, r, n))
    BY <1>1, <2>1, AskSound
  <2> QED
    BY <1>1, <2>2, <2>3, KeepsTransitive DEF Sound
<1> QED
  BY <1>2, <1>3

\* What resolving and continuing have in common: the current request is revised
\* and its owner now holds nothing, an admitted search or the revised question.
LEMMA ReboundSound ==
    ASSUME NEW s, Sound(s), NEW r \in Request, NEW t \in LeaseOwner,
           s.current # None, s.current.id = r.id, s.confirmations = {},
           t.epoch = s.epoch, t.current = r, t.digests = [s.digests EXCEPT ![r.id] = r],
           t.confirmations = {}, t.issued = s.issued, t.search = None,
           \/ t.pending = None /\ t.ready = None
           \/ /\ t.pending = None /\ Ready(r) /\ r.id \in SearchIds /\ Searched(s, r.id)
              /\ t.ready # None /\ t.ready.request = r /\ t.ready.search.epoch = s.epoch
           \/ /\ t.ready = None /\ ~Ready(r)
              /\ t.pending # None /\ t.pending.request = r /\ t.pending.epoch = s.epoch
              /\ s.pending # None => /\ t.pending.lease = s.pending.lease
                                     /\ t.pending.deadline = s.pending.deadline
    PROVE  Sound(t) /\ Keeps(s, t) /\ Revises(s, t)
<1>1. r.id \in Ids /\ t.digests[r.id] = r /\ r # None
  BY NoneAssumption DEF Sound, LeaseOwner, Request
<1>2. Coherent(t)
  BY DEF Coherent, Owns
<1>3. Sound(t)
  BY <1>1, <1>2 DEF Sound
<1>4. Keeps(s, t)
  BY <1>1 DEF Searched, Keeps, Sound, LeaseOwner
<1>5. Revises(s, t)
  BY <1>1 DEF Revises, Sound, LeaseOwner
<1> QED
  BY <1>3, <1>4, <1>5

LEMMA RebindType ==
    ASSUME NEW s \in LeaseOwner, NEW r \in Request
    PROVE  /\ Rebind(s, r) \in LeaseOwner
           /\ Rebind(s, r).epoch = s.epoch /\ Rebind(s, r).current = r
           /\ Rebind(s, r).digests = [s.digests EXCEPT ![r.id] = r]
           /\ Rebind(s, r).pending = s.pending /\ Rebind(s, r).search = s.search
           /\ Rebind(s, r).ready = s.ready /\ Rebind(s, r).issued = s.issued
           /\ Rebind(s, r).confirmations = s.confirmations
<1> DEFINE d == [s.digests EXCEPT ![r.id] = r]
           a == [s EXCEPT !.digests = d]
           b == [a EXCEPT !.current = r]
<1>1. d \in [Ids -> Request \cup {None}]
  BY DEF LeaseOwner, Request
<1>2. Rebind(s, r) = b
  BY DEF Rebind, LeaseOwner
<1> HIDE DEF d
<1>3. a \in LeaseOwner
  BY <1>1 DEF LeaseOwner
<1>4. /\ b \in LeaseOwner /\ b.epoch = s.epoch /\ b.current = r /\ b.digests = d
      /\ b.pending = s.pending /\ b.search = s.search /\ b.ready = s.ready
      /\ b.issued = s.issued /\ b.confirmations = s.confirmations
  BY <1>1, <1>3 DEF LeaseOwner
<1> QED
  BY <1>2, <1>4 DEF d

LEMMA RevisedType ==
    ASSUME NEW p \in Question, NEW v \in Values
    PROVE  Revised(p, v) \in Request /\ Revised(p, v).id = p.request.id
<1> DEFINE g == IF p.request.gaps > 0 THEN p.request.gaps - 1 ELSE 0
           a == [p.request EXCEPT !.gaps = g]
           b == [a EXCEPT !.value = v]
<1>1. p.request \in Request /\ g \in 0 .. MaxGaps
  BY GapsAssumption DEF Question, Request
<1>2. Revised(p, v) = b
  BY <1>1 DEF Revised, Request
<1> HIDE DEF g
<1>3. b \in Request /\ b.id = p.request.id
  BY <1>1 DEF Request
<1> QED
  BY <1>2, <1>3

LEMMA AskedAgainType ==
    ASSUME NEW p \in Question, NEW r \in Request
    PROVE  /\ AskedAgain(p, r) \in Question
           /\ AskedAgain(p, r).request = r /\ AskedAgain(p, r).epoch = p.epoch
           /\ AskedAgain(p, r).lease = p.lease /\ AskedAgain(p, r).deadline = p.deadline
<1> DEFINE a == [p EXCEPT !.request = r]
           b == [a EXCEPT !.revision = @ + 1]
<1>1. /\ a \in Question /\ a.request = r /\ a.epoch = p.epoch
      /\ a.lease = p.lease /\ a.deadline = p.deadline
  BY DEF Question
<1>2. AskedAgain(p, r) = b
  BY DEF AskedAgain, Question
<1> HIDE DEF a
<1>3. /\ b \in Question /\ b.request = r /\ b.epoch = p.epoch
      /\ b.lease = p.lease /\ b.deadline = p.deadline
  BY <1>1 DEF Question
<1> QED
  BY <1>2, <1>3

LEMMA ResolveValueSound ==
    ASSUME NEW s, Sound(s), s.pending # None, NEW v \in Values
    PROVE  /\ Sound(ResolveValue(s, v)) /\ Keeps(s, ResolveValue(s, v))
           /\ ResolveValue(s, v).current = Revised(s.pending, v)
           /\ Revises(s, ResolveValue(s, v))
           /\ ResolveValue(s, v).search = None /\ ResolveValue(s, v).ready = None
<1> DEFINE r == Revised(s.pending, v)
           b == Rebind(s, r)
<1>1. /\ s \in LeaseOwner /\ s.pending \in Question /\ s.pending.request \in Request
      /\ s.current = s.pending.request /\ s.epoch = s.pending.epoch
      /\ s.search = None /\ s.ready = None /\ s.confirmations = {}
      /\ s.current # None
  BY NoneAssumption DEF Sound, Coherent, Owns, LeaseOwner, Question
<1>2. r \in Request /\ s.current.id = r.id
  BY <1>1, RevisedType
<1> HIDE DEF r
<1>3. /\ b \in LeaseOwner /\ b.epoch = s.epoch /\ b.current = r
      /\ b.digests = [s.digests EXCEPT ![r.id] = r] /\ b.pending = s.pending
      /\ b.search = None /\ b.ready = None /\ b.issued = s.issued
      /\ b.confirmations = {}
  BY <1>1, <1>2, RebindType
<1> HIDE DEF b
<1>4. CASE Ready(r)
  <2> DEFINE t == [b EXCEPT !.pending = None]
  <2>1. ResolveValue(s, v) = t
    BY <1>4 DEF ResolveValue, Finish, r, b
  <2>2. /\ t \in LeaseOwner /\ t.epoch = s.epoch /\ t.current = r
        /\ t.digests = [s.digests EXCEPT ![r.id] = r] /\ t.pending = None
        /\ t.search = None /\ t.ready = None /\ t.issued = s.issued
        /\ t.confirmations = {}
    BY <1>3 DEF LeaseOwner
  <2> HIDE DEF t
  <2>3. Sound(t) /\ Keeps(s, t) /\ Revises(s, t)
    BY <1>1, <1>2, <2>2, ReboundSound
  <2> QED
    BY <2>1, <2>2, <2>3 DEF r
<1>5. CASE ~Ready(r)
  <2> DEFINE p == AskedAgain(s.pending, r)
             t == [b EXCEPT !.pending = p]
  <2>1. ResolveValue(s, v) = [b EXCEPT !.pending = AskedAgain(b.pending, r)]
    BY <1>5 DEF ResolveValue, r, b
  <2>2. /\ p \in Question /\ p.request = r /\ p.epoch = s.epoch
        /\ p.lease = s.pending.lease /\ p.deadline = s.pending.deadline
    BY <1>1, <1>2, AskedAgainType
  <2>3. ResolveValue(s, v) = t
    BY <1>3, <2>1
  <2> HIDE DEF p
  <2>4. /\ t \in LeaseOwner /\ t.epoch = s.epoch /\ t.current = r
        /\ t.digests = [s.digests EXCEPT ![r.id] = r] /\ t.pending = p
        /\ t.search = None /\ t.ready = None /\ t.issued = s.issued
        /\ t.confirmations = {} /\ p # None
    BY <1>3, <2>2, NoneAssumption DEF LeaseOwner
  <2> HIDE DEF t
  <2>5. Sound(t) /\ Keeps(s, t) /\ Revises(s, t)
    BY <1>1, <1>2, <1>5, <2>2, <2>4, ReboundSound
  <2> QED
    BY <2>3, <2>4, <2>5 DEF r
<1> QED
  BY <1>4, <1>5

LEMMA IssueSound ==
    ASSUME NEW s, Sound(s), NEW r \in Request, NEW n \in Nat,
           s.current = r, Ready(r), r.id \in ConfirmIds, ~Searched(s, r.id)
    PROVE  /\ Sound(IssueConfirmation(s, r, n)) /\ Keeps(s, IssueConfirmation(s, r, n))
           /\ IssueConfirmation(s, r, n).epoch = s.epoch
           /\ IssueConfirmation(s, r, n).current = r
<1>1. CASE LeaseOf(s, r) # {}
  BY <1>1 DEF IssueConfirmation, Searched, Keeps, Sound, LeaseOwner
<1>2. CASE LeaseOf(s, r) = {}
  <2> DEFINE l == [lease |-> s.issued + 1, epoch |-> s.epoch, request |-> r,
                   deadline |-> n + ConfirmationLifetime]
             a == [s EXCEPT !.issued = @ + 1]
             b == [a EXCEPT !.confirmations = @ \cup {l}]
  <2>1. /\ l \in Confirmation /\ l.lease = s.issued + 1 /\ l.epoch = s.epoch
        /\ l.request = r
    BY LifetimeAssumption DEF Confirmation, Sound, LeaseOwner
  <2>2. /\ a \in LeaseOwner /\ a.epoch = s.epoch /\ a.current = r
        /\ a.digests = s.digests /\ a.search = s.search /\ a.ready = s.ready
        /\ a.pending = s.pending /\ a.confirmations = s.confirmations
        /\ a.issued = s.issued + 1
    BY DEF Sound, LeaseOwner
  <2>3. IssueConfirmation(s, r, n) = b
    BY <1>2 DEF IssueConfirmation
  <2>4. s.pending = None /\ s.search = None /\ s.ready = None
    BY DEF Sound, Coherent, Owns, Searched
  <2> HIDE DEF l, a
  <2>5. /\ b \in LeaseOwner /\ b.epoch = s.epoch /\ b.current = r
        /\ b.digests = s.digests /\ b.search = None /\ b.ready = None
        /\ b.pending = None /\ b.confirmations = s.confirmations \cup {l}
        /\ b.issued = s.issued + 1
    BY <2>1, <2>2, <2>4 DEF LeaseOwner
  <2> HIDE DEF b
  <2>6. Coherent(b)
    <3>1. \A m \in s.confirmations : m.lease # l.lease
      BY <2>1 DEF Sound, LeaseOwner, Confirmation
    <3> QED
      BY <2>1, <2>5, <3>1 DEF Sound, Coherent, Owns
  <2>7. Sound(b)
    BY <2>1, <2>4, <2>5, <2>6 DEF Sound, LeaseOwner, Confirmation
  <2>8. Keeps(s, b)
    BY <2>1, <2>5 DEF Sound, Searched, Keeps, LeaseOwner
  <2> QED
    BY <2>3, <2>5, <2>7, <2>8
<1> QED
  BY <1>1, <1>2

\* Single use, and the dispatcher's clear, which drops several leases at once.
LEMMA DropSound ==
    ASSUME NEW s, Sound(s), NEW C
    PROVE  LET t == [s EXCEPT !.confirmations = @ \ C]
           IN  /\ Sound(t) /\ Keeps(s, t) /\ t.confirmations = s.confirmations \ C
               /\ t.epoch = s.epoch /\ t.current = s.current
<1> DEFINE t == [s EXCEPT !.confirmations = @ \ C]
<1>1. /\ t \in LeaseOwner /\ t.epoch = s.epoch /\ t.current = s.current
      /\ t.digests = s.digests /\ t.search = s.search /\ t.ready = s.ready
      /\ t.pending = s.pending /\ t.confirmations = s.confirmations \ C
      /\ t.issued = s.issued
  BY DEF Sound, LeaseOwner
<1> HIDE DEF t
<1>2. Coherent(t)
  BY <1>1 DEF Sound, Coherent, Owns
<1>3. Sound(t) /\ Keeps(s, t)
  BY <1>1, <1>2 DEF Sound, Searched, Keeps, LeaseOwner
<1> QED
  BY <1>1, <1>3 DEF t

LEMMA StartSearchSound ==
    ASSUME NEW s, Sound(s), NEW r \in Request, NEW n \in Nat,
           r.id \in SearchIds, Ready(r), s.digests[r.id] = None
    PROVE  /\ Sound(StartSearch(s, r, n)) /\ Keeps(s, StartSearch(s, r, n))
           /\ StartSearch(s, r, n).search \in Search
<1> DEFINE c == Claim(s, r)
<1>1. ~ClaimRejected(s, r) /\ s.current # r
  BY NoneAssumption DEF ClaimRejected, Sound
<1>2. /\ Sound(c) /\ Keeps(s, c) /\ c.current = r /\ c.digests[r.id] # None
      /\ c.ready = None /\ c.pending = None /\ c.confirmations = {}
  <2>1. c # s
    BY <1>1, ClaimSound
  <2> QED
    BY <1>1, <2>1, ClaimSound
<1> HIDE DEF c
<1> DEFINE q == [gen |-> c.issued + 1, epoch |-> c.epoch, request |-> r,
                 deadline |-> n + ClarificationLifetime]
           a == [c EXCEPT !.issued = @ + 1]
           b == [a EXCEPT !.ready = None, !.search = q]
<1>3. StartSearch(s, r, n) = b
  BY <1>1 DEF StartSearch, c
<1>4. q \in Search /\ q # None /\ q.request = r /\ q.epoch = c.epoch
  BY <1>2, LifetimeAssumption, NoneAssumption DEF Search, Sound, LeaseOwner
<1>5. /\ a \in LeaseOwner /\ a.epoch = c.epoch /\ a.current = r
      /\ a.digests = c.digests /\ a.pending = None /\ a.confirmations = {}
      /\ a.issued = c.issued + 1
  BY <1>2 DEF Sound, LeaseOwner
<1> HIDE DEF q, a
<1>6. /\ b \in LeaseOwner /\ b.epoch = c.epoch /\ b.current = r
      /\ b.digests = c.digests /\ b.pending = None /\ b.confirmations = {}
      /\ b.issued = c.issued + 1 /\ b.ready = None /\ b.search = q
  BY <1>4, <1>5 DEF LeaseOwner
<1> HIDE DEF b
<1>7. Sound(b)
  <2>1. Coherent(b)
    BY <1>4, <1>6 DEF Coherent, Owns
  <2> QED
    BY <1>2, <1>4, <1>6, <2>1 DEF Sound
<1>8. Keeps(s, b)
  <2>1. \A i \in Ids : s.digests[i] # None => b.digests[i] # None
    BY <1>2, <1>6 DEF Keeps
  <2>2. \A i \in Ids : Searched(b, i) => s.digests[i] = None
    BY <1>4, <1>6 DEF Searched
  <2>3. b.issued >= s.issued
    BY <1>2, <1>6 DEF Keeps, Sound, LeaseOwner
  <2> QED
    BY <1>6, <2>1, <2>2, <2>3 DEF Keeps
<1> QED
  BY <1>3, <1>4, <1>6, <1>7, <1>8

LEMMA RevisionType ==
    ASSUME NEW q \in Request, NEW g \in 0 .. MaxGaps, NEW v \in Values
    PROVE  LET r == [q EXCEPT !.gaps = g, !.value = v]
           IN  r \in Request /\ r.id = q.id /\ r.gaps = g
BY DEF Request

LEMMA AdmitSound ==
    ASSUME NEW s, Sound(s), NEW q \in Search, s.search = q, NEW v \in Values
    PROVE  LET t == AdmitSearch(s, q, v)
           IN  /\ Sound(t) /\ Keeps(s, t) /\ Revises(s, t)
               /\ t.pending = None /\ t.search = None /\ t.ready.search = q
<1> DEFINE r == [q.request EXCEPT !.gaps = 0, !.value = v]
           m == [search |-> q, request |-> r]
           b == Rebind(s, r)
           t == [b EXCEPT !.search = None, !.ready = m]
<1>1. /\ s \in LeaseOwner /\ q # None /\ q.request \in Request
      /\ s.current = q.request /\ s.epoch = q.epoch
      /\ s.pending = None /\ s.ready = None /\ s.confirmations = {}
      /\ q.request.id \in SearchIds /\ s.current # None
  <2>1. q # None /\ q.request \in Request
    BY NoneAssumption DEF Search
  <2> QED
    BY <2>1, NoneAssumption DEF Sound, Coherent, Owns
<1>2. /\ r \in Request /\ Ready(r) /\ r.id = q.request.id
      /\ m \in Admission /\ m # None
  <2>1. 0 \in 0 .. MaxGaps
    BY GapsAssumption
  <2>2. r \in Request /\ r.id = q.request.id /\ r.gaps = 0
    BY <1>1, <2>1, RevisionType
  <2> HIDE DEF r
  <2> QED
    BY <2>2, NoneAssumption DEF Ready, Admission
<1>3. m.search = q /\ m.request = r
  OBVIOUS
<1>4. AdmitSearch(s, q, v) = t
  BY DEF AdmitSearch
<1> HIDE DEF r, m
<1>5. /\ b \in LeaseOwner /\ b.epoch = s.epoch /\ b.current = r
      /\ b.digests = [s.digests EXCEPT ![r.id] = r] /\ b.pending = None
      /\ b.issued = s.issued /\ b.confirmations = {}
  BY <1>1, <1>2, RebindType
<1> HIDE DEF b
<1>6. /\ t \in LeaseOwner /\ t.epoch = s.epoch /\ t.current = r
      /\ t.digests = [s.digests EXCEPT ![r.id] = r] /\ t.pending = None
      /\ t.issued = s.issued /\ t.confirmations = {} /\ t.search = None
      /\ t.ready = m
  BY <1>2, <1>5 DEF LeaseOwner
<1> HIDE DEF t
<1>7. Searched(s, r.id)
  BY <1>1, <1>2 DEF Searched
<1>8. Sound(t) /\ Keeps(s, t) /\ Revises(s, t)
  BY <1>1, <1>2, <1>3, <1>6, <1>7, ReboundSound
<1> QED
  BY <1>3, <1>4, <1>6, <1>8

LEMMA AskSearchSound ==
    ASSUME NEW s, Sound(s), NEW q \in Search, s.search = q, NEW v \in Values,
           NEW n \in Nat
    PROVE  Sound(AskSearch(s, q, v, n)) /\ Keeps(s, AskSearch(s, q, v, n))
<1> DEFINE r == [q.request EXCEPT !.gaps = 1, !.value = v]
           b == Rebind(s, r)
           t == [b EXCEPT !.search = None]
<1>1. /\ s \in LeaseOwner /\ q # None /\ q.request \in Request
      /\ s.current = q.request /\ s.current # None
      /\ s.pending = None /\ s.ready = None /\ s.confirmations = {}
  <2>1. q # None /\ q.request \in Request
    BY NoneAssumption DEF Search
  <2> QED
    BY <2>1, NoneAssumption DEF Sound, Coherent, Owns
<1>2. r \in Request /\ ~Ready(r) /\ r.id = q.request.id
  <2>1. 1 \in 0 .. MaxGaps
    BY GapsAssumption
  <2>2. r \in Request /\ r.id = q.request.id /\ r.gaps = 1
    BY <1>1, <2>1, RevisionType
  <2> QED
    BY <2>2 DEF Ready
<1>3. AskSearch(s, q, v, n) = Begin(t, r, n)
  BY DEF AskSearch
<1> HIDE DEF r
<1>4. /\ b \in LeaseOwner /\ b.epoch = s.epoch /\ b.current = r
      /\ b.digests = [s.digests EXCEPT ![r.id] = r] /\ b.pending = None
      /\ b.issued = s.issued /\ b.confirmations = {} /\ b.ready = None
  BY <1>1, <1>2, RebindType
<1> HIDE DEF b
<1>5. /\ t \in LeaseOwner /\ t.epoch = s.epoch /\ t.current = r
      /\ t.digests = [s.digests EXCEPT ![r.id] = r] /\ t.pending = None
      /\ t.issued = s.issued /\ t.confirmations = {} /\ t.search = None
      /\ t.ready = None
  BY <1>4 DEF LeaseOwner
<1> HIDE DEF t
<1>6. Sound(t) /\ Keeps(s, t)
  BY <1>1, <1>2, <1>5, ReboundSound
<1>7. Sound(Begin(t, r, n)) /\ Keeps(t, Begin(t, r, n))
  BY <1>2, <1>6, BeginSound
<1>8. Keeps(s, Begin(t, r, n))
  BY <1>6, <1>7, KeepsTransitive DEF Sound
<1> QED
  BY <1>3, <1>7, <1>8

LEMMA KeepsReflexive ==
    ASSUME NEW s, Sound(s)
    PROVE  Keeps(s, s)
BY DEF Sound, Searched, Keeps, LeaseOwner

LEMMA ContinuedSound ==
    ASSUME NEW s, Sound(s), NEW q \in Search, NEW v \in Values,
           NEW kind \in SearchKinds
    PROVE  now \in Nat => Sound(Continued(s, q, v, kind)) /\ Keeps(s, Continued(s, q, v, kind))
<1> SUFFICES ASSUME now \in Nat
             PROVE  Sound(Continued(s, q, v, kind)) /\ Keeps(s, Continued(s, q, v, kind))
  OBVIOUS
<1>1. CASE ~OwnsSearch(s, q, now)
  BY <1>1, KeepsReflexive DEF Continued
<1>2. CASE OwnsSearch(s, q, now)
  <2>1. s.search = q
    BY <1>2 DEF OwnsSearch
  <2>2. CASE kind = "unique"
    BY <1>2, <2>1, <2>2, AdmitSound DEF Continued
  <2>3. CASE kind = "many"
    BY <1>2, <2>1, <2>3, AskSearchSound DEF Continued
  <2>4. CASE kind = "rejected"
    <3> DEFINE t == [s EXCEPT !.search = None]
    <3>1. Continued(s, q, v, kind) = t
      BY <1>2, <2>4 DEF Continued
    <3>2. /\ t \in LeaseOwner /\ t.epoch = s.epoch /\ t.current = s.current
          /\ t.digests = s.digests /\ t.search = None /\ t.ready = s.ready
          /\ t.pending = s.pending /\ t.confirmations = s.confirmations
          /\ t.issued = s.issued
      BY DEF Sound, LeaseOwner
    <3> HIDE DEF t
    <3>3. Coherent(t)
      BY <3>2 DEF Sound, Coherent, Owns
    <3>4. Sound(t) /\ Keeps(s, t)
      BY <3>2, <3>3 DEF Sound, Searched, Keeps, LeaseOwner
    <3> QED
      BY <3>1, <3>4
  <2>5. CASE kind = "failed"
    BY <1>2, <2>5, InvalidateSound DEF Continued
  <2> QED
    BY <2>2, <2>3, <2>4, <2>5 DEF SearchKinds
<1> QED
  BY <1>1, <1>2

LEMMA ResolveSound ==
    ASSUME NEW s, Sound(s), NEW named, NEW v \in Values, NEW kind
    PROVE  Sound(Resolve(s, named, v, kind)) /\ Keeps(s, Resolve(s, named, v, kind))
BY FinishSound, ResolveValueSound, KeepsReflexive DEF Resolve

(***************************************************************************)
(* The inductive invariant: what workers and executions may hold against   *)
(* the lease owner.  A worker's request is complete, its id is bound and   *)
(* not the id of a search still to be admitted, so that a confirmation for *)
(* it never meets a pending question or search; a lease it carries was     *)
(* issued for that very request and is no longer waiting for an answer.    *)
(***************************************************************************)

JobOK(job, s) ==
    /\ Ready(job.request)
    /\ s.digests[job.request.id] # None
    /\ ~Searched(s, job.request.id)
    /\ job.outcome = "confirm" => job.request.id \in ConfirmIds
    /\ job.outcome = "candidates" => job.request.id \notin ConfirmIds
    /\ job.lease # None => /\ job.lease.request = job.request
                           /\ job.lease \notin s.confirmations
                           /\ job.lease.lease <= s.issued
    /\ (job.stage = "execute" /\ job.request.id \in ConfirmIds) => job.lease # None

ExecutionOK(e, s) ==
    /\ e.request.id \in ConfirmIds => e.lease # None
    /\ e.lease # None => /\ e.lease.request = e.request
                         /\ e.lease \notin s.confirmations
                         /\ e.lease.lease <= s.issued

Authority(s, J, X) ==
    /\ Sound(s)
    /\ \A w \in Workers : J[w] # None => JobOK(J[w], s)
    /\ \A w, u \in Workers :
         (w # u /\ J[w] # None /\ J[u] # None /\ J[w].lease # None)
            => J[u].lease # J[w].lease
    /\ \A e \in X : ExecutionOK(e, s)
    /\ \A w \in Workers, e \in X :
         (J[w] # None /\ J[w].lease # None /\ e.lease = J[w].lease)
            => J[w].stage = "report"

IInv == TypeOK /\ Authority(leases, jobs, executed)

\* A method that keeps what others hold keeps every worker and execution valid.
LEMMA OwnerStep ==
    ASSUME NEW s, NEW t, NEW J \in [Workers -> Job \cup {None}],
           NEW X \in SUBSET Execution, Authority(s, J, X), Sound(t), Keeps(s, t)
    PROVE  Authority(t, J, X)
<1>1. \A l \in Confirmation : (l \notin s.confirmations /\ l.lease <= s.issued)
                                => (l \notin t.confirmations /\ l.lease <= t.issued)
  BY DEF Keeps, Authority, Sound, LeaseOwner, Confirmation
<1>2. ASSUME NEW w \in Workers, J[w] # None
      PROVE  JobOK(J[w], t)
  <2>1. /\ JobOK(J[w], s) /\ J[w].request.id \in Ids
        /\ J[w].lease \in Confirmation \cup {None}
    BY <1>2 DEF Authority, Job, Request
  <2>2. t.digests[J[w].request.id] # None /\ ~Searched(t, J[w].request.id)
    BY <2>1 DEF JobOK, Keeps
  <2> QED
    BY <1>1, <2>1, <2>2 DEF JobOK
<1>3. ASSUME NEW e \in X
      PROVE  ExecutionOK(e, t)
  BY <1>1 DEF Authority, ExecutionOK, Execution
<1> QED
  BY <1>2, <1>3 DEF Authority

\* One worker takes, keeps or drops its job.
LEMMA WorkerStep ==
    ASSUME NEW s, NEW J \in [Workers -> Job \cup {None}], NEW X, NEW w \in Workers,
           NEW j, Authority(s, J, X), j # None => JobOK(j, s),
           (j # None /\ j.lease # None) =>
              /\ \A u \in Workers \ {w} : J[u] # None => J[u].lease # j.lease
              /\ \A e \in X : e.lease = j.lease => j.stage = "report"
    PROVE  Authority(s, [J EXCEPT ![w] = j], X)
BY DEF Authority

\* The worker that goes on with the lease it carries.
LEMMA SameLeaseStep ==
    ASSUME NEW s, NEW J \in [Workers -> Job \cup {None}], NEW X, NEW w \in Workers,
           NEW j, Authority(s, J, X), J[w] # None, JobOK(j, s),
           j.lease = J[w].lease, J[w].stage # "report" \/ j.stage = "report"
    PROVE  Authority(s, [J EXCEPT ![w] = j], X)
<1>1. j.lease # None =>
        /\ \A u \in Workers \ {w} : J[u] # None => J[u].lease # j.lease
        /\ \A e \in X : e.lease = j.lease => j.stage = "report"
  BY DEF Authority
<1> QED
  BY <1>1, WorkerStep

LEMMA ShownType ==
    ASSUME NEW s \in LeaseOwner
    PROVE  Shown(s) \in Shows \cup {None}
BY DEF Shown, Shows, LeaseOwner, Question

LEMMA RefreshedSound ==
    ASSUME Sound(leases), now \in Nat, NEW s, Sound(s), Keeps(leases, s), Refreshed(s)
    PROVE  /\ Sound(leases') /\ Keeps(leases, leases') /\ Keeps(s, leases')
           /\ panel' \in Shows \cup {None}
<1>1. Sound(leases') /\ Keeps(s, leases') /\ panel' = Shown(leases')
  BY ExpireSound DEF Refreshed
<1>2. Keeps(leases, leases')
  BY <1>1, KeepsTransitive DEF Sound
<1> QED
  BY <1>1, <1>2, ShownType DEF Sound

\* Preparing a request that no search is about.
LEMMA PrepareStep ==
    ASSUME TypeOK, Authority(leases, jobs, executed), NEW w \in Workers, NEW r \in Request,
           ~Searched(leases, r.id), PrepareWith(w, r)
    PROVE  /\ leases' \in LeaseOwner /\ panel' \in Shows \cup {None}
           /\ jobs' \in [Workers -> Job \cup {None}]
           /\ Authority(leases', jobs', executed)
<1> DEFINE c == Claim(leases, r)
           s == Expire(c, now)
           prepared == IF ClaimRejected(leases, r) \/ Ready(r) THEN c
                       ELSE IF Owns(s, r, c.epoch) THEN Begin(s, r, now) ELSE s
           j == IF ClaimRejected(leases, r) \/ ~Ready(r) THEN None
                ELSE NewJob(r, None, "capture", 0, FALSE)
<1>1. Sound(leases) /\ now \in Nat /\ jobs \in [Workers -> Job \cup {None}]
      /\ executed \in SUBSET Execution
  BY DEF TypeOK, Authority
<1>2. Sound(c) /\ Keeps(leases, c) /\ c.digests[r.id] # None
  BY <1>1, ClaimSound
<1>3. ~ClaimRejected(leases, r) => ~Searched(c, r.id)
  BY <1>1, ClaimSound DEF Searched
<1>4. Sound(prepared) /\ Keeps(c, prepared)
  <2> HIDE DEF c
  <2>1. Sound(s) /\ Keeps(c, s)
    BY <1>1, <1>2, ExpireSound
  <2> HIDE DEF s
  <2>2. ~Ready(r) => Sound(Begin(s, r, now)) /\ Keeps(c, Begin(s, r, now))
    BY <1>1, <1>2, <2>1, BeginSound, KeepsTransitive DEF Sound
  <2> QED
    BY <1>2, <2>1, <2>2, KeepsReflexive
<1>5. Keeps(leases, prepared)
  BY <1>1, <1>2, <1>4, KeepsTransitive DEF Sound
<1>6. jobs' = [jobs EXCEPT ![w] = j] 
  BY DEF PrepareWith, SetJob
<1>7. \/ Refreshed(prepared)
      \/ leases' = prepared /\ panel' = panel
  BY DEF PrepareWith
<1> HIDE DEF prepared
<1>8. /\ Sound(leases') /\ Keeps(leases, leases') /\ Keeps(prepared, leases')
      /\ panel' \in Shows \cup {None}
  BY <1>1, <1>4, <1>5, <1>7, RefreshedSound, KeepsReflexive DEF TypeOK
<1>9. Keeps(c, leases')
  BY <1>2, <1>4, <1>8, KeepsTransitive DEF Sound
<1> HIDE DEF c
<1>10. j # None => /\ j \in Job /\ j.request = r /\ j.lease = None /\ Ready(r)
                   /\ j.outcome = "none" /\ j.stage = "capture"
                   /\ ~ClaimRejected(leases, r)
  BY DEF NewJob, Job, Stages, JobOutcomes
<1> HIDE DEF j
<1>11. j # None => JobOK(j, leases')
  BY <1>2, <1>3, <1>9, <1>10 DEF JobOK, Keeps, Request
<1>12. Authority(leases', jobs, executed)
  BY <1>1, <1>8, OwnerStep
<1>13. Authority(leases', jobs', executed)
  BY <1>1, <1>6, <1>10, <1>11, <1>12, WorkerStep
<1>14. jobs' \in [Workers -> Job \cup {None}]
  BY <1>1, <1>6, <1>10
<1> QED
  BY <1>8, <1>13, <1>14 DEF Sound

(***************************************************************************)
(* One lemma per action, or per group of actions that change the same      *)
(* things.                                                                 *)
(***************************************************************************)

\* The ids of direct requests and proposals never name a search.
LEMMA NotSearched ==
    ASSUME IInv, NEW i \in Ids, i \notin SearchIds
    PROVE  ~Searched(leases, i)
BY DEF IInv, Authority, Sound, Searched

LEMMA StepPrepare ==
    ASSUME IInv, NEW w \in Workers, NEW r \in Request,
           PrepareDirect(w, r) \/ PrepareProvider(w, r)
    PROVE  IInv'
<1>1. CASE PrepareDirect(w, r)
  <2>1. ~Searched(leases, r.id)
    BY <1>1, NotSearched DEF PrepareDirect, DirectIds, Request
  <2> QED
    BY <1>1, <2>1, PrepareStep DEF PrepareDirect, IInv, TypeOK, turnVars, grantVars
<1>2. CASE PrepareProvider(w, r)
  <2>1. ~Searched(leases, r.id)
    BY <1>2, NotSearched, IdsAssumption DEF PrepareProvider, Convertible, Request
  <2>2. r.id \in ProviderIds /\ TurnOf[r.id] \in Turns
    BY <1>2 DEF PrepareProvider, Convertible, Turns
  <2>3. /\ proposed' \subseteq ProviderIds /\ accepted' \in [Turns -> Ids \cup {None, "local"}]
        /\ now' = now /\ dialogs' = dialogs /\ searches' = searches /\ routed' = routed
        /\ turns' = turns /\ granted' = granted /\ revoking' = revoking
        /\ executed' = executed
    BY <1>2, <2>2 DEF PrepareProvider, Convertible, IInv, TypeOK, grantVars, Request
  <2>4. CASE PrepareWith(w, r)
    BY <2>1, <2>3, <2>4, PrepareStep DEF IInv, TypeOK
  <2>5. CASE UNCHANGED <<leases, panel, jobs>>
    BY <2>3, <2>5 DEF IInv, TypeOK
  <2> QED
    BY <1>2, <2>4, <2>5 DEF PrepareProvider
<1> QED
  BY <1>1, <1>2

\* A method of the application thread that refreshes the panel and leaves the
\* workers alone.
LEMMA StepRefreshed ==
    ASSUME IInv, NEW s, Sound(s), Keeps(leases, s), Refreshed(s), now' = now,
           jobs' = jobs, dialogs' = dialogs, executed' = executed,
           searches' \subseteq Search, UNCHANGED <<proposed, turns>>,
           routed' \subseteq Turns, accepted' \in [Turns -> Ids \cup {None, "local"}],
           granted' \in BOOLEAN, revoking' \in BOOLEAN
    PROVE  IInv'
<1>1. /\ Sound(leases) /\ now \in Nat /\ jobs \in [Workers -> Job \cup {None}]
      /\ executed \in SUBSET Execution
  BY DEF IInv, TypeOK, Authority
<1>2. Sound(leases') /\ Keeps(leases, leases') /\ panel' \in Shows \cup {None}
  BY <1>1, RefreshedSound
<1>3. Authority(leases', jobs', executed')
  BY <1>1, <1>2, OwnerStep DEF IInv
<1>4. leases' \in LeaseOwner
  BY <1>2 DEF Sound
<1> QED
  BY <1>2, <1>3, <1>4 DEF IInv, TypeOK

LEMMA StepPrepareInvalid ==
    ASSUME IInv, NEW r \in Request, PrepareInvalid(r)
    PROVE  IInv'
<1> DEFINE c == Claim(leases, r)
           s == IF ClaimRejected(leases, r) THEN c ELSE Supersede(c)
<1>1. Sound(leases)
  BY DEF IInv, Authority
<1>2. Sound(c) /\ Keeps(leases, c)
  BY <1>1, ClaimSound
<1> HIDE DEF c
<1>3. Sound(Supersede(c)) /\ Keeps(leases, Supersede(c))
  BY <1>1, <1>2, SupersedeSound, KeepsTransitive DEF Sound
<1>4. Sound(s) /\ Keeps(leases, s)
  BY <1>2, <1>3
<1>5. Refreshed(s)
  BY DEF PrepareInvalid, c
<1> HIDE DEF s
<1> QED
  BY <1>4, <1>5, StepRefreshed
     DEF PrepareInvalid, turnVars, grantVars, IInv, TypeOK

LEMMA StepPrepareResolved ==
    ASSUME IInv, NEW w \in Workers, PrepareResolved(w)
    PROVE  IInv'
<1>1. jobs[w] \in Job /\ jobs[w] # None /\ jobs[w].request \in Request
  BY DEF PrepareResolved, AtStage, Idle, IInv, TypeOK, Job
<1>2. ~Searched(leases, jobs[w].request.id)
  BY <1>1 DEF IInv, Authority, JobOK
<1> QED
  BY <1>1, <1>2, PrepareStep DEF PrepareResolved, IInv, TypeOK, turnVars, grantVars

\* A worker step that leaves the lease owner alone: the worker ends, or goes on
\* with the request and the lease it has.
LEMMA StepWorker ==
    ASSUME IInv, NEW w \in Workers, NEW j, jobs[w] # None, SetJob(w, j),
           \/ j = None
           \/ /\ j \in Job /\ j.request = jobs[w].request /\ j.lease = jobs[w].lease
              /\ JobOK(j, leases) /\ jobs[w].stage # "report",
           UNCHANGED <<leases, now, panel, dialogs, searches, turnVars, grantVars, executed>>
    PROVE  IInv'
<1>1. jobs \in [Workers -> Job \cup {None}] /\ Authority(leases, jobs, executed)
  BY DEF IInv, TypeOK
<1>2. jobs' = [jobs EXCEPT ![w] = j]
  BY DEF SetJob
<1>3. Authority(leases, [jobs EXCEPT ![w] = j], executed)
  <2>1. CASE j = None
    BY <1>1, <2>1, WorkerStep
  <2>2. CASE j # None
    BY <1>1, <2>2, SameLeaseStep
  <2> QED
    BY <2>1, <2>2
<1>4. jobs' \in [Workers -> Job \cup {None}]
  BY <1>1, <1>2
<1> QED
  BY <1>2, <1>3, <1>4 DEF IInv, TypeOK, turnVars, grantVars

Captured(job, e, g) ==
    [job EXCEPT !.epoch = e, !.stage = "evaluate", !.guarded = g]

LEMMA CapturedType ==
    ASSUME NEW job \in Job, NEW e \in Nat, NEW g \in BOOLEAN
    PROVE  LET j == Captured(job, e, g)
           IN  /\ j \in Job /\ j.request = job.request /\ j.lease = job.lease
               /\ j.stage = "evaluate" /\ j.outcome = job.outcome
<1> DEFINE a == [job EXCEPT !.epoch = e, !.stage = "evaluate"]
           b == [a EXCEPT !.guarded = g]
<1>1. /\ a \in Job /\ a.request = job.request /\ a.lease = job.lease
      /\ a.stage = "evaluate" /\ a.outcome = job.outcome
  BY DEF Job, Stages
<1>2. Captured(job, e, g) = b
  BY DEF Captured
<1> HIDE DEF a
<1>3. /\ b.request = a.request /\ b.lease = a.lease /\ b.stage = a.stage
      /\ b.outcome = a.outcome
  BY <1>1 DEF Job
<1>4. b \in Job
  BY <1>1, Zenon DEF Job
<1> QED
  BY <1>1, <1>2, <1>3, <1>4

LEMMA StepCapture ==
    ASSUME IInv, NEW w \in Workers, Capture(w)
    PROVE  IInv'
<1> DEFINE g == \/ jobs[w].guarded
                \/ Lane(jobs[w].request) = "direct" /\ jobs[w].request.id \in GuardedIds
           j == Captured(jobs[w], leases.epoch, g)
<1>1. /\ jobs[w] # None /\ jobs[w] \in Job /\ JobOK(jobs[w], leases)
      /\ jobs[w].stage = "capture" /\ leases.epoch \in Nat
  BY DEF Capture, AtStage, Idle, IInv, TypeOK, Authority, LeaseOwner
<1>2. SetJob(w, None) \/ SetJob(w, j)
  BY DEF Capture, Captured
<1>3. g \in BOOLEAN
  BY <1>1 DEF Job
<1> HIDE DEF g
<1>4. /\ j \in Job /\ j.request = jobs[w].request /\ j.lease = jobs[w].lease
      /\ j.stage = "evaluate" /\ j.outcome = jobs[w].outcome
  BY <1>1, <1>3, CapturedType
<1> HIDE DEF j
<1>5. JobOK(j, leases)
  BY <1>1, <1>4 DEF JobOK
<1> QED
  BY <1>1, <1>2, <1>4, <1>5, StepWorker DEF Capture

LEMMA StepReadGrants ==
    ASSUME IInv, NEW w \in Workers, ReadGrants(w)
    PROVE  IInv'
<1> DEFINE denied == [jobs[w] EXCEPT !.stage = "report", !.outcome = "denied"]
           confirm == [jobs[w] EXCEPT !.stage = "report", !.outcome = "confirm"]
           execute == [jobs[w] EXCEPT !.stage = "execute"]
<1>1. /\ jobs[w] # None /\ jobs[w] \in Job /\ JobOK(jobs[w], leases)
      /\ jobs[w].stage = "evaluate"
  BY DEF ReadGrants, AtStage, Idle, IInv, TypeOK, Authority
<1>2. /\ denied \in Job /\ denied.request = jobs[w].request
      /\ denied.lease = jobs[w].lease /\ JobOK(denied, leases)
  BY <1>1 DEF Job, Stages, JobOutcomes, JobOK
<1>3. /\ confirm \in Job /\ confirm.request = jobs[w].request
      /\ confirm.lease = jobs[w].lease
      /\ jobs[w].request.id \in ConfirmIds => JobOK(confirm, leases)
  BY <1>1 DEF Job, Stages, JobOutcomes, JobOK
<1>4. /\ execute \in Job /\ execute.request = jobs[w].request
      /\ execute.lease = jobs[w].lease
      /\ ~(jobs[w].request.id \in ConfirmIds /\ jobs[w].lease = None)
           => JobOK(execute, leases)
  BY <1>1 DEF Job, Stages, JobOutcomes, JobOK
<1>5. \/ SetJob(w, None) \/ SetJob(w, denied)
      \/ SetJob(w, confirm) /\ jobs[w].request.id \in ConfirmIds
      \/ /\ SetJob(w, execute)
         /\ ~(jobs[w].request.id \in ConfirmIds /\ jobs[w].lease = None)
  BY DEF ReadGrants
<1> HIDE DEF denied, confirm, execute
<1> QED
  BY <1>1, <1>2, <1>3, <1>4, <1>5, StepWorker DEF ReadGrants

LEMMA StepExecute ==
    ASSUME IInv, NEW w \in Workers, NEW outcome \in {"done", "candidates", "matches"},
           Execute(w, outcome)
    PROVE  IInv'
<1> DEFINE j == [jobs[w] EXCEPT !.stage = "report", !.outcome = outcome]
           e == [request |-> jobs[w].request, lease |-> jobs[w].lease]
<1>1. /\ jobs[w] # None /\ jobs[w] \in Job /\ JobOK(jobs[w], leases)
      /\ jobs[w].stage = "execute" /\ jobs \in [Workers -> Job \cup {None}]
      /\ Authority(leases, jobs, executed)
  BY DEF Execute, AtStage, Idle, IInv, TypeOK, Authority
<1>2. /\ j \in Job /\ j.request = jobs[w].request /\ j.lease = jobs[w].lease
      /\ j.stage = "report" /\ j.outcome = outcome
  BY <1>1 DEF Job, Stages, JobOutcomes
<1>3. UNCHANGED <<leases, now, panel, dialogs, searches, turnVars, grantVars>>
  BY DEF Execute
<1>4. \/ SetJob(w, None) /\ executed' = executed
      \/ SetJob(w, j) /\ (executed' = executed \/ executed' = executed \cup {e})
  BY DEF Execute
<1>5. outcome = "candidates" => jobs[w].request.id \notin ConfirmIds
  BY DEF Execute, Outcomes
<1> HIDE DEF j
<1>6. JobOK(j, leases)
  BY <1>1, <1>2, <1>5 DEF JobOK
<1>7. e \in Execution /\ ExecutionOK(e, leases) /\ e.lease = jobs[w].lease
  BY <1>1 DEF Execution, Job, ExecutionOK, JobOK
<1> HIDE DEF e
<1>8. CASE executed' = executed
  <2>1. SetJob(w, None) \/ SetJob(w, j)
    BY <1>4
  <2> QED
    BY <1>1, <1>2, <1>3, <1>6, <1>8, <2>1, StepWorker
<1>9. CASE SetJob(w, j) /\ executed' = executed \cup {e}
  <2>1. jobs' = [jobs EXCEPT ![w] = j] /\ jobs' \in [Workers -> Job \cup {None}]
    BY <1>1, <1>2, <1>9 DEF SetJob
  <2>2. Authority(leases, jobs', executed)
    BY <1>1, <1>2, <1>6, <2>1, SameLeaseStep
  <2>3. \A u \in Workers \ {w} :
           (jobs'[u] # None /\ jobs'[u].lease # None) => e.lease # jobs'[u].lease
    BY <1>1, <1>7, <2>1 DEF Authority
  <2>4. jobs'[w] = j
    BY <1>1, <2>1
  <2>5. \A x \in executed' : ExecutionOK(x, leases)
    BY <1>7, <1>9, <2>2 DEF Authority
  <2>6. \A u \in Workers, x \in executed' :
          (jobs'[u] # None /\ jobs'[u].lease # None /\ x.lease = jobs'[u].lease)
             => jobs'[u].stage = "report"
    BY <1>2, <1>9, <2>2, <2>3, <2>4 DEF Authority
  <2>7. Authority(leases, jobs', executed')
    BY <2>2, <2>5, <2>6 DEF Authority
  <2> QED
    BY <1>3, <1>7, <1>9, <2>1, <2>7 DEF IInv, TypeOK, turnVars, grantVars
<1> QED
  BY <1>4, <1>8, <1>9

LEMMA StepReportDropped ==
    ASSUME IInv, NEW w \in Workers, ReportDropped(w)
    PROVE  IInv'
<1>1. jobs[w] # None /\ SetJob(w, None)
  BY DEF ReportDropped, Reporting, AtStage, Idle
<1> QED
  BY <1>1, StepWorker DEF ReportDropped

\* The lease owner changes and one worker ends or starts without a lease.
LEMMA StepUnleased ==
    ASSUME IInv, NEW w \in Workers, NEW j, SetJob(w, j), executed' = executed,
           Sound(leases'), Keeps(leases, leases'),
           j = None \/ (j \in Job /\ j.lease = None /\ JobOK(j, leases'))
    PROVE  /\ Authority(leases', jobs', executed')
           /\ leases' \in LeaseOwner /\ jobs' \in [Workers -> Job \cup {None}]
<1>1. /\ jobs \in [Workers -> Job \cup {None}] /\ executed \in SUBSET Execution
      /\ Authority(leases, jobs, executed)
  BY DEF IInv, TypeOK
<1>2. Authority(leases', jobs, executed)
  BY <1>1, OwnerStep
<1>3. jobs' = [jobs EXCEPT ![w] = j]
  BY DEF SetJob
<1>4. Authority(leases', jobs', executed')
  BY <1>1, <1>2, <1>3, WorkerStep
<1> QED
  BY <1>1, <1>3, <1>4 DEF Sound

LEMMA StepReportQuestion ==
    ASSUME IInv, NEW w \in Workers, NEW r \in Request, ReportQuestion(w, r)
    PROVE  IInv'
<1> DEFINE s == Expire(leases, now)
<1>1. /\ jobs[w] # None /\ jobs[w] \in Job /\ JobOK(jobs[w], leases)
      /\ Sound(leases) /\ now \in Nat
  BY DEF ReportQuestion, Reporting, AtStage, Idle, IInv, TypeOK, Authority
<1>2. Sound(s) /\ Keeps(leases, s)
  BY <1>1, ExpireSound
<1>3. leases' \in {Begin(s, r, now), s}
  BY DEF ReportQuestion
<1>4. ~(Ready(r) /\ r.id \in ConfirmIds)
  BY <1>1 DEF ReportQuestion, JobOK, Ready
<1>5. SetJob(w, None) /\ UNCHANGED <<now, dialogs, searches, turnVars, grantVars, executed>>
      /\ panel' \in {Shown(leases'), panel}
  BY DEF ReportQuestion
<1> HIDE DEF s
<1>6. Sound(Begin(s, r, now)) /\ Keeps(s, Begin(s, r, now))
  BY <1>1, <1>2, <1>4, BeginSound
<1>7. Sound(leases') /\ Keeps(leases, leases')
  BY <1>1, <1>2, <1>3, <1>6, KeepsTransitive DEF Sound
<1>8. panel' \in Shows \cup {None}
  BY <1>5, <1>7, ShownType DEF Sound, IInv, TypeOK
<1> QED
  BY <1>5, <1>7, <1>8, StepUnleased DEF IInv, TypeOK, turnVars, grantVars

LEMMA StepReportConfirmation ==
    ASSUME IInv, NEW w \in Workers, ReportConfirmation(w)
    PROVE  IInv'
<1> DEFINE s == Expire(leases, now)
           r == jobs[w].request
           t == IssueConfirmation(s, r, now)
<1>1. /\ jobs[w] # None /\ jobs[w] \in Job /\ JobOK(jobs[w], leases)
      /\ Sound(leases) /\ now \in Nat /\ jobs[w].outcome = "confirm" /\ r \in Request
  BY DEF ReportConfirmation, Reporting, AtStage, Idle, IInv, TypeOK, Authority, Job
<1>2. Sound(s) /\ Keeps(leases, s)
  BY <1>1, ExpireSound
<1>3. Ready(r) /\ r.id \in ConfirmIds /\ r.id \in Ids /\ ~Searched(s, r.id)
  BY <1>1, <1>2 DEF JobOK, Keeps, Request
<1>4. \/ leases' = s
      \/ leases' = t /\ s.current = r
  BY DEF ReportConfirmation, Owns
<1>5. /\ SetJob(w, None)
      /\ UNCHANGED <<now, panel, searches, turnVars, grantVars, executed>>
      /\ dialogs' = dialogs \cup {[lease |-> l, request |-> r] : l \in LeaseOf(leases', r)}
  BY DEF ReportConfirmation
<1> HIDE DEF s, r
<1>6. s.current = r => Sound(t) /\ Keeps(s, t)
  BY <1>1, <1>2, <1>3, IssueSound
<1> HIDE DEF t
<1>7. Sound(leases') /\ Keeps(leases, leases')
  BY <1>1, <1>2, <1>4, <1>6, KeepsTransitive DEF Sound
<1>8. dialogs' \subseteq Dialog
  <2>1. \A l \in LeaseOf(leases', r) : l \in Confirmation
    BY <1>7 DEF LeaseOf, Sound, LeaseOwner
  <2> QED
    BY <1>1, <1>5, <2>1 DEF IInv, TypeOK, Dialog
<1> QED
  BY <1>5, <1>7, <1>8, StepUnleased DEF IInv, TypeOK, turnVars, grantVars

LEMMA NewJobType ==
    ASSUME NEW r \in Request, NEW l \in Confirmation \cup {None}, NEW stage \in Stages,
           NEW e \in Nat, NEW g \in BOOLEAN
    PROVE  NewJob(r, l, stage, e, g) \in Job
BY Zenon DEF NewJob, Job, JobOutcomes

LEMMA StepAnswerDialog ==
    ASSUME IInv, NEW w \in Workers, NEW d \in dialogs, NEW approved \in BOOLEAN,
           AnswerDialog(w, d, approved)
    PROVE  IInv'
<1> DEFINE l == d.lease
           r == d.request
           direct == NewJob(r, l, "capture", l.epoch, r.id \in GuardedIds)
           provider == NewJob(r, l, "evaluate", 0, FALSE)
<1>1. /\ jobs \in [Workers -> Job \cup {None}] /\ executed \in SUBSET Execution
      /\ Authority(leases, jobs, executed) /\ Sound(leases)
      /\ l \in Confirmation /\ r \in Request /\ l.epoch \in Nat
  BY DEF IInv, TypeOK, Authority, Dialog, Confirmation
<1>2. /\ leases' = [leases EXCEPT !.confirmations = @ \ {l}]
      /\ dialogs' \subseteq dialogs
      /\ UNCHANGED <<now, panel, searches, turnVars, grantVars, executed>>
  BY DEF AnswerDialog, Consume
<1>3. /\ Sound(leases') /\ Keeps(leases, leases')
      /\ leases'.confirmations = leases.confirmations \ {l}
  BY <1>1, <1>2, DropSound
<1>4. Authority(leases', jobs, executed)
  BY <1>1, <1>3, OwnerStep
<1>5. PICK j \in {None, direct, provider} :
         SetJob(w, j) /\ (j # None => Permitted(leases, l, r, approved, now))
  BY DEF AnswerDialog, Approved
<1>6. j # None => /\ j \in Job /\ j.request = r /\ j.lease = l /\ j.outcome = "none"
                  /\ j.stage \in {"capture", "evaluate"}
  <2>1. "capture" \in Stages /\ "evaluate" \in Stages
        /\ (r.id \in GuardedIds) \in BOOLEAN /\ FALSE \in BOOLEAN /\ 0 \in Nat
    BY DEF Stages
  <2>2. provider \in Job /\ direct \in Job
    BY <1>1, <2>1, NewJobType, Zenon
  <2>3. /\ provider.request = r /\ provider.lease = l /\ provider.outcome = "none"
        /\ provider.stage = "evaluate"
        /\ direct.request = r /\ direct.lease = l /\ direct.outcome = "none"
        /\ direct.stage = "capture"
    BY DEF NewJob
  <2> HIDE DEF direct, provider
  <2> QED
    BY <1>5, <2>2, <2>3
<1> HIDE DEF direct, provider, l, r
<1>7. ASSUME j # None
      PROVE  /\ JobOK(j, leases')
             /\ \A u \in Workers \ {w} : jobs[u] # None => jobs[u].lease # j.lease
             /\ \A e \in executed : e.lease # j.lease
  <2>1. /\ l \in leases.confirmations /\ r = l.request /\ l \notin leases'.confirmations
    BY <1>3, <1>5, <1>7 DEF Permitted
  <2>2. /\ Ready(r) /\ r.id \in ConfirmIds /\ leases.current = r
        /\ l.lease <= leases.issued /\ leases.search = None /\ leases.ready = None
    BY <1>1, <2>1 DEF Sound, Coherent, Owns
  <2>3. leases.digests[r.id] # None /\ ~Searched(leases, r.id) /\ r.id \in Ids
    BY <1>1, <2>2, NoneAssumption DEF Sound, Searched, Request
  <2>4. l.lease <= leases'.issued
    BY <1>1, <1>3, <2>2 DEF Keeps, Sound, LeaseOwner, Confirmation
  <2>5. l # None
    BY <1>1, NoneAssumption
  <2>6. JobOK(j, leases')
    BY <1>3, <1>6, <1>7, <2>1, <2>2, <2>3, <2>4, <2>5 DEF JobOK, Keeps
  <2> QED
    BY <1>1, <1>6, <1>7, <2>1, <2>5, <2>6 DEF Authority, JobOK, ExecutionOK
<1>8. jobs' = [jobs EXCEPT ![w] = j] /\ jobs' \in [Workers -> Job \cup {None}]
  BY <1>1, <1>5, <1>6 DEF SetJob
<1>9. Authority(leases', jobs', executed)
  BY <1>1, <1>4, <1>7, <1>8, WorkerStep
<1> QED
  BY <1>2, <1>3, <1>8, <1>9 DEF IInv, TypeOK, turnVars, grantVars, Sound

\* An answer that completes the question pending starts a worker without a
\* lease for the revised request, whichever way the answer came.
LEMMA AnswerStep ==
    ASSUME IInv, NEW w \in Workers, NEW v \in Values, NEW kind, NEW named, NEW j,
           Refreshed(Resolve(Expire(leases, now), named, v, kind)), SetJob(w, j),
           UNCHANGED <<now, dialogs, searches, turnVars, grantVars, executed>>,
           j # None =>
              /\ Completes(Expire(leases, now), named, v, kind)
              /\ j \in Job /\ j.outcome = "none" /\ j.lease = None
              /\ j.request = Revised(Expire(leases, now).pending, v)
              /\ j.stage \in {"prepare", "capture"}
    PROVE  IInv'
<1> DEFINE s == Expire(leases, now)
           t == Resolve(s, named, v, kind)
<1>1. Sound(leases) /\ now \in Nat
  BY DEF IInv, TypeOK, Authority
<1>2. Sound(s) /\ Keeps(leases, s)
  BY <1>1, ExpireSound
<1>3. Sound(t) /\ Keeps(s, t)
  <2> HIDE DEF s
  <2> QED
    BY <1>2, ResolveSound
<1>4. Keeps(leases, t)
  <2> HIDE DEF s, t
  <2> QED
    BY <1>1, <1>2, <1>3, KeepsTransitive DEF Sound
<1>5. /\ Sound(leases') /\ Keeps(leases, leases') /\ Keeps(t, leases')
      /\ panel' \in Shows \cup {None}
  <2> HIDE DEF t
  <2> QED
    BY <1>1, <1>3, <1>4, RefreshedSound DEF t
<1>6. j # None => Completes(s, named, v, kind) /\ j.request = Revised(s.pending, v)
  OBVIOUS
<1>7. Keeps(s, leases')
  <2> HIDE DEF s, t
  <2> QED
    BY <1>2, <1>3, <1>5, KeepsTransitive DEF Sound
<1> HIDE DEF s, t
<1>8. ASSUME j # None
      PROVE  JobOK(j, leases')
  <2>1. /\ s.pending # None /\ s.pending \in Question /\ Ready(j.request)
        /\ s.search = None /\ s.ready = None /\ s.current = s.pending.request
    BY <1>2, <1>6, <1>8 DEF Completes, Sound, Coherent, Owns, LeaseOwner
  <2>2. s.pending.request \in Request /\ s.current # None
    BY <2>1, NoneAssumption DEF Question
  <2>3. /\ s.digests[j.request.id] # None /\ ~Searched(s, j.request.id)
        /\ j.request.id \in Ids
    BY <1>2, <1>6, <1>8, <2>1, <2>2, RevisedType DEF Sound, Searched, Request
  <2> QED
    BY <1>7, <1>8, <2>1, <2>3 DEF JobOK, Keeps
<1>9. /\ Authority(leases', jobs', executed')
      /\ leases' \in LeaseOwner /\ jobs' \in [Workers -> Job \cup {None}]
  BY <1>5, <1>8, StepUnleased
<1> QED
  BY <1>5, <1>9 DEF IInv, TypeOK, turnVars, grantVars

LEMMA StepAnswerPanel ==
    ASSUME IInv, NEW w \in Workers, NEW v \in Values, NEW kind \in Kinds,
           AnswerPanel(w, v, kind)
    PROVE  IInv'
<1> DEFINE s == Expire(leases, now)
           r == Revised(s.pending, v)
           n == NewJob(r, None, "capture", s.pending.epoch, TRUE)
           j == IF Completes(s, panel, v, kind) THEN n ELSE None
<1>1. Sound(s)
  BY ExpireSound DEF IInv, TypeOK, Authority
<1>2. /\ Refreshed(Resolve(Expire(leases, now), panel, v, kind)) /\ SetJob(w, j)
      /\ UNCHANGED <<now, dialogs, searches, turnVars, grantVars, executed>>
  BY DEF AnswerPanel
<1>3. /\ n.request = r /\ n.outcome = "none" /\ n.lease = None /\ n.stage = "capture"
  BY DEF NewJob
<1>4. ASSUME j # None
      PROVE  Completes(s, panel, v, kind) /\ j = n /\ n \in Job
  <2>1. Completes(s, panel, v, kind) /\ j = n
    BY <1>4
  <2> HIDE DEF s
  <2>2. s.pending \in Question
    BY <1>1, <2>1 DEF Completes, Sound, LeaseOwner
  <2>3. r \in Request /\ s.pending.epoch \in Nat /\ "capture" \in Stages
        /\ None \in Confirmation \cup {None} /\ TRUE \in BOOLEAN
    BY <2>2, RevisedType DEF Question, Stages
  <2>4. n \in Job
    BY <2>3, NewJobType, Zenon
  <2> QED
    BY <2>1, <2>4
<1> HIDE DEF j, n
<1> QED
  BY <1>2, <1>3, <1>4, AnswerStep

LEMMA StepAnswerText ==
    ASSUME IInv, NEW w \in Workers, NEW v \in Values, NEW kind \in Kinds,
           AnswerText(w, v, kind)
    PROVE  IInv'
<1> DEFINE s == Expire(leases, now)
           r == Revised(s.pending, v)
           n == NewJob(r, None, "prepare", 0, FALSE)
           j == IF Completes(s, Shown(s), v, kind) THEN n ELSE None
<1>1. Sound(s)
  BY ExpireSound DEF IInv, TypeOK, Authority
<1>2. /\ Refreshed(Resolve(Expire(leases, now), Shown(s), v, kind)) /\ SetJob(w, j)
      /\ UNCHANGED <<now, dialogs, searches, turnVars, grantVars, executed>>
  BY DEF AnswerText
<1>3. /\ n.request = r /\ n.outcome = "none" /\ n.lease = None /\ n.stage = "prepare"
  BY DEF NewJob
<1>4. ASSUME j # None
      PROVE  Completes(s, Shown(s), v, kind) /\ j = n /\ n \in Job
  <2>1. Completes(s, Shown(s), v, kind) /\ j = n
    BY <1>4
  <2> HIDE DEF s
  <2>2. s.pending \in Question
    BY <1>1, <2>1 DEF Completes, Sound, LeaseOwner
  <2>3. r \in Request /\ 0 \in Nat /\ "prepare" \in Stages
        /\ None \in Confirmation \cup {None} /\ FALSE \in BOOLEAN
    BY <2>2, RevisedType DEF Stages
  <2>4. n \in Job
    BY <2>3, NewJobType, Zenon
  <2> QED
    BY <2>1, <2>4
<1> HIDE DEF j, n
<1> QED
  BY <1>2, <1>3, <1>4, AnswerStep

LEMMA StepRefreshPanel ==
    ASSUME IInv, RefreshPanel
    PROVE  IInv'
<1>1. Sound(leases) /\ Keeps(leases, leases)
  BY KeepsReflexive DEF IInv, Authority
<1> QED
  BY <1>1, StepRefreshed DEF RefreshPanel, turnVars, grantVars, IInv, TypeOK

LEMMA StepStartLocalSearch ==
    ASSUME IInv, NEW i \in SearchIds, NEW v \in Values, StartLocalSearch(i, v)
    PROVE  IInv'
<1> DEFINE r == [id |-> i, gaps |-> 0, value |-> v]
           s == StartSearch(leases, r, now)
<1>1. Sound(leases) /\ now \in Nat
  BY DEF IInv, TypeOK, Authority
<1>2. r \in Request /\ r.id = i /\ Ready(r)
  BY IdsAssumption, GapsAssumption DEF Request, Ready
<1>3. /\ leases.digests[i] = None /\ Refreshed(s) /\ searches' = searches \cup {s.search}
      /\ UNCHANGED <<now, jobs, dialogs, turnVars, grantVars, executed>>
  BY DEF StartLocalSearch
<1> HIDE DEF r
<1>4. Sound(s) /\ Keeps(leases, s) /\ s.search \in Search
  BY <1>1, <1>2, <1>3, StartSearchSound
<1> HIDE DEF s
<1> QED
  BY <1>3, <1>4, StepRefreshed DEF turnVars, grantVars, IInv, TypeOK

LEMMA StepSearchResult ==
    ASSUME IInv, NEW q \in searches, NEW v \in Values, NEW kind \in SearchKinds,
           SearchResult(q, v, kind)
    PROVE  IInv'
<1> DEFINE s == Expire(leases, now)
           t == Continued(s, q, v, kind)
<1>1. Sound(leases) /\ now \in Nat /\ q \in Search
  BY DEF IInv, TypeOK, Authority
<1>2. Sound(s) /\ Keeps(leases, s)
  BY <1>1, ExpireSound
<1>3. /\ Refreshed(t) /\ searches' = searches \ {q}
      /\ UNCHANGED <<now, jobs, dialogs, turnVars, grantVars, executed>>
  BY DEF SearchResult
<1> HIDE DEF s
<1>4. Sound(t) /\ Keeps(s, t)
  BY <1>1, <1>2, ContinuedSound
<1> HIDE DEF t
<1>5. Keeps(leases, t)
  BY <1>1, <1>2, <1>4, KeepsTransitive DEF Sound
<1> QED
  BY <1>3, <1>4, <1>5, StepRefreshed DEF turnVars, grantVars, IInv, TypeOK

LEMMA StepEnqueueSearch ==
    ASSUME IInv, NEW w \in Workers, EnqueueSearch(w)
    PROVE  IInv'
<1> DEFINE s == Expire(leases, now)
           t == [s EXCEPT !.ready = None]
           n == NewJob(s.ready.request, None, "evaluate", s.epoch, TRUE)
           j == IF s.ready # None /\ Owns(s, s.ready.request, s.ready.search.epoch)
                THEN n ELSE None
<1>1. Sound(leases) /\ now \in Nat
  BY DEF IInv, TypeOK, Authority
<1>2. Sound(s) /\ Keeps(leases, s)
  BY <1>1, ExpireSound
<1>3. /\ leases' = t /\ SetJob(w, j)
      /\ UNCHANGED <<now, panel, dialogs, searches, turnVars, grantVars, executed>>
  BY DEF EnqueueSearch
<1> HIDE DEF s
<1>4. /\ t \in LeaseOwner /\ t.epoch = s.epoch /\ t.current = s.current
      /\ t.digests = s.digests /\ t.search = s.search /\ t.ready = None
      /\ t.pending = s.pending /\ t.confirmations = s.confirmations
      /\ t.issued = s.issued
  BY <1>2 DEF Sound, LeaseOwner
<1> HIDE DEF t
<1>5. Sound(t) /\ Keeps(s, t)
  <2>1. Coherent(t)
    BY <1>2, <1>4 DEF Sound, Coherent, Owns
  <2> QED
    BY <1>2, <1>4, <2>1 DEF Sound, Searched, Keeps, LeaseOwner
<1>6. Keeps(leases, t)
  BY <1>1, <1>2, <1>5, KeepsTransitive DEF Sound
<1>7. ASSUME j # None
      PROVE  j \in Job /\ j.lease = None /\ JobOK(j, t)
  <2>1. s.ready # None /\ j = n /\ s.current = s.ready.request
    BY <1>7 DEF Owns
  <2>2. /\ s.ready.request \in Request /\ s.epoch \in Nat /\ s.current # None
        /\ Ready(s.ready.request) /\ s.search = None
    BY <1>2, <2>1, NoneAssumption DEF Sound, Coherent, LeaseOwner, Admission
  <2>3. "evaluate" \in Stages /\ None \in Confirmation \cup {None} /\ TRUE \in BOOLEAN
    BY DEF Stages
  <2>4. n \in Job
    BY <2>2, <2>3, NewJobType, Zenon
  <2>5. /\ n.request = s.ready.request /\ n.lease = None /\ n.outcome = "none"
        /\ n.stage = "evaluate"
    BY DEF NewJob
  <2>6. t.digests[s.ready.request.id] # None /\ ~Searched(t, s.ready.request.id)
    BY <1>2, <1>4, <2>1, <2>2 DEF Sound, Searched
  <2> HIDE DEF n
  <2>7. JobOK(n, t)
    BY <2>2, <2>5, <2>6 DEF JobOK
  <2> QED
    BY <2>1, <2>4, <2>5, <2>7
<1> HIDE DEF j
<1>8. /\ Authority(leases', jobs', executed')
      /\ leases' \in LeaseOwner /\ jobs' \in [Workers -> Job \cup {None}]
  BY <1>3, <1>5, <1>6, <1>7, StepUnleased
<1> QED
  BY <1>3, <1>8 DEF IInv, TypeOK, turnVars, grantVars

\* Turns, the grant and the clock: nothing the invariant relates changes.
LEMMA StepTurn ==
    ASSUME IInv, NEW t \in Turns,
           OpenTurn(t) \/ CompleteRouting(t) \/ ClaimLocalAction(t) \/ CloseTurn(t)
    PROVE  IInv'
<1>1. /\ turns' \subseteq Turns /\ routed' \subseteq Turns
      /\ accepted' \in [Turns -> Ids \cup {None, "local"}]
      /\ UNCHANGED <<leases, now, panel, jobs, dialogs, searches, proposed, grantVars,
                     executed>>
  BY DEF OpenTurn, CompleteRouting, ClaimLocalAction, CloseTurn, IInv, TypeOK
<1> QED
  BY <1>1 DEF IInv, TypeOK, grantVars

LEMMA StepGrantAndClock ==
    ASSUME IInv, Grant \/ RevokeWrite \/ Tick
    PROVE  IInv'
<1>1. /\ granted' \in BOOLEAN /\ revoking' \in BOOLEAN /\ now' \in Nat
      /\ UNCHANGED <<leases, panel, jobs, dialogs, searches, turnVars, executed>>
  <2>0. granted \in BOOLEAN /\ revoking \in BOOLEAN /\ now \in Nat
    BY DEF IInv, TypeOK
  <2>1. CASE Grant
    BY <2>0, <2>1 DEF Grant
  <2>2. CASE RevokeWrite
    BY <2>0, <2>2 DEF RevokeWrite
  <2>3. CASE Tick
    BY <2>0, <2>3 DEF Tick, grantVars
  <2> QED
    BY <2>1, <2>2, <2>3
<1> QED
  BY <1>1 DEF IInv, TypeOK, turnVars

LEMMA StepRefuseBatch ==
    ASSUME IInv, RefuseBatch
    PROVE  IInv'
<1>1. /\ Sound(leases) /\ jobs \in [Workers -> Job \cup {None}]
      /\ executed \in SUBSET Execution /\ Authority(leases, jobs, executed)
  BY DEF IInv, TypeOK, Authority
<1>2. Sound(leases') /\ Keeps(leases, leases')
  BY <1>1, SupersedeSound DEF RefuseBatch
<1>3. Authority(leases', jobs, executed)
  BY <1>1, <1>2, OwnerStep
<1> QED
  BY <1>2, <1>3 DEF RefuseBatch, IInv, TypeOK, turnVars, grantVars, Sound

LEMMA StepClearProvider ==
    ASSUME IInv, ClearProvider
    PROVE  IInv'
<1> DEFINE C == {d.lease : d \in {d \in dialogs : Lane(d.request) = "provider"}}
<1>1. /\ Sound(leases) /\ jobs \in [Workers -> Job \cup {None}]
      /\ executed \in SUBSET Execution /\ Authority(leases, jobs, executed)
  BY DEF IInv, TypeOK, Authority
<1>2. /\ leases' = [leases EXCEPT !.confirmations = @ \ C] /\ dialogs' \subseteq dialogs
      /\ UNCHANGED <<now, panel, jobs, searches, turnVars, grantVars, executed>>
  BY DEF ClearProvider
<1> HIDE DEF C
<1>3. Sound(leases') /\ Keeps(leases, leases')
  BY <1>1, <1>2, DropSound
<1>4. Authority(leases', jobs, executed)
  BY <1>1, <1>3, OwnerStep
<1> QED
  BY <1>2, <1>3, <1>4 DEF IInv, TypeOK, turnVars, grantVars, Sound

LEMMA StepStop ==
    ASSUME IInv, Stop
    PROVE  IInv'
<1>1. /\ Sound(leases) /\ jobs \in [Workers -> Job \cup {None}] /\ now \in Nat
      /\ executed \in SUBSET Execution /\ Authority(leases, jobs, executed)
  BY DEF IInv, TypeOK, Authority
<1>2. Sound(Invalidate(leases)) /\ Keeps(leases, Invalidate(leases))
  BY <1>1, InvalidateSound
<1>3. /\ Sound(leases') /\ Keeps(leases, leases') /\ panel' \in Shows \cup {None}
  BY <1>1, <1>2, RefreshedSound DEF Stop
<1>4. /\ jobs' \in [Workers -> Job \cup {None}]
      /\ \A w \in Workers : jobs'[w] = None \/ jobs'[w] = jobs[w]
  BY <1>1 DEF Stop
<1>5. Authority(leases', jobs, executed)
  BY <1>1, <1>3, OwnerStep
<1>6. Authority(leases', jobs', executed)
  BY <1>4, <1>5 DEF Authority
<1> QED
  BY <1>3, <1>4, <1>6 DEF Stop, IInv, TypeOK, turnVars, grantVars, Sound

LEMMA StepInvalidate ==
    ASSUME IInv, NewChat \/ RevokeInvalidate
    PROVE  IInv'
<1>1. Sound(leases)
  BY DEF IInv, Authority
<1>2. Sound(Invalidate(leases)) /\ Keeps(leases, Invalidate(leases))
  BY <1>1, InvalidateSound
<1>3. /\ Refreshed(Invalidate(leases)) /\ routed' \subseteq Turns
      /\ accepted' \in [Turns -> Ids \cup {None, "local"}]
      /\ granted' \in BOOLEAN /\ revoking' \in BOOLEAN
      /\ UNCHANGED <<now, jobs, dialogs, searches, proposed, turns, executed>>
  BY DEF NewChat, RevokeInvalidate, IInv, TypeOK, turnVars, grantVars
<1> QED
  BY <1>2, <1>3, StepRefreshed DEF IInv, TypeOK

(***************************************************************************)
(* The induction and the theorems.                                         *)
(***************************************************************************)

LEMMA InitIInv == Init => IInv
<1> SUFFICES ASSUME Init PROVE IInv
  OBVIOUS
<1>1. /\ leases.epoch = 0 /\ leases.current = None /\ leases.pending = None
      /\ leases.confirmations = {} /\ leases.search = None /\ leases.ready = None
      /\ leases.issued = 0 /\ leases \in LeaseOwner
  BY DEF Init, NewLeases, LeaseOwner
<1>2. Coherent(leases)
  BY <1>1 DEF Coherent
<1>3. Sound(leases)
  BY <1>1, <1>2 DEF Sound
<1>4. Authority(leases, jobs, executed)
  BY <1>3 DEF Init, Authority
<1>5. /\ jobs \in [Workers -> Job \cup {None}] /\ now \in Nat
      /\ panel \in Shows \cup {None} /\ dialogs \subseteq Dialog
      /\ searches \subseteq Search /\ executed \subseteq Execution
  BY DEF Init
<1>6. /\ proposed \subseteq ProviderIds /\ routed \subseteq Turns /\ turns \subseteq Turns
      /\ accepted \in [Turns -> Ids \cup {None, "local"}]
      /\ granted \in BOOLEAN /\ revoking \in BOOLEAN
  BY DEF Init
<1> QED
  BY <1>1, <1>4, <1>5, <1>6 DEF IInv, TypeOK

LEMMA NextIInv == IInv /\ [Next]_vars => IInv'
<1> SUFFICES ASSUME IInv, [Next]_vars PROVE IInv'
  OBVIOUS
<1>1. ASSUME NEW w \in Workers, NEW r \in Request, PrepareDirect(w, r) \/ PrepareProvider(w, r)
      PROVE  IInv'
  BY <1>1, StepPrepare
<1>2. ASSUME NEW r \in Request, PrepareInvalid(r)
      PROVE  IInv'
  BY <1>2, StepPrepareInvalid
<1>3. ASSUME NEW w \in Workers,
             \/ PrepareResolved(w) \/ Capture(w) \/ ReadGrants(w)
             \/ \E outcome \in {"done", "candidates", "matches"} : Execute(w, outcome)
             \/ ReportDropped(w) \/ ReportConfirmation(w) \/ EnqueueSearch(w)
             \/ \E r \in Request : ReportQuestion(w, r)
             \/ \E d \in dialogs, approved \in BOOLEAN : AnswerDialog(w, d, approved)
             \/ \E v \in Values, kind \in Kinds :
                  AnswerPanel(w, v, kind) \/ AnswerText(w, v, kind)
      PROVE  IInv'
  <2>1. CASE PrepareResolved(w) \/ Capture(w) \/ ReadGrants(w)
    BY <2>1, StepPrepareResolved, StepCapture, StepReadGrants
  <2>2. CASE \E outcome \in {"done", "candidates", "matches"} : Execute(w, outcome)
    BY <2>2, StepExecute
  <2>3. CASE ReportDropped(w) \/ ReportConfirmation(w) \/ EnqueueSearch(w)
    BY <2>3, StepReportDropped, StepReportConfirmation, StepEnqueueSearch
  <2>4. CASE \E r \in Request : ReportQuestion(w, r)
    BY <2>4, StepReportQuestion
  <2>5. CASE \E d \in dialogs, approved \in BOOLEAN : AnswerDialog(w, d, approved)
    BY <2>5, StepAnswerDialog
  <2>6. CASE \E v \in Values, kind \in Kinds :
                AnswerPanel(w, v, kind) \/ AnswerText(w, v, kind)
    BY <2>6, StepAnswerPanel, StepAnswerText
  <2> QED
    BY <1>3, <2>1, <2>2, <2>3, <2>4, <2>5, <2>6
<1>4. CASE RefreshPanel
  BY <1>4, StepRefreshPanel
<1>5. ASSUME NEW i \in SearchIds, NEW v \in Values, StartLocalSearch(i, v)
      PROVE  IInv'
  BY <1>5, StepStartLocalSearch
<1>6. ASSUME NEW q \in searches, NEW v \in Values, NEW kind \in SearchKinds,
             SearchResult(q, v, kind)
      PROVE  IInv'
  BY <1>6, StepSearchResult
<1>7. ASSUME NEW t \in Turns,
             OpenTurn(t) \/ CompleteRouting(t) \/ ClaimLocalAction(t) \/ CloseTurn(t)
      PROVE  IInv'
  BY <1>7, StepTurn
<1>8. CASE RefuseBatch \/ ClearProvider \/ Stop \/ NewChat \/ RevokeInvalidate
  BY <1>8, StepRefuseBatch, StepClearProvider, StepStop, StepInvalidate
<1>9. CASE Grant \/ RevokeWrite \/ Tick
  BY <1>9, StepGrantAndClock
<1>10. CASE UNCHANGED vars
  BY <1>10 DEF vars, IInv, TypeOK, turnVars, grantVars
<1> QED
  BY <1>1, <1>2, <1>3, <1>4, <1>5, <1>6, <1>7, <1>8, <1>9, <1>10 DEF Next

\* The lease owner, the workers and what was executed stay consistent in every
\* behaviour.
THEOREM Invariance == Spec => []IInv
<1> QED
  BY InitIInv, NextIInv, PTL DEF Spec

\* Every variable keeps the shape the services give it.
THEOREM TypeCorrect == Spec => []TypeOK
<1>1. IInv => TypeOK
  BY DEF IInv
<1> QED
  BY <1>1, Invariance, PTL

\* Nothing of an earlier owner survives in the lease owner: a question, a
\* confirmation, a search and an admitted execution are the current request's.
THEOREM OwnerIsCoherent == Spec => []OwnerCoherent
<1>1. IInv => OwnerCoherent
  BY DEF IInv, Authority, Sound, OwnerCoherent
<1> QED
  BY <1>1, Invariance, PTL

\* A confirmation lease is carried by one worker at most, never while it waits
\* for its answer, and not again once it was spent on an execution.
THEOREM LeasesAreSingleUse == Spec => []LeaseSpentOnce
<1>1. IInv => LeaseSpentOnce
  <2> SUFFICES ASSUME IInv, NEW w \in Workers, jobs[w] # None, jobs[w].lease # None
               PROVE  /\ jobs[w].lease \notin leases.confirmations
                      /\ \A u \in Workers \ {w} : ~Carrying(u, jobs[w].lease)
                      /\ [request |-> jobs[w].request, lease |-> jobs[w].lease] \in executed
                           => jobs[w].stage = "report"
    BY DEF LeaseSpentOnce
  <2>1. jobs[w].lease \notin leases.confirmations
    BY DEF IInv, Authority, JobOK
  <2>2. \A u \in Workers \ {w} : ~Carrying(u, jobs[w].lease)
    BY DEF IInv, Authority, Carrying
  <2>3. \A e \in executed : e.lease = jobs[w].lease => jobs[w].stage = "report"
    BY DEF IInv, Authority
  <2> QED
    BY <2>1, <2>2, <2>3
<1> QED
  BY <1>1, Invariance, PTL

\* Whatever always needs confirmation was executed under a lease, with exactly
\* the arguments the lease was issued for.
THEOREM ExecutionsAreApproved == Spec => []ApprovedExactly
<1>1. IInv => ApprovedExactly
  BY DEF IInv, Authority, ExecutionOK, ApprovedExactly
<1> QED
  BY <1>1, Invariance, PTL

\* A worker starts under a lease only from the dialog that answers it, which
\* the owner of the moment still has to permit.
THEOREM OwnersApprove == Spec => OnlyOwnerApproves
<1> DEFINE A == \A w \in Workers :
         (Idle(w) /\ jobs'[w] # None /\ jobs'[w].lease # None) =>
            LET l == jobs'[w].lease
            IN  Owns(leases, l.request, l.epoch) /\ now < l.deadline
<1>1. IInv /\ [Next]_vars => [A]_vars
  <2> SUFFICES ASSUME IInv, Next, NEW w \in Workers, Idle(w), jobs'[w] # None,
                      jobs'[w].lease # None
               PROVE  LET l == jobs'[w].lease
                      IN  Owns(leases, l.request, l.epoch) /\ now < l.deadline
    OBVIOUS
  <2>1. jobs \in [Workers -> Job \cup {None}] /\ jobs[w] = None
    BY DEF IInv, TypeOK, Idle
  <2>2. \A u \in Workers : \A j : SetJob(u, j) =>
           (u = w /\ jobs'[w] = j) \/ (u # w /\ jobs'[w] = jobs[w])
    BY <2>1 DEF SetJob
  <2>3. \A u \in Workers : AtStage(u, "prepare") \/ AtStage(u, "capture")
           \/ AtStage(u, "evaluate") \/ AtStage(u, "execute") \/ AtStage(u, "report")
           => u # w
    BY DEF AtStage
  <2>4. ~UNCHANGED jobs
    BY <2>1
  <2>5. ASSUME NEW u \in Workers, NEW r \in Request, PrepareWith(u, r)
        PROVE  FALSE
    <3>1. SetJob(u, None) \/ SetJob(u, NewJob(r, None, "capture", 0, FALSE))
      BY <2>5 DEF PrepareWith
    <3> QED
      BY <2>1, <2>2, <3>1 DEF NewJob
  <2>6. PICK u \in Workers, d \in dialogs, approved \in BOOLEAN : AnswerDialog(u, d, approved)
    <3>1. ASSUME NEW u \in Workers, NEW r \in Request, PrepareDirect(u, r) \/ PrepareProvider(u, r)
          PROVE  FALSE
      BY <2>4, <2>5, <3>1 DEF PrepareDirect, PrepareProvider
    <3>2. ASSUME NEW u \in Workers, PrepareResolved(u)
          PROVE  FALSE
      <4>1. jobs[u] \in Job /\ jobs[u].request \in Request
        BY <2>1, <3>2 DEF PrepareResolved, AtStage, Idle, Job
      <4> QED
        BY <2>5, <3>2, <4>1 DEF PrepareResolved
    <3>3. ASSUME NEW u \in Workers, Capture(u) \/ ReadGrants(u) \/ ReportDropped(u)
                                    \/ ReportConfirmation(u)
          PROVE  FALSE
      <4>1. u # w /\ \E j : SetJob(u, j)
        BY <2>3, <3>3 DEF Capture, ReadGrants, ReportDropped, ReportConfirmation, Reporting
      <4> QED
        BY <2>1, <2>2, <4>1
    <3>4. ASSUME NEW u \in Workers, NEW outcome, Execute(u, outcome)
          PROVE  FALSE
      <4>1. u # w /\ \E j : SetJob(u, j)
        BY <2>3, <3>4 DEF Execute
      <4> QED
        BY <2>1, <2>2, <4>1
    <3>5. ASSUME NEW u \in Workers, NEW r \in Request, ReportQuestion(u, r)
          PROVE  FALSE
      <4>1. u # w /\ \E j : SetJob(u, j)
        BY <2>3, <3>5 DEF ReportQuestion, Reporting
      <4> QED
        BY <2>1, <2>2, <4>1
    <3>6. ASSUME NEW u \in Workers, EnqueueSearch(u)
          PROVE  FALSE
      <4>1. \E j : SetJob(u, j) /\ (j # None => j.lease = None)
        BY <3>6 DEF EnqueueSearch, NewJob
      <4> QED
        BY <2>1, <2>2, <4>1
    <3>7. ASSUME NEW u \in Workers, NEW v, NEW kind,
                 AnswerPanel(u, v, kind) \/ AnswerText(u, v, kind)
          PROVE  FALSE
      <4>1. \E j : SetJob(u, j) /\ (j # None => j.lease = None)
        BY <3>7 DEF AnswerPanel, AnswerText, NewJob
      <4> QED
        BY <2>1, <2>2, <4>1
    <3>8. ASSUME Stop
          PROVE  FALSE
      BY <2>1, <3>8 DEF Stop
    <3>9. ASSUME NEW u, PrepareInvalid(u)
          PROVE  FALSE
      BY <2>4, <3>9 DEF PrepareInvalid
    <3>10. ~RefreshPanel /\ ~RefuseBatch /\ ~ClearProvider /\ ~NewChat
      BY <2>4 DEF RefreshPanel, RefuseBatch, ClearProvider, NewChat
    <3>11. ~Grant /\ ~RevokeInvalidate /\ ~RevokeWrite /\ ~Tick
      BY <2>4 DEF Grant, RevokeInvalidate, RevokeWrite, Tick
    <3>12. ASSUME NEW i, NEW v, StartLocalSearch(i, v)
           PROVE  FALSE
      BY <2>4, <3>12 DEF StartLocalSearch
    <3>13. ASSUME NEW q, NEW v, NEW kind, SearchResult(q, v, kind)
           PROVE  FALSE
      BY <2>4, <3>13 DEF SearchResult
    <3>14. ASSUME NEW t, OpenTurn(t) \/ CompleteRouting(t) \/ ClaimLocalAction(t) \/ CloseTurn(t)
           PROVE  FALSE
      BY <2>4, <3>14 DEF OpenTurn, CompleteRouting, ClaimLocalAction, CloseTurn
    <3> QED
      BY <3>1, <3>2, <3>3, <3>4, <3>5, <3>6, <3>7, <3>8, <3>9, <3>10, <3>11, <3>12,
         <3>13, <3>14 DEF Next
  <2>7. PICK j : /\ SetJob(u, j)
                 /\ j # None => /\ j.lease = d.lease
                                /\ Permitted(leases, d.lease, d.request, approved, now)
    BY <2>6 DEF AnswerDialog, Approved, NewJob
  <2>8. /\ jobs'[w].lease = d.lease
        /\ Permitted(leases, d.lease, d.request, approved, now)
    BY <2>1, <2>2, <2>7
  <2> QED
    BY <2>8 DEF Permitted, IInv, Authority, Sound, Coherent
<1> QED
  BY <1>1, Invariance, PTL DEF Spec, OnlyOwnerApproves

(***************************************************************************)
(* Identities and deadlines.  A step leaves the bindings, the question and *)
(* the confirmations of an epoch as they are, or it revises the request of *)
(* the current owner, or it issues the only confirmation of that owner.    *)
(***************************************************************************)

\* A method that neither revises nor confirms: it may only bind ids of B, ends
\* a question only together with its epoch, and adds no confirmation.
Leaves(s, t, B) ==
    /\ t.epoch >= s.epoch /\ t.issued >= s.issued
    /\ \A i \in Ids : t.digests[i] = s.digests[i] \/ (s.digests[i] = None /\ i \in B)
    /\ (t.epoch = s.epoch /\ s.pending # None) => t.pending = s.pending
    /\ t.confirmations \subseteq s.confirmations

\* A new confirmation: no earlier one is live at n.
Issues(s, t, n) ==
    /\ t.epoch = s.epoch /\ t.digests = s.digests /\ t.pending = s.pending
    /\ \A l \in s.confirmations : ~(n < l.deadline)
    /\ \E l \in Confirmation :
         /\ t.confirmations = {l}
         /\ s.issued < l.lease /\ t.issued = l.lease
         /\ l.epoch = s.epoch /\ l.deadline = n + ConfirmationLifetime

LEMMA LeavesReflexive ==
    ASSUME NEW s, Sound(s), NEW B
    PROVE  Leaves(s, s, B)
BY DEF Leaves, Sound, LeaseOwner

LEMMA LeavesTransitive ==
    ASSUME NEW s, NEW t, NEW u, Sound(s), Sound(t), Sound(u), NEW B,
           Leaves(s, t, B), Leaves(t, u, B)
    PROVE  Leaves(s, u, B)
<1>1. /\ u.epoch >= s.epoch /\ u.issued >= s.issued
      /\ u.epoch = s.epoch => t.epoch = s.epoch
  BY DEF Leaves, Sound, LeaseOwner
<1>2. \A i \in Ids : u.digests[i] = s.digests[i] \/ (s.digests[i] = None /\ i \in B)
  BY DEF Leaves
<1>3. (u.epoch = s.epoch /\ s.pending # None) => u.pending = s.pending
  BY <1>1 DEF Leaves
<1> QED
  BY <1>1, <1>2, <1>3 DEF Leaves

\* The owner of the next epoch starts from the bindings alone.
LEMMA EmptyLeaves ==
    ASSUME NEW s, Sound(s), NEW t, t.epoch \in Nat, t.epoch > s.epoch,
           t.digests = s.digests, t.confirmations = {}, Keeps(s, t), NEW B
    PROVE  Leaves(s, t, B)
BY DEF Leaves, Keeps, Sound, LeaseOwner

LEMMA FinishEffect ==
    ASSUME NEW s, Sound(s), s.pending # None, NEW outcome \in {"cancelled", "expired"}
    PROVE  LET t == Finish(s, outcome)
           IN  /\ t.epoch = s.epoch + 1 /\ t.digests = s.digests /\ t.pending = None
               /\ t.confirmations = {} /\ t.search = None /\ t.ready = None
<1> DEFINE d == Disown(s)
           f == [d EXCEPT !.pending = None]
<1>1. Finish(s, outcome) = f
  BY DEF Finish
<1>2. s.search = None /\ s.ready = None
  BY DEF Sound, Coherent
<1>3. /\ d \in LeaseOwner /\ d.epoch = s.epoch + 1 /\ d.digests = s.digests
      /\ d.confirmations = {} /\ d.search = None /\ d.ready = None
  BY <1>2, DisownType DEF Sound
<1> HIDE DEF d
<1>4. /\ f.epoch = s.epoch + 1 /\ f.digests = s.digests /\ f.pending = None
      /\ f.confirmations = {} /\ f.search = None /\ f.ready = None
  BY <1>3 DEF LeaseOwner
<1> QED
  BY <1>1, <1>4

LEMMA SupersedeEffect ==
    ASSUME NEW s, Sound(s)
    PROVE  LET t == Supersede(s)
           IN  /\ t.epoch = s.epoch + 1 /\ t.digests = s.digests /\ t.pending = None
               /\ t.confirmations = {} /\ t.search = None /\ t.ready = None
<1> DEFINE d == Disown(s)
           f == [d EXCEPT !.search = None, !.ready = None, !.pending = None]
<1>1. d \in LeaseOwner /\ d.epoch = s.epoch + 1 /\ d.digests = s.digests /\ d.confirmations = {}
  BY DisownType DEF Sound
<1>2. Supersede(s) = f
  BY DEF Supersede
<1> HIDE DEF d
<1>3. /\ f.epoch = s.epoch + 1 /\ f.digests = s.digests /\ f.pending = None
      /\ f.confirmations = {} /\ f.search = None /\ f.ready = None
  BY <1>1 DEF LeaseOwner
<1> QED
  BY <1>2, <1>3

LEMMA InvalidateEffect ==
    ASSUME NEW s, Sound(s)
    PROVE  LET t == Invalidate(s)
           IN  /\ t.epoch > s.epoch /\ t.digests = s.digests /\ t.pending = None
               /\ t.confirmations = {} /\ t.search = None /\ t.ready = None
<1> DEFINE f == IF s.pending = None THEN s ELSE Finish(s, "cancelled")
<1>1. /\ Sound(f) /\ f.digests = s.digests /\ s.epoch \in Nat /\ f.epoch \in Nat
      /\ f.epoch >= s.epoch
  <2>1. CASE s.pending = None
    BY <2>1 DEF Sound, LeaseOwner
  <2>2. CASE s.pending # None
    BY <2>2, FinishSound, FinishEffect DEF Sound, LeaseOwner
  <2> QED
    BY <2>1, <2>2
<1>2. Invalidate(s) = Supersede(f)
  BY DEF Invalidate
<1> HIDE DEF f
<1>3. LET t == Supersede(f)
      IN  /\ t.epoch = f.epoch + 1 /\ t.digests = f.digests /\ t.pending = None
          /\ t.confirmations = {} /\ t.search = None /\ t.ready = None
  BY <1>1, SupersedeEffect
<1> QED
  BY <1>1, <1>2, <1>3

\* No deadline of a question, a search or an admission has passed.
Ahead(s, n) ==
    /\ s.pending # None => n < s.pending.deadline
    /\ s.search # None => n < s.search.deadline
    /\ s.ready # None => n < s.ready.search.deadline

LEMMA DeadlineTypes ==
    ASSUME NEW s, Sound(s)
    PROVE  /\ s.pending # None => s.pending.deadline \in Nat
           /\ s.search # None => s.search.deadline \in Nat
           /\ s.ready # None => s.ready.search.deadline \in Nat
BY DEF Sound, LeaseOwner, Question, Search, Admission

\* Before its deadlines the owner loses expired confirmations only.
LEMMA ExpireAhead ==
    ASSUME NEW s, Sound(s), NEW n \in Nat, Ahead(s, n)
    PROVE  LET t == Expire(s, n)
           IN  /\ t.epoch = s.epoch /\ t.current = s.current /\ t.digests = s.digests
               /\ t.pending = s.pending /\ t.search = s.search /\ t.ready = s.ready
               /\ t.confirmations = {l \in s.confirmations : n < l.deadline}
               /\ t.issued = s.issued
<1>1. ExpireSearch(s, n) = s
  BY DeadlineTypes DEF ExpireSearch, Ahead
<1>2. ExpireQuestion(s, n) = s
  BY DeadlineTypes DEF ExpireQuestion, Ahead
<1>3. Expire(s, n) = [s EXCEPT !.confirmations = {l \in @ : n < l.deadline}]
  BY <1>1, <1>2 DEF Expire
<1> QED
  BY <1>3 DEF Sound, LeaseOwner

\* Past one of them it goes, and nothing it held stays.
LEMMA ExpireBehind ==
    ASSUME NEW s, Sound(s), NEW n \in Nat, ~Ahead(s, n)
    PROVE  LET t == Expire(s, n)
           IN  /\ t.epoch > s.epoch /\ t.digests = s.digests /\ t.pending = None
               /\ t.confirmations = {} /\ t.search = None /\ t.ready = None
<1> DEFINE a == ExpireSearch(s, n)
           b == ExpireQuestion(a, n)
<1>1. /\ b \in LeaseOwner /\ b.epoch > s.epoch /\ b.digests = s.digests
      /\ b.pending = None /\ b.confirmations = {} /\ b.search = None /\ b.ready = None
  <2>1. CASE s.search = None /\ s.ready = None
    <3>1. s.pending # None /\ n >= s.pending.deadline
      BY <2>1, DeadlineTypes DEF Ahead
    <3>2. b = Finish(s, "expired")
      BY <2>1, <3>1 DEF ExpireSearch, ExpireQuestion
    <3> HIDE DEF b
    <3> QED
      BY <3>1, <3>2, FinishSound, FinishEffect DEF Sound, LeaseOwner
  <2>2. CASE s.search # None \/ s.ready # None
    <3>1. s.pending = None
      BY <2>2 DEF Sound, Coherent
    <3>2. \/ s.search # None /\ s.ready = None /\ n >= s.search.deadline
          \/ s.search = None /\ s.ready # None /\ n >= s.ready.search.deadline
      BY <2>2, <3>1, DeadlineTypes DEF Ahead, Sound, Coherent
    <3>3. a = Invalidate(s)
      BY <3>2 DEF ExpireSearch
    <3> HIDE DEF a
    <3>4. /\ a \in LeaseOwner /\ a.epoch > s.epoch /\ a.digests = s.digests
          /\ a.pending = None /\ a.confirmations = {} /\ a.search = None /\ a.ready = None
      BY <3>3, InvalidateSound, InvalidateEffect DEF Sound
    <3>5. b = a
      BY <3>4 DEF ExpireQuestion
    <3> QED
      BY <3>4, <3>5
  <2> QED
    BY <2>1, <2>2
<1>2. Expire(s, n) = [b EXCEPT !.confirmations = {l \in @ : n < l.deadline}]
  BY DEF Expire
<1> HIDE DEF b
<1>3. LET t == [b EXCEPT !.confirmations = {l \in @ : n < l.deadline}]
      IN  /\ t.epoch = b.epoch /\ t.digests = b.digests /\ t.pending = b.pending
          /\ t.confirmations = {} /\ t.search = b.search /\ t.ready = b.ready
  BY <1>1 DEF LeaseOwner
<1> QED
  BY <1>1, <1>2, <1>3

LEMMA ExpireLeaves ==
    ASSUME NEW s, Sound(s), NEW n \in Nat, NEW B
    PROVE  Leaves(s, Expire(s, n), B)
<1>1. CASE Ahead(s, n)
  BY <1>1, ExpireAhead DEF Leaves, Sound, LeaseOwner
<1>2. CASE ~Ahead(s, n)
  BY <1>2, ExpireBehind, ExpireSound, EmptyLeaves DEF Sound, LeaseOwner
<1> QED
  BY <1>1, <1>2

LEMMA ClaimLeaves ==
    ASSUME NEW s, Sound(s), NEW r \in Request
    PROVE  Leaves(s, Claim(s, r), {r.id})
<1>1. CASE ClaimRejected(s, r)
  BY <1>1, InvalidateEffect, InvalidateSound, EmptyLeaves DEF Claim, Sound, LeaseOwner
<1>2. CASE ~ClaimRejected(s, r) /\ s.current = r
  BY <1>2, LeavesReflexive DEF Claim
<1>3. CASE ~ClaimRejected(s, r) /\ s.current # r
  <2> DEFINE t == Supersede(s)
             c == [t EXCEPT !.digests[r.id] = r, !.current = r]
  <2>1. Claim(s, r) = c
    BY <1>3 DEF Claim
  <2>2. /\ t \in LeaseOwner /\ t.epoch = s.epoch + 1 /\ t.digests = s.digests
        /\ t.pending = None /\ t.confirmations = {} /\ t.issued >= s.issued
    BY SupersedeSound, SupersedeEffect DEF Sound, Keeps
  <2> HIDE DEF t
  <2>3. /\ c.epoch = t.epoch /\ c.confirmations = {} /\ c.issued = t.issued
        /\ c.digests = [t.digests EXCEPT ![r.id] = r]
    BY <2>2 DEF LeaseOwner
  <2> HIDE DEF c
  <2>4. s.digests[r.id] \in {None, r} /\ s.digests \in [Ids -> Request \cup {None}]
        /\ s.epoch \in Nat
    BY <1>3 DEF ClaimRejected, Sound, LeaseOwner
  <2>5. Leaves(s, c, {r.id})
    BY <2>2, <2>3, <2>4 DEF Leaves
  <2> QED
    BY <2>1, <2>5
<1> QED
  BY <1>1, <1>2, <1>3

\* A question goes out only while none is pending.
LEMMA AskLeaves ==
    ASSUME NEW s, Sound(s), NEW r \in Request, NEW n \in Nat, s.pending = None
    PROVE  LET t == Ask(s, r, n)
           IN  /\ Leaves(s, t, {}) /\ t.epoch = s.epoch /\ t.current = s.current
               /\ t.digests = s.digests /\ t.confirmations = s.confirmations
               /\ t.search = s.search /\ t.ready = s.ready
               /\ t.pending # None => t.pending.deadline = n + ClarificationLifetime
               /\ t.issued = s.issued + 1
<1> DEFINE q == [lease |-> s.issued + 1, revision |-> 0, request |-> r,
                 epoch |-> s.epoch, deadline |-> n + ClarificationLifetime]
           t == [s EXCEPT !.issued = @ + 1, !.pending = q]
<1>1. Ask(s, r, n) = t
  BY DEF Ask
<1>2. q.deadline = n + ClarificationLifetime
  OBVIOUS
<1> HIDE DEF q
<1>3. /\ t.epoch = s.epoch /\ t.current = s.current /\ t.digests = s.digests
      /\ t.confirmations = s.confirmations /\ t.search = s.search /\ t.ready = s.ready
      /\ t.pending = q /\ t.issued = s.issued + 1
  BY DEF Sound, LeaseOwner
<1> HIDE DEF t
<1>4. Leaves(s, t, {})
  BY <1>3 DEF Leaves, Sound, LeaseOwner
<1> QED
  BY <1>1, <1>2, <1>3, <1>4

LEMMA BeginLeaves ==
    ASSUME NEW s, Sound(s), NEW r \in Request, NEW n \in Nat,
           ~(Ready(r) /\ r.id \in ConfirmIds)
    PROVE  Leaves(s, Begin(s, r, n), {r.id})
<1> DEFINE c == Claim(s, r)
<1>1. Sound(c) /\ Leaves(s, c, {r.id})
  BY ClaimSound, ClaimLeaves
<1>2. CASE ClaimRejected(s, r) \/ (c.pending # None /\ c.pending.request.id = r.id)
  BY <1>1, <1>2 DEF Begin
<1>3. CASE ~(ClaimRejected(s, r) \/ (c.pending # None /\ c.pending.request.id = r.id))
  <2>1. c.current = r
    BY <1>3, ClaimSound
  <2>2. Begin(s, r, n) = Ask(c, r, n)
    BY <1>3 DEF Begin
  <2> HIDE DEF c
  <2>3. c.pending = None
    BY <1>1, <1>3, <2>1 DEF Sound, Coherent, Owns
  <2>4. Sound(Ask(c, r, n)) /\ Leaves(c, Ask(c, r, n), {})
    BY <1>1, <2>1, <2>3, AskSound, AskLeaves
  <2>5. Leaves(c, Ask(c, r, n), {r.id})
    BY <2>4 DEF Leaves
  <2> QED
    BY <1>1, <2>2, <2>4, <2>5, LeavesTransitive
<1> QED
  BY <1>2, <1>3

LEMMA StartSearchLeaves ==
    ASSUME NEW s, Sound(s), NEW r \in Request, NEW n \in Nat,
           r.id \in SearchIds, Ready(r), s.digests[r.id] = None
    PROVE  Leaves(s, StartSearch(s, r, n), {r.id})
<1> DEFINE c == Claim(s, r)
<1>1. ~ClaimRejected(s, r)
  BY DEF ClaimRejected
<1>2. Sound(c) /\ Leaves(s, c, {r.id})
  BY ClaimSound, ClaimLeaves
<1>3. StartSearch(s, r, n) =
        [c EXCEPT !.issued = @ + 1, !.ready = None,
                  !.search = [gen |-> c.issued + 1, epoch |-> c.epoch, request |-> r,
                              deadline |-> n + ClarificationLifetime]]
  BY <1>1 DEF StartSearch
<1> HIDE DEF c
<1>4. LET t == StartSearch(s, r, n)
      IN  /\ t.epoch = c.epoch /\ t.digests = c.digests /\ t.pending = c.pending
          /\ t.confirmations = c.confirmations /\ t.issued = c.issued + 1
  BY <1>2, <1>3 DEF Sound, LeaseOwner
<1> QED
  BY <1>2, <1>4 DEF Leaves, Sound, LeaseOwner

\* Asking for the path of a search: the same owner, a first question.
LEMMA AskSearchRevises ==
    ASSUME NEW s, Sound(s), NEW q \in Search, s.search = q, NEW v \in Values,
           NEW n \in Nat
    PROVE  LET t == AskSearch(s, q, v, n)
           IN  /\ Revises(s, t) /\ t.search = None /\ t.ready = None
               /\ t.pending # None => t.pending.deadline = n + ClarificationLifetime
<1> DEFINE r == [q.request EXCEPT !.gaps = 1, !.value = v]
           b == Rebind(s, r)
           t == [b EXCEPT !.search = None]
<1>1. /\ s \in LeaseOwner /\ q.request \in Request
      /\ s.current = q.request /\ s.current # None
      /\ s.pending = None /\ s.ready = None /\ s.confirmations = {}
  <2>1. q # None /\ q.request \in Request
    BY NoneAssumption DEF Search
  <2> QED
    BY <2>1, NoneAssumption DEF Sound, Coherent, Owns
<1>2. r \in Request /\ ~Ready(r) /\ r.id = q.request.id
  <2>1. 1 \in 0 .. MaxGaps
    BY GapsAssumption
  <2>2. r \in Request /\ r.id = q.request.id /\ r.gaps = 1
    BY <1>1, <2>1, RevisionType
  <2> QED
    BY <2>2 DEF Ready
<1>3. AskSearch(s, q, v, n) = Begin(t, r, n)
  BY DEF AskSearch
<1> HIDE DEF r
<1>4. /\ b \in LeaseOwner /\ b.epoch = s.epoch /\ b.current = r
      /\ b.digests = [s.digests EXCEPT ![r.id] = r] /\ b.pending = None
      /\ b.issued = s.issued /\ b.confirmations = {} /\ b.ready = None
  BY <1>1, <1>2, RebindType
<1> HIDE DEF b
<1>5. /\ t \in LeaseOwner /\ t.epoch = s.epoch /\ t.current = r
      /\ t.digests = [s.digests EXCEPT ![r.id] = r] /\ t.pending = None
      /\ t.issued = s.issued /\ t.confirmations = {} /\ t.search = None
      /\ t.ready = None
  BY <1>4 DEF LeaseOwner
<1> HIDE DEF t
<1>6. Sound(t) /\ Revises(s, t)
  BY <1>1, <1>2, <1>5, ReboundSound
<1>7. Begin(t, r, n) = Ask(t, r, n)
  <2>1. t.digests[r.id] = r
    BY <1>1, <1>2, <1>5 DEF LeaseOwner, Request
  <2> QED
    BY <1>5, <2>1 DEF Begin, Claim, ClaimRejected
<1>8. LET u == Ask(t, r, n)
      IN  /\ u.epoch = t.epoch /\ u.current = t.current /\ u.digests = t.digests
          /\ u.confirmations = t.confirmations /\ u.search = None /\ u.ready = None
          /\ u.pending # None => u.pending.deadline = n + ClarificationLifetime
          /\ u.issued = t.issued + 1
  BY <1>2, <1>5, <1>6, AskLeaves
<1>9. Revises(s, Ask(t, r, n))
  BY <1>1, <1>5, <1>6, <1>8 DEF Revises, LeaseOwner
<1> QED
  BY <1>3, <1>7, <1>8, <1>9

\* What comes before and after a revision enforces deadlines only.
LEMMA RevisedAhead ==
    ASSUME NEW s, Sound(s), NEW n \in Nat, Ahead(s, n), NEW t, Sound(t), Ahead(t, n),
           Revises(Expire(s, n), t)
    PROVE  Revises(s, Expire(t, n))
<1> DEFINE e == Expire(s, n)
           u == Expire(t, n)
<1>1. /\ e.epoch = s.epoch /\ e.current = s.current /\ e.digests = s.digests
      /\ e.pending = s.pending /\ e.issued = s.issued
  BY ExpireAhead
<1>2. /\ u.epoch = t.epoch /\ u.current = t.current /\ u.digests = t.digests
      /\ u.pending = t.pending /\ u.confirmations \subseteq t.confirmations
      /\ u.issued = t.issued
  BY ExpireAhead
<1> HIDE DEF e, u
<1>3. Revises(e, t)
  BY DEF e
<1>4. Revises(s, u)
  BY <1>1, <1>2, <1>3 DEF Revises
<1> QED
  BY <1>4 DEF u

LEMMA ResolveMoves ==
    ASSUME NEW s, Sound(s), NEW n \in Nat, NEW named, NEW v \in Values, NEW kind
    PROVE  LET u == Expire(Resolve(Expire(s, n), named, v, kind), n)
           IN  Leaves(s, u, {}) \/ Revises(s, u)
<1> DEFINE e == Expire(s, n)
           t == Resolve(e, named, v, kind)
           u == Expire(t, n)
<1>1. Sound(e) /\ Leaves(s, e, {})
  BY ExpireSound, ExpireLeaves
<1>2. Sound(t)
  <2> HIDE DEF e
  <2> QED
    BY <1>1, ResolveSound
<1>3. Sound(u) /\ Leaves(t, u, {})
  <2> HIDE DEF t
  <2> QED
    BY <1>2, ExpireSound, ExpireLeaves
<1>4. CASE t = e
  <2>1. Leaves(e, u, {})
    BY <1>3, <1>4
  <2> HIDE DEF e, t, u
  <2> QED
    BY <1>1, <1>3, <2>1, LeavesTransitive DEF e, t, u
<1>5. CASE e.pending # None /\ t = Finish(e, "cancelled")
  <2> HIDE DEF e
  <2>1. Leaves(e, t, {})
    <3>1. t.epoch = e.epoch + 1 /\ t.digests = e.digests /\ t.confirmations = {}
      BY <1>1, <1>5, FinishEffect
    <3>2. e.epoch \in Nat /\ Keeps(e, t)
      BY <1>1, <1>5, FinishSound DEF Sound, LeaseOwner
    <3> HIDE DEF t
    <3> QED
      BY <1>1, <3>1, <3>2, EmptyLeaves
  <2> HIDE DEF t, u
  <2>2. Leaves(s, t, {})
    BY <1>1, <1>2, <2>1, LeavesTransitive
  <2>3. Leaves(s, u, {})
    BY <1>2, <1>3, <2>2, LeavesTransitive
  <2> QED
    BY <2>3 DEF e, t, u
<1>6. CASE e.pending # None /\ t = ResolveValue(e, v)
  <2>1. Ahead(s, n)
    BY <1>6, ExpireBehind
  <2>2. /\ e.pending = s.pending /\ e.search = s.search /\ e.ready = s.ready
    BY <2>1, ExpireAhead
  <2>3. Revises(e, t) /\ t.search = None /\ t.ready = None
    <3> HIDE DEF e
    <3> QED
      BY <1>1, <1>6, ResolveValueSound
  <2>4. Ahead(t, n)
    <3> HIDE DEF e, t
    <3> QED
      BY <1>6, <2>1, <2>2, <2>3 DEF Ahead, Revises
  <2> HIDE DEF t
  <2>5. Revises(s, u)
    BY <1>2, <2>1, <2>3, <2>4, RevisedAhead
  <2> QED
    BY <2>5 DEF t
<1>7. \/ t = e
      \/ e.pending # None /\ t = Finish(e, "cancelled")
      \/ e.pending # None /\ t = ResolveValue(e, v)
  BY DEF Resolve
<1> QED
  BY <1>4, <1>5, <1>6, <1>7

LEMMA ContinuedMoves ==
    ASSUME NEW s, Sound(s), now \in Nat, NEW q \in Search, NEW v \in Values,
           NEW kind \in SearchKinds
    PROVE  LET u == Expire(Continued(Expire(s, now), q, v, kind), now)
           IN  Leaves(s, u, {}) \/ Revises(s, u)
<1> DEFINE e == Expire(s, now)
           t == Continued(e, q, v, kind)
           u == Expire(t, now)
<1>1. Sound(e) /\ Leaves(s, e, {})
  BY ExpireSound, ExpireLeaves
<1>2. Sound(t)
  <2> HIDE DEF e
  <2> QED
    BY <1>1, ContinuedSound
<1>3. Sound(u) /\ Leaves(t, u, {})
  <2> HIDE DEF t
  <2> QED
    BY <1>2, ExpireSound, ExpireLeaves
<1>4. CASE Leaves(e, t, {})
  <2> HIDE DEF e, t, u
  <2>1. Leaves(s, t, {})
    BY <1>1, <1>2, <1>4, LeavesTransitive
  <2>2. Leaves(s, u, {})
    BY <1>2, <1>3, <2>1, LeavesTransitive
  <2> QED
    BY <2>2 DEF e, t, u
<1>5. CASE e.search = q /\ now < q.deadline /\ Revises(e, t) /\ Ahead(t, now)
  <2>1. e.search # None
    BY <1>5, NoneAssumption
  <2>2. Ahead(s, now)
    BY <2>1, ExpireBehind
  <2> HIDE DEF t
  <2>3. Revises(s, u)
    BY <1>2, <1>5, <2>2, RevisedAhead
  <2> QED
    BY <2>3 DEF t
<1>6. Leaves(e, t, {}) \/ (e.search = q /\ now < q.deadline /\ Revises(e, t) /\ Ahead(t, now))
  <2> HIDE DEF e
  <2>1. CASE ~OwnsSearch(e, q, now)
    BY <1>1, <2>1, LeavesReflexive DEF Continued
  <2>2. CASE OwnsSearch(e, q, now)
    <3>1. e.search = q /\ now < q.deadline /\ q.deadline \in Nat
      BY <2>2 DEF OwnsSearch, Search
    <3>2. CASE kind = "unique"
      <4>1. t = AdmitSearch(e, q, v)
        BY <2>2, <3>2 DEF Continued
      <4>2. Revises(e, t) /\ t.pending = None /\ t.search = None /\ t.ready.search = q
        BY <1>1, <3>1, <4>1, AdmitSound
      <4> QED
        BY <3>1, <4>2 DEF Ahead
    <3>3. CASE kind = "many"
      <4>1. t = AskSearch(e, q, v, now)
        BY <2>2, <3>3 DEF Continued
      <4>2. /\ Revises(e, t) /\ t.search = None /\ t.ready = None
            /\ t.pending # None => t.pending.deadline = now + ClarificationLifetime
        BY <1>1, <3>1, <4>1, AskSearchRevises
      <4>3. now < now + ClarificationLifetime
        BY LifetimeAssumption
      <4> QED
        BY <3>1, <4>2, <4>3 DEF Ahead
    <3>4. CASE kind = "rejected"
      <4>1. t = [e EXCEPT !.search = None]
        BY <2>2, <3>4 DEF Continued
      <4> HIDE DEF t
      <4>2. /\ t.epoch = e.epoch /\ t.digests = e.digests /\ t.pending = e.pending
            /\ t.confirmations = e.confirmations /\ e.epoch \in Nat
            /\ t.issued = e.issued /\ e.issued \in Nat
        BY <1>1, <4>1 DEF Sound, LeaseOwner
      <4> QED
        BY <4>2 DEF Leaves
    <3>5. CASE kind = "failed"
      <4>1. t = Invalidate(e)
        BY <2>2, <3>5 DEF Continued
      <4> HIDE DEF t
      <4> QED
        BY <1>1, <1>2, <4>1, InvalidateSound, InvalidateEffect, EmptyLeaves
           DEF Sound, LeaseOwner
    <3> QED
      BY <3>2, <3>3, <3>4, <3>5 DEF SearchKinds
  <2> QED
    BY <2>1, <2>2
<1> QED
  BY <1>4, <1>5, <1>6

\* A confirmation is issued by the owner that has none that is live.
LEMMA IssueMoves ==
    ASSUME NEW s, Sound(s), NEW n \in Nat, NEW r \in Request,
           Expire(s, n).epoch = s.epoch, Expire(s, n).current = r
    PROVE  LET t == IssueConfirmation(Expire(s, n), r, n)
           IN  Leaves(s, t, {}) \/ Issues(s, t, n)
<1> DEFINE e == Expire(s, n)
           t == IssueConfirmation(e, r, n)
<1>1. Sound(e) /\ Leaves(s, e, {}) /\ s.epoch \in Nat
  BY ExpireSound, ExpireLeaves DEF Sound, LeaseOwner
<1>2. Ahead(s, n)
  BY <1>1, ExpireBehind
<1>3. /\ e.epoch = s.epoch /\ e.digests = s.digests /\ e.pending = s.pending
      /\ e.current = r
      /\ e.confirmations = {l \in s.confirmations : n < l.deadline}
  BY <1>2, ExpireAhead
<1> HIDE DEF e
<1>4. CASE LeaseOf(e, r) # {}
  BY <1>1, <1>4 DEF IssueConfirmation, e
<1>5. CASE LeaseOf(e, r) = {}
  <2> DEFINE l == [lease |-> e.issued + 1, epoch |-> e.epoch, request |-> r,
                   deadline |-> n + ConfirmationLifetime]
  <2>1. e.confirmations = {} /\ e.issued = s.issued /\ e.issued \in Nat
    BY <1>1, <1>2, <1>3, <1>5, ExpireAhead DEF LeaseOf, Sound, Coherent, Owns, LeaseOwner, e
  <2>2. t = [e EXCEPT !.issued = @ + 1, !.confirmations = @ \cup {l}]
    BY <1>5 DEF IssueConfirmation
  <2>3. /\ l \in Confirmation /\ l.lease = s.issued + 1 /\ l.epoch = s.epoch
        /\ l.deadline = n + ConfirmationLifetime
    BY <1>1, <1>3, <2>1, LifetimeAssumption DEF Confirmation
  <2> HIDE DEF l, t
  <2>4. /\ t.epoch = e.epoch /\ t.digests = e.digests /\ t.pending = e.pending
        /\ t.confirmations = e.confirmations \cup {l} /\ t.issued = e.issued + 1
    BY <1>1, <2>2 DEF Sound, LeaseOwner
  <2>5. t.confirmations = {l} /\ s.issued < l.lease /\ t.issued = l.lease
    BY <2>1, <2>3, <2>4
  <2>6. Issues(s, t, n)
    BY <1>3, <2>1, <2>3, <2>4, <2>5 DEF Issues
  <2> QED
    BY <2>6 DEF t, e
<1> QED
  BY <1>4, <1>5

\* The dispatcher's clear and a consumed confirmation.
LEMMA DropLeaves ==
    ASSUME NEW s, Sound(s), NEW C, NEW B
    PROVE  Leaves(s, [s EXCEPT !.confirmations = @ \ C], B)
<1> DEFINE t == [s EXCEPT !.confirmations = @ \ C]
<1>1. /\ t.epoch = s.epoch /\ t.digests = s.digests /\ t.pending = s.pending
      /\ t.confirmations = s.confirmations \ C /\ t.issued = s.issued
  BY DEF Sound, LeaseOwner
<1> HIDE DEF t
<1>2. Leaves(s, t, B)
  BY <1>1 DEF Leaves, Sound, LeaseOwner
<1> QED
  BY <1>2 DEF t

\* A refresh of the panel after a method.
LEMMA RefreshedLeaves ==
    ASSUME Sound(leases), now \in Nat, NEW s, Sound(s), NEW B, Leaves(leases, s, B),
           Refreshed(s)
    PROVE  Leaves(leases, leases', B)
<1>1. leases' = Expire(s, now)
  BY DEF Refreshed
<1>2. Sound(leases') /\ Leaves(s, leases', B)
  BY <1>1, ExpireSound, ExpireLeaves
<1> QED
  BY <1>2, LeavesTransitive

LEMMA InvalidateLeaves ==
    ASSUME NEW s, Sound(s), NEW B
    PROVE  Leaves(s, Invalidate(s), B) /\ Leaves(s, Supersede(s), B)
<1>1. Invalidate(s).epoch \in Nat /\ Supersede(s).epoch \in Nat /\ s.epoch \in Nat
  BY InvalidateSound, SupersedeSound DEF Sound, LeaseOwner
<1>2. Leaves(s, Invalidate(s), B)
  BY <1>1, InvalidateSound, InvalidateEffect, EmptyLeaves
<1>3. Supersede(s).epoch > s.epoch
  BY <1>1, SupersedeEffect
<1>4. Leaves(s, Supersede(s), B)
  BY <1>1, <1>3, SupersedeSound, SupersedeEffect, EmptyLeaves
<1> QED
  BY <1>2, <1>4

\* Preparation binds the id of its request and no other.
LEMMA PrepareLeaves ==
    ASSUME IInv, NEW w \in Workers, NEW r \in Request, PrepareWith(w, r)
    PROVE  Leaves(leases, leases', {r.id})
<1> DEFINE c == Claim(leases, r)
           s == Expire(c, now)
           prepared == IF ClaimRejected(leases, r) \/ Ready(r) THEN c
                       ELSE IF Owns(s, r, c.epoch) THEN Begin(s, r, now) ELSE s
<1>1. Sound(leases) /\ now \in Nat
  BY DEF IInv, TypeOK, Authority
<1>2. Sound(c) /\ Leaves(leases, c, {r.id})
  BY <1>1, ClaimSound, ClaimLeaves
<1>3. Sound(prepared) /\ Leaves(leases, prepared, {r.id})
  <2> HIDE DEF c
  <2>1. Sound(s) /\ Leaves(c, s, {r.id})
    BY <1>1, <1>2, ExpireSound, ExpireLeaves
  <2> HIDE DEF s
  <2>2. Leaves(leases, s, {r.id})
    BY <1>1, <1>2, <2>1, LeavesTransitive
  <2>3. ~Ready(r) => Sound(Begin(s, r, now)) /\ Leaves(s, Begin(s, r, now), {r.id})
    BY <1>1, <2>1, BeginSound, BeginLeaves
  <2>4. ~Ready(r) => Leaves(leases, Begin(s, r, now), {r.id})
    BY <1>1, <2>1, <2>2, <2>3, LeavesTransitive
  <2> QED
    BY <1>2, <2>1, <2>2, <2>3, <2>4
<1>4. Refreshed(prepared) \/ leases' = prepared
  BY DEF PrepareWith
<1> HIDE DEF prepared
<1> QED
  BY <1>1, <1>3, <1>4, RefreshedLeaves

\* The ids no proposal has.
Others == Ids \ ProviderIds

Quiet(s, t) == Leaves(s, t, Others) \/ Revises(s, t)

Moves(s, t, n) == Quiet(s, t) \/ Issues(s, t, n)

LEMMA MovesPrepare ==
    ASSUME IInv, NEW w \in Workers, NEW r \in Request, PrepareDirect(w, r)
    PROVE  Quiet(leases, leases')
<1>1. r.id \in Others
  BY DEF PrepareDirect, DirectIds, Others
<1>2. Leaves(leases, leases', {r.id})
  BY PrepareLeaves DEF PrepareDirect
<1> QED
  BY <1>1, <1>2 DEF Leaves, Quiet

LEMMA MovesPrepareInvalid ==
    ASSUME IInv, NEW r \in Request, PrepareInvalid(r)
    PROVE  Quiet(leases, leases')
<1> DEFINE c == Claim(leases, r)
           s == IF ClaimRejected(leases, r) THEN c ELSE Supersede(c)
<1>1. Sound(leases) /\ now \in Nat /\ r.id \in Others
  BY DEF IInv, TypeOK, Authority, PrepareInvalid, DirectIds, Others
<1>2. Sound(c) /\ Leaves(leases, c, {r.id})
  BY <1>1, ClaimSound, ClaimLeaves
<1>3. Refreshed(s)
  BY DEF PrepareInvalid
<1> HIDE DEF c
<1>4. Sound(Supersede(c)) /\ Leaves(c, Supersede(c), {r.id})
  BY <1>2, SupersedeSound, InvalidateLeaves
<1>5. Sound(s) /\ Leaves(leases, s, {r.id})
  BY <1>1, <1>2, <1>4, LeavesTransitive
<1> HIDE DEF s
<1>6. Leaves(leases, leases', {r.id})
  BY <1>1, <1>3, <1>5, RefreshedLeaves
<1> QED
  BY <1>1, <1>6 DEF Leaves, Quiet

\* A worker's request is bound already, so preparing it again binds nothing.
LEMMA MovesPrepareResolved ==
    ASSUME IInv, NEW w \in Workers, PrepareResolved(w)
    PROVE  Quiet(leases, leases')
<1>1. jobs[w] \in Job /\ jobs[w] # None /\ jobs[w].request \in Request
  BY DEF PrepareResolved, AtStage, Idle, IInv, TypeOK, Job
<1>2. leases.digests[jobs[w].request.id] # None
  BY <1>1 DEF IInv, Authority, JobOK
<1>3. Leaves(leases, leases', {jobs[w].request.id})
  BY <1>1, PrepareLeaves DEF PrepareResolved
<1> QED
  BY <1>2, <1>3 DEF Leaves, Quiet

LEMMA MovesReportQuestion ==
    ASSUME IInv, NEW w \in Workers, NEW r \in Request, ReportQuestion(w, r)
    PROVE  Quiet(leases, leases')
<1> DEFINE s == Expire(leases, now)
<1>1. /\ jobs[w] # None /\ jobs[w] \in Job /\ JobOK(jobs[w], leases)
      /\ Sound(leases) /\ now \in Nat
  BY DEF ReportQuestion, Reporting, AtStage, Idle, IInv, TypeOK, Authority, Job
<1>2. Sound(s) /\ Leaves(leases, s, {r.id})
  BY <1>1, ExpireSound, ExpireLeaves
<1>3. leases' \in {Begin(s, r, now), s}
  BY DEF ReportQuestion
<1>4. ~(Ready(r) /\ r.id \in ConfirmIds)
  BY <1>1 DEF ReportQuestion, JobOK, Ready
<1>5. leases.digests[r.id] # None \/ r.id \in Others
  BY <1>1, IdsAssumption DEF ReportQuestion, JobOK, Others
<1> HIDE DEF s
<1>6. Sound(Begin(s, r, now)) /\ Leaves(s, Begin(s, r, now), {r.id})
  BY <1>1, <1>2, <1>4, BeginSound, BeginLeaves
<1>7. Leaves(leases, leases', {r.id})
  BY <1>1, <1>2, <1>3, <1>6, LeavesTransitive
<1> QED
  BY <1>5, <1>7 DEF Leaves, Quiet

LEMMA MovesReportConfirmation ==
    ASSUME IInv, NEW w \in Workers, ReportConfirmation(w)
    PROVE  Moves(leases, leases', now)
<1> DEFINE s == Expire(leases, now)
           q == jobs[w].request
<1>1. q \in Request /\ Sound(leases) /\ now \in Nat
  BY DEF ReportConfirmation, Reporting, AtStage, Idle, IInv, TypeOK, Authority, Job
<1>2. Leaves(leases, s, Others)
  BY <1>1, ExpireLeaves
<1>3. \/ leases' = s
      \/ /\ leases' = IssueConfirmation(s, q, now)
         /\ s.current = q /\ s.epoch = leases.epoch
  BY DEF ReportConfirmation, Owns
<1>4. CASE leases' = s
  BY <1>2, <1>4 DEF Moves, Quiet
<1>5. CASE /\ leases' = IssueConfirmation(s, q, now)
           /\ s.current = q /\ s.epoch = leases.epoch
  <2> HIDE DEF q
  <2>1. Leaves(leases, leases', {}) \/ Issues(leases, leases', now)
    BY <1>1, <1>5, IssueMoves DEF q
  <2> QED
    BY <2>1 DEF Leaves, Moves, Quiet
<1> QED
  BY <1>3, <1>4, <1>5

LEMMA MovesAnswer ==
    ASSUME IInv, NEW w \in Workers, NEW v \in Values, NEW kind,
           AnswerPanel(w, v, kind) \/ AnswerText(w, v, kind)
    PROVE  Quiet(leases, leases')
<1>1. Sound(leases) /\ now \in Nat
  BY DEF IInv, TypeOK, Authority
<1>2. \E named : leases' = Expire(Resolve(Expire(leases, now), named, v, kind), now)
  BY DEF AnswerPanel, AnswerText, Refreshed
<1>3. Leaves(leases, leases', {}) \/ Revises(leases, leases')
  BY <1>1, <1>2, ResolveMoves
<1> QED
  BY <1>3 DEF Leaves, Quiet

LEMMA MovesSearch ==
    ASSUME IInv, NEW v \in Values,
           \/ \E i \in SearchIds : StartLocalSearch(i, v)
           \/ \E q \in searches, kind \in SearchKinds : SearchResult(q, v, kind)
           \/ \E w \in Workers : EnqueueSearch(w)
    PROVE  Quiet(leases, leases')
<1>1. Sound(leases) /\ now \in Nat
  BY DEF IInv, TypeOK, Authority
<1>2. ASSUME NEW i \in SearchIds, StartLocalSearch(i, v)
      PROVE  Quiet(leases, leases')
  <2> DEFINE r == [id |-> i, gaps |-> 0, value |-> v]
             s == StartSearch(leases, r, now)
  <2>1. r \in Request /\ r.id = i /\ Ready(r) /\ i \in Others
    BY IdsAssumption, GapsAssumption DEF Request, Ready, Others
  <2>2. leases.digests[i] = None /\ Refreshed(s)
    BY <1>2 DEF StartLocalSearch
  <2> HIDE DEF r
  <2>3. Sound(s) /\ Leaves(leases, s, {i})
    BY <1>1, <2>1, <2>2, StartSearchSound, StartSearchLeaves
  <2> HIDE DEF s
  <2>4. Leaves(leases, leases', {i})
    BY <1>1, <2>2, <2>3, RefreshedLeaves
  <2> QED
    BY <2>1, <2>4 DEF Leaves, Quiet
<1>3. ASSUME NEW q \in searches, NEW kind \in SearchKinds, SearchResult(q, v, kind)
      PROVE  Quiet(leases, leases')
  <2>1. leases' = Expire(Continued(Expire(leases, now), q, v, kind), now) /\ q \in Search
    BY <1>3 DEF SearchResult, Refreshed, IInv, TypeOK
  <2>2. Leaves(leases, leases', {}) \/ Revises(leases, leases')
    BY <1>1, <2>1, ContinuedMoves
  <2> QED
    BY <2>2 DEF Leaves, Quiet
<1>4. ASSUME NEW w \in Workers, EnqueueSearch(w)
      PROVE  Quiet(leases, leases')
  <2> DEFINE s == Expire(leases, now)
             t == [s EXCEPT !.ready = None]
  <2>1. Sound(s) /\ Leaves(leases, s, Others)
    BY <1>1, ExpireSound, ExpireLeaves
  <2>2. leases' = t
    BY <1>4 DEF EnqueueSearch
  <2> HIDE DEF s
  <2>3. /\ t.epoch = s.epoch /\ t.digests = s.digests /\ t.pending = s.pending
        /\ t.confirmations = s.confirmations /\ t.issued = s.issued
    BY <2>1 DEF Sound, LeaseOwner
  <2> HIDE DEF t
  <2> QED
    BY <2>1, <2>2, <2>3 DEF Leaves, Quiet
<1> QED
  BY <1>2, <1>3, <1>4

LEMMA MovesInvalidate ==
    ASSUME IInv, \/ RefreshPanel \/ RefuseBatch \/ ClearProvider \/ Stop \/ NewChat
                 \/ RevokeInvalidate
                 \/ \E w \in Workers, d \in dialogs, approved \in BOOLEAN :
                      AnswerDialog(w, d, approved)
    PROVE  Quiet(leases, leases')
<1>1. Sound(leases) /\ now \in Nat
  BY DEF IInv, TypeOK, Authority
<1>2. /\ Sound(Invalidate(leases)) /\ Leaves(leases, Invalidate(leases), Others)
      /\ Leaves(leases, Supersede(leases), Others) /\ Leaves(leases, leases, Others)
  BY <1>1, InvalidateSound, InvalidateLeaves, LeavesReflexive
<1>3. CASE RefreshPanel \/ Stop \/ NewChat \/ RevokeInvalidate
  <2>1. Refreshed(leases) \/ Refreshed(Invalidate(leases))
    BY <1>3 DEF RefreshPanel, Stop, NewChat, RevokeInvalidate
  <2> QED
    BY <1>1, <1>2, <2>1, RefreshedLeaves DEF Quiet
<1>4. CASE RefuseBatch
  BY <1>2, <1>4 DEF RefuseBatch, Quiet
<1>5. CASE \/ ClearProvider
           \/ \E w \in Workers, d \in dialogs, approved \in BOOLEAN :
                AnswerDialog(w, d, approved)
  <2>1. \E C : leases' = [leases EXCEPT !.confirmations = @ \ C]
    BY <1>5 DEF ClearProvider, AnswerDialog, Consume
  <2> QED
    BY <1>1, <2>1, DropLeaves DEF Quiet
<1> QED
  BY <1>3, <1>4, <1>5

\* The dispatcher binds the id of the proposal the arbiter accepts.
LEMMA MovesProvider ==
    ASSUME IInv, NEW w \in Workers, NEW r \in Request, PrepareProvider(w, r)
    PROVE  /\ Leaves(leases, leases', {r.id})
           /\ ~Wins(r) => leases' = leases
<1>1. CASE Wins(r)
  BY <1>1, PrepareLeaves DEF PrepareProvider
<1>2. CASE ~Wins(r)
  BY <1>2, LeavesReflexive DEF PrepareProvider, IInv, Authority
<1> QED
  BY <1>1, <1>2

LEMMA NextMoves ==
    ASSUME IInv, [Next]_vars
    PROVE  \/ Quiet(leases, leases')
           \/ \E w \in Workers, r \in Request : PrepareProvider(w, r)
           \/ \E w \in Workers : ReportConfirmation(w) /\ Issues(leases, leases', now)
<1>0. leases' = leases => Quiet(leases, leases')
  BY LeavesReflexive DEF IInv, Authority, Quiet
<1>1. ASSUME NEW w \in Workers,
             \/ Capture(w) \/ ReadGrants(w) \/ ReportDropped(w)
             \/ \E outcome \in {"done", "candidates", "matches"} : Execute(w, outcome)
      PROVE  leases' = leases
  BY <1>1 DEF Capture, ReadGrants, ReportDropped, Execute
<1>2. ASSUME NEW t \in Turns,
             OpenTurn(t) \/ CompleteRouting(t) \/ ClaimLocalAction(t) \/ CloseTurn(t)
      PROVE  leases' = leases
  BY <1>2 DEF OpenTurn, CompleteRouting, ClaimLocalAction, CloseTurn
<1>3. Grant \/ RevokeWrite \/ Tick \/ UNCHANGED vars => leases' = leases
  BY DEF Grant, RevokeWrite, Tick, vars
<1>4. ASSUME NEW w \in Workers, EnqueueSearch(w)
      PROVE  Quiet(leases, leases')
  <2>1. \E v : v \in Values
    <3>1. leases.ready \in Admission
      BY <1>4 DEF EnqueueSearch, IInv, TypeOK, LeaseOwner
    <3> QED
      BY <3>1 DEF Admission, Request
  <2> QED
    BY <1>4, <2>1, MovesSearch
<1>5. ASSUME NEW w \in Workers, ReportConfirmation(w)
      PROVE  Quiet(leases, leases') \/ Issues(leases, leases', now)
  BY <1>5, MovesReportConfirmation DEF Moves
<1>6. ASSUME NEW w \in Workers,
             \/ PrepareResolved(w) \/ Capture(w) \/ ReadGrants(w)
             \/ \E outcome \in {"done", "candidates", "matches"} : Execute(w, outcome)
             \/ ReportDropped(w) \/ ReportConfirmation(w) \/ EnqueueSearch(w)
             \/ \E r \in Request : ReportQuestion(w, r)
             \/ \E d \in dialogs, approved \in BOOLEAN : AnswerDialog(w, d, approved)
             \/ \E v \in Values, kind \in Kinds :
                  AnswerPanel(w, v, kind) \/ AnswerText(w, v, kind)
      PROVE  \/ Quiet(leases, leases')
             \/ ReportConfirmation(w) /\ Issues(leases, leases', now)
  <2>1. CASE \/ Capture(w) \/ ReadGrants(w) \/ ReportDropped(w)
             \/ \E outcome \in {"done", "candidates", "matches"} : Execute(w, outcome)
    BY <1>0, <1>1, <2>1
  <2>2. CASE PrepareResolved(w)
    BY <2>2, MovesPrepareResolved
  <2>3. CASE ReportConfirmation(w) \/ EnqueueSearch(w)
    BY <1>4, <1>5, <2>3
  <2>4. CASE \E r \in Request : ReportQuestion(w, r)
    BY <2>4, MovesReportQuestion
  <2>5. CASE \E d \in dialogs, approved \in BOOLEAN : AnswerDialog(w, d, approved)
    BY <2>5, MovesInvalidate
  <2>6. CASE \E v \in Values, kind \in Kinds :
                AnswerPanel(w, v, kind) \/ AnswerText(w, v, kind)
    BY <2>6, MovesAnswer
  <2> QED
    BY <1>6, <2>1, <2>2, <2>3, <2>4, <2>5, <2>6
<1>7. (\E w \in Workers, r \in Request : PrepareDirect(w, r)) => Quiet(leases, leases')
  BY MovesPrepare
<1>8. (\E r \in Request : PrepareInvalid(r)) => Quiet(leases, leases')
  BY MovesPrepareInvalid
<1>9. (\E i \in SearchIds, v \in Values : StartLocalSearch(i, v)) => Quiet(leases, leases')
  BY MovesSearch
<1>10. (\E q \in searches, v \in Values, kind \in SearchKinds : SearchResult(q, v, kind))
         => Quiet(leases, leases')
  BY MovesSearch
<1>11. RefreshPanel \/ RefuseBatch \/ ClearProvider \/ Stop \/ NewChat \/ RevokeInvalidate
         => Quiet(leases, leases')
  BY MovesInvalidate
<1> QED
  BY <1>0, <1>2, <1>3, <1>6, <1>7, <1>8, <1>9, <1>10, <1>11 DEF Next

\* An id keeps its content, whatever is prepared, claimed, searched or asked
\* under it, unless the current owner's own question or search revised it.
THEOREM IdentitiesAreBound == Spec => IdentityBound
<1> DEFINE A == \A i \in Ids :
         (leases.digests[i] # None /\ leases'.digests[i] # leases.digests[i]) =>
            /\ leases.current = leases.digests[i]
            /\ leases'.current = leases'.digests[i]
            /\ leases'.epoch = leases.epoch
<1>1. IInv /\ [Next]_vars => [A]_vars
  <2> SUFFICES ASSUME IInv, [Next]_vars, NEW i \in Ids, leases.digests[i] # None,
                      leases'.digests[i] # leases.digests[i]
               PROVE  /\ leases.current = leases.digests[i]
                      /\ leases'.current = leases'.digests[i]
                      /\ leases'.epoch = leases.epoch
    OBVIOUS
  <2>1. \A B : ~Leaves(leases, leases', B)
    BY DEF Leaves
  <2>2. ~Issues(leases, leases', now)
    BY DEF Issues
  <2>3. Revises(leases, leases')
    BY <2>1, <2>2, NextMoves, MovesProvider DEF Quiet
  <2>4. leases.digests \in [Ids -> Request \cup {None}]
    BY DEF IInv, TypeOK, LeaseOwner
  <2> QED
    BY <2>3, <2>4 DEF Revises
<1> QED
  BY <1>1, Invariance, PTL DEF Spec, IdentityBound

(***************************************************************************)
(* One owner has one confirmation at a time: the second part of the        *)
(* deadlines needs it, as an invariant of its own.                         *)
(***************************************************************************)

OneConfirmation == \A l, m \in leases.confirmations : l = m

LEMMA OneConfirmationNext ==
    ASSUME IInv, OneConfirmation, [Next]_vars
    PROVE  OneConfirmation'
<1>1. ASSUME NEW B, Leaves(leases, leases', B)
      PROVE  OneConfirmation'
  BY <1>1 DEF Leaves, OneConfirmation
<1>2. CASE Revises(leases, leases')
  BY <1>2 DEF Revises, OneConfirmation
<1>3. CASE Issues(leases, leases', now)
  BY <1>3 DEF Issues, OneConfirmation
<1> QED
  BY <1>1, <1>2, <1>3, NextMoves, MovesProvider DEF Quiet

\* Neither a revision of a question nor asking it or confirming again while the
\* lease runs gives anybody more time.
THEOREM DeadlinesNeverExtend == Spec => DeadlinesFixed
<1> DEFINE A ==
       /\ (leases.pending # None /\ leases'.pending # None
             /\ leases'.epoch = leases.epoch) =>
            /\ leases'.pending.lease = leases.pending.lease
            /\ leases'.pending.deadline = leases.pending.deadline
       /\ \A l \in leases.confirmations, m \in leases'.confirmations :
            (now < l.deadline /\ m.request = l.request /\ m.epoch = l.epoch)
               => m = l
<1>1. IInv /\ OneConfirmation /\ [Next]_vars => [A]_vars
  <2> SUFFICES ASSUME IInv, OneConfirmation, [Next]_vars
               PROVE  A
    OBVIOUS
  <2>1. ASSUME NEW B, Leaves(leases, leases', B)
        PROVE  A
    BY <2>1 DEF Leaves, OneConfirmation
  <2>2. CASE Revises(leases, leases')
    BY <2>2 DEF Revises
  <2>3. CASE Issues(leases, leases', now)
    BY <2>3 DEF Issues
  <2> QED
    BY <2>1, <2>2, <2>3, NextMoves, MovesProvider DEF Quiet
<1>2. Init => OneConfirmation
  BY DEF Init, NewLeases, OneConfirmation
<1>3. IInv /\ OneConfirmation /\ [Next]_vars => OneConfirmation'
  BY OneConfirmationNext
<1> QED
  BY <1>1, <1>2, <1>3, Invariance, PTL DEF Spec, DeadlinesFixed

(***************************************************************************)
(* One intent per turn, as long as no New Chat clears the arbiter.         *)
(***************************************************************************)

\* What the arbiter accepted it never takes back.
LEMMA AcceptedStays ==
    ASSUME IInv, ~NewChatAllowed, [Next]_vars
    PROVE  \A t \in Turns : accepted[t] # None => accepted'[t] = accepted[t]
<1>1. accepted \in [Turns -> Ids \cup {None, "local"}]
  BY DEF IInv, TypeOK
<1>2. ASSUME NEW w \in Workers, NEW r \in Request, PrepareProvider(w, r)
      PROVE  \A t \in Turns : accepted[t] # None => accepted'[t] = accepted[t]
  BY <1>1, <1>2 DEF PrepareProvider, Wins
<1>3. ASSUME NEW u \in Turns, ClaimLocalAction(u)
      PROVE  \A t \in Turns : accepted[t] # None => accepted'[t] = accepted[t]
  BY <1>1, <1>3 DEF ClaimLocalAction
<1>4. ~NewChat
  BY DEF NewChat
<1>5. \/ accepted' = accepted
      \/ \E w \in Workers, r \in Request : PrepareProvider(w, r)
      \/ \E u \in Turns : ClaimLocalAction(u)
  <2>1. ASSUME NEW w \in Workers, NEW r \in Request, PrepareDirect(w, r)
        PROVE  accepted' = accepted
    BY <2>1 DEF PrepareDirect, turnVars
  <2>2. ASSUME NEW r \in Request, PrepareInvalid(r)
        PROVE  accepted' = accepted
    BY <2>2 DEF PrepareInvalid, turnVars
  <2>3. ASSUME NEW w \in Workers,
               \/ PrepareResolved(w) \/ Capture(w) \/ ReadGrants(w)
               \/ \E outcome \in {"done", "candidates", "matches"} : Execute(w, outcome)
               \/ ReportDropped(w) \/ ReportConfirmation(w) \/ EnqueueSearch(w)
               \/ \E r \in Request : ReportQuestion(w, r)
               \/ \E d \in dialogs, approved \in BOOLEAN : AnswerDialog(w, d, approved)
               \/ \E v \in Values, kind \in Kinds :
                    AnswerPanel(w, v, kind) \/ AnswerText(w, v, kind)
        PROVE  accepted' = accepted
    <3>1. CASE PrepareResolved(w) \/ Capture(w) \/ ReadGrants(w)
      BY <3>1 DEF PrepareResolved, Capture, ReadGrants, turnVars
    <3>2. CASE \E outcome \in {"done", "candidates", "matches"} : Execute(w, outcome)
      BY <3>2 DEF Execute, turnVars
    <3>3. CASE ReportDropped(w) \/ ReportConfirmation(w) \/ EnqueueSearch(w)
      BY <3>3 DEF ReportDropped, ReportConfirmation, EnqueueSearch, turnVars
    <3>4. CASE \E r \in Request : ReportQuestion(w, r)
      BY <3>4 DEF ReportQuestion, turnVars
    <3>5. CASE \E d \in dialogs, approved \in BOOLEAN : AnswerDialog(w, d, approved)
      BY <3>5 DEF AnswerDialog, turnVars
    <3>6. CASE \E v \in Values, kind \in Kinds :
                  AnswerPanel(w, v, kind) \/ AnswerText(w, v, kind)
      BY <3>6 DEF AnswerPanel, AnswerText, turnVars
    <3> QED
      BY <2>3, <3>1, <3>2, <3>3, <3>4, <3>5, <3>6
  <2>4. ASSUME NEW i \in SearchIds, NEW v \in Values, StartLocalSearch(i, v)
        PROVE  accepted' = accepted
    BY <2>4 DEF StartLocalSearch, turnVars
  <2>5. ASSUME NEW q \in searches, NEW v \in Values, NEW kind \in SearchKinds,
               SearchResult(q, v, kind)
        PROVE  accepted' = accepted
    BY <2>5 DEF SearchResult, turnVars
  <2>6. ASSUME NEW t \in Turns, OpenTurn(t) \/ CompleteRouting(t) \/ CloseTurn(t)
        PROVE  accepted' = accepted
    BY <2>6 DEF OpenTurn, CompleteRouting, CloseTurn
  <2>7. CASE RefreshPanel \/ RefuseBatch \/ ClearProvider \/ Stop
    BY <2>7 DEF RefreshPanel, RefuseBatch, ClearProvider, Stop, turnVars
  <2>8. CASE Grant \/ RevokeInvalidate \/ RevokeWrite \/ Tick \/ UNCHANGED vars
    BY <2>8 DEF Grant, RevokeInvalidate, RevokeWrite, Tick, vars, turnVars
  <2> QED
    BY <1>4, <2>1, <2>2, <2>3, <2>4, <2>5, <2>6, <2>7, <2>8 DEF Next
<1> QED
  BY <1>2, <1>3, <1>5

LEMMA OneIntentNext ==
    ASSUME IInv, ~NewChatAllowed, OneIntentPerTurn, [Next]_vars
    PROVE  OneIntentPerTurn'
<1> SUFFICES ASSUME NEW p \in ProviderIds, leases'.digests[p] # None
             PROVE  accepted'[TurnOf[p]] = p
  BY DEF OneIntentPerTurn
<1>1. p \in Ids /\ p # None /\ TurnOf[p] \in Turns /\ p \notin Others
  BY IdsAssumption, NoneAssumption DEF Turns, Others
<1>2. CASE leases.digests[p] # None
  BY <1>1, <1>2, AcceptedStays DEF OneIntentPerTurn
<1>3. CASE leases.digests[p] = None
  <2>1. ~Quiet(leases, leases') /\ ~Issues(leases, leases', now)
    <3>1. ~Leaves(leases, leases', Others) /\ ~Issues(leases, leases', now)
      BY <1>1, <1>3 DEF Leaves, Issues
    <3>2. ~Revises(leases, leases')
      BY <1>1, <1>3, NoneAssumption DEF Revises, IInv, TypeOK, LeaseOwner
    <3> QED
      BY <3>1, <3>2 DEF Quiet
  <2>2. PICK w \in Workers, r \in Request : PrepareProvider(w, r)
    BY <2>1, NextMoves
  <2>3. Leaves(leases, leases', {r.id}) /\ Wins(r)
    BY <1>3, <2>2, MovesProvider
  <2>4. r.id = p
    BY <1>1, <1>3, <2>3 DEF Leaves
  <2> QED
    BY <1>1, <2>2, <2>3, <2>4 DEF PrepareProvider, IInv, TypeOK
<1> QED
  BY <1>2, <1>3

\* While New Chat does not clear the arbiter, a proposal becomes an owner only
\* as the one its turn accepted, whatever the workers and the routing do.
THEOREM OneIntentIsAccepted ==
    ASSUME ~NewChatAllowed
    PROVE  Spec => []OneIntentPerTurn
<1>1. Init => OneIntentPerTurn
  BY IdsAssumption DEF Init, NewLeases, OneIntentPerTurn
<1>2. IInv /\ OneIntentPerTurn /\ [Next]_vars => OneIntentPerTurn'
  BY OneIntentNext
<1> QED
  BY <1>1, <1>2, Invariance, PTL DEF Spec

(***************************************************************************)
(* The promise of LeaseAuthority.  A quiet step only withdraws; a worker   *)
(* gains a lease from the dialog that answers it and loses it when it      *)
(* executes, reports or ends.                                              *)
(***************************************************************************)

\* The owner of the next state holds no confirmation of an earlier one.
Shrinks ==
    /\ leases'.confirmations \subseteq leases.confirmations
    /\ leases'.issued >= leases.issued /\ leases'.epoch >= leases.epoch
    /\ leases'.epoch # leases.epoch => leases'.confirmations = {}

LEMMA QuietShrinks ==
    ASSUME IInv, IInv', Quiet(leases, leases') \/ \E B : Leaves(leases, leases', B)
    PROVE  Shrinks
<1>1. /\ \A l \in leases.confirmations : l.epoch = leases.epoch
      /\ \A l \in leases'.confirmations : l.epoch = leases'.epoch
      /\ leases.epoch \in Nat
  BY DEF IInv, TypeOK, Authority, Sound, Coherent, Owns, LeaseOwner
<1>2. CASE Revises(leases, leases')
  BY <1>1, <1>2 DEF Revises, Shrinks
<1>3. ASSUME NEW B, Leaves(leases, leases', B)
      PROVE  Shrinks
  BY <1>1, <1>3 DEF Leaves, Shrinks
<1> QED
  BY <1>2, <1>3 DEF Quiet

\* A worker that ends, reports, or goes on as it was carries nothing new.
LEMMA CarriesNothingNew ==
    ASSUME IInv, NEW w \in Workers, NEW j, SetJob(w, j),
           \/ j = None \/ j.lease = None \/ j.stage = "report"
           \/ jobs[w] # None /\ jobs[w].stage # "report" /\ j.lease = jobs[w].lease
    PROVE  Carried' \subseteq Carried
<1>1. jobs \in [Workers -> Job \cup {None}] /\ jobs' = [jobs EXCEPT ![w] = j]
  BY DEF IInv, TypeOK, SetJob
<1> SUFFICES ASSUME NEW u \in Workers, jobs'[u] # None, jobs'[u].lease # None,
                    jobs'[u].stage # "report"
             PROVE  jobs'[u].lease \in Carried
  BY DEF Carried
<1> QED
  BY <1>1 DEF Carried

\* Whatever is not an approval, an execution or the clock at most takes away.
LEMMA OthersCarryLess ==
    ASSUME IInv, [Next]_vars
    PROVE  \/ /\ Carried' \subseteq Carried
              /\ UNCHANGED <<now, executed>>
           \/ \E w \in Workers, outcome \in {"done", "candidates", "matches"} : Execute(w, outcome)
           \/ \E w \in Workers, d \in dialogs, approved \in BOOLEAN : AnswerDialog(w, d, approved)
           \/ Tick
<1> DEFINE Less == Carried' \subseteq Carried /\ UNCHANGED <<now, executed>>
<1>0. jobs' = jobs => Carried' = Carried
  BY DEF Carried
<1>1. ASSUME NEW w \in Workers, NEW r \in Request, PrepareWith(w, r), UNCHANGED <<now, executed>>
      PROVE  Less
  <2>1. \E j : SetJob(w, j) /\ (j = None \/ j.lease = None)
    BY <1>1 DEF PrepareWith, NewJob
  <2> QED
    BY <1>1, <2>1, CarriesNothingNew
<1>2. ASSUME NEW w \in Workers, NEW r \in Request, PrepareDirect(w, r) \/ PrepareProvider(w, r)
      PROVE  Less
  BY <1>0, <1>1, <1>2 DEF PrepareDirect, PrepareProvider
<1>3. ASSUME NEW w \in Workers, PrepareResolved(w)
      PROVE  Less
  <2>1. jobs[w].request \in Request
    BY <1>3 DEF PrepareResolved, AtStage, Idle, IInv, TypeOK, Job
  <2> QED
    BY <1>1, <1>3, <2>1 DEF PrepareResolved
<1>4. ASSUME NEW w \in Workers, Capture(w) \/ ReadGrants(w)
      PROVE  Less
  <2>1. jobs[w] \in Job /\ jobs[w] # None /\ jobs[w].stage # "report"
    BY <1>4 DEF Capture, ReadGrants, AtStage, Idle, IInv, TypeOK
  <2>2. \E j : SetJob(w, j) /\ (j = None \/ j.lease = jobs[w].lease)
    <3>1. CASE Capture(w)
      <4> DEFINE g == \/ jobs[w].guarded
                      \/ Lane(jobs[w].request) = "direct" /\ jobs[w].request.id \in GuardedIds
                 j == Captured(jobs[w], leases.epoch, g)
      <4>1. SetJob(w, None) \/ SetJob(w, j)
        BY <3>1 DEF Capture, Captured
      <4>2. g \in BOOLEAN /\ leases.epoch \in Nat
        BY <2>1 DEF Job, IInv, TypeOK, LeaseOwner
      <4> HIDE DEF g
      <4>3. j.lease = jobs[w].lease
        BY <2>1, <4>2, CapturedType
      <4> HIDE DEF j
      <4> QED
        BY <4>1, <4>3
    <3>2. CASE ReadGrants(w)
      <4> DEFINE denied == [jobs[w] EXCEPT !.stage = "report", !.outcome = "denied"]
                 confirm == [jobs[w] EXCEPT !.stage = "report", !.outcome = "confirm"]
                 execute == [jobs[w] EXCEPT !.stage = "execute"]
      <4>1. SetJob(w, None) \/ SetJob(w, denied) \/ SetJob(w, confirm) \/ SetJob(w, execute)
        BY <3>2 DEF ReadGrants
      <4>2. /\ denied.lease = jobs[w].lease /\ confirm.lease = jobs[w].lease
            /\ execute.lease = jobs[w].lease
        BY <2>1 DEF Job
      <4> HIDE DEF denied, confirm, execute
      <4> QED
        BY <4>1, <4>2
    <3> QED
      BY <1>4, <3>1, <3>2
  <2>3. UNCHANGED <<now, executed>>
    BY <1>4 DEF Capture, ReadGrants
  <2> QED
    BY <2>1, <2>2, <2>3, CarriesNothingNew
<1>5. ASSUME NEW w \in Workers, ReportDropped(w) \/ ReportConfirmation(w) \/ EnqueueSearch(w)
      PROVE  Less
  <2>1. \E j : SetJob(w, j) /\ (j = None \/ j.lease = None)
    BY <1>5 DEF ReportDropped, ReportConfirmation, EnqueueSearch, NewJob
  <2>2. UNCHANGED <<now, executed>>
    BY <1>5 DEF ReportDropped, ReportConfirmation, EnqueueSearch
  <2> QED
    BY <2>1, <2>2, CarriesNothingNew
<1>6. ASSUME NEW w \in Workers, NEW r \in Request, ReportQuestion(w, r)
      PROVE  Less
  <2>1. SetJob(w, None) /\ UNCHANGED <<now, executed>>
    BY <1>6 DEF ReportQuestion
  <2> QED
    BY <2>1, CarriesNothingNew
<1>7. ASSUME NEW w \in Workers, NEW v \in Values, NEW kind \in Kinds,
             AnswerPanel(w, v, kind) \/ AnswerText(w, v, kind)
      PROVE  Less
  <2>1. \E j : SetJob(w, j) /\ (j = None \/ j.lease = None)
    BY <1>7 DEF AnswerPanel, AnswerText, NewJob
  <2>2. UNCHANGED <<now, executed>>
    BY <1>7 DEF AnswerPanel, AnswerText
  <2> QED
    BY <2>1, <2>2, CarriesNothingNew
<1>8. Stop => Less
  <2> SUFFICES ASSUME Stop PROVE Less
    OBVIOUS
  <2>1. jobs \in [Workers -> Job \cup {None}]
    BY DEF IInv, TypeOK
  <2>2. \A w \in Workers : jobs'[w] = None \/ jobs'[w] = jobs[w]
    BY <2>1 DEF Stop
  <2> QED
    BY <2>2 DEF Stop, Carried
<1>9. ASSUME NEW r \in Request, PrepareInvalid(r)
      PROVE  Less
  BY <1>0, <1>9 DEF PrepareInvalid
<1>10. ASSUME NEW i \in SearchIds, NEW v \in Values, StartLocalSearch(i, v)
       PROVE  Less
  BY <1>0, <1>10 DEF StartLocalSearch
<1>11. ASSUME NEW q \in searches, NEW v \in Values, NEW kind \in SearchKinds,
              SearchResult(q, v, kind)
       PROVE  Less
  BY <1>0, <1>11 DEF SearchResult
<1>12. ASSUME NEW t \in Turns,
              OpenTurn(t) \/ CompleteRouting(t) \/ ClaimLocalAction(t) \/ CloseTurn(t)
       PROVE  Less
  BY <1>0, <1>12 DEF OpenTurn, CompleteRouting, ClaimLocalAction, CloseTurn
<1>13. RefreshPanel \/ RefuseBatch \/ ClearProvider \/ NewChat => Less
  BY <1>0 DEF RefreshPanel, RefuseBatch, ClearProvider, NewChat
<1>14. Grant \/ RevokeInvalidate \/ RevokeWrite \/ UNCHANGED vars => Less
  BY <1>0 DEF Grant, RevokeInvalidate, RevokeWrite, vars
<1> HIDE DEF Less
<1>15. \/ Less
       \/ \E w \in Workers, outcome \in {"done", "candidates", "matches"} : Execute(w, outcome)
       \/ \E w \in Workers, d \in dialogs, approved \in BOOLEAN : AnswerDialog(w, d, approved)
       \/ Tick
  BY <1>2, <1>3, <1>4, <1>5, <1>6, <1>7, <1>8, <1>9, <1>10, <1>11, <1>12, <1>13, <1>14
     DEF Next
<1> QED
  BY <1>15 DEF Less

\* An execution takes the lease from the only worker that carries it.
LEMMA ExecuteSpends ==
    ASSUME IInv, NEW w \in Workers, NEW outcome \in {"done", "candidates", "matches"},
           Execute(w, outcome)
    PROVE  Lease!Execute \/ Lease!Withdraw
<1> DEFINE j == [jobs[w] EXCEPT !.stage = "report", !.outcome = outcome]
           l == jobs[w].lease
           e == [request |-> jobs[w].request, lease |-> jobs[w].lease]
<1>1. /\ jobs[w] # None /\ jobs[w] \in Job /\ JobOK(jobs[w], leases)
      /\ jobs[w].stage = "execute" /\ jobs \in [Workers -> Job \cup {None}]
      /\ leases.issued \in Nat /\ leases.epoch \in Nat
      /\ leases' = leases /\ now' = now
  BY DEF Execute, AtStage, Idle, IInv, TypeOK, Authority, LeaseOwner
<1>2. j \in Job /\ j.lease = l /\ j.stage = "report"
  BY <1>1 DEF Job, Stages, JobOutcomes
<1>3. \/ SetJob(w, None) /\ executed' = executed
      \/ SetJob(w, j) /\ (executed' = executed \/ executed' = executed \cup {e})
  BY DEF Execute
<1>4. e.lease = l /\ e.request = jobs[w].request
  OBVIOUS
<1> HIDE DEF j
<1>5. Carried' \subseteq Carried
  BY <1>2, <1>3, CarriesNothingNew
<1>6. CASE {x \in executed' : x.lease # None} = {x \in executed : x.lease # None}
  BY <1>1, <1>5, <1>6 DEF Lease!Withdraw
<1>7. CASE /\ SetJob(w, j) /\ executed' = executed \cup {e} /\ l # None
  <2>1. jobs' = [jobs EXCEPT ![w] = j]
    BY <1>7 DEF SetJob
  <2>2. l.request = jobs[w].request /\ l \in Carried
    BY <1>1, <1>7 DEF JobOK, Carried
  <2>3. \A u \in Workers \ {w} : jobs[u] # None => jobs[u].lease # l
    BY <1>1, <1>7 DEF IInv, Authority
  <2>4. Carried' = Carried \ {l}
    BY <1>1, <1>2, <2>1, <2>3 DEF Carried
  <2>5. {x \in executed' : x.lease # None}
          = {x \in executed : x.lease # None} \cup {[request |-> l.request, lease |-> l]}
    BY <1>4, <1>7, <2>2
  <2> QED
    BY <1>1, <2>2, <2>4, <2>5 DEF Lease!Execute
<1>8. l = None => {x \in executed' : x.lease # None} = {x \in executed : x.lease # None}
  BY <1>3, <1>4
<1> HIDE DEF e, l
<1> QED
  BY <1>3, <1>6, <1>7, <1>8

\* An answer approves the lease for the owner of the moment, or withdraws it.
LEMMA AnswerApproves ==
    ASSUME IInv, IInv', NEW w \in Workers, NEW d \in dialogs, NEW approved \in BOOLEAN,
           AnswerDialog(w, d, approved)
    PROVE  Lease!Approve \/ Lease!Withdraw
<1> DEFINE l == d.lease
           direct == NewJob(d.request, l, "capture", l.epoch, d.request.id \in GuardedIds)
           provider == NewJob(d.request, l, "evaluate", 0, FALSE)
<1>1. /\ jobs \in [Workers -> Job \cup {None}] /\ jobs[w] = None
      /\ l \in Confirmation /\ l # None /\ leases \in LeaseOwner /\ Sound(leases)
  BY NoneAssumption DEF AnswerDialog, Idle, IInv, TypeOK, Authority, Dialog
<1>2. /\ leases' = [leases EXCEPT !.confirmations = @ \ {l}]
      /\ UNCHANGED <<now, executed>>
  BY DEF AnswerDialog, Consume
<1>3. /\ leases'.confirmations = leases.confirmations \ {l}
      /\ leases'.epoch = leases.epoch /\ leases'.issued = leases.issued
      /\ leases.epoch \in Nat /\ leases.issued \in Nat
  BY <1>1, <1>2 DEF LeaseOwner
<1>4. PICK j \in {None, direct, provider} :
         SetJob(w, j) /\ (j # None => Permitted(leases, l, d.request, approved, now))
  BY DEF AnswerDialog, Approved
<1>5. j = None \/ (j.lease = l /\ j.stage # "report")
  BY <1>4 DEF NewJob
<1> HIDE DEF direct, provider, l
<1>6. CASE j = None
  <2>1. Carried' \subseteq Carried
    BY <1>4, <1>6, CarriesNothingNew
  <2> QED
    BY <1>2, <1>3, <2>1 DEF Lease!Withdraw
<1>7. CASE j # None
  <2>1. jobs' = [jobs EXCEPT ![w] = j]
    BY <1>4 DEF SetJob
  <2>2. Carried' = Carried \cup {l}
    BY <1>1, <1>5, <1>7, <2>1 DEF Carried
  <2>3. l \in leases.confirmations /\ l.epoch = leases.epoch /\ now < l.deadline
    BY <1>4, <1>7 DEF Permitted
  <2> QED
    BY <1>2, <1>3, <2>2, <2>3 DEF Lease!Approve
<1> QED
  BY <1>6, <1>7

LEMMA StepAuthority ==
    ASSUME IInv, IInv', [Next]_vars
    PROVE  [Lease!Next]_(Lease!authorityVars)
<1>1. CASE Tick
  <2>1. /\ leases' = leases /\ Carried' = Carried /\ executed' = executed
        /\ now' = now + 1
    BY <1>1 DEF Tick, Carried
  <2> QED
    BY <2>1 DEF Lease!Next, Lease!Tick
<1>2. CASE \E w \in Workers, outcome \in {"done", "candidates", "matches"} : Execute(w, outcome)
  BY <1>2, ExecuteSpends DEF Lease!Next
<1>3. CASE \E w \in Workers, d \in dialogs, approved \in BOOLEAN : AnswerDialog(w, d, approved)
  BY <1>3, AnswerApproves DEF Lease!Next
<1>4. CASE Carried' \subseteq Carried /\ UNCHANGED <<now, executed>>
  <2>1. CASE Shrinks
    BY <1>4, <2>1 DEF Shrinks, Lease!Withdraw, Lease!Next
  <2>2. ASSUME NEW w \in Workers, ReportConfirmation(w), Issues(leases, leases', now)
        PROVE  Lease!Issue
    <3>1. jobs' = [jobs EXCEPT ![w] = None] /\ jobs[w] # None /\ jobs[w].stage = "report"
          /\ jobs \in [Workers -> Job \cup {None}]
      BY <2>2 DEF ReportConfirmation, Reporting, AtStage, Idle, SetJob, IInv, TypeOK
    <3>2. Carried' = Carried
      BY <3>1 DEF Carried
    <3>3. leases'.epoch = leases.epoch
      BY <2>2 DEF Issues
    <3> QED
      BY <1>4, <2>2, <3>2, <3>3 DEF Issues, Lease!Issue
  <2> QED
    BY <2>1, <2>2, QuietShrinks, NextMoves, MovesProvider DEF Lease!Next
<1> QED
  BY <1>1, <1>2, <1>3, <1>4, OthersCarryLess

\* Across the lanes, their dialogs and workers, a confirmation lease is issued
\* fresh and alone, approved once by its owner in time, and pays for one
\* execution of its request: the action core implements LeaseAuthority.
THEOREM AuthorityIsKept == Spec => KeepsAuthority
<1>1. Init => Lease!Init
  BY DEF Init, NewLeases, Carried, Lease!Init
<1>2. IInv /\ IInv' /\ [Next]_vars => [Lease!Next]_(Lease!authorityVars)
  BY StepAuthority
<1> QED
  BY <1>1, <1>2, Invariance, PTL DEF Spec, KeepsAuthority, Lease!Spec
=============================================================================
