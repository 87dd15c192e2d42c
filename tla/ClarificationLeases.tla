------------------------- MODULE ClarificationLeases -------------------------
(***************************************************************************)
(* The lease owner of services/action_clarification.py as operators on one *)
(* record `s`, each the effect of one method run under the service's RLock.*)
(* A lease owner holds at most one foreground question (`pending`), the    *)
(* confirmation leases of the current owner, at most one local search and  *)
(* the single execution a finished search has admitted (`ready`).          *)
(*                                                                         *)
(* A request is its correlation id, the number of required parameters that *)
(* are still missing (`gaps`) and one value standing for its other         *)
(* arguments.  request_fingerprint binds all three, so a digest is the     *)
(* request itself.  A ValueError leaves the record the method has built    *)
(* so far.                                                                 *)
(***************************************************************************)
EXTENDS Naturals

CONSTANTS
    Ids,                     \* correlation ids
    Values,                  \* argument values a request may carry
    MaxGaps,                 \* most parameters a request may miss
    None,                    \* absence of a record
    ClarificationLifetime,   \* 120 s of the monotonic clock
    ConfirmationLifetime     \* 60 s of the monotonic clock

Request == [id : Ids, gaps : 0 .. MaxGaps, value : Values]

Question == [lease : Nat, revision : Nat, request : Request, epoch : Nat,
             deadline : Nat]
Confirmation == [lease : Nat, epoch : Nat, request : Request, deadline : Nat]
Search == [gen : Nat, epoch : Nat, request : Request, deadline : Nat]
Admission == [search : Search, request : Request]

LeaseOwner == [epoch : Nat, current : Request \cup {None},
               digests : [Ids -> Request \cup {None}],
               pending : Question \cup {None},
               confirmations : SUBSET Confirmation,
               search : Search \cup {None}, ready : Admission \cup {None},
               issued : Nat]

ASSUME GapsAssumption == MaxGaps \in Nat \ {0}
ASSUME NoneAssumption ==
    None \notin Ids \cup Request \cup Question \cup Confirmation \cup Search \cup Admission
ASSUME LifetimeAssumption == /\ ClarificationLifetime \in Nat \ {0}
                             /\ ConfirmationLifetime \in Nat \ {0}

\* The service as __init__ leaves it.
NewLeases == [epoch |-> 0, current |-> None, digests |-> [i \in Ids |-> None],
              pending |-> None, confirmations |-> {}, search |-> None,
              ready |-> None, issued |-> 0]

Ready(r) == r.gaps = 0

\* owns: the current request, and the captured epoch is still the epoch.
Owns(s, r, epoch) == epoch = s.epoch /\ s.current = r

\* Mutant of Disown: the leases of the previous owner stay behind.
DisownKeepsLeases(s) == [s EXCEPT !.epoch = @ + 1, !.current = None]

\* The owner goes: a new epoch, which no captured epoch or lease matches.
Disown(s) ==
    [s EXCEPT !.epoch = @ + 1, !.current = None, !.confirmations = {}]

\* _finish: a cancelled or expired question takes its owner down with it.
Finish(s, outcome) ==
    IF outcome \in {"cancelled", "expired"}
    THEN [Disown(s) EXCEPT !.pending = None]
    ELSE [s EXCEPT !.pending = None]

\* supersede: a new owner replaces everything the previous one held.
Supersede(s) ==
    [Disown(s) EXCEPT !.search = None, !.ready = None, !.pending = None]

\* invalidate: Stop, revocation, reset, teardown.
Invalidate(s) ==
    Supersede(IF s.pending = None THEN s ELSE Finish(s, "cancelled"))

\* _expire: run on entry of most methods; deadlines are enforced only there.
ExpireSearch(s, now) ==
    IF \/ s.search # None /\ now >= s.search.deadline
       \/ s.search = None /\ s.ready # None /\ now >= s.ready.search.deadline
    THEN Invalidate(s) ELSE s

\* Mutant of ExpireQuestion: only searches and confirmations are checked.
ExpireQuestionNever(s, now) == s

ExpireQuestion(s, now) ==
    IF s.pending # None /\ now >= s.pending.deadline
    THEN Finish(s, "expired") ELSE s

Expire(s, now) ==
    [ExpireQuestion(ExpireSearch(s, now), now) EXCEPT
        !.confirmations = {l \in @ : now < l.deadline}]

\* Mutant of ClaimRejected: the digest of an id is not compared.
ClaimRejectedNever(s, r) == FALSE

\* claim: an id may not come back with other content; the same content again
\* keeps its owner; anything else becomes the new owner.
ClaimRejected(s, r) == s.digests[r.id] \notin {None, r}

Claim(s, r) ==
    IF ClaimRejected(s, r) THEN Invalidate(s)
    ELSE IF s.current = r THEN s
    ELSE [Supersede(s) EXCEPT !.digests[r.id] = r, !.current = r]

\* begin, after its ownership check: claims, and asks unless the question of
\* this request is already out.
Ask(s, r, now) ==
    [s EXCEPT !.issued = @ + 1,
              !.pending = [lease |-> s.issued + 1, revision |-> 0, request |-> r,
                           epoch |-> s.epoch,
                           deadline |-> now + ClarificationLifetime]]

Begin(s, r, now) ==
    LET c == Claim(s, r)
    IN  IF ClaimRejected(s, r) \/ (c.pending # None /\ c.pending.request.id = r.id)
        THEN c ELSE Ask(c, r, now)

\* resolve with an accepted value: the revised request keeps its owner, lease
\* and deadline; it is asked again while parameters are still missing.
Revised(p, v) ==
    [p.request EXCEPT !.gaps = IF @ > 0 THEN @ - 1 ELSE 0, !.value = v]

AskedAgain(p, r) == [p EXCEPT !.request = r, !.revision = @ + 1]

Rebind(s, r) == [s EXCEPT !.digests[r.id] = r, !.current = r]

ResolveValue(s, v) ==
    LET r == Revised(s.pending, v)
    IN  IF Ready(r) THEN Finish(Rebind(s, r), "resolved")
        ELSE [Rebind(s, r) EXCEPT !.pending = AskedAgain(@, r)]

\* issue_confirmation, after its ownership check: a live lease for the same
\* request is returned rather than renewed.
LeaseOf(s, r) ==
    {l \in s.confirmations : l.epoch = s.epoch /\ l.request = r}

\* Mutant of IssueConfirmation: a live lease is renewed instead of returned.
IssueConfirmationAgain(s, r, now) ==
    [s EXCEPT !.issued = @ + 1,
              !.confirmations = @ \cup
                  {[lease |-> s.issued + 1, epoch |-> s.epoch, request |-> r,
                    deadline |-> now + ConfirmationLifetime]}]

IssueConfirmation(s, r, now) ==
    IF LeaseOf(s, r) # {} THEN s
    ELSE [s EXCEPT !.issued = @ + 1,
                   !.confirmations = @ \cup
                       {[lease |-> s.issued + 1, epoch |-> s.epoch, request |-> r,
                         deadline |-> now + ConfirmationLifetime]}]

\* Mutant of Consume: a lease is looked up, not removed.
ConsumeKeeps(s, lease) == s

\* consume_confirmation: single use, whatever the answer and the outcome.
Consume(s, lease) == [s EXCEPT !.confirmations = @ \ {lease}]

\* Mutant of Permitted: expiry is left to the next method that enforces it.
PermittedLate(s, lease, r, approved, now) ==
    /\ lease \in s.confirmations
    /\ approved
    /\ lease.epoch = s.epoch
    /\ r = lease.request

Permitted(s, lease, r, approved, now) ==
    /\ lease \in s.confirmations
    /\ approved
    /\ lease.epoch = s.epoch
    /\ now < lease.deadline
    /\ r = lease.request

\* start_local_search: claims the whole search intent; its arguments bind the
\* discovery only.
StartSearch(s, r, now) ==
    LET c == Claim(s, r)
    IN  IF ClaimRejected(s, r) THEN c
        ELSE [c EXCEPT !.issued = @ + 1, !.ready = None,
                       !.search = [gen |-> c.issued + 1, epoch |-> c.epoch,
                                   request |-> r,
                                   deadline |-> now + ClarificationLifetime]]

OwnsSearch(s, search, now) ==
    /\ s.search = search
    /\ Owns(s, search.request, search.epoch)
    /\ now < search.deadline

\* continue_local_search with a unique complete match: the same owner now owns
\* the request to execute, which is admitted once.
AdmitSearch(s, search, v) ==
    LET r == [search.request EXCEPT !.gaps = 0, !.value = v]
    IN  [Rebind(s, r) EXCEPT !.search = None,
                             !.ready = [search |-> search, request |-> r]]

\* continue_local_search with none, several or an incomplete set of matches:
\* the owner is asked for the path.
AskSearch(s, search, v, now) ==
    LET r == [search.request EXCEPT !.gaps = 1, !.value = v]
    IN  Begin([Rebind(s, r) EXCEPT !.search = None], r, now)
=============================================================================
