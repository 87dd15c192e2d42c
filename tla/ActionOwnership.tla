--------------------------- MODULE ActionOwnership ---------------------------
(***************************************************************************)
(* Who may execute an assistant action.  The lease owner of                *)
(* ClarificationLeases is shared by the callers that run concurrently:     *)
(*  - the Qt application thread (app/main.py): typed and spoken commands,  *)
(*    the clarification panel, confirmation dialogs, Stop, settings;       *)
(*  - worker threads that evaluate one request (ui/assistant_action_worker *)
(*    for the "direct" lane) or run ProviderActionDispatcher.dispatch for  *)
(*    a model's tool call (the "provider" lane).                           *)
(* Every lock-protected method is one step; between two of them any other  *)
(* thread may run.  A handler of the application thread runs to its end    *)
(* before the next one, except while a modal confirmation is open, whose   *)
(* event loop goes on serving the others.                                  *)
(***************************************************************************)
EXTENDS ClarificationLeases, FiniteSets

CONSTANTS
    Workers,          \* evaluation slots: threads that may exist at once
    ProviderIds,      \* correlation ids of provider proposals
    SearchIds,        \* correlation ids of local searches
    ContinuationIds,  \* fresh ids of questions that continue a file search
    ConfirmIds,       \* ids of operations with ConfirmationPolicy.ALWAYS
    GuardedIds,       \* ids of timer, reminder, weather and export operations
    CloudIds,         \* ids whose question pauses a cloud voice session
    TurnOf,           \* the conversation turn each provider id belongs to
    NewChatAllowed,   \* bound: whether New Chat may clear the arbiter
    MaxTime,          \* bound: the clock stops there
    MaxIssued,        \* bound: leases, questions and searches ever issued
    MaxEpoch          \* bound: owner changes

ASSUME IdsAssumption ==
    /\ ProviderIds \subseteq Ids /\ SearchIds \subseteq Ids
    /\ ContinuationIds \subseteq Ids /\ ConfirmIds \subseteq Ids
    /\ ProviderIds \cap SearchIds = {}
    /\ ContinuationIds \cap (ProviderIds \cup SearchIds) = {}
    /\ SearchIds \cup ContinuationIds \subseteq ConfirmIds

VARIABLES
    leases,     \* the ActionClarificationService
    now,        \* UtilityClock.monotonic_seconds, in steps
    panel,      \* the question the panel shows: lease, revision, epoch; or None
    jobs,       \* per worker: the request it is evaluating, or None
    dialogs,    \* confirmations the user has been asked for
    searches,   \* search workers still running, by the identity they captured
    proposed,   \* provider ids the proposal gateway has consumed
    routed,     \* turns whose deterministic routing has finished
    accepted,   \* per turn: the id the IntentArbiter accepted, or None
    turns,      \* turns the turn authority accepts callbacks for
    granted,    \* whether the permission repository holds the grant
    revoking,   \* a revocation has invalidated but not yet written
    executed    \* executions: the request and the lease that allowed it

turnVars == <<proposed, routed, accepted, turns>>
grantVars == <<granted, revoking>>
vars == <<leases, now, panel, jobs, dialogs, searches, turnVars, grantVars, executed>>

Turns == {TurnOf[i] : i \in ProviderIds}
Lane(r) == IF r.id \in ProviderIds THEN "provider" ELSE "direct"
DirectIds == Ids \ (ProviderIds \cup SearchIds \cup ContinuationIds)

Shown(s) == IF s.pending = None THEN None
            ELSE [lease |-> s.pending.lease, revision |-> s.pending.revision,
                  epoch |-> s.pending.epoch]

Init ==
    /\ leases = NewLeases
    /\ now = 0
    /\ panel = None
    /\ jobs = [w \in Workers |-> None]
    /\ dialogs = {}
    /\ searches = {}
    /\ proposed = {}
    /\ routed = {}
    /\ accepted = [t \in Turns |-> None]
    /\ turns = {}
    /\ granted \in BOOLEAN
    /\ revoking = FALSE
    /\ executed = {}

\* Bounds, never part of the code's guards: an owner change costs at most two
\* epochs, and nothing begins so late that its deadline is beyond the clock.
EpochLeft == leases.epoch + 1 < MaxEpoch
WithinBounds == /\ leases.issued < MaxIssued /\ EpochLeft
                /\ now + ClarificationLifetime <= MaxTime

Idle(w) == jobs[w] = None
AtStage(w, stage) == ~Idle(w) /\ jobs[w].stage = stage
SetJob(w, job) == jobs' = [jobs EXCEPT ![w] = job]
NewJob(r, lease, stage, epoch, guarded) ==
    [request |-> r, epoch |-> epoch, lease |-> lease, guarded |-> guarded,
     stage |-> stage, outcome |-> "none"]

\* The application thread has no handler half way: neither a revocation, nor a
\* search result to enqueue, nor a direct request to prepare and capture.
Direct(w) == ~Idle(w) /\ Lane(jobs[w].request) = "direct"
AppFree == /\ ~revoking
           /\ leases.ready = None
           /\ \A w \in Workers : Direct(w) => jobs[w].stage \notin {"prepare", "capture"}

\* The panel's refresh reads leases.pending, which enforces the deadlines.
Refreshed(s) ==
    /\ leases' = Expire(s, now)
    /\ panel' = Shown(Expire(s, now))

(***************************************************************************)
(* Preparation: claim, then either a question or an evaluation.            *)
(***************************************************************************)

\* ActionClarificationController.prepare.  Its notification refreshes the panel
\* at once on the application thread and is queued on any other.
PrepareWith(w, r) ==
    LET c == Claim(leases, r)
        s == Expire(c, now)
        prepared == IF ClaimRejected(leases, r) \/ Ready(r) THEN c
                    ELSE IF Owns(s, r, c.epoch) THEN Begin(s, r, now) ELSE s
    IN  /\ SetJob(w, IF ClaimRejected(leases, r) \/ ~Ready(r) THEN None
                     ELSE NewJob(r, None, "capture", 0, FALSE))
        /\ IF Lane(r) = "direct" THEN Refreshed(prepared)
           ELSE leases' = prepared /\ UNCHANGED panel

\* A typed or deterministic command: start_action_thread(request).
PrepareDirect(w, r) ==
    /\ AppFree /\ Idle(w) /\ r.id \in DirectIds /\ WithinBounds
    /\ PrepareWith(w, r)
    /\ UNCHANGED <<now, dialogs, searches, turnVars, grantVars, executed>>

\* ProviderActionProposalGateway.convert: an id converts once, in an active turn.
Convertible(r) == r.id \in ProviderIds \ proposed /\ TurnOf[r.id] \in turns

\* IntentArbiter.resolve_provider: after local routing, the first of its turn.
Wins(r) == TurnOf[r.id] \in routed /\ accepted[TurnOf[r.id]] = None

\* dispatch: the gateway consumes the id, the arbiter accepts it or it ends.
PrepareProvider(w, r) ==
    /\ Idle(w) /\ Convertible(r) /\ WithinBounds
    /\ proposed' = proposed \cup {r.id}
    /\ IF Wins(r)
       THEN /\ accepted' = [accepted EXCEPT ![TurnOf[r.id]] = r.id]
            /\ PrepareWith(w, r)
       ELSE UNCHANGED <<accepted, leases, panel, jobs>>
    /\ UNCHANGED <<now, dialogs, searches, routed, turns, grantVars, executed>>

\* A request that fails validation still ends the previous owner.
PrepareInvalid(r) ==
    /\ AppFree /\ r.id \in DirectIds /\ WithinBounds
    /\ Refreshed(IF ClaimRejected(leases, r) THEN Claim(leases, r)
                 ELSE Supersede(Claim(leases, r)))
    /\ UNCHANGED <<now, jobs, dialogs, searches, turnVars, grantVars, executed>>

\* A text answer completed the question: start_action_thread(request) prepares
\* the completed request again.
PrepareResolved(w) ==
    /\ AtStage(w, "prepare") /\ EpochLeft
    /\ PrepareWith(w, jobs[w].request)
    /\ UNCHANGED <<now, dialogs, searches, turnVars, grantVars, executed>>

\* capture_owner (direct lane, against the epoch already captured if there is
\* one) or the owner_epoch and owns checks of dispatch: the worker runs only if
\* its request still is the current one.
Capture(w) ==
    LET job == jobs[w]
    IN  /\ AtStage(w, "capture")
        /\ SetJob(w,
             IF /\ leases.current = job.request
                /\ job.guarded => job.epoch = leases.epoch
             THEN [job EXCEPT !.epoch = leases.epoch, !.stage = "evaluate",
                              !.guarded = \/ @
                                          \/ /\ Lane(job.request) = "direct"
                                             /\ job.request.id \in GuardedIds]
             ELSE None)
        /\ UNCHANGED <<leases, now, panel, dialogs, searches, turnVars, grantVars,
                       executed>>

(***************************************************************************)
(* Evaluation: AssistantActionService.evaluate_request in a worker thread. *)
(***************************************************************************)

\* execution_owned: a worker with an ownership guard reaches no executor once
\* it lost the owner.
GuardHolds(job) == job.guarded => Owns(leases, job.request, job.epoch)

\* Mutant of ReadGrants: confirmation is required of proposals only.
ReadGrantsTrustsDirect(w) ==
    LET job == jobs[w]
    IN  /\ AtStage(w, "evaluate")
        /\ SetJob(w,
             IF ~GuardHolds(job) THEN None
             ELSE IF ~granted
             THEN [job EXCEPT !.stage = "report", !.outcome = "denied"]
             ELSE IF job.request.id \in ConfirmIds /\ job.lease = None /\ ~Direct(w)
             THEN [job EXCEPT !.stage = "report", !.outcome = "confirm"]
             ELSE [job EXCEPT !.stage = "execute"])
        /\ UNCHANGED <<leases, now, panel, dialogs, searches, turnVars, grantVars,
                       executed>>

\* get_active_permissions followed by ActionPermissionPolicy.evaluate.
ReadGrants(w) ==
    LET job == jobs[w]
    IN  /\ AtStage(w, "evaluate")
        /\ SetJob(w,
             IF ~GuardHolds(job) THEN None
             ELSE IF ~granted
             THEN [job EXCEPT !.stage = "report", !.outcome = "denied"]
             ELSE IF job.request.id \in ConfirmIds /\ job.lease = None
             THEN [job EXCEPT !.stage = "report", !.outcome = "confirm"]
             ELSE [job EXCEPT !.stage = "execute"])
        /\ UNCHANGED <<leases, now, panel, dialogs, searches, turnVars, grantVars,
                       executed>>

\* _execute_or_refuse.  An executor either acts or, finding several targets,
\* returns candidates (Spotify) or matches (a file search) without acting.
Outcomes(r) == IF r.id \in ConfirmIds THEN {"done"}
               ELSE {"done", "candidates", "matches"}

\* Mutant of Execute: a worker that acted may try again.
ExecuteRetries(w, outcome) ==
    LET job == jobs[w]
    IN  /\ AtStage(w, "execute") /\ outcome \in Outcomes(job.request)
        /\ IF GuardHolds(job)
           THEN /\ SetJob(w, IF job.lease = None \/ outcome # "done"
                             THEN [job EXCEPT !.stage = "report", !.outcome = outcome]
                             ELSE job)
                /\ executed' = IF outcome # "done" THEN executed
                               ELSE executed \cup {[request |-> job.request,
                                                    lease |-> job.lease]}
           ELSE SetJob(w, None) /\ UNCHANGED executed
        /\ UNCHANGED <<leases, now, panel, dialogs, searches, turnVars, grantVars>>

Execute(w, outcome) ==
    LET job == jobs[w]
    IN  /\ AtStage(w, "execute") /\ outcome \in Outcomes(job.request)
        /\ IF GuardHolds(job)
           THEN /\ SetJob(w, [job EXCEPT !.stage = "report", !.outcome = outcome])
                /\ executed' = IF outcome # "done" THEN executed
                               ELSE executed \cup {[request |-> job.request,
                                                    lease |-> job.lease]}
           ELSE SetJob(w, None) /\ UNCHANGED executed
        /\ UNCHANGED <<leases, now, panel, dialogs, searches, turnVars, grantVars>>

\* The rest of dispatch, or handle_action_dispatch on the application thread.
\* A result whose request or epoch is no longer the owner's is dropped.
Reporting(w) == AtStage(w, "report") /\ (Direct(w) => AppFree)

ReportDropped(w) ==
    /\ Reporting(w)
    /\ \/ ~Owns(leases, jobs[w].request, jobs[w].epoch)
       \/ jobs[w].outcome \in {"done", "denied"}
    /\ SetJob(w, None)
    /\ UNCHANGED <<leases, now, panel, dialogs, searches, turnVars, grantVars, executed>>

\* handle_local_result -> publish_result: candidates become a question of the
\* same request, matches a question of a new request of the same owner.
ReportQuestion(w, r) ==
    LET job == jobs[w]
        s == Expire(leases, now)
    IN  /\ Reporting(w) /\ WithinBounds
        /\ Owns(leases, job.request, job.epoch)
        /\ \/ job.outcome = "candidates" /\ r = job.request
           \/ /\ job.outcome = "matches" /\ r.id \in ContinuationIds /\ r.gaps = 1
              /\ leases.digests[r.id] = None
        /\ SetJob(w, None)
        /\ leases' = IF Owns(s, job.request, job.epoch) THEN Begin(s, r, now) ELSE s
        /\ panel' = IF Lane(job.request) = "direct" THEN Shown(leases') ELSE panel
        /\ UNCHANGED <<now, dialogs, searches, turnVars, grantVars, executed>>

\* A needed confirmation becomes a lease and a dialog (_remember_pending for
\* the dispatcher, QMessageBox for the direct lane).
ReportConfirmation(w) ==
    LET job == jobs[w]
        s == Expire(leases, now)
        issued == IF Owns(s, job.request, job.epoch)
                  THEN IssueConfirmation(s, job.request, now) ELSE s
    IN  /\ Reporting(w) /\ job.outcome = "confirm" /\ WithinBounds
        /\ Owns(leases, job.request, job.epoch)
        /\ SetJob(w, None)
        /\ leases' = issued
        /\ dialogs' = dialogs \cup
             {[lease |-> l, request |-> job.request] : l \in LeaseOf(issued, job.request)}
        /\ UNCHANGED <<now, panel, searches, turnVars, grantVars, executed>>

(***************************************************************************)
(* The user: confirmation dialogs and the clarification panel.             *)
(***************************************************************************)

\* What an approval starts.  The direct lane starts a worker that captures the
\* owner again; resolve_confirmation checks that the turn is still active and
\* evaluates at once.
Approved(d) ==
    IF Lane(d.request) = "direct"
    THEN NewJob(d.request, d.lease, "capture", d.lease.epoch, d.request.id \in GuardedIds)
    ELSE IF TurnOf[d.request.id] \in turns
    THEN NewJob(d.request, d.lease, "evaluate", 0, FALSE)
    ELSE None

\* The user answers a confirmation, which is consumed in any case.
AnswerDialog(w, d, approved) ==
    /\ Idle(w) /\ (Lane(d.request) = "direct" => AppFree)
    /\ leases' = Consume(leases, d.lease)
    /\ dialogs' = dialogs \ {d}
    /\ SetJob(w, IF Permitted(leases, d.lease, d.request, approved, now)
                 THEN Approved(d) ELSE None)
    /\ UNCHANGED <<now, panel, searches, turnVars, grantVars, executed>>

\* ActionClarificationService.resolve on the question `p` the answer names; a
\* chosen target that fails its validation guard ends like a cancellation.
Resolve(s, named, v, kind) ==
    IF s.pending = None \/ named # Shown(s) THEN s
    ELSE IF kind = "cancel" THEN Finish(s, "cancelled")
    ELSE ResolveValue(s, v)

Completes(s, named, v, kind) ==
    /\ s.pending # None /\ named = Shown(s)
    /\ kind = "value" /\ Ready(Revised(s.pending, v))

\* ActionClarificationPanel._resolve answers with the identity it shows, which
\* may be older than the question pending by now.  The completed request is
\* handed on with the owner the question was asked for, under its guard.
AnswerPanel(w, v, kind) ==
    LET s == Expire(leases, now)
    IN  /\ AppFree /\ Idle(w) /\ panel # None /\ EpochLeft
        /\ Refreshed(Resolve(s, panel, v, kind))
        /\ SetJob(w, IF Completes(s, panel, v, kind)
                     THEN NewJob(Revised(s.pending, v), None, "capture",
                                 s.pending.epoch, TRUE)
                     ELSE None)
        /\ UNCHANGED <<now, dialogs, searches, turnVars, grantVars, executed>>

\* route_answer: composer or voice text answers the question pending right now,
\* unless a cloud session raised it.
AnswerText(w, v, kind) ==
    LET s == Expire(leases, now)
    IN  /\ AppFree /\ Idle(w) /\ EpochLeft
        /\ s.pending # None /\ s.pending.request.id \notin CloudIds
        /\ Refreshed(Resolve(s, Shown(s), v, kind))
        /\ SetJob(w, IF Completes(s, Shown(s), v, kind)
                     THEN NewJob(Revised(s.pending, v), None, "prepare", 0, FALSE)
                     ELSE None)
        /\ UNCHANGED <<now, dialogs, searches, turnVars, grantVars, executed>>

\* The panel's 250 ms timer and the notifications queued by worker threads.
RefreshPanel ==
    /\ AppFree
    /\ Refreshed(leases)
    /\ UNCHANGED <<now, jobs, dialogs, searches, turnVars, grantVars, executed>>

(***************************************************************************)
(* Local searches: start_local_search of main.py and its result handlers.  *)
(***************************************************************************)

StartLocalSearch(i, v) ==
    LET r == [id |-> i, gaps |-> 0, value |-> v]
        s == StartSearch(leases, r, now)
    IN  /\ AppFree /\ i \in SearchIds /\ WithinBounds
        /\ leases.digests[i] = None     \* turn ids are fresh
        /\ Refreshed(s)
        /\ searches' = searches \cup {s.search}
        /\ UNCHANGED <<now, jobs, dialogs, turnVars, grantVars, executed>>

\* handle_result -> continue_local_search; "failed" is handle_failure or
\* handle_cancelled -> cancel_local_search.
Continued(s, search, v, kind) ==
    IF ~OwnsSearch(s, search, now) THEN s
    ELSE CASE kind = "unique" -> AdmitSearch(s, search, v)
           [] kind = "many" -> AskSearch(s, search, v, now)
           [] kind = "rejected" -> [s EXCEPT !.search = None]
           [] kind = "failed" -> Invalidate(s)

SearchResult(search, v, kind) ==
    /\ AppFree /\ WithinBounds
    /\ searches' = searches \ {search}
    /\ Refreshed(Continued(Expire(leases, now), search, v, kind))
    /\ UNCHANGED <<now, jobs, dialogs, turnVars, grantVars, executed>>

\* enqueue_local_search, right after the result that admitted the request; the
\* worker it starts keeps the captured epoch and an ownership guard.
EnqueueSearch(w) ==
    LET s == Expire(leases, now)
    IN  /\ Idle(w) /\ leases.ready # None
        /\ leases' = [s EXCEPT !.ready = None]
        /\ SetJob(w, IF s.ready # None /\ Owns(s, s.ready.request, s.ready.search.epoch)
                     THEN NewJob(s.ready.request, None, "evaluate", s.epoch, TRUE)
                     ELSE None)
        /\ UNCHANGED <<now, panel, dialogs, searches, turnVars, grantVars, executed>>

(***************************************************************************)
(* Turns, Stop, New Chat, permissions and the clock.                       *)
(***************************************************************************)

OpenTurn(t) ==
    /\ t \notin turns
    /\ turns' = turns \cup {t}
    /\ UNCHANGED <<leases, now, panel, jobs, dialogs, searches, proposed, routed,
                   accepted, grantVars, executed>>

CloseTurn(t) ==
    /\ t \in turns
    /\ turns' = turns \ {t}
    /\ UNCHANGED <<leases, now, panel, jobs, dialogs, searches, proposed, routed,
                   accepted, grantVars, executed>>

\* complete_local_routing: no deterministic action claimed the turn.
CompleteRouting(t) ==
    /\ t \in turns
    /\ routed' = routed \cup {t}
    /\ UNCHANGED <<leases, now, panel, jobs, dialogs, searches, proposed, accepted,
                   turns, grantVars, executed>>

\* Mutant of ClaimLocalAction: it replaces the proposal accepted before.
ClaimLocalActionAlways(t) ==
    /\ t \in turns
    /\ routed' = routed \cup {t}
    /\ accepted' = [accepted EXCEPT ![t] = "local"]
    /\ UNCHANGED <<leases, now, panel, jobs, dialogs, searches, proposed, turns,
                   grantVars, executed>>

\* claim_local_action: a deterministic action of the turn shuts proposals out.
ClaimLocalAction(t) ==
    /\ t \in turns
    /\ routed' = routed \cup {t}
    /\ accepted' = [accepted EXCEPT ![t] = IF @ = None THEN "local" ELSE @]
    /\ UNCHANGED <<leases, now, panel, jobs, dialogs, searches, proposed, turns,
                   grantVars, executed>>

\* A compound batch of tool calls is refused whole and ends the owner.
RefuseBatch ==
    /\ turns # {} /\ EpochLeft
    /\ leases' = Supersede(leases)
    /\ UNCHANGED <<now, panel, jobs, dialogs, searches, turnVars, grantVars, executed>>

\* ProviderActionDispatcher.clear: shutdown or lane change.
ClearProvider ==
    LET provider == {d \in dialogs : Lane(d.request) = "provider"}
    IN  /\ provider # {}
        /\ dialogs' = dialogs \ provider
        /\ leases' = [leases EXCEPT !.confirmations = @ \ {d.lease : d \in provider}]
        /\ UNCHANGED <<now, panel, jobs, searches, turnVars, grantVars, executed>>

\* cancel_active_chat: invalidate, then cancel the direct workers, whose tokens
\* are checked before the executor runs.  A provider worker has no such token.
Stop ==
    /\ AppFree /\ EpochLeft
    /\ Refreshed(Invalidate(leases))
    /\ jobs' = [w \in Workers |->
                  IF AtStage(w, "evaluate") \/ AtStage(w, "execute")
                  THEN IF Lane(jobs[w].request) = "direct" THEN None ELSE jobs[w]
                  ELSE jobs[w]]
    /\ UNCHANGED <<now, dialogs, searches, turnVars, grantVars, executed>>

\* start_new_chat: invalidates in any case, and clears the arbiter when no
\* local operation is active.  A hosted live session is not counted as one.
NewChat ==
    /\ NewChatAllowed /\ AppFree /\ EpochLeft
    /\ Refreshed(Invalidate(leases))
    /\ IF \A w \in Workers : Idle(w) \/ Lane(jobs[w].request) = "provider"
       THEN /\ routed' = {}
            /\ accepted' = [t \in Turns |-> None]
       ELSE UNCHANGED <<routed, accepted>>
    /\ UNCHANGED <<now, jobs, dialogs, searches, proposed, turns, grantVars, executed>>

Grant ==
    /\ AppFree /\ ~granted
    /\ granted' = TRUE
    /\ UNCHANGED <<leases, now, panel, jobs, dialogs, searches, turnVars, revoking,
                   executed>>

\* AssistantPermissionService.revoke_*: invalidate first, write afterwards, all
\* on the application thread; worker threads go on in between.
RevokeInvalidate ==
    /\ AppFree /\ granted /\ EpochLeft
    /\ revoking' = TRUE
    /\ Refreshed(Invalidate(leases))
    /\ UNCHANGED <<now, jobs, dialogs, searches, turnVars, granted, executed>>

RevokeWrite ==
    /\ revoking
    /\ revoking' = FALSE
    /\ granted' = FALSE
    /\ UNCHANGED <<leases, now, panel, jobs, dialogs, searches, turnVars, executed>>

Tick ==
    /\ now < MaxTime
    /\ now' = now + 1
    /\ UNCHANGED <<leases, panel, jobs, dialogs, searches, turnVars, grantVars, executed>>

Kinds == {"value", "cancel"}
SearchKinds == {"unique", "many", "rejected", "failed"}

Next ==
    \/ \E w \in Workers, r \in Request : PrepareDirect(w, r) \/ PrepareProvider(w, r)
    \/ \E r \in Request : PrepareInvalid(r)
    \/ \E w \in Workers :
         \/ PrepareResolved(w) \/ Capture(w) \/ ReadGrants(w)
         \/ \E outcome \in {"done", "candidates", "matches"} : Execute(w, outcome)
         \/ ReportDropped(w) \/ ReportConfirmation(w) \/ EnqueueSearch(w)
         \/ \E r \in Request : ReportQuestion(w, r)
         \/ \E d \in dialogs, approved \in BOOLEAN : AnswerDialog(w, d, approved)
         \/ \E v \in Values, kind \in Kinds : AnswerPanel(w, v, kind) \/ AnswerText(w, v, kind)
    \/ RefreshPanel
    \/ \E i \in SearchIds, v \in Values : StartLocalSearch(i, v)
    \/ \E search \in searches, v \in Values, kind \in SearchKinds :
         SearchResult(search, v, kind)
    \/ \E t \in Turns :
         OpenTurn(t) \/ CompleteRouting(t) \/ ClaimLocalAction(t) \/ CloseTurn(t)
    \/ RefuseBatch \/ ClearProvider \/ Stop \/ NewChat
    \/ Grant \/ RevokeInvalidate \/ RevokeWrite \/ Tick

Spec == Init /\ [][Next]_vars

\* Time passes, a handler of the application thread runs to its end, and the
\* panel's timer fires again and again whatever the user does.
FairSpec ==
    /\ Spec
    /\ WF_now(Tick)
    /\ WF_vars(RefreshPanel)
    /\ WF_vars(RevokeWrite)
    /\ \A w \in Workers : WF_vars(PrepareResolved(w)) /\ WF_vars(Capture(w))
                           /\ WF_vars(EnqueueSearch(w))

(***************************************************************************)
(* Properties.                                                             *)
(***************************************************************************)

Stages == {"prepare", "capture", "evaluate", "execute", "report"}
JobOutcomes == {"none", "denied", "confirm", "done", "candidates", "matches"}
Job == [request : Request, epoch : Nat, lease : Confirmation \cup {None},
        guarded : BOOLEAN, stage : Stages, outcome : JobOutcomes]
Shows == [lease : Nat, revision : Nat, epoch : Nat]
Dialog == [lease : Confirmation, request : Request]
Execution == [request : Request, lease : Confirmation \cup {None}]

\* Every variable keeps the shape the services give it.
TypeOK ==
    /\ leases \in LeaseOwner
    /\ now \in Nat
    /\ panel \in Shows \cup {None}
    /\ jobs \in [Workers -> Job \cup {None}]
    /\ dialogs \subseteq Dialog
    /\ searches \subseteq Search
    /\ proposed \subseteq ProviderIds
    /\ routed \subseteq Turns
    /\ turns \subseteq Turns
    /\ accepted \in [Turns -> Ids \cup {None, "local"}]
    /\ granted \in BOOLEAN /\ revoking \in BOOLEAN
    /\ executed \subseteq Execution

\* Whatever the lease owner holds (a question, a confirmation, a search, an
\* admitted execution) belongs to the current request at the current epoch, and
\* it waits for one thing at a time: nothing of an earlier owner survives a
\* claim, an answer, an expiry, Stop or a revocation.
Coherent(s) ==
    /\ s.pending # None => Owns(s, s.pending.request, s.pending.epoch)
    /\ s.search # None => Owns(s, s.search.request, s.search.epoch)
    /\ s.ready # None => Owns(s, s.ready.request, s.ready.search.epoch)
    /\ \A l \in s.confirmations : Owns(s, l.request, l.epoch)
    /\ s.pending # None => s.search = None /\ s.ready = None /\ s.confirmations = {}
    /\ s.search # None => s.ready = None /\ s.confirmations = {}
    /\ s.ready # None => s.confirmations = {}
    /\ \A l, m \in s.confirmations : l.lease = m.lease => l = m

OwnerCoherent == Coherent(leases)

Carrying(w, l) == jobs[w] # None /\ jobs[w].lease = l

\* A confirmation lease is single use: it waits for its answer, or one worker
\* carries it, and it is never answered again once it has been carried or spent.
LeaseSpentOnce ==
    \A w \in Workers : jobs[w] # None /\ jobs[w].lease # None =>
        /\ jobs[w].lease \notin leases.confirmations
        /\ \A u \in Workers \ {w} : ~Carrying(u, jobs[w].lease)
        /\ [request |-> jobs[w].request, lease |-> jobs[w].lease] \in executed =>
             jobs[w].stage = "report"

\* An operation that always needs confirmation is executed only under a lease,
\* and only with the exact arguments that lease was issued for.
ApprovedExactly ==
    \A e \in executed : /\ e.request.id \in ConfirmIds => e.lease # None
                        /\ e.lease # None => e.lease.request = e.request

\* A worker starts under a lease only while the lease's request still is the
\* current owner's and before its deadline: no stale dialog revives authority.
OnlyOwnerApproves ==
    [][\A w \in Workers :
         (Idle(w) /\ jobs'[w] # None /\ jobs'[w].lease # None) =>
            LET l == jobs'[w].lease
            IN  Owns(leases, l.request, l.epoch) /\ now < l.deadline]_vars

\* Neither deadline extends: a question keeps its deadline through every
\* revision, and neither asking nor confirming again while it runs renews it.
DeadlinesFixed ==
    [][/\ (leases.pending # None /\ leases'.pending # None
             /\ leases'.epoch = leases.epoch) =>
            /\ leases'.pending.lease = leases.pending.lease
            /\ leases'.pending.deadline = leases.pending.deadline
       /\ \A l \in leases.confirmations, m \in leases'.confirmations :
            (now < l.deadline /\ m.request = l.request /\ m.epoch = l.epoch)
               => m = l]_vars

\* A correlation id is bound to its content: it changes only as a trusted
\* revision of the current owner, never by preparing other content under it.
IdentityBound ==
    [][\A i \in Ids :
         (leases.digests[i] # None /\ leases'.digests[i] # leases.digests[i]) =>
            /\ leases.current = leases.digests[i]
            /\ leases'.current = leases'.digests[i]
            /\ leases'.epoch = leases.epoch]_vars

\* At most one proposal of a conversation turn ever becomes an owner, and none
\* once a deterministic action claimed the turn first.
OneIntentPerTurn ==
    \A p \in ProviderIds : leases.digests[p] # None => accepted[TurnOf[p]] = p

\* The arbiter accepts at most one proposal of a turn.
AcceptsAtMostOne ==
    \A p, q \in ProviderIds :
        (TurnOf[p] = TurnOf[q] /\ leases.digests[p] # None /\ leases.digests[q] # None)
            => p = q

\* The leases under which a worker may still execute.
Carried == {jobs[w].lease : w \in {u \in Workers :
              jobs[u] # None /\ jobs[u].lease # None /\ jobs[u].stage # "report"}}

\* The leases of the service, the workers and the history as LeaseAuthority sees them.
Lease == INSTANCE LeaseAuthority WITH
    Lifetime <- ConfirmationLifetime,
    clock <- now,
    owner <- leases.epoch,
    issued <- leases.issued,
    live <- leases.confirmations,
    carried <- Carried,
    spent <- {e \in executed : e.lease # None}

\* Over all lanes, dialogs and workers a confirmation lease keeps the promise of
\* LeaseAuthority: fresh, one at a time, approved once by its owner in time, and
\* spent on one execution of its request (issue_confirmation, consume_confirmation and the guard).
KeepsAuthority == Lease!Spec

\* Every question is answered, cancelled, superseded or expires.
QuestionEnds ==
    \A n \in 1 .. MaxIssued :
        (leases.pending # None /\ leases.pending.lease = n) ~>
            ~(leases.pending # None /\ leases.pending.lease = n)

\* Once a revocation is complete no confirmation issued before it is live.
RevocationHolds == ~granted /\ ~revoking => leases.confirmations = {}
=============================================================================
