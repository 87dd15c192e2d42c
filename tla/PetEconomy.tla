------------------------------ MODULE PetEconomy ------------------------------
(***************************************************************************)
(* The pet's durable state: needs that decay with wall-clock time, care    *)
(* and conversations that earn rewards, and a shop that spends them.       *)
(* PetStateService keeps a cached copy of the one row of pet_state; every  *)
(* write compares that copy with the row before it commits.  The shop      *)
(* writes the row without the service and then asks it to refresh.         *)
(*                                                                         *)
(* app/main.py starts one pet, shop or maintenance thread at a time, so    *)
(* the operations do not overlap; between two commits of one operation the *)
(* process may crash, a store may fail, and at any time the wall clock may *)
(* be set forward or back.  An operation reads the clock once.  Instants    *)
(* are finer than the seconds that decay is computed in: every baseline    *)
(* and grant keeps the whole instant.                                      *)
(***************************************************************************)
EXTENDS Integers, FiniteSets

CONSTANTS
    None,            \* absence
    CareKinds,       \* care actions, each restoring one need
    BondKinds,       \* care actions that also raise affection (SPEND_TIME)
    Events,          \* ids of completed conversations
    Items,           \* catalog items
    Full,            \* highest value of a need (100 in the code)
    Gain,            \* what one care action restores
    StartAffection,  \* affection of a new pet
    Second,          \* ticks of the clock in a second (microseconds in the code)
    Interval,        \* per care kind: seconds its need takes to fall by one
    OfflineCap,      \* most seconds one start may charge
    Cooldown,        \* per reward kind: least time between two rewards, in ticks
    Window,          \* the rolling window of the caps (24 h), in ticks
    CareCap,         \* most care rewards in a window
    TalkCap,         \* most conversation rewards in a window
    CareXp, CareCurrency, TalkXp,   \* the rewards
    Price,           \* per item
    RequiredXp,      \* per item: the experience its level needs
    MaxTime,         \* bound: the clock stays below it
    MaxRevision      \* bound: commits to one row

Kinds == CareKinds \cup {"talk"}

ASSUME KindsAssumption == /\ "talk" \notin CareKinds
                          /\ BondKinds \subseteq CareKinds
                          /\ None \notin Kinds \cup Events
ASSUME NeedsAssumption == /\ Full \in Nat \ {0} /\ Gain \in Nat \ {0}
                          /\ StartAffection \in 0 .. Full
                          /\ Interval \in [CareKinds -> Nat \ {0}]
                          /\ OfflineCap \in Nat \ {0}
ASSUME RewardAssumption == /\ Window \in Nat \ {0}
                           /\ Cooldown \in [Kinds -> 1 .. Window]
                           /\ CareCap \in Nat \ {0} /\ TalkCap \in Nat \ {0}
                           /\ CareXp \in Nat /\ CareCurrency \in Nat /\ TalkXp \in Nat
ASSUME ShopAssumption == /\ Price \in [Items -> Nat \ {0}]
                         /\ RequiredXp \in [Items -> Nat]
ASSUME TimeAssumption == MaxTime \in Nat /\ Second \in Nat \ {0}

VARIABLES
    clock,     \* the wall clock, in ticks
    running,   \* whether the process runs
    db,        \* the row of pet_state, or None before the first start
    cache,     \* PetStateService._record, or None
    op,        \* the operation between its commits, or None
    grants,    \* the rows of pet_reward_grants
    owned,     \* the items of shop_inventory
    spent      \* currency spent on this row (history: shop_transactions since
               \* the last reset)

vars == <<clock, running, db, cache, op, grants, owned, spent>>

Need == [value : 0 .. Full, rem : Nat]
Row == [revision : Nat, needs : [CareKinds -> Need], affection : 0 .. Full,
        xp : Nat, currency : Nat, at : Nat]
Grant == [kind : Kinds, event : Events \cup {None}, at : Nat]
Operation == [step : {"apply", "refresh"}, kind : Kinds \cup {None},
              event : Events \cup {None}, at : Nat]

ASSUME RowAssumption == None \notin Row \cup Operation

NewRow(t) ==
    [revision |-> 0, needs |-> [k \in CareKinds |-> [value |-> Full, rem |-> 0]],
     affection |-> StartAffection, xp |-> 0, currency |-> 0, at |-> t]

Init ==
    /\ clock \in 0 .. MaxTime
    /\ running = FALSE
    /\ db = None
    /\ cache = None
    /\ op = None
    /\ grants = {}
    /\ owned = {}
    /\ spent = 0

(***************************************************************************)
(* Elapsed time.                                                           *)
(***************************************************************************)

\* Mutant of DecayValue: each evaluation starts a new interval.
DecayValueForgets(n, elapsed, interval) ==
    LET steps == elapsed \div interval
    IN  [value |-> IF steps < n.value THEN n.value - steps ELSE 0, rem |-> 0]

\* _decay_value: whole intervals are charged, the remainder is carried over; an
\* empty need carries nothing.
DecayValue(n, elapsed, interval) ==
    LET total == n.rem + elapsed
        steps == total \div interval
    IN  IF steps < n.value
        THEN [value |-> n.value - steps, rem |-> total % interval]
        ELSE [value |-> 0, rem |-> 0]

\* Mutant of Elapsed: a second that has begun is charged in full.
ElapsedRoundedUp(row, t, mode) ==
    LET seconds == (t - row.at + Second - 1) \div Second
    IN  IF mode = "offline" /\ seconds > OfflineCap THEN OfflineCap ELSE seconds

\* The whole seconds since the baseline (math.floor), capped at a start; negative
\* behind it.
Elapsed(row, t, mode) ==
    LET seconds == (t - row.at) \div Second
    IN  IF mode = "offline" /\ seconds > OfflineCap THEN OfflineCap ELSE seconds

\* A commit of evaluate_elapsed_decay.  The new baseline is the instant itself, so
\* the fraction that was not charged is dropped; within the first second, and
\* behind the baseline, nothing is charged and the baseline stays.
Evaluated(row, t, mode) ==
    IF Elapsed(row, t, mode) <= 0 THEN row
    ELSE [row EXCEPT !.needs = [k \in CareKinds |->
                         DecayValue(@[k], Elapsed(row, t, mode), Interval[k])],
                     !.revision = @ + 1, !.at = t]

\* Mutant of Snapshot: only the needs are compared.
SnapshotOfNeeds(row) == <<row.needs, row.affection>>

\* What save_transition compares: the revision and the whole state.
Snapshot(row) == <<row.revision, row.needs, row.affection, row.xp, row.currency>>

\* _evaluate_and_commit_locked on the cached row: after a conflict the durable
\* row is reloaded and evaluated instead.
Settle(row, t, mode) ==
    IF Elapsed(row, t, mode) <= 0 THEN cache' = row /\ UNCHANGED db
    ELSE /\ db' = Evaluated(IF Snapshot(row) = Snapshot(db) THEN row ELSE db, t, mode)
         /\ cache' = db'

(***************************************************************************)
(* Rewards.                                                                *)
(***************************************************************************)

\* The kinds that share a cap.
Group(kind) == IF kind = "talk" THEN {"talk"} ELSE CareKinds
Cap(kind) == IF kind = "talk" THEN TalkCap ELSE CareCap

\* Mutant of Recent: every kind has a cap of its own.
RecentAlone(kind, t) == {g \in grants : g.kind = kind /\ g.at > t - Window}

\* _within_rolling_window: grants dated in the future count.
Recent(kind, t) == {g \in grants : g.kind \in Group(kind) /\ g.at > t - Window}

\* Mutant of Cooling: a grant dated in the future is ignored.
CoolingPast(kind, t) ==
    \E g \in Recent(kind, t) :
        g.kind = kind /\ t >= g.at /\ t - g.at < Cooldown[kind]

Cooling(kind, t) ==
    \E g \in Recent(kind, t) : g.kind = kind /\ t - g.at < Cooldown[kind]

\* Mutant of Rewarded: only the rolling window is searched for the event.
RewardedLately(event) ==
    \E g \in Recent("talk", clock) : event # None /\ g.event = event

Rewarded(event) == \E g \in grants : event # None /\ g.event = event

\* evaluate_care_reward and evaluate_interaction_reward.
Eligible(kind, event, t) ==
    /\ ~Rewarded(event)
    /\ ~Cooling(kind, t)
    /\ Cardinality(Recent(kind, t)) < Cap(kind)

NewGrant(o) == [kind |-> o.kind, event |-> o.event, at |-> o.at]

\* _granted_outcome: the progression that the grant's commit writes with it.
Earned(row, kind) ==
    [row EXCEPT !.xp = @ + (IF kind = "talk" THEN TalkXp ELSE CareXp),
                !.currency = @ + (IF kind = "talk" THEN 0 ELSE CareCurrency)]

\* apply_care_action: the need and, for some kinds, affection, up to Full.
Raised(value, gain) == IF value + gain > Full THEN Full ELSE value + gain

Cared(row, kind) ==
    [row EXCEPT !.needs[kind].value = Raised(@, Gain),
                !.affection = IF kind \in BondKinds THEN Raised(@, 1) ELSE @]

(***************************************************************************)
(* Operations.                                                             *)
(***************************************************************************)

\* Bound, not a guard of the code: an operation commits at most twice.
Idle == /\ running /\ op = None /\ db.revision + 2 <= MaxRevision

\* Startup: load_or_create, then one capped catch-up.
Boot ==
    /\ ~running
    /\ db # None => db.revision < MaxRevision
    /\ running' = TRUE
    /\ db' = IF db = None THEN NewRow(clock) ELSE Evaluated(db, clock, "offline")
    /\ cache' = db'
    /\ UNCHANGED <<clock, op, grants, owned, spent>>

\* evaluate_runtime, every 60 s.
EvaluateRuntime ==
    /\ Idle
    /\ Settle(cache, clock, "runtime")
    /\ UNCHANGED <<clock, running, op, grants, owned, spent>>

\* The first commit of apply_care_action and apply_interaction_event.
Begin(kind, event) ==
    /\ Idle
    /\ op' = [step |-> "apply", kind |-> kind, event |-> event, at |-> clock]
    /\ Settle(cache, clock, "runtime")
    /\ UNCHANGED <<clock, running, grants, owned, spent>>

\* _refresh_record_locked: a row another service has written is evaluated again.
Refreshed(t) ==
    IF db.revision = cache.revision THEN cache ELSE Evaluated(db, t, "runtime")

\* The second commit of a care action: state, baseline and grant together.  A
\* reward may be withheld, the care never is; care without effect writes nothing.
ApplyCare ==
    LET base == Refreshed(op.at)
        cared == Cared(base, op.kind)
        reward == Eligible(op.kind, None, op.at)
        commit == [cared EXCEPT !.revision = @ + 1, !.at = op.at]
    IN  /\ op # None /\ op.step = "apply" /\ op.kind # "talk"
        /\ IF cared = base
           THEN db' = base /\ UNCHANGED grants
           ELSE IF reward
           THEN db' = Earned(commit, op.kind) /\ grants' = grants \cup {NewGrant(op)}
           ELSE db' = commit /\ UNCHANGED grants
        /\ cache' = db'
        /\ op' = None
        /\ UNCHANGED <<clock, running, owned, spent>>

\* The second commit of a conversation, only if it is rewarded.
ApplyTalk ==
    LET base == Refreshed(op.at)
        commit == [base EXCEPT !.revision = @ + 1, !.at = op.at]
    IN  /\ op # None /\ op.step = "apply" /\ op.kind = "talk"
        /\ IF Eligible("talk", op.event, op.at)
           THEN db' = Earned(commit, "talk") /\ grants' = grants \cup {NewGrant(op)}
           ELSE db' = base /\ UNCHANGED grants
        /\ cache' = db'
        /\ op' = None
        /\ UNCHANGED <<clock, running, owned, spent>>

\* Mutant of Sold: the sale keeps the revision of the row.
SoldQuietly(row, item) == [row EXCEPT !.currency = @ - Price[item]]

\* _purchase: one transaction on the row, the inventory and the ledger of sales;
\* the baseline stays.
Sold(row, item) == [row EXCEPT !.currency = @ - Price[item], !.revision = @ + 1]

Purchase(item) ==
    /\ Idle
    /\ item \notin owned
    /\ db.xp >= RequiredXp[item]
    /\ db.currency >= Price[item]
    /\ db' = Sold(db, item)
    /\ owned' = owned \cup {item}
    /\ spent' = spent + Price[item]
    /\ op' = [step |-> "refresh", kind |-> None, event |-> None, at |-> clock]
    /\ UNCHANGED <<clock, running, cache, grants>>

\* The refresh after a purchase.
RefreshAfterPurchase ==
    /\ op # None /\ op.step = "refresh"
    /\ cache' = db
    /\ op' = None
    /\ UNCHANGED <<clock, running, db, grants, owned, spent>>

\* A store error ends an operation between its commits; the thread reports it.
\* After a purchase that leaves the service with the row from before the sale.
Fail ==
    /\ op # None
    /\ op' = None
    /\ UNCHANGED <<clock, running, db, cache, grants, owned, spent>>

\* Browsing the shop, and showing the pet's status there, reload the row.
Browse ==
    /\ running /\ op = None
    /\ cache' = db
    /\ UNCHANGED <<clock, running, db, op, grants, owned, spent>>

\* reset: a new row and an empty reward ledger in one transaction; what was
\* bought stays.
Reset ==
    /\ running /\ op = None
    /\ db' = NewRow(clock)
    /\ cache' = db'
    /\ grants' = {}
    /\ spent' = 0
    /\ UNCHANGED <<clock, running, op, owned>>

Crash ==
    /\ running
    /\ running' = FALSE
    /\ cache' = None
    /\ op' = None
    /\ UNCHANGED <<clock, db, grants, owned, spent>>

\* Time passes, or the wall clock is set.
SetClock(t) ==
    /\ t # clock
    /\ clock' = t
    /\ UNCHANGED <<running, db, cache, op, grants, owned, spent>>

Next ==
    \/ Boot \/ EvaluateRuntime
    \/ \E kind \in CareKinds : Begin(kind, None)
    \/ \E event \in Events : Begin("talk", event)
    \/ ApplyCare \/ ApplyTalk
    \/ \E item \in Items : Purchase(item)
    \/ RefreshAfterPurchase \/ Fail \/ Browse \/ Reset \/ Crash
    \/ \E t \in 0 .. MaxTime : SetClock(t)

Spec == Init /\ [][Next]_vars

(***************************************************************************)
(* Properties.                                                             *)
(***************************************************************************)

\* Every variable keeps the shape of its table or field.
TypeOK ==
    /\ clock \in 0 .. MaxTime
    /\ running \in BOOLEAN
    /\ db \in Row \cup {None}
    /\ cache \in Row \cup {None}
    /\ op \in Operation \cup {None}
    /\ grants \subseteq Grant
    /\ owned \subseteq Items
    /\ spent \in Nat
    /\ running => db # None /\ cache # None
    /\ op # None => running

\* Two rewards of one kind are dated a cooldown apart, in whatever order they
\* were granted: setting the clock back or forward earns nothing early.
RewardsSpaced ==
    \A g, h \in grants :
        (g # h /\ g.kind = h.kind) => \/ g.at - h.at >= Cooldown[g.kind]
                                      \/ h.at - g.at >= Cooldown[g.kind]

\* No window of the rolling length, wherever it lies, holds more rewards of a
\* group than its cap.
InWindow(kind, t) == {g \in grants : g.kind \in Group(kind) /\ t < g.at /\ g.at <= t + Window}

RewardsCapped ==
    \A kind \in Kinds, t \in -Window .. MaxTime :
        Cardinality(InWindow(kind, t)) <= Cap(kind)

\* Both limits of the rewards (core/pet/progression.py) hold under any clock.
RewardsLimited == RewardsSpaced /\ RewardsCapped

\* A conversation is rewarded at most once, however late it is presented again.
EventsOnce ==
    \A g, h \in grants : (g.event # None /\ g.event = h.event) => g = h

\* Nothing is lost or made: the balance of the row is what its grants earned
\* minus what its sales took, whatever crashed, failed or went stale between.
CareGrants == {g \in grants : g.kind \in CareKinds}

LedgerBalances ==
    db # None => /\ db.currency + spent = CareCurrency * Cardinality(CareGrants)
                 /\ db.xp = CareXp * Cardinality(CareGrants)
                              + TalkXp * Cardinality(grants \ CareGrants)

\* The cached row is the durable row, or an older revision that the revision
\* alone gives away: a stale copy never passes for the current one.
CacheCoherent ==
    cache # None => /\ cache.revision <= db.revision
                    /\ cache.revision = db.revision => cache = db

\* What an evaluation at t makes of a need.
Aged(row, k, t) == Evaluated(row, t, "runtime").needs[k]

\* Time wears a need once.  Whatever is committed in between (an evaluation, a sale,
\* the care of another need, a conversation, a start), a later evaluation finds a
\* need as if that commit had not been made, or short of one second: what one
\* evaluation charged or carried over the next neither charges again nor forgets,
\* and the fraction a commit drops is less than a second.  Left out are a reset, the
\* need that care restores, what the cap spares at a start, and a commit behind
\* the baseline (BaselineHolds).
TimeChargedOnce ==
    [][\A k \in CareKinds, t \in 0 .. MaxTime :
          (/\ db # None /\ db'.revision # 0
           /\ db.at <= db'.at /\ db'.at <= t
           /\ op = None \/ op.kind # k
           /\ running \/ (db'.at - db.at) \div Second <= OfflineCap)
          => LET later == Aged(db', k, t)
             IN  Aged(db, k, t) \in {later, DecayValue(later, 1, Interval[k])}]_vars

\* A clock that went back does not move the durable baseline; only a reset does.
BaselineHolds ==
    [][(db # None /\ db'.revision # 0) => db'.at >= db.at]_vars
=============================================================================
