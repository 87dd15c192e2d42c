--------------------------- MODULE PetEconomyProofs ---------------------------
(***************************************************************************)
(* Proofs about PetEconomy for any care kinds, catalog, caps, cooldowns    *)
(* and clock.  First what one admitted reward does to a set of grants,     *)
(* then what a commit does to the rows, then the invariants.               *)
(***************************************************************************)
EXTENDS PetEconomy, FiniteSetTheorems, TLAPS

(***************************************************************************)
(* The reward ledger, as properties of a set of grants.                    *)
(***************************************************************************)

Spaced(G) ==
    \A g, h \in G : (g # h /\ g.kind = h.kind) => \/ g.at - h.at >= Cooldown[g.kind]
                                                  \/ h.at - g.at >= Cooldown[g.kind]

Held(G, kind, t) == {g \in G : g.kind \in Group(kind) /\ t < g.at /\ g.at <= t + Window}

Capped(G) == \A kind \in Kinds, t \in -Window .. MaxTime :
                Cardinality(Held(G, kind, t)) <= Cap(kind)

Once(G) == \A g, h \in G : (g.event # None /\ g.event = h.event) => g = h

Ledger(G) == /\ G \subseteq Grant /\ IsFiniteSet(G)
             /\ Spaced(G) /\ Capped(G) /\ Once(G)

Of(G) == {g \in G : g.kind \in CareKinds}

LEMMA AddOne ==
    ASSUME NEW S, NEW x, IsFiniteSet(S)
    PROVE  /\ Cardinality(S) \in Nat /\ Cardinality(S \cup {x}) \in Nat
           /\ Cardinality(S \cup {x}) <= Cardinality(S) + 1
<1>1. IsFiniteSet(S \cup {x})
  BY FS_AddElement
<1>2. Cardinality(S) \in Nat /\ Cardinality(S \cup {x}) \in Nat
  BY <1>1, FS_CardinalityType
<1>3. Cardinality(S \cup {x}) = IF x \in S THEN Cardinality(S) ELSE Cardinality(S) + 1
  BY FS_AddElement
<1> QED
  BY <1>2, <1>3

LEMMA GroupFacts ==
    ASSUME NEW kind \in Kinds, NEW other \in Kinds, kind \in Group(other)
    PROVE  Group(other) = Group(kind) /\ Cap(other) = Cap(kind)
BY KindsAssumption DEF Kinds, Group, Cap

LEMMA CapType == \A kind \in Kinds : Cap(kind) \in Nat \ {0}
BY RewardAssumption DEF Cap

LEMMA EmptyLedger == Ledger({})
<1>1. \A kind, t : Held({}, kind, t) = {}
  BY DEF Held
<1>2. Capped({})
  BY <1>1, FS_EmptySet, CapType DEF Capped
<1> QED
  BY <1>2, FS_EmptySet DEF Ledger, Spaced, Once

\* Every grant of the kind lies a cooldown before the admitted one: inside the
\* window because the cooldown is over, outside because it is no longer.
LEMMA AdmittedApart ==
    ASSUME Ledger(grants), NEW kind \in Kinds, NEW event, NEW t \in 0 .. MaxTime,
           Eligible(kind, event, t), NEW g \in grants, g.kind = kind
    PROVE  t - g.at >= Cooldown[kind]
<1>1. g.at \in Nat /\ kind \in Group(kind)
  BY KindsAssumption DEF Ledger, Grant, Group, Kinds
<1>2. CASE g.at > t - Window
  <2>1. g \in Recent(kind, t)
    BY <1>1, <1>2 DEF Recent
  <2> QED
    BY <1>1, <2>1, RewardAssumption DEF Eligible, Cooling
<1>3. CASE ~(g.at > t - Window)
  BY <1>1, <1>3, RewardAssumption, TimeAssumption
<1> QED
  BY <1>2, <1>3

LEMMA AdmittedFresh ==
    ASSUME Ledger(grants), NEW kind \in Kinds, NEW event, NEW t \in 0 .. MaxTime,
           Eligible(kind, event, t)
    PROVE  [kind |-> kind, event |-> event, at |-> t] \notin grants
<1> DEFINE new == [kind |-> kind, event |-> event, at |-> t]
<1> SUFFICES ASSUME new \in grants PROVE FALSE
  OBVIOUS
<1>1. new.kind = kind /\ new.at = t
  OBVIOUS
<1>2. t - t >= Cooldown[kind]
  BY <1>1, AdmittedApart
<1> QED
  BY <1>2, RewardAssumption, TimeAssumption

\* The window of the admitted reward holds less than the cap, and every window
\* that reaches it lies inside.
LEMMA AdmittedCapped ==
    ASSUME Ledger(grants), NEW kind \in Kinds, NEW event \in Events \cup {None},
           NEW t \in 0 .. MaxTime, Eligible(kind, event, t)
    PROVE  Capped(grants \cup {[kind |-> kind, event |-> event, at |-> t]})
<1> DEFINE new == [kind |-> kind, event |-> event, at |-> t]
<1> SUFFICES ASSUME NEW k \in Kinds, NEW w \in -Window .. MaxTime
             PROVE  Cardinality(Held(grants \cup {new}, k, w)) <= Cap(k)
  BY DEF Capped
<1>1. Cardinality(Held(grants, k, w)) <= Cap(k)
  BY DEF Ledger, Capped
<1>2. new.kind = kind /\ new.at = t
  OBVIOUS
<1>3. CASE kind \in Group(k) /\ w < t /\ t <= w + Window
  <2>1. Group(k) = Group(kind) /\ Cap(k) = Cap(kind)
    BY <1>3, GroupFacts
  <2>2. Held(grants \cup {new}, k, w) = Held(grants, k, w) \cup {new}
    BY <1>2, <1>3 DEF Held
  <2>3. \A g \in grants : g.at \in Nat
    BY DEF Ledger, Grant
  <2>4. \A g \in Held(grants, k, w) : g \in Recent(kind, t)
    BY <1>3, <2>1, <2>3, RewardAssumption, TimeAssumption DEF Held, Recent
  <2>5. Held(grants, k, w) \in SUBSET Recent(kind, t)
    BY <2>4
  <2>6. IsFiniteSet(Recent(kind, t))
    <3>1. Recent(kind, t) \in SUBSET grants
      BY DEF Recent
    <3> QED
      BY <3>1, FS_Subset DEF Ledger
  <2>7. /\ IsFiniteSet(Held(grants, k, w))
        /\ Cardinality(Held(grants, k, w)) <= Cardinality(Recent(kind, t))
    BY <2>5, <2>6, FS_Subset
  <2>8. Cardinality(Recent(kind, t)) \in Nat
    BY <2>6, FS_CardinalityType
  <2>9. Cardinality(Recent(kind, t)) < Cap(kind)
    BY DEF Eligible
  <2> HIDE DEF new
  <2>10. /\ Cardinality(Held(grants, k, w)) \in Nat
         /\ Cardinality(Held(grants, k, w) \cup {new}) \in Nat
         /\ Cardinality(Held(grants, k, w) \cup {new}) <= Cardinality(Held(grants, k, w)) + 1
    BY <2>7, AddOne
  <2>11. Cap(kind) \in Nat
    BY CapType
  <2>12. Cardinality(Held(grants, k, w) \cup {new}) <= Cap(kind)
    BY <2>7, <2>8, <2>9, <2>10, <2>11
  <2> QED
    BY <2>1, <2>2, <2>12
<1>4. CASE ~(kind \in Group(k) /\ w < t /\ t <= w + Window)
  <2>1. Held(grants \cup {new}, k, w) = Held(grants, k, w)
    BY <1>2, <1>4 DEF Held
  <2> QED
    BY <1>1, <2>1
<1> QED
  BY <1>3, <1>4

LEMMA AdmittedLedger ==
    ASSUME Ledger(grants), NEW kind \in Kinds, NEW event \in Events \cup {None},
           NEW t \in 0 .. MaxTime, Eligible(kind, event, t)
    PROVE  Ledger(grants \cup {[kind |-> kind, event |-> event, at |-> t]})
<1> DEFINE new == [kind |-> kind, event |-> event, at |-> t]
<1>0. \A g \in grants : g.at \in Nat /\ g.kind \in Kinds
  BY DEF Ledger, Grant
<1>1. grants \cup {new} \subseteq Grant
  BY TimeAssumption DEF Ledger, Grant
<1>2. IsFiniteSet(grants \cup {new})
  BY FS_AddElement DEF Ledger
<1>3. Spaced(grants \cup {new})
  <2> SUFFICES ASSUME NEW g \in grants \cup {new}, NEW h \in grants \cup {new},
                      g # h, g.kind = h.kind
               PROVE  \/ g.at - h.at >= Cooldown[g.kind]
                      \/ h.at - g.at >= Cooldown[g.kind]
    BY DEF Spaced
  <2>1. CASE g \in grants /\ h \in grants
    BY <2>1 DEF Ledger, Spaced
  <2>2. CASE g = new /\ h \in grants
    <3>1. h.kind = kind /\ g.kind = kind /\ g.at = t
      BY <2>2
    <3> QED
      BY <2>2, <3>1, AdmittedApart
  <2>3. CASE h = new /\ g \in grants
    <3>1. g.kind = kind /\ h.at = t
      BY <2>3
    <3> QED
      BY <2>3, <3>1, AdmittedApart
  <2> QED
    BY <2>1, <2>2, <2>3
<1>4. Capped(grants \cup {new})
  BY AdmittedCapped
<1>5. Once(grants \cup {new})
  <2>1. \A g \in grants : event # None => g.event # event
    BY DEF Eligible, Rewarded
  <2>2. new.event = event
    OBVIOUS
  <2> QED
    BY <2>1, <2>2 DEF Ledger, Once
<1> QED
  BY <1>1, <1>2, <1>3, <1>4, <1>5 DEF Ledger

(***************************************************************************)
(* The rows.                                                               *)
(***************************************************************************)

LEMMA DecayType ==
    ASSUME NEW n \in Need, NEW elapsed \in Nat, NEW interval \in Nat \ {0}
    PROVE  DecayValue(n, elapsed, interval) \in Need
<1> DEFINE total == n.rem + elapsed
<1>1. total \in Nat /\ n.value \in 0 .. Full
  BY DEF Need
<1>2. total \div interval \in Nat /\ total % interval \in Nat
  BY <1>1
<1> HIDE DEF total
<1>3. total \div interval < n.value => n.value - (total \div interval) \in 0 .. Full
  BY <1>1, <1>2, NeedsAssumption
<1> QED
  BY <1>1, <1>2, <1>3, NeedsAssumption DEF DecayValue, Need, total

LEMMA CommitType ==
    ASSUME NEW row \in Row, NEW needs \in [CareKinds -> Need], NEW revision \in Nat,
           NEW t \in Nat
    PROVE  [row EXCEPT !.needs = needs, !.revision = revision, !.at = t] \in Row
BY DEF Row

LEMMA ElapsedType ==
    ASSUME NEW row \in Row, NEW t \in 0 .. MaxTime, NEW mode
    PROVE  Elapsed(row, t, mode) \in Int
<1>1. t - row.at \in Int /\ Second \in Nat \ {0} /\ OfflineCap \in Int
  BY TimeAssumption, NeedsAssumption DEF Row
<1>2. (t - row.at) \div Second \in Int
  BY <1>1
<1> QED
  BY <1>1, <1>2 DEF Elapsed

LEMMA EvaluatedRow ==
    ASSUME NEW row \in Row, NEW t \in 0 .. MaxTime, NEW mode
    PROVE  /\ Evaluated(row, t, mode) \in Row
           /\ Evaluated(row, t, mode).xp = row.xp
           /\ Evaluated(row, t, mode).currency = row.currency
           /\ \/ Evaluated(row, t, mode) = row
              \/ Evaluated(row, t, mode).revision = row.revision + 1
<1>1. CASE Elapsed(row, t, mode) <= 0
  BY <1>1 DEF Evaluated
<1>2. CASE ~(Elapsed(row, t, mode) <= 0)
  <2>1. row.at \in Nat /\ row.revision \in Nat /\ t \in Nat /\ OfflineCap \in Nat
    BY TimeAssumption, NeedsAssumption DEF Row
  <2>2. Elapsed(row, t, mode) \in Nat
    BY <1>2, ElapsedType
  <2> DEFINE needs == [k \in CareKinds |->
                         DecayValue(row.needs[k], Elapsed(row, t, mode), Interval[k])]
  <2>3. needs \in [CareKinds -> Need]
    BY <2>2, DecayType, NeedsAssumption DEF Row
  <2>4. Evaluated(row, t, mode) =
          [row EXCEPT !.needs = needs, !.revision = row.revision + 1, !.at = t]
    BY <1>2 DEF Evaluated, Row
  <2> HIDE DEF needs
  <2> DEFINE e == [row EXCEPT !.needs = needs, !.revision = row.revision + 1, !.at = t]
  <2>5. e \in Row
    <3>1. row.revision + 1 \in Nat
      BY <2>1
    <3> QED
      BY <2>1, <2>3, <3>1, CommitType
  <2>6. e.xp = row.xp /\ e.currency = row.currency /\ e.revision = row.revision + 1
    BY DEF Row
  <2> QED
    BY <2>4, <2>5, <2>6
<1> QED
  BY <1>1, <1>2

LEMMA NewRowType ==
    ASSUME NEW t \in 0 .. MaxTime PROVE NewRow(t) \in Row
BY NeedsAssumption, TimeAssumption DEF NewRow, Row, Need

LEMMA CaredRow ==
    ASSUME NEW row \in Row, NEW kind \in CareKinds
    PROVE  /\ Cared(row, kind) \in Row
           /\ Cared(row, kind).revision = row.revision
           /\ Cared(row, kind).xp = row.xp
           /\ Cared(row, kind).currency = row.currency
<1>1. \A v \in 0 .. Full, gain \in Nat : Raised(v, gain) \in 0 .. Full
  BY NeedsAssumption DEF Raised
<1>2. row.needs[kind] \in Need /\ row.affection \in 0 .. Full
  BY DEF Row
<1>3. Raised(row.needs[kind].value, Gain) \in 0 .. Full
  BY <1>1, <1>2, NeedsAssumption DEF Need
<1>4. Raised(row.affection, 1) \in 0 .. Full
  BY <1>1, <1>2
<1> DEFINE need == [row.needs[kind] EXCEPT !.value = Raised(row.needs[kind].value, Gain)]
           affection == IF kind \in BondKinds THEN Raised(row.affection, 1) ELSE row.affection
<1>5. need \in Need /\ affection \in 0 .. Full
  BY <1>2, <1>3, <1>4 DEF Need
<1>6. Cared(row, kind) = [row EXCEPT !.needs = [row.needs EXCEPT ![kind] = need],
                                     !.affection = affection]
  BY DEF Cared, Row
<1> HIDE DEF need, affection
<1> QED
  BY <1>5, <1>6 DEF Row

\* The row a rewarded or an unrewarded operation commits.
Committed(row, t) == [row EXCEPT !.revision = @ + 1, !.at = t]

LEMMA CommittedRow ==
    ASSUME NEW row \in Row, NEW t \in 0 .. MaxTime
    PROVE  /\ Committed(row, t) \in Row
           /\ Committed(row, t).revision = row.revision + 1
           /\ Committed(row, t).xp = row.xp
           /\ Committed(row, t).currency = row.currency
<1>1. row.revision + 1 \in Nat /\ row.needs \in [CareKinds -> Need] /\ t \in Nat
  BY TimeAssumption DEF Row
<1>2. [row EXCEPT !.needs = row.needs, !.revision = row.revision + 1, !.at = t] \in Row
  BY <1>1, CommitType
<1>3. Committed(row, t) =
        [row EXCEPT !.needs = row.needs, !.revision = row.revision + 1, !.at = t]
  BY DEF Committed, Row
<1> QED
  BY <1>2, <1>3 DEF Row

LEMMA ProgressType ==
    ASSUME NEW row \in Row, NEW xp \in Nat, NEW currency \in Nat
    PROVE  [row EXCEPT !.xp = xp, !.currency = currency] \in Row
BY DEF Row

LEMMA EarnedRow ==
    ASSUME NEW row \in Row, NEW kind \in Kinds
    PROVE  /\ Earned(row, kind) \in Row
           /\ Earned(row, kind).revision = row.revision
           /\ Earned(row, kind).xp = row.xp + (IF kind = "talk" THEN TalkXp ELSE CareXp)
           /\ Earned(row, kind).currency =
                row.currency + (IF kind = "talk" THEN 0 ELSE CareCurrency)
<1> DEFINE xp == row.xp + (IF kind = "talk" THEN TalkXp ELSE CareXp)
           currency == row.currency + (IF kind = "talk" THEN 0 ELSE CareCurrency)
<1>1. row.xp \in Nat /\ row.currency \in Nat
  BY DEF Row
<1>2. xp \in Nat /\ currency \in Nat
  BY <1>1, RewardAssumption
<1>3. Earned(row, kind) = [row EXCEPT !.xp = xp, !.currency = currency]
  BY DEF Earned, Row
<1> HIDE DEF xp, currency
<1>4. Earned(row, kind) \in Row
  BY <1>2, <1>3, ProgressType
<1>5. /\ Earned(row, kind).revision = row.revision
      /\ Earned(row, kind).xp = xp
      /\ Earned(row, kind).currency = currency
  BY <1>3 DEF Row
<1> QED
  BY <1>4, <1>5 DEF xp, currency

LEMMA SoldRow ==
    ASSUME NEW row \in Row, NEW item \in Items, row.currency >= Price[item]
    PROVE  /\ Sold(row, item) \in Row
           /\ Sold(row, item).revision = row.revision + 1
           /\ Sold(row, item).xp = row.xp
           /\ Sold(row, item).currency = row.currency - Price[item]
<1> DEFINE currency == row.currency - Price[item]
           revision == row.revision + 1
<1>1. row.revision \in Nat /\ row.currency \in Nat /\ Price[item] \in Nat
  BY ShopAssumption DEF Row
<1>2. currency \in Nat /\ revision \in Nat
  BY <1>1
<1>3. Sold(row, item) = [row EXCEPT !.currency = currency, !.revision = revision]
  BY DEF Sold, Row
<1> HIDE DEF currency, revision
<1>4. Sold(row, item) \in Row
  BY <1>2, <1>3 DEF Row
<1>5. /\ Sold(row, item).revision = revision
      /\ Sold(row, item).xp = row.xp
      /\ Sold(row, item).currency = currency
  BY <1>3 DEF Row
<1> QED
  BY <1>4, <1>5 DEF currency, revision

(***************************************************************************)
(* Balance: the row against the grants and the sales.                      *)
(***************************************************************************)

Balanced(row, G, sales) ==
    /\ row.currency + sales = CareCurrency * Cardinality(Of(G))
    /\ row.xp = CareXp * Cardinality(Of(G)) + TalkXp * Cardinality(G \ Of(G))

LEMMA CountsType ==
    ASSUME NEW G, IsFiniteSet(G)
    PROVE  /\ IsFiniteSet(Of(G)) /\ IsFiniteSet(G \ Of(G))
           /\ Cardinality(Of(G)) \in Nat /\ Cardinality(G \ Of(G)) \in Nat
<1>1. Of(G) \in SUBSET G /\ G \ Of(G) \in SUBSET G
  BY DEF Of
<1>2. IsFiniteSet(Of(G)) /\ IsFiniteSet(G \ Of(G))
  BY <1>1, FS_Subset
<1> QED
  BY <1>2, FS_CardinalityType

LEMMA NewBalanced ==
    ASSUME NEW t PROVE Balanced(NewRow(t), {}, 0)
<1>1. Of({}) = {} /\ {} \ Of({}) = {} /\ Cardinality({}) = 0
  BY FS_EmptySet DEF Of
<1>2. CareCurrency * 0 = 0 /\ CareXp * 0 = 0 /\ TalkXp * 0 = 0
  BY RewardAssumption
<1> QED
  BY <1>1, <1>2 DEF Balanced, NewRow

LEMMA NextMultiple ==
    ASSUME NEW a \in Nat, NEW n \in Nat PROVE a * (n + 1) = a * n + a
OBVIOUS

\* An admitted reward and its progression keep the balance.
LEMMA EarnedBalanced ==
    ASSUME Ledger(grants), NEW row \in Row, NEW sales \in Nat, Balanced(row, grants, sales),
           NEW kind \in Kinds, NEW event \in Events \cup {None}, NEW t \in 0 .. MaxTime,
           Eligible(kind, event, t)
    PROVE  Balanced(Earned(row, kind),
                    grants \cup {[kind |-> kind, event |-> event, at |-> t]}, sales)
<1> DEFINE new == [kind |-> kind, event |-> event, at |-> t]
           care == Cardinality(Of(grants))
           talk == Cardinality(grants \ Of(grants))
<1>1. new \notin grants
  BY AdmittedFresh
<1>2. new.kind = kind
  OBVIOUS
<1>3. /\ IsFiniteSet(Of(grants)) /\ IsFiniteSet(grants \ Of(grants))
      /\ care \in Nat /\ talk \in Nat
  BY CountsType DEF Ledger
<1>4. row.xp \in Nat /\ row.currency \in Nat
  BY DEF Row
<1>5. /\ row.currency + sales = CareCurrency * care
      /\ row.xp = CareXp * care + TalkXp * talk
  BY DEF Balanced
<1>6. /\ Earned(row, kind).xp = row.xp + (IF kind = "talk" THEN TalkXp ELSE CareXp)
      /\ Earned(row, kind).currency =
           row.currency + (IF kind = "talk" THEN 0 ELSE CareCurrency)
  BY EarnedRow
<1>7. /\ CareCurrency * (care + 1) = CareCurrency * care + CareCurrency
      /\ CareXp * (care + 1) = CareXp * care + CareXp
      /\ TalkXp * (talk + 1) = TalkXp * talk + TalkXp
  BY <1>3, NextMultiple, RewardAssumption
<1>8. /\ CareCurrency * care \in Nat /\ CareXp * care \in Nat /\ TalkXp * talk \in Nat
  BY <1>3, RewardAssumption
<1>9. CASE kind = "talk"
  <2>1. kind \notin CareKinds
    BY <1>9, KindsAssumption
  <2>2. /\ Of(grants \cup {new}) = Of(grants)
        /\ (grants \cup {new}) \ Of(grants \cup {new}) = (grants \ Of(grants)) \cup {new}
    BY <1>1, <1>2, <2>1 DEF Of
  <2>3. Cardinality((grants \ Of(grants)) \cup {new}) = talk + 1
    BY <1>1, <1>3, FS_AddElement
  <2>4. /\ Cardinality(Of(grants \cup {new})) = care
        /\ Cardinality((grants \cup {new}) \ Of(grants \cup {new})) = talk + 1
    BY <2>2, <2>3
  <2> HIDE DEF new, care, talk
  <2>5. Earned(row, kind).currency + sales = CareCurrency * care
    BY <1>4, <1>5, <1>6, <1>9
  <2>6. Earned(row, kind).xp = CareXp * care + TalkXp * (talk + 1)
    BY <1>5, <1>6, <1>7, <1>8, <1>9, RewardAssumption
  <2> QED
    BY <2>4, <2>5, <2>6 DEF Balanced, new
<1>10. CASE kind # "talk"
  <2>1. kind \in CareKinds
    BY <1>10 DEF Kinds
  <2>2. /\ Of(grants \cup {new}) = Of(grants) \cup {new}
        /\ (grants \cup {new}) \ Of(grants \cup {new}) = grants \ Of(grants)
    BY <1>1, <1>2, <2>1 DEF Of
  <2>3. new \notin Of(grants)
    BY <1>1 DEF Of
  <2>4. Cardinality(Of(grants) \cup {new}) = care + 1
    BY <1>3, <2>3, FS_AddElement
  <2>5. /\ Cardinality(Of(grants \cup {new})) = care + 1
        /\ Cardinality((grants \cup {new}) \ Of(grants \cup {new})) = talk
    BY <2>2, <2>4
  <2> HIDE DEF new, care, talk
  <2>6. Earned(row, kind).currency + sales = CareCurrency * (care + 1)
    BY <1>4, <1>5, <1>6, <1>7, <1>8, <1>10, RewardAssumption
  <2>7. Earned(row, kind).xp = CareXp * (care + 1) + TalkXp * talk
    BY <1>5, <1>6, <1>7, <1>8, <1>10, RewardAssumption
  <2> QED
    BY <2>5, <2>6, <2>7 DEF Balanced, new
<1> QED
  BY <1>9, <1>10

(***************************************************************************)
(* The inductive invariant.                                                *)
(***************************************************************************)

\* An operation that still has to be applied names a care kind without an event
\* or a conversation.
OperationOK ==
    (op # None /\ op.step = "apply") =>
        /\ op.kind \in Kinds
        /\ op.kind # "talk" => op.event = None
        /\ op.at \in 0 .. MaxTime

\* Before the first start there is no ledger either.
FirstStart == db = None => grants = {} /\ spent = 0

Balance == db # None => Balanced(db, grants, spent)

\* RewardsSpaced, RewardsCapped and EventsOnce are the parts of Ledger, each of
\* which is inductive by itself; the balance needs the rows, and the rows need
\* the cache to be coherent, because a commit writes what the cache says.
IInv ==
    /\ TypeOK
    /\ ~running => cache = None
    /\ OperationOK /\ FirstStart
    /\ Ledger(grants)
    /\ Balance
    /\ CacheCoherent

LEMMA Started ==
    ASSUME IInv, running
    PROVE  db \in Row /\ cache \in Row /\ Balanced(db, grants, spent)
BY DEF IInv, TypeOK, Balance

LEMMA InitIInv == Init => IInv
<1> SUFFICES ASSUME Init PROVE IInv
  OBVIOUS
<1>1. TypeOK
  BY DEF Init, TypeOK
<1> QED
  BY <1>1, EmptyLedger DEF Init, IInv, OperationOK, FirstStart, Balance, CacheCoherent

\* A settled row is the cached one, which the durable row then still is or was,
\* or an evaluation of the durable row that both copies get.
LEMMA SettleRows ==
    ASSUME IInv, running, NEW t \in 0 .. MaxTime, NEW mode, Settle(cache, t, mode)
    PROVE  /\ db' \in Row /\ cache' \in Row
           /\ db'.xp = db.xp /\ db'.currency = db.currency
           /\ CacheCoherent'
<1>1. db \in Row /\ cache \in Row
  BY Started
<1>2. CASE Elapsed(cache, t, mode) <= 0
  <2>1. cache' = cache /\ db' = db
    BY <1>2 DEF Settle
  <2> QED
    BY <1>1, <2>1 DEF IInv, CacheCoherent
<1>3. CASE ~(Elapsed(cache, t, mode) <= 0)
  <2>1. Snapshot(cache) = Snapshot(db) => cache = db
    BY <1>1, RowAssumption DEF IInv, CacheCoherent, Snapshot
  <2>2. db' = Evaluated(db, t, mode) /\ cache' = db'
    BY <1>3, <2>1 DEF Settle
  <2>3. db' \in Row /\ db'.xp = db.xp /\ db'.currency = db.currency
    BY <1>1, <2>2, EvaluatedRow
  <2>4. CacheCoherent'
    BY <2>2, <2>3 DEF CacheCoherent, Row
  <2> QED
    BY <2>2, <2>3, <2>4
<1> QED
  BY <1>2, <1>3

LEMMA RefreshedRow ==
    ASSUME IInv, running, NEW t \in 0 .. MaxTime
    PROVE  /\ Refreshed(t) \in Row
           /\ Refreshed(t).xp = db.xp /\ Refreshed(t).currency = db.currency
<1>1. db \in Row /\ cache \in Row
  BY Started
<1>2. db.revision = cache.revision => cache = db
  BY <1>1, RowAssumption DEF IInv, CacheCoherent
<1>3. Refreshed(t) = db \/ Refreshed(t) = Evaluated(db, t, "runtime")
  BY <1>2 DEF Refreshed
<1> QED
  BY <1>1, <1>3, EvaluatedRow

\* One copy of the row cannot be stale.
LEMMA OneRow ==
    ASSUME NEW d \in Row, db' = d, cache' = d PROVE CacheCoherent'
BY DEF CacheCoherent, Row

LEMMA BootStep == ASSUME IInv, Boot PROVE IInv'
<1>1. clock \in 0 .. MaxTime
  BY DEF IInv, TypeOK
<1>2. running' /\ cache' = db' /\ UNCHANGED <<clock, op, grants, owned, spent>>
  BY DEF Boot
<1>3. db' \in Row /\ Balanced(db', grants', spent')
  <2>1. CASE db = None
    <3>1. db' = NewRow(clock)
      BY <2>1 DEF Boot
    <3> QED
      BY <1>1, <1>2, <2>1, <3>1, NewRowType, NewBalanced DEF IInv, FirstStart
  <2>2. CASE db # None
    <3>1. db \in Row /\ Balanced(db, grants, spent)
      BY <2>2 DEF IInv, TypeOK, Balance
    <3>2. db' = Evaluated(db, clock, "offline")
      BY <2>2 DEF Boot
    <3>3. db' \in Row /\ db'.xp = db.xp /\ db'.currency = db.currency
      BY <1>1, <3>1, <3>2, EvaluatedRow
    <3> QED
      BY <1>2, <3>1, <3>3 DEF Balanced
  <2> QED
    BY <2>1, <2>2
<1>4. db' # None
  BY <1>3, RowAssumption
<1>5. CacheCoherent'
  BY <1>2, <1>3, OneRow
<1> QED
  BY <1>2, <1>3, <1>4, <1>5 DEF IInv, TypeOK, OperationOK, FirstStart, Balance

\* Steps that settle the row, and nothing else of the ledger.
LEMMA SettledStep ==
    ASSUME IInv, running, NEW mode, Settle(cache, clock, mode),
           UNCHANGED <<clock, running, grants, owned, spent>>,
           op' \in Operation \cup {None}, OperationOK'
    PROVE  IInv'
<1>1. clock \in 0 .. MaxTime
  BY DEF IInv, TypeOK
<1>2. /\ db' \in Row /\ cache' \in Row
      /\ db'.xp = db.xp /\ db'.currency = db.currency
      /\ CacheCoherent'
  BY <1>1, SettleRows
<1>3. db' # None /\ cache' # None
  BY <1>2, RowAssumption
<1>4. Balanced(db', grants', spent')
  BY <1>2, Started DEF Balanced
<1> QED
  BY <1>2, <1>3, <1>4 DEF IInv, TypeOK, FirstStart, Balance

LEMMA EvaluateRuntimeStep == ASSUME IInv, EvaluateRuntime PROVE IInv'
<1>1. op' = None
  BY DEF EvaluateRuntime, Idle
<1> QED
  BY <1>1, SettledStep DEF EvaluateRuntime, Idle, OperationOK

LEMMA BeginStep ==
    ASSUME IInv, NEW kind \in Kinds, NEW event \in Events \cup {None},
           kind # "talk" => event = None, Begin(kind, event)
    PROVE  IInv'
<1>1. clock \in 0 .. MaxTime
  BY DEF IInv, TypeOK
<1>2. op' = [step |-> "apply", kind |-> kind, event |-> event, at |-> clock]
  BY DEF Begin
<1>3. op' \in Operation
  BY <1>1, <1>2, TimeAssumption DEF Operation
<1>4. OperationOK'
  BY <1>1, <1>2 DEF OperationOK
<1> QED
  BY <1>3, <1>4, SettledStep DEF Begin, Idle

\* Steps that commit a row of the same worth, and leave the ledger alone.
LEMMA CommitStep ==
    ASSUME IInv, running, NEW row \in Row, row.xp = db.xp, row.currency = db.currency,
           db' = row, cache' = row, op' = None,
           UNCHANGED <<clock, running, grants, owned, spent>>
    PROVE  IInv'
<1>1. Balanced(db', grants', spent')
  BY Started DEF Balanced
<1>2. row # None
  BY RowAssumption
<1>3. CacheCoherent'
  BY OneRow
<1> QED
  BY <1>1, <1>2, <1>3 DEF IInv, TypeOK, OperationOK, FirstStart, Balance

\* Steps that commit a reward.
LEMMA RewardStep ==
    ASSUME IInv, running, NEW row \in Row, row.xp = db.xp, row.currency = db.currency,
           NEW kind \in Kinds, NEW event \in Events \cup {None}, NEW t \in 0 .. MaxTime,
           Eligible(kind, event, t),
           db' = Earned(row, kind), cache' = db', op' = None,
           grants' = grants \cup {[kind |-> kind, event |-> event, at |-> t]},
           UNCHANGED <<clock, running, owned, spent>>
    PROVE  IInv'
<1>1. Ledger(grants) /\ spent \in Nat /\ Balanced(row, grants, spent)
  BY Started DEF IInv, TypeOK, Balanced
<1>2. Ledger(grants')
  BY <1>1, AdmittedLedger
<1>3. Balanced(db', grants', spent')
  BY <1>1, EarnedBalanced
<1>4. db' \in Row /\ db' # None
  BY EarnedRow, RowAssumption
<1>5. CacheCoherent'
  BY <1>4, OneRow
<1> QED
  BY <1>2, <1>3, <1>4, <1>5 DEF IInv, TypeOK, OperationOK, FirstStart, Balance, Ledger

LEMMA ApplyCareStep == ASSUME IInv, ApplyCare PROVE IInv'
<1>1. running /\ op.at \in 0 .. MaxTime /\ op.kind \in CareKinds /\ op.event = None
  BY DEF IInv, TypeOK, OperationOK, ApplyCare, Kinds
<1> DEFINE base == Refreshed(op.at)
           cared == Cared(base, op.kind)
           commit == Committed(cared, op.at)
<1>2. base \in Row /\ base.xp = db.xp /\ base.currency = db.currency
  BY <1>1, RefreshedRow
<1>3. cared \in Row /\ cared.xp = db.xp /\ cared.currency = db.currency
  BY <1>1, <1>2, CaredRow
<1>4. commit \in Row /\ commit.xp = db.xp /\ commit.currency = db.currency
  BY <1>1, <1>3, CommittedRow
<1>5. /\ IF cared = base
         THEN db' = base /\ UNCHANGED grants
         ELSE IF Eligible(op.kind, None, op.at)
         THEN db' = Earned(commit, op.kind) /\ grants' = grants \cup {NewGrant(op)}
         ELSE db' = commit /\ UNCHANGED grants
      /\ cache' = db' /\ op' = None
      /\ UNCHANGED <<clock, running, owned, spent>>
  BY DEF ApplyCare, Committed
<1>6. NewGrant(op) = [kind |-> op.kind, event |-> None, at |-> op.at]
  BY <1>1 DEF NewGrant
<1> HIDE DEF base, cared, commit
<1>7. CASE cared = base
  BY <1>1, <1>2, <1>5, <1>7, CommitStep
<1>8. CASE cared # base /\ Eligible(op.kind, None, op.at)
  BY <1>1, <1>4, <1>5, <1>6, <1>8, RewardStep DEF Kinds
<1>9. CASE cared # base /\ ~Eligible(op.kind, None, op.at)
  BY <1>1, <1>4, <1>5, <1>9, CommitStep
<1> QED
  BY <1>7, <1>8, <1>9

LEMMA ApplyTalkStep == ASSUME IInv, ApplyTalk PROVE IInv'
<1>1. /\ running /\ op.at \in 0 .. MaxTime /\ op.kind = "talk"
      /\ op.event \in Events \cup {None}
  BY DEF IInv, TypeOK, OperationOK, Operation, ApplyTalk
<1> DEFINE base == Refreshed(op.at)
           commit == Committed(base, op.at)
<1>2. base \in Row /\ base.xp = db.xp /\ base.currency = db.currency
  BY <1>1, RefreshedRow
<1>3. commit \in Row /\ commit.xp = db.xp /\ commit.currency = db.currency
  BY <1>1, <1>2, CommittedRow
<1>4. /\ IF Eligible("talk", op.event, op.at)
         THEN db' = Earned(commit, "talk") /\ grants' = grants \cup {NewGrant(op)}
         ELSE db' = base /\ UNCHANGED grants
      /\ cache' = db' /\ op' = None
      /\ UNCHANGED <<clock, running, owned, spent>>
  BY DEF ApplyTalk, Committed
<1>5. NewGrant(op) = [kind |-> "talk", event |-> op.event, at |-> op.at]
  BY <1>1 DEF NewGrant
<1> HIDE DEF base, commit
<1>6. CASE Eligible("talk", op.event, op.at)
  BY <1>1, <1>3, <1>4, <1>5, <1>6, RewardStep DEF Kinds
<1>7. CASE ~Eligible("talk", op.event, op.at)
  BY <1>1, <1>2, <1>4, <1>7, CommitStep
<1> QED
  BY <1>6, <1>7

\* A sale moves the row past every cached revision and its price to the sales.
LEMMA PurchaseStep == ASSUME IInv, NEW item \in Items, Purchase(item) PROVE IInv'
<1>1. running /\ clock \in 0 .. MaxTime
  BY DEF Purchase, Idle, IInv, TypeOK
<1>2. db \in Row /\ cache \in Row /\ Balanced(db, grants, spent)
  BY <1>1, Started
<1>3. /\ db' = Sold(db, item) /\ spent' = spent + Price[item]
      /\ owned' = owned \cup {item}
      /\ op' = [step |-> "refresh", kind |-> None, event |-> None, at |-> clock]
      /\ UNCHANGED <<clock, running, cache, grants>>
  BY DEF Purchase
<1>4. /\ db' \in Row /\ db'.revision = db.revision + 1 /\ db'.xp = db.xp
      /\ db'.currency = db.currency - Price[item]
  BY <1>2, <1>3, SoldRow DEF Purchase
<1>5. db' # None
  BY <1>4, RowAssumption
<1>6. /\ spent \in Nat /\ Price[item] \in Nat /\ db.currency \in Nat
      /\ db.revision \in Nat /\ cache.revision \in Nat
  BY <1>2, ShopAssumption DEF IInv, TypeOK, Row
<1>7. Balanced(db', grants', spent')
  <2>1. db'.currency + spent' = db.currency + spent
    BY <1>3, <1>4, <1>6
  <2> QED
    BY <1>2, <1>3, <1>4, <2>1 DEF Balanced
<1>8. CacheCoherent'
  <2>1. cache.revision <= db.revision
    BY <1>2, RowAssumption DEF IInv, CacheCoherent
  <2>2. cache.revision < db'.revision /\ cache' = cache
    BY <1>3, <1>4, <1>6, <2>1
  <2> QED
    BY <1>4, <1>6, <2>2 DEF CacheCoherent
<1>9. op' \in Operation
  BY <1>1, <1>3, TimeAssumption DEF Operation
<1>10. OperationOK'
  BY <1>3 DEF OperationOK
<1>11. spent' \in Nat
  BY <1>3, <1>6
<1> QED
  BY <1>1, <1>3, <1>4, <1>5, <1>7, <1>8, <1>9, <1>10, <1>11
     DEF IInv, TypeOK, FirstStart, Balance

\* The cached row becomes the durable one.
LEMMA ReloadStep ==
    ASSUME IInv, running, cache' = db, op' = None,
           UNCHANGED <<clock, running, db, grants, owned, spent>>
    PROVE  IInv'
<1>1. db \in Row /\ db # None
  BY Started, RowAssumption
<1>2. CacheCoherent'
  BY <1>1, OneRow
<1> QED
  BY <1>1, <1>2 DEF IInv, TypeOK, OperationOK, FirstStart, Balance

LEMMA ResetStep == ASSUME IInv, Reset PROVE IInv'
<1>1. running /\ clock \in 0 .. MaxTime /\ op = None
  BY DEF Reset, IInv, TypeOK
<1>2. /\ db' = NewRow(clock) /\ cache' = db' /\ grants' = {} /\ spent' = 0
      /\ UNCHANGED <<clock, running, op, owned>>
  BY DEF Reset
<1>3. db' \in Row /\ db' # None
  BY <1>1, <1>2, NewRowType, RowAssumption
<1>4. Balanced(db', grants', spent')
  BY <1>2, NewBalanced
<1>5. CacheCoherent'
  BY <1>2, <1>3, OneRow
<1> QED
  BY <1>1, <1>2, <1>3, <1>4, <1>5, EmptyLedger
     DEF IInv, TypeOK, OperationOK, FirstStart, Balance

LEMMA CrashStep == ASSUME IInv, Crash PROVE IInv'
BY DEF Crash, IInv, TypeOK, OperationOK, FirstStart, Balance, CacheCoherent

LEMMA FailStep == ASSUME IInv, Fail PROVE IInv'
BY DEF Fail, IInv, TypeOK, OperationOK, FirstStart, Balance, CacheCoherent

LEMMA SetClockStep == ASSUME IInv, NEW t \in 0 .. MaxTime, SetClock(t) PROVE IInv'
BY DEF SetClock, IInv, TypeOK, OperationOK, FirstStart, Balance, CacheCoherent

LEMMA StutterStep == ASSUME IInv, UNCHANGED vars PROVE IInv'
BY DEF vars, IInv, TypeOK, OperationOK, FirstStart, Balance, CacheCoherent

LEMMA NextIInv == IInv /\ [Next]_vars => IInv'
<1> SUFFICES ASSUME IInv, [Next]_vars PROVE IInv'
  OBVIOUS
<1>1. CASE Boot
  BY <1>1, BootStep
<1>2. CASE EvaluateRuntime
  BY <1>2, EvaluateRuntimeStep
<1>3. CASE \E kind \in CareKinds : Begin(kind, None)
  BY <1>3, BeginStep DEF Kinds
<1>4. CASE \E event \in Events : Begin("talk", event)
  BY <1>4, BeginStep DEF Kinds
<1>5. CASE ApplyCare
  BY <1>5, ApplyCareStep
<1>6. CASE ApplyTalk
  BY <1>6, ApplyTalkStep
<1>7. CASE \E item \in Items : Purchase(item)
  BY <1>7, PurchaseStep
<1>8. CASE RefreshAfterPurchase
  BY <1>8, ReloadStep DEF RefreshAfterPurchase, IInv, TypeOK
<1>9. CASE Fail
  BY <1>9, FailStep
<1>10. CASE Browse
  BY <1>10, ReloadStep DEF Browse
<1>11. CASE Reset
  BY <1>11, ResetStep
<1>12. CASE Crash
  BY <1>12, CrashStep
<1>13. CASE \E t \in 0 .. MaxTime : SetClock(t)
  BY <1>13, SetClockStep
<1>14. CASE UNCHANGED vars
  BY <1>14, StutterStep
<1> QED
  BY <1>1, <1>2, <1>3, <1>4, <1>5, <1>6, <1>7, <1>8, <1>9, <1>10, <1>11, <1>12,
     <1>13, <1>14 DEF Next

(***************************************************************************)
(* Theorems.                                                               *)
(***************************************************************************)

\* IInv is an invariant of the pet's economy: PetStateService, the two
\* repositories and the shop keep it through every operation, crash and failure.
THEOREM PetInvariance == Spec => []IInv
BY InitIInv, NextIInv, PTL DEF Spec

\* Every table and field keeps its type; no need leaves 0 .. Full and no
\* balance goes below zero.
THEOREM PetTypeCorrect == Spec => []TypeOK
<1>1. IInv => TypeOK
  BY DEF IInv
<1> QED
  BY <1>1, PetInvariance, PTL

\* Setting the clock earns no reward before its cooldown, for any cooldowns no
\* longer than the window (core/pet/progression.py).
THEOREM RewardsAreSpaced == Spec => []RewardsSpaced
<1>1. IInv => RewardsSpaced
  BY DEF IInv, Ledger, Spaced, RewardsSpaced
<1> QED
  BY <1>1, PetInvariance, PTL

\* No window of the rolling length holds more rewards than the cap of their
\* group, wherever the clock was set (core/pet/progression.py).
THEOREM RewardsAreCapped == Spec => []RewardsCapped
<1>1. \A kind \in Kinds, t \in -Window .. MaxTime : InWindow(kind, t) = Held(grants, kind, t)
  BY DEF InWindow, Held
<1>2. IInv => RewardsCapped
  BY <1>1 DEF IInv, Ledger, Capped, RewardsCapped
<1> QED
  BY <1>2, PetInvariance, PTL

\* Both limits together: no clock, however it is set, earns more than they allow
\* (core/pet/progression.py).
THEOREM RewardsAreLimited == Spec => []RewardsLimited
<1>1. RewardsSpaced /\ RewardsCapped => RewardsLimited
  BY DEF RewardsLimited
<1> QED
  BY <1>1, RewardsAreSpaced, RewardsAreCapped, PTL

\* A conversation is rewarded once between two resets (find_reward_grant).
THEOREM EventsAreRewardedOnce == Spec => []EventsOnce
<1>1. IInv => EventsOnce
  BY DEF IInv, Ledger, Once, EventsOnce
<1> QED
  BY <1>1, PetInvariance, PTL

\* The balance is what the grants earned minus what the sales took: a stale
\* cache, a crash or a failed refresh never restores spent currency.
THEOREM LedgerIsBalanced == Spec => []LedgerBalances
<1>1. CareGrants = Of(grants)
  BY DEF CareGrants, Of
<1>2. IInv => LedgerBalances
  BY <1>1 DEF IInv, Balance, Balanced, LedgerBalances
<1> QED
  BY <1>2, PetInvariance, PTL

\* A cached row never passes for a newer durable one: the revision tells every
\* write of the shop apart.
THEOREM CacheIsCoherent == Spec => []CacheCoherent
<1>1. IInv => CacheCoherent
  BY DEF IInv
<1> QED
  BY <1>1, PetInvariance, PTL
(***************************************************************************)
(* The decay.                                                              *)
(***************************************************************************)

LEMMA Division ==
    ASSUME NEW x \in Nat, NEW i \in Nat \ {0}
    PROVE  /\ x \div i \in Nat /\ x % i \in Nat /\ x % i < i
           /\ x = i * (x \div i) + (x % i)
  OBVIOUS

LEMMA DivisionUnique ==
    ASSUME NEW i \in Nat \ {0}, NEW q \in Nat, NEW r \in Nat, NEW p \in Nat, NEW s \in Nat,
           r < i, s < i, i * q + r = i * p + s
    PROVE  q = p /\ r = s
<1>1. i * (q - p) = s - r
  OBVIOUS
<1>2. CASE q > p
  <2>1. i * (q - p) >= i
    BY <1>2
  <2> QED BY <1>1, <2>1
<1>3. CASE q < p
  <2>1. i * (p - q) >= i
    BY <1>3
  <2>2. i * (p - q) = r - s
    BY <1>1
  <2> QED BY <2>2, <2>1
<1>4. CASE q = p
  BY <1>1, <1>4
<1> QED BY <1>2, <1>3, <1>4

\* What is left of x, and y more, is what is left of both.
LEMMA DivisionSplits ==
    ASSUME NEW x \in Nat, NEW y \in Nat, NEW i \in Nat \ {0}
    PROVE  /\ (x + y) \div i = x \div i + ((x % i) + y) \div i
           /\ (x + y) % i = ((x % i) + y) % i
<1>1. x \div i \in Nat /\ x % i \in Nat /\ x = i * (x \div i) + (x % i)
  BY Division
<1> DEFINE rest == (x % i) + y
           both == x + y
           p == x \div i + rest \div i
<1>2. rest \in Nat /\ both \in Nat /\ both = i * (x \div i) + rest
  BY <1>1
<1>3. rest \div i \in Nat /\ rest % i \in Nat /\ rest % i < i
        /\ rest = i * (rest \div i) + (rest % i)
  BY <1>2, Division
<1>4. both \div i \in Nat /\ both % i \in Nat /\ both % i < i
        /\ both = i * (both \div i) + (both % i)
  BY <1>2, Division
<1> HIDE DEF rest, both
<1>5. p \in Nat /\ i * (both \div i) + (both % i) = i * p + (rest % i)
  BY <1>1, <1>2, <1>3, <1>4
<1> HIDE DEF p
<1>6. \A q \in Nat, r \in Nat, s \in Nat :
        r < i /\ s < i /\ i * q + r = i * p + s => q = p /\ r = s
  BY <1>5, DivisionUnique
<1>7. both \div i = p /\ both % i = rest % i
  BY <1>3, <1>4, <1>5, <1>6
<1> QED BY <1>7 DEF rest, both, p

\* A need that decays twice decays as once over the whole time.
LEMMA DecayTwice ==
    ASSUME NEW n \in Need, NEW a \in Nat, NEW b \in Nat, NEW i \in Nat \ {0}
    PROVE  DecayValue(DecayValue(n, a, i), b, i) = DecayValue(n, a + b, i)
<1> DEFINE total == n.rem + a
<1>1. n.value \in Nat /\ n.rem \in Nat /\ total \in Nat
  BY NeedsAssumption DEF Need
<1>2. total + b = n.rem + (a + b)
  BY <1>1
<1> HIDE DEF total
<1>3. /\ total \div i \in Nat /\ total % i \in Nat
      /\ ((total % i) + b) \div i \in Nat
  BY <1>1, Division
<1>4. /\ (total + b) \div i = total \div i + ((total % i) + b) \div i
      /\ (total + b) % i = ((total % i) + b) % i
  BY <1>1, DivisionSplits
<1>5. DecayValue(n, a, i) = IF total \div i < n.value
                            THEN [value |-> n.value - total \div i, rem |-> total % i]
                            ELSE [value |-> 0, rem |-> 0]
  BY DEF DecayValue, total
<1>6. DecayValue(n, a + b, i) =
        IF total \div i + ((total % i) + b) \div i < n.value
        THEN [value |-> n.value - (total \div i + ((total % i) + b) \div i),
              rem |-> ((total % i) + b) % i]
        ELSE [value |-> 0, rem |-> 0]
  BY <1>2, <1>4 DEF DecayValue
<1>7. CASE total \div i < n.value
  <2> DEFINE m == [value |-> n.value - total \div i, rem |-> total % i]
  <2>1. DecayValue(m, b, i) =
          IF ((total % i) + b) \div i < n.value - total \div i
          THEN [value |-> n.value - total \div i - ((total % i) + b) \div i,
                rem |-> ((total % i) + b) % i]
          ELSE [value |-> 0, rem |-> 0]
    BY DEF DecayValue
  <2>2. DecayValue(n, a, i) = m
    BY <1>5, <1>7
  <2> HIDE DEF m
  <2> DEFINE k == total \div i
             l == ((total % i) + b) \div i
  <2>3. /\ k \in Nat /\ l \in Nat
        /\ l < n.value - k <=> k + l < n.value
        /\ n.value - k - l = n.value - (k + l)
    BY <1>1, <1>3
  <2> QED BY <1>6, <2>1, <2>2, <2>3
<1>8. CASE ~(total \div i < n.value)
  <2>1. DecayValue(n, a, i) = [value |-> 0, rem |-> 0]
    BY <1>5, <1>8
  <2>2. 0 + b \in Nat /\ b \div i \in Nat
    BY Division
  <2>3. DecayValue([value |-> 0, rem |-> 0], b, i) = [value |-> 0, rem |-> 0]
    BY <2>2 DEF DecayValue
  <2>4. ~(total \div i + ((total % i) + b) \div i < n.value)
    BY <1>1, <1>3, <1>8
  <2> QED BY <1>6, <2>1, <2>3, <2>4
<1> QED BY <1>7, <1>8

(***************************************************************************)
(* Whole seconds.                                                          *)
(***************************************************************************)

LEMMA FirstSecond ==
    ASSUME NEW x \in Int, NEW i \in Nat \ {0}
    PROVE  x \div i \in Int /\ (x \div i <= 0 <=> x < i)
<1>1. /\ x \div i \in Int /\ x % i \in Int /\ 0 <= x % i /\ x % i < i
      /\ x = i * (x \div i) + (x % i)
  OBVIOUS
<1> DEFINE q == x \div i
           r == x % i
<1>2. q \in Int /\ r \in Int /\ 0 <= r /\ r < i /\ x = i * q + r
  BY <1>1
<1> HIDE DEF q, r
<1>3. CASE q <= 0
  <2>1. i * q <= 0
    BY <1>2, <1>3
  <2> QED BY <1>2, <1>3, <2>1 DEF q
<1>4. CASE q >= 1
  <2>1. i * q >= i
    BY <1>2, <1>4
  <2> QED BY <1>2, <1>4, <2>1 DEF q
<1> QED BY <1>2, <1>3, <1>4 DEF q

\* Two fractions make one second at the most.
LEMMA OneCarry ==
    ASSUME NEW i \in Nat \ {0}, NEW r \in Nat, NEW s \in Nat, r < i, s < i
    PROVE  (r + s) \div i \in {0, 1}
<1>1. /\ r + s \in Nat /\ (r + s) \div i \in Nat /\ (r + s) % i \in Nat
      /\ r + s = i * ((r + s) \div i) + ((r + s) % i)
  BY Division
<1> DEFINE q == (r + s) \div i
<1>2. q \in Nat /\ i * q <= r + s
  BY <1>1
<1> HIDE DEF q
<1>3. ASSUME q >= 2 PROVE FALSE
  <2>1. i * q >= i + i
    BY <1>2, <1>3
  <2> QED BY <1>2, <2>1
<1> QED BY <1>2, <1>3 DEF q

\* The whole seconds of two spans are those of both together, or one less.
LEMMA SecondsOfTwo ==
    ASSUME NEW x \in Nat, NEW y \in Nat, NEW i \in Nat \ {0}
    PROVE  /\ x \div i \in Nat /\ y \div i \in Nat
           /\ \/ (x + y) \div i = x \div i + y \div i
              \/ (x + y) \div i = x \div i + y \div i + 1
<1>1. /\ x \div i \in Nat /\ x % i \in Nat /\ x % i < i
      /\ y \div i \in Nat /\ y % i \in Nat /\ y % i < i
  BY Division
<1>2. (x + y) \div i = x \div i + ((x % i) + y) \div i
  BY DivisionSplits
<1> DEFINE r == x % i
<1>3. r \in Nat /\ r < i /\ r + y = y + r
  BY <1>1
<1> HIDE DEF r
<1>4. (y + r) \div i = y \div i + ((y % i) + r) \div i
  BY <1>3, DivisionSplits
<1>5. ((y % i) + r) \div i \in {0, 1}
  BY <1>1, <1>3, OneCarry
<1>6. ((x % i) + y) \div i = y \div i + ((y % i) + r) \div i
  BY <1>3, <1>4 DEF r
<1> DEFINE m == x \div i
           n == y \div i
           carry == ((y % i) + r) \div i
<1>7. m \in Nat /\ n \in Nat /\ carry \in {0, 1} /\ (x + y) \div i = m + (n + carry)
  BY <1>1, <1>2, <1>5, <1>6
<1> HIDE DEF m, n, carry
<1>8. m + (n + carry) = m + n \/ m + (n + carry) = m + n + 1
  BY <1>7
<1> QED BY <1>7, <1>8 DEF m, n

\* A need after so many seconds.
Worn(n, seconds, i) == IF seconds <= 0 THEN n ELSE DecayValue(n, seconds, i)

LEMMA WornTwice ==
    ASSUME NEW n \in Need, NEW a \in Nat, NEW b \in Nat, NEW i \in Nat \ {0}
    PROVE  Worn(Worn(n, a, i), b, i) = Worn(n, a + b, i)
<1>1. CASE a = 0 \/ b = 0
  BY <1>1 DEF Worn
<1>2. CASE a > 0 /\ b > 0
  <2>1. a + b > 0 /\ ~(a <= 0) /\ ~(b <= 0) /\ ~(a + b <= 0)
    BY <1>2
  <2> QED BY <2>1, DecayTwice DEF Worn
<1> QED BY <1>1, <1>2

\* One second more or less of a span that is split.
LEMMA WornApart ==
    ASSUME NEW n \in Need, NEW a \in Nat, NEW b \in Nat, NEW c \in Nat,
           NEW i \in Nat \ {0}, c = a + b \/ c = a + b + 1
    PROVE  LET later == Worn(Worn(n, a, i), b, i)
           IN  Worn(n, c, i) \in {later, DecayValue(later, 1, i)}
<1>1. Worn(Worn(n, a, i), b, i) = Worn(n, a + b, i) /\ a + b \in Nat
  BY WornTwice
<1>2. Worn(n, (a + b) + 1, i) = Worn(Worn(n, a + b, i), 1, i)
  BY <1>1, WornTwice
<1>3. Worn(Worn(n, a + b, i), 1, i) = DecayValue(Worn(n, a + b, i), 1, i)
  BY DEF Worn
<1> QED BY <1>1, <1>2, <1>3

\* The same for two spans of time in ticks.
LEMMA WornSpans ==
    ASSUME NEW n \in Need, NEW x \in Nat, NEW y \in Nat, NEW tick \in Nat \ {0},
           NEW i \in Nat \ {0}
    PROVE  LET later == Worn(Worn(n, x \div tick, i), y \div tick, i)
           IN  Worn(n, (x + y) \div tick, i) \in {later, DecayValue(later, 1, i)}
<1> DEFINE a == x \div tick
           b == y \div tick
           c == (x + y) \div tick
<1>1. a \in Nat /\ b \in Nat /\ (c = a + b \/ c = a + b + 1)
  BY SecondsOfTwo
<1> HIDE DEF a, b, c
<1>2. c \in Nat
  BY <1>1
<1>3. LET later == Worn(Worn(n, a, i), b, i)
      IN  Worn(n, c, i) \in {later, DecayValue(later, 1, i)}
  BY <1>1, <1>2, WornApart
<1> QED BY <1>3 DEF a, b, c

(***************************************************************************)
(* Baselines.                                                              *)
(***************************************************************************)

LEMMA AgedWorn ==
    ASSUME NEW row \in Row, NEW k \in CareKinds, NEW t \in 0 .. MaxTime
    PROVE  Aged(row, k, t) = Worn(row.needs[k], (t - row.at) \div Second, Interval[k])
<1>1. Elapsed(row, t, "runtime") = (t - row.at) \div Second
  BY DEF Elapsed
<1> DEFINE e == (t - row.at) \div Second
           needs == [j \in CareKinds |-> DecayValue(row.needs[j], e, Interval[j])]
<1>2. CASE e <= 0
  BY <1>1, <1>2 DEF Aged, Evaluated, Worn
<1>3. CASE ~(e <= 0)
  <2>1. Evaluated(row, t, "runtime") =
          [row EXCEPT !.needs = needs, !.revision = row.revision + 1, !.at = t]
    BY <1>1, <1>3 DEF Evaluated, Row
  <2> HIDE DEF needs
  <2>2. Evaluated(row, t, "runtime").needs = needs
    BY <2>1 DEF Row
  <2> QED BY <1>3, <2>2 DEF Aged, Worn, needs
<1> QED BY <1>2, <1>3

\* A row whose baseline moves over part of a second, the need left alone.
LEMMA AgedShifted ==
    ASSUME NEW r \in Row, NEW s \in Row, NEW k \in CareKinds, NEW t \in 0 .. MaxTime,
           s.needs[k] = r.needs[k], r.at <= s.at, s.at < r.at + Second, s.at <= t
    PROVE  Aged(r, k, t) \in {Aged(s, k, t), DecayValue(Aged(s, k, t), 1, Interval[k])}
<1>1. r.at \in Nat /\ s.at \in Nat /\ t \in Nat
  BY TimeAssumption DEF Row
<1>2. Second \in Nat \ {0} /\ Interval[k] \in Nat \ {0} /\ r.needs[k] \in Need
  BY TimeAssumption, NeedsAssumption DEF Row
<1> DEFINE x == s.at - r.at
           y == t - s.at
           n == r.needs[k]
           i == Interval[k]
           later == Worn(n, y \div Second, i)
<1>3. x \in Nat /\ x < Second
  BY <1>1, <1>2
<1>4. y \in Nat /\ x + y = t - r.at
  BY <1>1
<1>5. Aged(s, k, t) = later /\ Aged(r, k, t) = Worn(n, (x + y) \div Second, i)
  BY <1>4, AgedWorn
<1> HIDE DEF x, y, n, i
<1>6. x \div Second <= 0
  BY <1>2, <1>3, FirstSecond
<1>7. Worn(n, x \div Second, i) = n
  BY <1>6 DEF Worn
<1>8. n \in Need /\ i \in Nat \ {0}
  BY <1>2 DEF n, i
<1>9. Worn(n, (x + y) \div Second, i)
        \in {Worn(Worn(n, x \div Second, i), y \div Second, i),
             DecayValue(Worn(Worn(n, x \div Second, i), y \div Second, i), 1, i)}
  BY <1>2, <1>3, <1>4, <1>8, WornSpans
<1>10. Worn(n, (x + y) \div Second, i) \in {later, DecayValue(later, 1, i)}
  BY <1>7, <1>9
<1> QED BY <1>5, <1>10 DEF i

\* An evaluation in between.
LEMMA AgedBetween ==
    ASSUME NEW row \in Row, NEW k \in CareKinds, NEW u \in 0 .. MaxTime,
           NEW t \in 0 .. MaxTime, row.at <= u, u <= t
    PROVE  LET later == Aged(Evaluated(row, u, "runtime"), k, t)
           IN  Aged(row, k, t) \in {later, DecayValue(later, 1, Interval[k])}
<1> DEFINE e == Evaluated(row, u, "runtime")
<1>1. CASE Elapsed(row, u, "runtime") <= 0
  BY <1>1 DEF Evaluated
<1>2. CASE ~(Elapsed(row, u, "runtime") <= 0)
  <2>1. row.at \in Nat /\ u \in Nat /\ t \in Nat
    BY TimeAssumption DEF Row
  <2>2. Second \in Nat \ {0} /\ Interval[k] \in Nat \ {0} /\ row.needs[k] \in Need
    BY TimeAssumption, NeedsAssumption DEF Row
  <2>3. e \in Row
    BY EvaluatedRow
  <2>4. e.at = u
    BY <1>2 DEF Evaluated, Row
  <2>5. e.needs[k] = Aged(row, k, u)
    BY DEF Aged
  <2> HIDE DEF e
  <2> DEFINE x == u - row.at
             y == t - u
             n == row.needs[k]
             i == Interval[k]
             later == Worn(Worn(n, x \div Second, i), y \div Second, i)
  <2>6. Aged(row, k, u) = Worn(n, x \div Second, i)
    BY AgedWorn
  <2>7. Aged(e, k, t) = later
    BY <2>3, <2>4, <2>5, <2>6, AgedWorn
  <2>8. x \in Nat /\ y \in Nat /\ x + y = t - row.at
    BY <2>1
  <2>9. Aged(row, k, t) = Worn(n, (x + y) \div Second, i)
    BY <2>8, AgedWorn
  <2>10. n \in Need /\ i \in Nat \ {0}
    BY <2>2
  <2> HIDE DEF x, y, n, i
  <2>11. Worn(n, (x + y) \div Second, i) \in {later, DecayValue(later, 1, i)}
    BY <2>2, <2>8, <2>10, WornSpans
  <2> QED BY <2>7, <2>9, <2>11 DEF e, i
<1> QED BY <1>1, <1>2

\* The cached baseline is the durable one, and an operation that is still to be
\* applied has settled the whole seconds before its instant.
DatedInv ==
    /\ cache # None => cache.at = db.at
    /\ (op # None /\ op.step = "apply") => op.at < db.at + Second

\* A settled row is the durable one, evaluated or as it is within its first second.
LEMMA SettleDates ==
    ASSUME IInv, DatedInv, running, NEW t \in 0 .. MaxTime, Settle(cache, t, "runtime")
    PROVE  /\ db' = Evaluated(db, t, "runtime")
           /\ cache'.at = db'.at
           /\ t < db'.at + Second
<1>1. db \in Row /\ cache \in Row /\ db # None /\ cache # None
  BY Started, RowAssumption
<1>2. cache.at = db.at
  BY <1>1 DEF DatedInv
<1>3. Elapsed(cache, t, "runtime") = Elapsed(db, t, "runtime")
  BY <1>2 DEF Elapsed
<1>4. /\ db.at \in Nat /\ t \in Nat /\ Second \in Nat \ {0} /\ t - db.at \in Int
      /\ Elapsed(db, t, "runtime") = (t - db.at) \div Second
  BY <1>1, TimeAssumption DEF Row, Elapsed
<1>5. CASE Elapsed(cache, t, "runtime") <= 0
  <2>1. cache' = cache /\ db' = db
    BY <1>5 DEF Settle
  <2>2. Evaluated(db, t, "runtime") = db
    BY <1>3, <1>5 DEF Evaluated
  <2>3. t - db.at < Second
    BY <1>3, <1>4, <1>5, FirstSecond
  <2> QED BY <1>2, <1>4, <2>1, <2>2, <2>3
<1>6. CASE ~(Elapsed(cache, t, "runtime") <= 0)
  <2>1. Snapshot(cache) = Snapshot(db) => cache = db
    BY <1>1, RowAssumption DEF IInv, CacheCoherent, Snapshot
  <2>2. db' = Evaluated(db, t, "runtime") /\ cache' = db'
    BY <1>6, <2>1 DEF Settle
  <2>3. Evaluated(db, t, "runtime").at = t
    BY <1>1, <1>3, <1>6 DEF Evaluated, Row
  <2> QED BY <1>4, <2>2, <2>3
<1> QED BY <1>5, <1>6

\* What an operation applies itself to is the row it has settled.
LEMMA RefreshedSettled ==
    ASSUME IInv, DatedInv, op # None, op.step = "apply"
    PROVE  Refreshed(op.at) = db
<1>1. running /\ op.at \in 0 .. MaxTime /\ op.at < db.at + Second
  BY DEF IInv, TypeOK, OperationOK, DatedInv
<1>2. db \in Row /\ cache \in Row /\ db # None /\ cache # None
  BY <1>1, Started, RowAssumption
<1>3. CASE db.revision = cache.revision
  BY <1>2, <1>3 DEF Refreshed, IInv, CacheCoherent
<1>4. CASE db.revision # cache.revision
  <2>1. db.at \in Nat /\ Second \in Nat \ {0} /\ op.at \in Nat
    BY <1>1, <1>2, TimeAssumption DEF Row
  <2>2. op.at - db.at \in Int /\ op.at - db.at < Second
    BY <1>1, <2>1
  <2>3. (op.at - db.at) \div Second <= 0
    BY <2>1, <2>2, FirstSecond
  <2> QED BY <1>4, <2>3 DEF Refreshed, Evaluated, Elapsed
<1> QED BY <1>3, <1>4

LEMMA DatedStep == IInv /\ DatedInv /\ [Next]_vars => DatedInv'
<1> SUFFICES ASSUME IInv, DatedInv, [Next]_vars PROVE DatedInv'
  OBVIOUS
<1>1. CASE Boot
  BY <1>1 DEF Boot, DatedInv, IInv, TypeOK
<1>2. CASE EvaluateRuntime
  <2>1. running /\ clock \in 0 .. MaxTime /\ Settle(cache, clock, "runtime")
          /\ op = None /\ op' = None
    BY <1>2 DEF EvaluateRuntime, Idle, IInv, TypeOK
  <2> QED BY <2>1, SettleDates DEF DatedInv
<1>3. CASE (\E kind \in CareKinds : Begin(kind, None))
           \/ (\E event \in Events : Begin("talk", event))
  <2>1. PICK kind, event : Begin(kind, event)
    BY <1>3
  <2>2. running /\ clock \in 0 .. MaxTime /\ Settle(cache, clock, "runtime")
    BY <2>1 DEF Begin, Idle, IInv, TypeOK
  <2>3. op'.at = clock
    BY <2>1 DEF Begin
  <2>4. cache'.at = db'.at /\ clock < db'.at + Second
    BY <2>2, SettleDates
  <2> QED BY <2>3, <2>4 DEF DatedInv
<1>4. CASE ApplyCare
  BY <1>4 DEF ApplyCare, DatedInv
<1>5. CASE ApplyTalk
  BY <1>5 DEF ApplyTalk, DatedInv
<1>6. CASE \E item \in Items : Purchase(item)
  <2>1. PICK item \in Items : Purchase(item)
    BY <1>6
  <2>2. running /\ db \in Row
    BY <2>1, Started DEF Purchase, Idle
  <2>3. db' = Sold(db, item) /\ cache' = cache /\ op'.step = "refresh"
    BY <2>1 DEF Purchase
  <2>4. db'.at = db.at
    BY <2>2, <2>3 DEF Sold, Row
  <2> QED BY <2>3, <2>4 DEF DatedInv
<1>7. CASE RefreshAfterPurchase \/ Browse \/ Reset
  BY <1>7 DEF RefreshAfterPurchase, Browse, Reset, DatedInv
<1>8. CASE Fail \/ Crash
  BY <1>8 DEF Fail, Crash, DatedInv
<1>9. CASE (\E t \in 0 .. MaxTime : SetClock(t)) \/ UNCHANGED vars
  BY <1>9 DEF SetClock, vars, DatedInv
<1> QED
  BY <1>1, <1>2, <1>3, <1>4, <1>5, <1>6, <1>7, <1>8, <1>9 DEF Next

LEMMA DatedInvariance == Spec => [](IInv /\ DatedInv)
<1>1. Init => DatedInv
  BY DEF Init, DatedInv
<1> QED
  BY <1>1, InitIInv, NextIInv, DatedStep, PTL DEF Spec

(***************************************************************************)
(* A step, and a later evaluation.                                         *)
(***************************************************************************)

\* The step leaves the need as a later evaluation would find it, or ahead by a second.
Kept(k, t) == LET later == Aged(db', k, t)
              IN  Aged(db, k, t) \in {later, DecayValue(later, 1, Interval[k])}

LEMMA AppliedKept ==
    ASSUME IInv, DatedInv, ApplyCare \/ ApplyTalk, NEW k \in CareKinds,
           NEW t \in 0 .. MaxTime, db.at <= db'.at, db'.at <= t, op.kind # k
    PROVE  Kept(k, t)
<1>1. op # None /\ op.step = "apply" /\ running
  BY DEF ApplyCare, ApplyTalk, IInv, TypeOK
<1>2. op.at \in 0 .. MaxTime /\ op.at < db.at + Second
  BY <1>1 DEF IInv, OperationOK, DatedInv
<1>3. db \in Row /\ Refreshed(op.at) = db
  BY <1>1, Started, RefreshedSettled
<1>4. /\ db' \in Row /\ db'.needs[k] = db.needs[k]
      /\ db'.at = db.at \/ db'.at = op.at
  <2>1. CASE ApplyTalk
    <3> DEFINE commit == Committed(db, op.at)
    <3>1. db' = Earned(commit, "talk") \/ db' = db
      BY <1>3, <2>1 DEF ApplyTalk, Committed
    <3>2. commit \in Row /\ commit.needs = db.needs /\ commit.at = op.at
      BY <1>2, <1>3, CommittedRow DEF Committed, Row
    <3> HIDE DEF commit
    <3>3. /\ Earned(commit, "talk") \in Row
          /\ Earned(commit, "talk").needs = commit.needs
          /\ Earned(commit, "talk").at = commit.at
      BY <3>2, EarnedRow DEF Earned, Row, Kinds
    <3> QED BY <1>3, <3>1, <3>2, <3>3
  <2>2. CASE ApplyCare
    <3> DEFINE cared == Cared(db, op.kind)
               commit == Committed(cared, op.at)
    <3>0. op.kind \in CareKinds
      BY <1>1, <2>2 DEF ApplyCare, IInv, OperationOK, Kinds
    <3>1. db' = Earned(commit, op.kind) \/ db' = commit \/ db' = db
      BY <1>3, <2>2 DEF ApplyCare, Committed
    <3>2. cared \in Row /\ cared.needs[k] = db.needs[k]
      <4>1. cared \in Row
        BY <1>3, <3>0, CaredRow
      <4>2. cared.needs = [db.needs EXCEPT ![op.kind].value = Raised(@, Gain)]
        BY <1>3 DEF Cared, Row
      <4>3. db.needs \in [CareKinds -> Need]
        BY <1>3 DEF Row
      <4> QED BY <4>1, <4>2, <4>3
    <3> HIDE DEF cared
    <3>3. commit \in Row /\ commit.needs = cared.needs /\ commit.at = op.at
      BY <1>2, <3>2, CommittedRow DEF Committed, Row
    <3> HIDE DEF commit
    <3>4. /\ Earned(commit, op.kind) \in Row
          /\ Earned(commit, op.kind).needs = commit.needs
          /\ Earned(commit, op.kind).at = commit.at
      BY <3>0, <3>3, EarnedRow DEF Earned, Row, Kinds
    <3> QED BY <1>3, <3>1, <3>2, <3>3, <3>4
  <2> QED BY <2>1, <2>2
<1>5. db'.at < db.at + Second
  BY <1>2, <1>3, <1>4, TimeAssumption DEF Row
<1> QED BY <1>3, <1>4, <1>5, AgedShifted DEF Kept

LEMMA SoldKept ==
    ASSUME IInv, NEW item \in Items, Purchase(item), NEW k \in CareKinds,
           NEW t \in 0 .. MaxTime
    PROVE  Kept(k, t)
<1>1. db \in Row /\ db' = Sold(db, item) /\ db.currency >= Price[item]
  BY Started DEF Purchase, Idle
<1>2. db' \in Row
  BY <1>1, SoldRow
<1>3. db'.needs = db.needs /\ db'.at = db.at
  BY <1>1 DEF Sold, Row
<1> QED BY <1>1, <1>2, <1>3, AgedWorn DEF Kept

LEMMA BootKept ==
    ASSUME IInv, Boot, db # None, (db'.at - db.at) \div Second <= OfflineCap,
           NEW k \in CareKinds, NEW t \in 0 .. MaxTime, db.at <= db'.at, db'.at <= t
    PROVE  Kept(k, t)
<1>1. db \in Row /\ clock \in 0 .. MaxTime /\ db' = Evaluated(db, clock, "offline")
  BY DEF IInv, TypeOK, Boot
<1>2. CASE Elapsed(db, clock, "offline") <= 0
  BY <1>1, <1>2 DEF Evaluated, Kept
<1>3. CASE ~(Elapsed(db, clock, "offline") <= 0)
  <2>1. db'.at = clock
    BY <1>1, <1>3 DEF Evaluated, Row
  <2>2. (clock - db.at) \div Second \in Int /\ OfflineCap \in Nat
    <3>1. clock - db.at \in Int /\ Second \in Nat \ {0}
      BY <1>1, TimeAssumption DEF Row
    <3> QED BY <3>1, FirstSecond, NeedsAssumption
  <2>3. Elapsed(db, clock, "offline") = Elapsed(db, clock, "runtime")
    BY <2>1, <2>2 DEF Elapsed
  <2>4. db' = Evaluated(db, clock, "runtime")
    BY <1>1, <2>3 DEF Evaluated
  <2> QED BY <1>1, <2>1, <2>4, AgedBetween DEF Kept
<1> QED BY <1>2, <1>3

LEMMA SettledKept ==
    ASSUME IInv, DatedInv, EvaluateRuntime \/ (\E kind, event : Begin(kind, event)),
           NEW k \in CareKinds, NEW t \in 0 .. MaxTime, db.at <= db'.at, db'.at <= t
    PROVE  Kept(k, t)
<1>1. running /\ clock \in 0 .. MaxTime /\ Settle(cache, clock, "runtime")
  BY DEF EvaluateRuntime, Begin, Idle, IInv, TypeOK
<1>2. db \in Row /\ db' = Evaluated(db, clock, "runtime")
  BY <1>1, Started, SettleDates
<1>3. CASE Elapsed(db, clock, "runtime") <= 0
  BY <1>2, <1>3 DEF Evaluated, Kept
<1>4. CASE ~(Elapsed(db, clock, "runtime") <= 0)
  <2>1. db'.at = clock
    BY <1>2, <1>4 DEF Evaluated, Row
  <2> QED BY <1>1, <1>2, <2>1, AgedBetween DEF Kept
<1> QED BY <1>3, <1>4

\* What evaluate_elapsed_decay charges or carries over is neither charged again nor
\* forgotten by what is committed after it, for any intervals, any second and any
\* clock; a commit drops less than a second.
THEOREM TimeIsChargedOnce == Spec => TimeChargedOnce
<1>1. IInv /\ DatedInv /\ [Next]_vars =>
        [\A k \in CareKinds, t \in 0 .. MaxTime :
            (/\ db # None /\ db'.revision # 0
             /\ db.at <= db'.at /\ db'.at <= t
             /\ op = None \/ op.kind # k
             /\ running \/ (db'.at - db.at) \div Second <= OfflineCap)
            => LET later == Aged(db', k, t)
               IN  Aged(db, k, t) \in {later, DecayValue(later, 1, Interval[k])}]_vars
  <2> SUFFICES ASSUME IInv, DatedInv, Next, NEW k \in CareKinds, NEW t \in 0 .. MaxTime,
                      db # None, db'.revision # 0, db.at <= db'.at, db'.at <= t,
                      op = None \/ op.kind # k,
                      running \/ (db'.at - db.at) \div Second <= OfflineCap
               PROVE  Kept(k, t)
    BY DEF Kept
  <2>1. CASE Boot
    BY <2>1, BootKept DEF Boot
  <2>2. CASE EvaluateRuntime
    BY <2>2, SettledKept
  <2>3. CASE (\E kind \in CareKinds : Begin(kind, None))
             \/ (\E event \in Events : Begin("talk", event))
    BY <2>3, SettledKept
  <2>4. CASE ApplyCare \/ ApplyTalk
    BY <2>4, AppliedKept DEF ApplyCare, ApplyTalk
  <2>5. CASE \E item \in Items : Purchase(item)
    BY <2>5, SoldKept
  <2>6. CASE Reset
    BY <2>6 DEF Reset, NewRow
  <2>7. CASE db' = db
    BY <2>7 DEF Kept
  <2>8. RefreshAfterPurchase \/ Fail \/ Browse \/ Crash
          \/ (\E u \in 0 .. MaxTime : SetClock(u)) => db' = db
    BY DEF RefreshAfterPurchase, Fail, Browse, Crash, SetClock
  <2> QED
    BY <2>1, <2>2, <2>3, <2>4, <2>5, <2>6, <2>7, <2>8 DEF Next
<1> QED
  BY <1>1, DatedInvariance, PTL DEF Spec, TimeChargedOnce
=============================================================================
