---------------------- MODULE ExternalNotificationsProofs ----------------------
(***************************************************************************)
(* What holds of ExternalNotifications for every set of events and kinds,  *)
(* every queue size and every admissible choice of the times.              *)
(***************************************************************************)
EXTENDS ExternalNotifications, FiniteSetTheorems, TLAPS

Tables == [Events -> {None} \cup Receipt]

FiniteParts ==
    /\ IsFiniteSet(queue)
    /\ IsFiniteSet(draining)
    /\ \A k \in Kinds : IsFiniteSet(links[k])

TypeInv == TypeOK /\ FiniteParts

-----------------------------------------------------------------------------
(* The operators *)

\* An update of the receipts changes statuses only.
LEMMA SetStatusEffect ==
    ASSUME NEW table \in Tables, NEW es, NEW status \in ReceiptStatus
    PROVE  /\ SetStatus(table, es, status) \in Tables
           /\ \A e \in Events :
                /\ SetStatus(table, es, status)[e] = None <=> table[e] = None
                /\ table[e] # None => SetStatus(table, es, status)[e].at = table[e].at
                /\ e \notin es => SetStatus(table, es, status)[e] = table[e]
                /\ e \in es /\ table[e] # None =>
                      SetStatus(table, es, status)[e].status = status
<1> DEFINE new == SetStatus(table, es, status)
<1>1. \A e \in Events :
         new[e] = IF e \in es /\ table[e] # None
                  THEN [table[e] EXCEPT !.status = status] ELSE table[e]
  BY DEF SetStatus
<1>2. \A e \in Events : table[e] # None =>
         /\ [table[e] EXCEPT !.status = status] = [status |-> status, at |-> table[e].at]
         /\ [status |-> status, at |-> table[e].at] \in Receipt
  BY DEF Tables, Receipt
<1>3. \A e \in Events : new[e] \in {None} \cup Receipt
  BY <1>1, <1>2 DEF Tables
<1>4. new \in Tables
  BY <1>3 DEF Tables, SetStatus
<1> QED BY <1>1, <1>2, <1>4, NoneAssumption

\* Pruning forgets old receipts and touches no other.
LEMMA PrunedEffect ==
    ASSUME receipts \in Tables, NEW due \in BOOLEAN
    PROVE  /\ Pruned(due) \in Tables
           /\ \A e \in Events :
                /\ Pruned(due)[e] # None => Pruned(due)[e] = receipts[e]
                /\ Pruned(due)[e] = None /\ receipts[e] # None =>
                      receipts[e].at < now - Retention
  BY DEF Pruned, Tables

\* The claim behind a notice, and the events behind a set of either.
LEMMA ItemTypes ==
    /\ \A n \in Notices : ClaimOf(n) \in Claims
    /\ \A S : S \subseteq Claims \/ S \subseteq Notices => EventsOf(S) \subseteq Events
  BY DEF Claims, Notices, ClaimOf, EventsOf

\* The links of a batch: one place for each notice, after those that wait.
LEMMA LinksForEffect ==
    ASSUME NEW ls, ls \subseteq Links, IsFiniteSet(ls), NEW row \in Nat,
           NEW batch, batch \subseteq Notices, IsFiniteSet(batch)
    PROVE  /\ LinksFor(ls, batch, row) \subseteq Links
           /\ IsFiniteSet(LinksFor(ls, batch, row))
           /\ Cardinality(batch) \in Nat
           /\ \A l \in LinksFor(ls, batch, row) :
                /\ l.at <= Cardinality(ls) + Cardinality(batch)
                /\ l.row = row
                /\ l.event \in EventsOf(batch)
           /\ EventsOf(LinksFor(ls, batch, row)) = EventsOf(batch)
<1> DEFINE place(n) == Cardinality(ls) + Cardinality({m \in batch : m.stamp <= n.stamp})
           link(n) == [event |-> n.event, row |-> row, at |-> place(n)]
           new == LinksFor(ls, batch, row)
           f == [n \in batch |-> link(n)]
<1>1. new = {link(n) : n \in batch}
  BY DEF LinksFor
<1>2. Cardinality(ls) \in Nat /\ Cardinality(batch) \in Nat
  BY FS_CardinalityType
<1>3. ASSUME NEW n \in batch
      PROVE  /\ place(n) \in Nat
             /\ place(n) <= Cardinality(ls) + Cardinality(batch)
  <2> DEFINE before == {m \in batch : m.stamp <= n.stamp}
  <2>1. IsFiniteSet(before) /\ Cardinality(before) <= Cardinality(batch)
    <3>1. before \in SUBSET batch
      OBVIOUS
    <3> QED BY <3>1, FS_Subset
  <2>2. Cardinality(before) \in Nat
    BY <2>1, FS_CardinalityType
  <2> QED BY <1>2, <2>1, <2>2
<1>4. ASSUME NEW n \in batch
      PROVE  link(n) \in Links
  BY <1>3 DEF Links, Notices
<1>5. new \subseteq Links
  BY <1>1, <1>4
<1>6. IsFiniteSet(new)
  <2>1. f \in Surjection(batch, new)
    BY <1>1 DEF Surjection
  <2> QED BY <2>1, FS_Surjection
<1>7. \A n \in batch : link(n).at = place(n) /\ link(n).row = row /\ link(n).event = n.event
  OBVIOUS
<1> HIDE DEF place, link
<1>8. \A l \in new : /\ l.at <= Cardinality(ls) + Cardinality(batch)
                     /\ l.row = row
                     /\ l.event \in EventsOf(batch)
  BY <1>1, <1>3, <1>7 DEF EventsOf
<1>9. EventsOf(new) = EventsOf(batch)
  <2>1. \A n \in batch : \E l \in new : l.event = n.event
    BY <1>1, <1>7
  <2>2. \A l \in new : \E n \in batch : n.event = l.event
    BY <1>1, <1>7
  <2> QED BY <2>1, <2>2 DEF EventsOf
<1> QED BY <1>2, <1>5, <1>6, <1>8, <1>9

\* The queue takes a notice within its bound.  Only the new notice or one that is
\* not important is dropped, and what is dropped is settled or recorded as lost.
LEMMA EnqueueEffect ==
    ASSUME TypeInv, NEW n \in Notices, NEW up \in BOOLEAN, Enqueue(n, up)
    PROVE  /\ queue' \subseteq queue \cup {n}
           /\ IsFiniteSet(queue') /\ Cardinality(queue') <= MaxQueue
           /\ receipts' \in Tables
           /\ \A e \in Events :
                /\ receipts'[e] = None <=> receipts[e] = None
                /\ receipts[e] # None => receipts'[e].at = receipts[e].at
                /\ receipts'[e] # receipts[e] => receipts'[e].status # "delivered"
                /\ (/\ receipts'[e] # None /\ receipts'[e].status \in Open
                    /\ e \notin lost') =>
                      \/ e \in EventsOf(queue')
                      \/ /\ receipts[e].status \in Open
                         /\ e # n.event /\ e \notin EventsOf(queue)
           /\ lost \subseteq lost' /\ lost' \subseteq Events
           /\ \A m \in queue : m \notin queue' => Rank[m.event] < Important
<1> DEFINE queued == SetStatus(receipts, Stored({n.event}, up), "queued")
<1>1. /\ queue \subseteq Notices /\ IsFiniteSet(queue) /\ Cardinality(queue) <= MaxQueue
      /\ lost \subseteq Events /\ receipts \in Tables
      /\ n.event \in Events /\ MaxQueue \in Nat
  BY SetsAssumption DEF TypeInv, TypeOK, FiniteParts, Tables, Notices
<1>2. "queued" \in ReceiptStatus /\ "suppressed" \in ReceiptStatus /\ "queued" \in Open
      /\ "suppressed" \notin Open
  BY DEF ReceiptStatus, Open
<1>3. /\ queued \in Tables
      /\ \A e \in Events :
           /\ queued[e] = None <=> receipts[e] = None
           /\ receipts[e] # None => queued[e].at = receipts[e].at
           /\ ~up \/ e # n.event => queued[e] = receipts[e]
           /\ up /\ e = n.event /\ receipts[e] # None => queued[e].status = "queued"
  BY <1>1, <1>2, SetStatusEffect DEF Stored
<1>4. CASE /\ Cardinality(queue) < MaxQueue
           /\ queue' = queue \cup {n}
           /\ receipts' = queued
           /\ Unrecorded({n.event}, up)
  <2>1. IsFiniteSet(queue') /\ Cardinality(queue') <= MaxQueue
    <3>1. IsFiniteSet(queue \cup {n})
          /\ Cardinality(queue \cup {n}) =
                IF n \in queue THEN Cardinality(queue) ELSE Cardinality(queue) + 1
      BY <1>1, FS_AddElement
    <3>2. Cardinality(queue) \in Nat
      BY <1>1, FS_CardinalityType
    <3> QED BY <1>1, <1>4, <3>1, <3>2
  <2>2. lost \subseteq lost' /\ lost' \subseteq Events /\ n.event \in EventsOf(queue')
        /\ (~up => n.event \in lost')
    BY <1>1, <1>4 DEF Unrecorded, EventsOf
  <2>3. \A e \in Events : e \in EventsOf(queue) => e \in EventsOf(queue')
    BY <1>4 DEF EventsOf
  <2>4. \A e \in Events : receipts'[e] # receipts[e] => receipts'[e].status # "delivered"
    BY <1>3, <1>4
  <2>5. \A e \in Events : e # n.event => receipts'[e] = receipts[e]
    BY <1>3, <1>4
  <2>6. queue' \subseteq queue \cup {n} /\ \A m \in queue : m \in queue'
    BY <1>4
  <2> QED BY <1>3, <1>4, <2>1, <2>2, <2>3, <2>4, <2>5, <2>6
<1>5. CASE \E evicted \in Earliest(Lowest(queue)) :
                 LET refused == \/ Rank[evicted.event] > Rank[n.event]
                                \/ Rank[evicted.event] >= Important
                     loser == IF refused THEN n ELSE evicted
                 IN  /\ queue' = IF refused THEN queue ELSE (queue \ {evicted}) \cup {n}
                     /\ receipts' = SetStatus(queued, Stored({loser.event}, up), "suppressed")
                     /\ Unrecorded({n.event, loser.event}, up)
  <2> PICK evicted \in Earliest(Lowest(queue)) :
                 LET refused == \/ Rank[evicted.event] > Rank[n.event]
                                \/ Rank[evicted.event] >= Important
                     loser == IF refused THEN n ELSE evicted
                 IN  /\ queue' = IF refused THEN queue ELSE (queue \ {evicted}) \cup {n}
                     /\ receipts' = SetStatus(queued, Stored({loser.event}, up), "suppressed")
                     /\ Unrecorded({n.event, loser.event}, up)
    BY <1>5
  <2> DEFINE refused == \/ Rank[evicted.event] > Rank[n.event]
                        \/ Rank[evicted.event] >= Important
             loser == IF refused THEN n ELSE evicted
  <2>1. evicted \in queue /\ evicted \in Notices /\ loser \in Notices
        /\ loser.event \in Events
    BY <1>1 DEF Earliest, Lowest, Notices
  <2>2. IsFiniteSet(queue') /\ Cardinality(queue') <= MaxQueue
    <3>1. IsFiniteSet(queue \ {evicted})
          /\ Cardinality(queue \ {evicted}) = Cardinality(queue) - 1
      BY <1>1, <2>1, FS_RemoveElement
    <3>2. /\ IsFiniteSet((queue \ {evicted}) \cup {n})
          /\ Cardinality((queue \ {evicted}) \cup {n}) =
                IF n \in queue \ {evicted} THEN Cardinality(queue \ {evicted})
                ELSE Cardinality(queue \ {evicted}) + 1
      <4> DEFINE Q == queue \ {evicted}
      <4>1. IsFiniteSet(Q)
        BY <3>1
      <4> HIDE DEF Q
      <4>2. /\ IsFiniteSet(Q \cup {n})
            /\ Cardinality(Q \cup {n}) =
                  IF n \in Q THEN Cardinality(Q) ELSE Cardinality(Q) + 1
        BY <4>1, FS_AddElement
      <4> QED BY <4>2 DEF Q
    <3>3. Cardinality(queue) \in Nat
      BY <1>1, FS_CardinalityType
    <3> QED BY <1>1, <3>1, <3>2, <3>3
  <2>3. /\ receipts' \in Tables
        /\ \A e \in Events :
             /\ receipts'[e] = None <=> queued[e] = None
             /\ queued[e] # None => receipts'[e].at = queued[e].at
             /\ ~up \/ e # loser.event => receipts'[e] = queued[e]
             /\ up /\ e = loser.event /\ queued[e] # None => receipts'[e].status = "suppressed"
    <3> DEFINE es == Stored({loser.event}, up)
    <3>1. receipts' = SetStatus(queued, es, "suppressed")
      OBVIOUS
    <3> HIDE DEF loser, queued
    <3>2. \A e : e \in es <=> up /\ e = loser.event
      BY DEF Stored
    <3>3. queued \in Tables
      BY <1>3
    <3> HIDE DEF es
    <3>4. /\ SetStatus(queued, es, "suppressed") \in Tables
          /\ \A e \in Events :
               /\ SetStatus(queued, es, "suppressed")[e] = None <=> queued[e] = None
               /\ queued[e] # None => SetStatus(queued, es, "suppressed")[e].at = queued[e].at
               /\ e \notin es => SetStatus(queued, es, "suppressed")[e] = queued[e]
               /\ e \in es /\ queued[e] # None =>
                     SetStatus(queued, es, "suppressed")[e].status = "suppressed"
      BY <1>2, <3>3, SetStatusEffect
    <3>5. CASE up
      BY <3>1, <3>2, <3>4, <3>5
    <3>6. CASE ~up
      BY <3>1, <3>2, <3>4, <3>6
    <3> QED BY <3>5, <3>6
  <2>4. lost \subseteq lost' /\ lost' \subseteq Events
        /\ (~up => n.event \in lost' /\ loser.event \in lost')
    BY <1>1, <2>1 DEF Unrecorded
  <2>5. \A e \in Events : receipts'[e] # receipts[e] => receipts'[e].status # "delivered"
    BY ZenonT(40), <1>3, <2>3
  <2>6. ASSUME NEW e \in Events, receipts'[e] # None, receipts'[e].status \in Open, e \notin lost'
        PROVE  \/ e \in EventsOf(queue')
               \/ /\ receipts[e].status \in Open
                  /\ e # n.event /\ e \notin EventsOf(queue)
    <3>1. up => e # loser.event
      BY <1>2, <1>3, <2>3, <2>6
    <3>2. ~up => e # loser.event /\ e # n.event
      BY <2>4, <2>6
    <3>3. e = n.event => e \in EventsOf(queue')
      BY <3>1, <3>2 DEF EventsOf
    <3>4. e # n.event => receipts'[e] = receipts[e]
      BY <1>3, <2>3, <3>1, <3>2
    <3>5. e # n.event /\ e \in EventsOf(queue) => e \in EventsOf(queue')
      BY <3>1, <3>2 DEF EventsOf
    <3> QED BY <2>6, <3>3, <3>4, <3>5
  <2>7. \A m \in queue : m \notin queue' => Rank[m.event] < Important
    BY <1>1, <2>1, SetsAssumption DEF Important, Notices
  <2>8. queue' \subseteq queue \cup {n}
    OBVIOUS
  <2> HIDE DEF loser, refused, queued
  <2> QED BY <1>3, <2>2, <2>3, <2>4, <2>5, <2>6, <2>7, <2>8
<1> QED BY <1>4, <1>5 DEF Enqueue

\* A batch is a part of what the handler drained.
LEMMA BatchEffect ==
    ASSUME TypeInv, NEW first \in Earliest(draining)
    PROVE  /\ first \in draining /\ first \in Notices /\ first \in BatchOf(first)
           /\ KindOf[first.event] \in Kinds
           /\ BatchOf(first) \subseteq draining /\ BatchOf(first) \subseteq Notices
           /\ IsFiniteSet(BatchOf(first))
           /\ \A n \in BatchOf(first) : KindOf[n.event] = KindOf[first.event]
<1>1. draining \subseteq Notices /\ IsFiniteSet(draining)
  BY DEF TypeInv, TypeOK, FiniteParts
<1>2. first \in draining /\ first \in Notices /\ first.event \in Events
  BY <1>1 DEF Earliest, Notices
<1>3. BatchOf(first) \in SUBSET draining
  BY DEF BatchOf
<1>4. IsFiniteSet(BatchOf(first))
  BY <1>1, <1>3, FS_Subset
<1>5. KindOf[first.event] \in Kinds
  BY <1>2, SetsAssumption
<1> QED BY <1>1, <1>2, <1>3, <1>4, <1>5 DEF BatchOf

\* What waits after a result took its links is what waited, moved up.
LEMMA AnsweredLinks ==
    ASSUME NEW all, all \subseteq Links, IsFiniteSet(all), NEW count \in Nat
    PROVE  LET left == {[l EXCEPT !.at = @ - count] : l \in {m \in all : ~(m.at <= count)}}
           IN  /\ left \subseteq Links /\ IsFiniteSet(left)
               /\ \A x \in left : \E l \in all : l.event = x.event /\ ~(l.at <= count)
<1> DEFINE rest == {m \in all : ~(m.at <= count)}
           f == [l \in rest |-> [l EXCEPT !.at = @ - count]]
           left == {[l EXCEPT !.at = @ - count] : l \in rest}
<1>1. IsFiniteSet(rest)
  <2>1. rest \in SUBSET all
    OBVIOUS
  <2> QED BY <2>1, FS_Subset
<1>2. \A l \in rest : /\ [l EXCEPT !.at = @ - count] \in Links
                      /\ [l EXCEPT !.at = @ - count].event = l.event
  BY DEF Links
<1>3. IsFiniteSet(left)
  <2>1. f \in Surjection(rest, left)
    BY DEF Surjection
  <2> HIDE DEF f, rest, left
  <2> QED BY <1>1, <2>1, FS_Surjection
<1> QED BY <1>2, <1>3

-----------------------------------------------------------------------------
(* Type correctness *)

LEMMA InitTypes == Init => TypeInv
<1> SUFFICES ASSUME Init PROVE TypeInv
  OBVIOUS
<1>1. IsFiniteSet({}) /\ Cardinality({}) = 0
  BY FS_EmptySet
<1> QED BY <1>1, SetsAssumption DEF Init, TypeInv, TypeOK, FiniteParts

LEMMA SubmitTypes ==
    ASSUME TypeInv, NEW e \in Events, NEW due \in BOOLEAN, Submit(e, due)
    PROVE  TypeInv'
<1>1. receipts \in Tables
  BY DEF TypeInv, TypeOK, Tables
<1>2. Pruned(due) \in Tables
  BY <1>1, PrunedEffect
<1>3. \A status \in ReceiptStatus : [status |-> status, at |-> now] \in Receipt
  BY DEF TypeInv, TypeOK, Receipt
<1>4. [[status |-> "received", at |-> now] EXCEPT !.status = "suppressed"]
        = [status |-> "suppressed", at |-> now]
  OBVIOUS
<1>5. "received" \in ReceiptStatus /\ "suppressed" \in ReceiptStatus
  BY DEF ReceiptStatus, Open
<1>6. receipts' \in Tables
  BY <1>2, <1>3, <1>4, <1>5 DEF Submit, Tables
<1>7. scheduled' \subseteq Claims /\ issued' \in Nat /\ faults' \in Nat
  BY DEF Submit, TypeInv, TypeOK, Claims, Faulty
<1>8. UNCHANGED <<inbox, queue, draining, lastAt, links, clocks, shown, lost, muddled>>
  BY DEF Submit
<1> QED BY <1>6, <1>7, <1>8 DEF TypeInv, TypeOK, FiniteParts, Tables, clocks

LEMMA FaultyTypes ==
    ASSUME faults \in Nat, NEW fault, Faulty(fault)
    PROVE  faults' \in Nat
  BY DEF Faulty

LEMMA SetStatusTypes ==
    ASSUME receipts \in Tables, NEW es, NEW status \in ReceiptStatus,
           receipts' = SetStatus(receipts, es, status)
    PROVE  /\ receipts' \in Tables
           /\ \A e \in Events :
                /\ receipts'[e] = None <=> receipts[e] = None
                /\ receipts[e] # None => receipts'[e].at = receipts[e].at
                /\ e \notin es => receipts'[e] = receipts[e]
                /\ e \in es /\ receipts[e] # None => receipts'[e].status = status
  BY SetStatusEffect

\* What one callback does: it settles its claim, lets it fall, or passes it on to
\* the queue or to the batch it publishes itself.
LEMMA ProcessEffect ==
    ASSUME TypeInv, Process
    PROVE  \E i \in scheduled :
             /\ i \in Claims /\ i \in Earliest(scheduled)
             /\ scheduled' = scheduled \ {i}
             /\ draining = {}
             /\ receipts' \in Tables /\ faults' \in Nat
             /\ lost \subseteq lost' /\ lost' \subseteq Events
             /\ \A e \in Events :
                  /\ receipts'[e] = None <=> receipts[e] = None
                  /\ receipts[e] # None => receipts'[e].at = receipts[e].at
                  /\ receipts'[e] # receipts[e] => receipts'[e].status # "delivered"
                  /\ (/\ receipts'[e] # None /\ receipts'[e].status \in Open
                      /\ e \notin lost') =>
                        \/ e \in EventsOf(queue') \/ e \in EventsOf(draining')
                        \/ receipts[e].status \in Open /\ e # i.event
                              /\ e \notin EventsOf(queue)
             /\ \/ queue' = queue /\ draining' = {}
                \/ /\ ~TooOld(i.event)
                   /\ \E n \in Notices :
                        /\ ClaimOf(n) = i
                        /\ \/ /\ queue' \subseteq queue \cup {n} /\ draining' = {}
                              /\ IsFiniteSet(queue') /\ Cardinality(queue') <= MaxQueue
                              /\ \A m \in queue : m \notin queue' => Rank[m.event] < Important
                           \/ queue' = queue /\ draining' = {n}
<1>1. PICK i \in Earliest(scheduled) :
           /\ scheduled' = scheduled \ {i}
           /\ \/ \E up \in BOOLEAN : Dismiss(i, up) /\ Faulty(~up)
              \/ \E up, busy \in BOOLEAN, channel \in Channels :
                     Admit(i, channel, busy, up) /\ Faulty(~up)
              \/ Abandon(i) /\ Faulty(TRUE)
  BY DEF Process
<1>2. i \in scheduled /\ i \in Claims /\ i.event \in Events
  BY DEF Earliest, TypeInv, TypeOK, Claims
<1>3. /\ receipts \in Tables /\ lost \subseteq Events /\ faults \in Nat
      /\ now \in Nat /\ Cooldown \in Nat /\ Cooldown \in Int
      /\ lastAt \in [Kinds -> Nat \cup {None}]
      /\ queue \subseteq Notices /\ IsFiniteSet(queue) /\ Cardinality(queue) <= MaxQueue
  BY TimesAssumption DEF TypeInv, TypeOK, FiniteParts, Tables
<1>4. draining = {}
  BY DEF Process, AppFree
<1> DEFINE Settled(e) ==
             /\ receipts'[e] = None <=> receipts[e] = None
             /\ receipts[e] # None => receipts'[e].at = receipts[e].at
             /\ receipts'[e] # receipts[e] => receipts'[e].status # "delivered"
             /\ (/\ receipts'[e] # None /\ receipts'[e].status \in Open
                 /\ e \notin lost') =>
                   \/ e \in EventsOf(queue') \/ e \in EventsOf(draining')
                   \/ receipts[e].status \in Open /\ e # i.event /\ e \notin EventsOf(queue)
           Goal ==
             /\ receipts' \in Tables /\ faults' \in Nat
             /\ lost \subseteq lost' /\ lost' \subseteq Events
             /\ \A e \in Events : Settled(e)
             /\ \/ queue' = queue /\ draining' = {}
                \/ /\ ~TooOld(i.event)
                   /\ \E n \in Notices :
                        /\ ClaimOf(n) = i
                        /\ \/ /\ queue' \subseteq queue \cup {n} /\ draining' = {}
                              /\ IsFiniteSet(queue') /\ Cardinality(queue') <= MaxQueue
                              /\ \A m \in queue : m \notin queue' => Rank[m.event] < Important
                           \/ queue' = queue /\ draining' = {n}
<1>5. /\ {"expired", "suppressed", "silent", "queued"} \subseteq ReceiptStatus
      /\ "queued" \in Open
      /\ \A s \in {"expired", "suppressed", "silent"} : s \notin Open
      /\ \A s \in {"expired", "suppressed", "silent", "queued"} : s # "delivered"
  BY DEF ReceiptStatus, Open
<1>6. ASSUME NEW up \in BOOLEAN, Dismiss(i, up), Faulty(~up)
      PROVE  Goal
  <2>1. PICK status \in {"expired", "suppressed", "silent"} :
           receipts' = SetStatus(receipts, Stored({i.event}, up), status)
    BY <1>6 DEF Dismiss
  <2>2. /\ Unrecorded({i.event}, up) /\ queue' = queue /\ draining' = {}
        /\ faults' \in Nat
    BY <1>3, <1>4, <1>6, FaultyTypes DEF Dismiss
  <2> DEFINE es == Stored({i.event}, up)
  <2>3. up => i.event \in es
    BY DEF Stored
  <2>4. \A e \in Events : e # i.event => e \notin es
    BY DEF Stored
  <2>5. ~up => i.event \in lost'
    BY <2>2 DEF Unrecorded
  <2>6. lost \subseteq lost' /\ lost' \subseteq Events
    BY <1>2, <1>3, <2>2 DEF Unrecorded
  <2> HIDE DEF es
  <2>7. receipts' = SetStatus(receipts, es, status)
    BY <2>1 DEF es
  <2>8. /\ receipts' \in Tables
        /\ \A e \in Events :
             /\ receipts'[e] = None <=> receipts[e] = None
             /\ receipts[e] # None => receipts'[e].at = receipts[e].at
             /\ e \notin es => receipts'[e] = receipts[e]
             /\ e \in es /\ receipts[e] # None => receipts'[e].status = status
    <3>1. status \in ReceiptStatus
      BY <1>5, <2>1
    <3> QED BY <1>3, <2>7, <3>1, SetStatusTypes
  <2>9. i.event \in es \/ i.event \in lost'
    BY <2>3, <2>5
  <2>10. ASSUME NEW e \in Events PROVE Settled(e)
    <3>1. receipts'[e] # receipts[e] => receipts'[e].status # "delivered"
      BY <1>5, <2>1, <2>8
    <3>2. ASSUME receipts'[e] # None, receipts'[e].status \in Open, e \notin lost'
          PROVE  receipts[e].status \in Open /\ e # i.event
      <4>1. e \notin es
        BY <1>5, <2>1, <2>8, <3>2
      <4> QED BY <2>8, <2>9, <3>2, <4>1
    <3>3. e \in EventsOf(queue) => e \in EventsOf(queue')
      BY <2>2
    <3> QED BY <2>8, <3>1, <3>2, <3>3
  <2> HIDE DEF Settled
  <2> QED BY <2>2, <2>6, <2>8, <2>10
<1>7. ASSUME NEW up \in BOOLEAN, NEW busy \in BOOLEAN, NEW channel \in Channels,
             Admit(i, channel, busy, up), Faulty(~up)
      PROVE  Goal
  <2> DEFINE n == [event |-> i.event, stamp |-> i.stamp, gen |-> i.gen, at |-> i.at,
                   channel |-> channel, eligible |-> EligibleAt(KindOf[i.event])]
  <2>1. n \in Notices /\ ClaimOf(n) = i /\ n.event = i.event
    <3>1. EligibleAt(KindOf[i.event]) \in Nat
      BY <1>2, <1>3, SetsAssumption, NoneAssumption DEF EligibleAt
    <3> QED BY <1>2, <3>1 DEF Notices, Claims, ClaimOf
  <2>2. ~TooOld(i.event) /\ faults' \in Nat
    BY <1>3, <1>7, FaultyTypes DEF Admit
  <2>3. \/ Enqueue(n, up) /\ UNCHANGED draining
        \/ /\ draining' = {n}
           /\ receipts' = SetStatus(receipts, Stored({i.event}, up), "queued")
           /\ Unrecorded({i.event}, up)
           /\ UNCHANGED queue
    BY <1>7 DEF Admit
  <2> HIDE DEF n
  <2>4. CASE Enqueue(n, up) /\ UNCHANGED draining
    <3>1. /\ queue' \subseteq queue \cup {n}
          /\ IsFiniteSet(queue') /\ Cardinality(queue') <= MaxQueue
          /\ receipts' \in Tables
          /\ \A e \in Events :
               /\ receipts'[e] = None <=> receipts[e] = None
               /\ receipts[e] # None => receipts'[e].at = receipts[e].at
               /\ receipts'[e] # receipts[e] => receipts'[e].status # "delivered"
               /\ (/\ receipts'[e] # None /\ receipts'[e].status \in Open
                   /\ e \notin lost') =>
                     \/ e \in EventsOf(queue')
                     \/ /\ receipts[e].status \in Open
                        /\ e # n.event /\ e \notin EventsOf(queue)
          /\ lost \subseteq lost' /\ lost' \subseteq Events
          /\ \A m \in queue : m \notin queue' => Rank[m.event] < Important
      BY <2>1, <2>4, EnqueueEffect
    <3>2. \A e \in Events : Settled(e)
      BY <2>1, <3>1
    <3>3. draining' = {}
      BY <1>4, <2>4
    <3> HIDE DEF Settled
    <3> QED BY <2>1, <2>2, <3>1, <3>2, <3>3
  <2>5. CASE /\ draining' = {n}
             /\ receipts' = SetStatus(receipts, Stored({i.event}, up), "queued")
             /\ Unrecorded({i.event}, up)
             /\ UNCHANGED queue
    <3> DEFINE es == Stored({i.event}, up)
    <3>1. \A e \in Events : e # i.event => e \notin es
      BY DEF Stored
    <3>2. lost \subseteq lost' /\ lost' \subseteq Events
      BY <1>2, <1>3, <2>5 DEF Unrecorded
    <3>3. i.event \in EventsOf(draining')
      BY <2>1, <2>5 DEF EventsOf
    <3> HIDE DEF es
    <3>4. receipts' = SetStatus(receipts, es, "queued")
      BY <2>5 DEF es
    <3>5. /\ receipts' \in Tables
          /\ \A e \in Events :
               /\ receipts'[e] = None <=> receipts[e] = None
               /\ receipts[e] # None => receipts'[e].at = receipts[e].at
               /\ e \notin es => receipts'[e] = receipts[e]
               /\ e \in es /\ receipts[e] # None => receipts'[e].status = "queued"
      BY <1>3, <1>5, <3>4, SetStatusTypes
    <3>6. \A e \in Events : receipts'[e] # receipts[e] => receipts'[e].status # "delivered"
      BY <1>5, <3>5
    <3>7. \A e \in Events : e # i.event => receipts'[e] = receipts[e]
      BY <3>1, <3>5
    <3>8. \A e \in Events : e \in EventsOf(queue) => e \in EventsOf(queue')
      BY <2>5
    <3>9. \A e \in Events : Settled(e)
      BY <3>3, <3>5, <3>6, <3>7, <3>8
    <3> HIDE DEF Settled
    <3> QED BY <2>1, <2>2, <2>5, <3>2, <3>5, <3>9
  <2> QED BY <2>3, <2>4, <2>5
<1>8. ASSUME Abandon(i), Faulty(TRUE)
      PROVE  Goal
  <2>1. /\ lost' = lost \cup {i.event} /\ receipts' = receipts /\ queue' = queue
        /\ draining' = {} /\ faults' \in Nat
    BY <1>3, <1>4, <1>8, FaultyTypes DEF Abandon
  <2>2. \A e \in Events : Settled(e)
    BY <1>3, <2>1
  <2>3. receipts' \in Tables /\ lost \subseteq lost' /\ lost' \subseteq Events
    BY <1>2, <1>3, <2>1
  <2> HIDE DEF Settled
  <2> QED BY <2>1, <2>2, <2>3
<1>9. Goal
  BY <1>1, <1>6, <1>7, <1>8
<1> QED BY <1>1, <1>2, <1>4, <1>9

\* What one flush does to the queue and the receipts.
LEMMA FlushEffect ==
    ASSUME TypeInv, NEW busy \in BOOLEAN, NEW up \in BOOLEAN, Flush(busy, up)
    PROVE  /\ queue' \subseteq queue /\ draining' \subseteq queue /\ draining = {}
           /\ queue' \cap draining' = {}
           /\ IsFiniteSet(queue') /\ IsFiniteSet(draining') /\ Cardinality(queue') <= MaxQueue
           /\ \A n \in queue : n \in queue' \/ n \in draining' \/ TooOld(n.event)
           /\ \A n \in draining' : ~TooOld(n.event)
           /\ receipts' \in Tables /\ faults' \in Nat
           /\ lost \subseteq lost' /\ lost' \subseteq Events
           /\ \A e \in Events :
                /\ receipts'[e] = None <=> receipts[e] = None
                /\ receipts[e] # None => receipts'[e].at = receipts[e].at
                /\ receipts'[e] # receipts[e] => receipts'[e].status # "delivered"
                /\ (/\ receipts'[e] # None /\ receipts'[e].status \in Open
                    /\ e \notin lost' /\ e \in EventsOf(queue)) =>
                         e \in EventsOf(queue') \/ e \in EventsOf(draining')
                /\ receipts'[e] # None /\ receipts'[e].status \in Open =>
                         receipts[e].status \in Open
<1> DEFINE expired == {n \in queue : TooOld(n.event)}
           ready == IF busy THEN {} ELSE {n \in queue \ expired : n.eligible <= now}
           es == Stored(EventsOf(expired), up)
<1>1. /\ draining = {} /\ Faulty(~up)
      /\ receipts' = SetStatus(receipts, es, "expired")
      /\ queue' = queue \ (expired \cup ready)
      /\ draining' = ready
      /\ Unrecorded(EventsOf(expired), up)
  BY DEF Flush, AppFree
<1>2. /\ queue \subseteq Notices /\ IsFiniteSet(queue) /\ Cardinality(queue) <= MaxQueue
      /\ lost \subseteq Events /\ receipts \in Tables /\ faults \in Nat /\ MaxQueue \in Nat
  BY SetsAssumption DEF TypeInv, TypeOK, FiniteParts, Tables
<1>3. queue' \in SUBSET queue /\ draining' \in SUBSET queue /\ queue' \cap draining' = {}
  BY <1>1
<1>4. /\ IsFiniteSet(queue') /\ IsFiniteSet(draining')
      /\ Cardinality(queue') <= Cardinality(queue)
      /\ Cardinality(queue') \in Nat /\ Cardinality(queue) \in Nat
  BY <1>2, <1>3, FS_Subset, FS_CardinalityType
<1>5. faults' \in Nat
  BY <1>1, <1>2, FaultyTypes
<1>6. EventsOf(expired) \subseteq Events
  BY <1>2, ItemTypes
<1>7. lost \subseteq lost' /\ lost' \subseteq Events /\ (~up => EventsOf(expired) \subseteq lost')
  BY <1>1, <1>2, <1>6 DEF Unrecorded
<1>8. "expired" \in ReceiptStatus /\ "expired" \notin Open /\ "expired" # "delivered"
  BY DEF ReceiptStatus, Open
<1>9. \A e \in EventsOf(expired) : e \in es \/ e \in lost'
  BY <1>7 DEF Stored
<1>10. /\ \A n \in queue : n \in queue' \/ n \in draining' \/ n \in expired
       /\ \A n \in expired : TooOld(n.event)
       /\ \A n \in draining' : ~TooOld(n.event)
  BY <1>1
<1> HIDE DEF es
<1>11. /\ receipts' \in Tables
       /\ \A e \in Events :
            /\ receipts'[e] = None <=> receipts[e] = None
            /\ receipts[e] # None => receipts'[e].at = receipts[e].at
            /\ e \notin es => receipts'[e] = receipts[e]
            /\ e \in es /\ receipts[e] # None => receipts'[e].status = "expired"
  BY <1>1, <1>2, <1>8, SetStatusTypes
<1> HIDE DEF expired, ready
<1>12. \A n \in expired : n.event \in EventsOf(expired)
  BY DEF EventsOf
<1>13. ASSUME NEW e \in Events, receipts'[e] # None, receipts'[e].status \in Open
       PROVE  /\ receipts[e].status \in Open
              /\ e \notin lost' /\ e \in EventsOf(queue) =>
                     e \in EventsOf(queue') \/ e \in EventsOf(draining')
  <2>1. e \notin es
    BY <1>8, <1>11, <1>13
  <2>2. receipts'[e] = receipts[e]
    BY <1>11, <2>1
  <2>3. ASSUME e \notin lost', NEW n \in queue, n.event = e
        PROVE  e \in EventsOf(queue') \/ e \in EventsOf(draining')
    <3>1. n \notin expired
      BY <1>9, <1>12, <2>1, <2>3
    <3>2. n \in queue' \/ n \in draining'
      BY <1>10, <3>1
    <3> QED BY <2>3, <3>2 DEF EventsOf
  <2> QED BY <1>13, <2>2, <2>3 DEF EventsOf
<1>14. \A e \in Events : receipts'[e] # receipts[e] => receipts'[e].status # "delivered"
  BY <1>8, <1>11
<1>15. Cardinality(queue') <= MaxQueue
  BY <1>2, <1>4
<1>16. \A n \in queue : n \in queue' \/ n \in draining' \/ TooOld(n.event)
  BY <1>10
<1>17. queue' \subseteq queue /\ draining' \subseteq queue /\ draining = {}
  BY <1>1, <1>3
<1> HIDE DEF TooOld
<1> QED BY <1>3, <1>4, <1>5, <1>7, <1>10, <1>11, <1>13, <1>14, <1>15, <1>16, <1>17

LEMMA ProcessTypes ==
    ASSUME TypeInv, Process
    PROVE  TypeInv'
<1>1. UNCHANGED <<inbox, lastAt, links, now, clears, issued, shown, muddled>>
  BY DEF Process, clocks
<1>2. /\ scheduled' \subseteq scheduled
      /\ receipts' \in Tables /\ faults' \in Nat /\ lost' \subseteq Events
  BY ProcessEffect
<1>3. \/ queue' = queue /\ draining' = {}
      \/ \E n \in Notices :
            \/ /\ queue' \subseteq queue \cup {n} /\ draining' = {}
               /\ IsFiniteSet(queue') /\ Cardinality(queue') <= MaxQueue
            \/ queue' = queue /\ draining' = {n}
  BY ProcessEffect
<1>4. IsFiniteSet({}) /\ \A n : IsFiniteSet({n})
  BY FS_EmptySet, FS_Singleton
<1>5. queue' \subseteq Notices /\ draining' \subseteq Notices
      /\ IsFiniteSet(queue') /\ IsFiniteSet(draining') /\ Cardinality(queue') <= MaxQueue
  BY <1>3, <1>4 DEF TypeInv, TypeOK, FiniteParts
<1> QED BY <1>1, <1>2, <1>5 DEF TypeInv, TypeOK, FiniteParts, Tables

LEMMA FlushTypes ==
    ASSUME TypeInv, NEW busy \in BOOLEAN, NEW up \in BOOLEAN, Flush(busy, up)
    PROVE  TypeInv'
<1>1. UNCHANGED <<inbox, scheduled, lastAt, links, now, clears, issued, shown, muddled>>
  BY DEF Flush, clocks
<1>2. /\ queue' \subseteq queue /\ draining' \subseteq queue
      /\ IsFiniteSet(queue') /\ IsFiniteSet(draining') /\ Cardinality(queue') <= MaxQueue
      /\ receipts' \in Tables /\ faults' \in Nat /\ lost' \subseteq Events
  BY FlushEffect
<1> QED BY <1>1, <1>2 DEF TypeInv, TypeOK, FiniteParts, Tables

\* What one batch leaves behind, whoever takes its result.
LEMMA PublishEffect ==
    ASSUME TypeInv, NEW first \in Earliest(draining), NEW presented \in BOOLEAN,
           NEW heard \in BOOLEAN, NEW raised \in BOOLEAN, NEW up \in BOOLEAN,
           Publish(first, presented, heard, raised, up)
    PROVE  /\ receipts' \in Tables /\ inbox' \subseteq Rows
           /\ links' \in [Kinds -> SUBSET Links]
           /\ \A k \in Kinds : IsFiniteSet(links'[k])
           /\ draining' \subseteq draining /\ faults' \in Nat
           /\ lastAt' \in [Kinds -> Nat \cup {None}]
           /\ shown' \subseteq Claims
           /\ lost \subseteq lost' /\ lost' \subseteq Events /\ muddled' \subseteq Kinds
           /\ \A e \in Events :
                /\ receipts'[e] = None <=> receipts[e] = None
                /\ receipts[e] # None => receipts'[e].at = receipts[e].at
                /\ receipts'[e] # receipts[e] => receipts'[e].status \notin Open
<1> DEFINE batch == BatchOf(first)
           kind == KindOf[first.event]
           rows == AddRow(inbox, first.stamp, EventsOf(batch), up)
           row == IF up THEN first.stamp ELSE 0
           new == LinksFor(links[kind], batch, row)
           all == links[kind] \cup new
           count == Cardinality(batch)
<1>1. /\ first \in draining /\ first \in Notices /\ kind \in Kinds
      /\ batch \subseteq draining /\ batch \subseteq Notices /\ IsFiniteSet(batch)
  BY BatchEffect
<1>2. /\ receipts \in Tables /\ inbox \subseteq Rows /\ draining \subseteq Notices
      /\ links \in [Kinds -> SUBSET Links] /\ \A k \in Kinds : IsFiniteSet(links[k])
      /\ faults \in Nat /\ now \in Nat /\ lastAt \in [Kinds -> Nat \cup {None}]
      /\ shown \subseteq Claims /\ lost \subseteq Events /\ muddled \subseteq Kinds
  BY DEF TypeInv, TypeOK, FiniteParts, Tables
<1>3. /\ Faulty(raised \/ ~up)
      /\ lastAt' = [lastAt EXCEPT ![kind] = now]
      /\ shown' = IF presented THEN shown \cup {ClaimOf(n) : n \in batch} ELSE shown
      /\ \/ heard /\ Answered(kind, all, rows, count, presented, up)
         \/ ~heard /\ Unanswered(kind, all, rows)
      /\ muddled' = IF heard THEN muddled ELSE muddled \cup {kind}
      /\ draining' = IF raised THEN {} ELSE draining \ batch
      /\ lost' = lost \cup (IF raised THEN EventsOf(draining \ batch) ELSE {})
                      \cup (IF up THEN {} ELSE EventsOf(batch))
  BY DEF Publish
<1>4. EventsOf(batch) \subseteq Events /\ EventsOf(draining \ batch) \subseteq Events
  BY <1>1, <1>2, ItemTypes
<1>5. row \in Nat /\ first.stamp \in Nat
  BY <1>1 DEF Notices
<1>6. rows \subseteq Rows
  BY <1>2, <1>4, <1>5 DEF AddRow, Rows, RowStatus
<1> HIDE DEF rows, row, batch, kind
<1>7. new \subseteq Links /\ IsFiniteSet(new) /\ count \in Nat
  <2>1. links[kind] \subseteq Links /\ IsFiniteSet(links[kind])
    BY <1>1, <1>2
  <2> QED BY <1>1, <1>5, <2>1, LinksForEffect
<1> HIDE DEF new, count
<1>8. all \subseteq Links /\ IsFiniteSet(all)
  <2>1. links[kind] \subseteq Links /\ IsFiniteSet(links[kind])
    BY <1>1, <1>2
  <2> QED BY <1>7, <2>1, FS_Union
<1> HIDE DEF all
<1>9. /\ receipts' \in Tables /\ inbox' \subseteq Rows
      /\ links' \in [Kinds -> SUBSET Links]
      /\ \A k \in Kinds : IsFiniteSet(links'[k])
      /\ \A e \in Events :
           /\ receipts'[e] = None <=> receipts[e] = None
           /\ receipts[e] # None => receipts'[e].at = receipts[e].at
           /\ receipts'[e] # receipts[e] => receipts'[e].status \notin Open
  <2>1. CASE Unanswered(kind, all, rows)
    BY <1>1, <1>2, <1>6, <1>8, <2>1 DEF Unanswered
  <2>2. CASE Answered(kind, all, rows, count, presented, up)
    <3> DEFINE popped == {l \in all : l.at <= count}
               left == {[l EXCEPT !.at = @ - count] : l \in {m \in all : ~(m.at <= count)}}
               status == IF presented THEN "delivered" ELSE "suppressed"
               es == Stored(EventsOf(popped), up)
               ids == {l.row : l \in popped} \ {0}
    <3>1. left \subseteq Links /\ IsFiniteSet(left)
      BY <1>7, <1>8, AnsweredLinks
    <3>2. {m \in all : ~(m.at <= count)} = all \ popped
      OBVIOUS
    <3>3. /\ links' = [links EXCEPT ![kind] = left]
          /\ receipts' = SetStatus(receipts, es, status)
          /\ inbox' = SetRows(rows, ids, status, up)
      BY <2>2, <3>2 DEF Answered
    <3>4. status \in ReceiptStatus /\ status \in RowStatus /\ status \notin Open
      BY DEF ReceiptStatus, RowStatus, Open
    <3> HIDE DEF left, es, ids, status
    <3>5. /\ receipts' \in Tables
          /\ \A e \in Events :
               /\ receipts'[e] = None <=> receipts[e] = None
               /\ receipts[e] # None => receipts'[e].at = receipts[e].at
               /\ e \notin es => receipts'[e] = receipts[e]
               /\ e \in es /\ receipts[e] # None => receipts'[e].status = status
      BY <1>2, <3>3, <3>4, SetStatusTypes
    <3>6. \A e \in Events : receipts'[e] # receipts[e] => receipts'[e].status \notin Open
      <4> SUFFICES ASSUME NEW e \in Events, receipts'[e] # receipts[e]
                   PROVE  receipts'[e].status \notin Open
        OBVIOUS
      <4>1. e \in es /\ (receipts[e] # None \/ receipts'[e] # None)
        BY <3>5
      <4> QED BY <3>4, <3>5, <4>1
    <3>7. inbox' \subseteq Rows
      BY <1>6, <3>3, <3>4 DEF SetRows, Rows
    <3>8. links' \in [Kinds -> SUBSET Links] /\ \A k \in Kinds : IsFiniteSet(links'[k])
      BY <1>2, <3>1, <3>3
    <3> QED BY <3>5, <3>6, <3>7, <3>8
  <2> QED BY <1>3, <2>1, <2>2
<1>10. faults' \in Nat
  BY <1>2, <1>3, FaultyTypes
<1>11. lastAt' \in [Kinds -> Nat \cup {None}]
  BY <1>2, <1>3
<1>12. shown' \subseteq Claims
  BY <1>1, <1>2, <1>3, ItemTypes
<1>13. lost \subseteq lost' /\ lost' \subseteq Events /\ muddled' \subseteq Kinds
       /\ draining' \subseteq draining
  BY <1>1, <1>2, <1>3, <1>4
<1> QED BY <1>9, <1>10, <1>11, <1>12, <1>13

LEMMA PublishTypes ==
    ASSUME TypeInv, NEW first \in Earliest(draining), NEW presented \in BOOLEAN,
           NEW heard \in BOOLEAN, NEW raised \in BOOLEAN, NEW up \in BOOLEAN,
           Publish(first, presented, heard, raised, up)
    PROVE  TypeInv'
<1>1. UNCHANGED <<scheduled, queue, now, clears, issued>>
  BY DEF Publish, clocks
<1>2. draining \subseteq Notices /\ IsFiniteSet(draining)
  BY DEF TypeInv, TypeOK, FiniteParts
<1>3. /\ receipts' \in Tables /\ inbox' \subseteq Rows
      /\ links' \in [Kinds -> SUBSET Links]
      /\ \A k \in Kinds : IsFiniteSet(links'[k])
      /\ draining' \subseteq draining /\ faults' \in Nat
      /\ lastAt' \in [Kinds -> Nat \cup {None}]
      /\ shown' \subseteq Claims
      /\ lost' \subseteq Events /\ muddled' \subseteq Kinds
  BY PublishEffect
<1>4. draining' \subseteq Notices /\ IsFiniteSet(draining')
  <2>1. draining' \in SUBSET draining
    BY <1>3
  <2> QED BY <1>2, <2>1, FS_Subset
<1> QED BY <1>1, <1>3, <1>4 DEF TypeInv, TypeOK, FiniteParts, Tables

LEMMA CrashTypes ==
    ASSUME TypeInv, Crash
    PROVE  TypeInv'
<1>1. /\ scheduled' = {} /\ queue' = {} /\ draining' = {}
      /\ lastAt' = [k \in Kinds |-> None] /\ links' = [k \in Kinds |-> {}] /\ muddled' = {}
      /\ UNCHANGED <<receipts, inbox, now, clears, issued, shown>>
  BY DEF Crash, tables, clocks
<1>2. OnTheirWay \subseteq Events
  BY ItemTypes DEF TypeInv, TypeOK, OnTheirWay
<1>3. lost' \subseteq Events /\ faults' \in Nat
  BY <1>2, FaultyTypes DEF Crash, TypeInv, TypeOK
<1>4. IsFiniteSet({}) /\ Cardinality({}) = 0 /\ MaxQueue \in Nat
  BY FS_EmptySet, SetsAssumption
<1> QED BY <1>1, <1>3, <1>4 DEF TypeInv, TypeOK, FiniteParts

LEMMA NextTypes == TypeInv /\ [Next]_vars => TypeInv'
<1> SUFFICES ASSUME TypeInv, [Next]_vars PROVE TypeInv'
  OBVIOUS
<1>1. CASE \E e \in Events, due \in BOOLEAN : Submit(e, due)
  BY <1>1, SubmitTypes
<1>2. CASE Process
  BY <1>2, ProcessTypes
<1>3. CASE \E busy, up \in BOOLEAN : Flush(busy, up)
  BY <1>3, FlushTypes
<1>4. CASE \E first \in Earliest(draining), presented, heard, raised, up \in BOOLEAN :
              Publish(first, presented, heard, raised, up)
  BY <1>4, PublishTypes
<1>5. CASE ClearReceipts
  BY <1>5 DEF ClearReceipts, TypeInv, TypeOK, FiniteParts
<1>6. CASE Crash
  BY <1>6, CrashTypes
<1>7. CASE Tick
  BY <1>7 DEF Tick, tables, TypeInv, TypeOK, FiniteParts
<1>8. CASE UNCHANGED vars
  BY <1>8 DEF vars, TypeInv, TypeOK, FiniteParts
<1> QED BY <1>1, <1>2, <1>3, <1>4, <1>5, <1>6, <1>7, <1>8 DEF Next

LEMMA AlwaysTypes == Spec => []TypeInv
  BY InitTypes, NextTypes, PTL DEF Spec

\* Every variable keeps its type, and the pending queue its bound, for every set
\* of events and every queue size (PendingNotificationQueue.enqueue).
THEOREM TypesHold == Spec => []TypeOK
<1>1. TypeInv => TypeOK
  BY DEF TypeInv
<1> QED BY <1>1, AlwaysTypes, PTL

-----------------------------------------------------------------------------
(* The queue keeps what is important *)

LEMMA ImportantStep ==
    ASSUME TypeInv, [Next]_vars, NEW n \in queue, Rank[n.event] >= Important, n \notin queue'
    PROVE  n \in draining' \/ TooOld(n.event) \/ queue' = {}
<1>0. Rank[n.event] \in Int /\ Important \in Int
  BY SetsAssumption DEF TypeInv, TypeOK, Notices, Important
<1>1. CASE \E e \in Events, due \in BOOLEAN : Submit(e, due)
  BY <1>1 DEF Submit
<1>2. CASE Process
  <2>1. queue' = queue \/ \A m \in queue : m \notin queue' => Rank[m.event] < Important
    BY <1>2, ProcessEffect
  <2> QED BY <1>0, <2>1
<1>3. CASE \E busy, up \in BOOLEAN : Flush(busy, up)
  BY <1>3, FlushEffect
<1>4. CASE \E first \in Earliest(draining), presented, heard, raised, up \in BOOLEAN :
              Publish(first, presented, heard, raised, up)
  BY <1>4 DEF Publish
<1>5. CASE ClearReceipts
  BY <1>5 DEF ClearReceipts
<1>6. CASE Crash
  BY <1>6 DEF Crash
<1>7. CASE Tick
  BY <1>7 DEF Tick
<1>8. CASE UNCHANGED vars
  BY <1>8 DEF vars
<1> QED BY <1>1, <1>2, <1>3, <1>4, <1>5, <1>6, <1>7, <1>8 DEF Next

\* However full the queue gets, an important or critical notice leaves it only to
\* be published, by expiring, or with the process: enqueue drops others.
THEOREM ImportantIsKept == Spec => ImportantKept
<1>1. TypeInv /\ [Next]_vars =>
         [\A n \in queue : Rank[n.event] >= Important /\ n \notin queue' =>
             n \in draining' \/ TooOld(n.event) \/ queue' = {}]_vars
  BY ImportantStep
<1> QED BY <1>1, AlwaysTypes, PTL DEF Spec, ImportantKept

-----------------------------------------------------------------------------
(* Announced once *)

\* Two claims of one event and one table, neither of which is excused.
Same(x, y) == /\ x.event = y.event /\ x.gen = y.gen
              /\ ~FarAhead(x) /\ ~FarAhead(y)

\* A claim and the notice it has become.
Like(x, y) == x.event = y.event /\ x.gen = y.gen /\ x.at = y.at

Pending == scheduled \cup queue
Spoken == draining \cup shown

\* What carries a claim of the present table has its receipt, which is no older than
\* the claim, or is too old.
Covered(x) ==
    /\ x.gen <= clears
    /\ x.gen = clears /\ ~FarAhead(x) =>
          \/ receipts[x.event] # None /\ x.at <= receipts[x.event].at
          \/ TooOld(x.event)
CoveredInv == \A x \in Pending \cup Spoken : Covered(x)

\* Of two claims of one event only one can still be shown: the other is too old.
ApartInv ==
    /\ \A x \in Pending, y \in Spoken : Same(x, y) => TooOld(x.event)
    /\ \A x \in scheduled, y \in queue : Same(x, y) => TooOld(x.event)
    /\ \A x, y \in scheduled : Same(x, y) /\ x # y => TooOld(x.event)
    /\ \A x, y \in queue : Same(x, y) /\ x # y => TooOld(x.event)
    /\ \A x, y \in draining : Same(x, y) => x = y

OnceInv == CoveredInv /\ ApartInv /\ AnnouncedOnce

LEMMA InitOnce == Init => OnceInv
  BY DEF Init, OnceInv, CoveredInv, ApartInv, AnnouncedOnce, Pending, Spoken

LEMMA LikeSame ==
    ASSUME NEW x, NEW y, Like(x, y)
    PROVE  /\ FarAhead(x) <=> FarAhead(y)
           /\ \A z : /\ Same(x, z) <=> Same(y, z)
                     /\ Same(z, x) <=> Same(z, y)
  BY DEF Like, Same, FarAhead

\* The types the claims of one step need.
LEMMA ItemEvents ==
    ASSUME TypeInv
    PROVE  /\ \A x \in Pending \cup Spoken : x.event \in Events /\ x.gen \in Nat /\ x.at \in Nat
           /\ clears \in Nat /\ now \in Nat /\ receipts \in Tables
  BY DEF TypeInv, TypeOK, Pending, Spoken, Claims, Notices, Tables

\* A claim of the present table whose receipt is gone, or about to be pruned, is of
\* an event too old to be announced, unless that was dated far ahead.
LEMMA PrunedIsOld ==
    ASSUME TypeInv, NEW x \in Pending \cup Spoken, Covered(x), x.gen = clears,
           ~FarAhead(x), NEW due \in BOOLEAN, Pruned(due)[x.event] = None
    PROVE  TooOld(x.event)
<1>1. /\ x.event \in Events /\ x.at \in Nat /\ now \in Nat /\ receipts \in Tables
      /\ Occurred[x.event] \in Nat
  BY ItemEvents, SetsAssumption
<1>2. CASE receipts[x.event] # None /\ x.at <= receipts[x.event].at
  <2>1. receipts[x.event].at < now - Retention
    BY <1>1, <1>2, PrunedEffect
  <2>2. receipts[x.event].at \in Nat
    BY <1>1, <1>2 DEF Tables, Receipt
  <2>3. Occurred[x.event] - x.at <= Retention - Expiry
    BY <1>1, TimesAssumption DEF FarAhead
  <2> QED BY <1>1, <1>2, <2>1, <2>2, <2>3, TimesAssumption DEF TooOld
<1> QED BY <1>2 DEF Covered

LEMMA SubmitOnce ==
    ASSUME TypeInv, OnceInv, NEW e \in Events, NEW due \in BOOLEAN, Submit(e, due)
    PROVE  OnceInv'
<1> DEFINE table == Pruned(due)
           c == [event |-> e, stamp |-> issued + 1, gen |-> clears, at |-> now]
<1>1. /\ \A x \in Pending \cup Spoken : x.event \in Events /\ x.gen \in Nat /\ x.at \in Nat
      /\ clears \in Nat /\ now \in Nat /\ receipts \in Tables
  BY ItemEvents
<1>2. UNCHANGED <<queue, draining, shown, now, clears>>
  BY DEF Submit, clocks
<1>3. table \in Tables /\ \A f \in Events : table[f] # None => table[f] = receipts[f]
  BY <1>1, PrunedEffect
<1>4. \/ receipts' = table /\ scheduled' = scheduled
      \/ /\ table[e] = None
         /\ \E r \in Receipt : r.at = now /\ receipts' = [table EXCEPT ![e] = r]
         /\ scheduled' = scheduled \/ scheduled' = scheduled \cup {c}
  <2>1. \A status \in ReceiptStatus :
           LET r == [status |-> status, at |-> now] IN r \in Receipt /\ r.at = now
    BY <1>1 DEF Receipt
  <2>2. [[status |-> "received", at |-> now] EXCEPT !.status = "suppressed"]
          = [status |-> "suppressed", at |-> now]
    OBVIOUS
  <2>3. "received" \in ReceiptStatus /\ "suppressed" \in ReceiptStatus
    BY DEF ReceiptStatus, Open
  <2> HIDE DEF table
  <2>4. \/ receipts' = table /\ scheduled' = scheduled
        \/ /\ table[e] = None
           /\ receipts' = [table EXCEPT ![e] = [status |-> "received", at |-> now]]
           /\ scheduled' = scheduled \cup {c}
        \/ /\ table[e] = None
           /\ receipts' = [table EXCEPT ![e] = [status |-> "suppressed", at |-> now]]
           /\ scheduled' = scheduled
    BY <2>2 DEF Submit, table
  <2> HIDE DEF c
  <2> QED BY <2>1, <2>3, <2>4
<1>5. \A f \in Events : TooOld(f)' <=> TooOld(f)
  BY <1>2 DEF TooOld
<1>6. \A x \in Pending \cup Spoken :
         x.gen = clears /\ ~FarAhead(x) /\ table[x.event] = None => TooOld(x.event)
  BY PrunedIsOld DEF OnceInv, CoveredInv
<1> HIDE DEF table, TooOld
\* A receipt stays, or it was pruned or not there.
<1>7. /\ \A f \in Events : receipts'[f] = receipts[f] \/ table[f] = None
      /\ scheduled' # scheduled =>
            table[e] = None /\ receipts'[e] # None /\ receipts'[e].at = now
  <2>1. CASE receipts' = table /\ scheduled' = scheduled
    BY <1>3, <2>1
  <2>2. CASE table[e] = None /\ \E r \in Receipt : r.at = now /\ receipts' = [table EXCEPT ![e] = r]
    <3> PICK r \in Receipt : r.at = now /\ receipts' = [table EXCEPT ![e] = r]
      BY <2>2
    <3>1. /\ receipts'[e] = r /\ r # None
          /\ \A f \in Events : f # e => receipts'[f] = table[f]
      BY <1>3, NoneAssumption DEF Tables
    <3> QED BY <1>3, <2>2, <3>1
  <2> QED BY <1>4, <2>1, <2>2
<1>8. scheduled' \subseteq scheduled \cup {c} /\ c.event = e /\ c.gen = clears /\ c.at = now
  BY <1>4
<1>10. scheduled' # scheduled => \A y \in Pending \cup Spoken : Same(c, y) => TooOld(e)
  <2> SUFFICES ASSUME scheduled' # scheduled, NEW y \in Pending \cup Spoken, Same(c, y)
               PROVE  TooOld(e)
    OBVIOUS
  <2>1. y.event = e /\ y.gen = clears /\ ~FarAhead(y)
    BY <1>8 DEF Same
  <2> QED BY <1>6, <1>7, <2>1
<1> HIDE DEF c
<1>11. CoveredInv'
  <2> SUFFICES ASSUME NEW x \in (Pending \cup Spoken)'
               PROVE  Covered(x)'
    BY DEF CoveredInv
  <2>1. x \in Pending \cup Spoken \/ (x = c /\ scheduled' # scheduled)
    BY <1>2, <1>8 DEF Pending, Spoken
  <2>2. CASE x = c /\ scheduled' # scheduled
    BY <1>1, <1>2, <1>7, <1>8, <2>2 DEF Covered
  <2>3. CASE x \in Pending \cup Spoken
    <3>1. x.event \in Events /\ Covered(x)
      BY <1>1, <2>3 DEF OnceInv, CoveredInv
    <3>2. TooOld(x.event)' <=> TooOld(x.event)
      BY <1>5, <3>1
    <3>3. x.gen = clears /\ ~FarAhead(x) /\ receipts'[x.event] # receipts[x.event] =>
            TooOld(x.event)
      BY <1>6, <1>7, <2>3, <3>1
    <3> QED BY <1>2, <3>1, <3>2, <3>3 DEF Covered
  <2> QED BY <2>1, <2>2, <2>3
<1>12. ApartInv'
  <2>1. \A x \in scheduled' : x \in scheduled \/ (x = c /\ scheduled' # scheduled)
    BY <1>8
  <2>2. scheduled' # scheduled =>
           \A y \in Pending \cup Spoken : /\ Same(c, y) => TooOld(c.event)
                                          /\ Same(y, c) => TooOld(y.event)
    BY <1>8, <1>10 DEF Same
  <2>3. /\ scheduled \subseteq Pending /\ queue \subseteq Pending /\ Spoken' = Spoken
        /\ Pending' = scheduled' \cup queue /\ Pending = scheduled \cup queue
    BY <1>2 DEF Pending, Spoken
  <2>4. \A x \in Pending', y \in Spoken' : Same(x, y) => TooOld(x.event)
    BY <2>1, <2>2, <2>3 DEF OnceInv, ApartInv
  <2>5. \A x \in scheduled', y \in queue' : Same(x, y) => TooOld(x.event)
    BY <1>2, <2>1, <2>2, <2>3 DEF OnceInv, ApartInv
  <2>6. \A x, y \in scheduled' : Same(x, y) /\ x # y => TooOld(x.event)
    BY <2>1, <2>2, <2>3 DEF OnceInv, ApartInv
  <2>7. \A x, y \in queue' : Same(x, y) /\ x # y => TooOld(x.event)
    BY <1>2, <2>3 DEF OnceInv, ApartInv
  <2>8. \A x, y \in draining' : Same(x, y) => x = y
    BY <1>2 DEF OnceInv, ApartInv
  <2> QED BY <1>2, <2>4, <2>5, <2>6, <2>7, <2>8 DEF ApartInv, Same, TooOld
<1>13. AnnouncedOnce'
  BY <1>2 DEF OnceInv, AnnouncedOnce
<1> QED BY <1>11, <1>12, <1>13 DEF OnceInv

\* A step that keeps receipts and makes no new claim keeps what covers the claims.
LEMMA CoveredKept ==
    ASSUME TypeInv, CoveredInv, now' = now, clears' = clears,
           \A e \in Events : /\ receipts'[e] = None <=> receipts[e] = None
                             /\ receipts[e] # None => receipts'[e].at = receipts[e].at,
           \A x \in (Pending \cup Spoken)' : \E y \in Pending \cup Spoken : Like(x, y)
    PROVE  CoveredInv'
<1>1. ASSUME NEW x \in (Pending \cup Spoken)'
      PROVE  Covered(x)'
  <2>1. PICK y \in Pending \cup Spoken : Like(x, y)
    BY <1>1
  <2>2. Covered(y) /\ y.event \in Events /\ (FarAhead(x) <=> FarAhead(y))
    BY <2>1, ItemEvents, LikeSame DEF CoveredInv
  <2> QED BY <2>1, <2>2 DEF Covered, Like, TooOld
<1> QED BY <1>1 DEF CoveredInv

LEMMA ProcessOnce ==
    ASSUME TypeInv, OnceInv, Process
    PROVE  OnceInv'
<1>1. UNCHANGED <<now, clears, shown>>
  BY DEF Process, clocks
<1>2. PICK i \in scheduled :
        /\ scheduled' = scheduled \ {i} /\ draining = {}
        /\ \A e \in Events :
             /\ receipts'[e] = None <=> receipts[e] = None
             /\ receipts[e] # None => receipts'[e].at = receipts[e].at
        /\ \/ queue' = queue /\ draining' = {}
           \/ /\ ~TooOld(i.event)
              /\ \E n \in Notices :
                   /\ ClaimOf(n) = i
                   /\ \/ queue' \subseteq queue \cup {n} /\ draining' = {}
                      \/ queue' = queue /\ draining' = {n}
  BY ProcessEffect
\* The callback's claim is the only one of its event that can still be shown.
<1>3. ~TooOld(i.event) =>
        /\ \A y \in Spoken : ~Same(i, y)
        /\ \A y \in queue : ~Same(i, y)
        /\ \A y \in scheduled : y # i => ~Same(i, y) /\ ~Same(y, i)
  BY DEF OnceInv, ApartInv, Pending, Same
<1>4. \/ queue' = queue /\ draining' = {}
      \/ \E n \in Notices :
           /\ Like(n, i) /\ ~TooOld(n.event)
           /\ \/ queue' \subseteq queue \cup {n} /\ draining' = {}
              \/ queue' = queue /\ draining' = {n}
  BY <1>2 DEF ClaimOf, Like
<1>5. AnnouncedOnce /\ ApartInv /\ CoveredInv
  BY DEF OnceInv
<1>6. CASE queue' = queue /\ draining' = {}
  <2>1. ApartInv'
    BY <1>1, <1>2, <1>5, <1>6 DEF ApartInv, Pending, Spoken, Same, TooOld
  <2>2. \A x \in (Pending \cup Spoken)' : x \in Pending \cup Spoken /\ Like(x, x)
    BY <1>1, <1>2, <1>6 DEF Pending, Spoken, Like
  <2>3. CoveredInv'
    BY <1>1, <1>2, <1>5, <2>2, CoveredKept
  <2>4. AnnouncedOnce'
    BY <1>1, <1>5, <1>6 DEF AnnouncedOnce
  <2> QED BY <2>1, <2>3, <2>4 DEF OnceInv
<1>7. ASSUME NEW n \in Notices, Like(n, i), ~TooOld(n.event),
             \/ queue' \subseteq queue \cup {n} /\ draining' = {}
             \/ queue' = queue /\ draining' = {n}
      PROVE  OnceInv'
  <2>1. /\ \A y \in Spoken : ~Same(n, y)
        /\ \A y \in queue : ~Same(n, y) /\ ~Same(y, n)
        /\ \A y \in scheduled' : ~Same(n, y) /\ ~Same(y, n)
    <3>1. ~TooOld(i.event)
      BY <1>7 DEF Like
    <3>2. \A y : (Same(n, y) <=> Same(i, y)) /\ (Same(y, n) <=> Same(y, i))
      BY <1>7, LikeSame
    <3> QED BY <1>2, <1>3, <3>1, <3>2 DEF Same
  <2>2. \A x \in (Pending \cup Spoken)' : \E y \in Pending \cup Spoken : Like(x, y)
    BY <1>1, <1>2, <1>7 DEF Pending, Spoken, Like
  <2>3. CoveredInv'
    BY <1>1, <1>2, <1>5, <2>2, CoveredKept
  <2>4. CASE queue' \subseteq queue \cup {n} /\ draining' = {}
    <3>1. Spoken' = shown /\ Spoken = shown
      BY <1>1, <1>2, <2>4 DEF Spoken
    <3>2. \A x \in Pending', y \in Spoken' : Same(x, y) => TooOld(x.event)
      BY <1>2, <1>5, <2>1, <2>4, <3>1 DEF ApartInv, Pending
    <3>3. \A x \in scheduled', y \in queue' : Same(x, y) => TooOld(x.event)
      BY <1>2, <1>5, <2>1, <2>4 DEF ApartInv
    <3>4. \A x, y \in scheduled' : Same(x, y) /\ x # y => TooOld(x.event)
      BY <1>2, <1>5 DEF ApartInv
    <3>5. \A x, y \in queue' : Same(x, y) /\ x # y => TooOld(x.event)
      BY <1>5, <2>1, <2>4 DEF ApartInv
    <3>6. ApartInv'
      BY <1>1, <2>4, <3>2, <3>3, <3>4, <3>5 DEF ApartInv, Same, TooOld
    <3>7. AnnouncedOnce'
      BY <1>1, <1>5, <2>4 DEF AnnouncedOnce
    <3> QED BY <2>3, <3>6, <3>7 DEF OnceInv
  <2>5. CASE queue' = queue /\ draining' = {n}
    <3>1. Spoken' = shown \cup {n} /\ Spoken = shown
      BY <1>1, <1>2, <2>5 DEF Spoken
    <3>2. \A x \in Pending', y \in Spoken' : Same(x, y) => TooOld(x.event)
      BY <1>2, <1>5, <2>1, <2>5, <3>1 DEF ApartInv, Pending
    <3>3. \A x \in scheduled', y \in queue' : Same(x, y) => TooOld(x.event)
      BY <1>2, <1>5, <2>5 DEF ApartInv
    <3>4. \A x, y \in scheduled' : Same(x, y) /\ x # y => TooOld(x.event)
      BY <1>2, <1>5 DEF ApartInv
    <3>5. \A x, y \in queue' : Same(x, y) /\ x # y => TooOld(x.event)
      BY <1>5, <2>5 DEF ApartInv
    <3>6. ApartInv'
      BY <1>1, <2>5, <3>2, <3>3, <3>4, <3>5 DEF ApartInv, Same, TooOld
    <3>7. AnnouncedOnce'
      BY <1>1, <1>5, <2>1, <2>5, <3>1 DEF AnnouncedOnce, Same
    <3> QED BY <2>3, <3>6, <3>7 DEF OnceInv
  <2> QED BY <1>7, <2>4, <2>5
<1> QED BY <1>4, <1>6, <1>7

LEMMA FlushOnce ==
    ASSUME TypeInv, OnceInv, NEW busy \in BOOLEAN, NEW up \in BOOLEAN, Flush(busy, up)
    PROVE  OnceInv'
<1>1. UNCHANGED <<now, clears, shown, scheduled>>
  BY DEF Flush, clocks
<1>2. /\ queue' \subseteq queue /\ draining' \subseteq queue /\ draining = {}
      /\ queue' \cap draining' = {}
      /\ \A n \in draining' : ~TooOld(n.event)
      /\ \A e \in Events :
           /\ receipts'[e] = None <=> receipts[e] = None
           /\ receipts[e] # None => receipts'[e].at = receipts[e].at
  BY FlushEffect
<1>3. AnnouncedOnce /\ ApartInv /\ CoveredInv
  BY DEF OnceInv
<1>4. \A x \in (Pending \cup Spoken)' : x \in Pending \cup Spoken /\ Like(x, x)
  BY <1>1, <1>2 DEF Pending, Spoken, Like
<1>5. CoveredInv'
  BY <1>1, <1>2, <1>3, <1>4, CoveredKept
<1>6. Spoken = shown /\ Spoken' = draining' \cup shown /\ Pending' \subseteq Pending
      /\ Pending' = scheduled \cup queue' /\ queue \subseteq Pending
  BY <1>1, <1>2 DEF Spoken, Pending
<1>7. \A x \in Pending', y \in Spoken' : Same(x, y) => TooOld(x.event)
  <2>1. \A x \in Pending', y \in shown : Same(x, y) => TooOld(x.event)
    BY <1>3, <1>6 DEF ApartInv
  <2>2. \A x \in scheduled, y \in draining' : Same(x, y) => TooOld(x.event)
    BY <1>2, <1>3 DEF ApartInv
  <2>3. \A x \in queue', y \in draining' : Same(x, y) => TooOld(x.event)
    BY <1>2, <1>3 DEF ApartInv
  <2> QED BY <1>6, <2>1, <2>2, <2>3
<1>8. \A x, y \in draining' : Same(x, y) => x = y
  BY <1>2, <1>3 DEF ApartInv
<1>9. ApartInv'
  BY <1>1, <1>2, <1>3, <1>7, <1>8 DEF ApartInv, Same, TooOld
<1>10. \A x \in shown, n \in draining' : ~Same(n, x)
  BY <1>2, <1>3, <1>6 DEF ApartInv
<1>11. AnnouncedOnce'
  BY <1>1, <1>3, <1>10 DEF AnnouncedOnce, Same
<1> QED BY <1>5, <1>9, <1>11 DEF OnceInv

LEMMA PublishOnce ==
    ASSUME TypeInv, OnceInv, NEW first \in Earliest(draining), NEW presented \in BOOLEAN,
           NEW heard \in BOOLEAN, NEW raised \in BOOLEAN, NEW up \in BOOLEAN,
           Publish(first, presented, heard, raised, up)
    PROVE  OnceInv'
<1> DEFINE batch == BatchOf(first)
           said == {ClaimOf(n) : n \in batch}
<1>1. UNCHANGED <<now, clears, scheduled, queue>>
  BY DEF Publish, clocks
<1>2. batch \subseteq draining /\ batch \subseteq Notices
  BY BatchEffect
<1>3. /\ shown' = IF presented THEN shown \cup said ELSE shown
      /\ draining' \subseteq draining \ batch
  BY DEF Publish
<1>4. \A e \in Events :
        /\ receipts'[e] = None <=> receipts[e] = None
        /\ receipts[e] # None => receipts'[e].at = receipts[e].at
  BY PublishEffect
<1>5. AnnouncedOnce /\ ApartInv /\ CoveredInv
  BY DEF OnceInv
<1> HIDE DEF batch
<1>6. \A c \in said : \E n \in batch : c = ClaimOf(n) /\ Like(c, n)
  BY DEF ClaimOf, Like
<1> HIDE DEF said
<1>7. \A x \in (Pending \cup Spoken)' : \E y \in Pending \cup Spoken : Like(x, y)
  BY <1>1, <1>2, <1>3, <1>6 DEF Pending, Spoken, Like
<1>8. CoveredInv'
  BY <1>1, <1>4, <1>5, <1>7, CoveredKept
<1>9. \A y \in Spoken' : \E z \in Spoken : Like(y, z)
  BY <1>2, <1>3, <1>6 DEF Spoken, Like
<1>10. \A x \in Pending', y \in Spoken' : Same(x, y) => TooOld(x.event)
  <2> SUFFICES ASSUME NEW x \in Pending', NEW y \in Spoken', Same(x, y)
               PROVE  TooOld(x.event)
    OBVIOUS
  <2>1. x \in Pending
    BY <1>1 DEF Pending
  <2>2. PICK z \in Spoken : Same(x, z)
    BY <1>9, LikeSame
  <2> QED BY <1>5, <2>1, <2>2 DEF ApartInv
<1>11. ApartInv'
  BY <1>1, <1>3, <1>5, <1>10 DEF ApartInv, Same, TooOld
<1>12. AnnouncedOnce'
  <2>1. \A x \in said, y \in shown : ~Same(x, y) /\ ~Same(y, x)
    <3> SUFFICES ASSUME NEW x \in said, NEW y \in shown, Same(x, y) \/ Same(y, x)
                 PROVE  FALSE
      OBVIOUS
    <3>1. PICK n \in batch : Like(x, n)
      BY <1>6
    <3>2. Same(y, n)
      BY <3>1, LikeSame DEF Same
    <3> QED BY <1>2, <1>5, <3>2 DEF AnnouncedOnce, Same
  <2>2. \A x, y \in said : Same(x, y) => x = y
    <3> SUFFICES ASSUME NEW x \in said, NEW y \in said, Same(x, y) PROVE x = y
      OBVIOUS
    <3>1. PICK n \in batch : x = ClaimOf(n) /\ Like(x, n)
      BY <1>6
    <3>2. PICK m \in batch : y = ClaimOf(m) /\ Like(y, m)
      BY <1>6
    <3>3. n = m
      <4>1. Same(n, m)
        BY <3>1, <3>2, LikeSame
      <4> QED BY <1>2, <1>5, <4>1 DEF ApartInv
    <3> QED BY <3>1, <3>2, <3>3
  <2>3. \A x \in said, n \in draining' : ~Same(n, x)
    <3> SUFFICES ASSUME NEW x \in said, NEW n \in draining', Same(n, x) PROVE FALSE
      OBVIOUS
    <3>1. PICK m \in batch : Like(x, m)
      BY <1>6
    <3>2. Same(n, m)
      BY <3>1, LikeSame
    <3> QED BY <1>2, <1>3, <1>5, <3>2 DEF ApartInv
  <2>4. \A x \in shown, n \in draining' : ~Same(n, x)
    BY <1>3, <1>5 DEF AnnouncedOnce, Same
  <2>5. \A x, y \in shown : Same(x, y) => x = y
    BY <1>5 DEF AnnouncedOnce, Same
  <2>6. shown' \subseteq shown \cup said
    BY <1>3
  <2>7. /\ \A x, y \in shown' : Same(x, y) => x = y
        /\ \A x \in shown', n \in draining' : ~Same(n, x)
    BY <2>1, <2>2, <2>3, <2>4, <2>5, <2>6
  <2> QED BY <2>7 DEF AnnouncedOnce, Same
<1> QED BY <1>8, <1>11, <1>12 DEF OnceInv

\* A clearing starts a new table, to which no claim belongs yet.
LEMMA ClearOnce ==
    ASSUME TypeInv, OnceInv, ClearReceipts
    PROVE  OnceInv'
<1>1. /\ clears' = clears + 1 /\ clears \in Nat
      /\ receipts' = [e \in Events |-> None]
      /\ UNCHANGED <<scheduled, queue, draining, shown, now>>
  BY DEF ClearReceipts, TypeInv, TypeOK
<1>2. AnnouncedOnce /\ ApartInv /\ CoveredInv
  BY DEF OnceInv
<1>3. Pending' = Pending /\ Spoken' = Spoken
  BY <1>1 DEF Pending, Spoken
<1>4. \A x \in Pending \cup Spoken : x.gen \in Nat /\ x.gen <= clears
  BY <1>2, ItemEvents DEF CoveredInv, Covered
<1>5. CoveredInv'
  BY <1>1, <1>3, <1>4 DEF CoveredInv, Covered
<1>6. ApartInv' /\ AnnouncedOnce'
  BY <1>1, <1>2, <1>3 DEF ApartInv, AnnouncedOnce, Same, TooOld
<1> QED BY <1>5, <1>6 DEF OnceInv

LEMMA CrashOnce ==
    ASSUME TypeInv, OnceInv, Crash
    PROVE  OnceInv'
<1>1. /\ scheduled' = {} /\ queue' = {} /\ draining' = {}
      /\ UNCHANGED <<receipts, shown, now, clears>>
  BY DEF Crash, tables, clocks
<1>2. AnnouncedOnce /\ ApartInv /\ CoveredInv
  BY DEF OnceInv
<1>3. \A x \in (Pending \cup Spoken)' : x \in Pending \cup Spoken /\ Like(x, x)
  BY <1>1 DEF Pending, Spoken, Like
<1>4. CoveredInv'
  BY <1>1, <1>2, <1>3, CoveredKept
<1>5. ApartInv' /\ AnnouncedOnce'
  BY <1>1, <1>2 DEF ApartInv, AnnouncedOnce, Pending
<1> QED BY <1>4, <1>5 DEF OnceInv

\* What is too old stays so.
LEMMA TickOnce ==
    ASSUME TypeInv, OnceInv, Tick
    PROVE  OnceInv'
<1>1. /\ now' = now + 1 /\ now \in Nat
      /\ UNCHANGED <<receipts, scheduled, queue, draining, shown, clears>>
  BY DEF Tick, tables, TypeInv, TypeOK
<1>2. AnnouncedOnce /\ ApartInv /\ CoveredInv
  BY DEF OnceInv
<1>3. Pending' = Pending /\ Spoken' = Spoken
  BY <1>1 DEF Pending, Spoken
<1>4. \A x \in Pending \cup Spoken : TooOld(x.event) => TooOld(x.event)'
  <2> SUFFICES ASSUME NEW x \in Pending \cup Spoken, TooOld(x.event)
               PROVE  TooOld(x.event)'
    OBVIOUS
  <2>1. Occurred[x.event] \in Nat
    BY ItemEvents, SetsAssumption
  <2> QED BY <1>1, <2>1, TimesAssumption DEF TooOld
<1>5. CoveredInv'
  <2> SUFFICES ASSUME NEW x \in Pending \cup Spoken
               PROVE  Covered(x)'
    BY <1>3 DEF CoveredInv
  <2> QED BY <1>1, <1>2, <1>4 DEF CoveredInv, Covered
<1>6. Pending = scheduled \cup queue
  BY DEF Pending
<1>7. ApartInv'
  <2>1. (\A x \in Pending, y \in Spoken : Same(x, y) => TooOld(x.event))'
    BY <1>2, <1>3, <1>4 DEF ApartInv, Same
  <2>2. (\A x \in scheduled, y \in queue : Same(x, y) => TooOld(x.event))'
    BY <1>1, <1>2, <1>4, <1>6 DEF ApartInv, Same
  <2>3. (\A x, y \in scheduled : Same(x, y) /\ x # y => TooOld(x.event))'
    BY <1>1, <1>2, <1>4, <1>6 DEF ApartInv, Same
  <2>4. (\A x, y \in queue : Same(x, y) /\ x # y => TooOld(x.event))'
    BY <1>1, <1>2, <1>4, <1>6 DEF ApartInv, Same
  <2>5. (\A x, y \in draining : Same(x, y) => x = y)'
    BY <1>1, <1>2 DEF ApartInv, Same
  <2> QED BY <2>1, <2>2, <2>3, <2>4, <2>5 DEF ApartInv
<1>8. AnnouncedOnce'
  BY <1>1, <1>2 DEF AnnouncedOnce
<1> QED BY <1>5, <1>7, <1>8 DEF OnceInv

LEMMA NextOnce == TypeInv /\ OnceInv /\ [Next]_vars => OnceInv'
<1> SUFFICES ASSUME TypeInv, OnceInv, [Next]_vars PROVE OnceInv'
  OBVIOUS
<1>1. CASE \E e \in Events, due \in BOOLEAN : Submit(e, due)
  BY <1>1, SubmitOnce
<1>2. CASE Process
  BY <1>2, ProcessOnce
<1>3. CASE \E busy, up \in BOOLEAN : Flush(busy, up)
  BY <1>3, FlushOnce
<1>4. CASE \E first \in Earliest(draining), presented, heard, raised, up \in BOOLEAN :
              Publish(first, presented, heard, raised, up)
  BY <1>4, PublishOnce
<1>5. CASE ClearReceipts
  BY <1>5, ClearOnce
<1>6. CASE Crash
  BY <1>6, CrashOnce
<1>7. CASE Tick
  BY <1>7, TickOnce
<1>8. CASE UNCHANGED vars
  BY <1>8 DEF vars, OnceInv, CoveredInv, Covered, ApartInv, AnnouncedOnce,
              Pending, Spoken, Same, TooOld
<1> QED BY <1>1, <1>2, <1>3, <1>4, <1>5, <1>6, <1>7, <1>8 DEF Next

\* Between two clearings of the receipts no event is presented twice, however
\* often it is submitted, whenever receipts are pruned, and whatever the queue,
\* the clock, raising subscribers, a failing store or restarts do in between,
\* unless its date lay too far ahead of its claim (FarAhead).
THEOREM AnnouncedOnlyOnce == Spec => []AnnouncedOnce
<1>1. OnceInv => AnnouncedOnce
  BY DEF OnceInv
<1> QED BY <1>1, InitOnce, NextOnce, AlwaysTypes, PTL DEF Spec

-----------------------------------------------------------------------------
(* Delivery results and receipts *)

\* Links wait only where a result was lost, and only for events of their kind.
WaitInv ==
    /\ \A k \in Kinds : links[k] # {} => k \in muddled
    /\ \A k \in Kinds : \A l \in links[k] : KindOf[l.event] = k

\* Zero is no stamp: it stands for the row that could not be written.
StampInv == \A n \in scheduled \cup queue \cup draining : n.stamp >= 1

LinkInv == WaitInv /\ StampInv /\ ReceiptsTruthful /\ NothingForgotten

LEMMA InitLinks == Init => LinkInv
  BY DEF Init, LinkInv, WaitInv, StampInv, ReceiptsTruthful, NothingForgotten

\* A step that touches neither links nor what was shown keeps LinkInv when it
\* leaves nothing open behind and delivers nothing.
LEMMA LinksKept ==
    ASSUME TypeInv, LinkInv, UNCHANGED <<links, shown, muddled, inbox>>, StampInv',
           lost \subseteq lost',
           \A e \in Events :
              /\ receipts'[e] # receipts[e] /\ receipts'[e] # None =>
                    receipts'[e].status # "delivered"
              /\ (/\ receipts'[e] # None /\ receipts'[e].status \in Open
                  /\ e \notin lost' /\ KindOf[e] \notin muddled) => e \in OnTheirWay'
    PROVE  LinkInv'
<1>1. WaitInv'
  BY DEF LinkInv, WaitInv
<1>2. ReceiptsTruthful'
  BY DEF LinkInv, ReceiptsTruthful, EventsOf
<1>3. NothingForgotten'
  BY DEF LinkInv, NothingForgotten
<1> QED BY <1>1, <1>2, <1>3 DEF LinkInv

LEMMA SubmitLinks ==
    ASSUME TypeInv, LinkInv, NEW e \in Events, NEW due \in BOOLEAN, Submit(e, due)
    PROVE  LinkInv'
<1> DEFINE table == Pruned(due)
           c == [event |-> e, stamp |-> issued + 1, gen |-> clears, at |-> now]
<1>1. UNCHANGED <<inbox, queue, draining, links, shown, lost, muddled>>
  BY DEF Submit
<1>2. receipts \in Tables /\ issued \in Nat
  BY DEF TypeInv, TypeOK, Tables
<1>3. \A f \in Events : table[f] # None => table[f] = receipts[f]
  BY <1>2, PrunedEffect
<1>4. table \in Tables
  BY <1>2, PrunedEffect
<1>5. \/ receipts' = table /\ scheduled' = scheduled
      \/ /\ receipts' = [table EXCEPT ![e] = [status |-> "received", at |-> now]]
         /\ scheduled' = scheduled \cup {c}
      \/ /\ receipts' = [table EXCEPT ![e] = [status |-> "suppressed", at |-> now]]
         /\ scheduled' = scheduled
  <2>1. [[status |-> "received", at |-> now] EXCEPT !.status = "suppressed"]
          = [status |-> "suppressed", at |-> now]
    OBVIOUS
  <2> QED BY <2>1 DEF Submit
<1> HIDE DEF table
<1>6. \A f \in Events :
         \/ receipts'[f] = None
         \/ receipts'[f] = receipts[f]
         \/ f = e /\ receipts'[f].status = "received" /\ scheduled' = scheduled \cup {c}
         \/ f = e /\ receipts'[f].status = "suppressed"
  BY <1>3, <1>4, <1>5 DEF Tables
<1>7. c.event = e /\ c.stamp >= 1 /\ scheduled \subseteq scheduled'
      /\ scheduled' \subseteq scheduled \cup {c}
  BY <1>2, <1>5
<1> HIDE DEF c
<1>8. StampInv'
  BY <1>1, <1>7 DEF LinkInv, StampInv
<1>9. \A f \in Events : receipts'[f] # receipts[f] /\ receipts'[f] # None =>
                           receipts'[f].status # "delivered"
  BY <1>6
<1>10. ASSUME NEW f \in Events, receipts'[f] # None, receipts'[f].status \in Open,
              f \notin lost', KindOf[f] \notin muddled
       PROVE  f \in OnTheirWay'
  <2>1. CASE receipts'[f] = receipts[f]
    <3>1. f \in OnTheirWay
      BY <1>1, <1>10, <2>1 DEF LinkInv, NothingForgotten
    <3> QED BY <1>1, <1>7, <3>1 DEF OnTheirWay, EventsOf
  <2>2. CASE f = e /\ scheduled' = scheduled \cup {c}
    BY <1>7, <2>2 DEF OnTheirWay, EventsOf
  <2>3. "suppressed" \notin Open
    BY DEF Open
  <2> QED BY <1>6, <1>10, <2>1, <2>2, <2>3
<1> QED BY <1>1, <1>8, <1>9, <1>10, LinksKept

LEMMA ProcessLinks ==
    ASSUME TypeInv, LinkInv, Process
    PROVE  LinkInv'
<1>1. UNCHANGED <<inbox, links, shown, muddled>>
  BY DEF Process
<1>2. PICK i \in scheduled :
        /\ i \in Claims /\ scheduled' = scheduled \ {i} /\ draining = {}
        /\ lost \subseteq lost'
        /\ \A e \in Events :
             /\ receipts'[e] = None <=> receipts[e] = None
             /\ receipts'[e] # receipts[e] => receipts'[e].status # "delivered"
             /\ (/\ receipts'[e] # None /\ receipts'[e].status \in Open
                 /\ e \notin lost') =>
                   \/ e \in EventsOf(queue') \/ e \in EventsOf(draining')
                   \/ receipts[e].status \in Open /\ e # i.event /\ e \notin EventsOf(queue)
        /\ \/ queue' = queue /\ draining' = {}
           \/ \E n \in Notices :
                /\ ClaimOf(n) = i
                /\ \/ queue' \subseteq queue \cup {n} /\ draining' = {}
                   \/ queue' = queue /\ draining' = {n}
  BY ProcessEffect
<1>3. StampInv'
  BY <1>2 DEF LinkInv, StampInv, ClaimOf
<1>4. ASSUME NEW e \in Events, receipts'[e] # None, receipts'[e].status \in Open,
             e \notin lost', KindOf[e] \notin muddled
      PROVE  e \in OnTheirWay'
  <2>1. CASE e \in EventsOf(queue') \/ e \in EventsOf(draining')
    BY <2>1 DEF OnTheirWay
  <2>2. CASE receipts[e].status \in Open /\ e # i.event /\ e \notin EventsOf(queue)
    <3>1. e \in OnTheirWay
      BY <1>2, <1>4, <2>2 DEF LinkInv, NothingForgotten
    <3>2. PICK j \in scheduled : j.event = e
      BY <1>2, <2>2, <3>1 DEF OnTheirWay, EventsOf
    <3> QED BY <1>2, <2>2, <3>2 DEF OnTheirWay, EventsOf
  <2> QED BY <1>2, <1>4, <2>1, <2>2
<1> QED BY <1>1, <1>2, <1>3, <1>4, LinksKept

LEMMA FlushLinks ==
    ASSUME TypeInv, LinkInv, NEW busy \in BOOLEAN, NEW up \in BOOLEAN, Flush(busy, up)
    PROVE  LinkInv'
<1>1. UNCHANGED <<inbox, scheduled, links, shown, muddled>>
  BY DEF Flush
<1>2. /\ queue' \subseteq queue /\ draining' \subseteq queue /\ draining = {}
      /\ lost \subseteq lost'
      /\ \A e \in Events :
           /\ receipts'[e] = None <=> receipts[e] = None
           /\ receipts'[e] # receipts[e] => receipts'[e].status # "delivered"
           /\ (/\ receipts'[e] # None /\ receipts'[e].status \in Open
               /\ e \notin lost' /\ e \in EventsOf(queue)) =>
                    e \in EventsOf(queue') \/ e \in EventsOf(draining')
           /\ receipts'[e] # None /\ receipts'[e].status \in Open =>
                    receipts[e].status \in Open
  BY FlushEffect
<1>3. StampInv'
  BY <1>1, <1>2 DEF LinkInv, StampInv
<1>4. ASSUME NEW e \in Events, receipts'[e] # None, receipts'[e].status \in Open,
             e \notin lost', KindOf[e] \notin muddled
      PROVE  e \in OnTheirWay'
  <2>1. e \in OnTheirWay
    BY <1>2, <1>4 DEF LinkInv, NothingForgotten
  <2>2. e \in EventsOf(scheduled) \/ e \in EventsOf(queue)
    BY <1>2, <2>1 DEF OnTheirWay, EventsOf
  <2> QED BY <1>1, <1>2, <1>4, <2>2 DEF OnTheirWay
<1> QED BY <1>1, <1>2, <1>3, <1>4, LinksKept

\* Where no result was lost, a batch's result takes the links of that batch: its
\* notices are settled with its own status, and its row with them.
LEMMA OwnResult ==
    ASSUME TypeInv, LinkInv, NEW first \in Earliest(draining), NEW presented \in BOOLEAN,
           NEW raised \in BOOLEAN, NEW up \in BOOLEAN,
           Publish(first, presented, TRUE, raised, up),
           KindOf[first.event] \notin muddled
    PROVE  /\ links' = links
           /\ \A e \in Events :
                /\ up /\ e \in EventsOf(BatchOf(first)) /\ receipts[e] # None =>
                      receipts'[e].status = IF presented THEN "delivered" ELSE "suppressed"
                /\ e \notin EventsOf(BatchOf(first)) => receipts'[e] = receipts[e]
                /\ ~up => receipts'[e] = receipts[e]
           /\ \A r \in inbox' : r.status = "pending" => r \in inbox
<1> DEFINE batch == BatchOf(first)
           kind == KindOf[first.event]
           rows == AddRow(inbox, first.stamp, EventsOf(batch), up)
           row == IF up THEN first.stamp ELSE 0
           new == LinksFor(links[kind], batch, row)
           all == links[kind] \cup new
           count == Cardinality(batch)
           popped == {l \in all : l.at <= count}
           status == IF presented THEN "delivered" ELSE "suppressed"
           es == Stored(EventsOf(popped), up)
           ids == {l.row : l \in popped} \ {0}
<1>1. /\ first \in draining /\ first \in Notices /\ kind \in Kinds /\ first \in batch
      /\ batch \subseteq draining /\ batch \subseteq Notices /\ IsFiniteSet(batch)
  BY BatchEffect
<1>2. /\ receipts \in Tables /\ inbox \subseteq Rows
      /\ links \in [Kinds -> SUBSET Links]
  BY DEF TypeInv, TypeOK, Tables
<1>3. links[kind] = {}
  BY <1>1 DEF LinkInv, WaitInv
<1>4. first.stamp \in Nat /\ first.stamp >= 1 /\ row \in Nat
  BY <1>1 DEF LinkInv, StampInv, Notices
<1> HIDE DEF row, batch, kind, rows
<1>5. /\ count \in Nat
      /\ \A l \in new : l.at <= count /\ l.row = row
      /\ EventsOf(new) = EventsOf(batch)
      /\ new \subseteq Links
  <2>1. {} \subseteq Links /\ IsFiniteSet({}) /\ Cardinality({}) = 0
    BY FS_EmptySet
  <2>2. /\ LinksFor({}, batch, row) \subseteq Links
        /\ Cardinality(batch) \in Nat
        /\ \A l \in LinksFor({}, batch, row) :
             /\ l.at <= Cardinality({}) + Cardinality(batch)
             /\ l.row = row
        /\ EventsOf(LinksFor({}, batch, row)) = EventsOf(batch)
    BY <1>1, <1>4, <2>1, LinksForEffect
  <2>3. new = LinksFor({}, batch, row)
    BY <1>3
  <2> HIDE DEF new
  <2> QED BY <2>1, <2>2, <2>3
<1>6. Answered(kind, all, rows, count, presented, up)
  BY DEF Publish, batch, kind, rows, row
<1> HIDE DEF new, count
<1>7. popped = new /\ all \ popped = {}
  BY <1>3, <1>5
<1>8. /\ links' = [links EXCEPT ![kind] = {[l EXCEPT !.at = @ - count] : l \in all \ popped}]
      /\ receipts' = SetStatus(receipts, es, status)
      /\ inbox' = SetRows(rows, ids, status, up)
  BY <1>6 DEF Answered
<1>9. links' = links
  <2>1. {[l EXCEPT !.at = @ - count] : l \in all \ popped} = {}
    BY <1>7
  <2> QED BY <1>1, <1>2, <1>3, <1>8, <2>1
<1>10. status \in ReceiptStatus /\ status # "pending"
  BY DEF ReceiptStatus
<1>11. EventsOf(popped) = EventsOf(batch)
  BY <1>5, <1>7
<1>12. row \in {l.row : l \in popped}
  <2>1. first.event \in EventsOf(new)
    BY <1>1, <1>5 DEF EventsOf
  <2>2. \E l \in new : l.row = row
    BY <1>5, <2>1 DEF EventsOf
  <2> QED BY <1>7, <2>2
<1> HIDE DEF popped, all
<1>13. \A e \in Events : e \in es <=> up /\ e \in EventsOf(batch)
  BY <1>11 DEF Stored
<1> HIDE DEF es, status
<1>14. \A e \in Events :
          /\ e \notin es => receipts'[e] = receipts[e]
          /\ e \in es /\ receipts[e] # None => receipts'[e].status = status
  BY <1>2, <1>8, <1>10, SetStatusTypes
<1>15. ASSUME NEW r \in inbox', r.status = "pending"
       PROVE  r \in inbox
  <2>1. PICK q \in rows :
           r = IF up /\ q.id \in ids THEN [q EXCEPT !.status = status] ELSE q
    BY <1>8 DEF SetRows
  <2>2. \A q1 \in rows : \/ q1 \in inbox
                         \/ up /\ q1 = [id |-> first.stamp, about |-> EventsOf(batch),
                                        status |-> "pending"]
    BY DEF rows, AddRow
  <2>3. [q EXCEPT !.status = status].status = status
    <3>1. CASE q \in inbox
      BY <1>2, <3>1 DEF Rows
    <3>2. CASE q = [id |-> first.stamp, about |-> EventsOf(batch), status |-> "pending"]
      BY <3>2
    <3> QED BY <2>2, <3>1, <3>2
  <2>4. ~(up /\ q.id \in ids)
    <3>1. ASSUME up, q.id \in ids PROVE FALSE
      <4>1. r = [q EXCEPT !.status = status]
        BY <2>1, <3>1
      <4>2. r.status = status
        BY <2>3, <4>1
      <4> QED BY <1>10, <1>15, <4>2
    <3> QED BY <3>1
  <2>5. q \in inbox
    <3>1. ASSUME up, q.id = first.stamp PROVE FALSE
      <4>1. q.id = row /\ row # 0
        BY <1>4, <3>1 DEF row
      <4> QED BY <1>12, <2>4, <3>1, <4>1
    <3> QED BY <2>2, <3>1
  <2> QED BY <2>1, <2>4, <2>5
<1>16. \A e \in Events :
          /\ up /\ e \in EventsOf(batch) /\ receipts[e] # None => receipts'[e].status = status
          /\ e \notin EventsOf(batch) => receipts'[e] = receipts[e]
          /\ ~up => receipts'[e] = receipts[e]
  BY <1>13, <1>14
<1> QED BY <1>9, <1>15, <1>16 DEF status, batch

\* A result, its own or another's, touches only receipts and links of its kind.
LEMMA OneKindTouched ==
    ASSUME TypeInv, WaitInv, NEW first \in Earliest(draining), NEW presented \in BOOLEAN,
           NEW heard \in BOOLEAN, NEW raised \in BOOLEAN, NEW up \in BOOLEAN,
           Publish(first, presented, heard, raised, up)
    PROVE  /\ \A k \in Kinds : k # KindOf[first.event] => links'[k] = links[k]
           /\ \A l \in links'[KindOf[first.event]] : KindOf[l.event] = KindOf[first.event]
           /\ \A e \in Events : receipts'[e] # receipts[e] => KindOf[e] = KindOf[first.event]
           /\ \A r \in inbox' : r.status = "pending" =>
                 \/ \E q \in inbox : q.status = "pending" /\ q.about = r.about
                 \/ r.about = EventsOf(BatchOf(first))
<1> DEFINE batch == BatchOf(first)
           kind == KindOf[first.event]
           rows == AddRow(inbox, first.stamp, EventsOf(batch), up)
           row == IF up THEN first.stamp ELSE 0
           new == LinksFor(links[kind], batch, row)
           all == links[kind] \cup new
           count == Cardinality(batch)
           popped == {l \in all : l.at <= count}
           status == IF presented THEN "delivered" ELSE "suppressed"
           es == Stored(EventsOf(popped), up)
           ids == {l.row : l \in popped} \ {0}
<1>1. /\ first \in draining /\ first \in Notices /\ kind \in Kinds
      /\ batch \subseteq draining /\ batch \subseteq Notices /\ IsFiniteSet(batch)
      /\ \A n \in batch : KindOf[n.event] = kind
  BY BatchEffect
<1>2. /\ receipts \in Tables /\ inbox \subseteq Rows
      /\ links \in [Kinds -> SUBSET Links] /\ \A k \in Kinds : IsFiniteSet(links[k])
  BY DEF TypeInv, TypeOK, FiniteParts, Tables
<1>3. row \in Nat
  BY <1>1 DEF Notices
<1>4. \A q \in rows : \/ q \in inbox
                      \/ q = [id |-> first.stamp, about |-> EventsOf(batch), status |-> "pending"]
  BY DEF AddRow
<1>5. \/ Answered(kind, all, rows, count, presented, up)
      \/ Unanswered(kind, all, rows)
  BY DEF Publish
<1> HIDE DEF row, batch, kind, rows
<1>6. new \subseteq Links /\ EventsOf(new) = EventsOf(batch) /\ count \in Nat
  <2>1. links[kind] \subseteq Links /\ IsFiniteSet(links[kind])
    BY <1>1, <1>2
  <2> QED BY <1>1, <1>3, <2>1, LinksForEffect
<1> HIDE DEF new, count
<1>7. \A l \in all : l \in Links /\ KindOf[l.event] = kind
  <2>1. \A l \in new : \E n \in batch : l.event = n.event
    BY <1>6 DEF EventsOf
  <2> QED BY <1>1, <1>2, <1>6, <2>1 DEF WaitInv
<1> HIDE DEF all
<1>8. CASE Unanswered(kind, all, rows)
  <2>1. links' = [links EXCEPT ![kind] = all] /\ inbox' = rows /\ receipts' = receipts
    BY <1>8 DEF Unanswered
  <2>2. \A r \in inbox' : r.status = "pending" =>
           \/ \E q \in inbox : q.status = "pending" /\ q.about = r.about
           \/ r.about = EventsOf(batch)
    BY <1>4, <2>1
  <2> QED BY <1>1, <1>2, <1>7, <2>1, <2>2 DEF kind, batch
<1>9. CASE Answered(kind, all, rows, count, presented, up)
  <2> DEFINE left == {[l EXCEPT !.at = @ - count] : l \in all \ popped}
  <2>1. /\ links' = [links EXCEPT ![kind] = left]
        /\ receipts' = SetStatus(receipts, es, status)
        /\ inbox' = SetRows(rows, ids, status, up)
    BY <1>9 DEF Answered
  <2>2. \A x \in left : KindOf[x.event] = kind
    <3>1. \A l \in all : [l EXCEPT !.at = @ - count].event = l.event
      BY <1>7 DEF Links
    <3> QED BY <1>7, <3>1
  <2>3. status \in ReceiptStatus /\ status # "pending"
    BY DEF ReceiptStatus
  <2>4. \A e \in es : KindOf[e] = kind
    BY <1>7 DEF Stored, EventsOf
  <2> HIDE DEF left, es, status, ids
  <2>5. \A e \in Events : e \notin es => receipts'[e] = receipts[e]
    BY <1>2, <2>1, <2>3, SetStatusTypes
  <2>6. ASSUME NEW r \in inbox', r.status = "pending"
        PROVE  \/ \E q \in inbox : q.status = "pending" /\ q.about = r.about
               \/ r.about = EventsOf(batch)
    <3>1. PICK q \in rows :
             r = IF up /\ q.id \in ids THEN [q EXCEPT !.status = status] ELSE q
      BY <2>1 DEF SetRows
    <3>2. /\ [q EXCEPT !.status = status].status = status
      <4>1. CASE q \in inbox
        BY <1>2, <4>1 DEF Rows
      <4>2. CASE q = [id |-> first.stamp, about |-> EventsOf(batch), status |-> "pending"]
        BY <4>2
      <4> QED BY <1>4, <4>1, <4>2
    <3>3. r = q
      BY <2>3, <2>6, <3>1, <3>2
    <3> QED BY <1>4, <2>6, <3>3
  <2>7. /\ \A k \in Kinds : k # kind => links'[k] = links[k]
        /\ links'[kind] = left
    BY <1>1, <1>2, <2>1
  <2> QED BY <2>2, <2>4, <2>5, <2>6, <2>7 DEF kind, batch
<1> QED BY <1>5, <1>8, <1>9

LEMMA PublishLinks ==
    ASSUME TypeInv, LinkInv, NEW first \in Earliest(draining), NEW presented \in BOOLEAN,
           NEW heard \in BOOLEAN, NEW raised \in BOOLEAN, NEW up \in BOOLEAN,
           Publish(first, presented, heard, raised, up)
    PROVE  LinkInv'
<1> DEFINE batch == BatchOf(first)
           kind == KindOf[first.event]
           own == heard /\ kind \notin muddled
<1>1. /\ first \in batch /\ kind \in Kinds /\ batch \subseteq draining /\ batch \subseteq Notices
      /\ \A n \in batch : KindOf[n.event] = kind
  BY BatchEffect
<1>2. /\ UNCHANGED <<scheduled, queue>>
      /\ shown' = IF presented THEN shown \cup {ClaimOf(n) : n \in batch} ELSE shown
      /\ muddled' = IF heard THEN muddled ELSE muddled \cup {kind}
      /\ draining' = IF raised THEN {} ELSE draining \ batch
      /\ lost' = lost \cup (IF raised THEN EventsOf(draining \ batch) ELSE {})
                      \cup (IF up THEN {} ELSE EventsOf(batch))
  BY DEF Publish
<1>3. own => Publish(first, presented, TRUE, raised, up)
  BY Zenon
<1>4. own => /\ links' = links
             /\ \A e \in Events :
                  /\ up /\ e \in EventsOf(batch) /\ receipts[e] # None =>
                        receipts'[e].status = IF presented THEN "delivered" ELSE "suppressed"
                  /\ e \notin EventsOf(batch) => receipts'[e] = receipts[e]
                  /\ ~up => receipts'[e] = receipts[e]
             /\ \A r \in inbox' : r.status = "pending" => r \in inbox
  BY ZenonT(40), <1>3, OwnResult
<1>5. /\ \A k \in Kinds : k # kind => links'[k] = links[k]
      /\ \A l \in links'[kind] : KindOf[l.event] = kind
      /\ \A e \in Events : receipts'[e] # receipts[e] => KindOf[e] = kind
      /\ \A r \in inbox' : r.status = "pending" =>
            \/ \E q \in inbox : q.status = "pending" /\ q.about = r.about
            \/ r.about = EventsOf(batch)
  BY OneKindTouched DEF LinkInv
<1>6. /\ lost \subseteq lost' /\ muddled \subseteq muddled'
      /\ \A e \in Events :
           /\ receipts'[e] = None <=> receipts[e] = None
           /\ receipts'[e] # receipts[e] => receipts'[e].status \notin Open
  BY <1>2, PublishEffect
<1>7. ~own => kind \in muddled'
  BY <1>2
<1> HIDE DEF batch, kind
<1>8. WaitInv'
  BY <1>4, <1>5, <1>6, <1>7 DEF LinkInv, WaitInv
<1>9. StampInv'
  BY <1>1, <1>2 DEF LinkInv, StampInv
<1>10. ReceiptsTruthful'
  <2> SUFFICES ASSUME NEW e \in Events, receipts'[e] # None, receipts'[e].status = "delivered",
                      e \notin lost', KindOf[e] \notin muddled'
               PROVE  e \in EventsOf(shown')
    BY DEF ReceiptsTruthful
  <2>1. CASE receipts'[e] = receipts[e]
    <3>1. e \in EventsOf(shown)
      BY <1>6, <2>1 DEF LinkInv, ReceiptsTruthful
    <3> QED BY <1>2, <3>1 DEF EventsOf
  <2>2. CASE receipts'[e] # receipts[e]
    <3>1. KindOf[e] = kind /\ own
      BY <1>5, <1>7, <2>2
    <3>2. up /\ e \in EventsOf(batch) /\ receipts[e] # None
      BY <1>4, <1>6, <2>2, <3>1
    <3>3. presented
      BY <1>4, <3>1, <3>2
    <3>4. PICK n \in batch : n.event = e
      BY <3>2 DEF EventsOf
    <3>5. ClaimOf(n) \in shown' /\ ClaimOf(n).event = e
      BY <1>2, <3>3, <3>4 DEF ClaimOf
    <3> QED BY <3>5 DEF EventsOf
  <2> QED BY <2>1, <2>2
<1>11. NothingForgotten'
  <2>1. ASSUME NEW e \in Events, receipts'[e] # None, receipts'[e].status \in Open,
               e \notin lost', KindOf[e] \notin muddled'
        PROVE  e \in OnTheirWay'
    <3>1. receipts'[e] = receipts[e]
      BY <1>6, <2>1
    <3>2. e \in OnTheirWay
      BY <1>6, <2>1, <3>1 DEF LinkInv, NothingForgotten
    <3>3. CASE e \in EventsOf(scheduled) \/ e \in EventsOf(queue)
      BY <1>2, <3>3 DEF OnTheirWay
    <3>4. CASE e \in EventsOf(draining)
      <4>1. PICK n \in draining : n.event = e
        BY <3>4 DEF EventsOf
      <4>2. n \notin batch
        <5>1. ASSUME n \in batch PROVE FALSE
          <6>1. e \in EventsOf(batch) /\ KindOf[e] = kind
            BY <1>1, <4>1, <5>1 DEF EventsOf
          <6>2. own /\ up
            BY <1>2, <1>7, <2>1, <6>1
          <6>3. receipts'[e].status \in {"delivered", "suppressed"}
            BY <1>4, <2>1, <3>1, <6>1, <6>2
          <6> QED BY <2>1, <6>3 DEF Open
        <5> QED BY <5>1
      <4>3. n \in draining \ batch /\ e \in EventsOf(draining \ batch)
        BY <4>1, <4>2 DEF EventsOf
      <4>4. ~raised
        BY <1>2, <2>1, <4>3
      <4> QED BY <1>2, <4>3, <4>4 DEF OnTheirWay
    <3> QED BY <3>2, <3>3, <3>4 DEF OnTheirWay
  <2>2. ASSUME NEW r \in inbox', r.status = "pending"
        PROVE  \E e \in r.about : e \in lost' \/ KindOf[e] \in muddled'
    <3>1. CASE \E q \in inbox : q.status = "pending" /\ q.about = r.about
      BY <1>6, <3>1 DEF LinkInv, NothingForgotten
    <3>2. CASE own
      BY <1>4, <1>6, <2>2, <3>2 DEF LinkInv, NothingForgotten
    <3>3. CASE r.about = EventsOf(batch) /\ ~own
      <4>1. first.event \in EventsOf(batch) /\ KindOf[first.event] \in muddled'
        BY <1>1, <1>7, <3>3 DEF EventsOf, kind
      <4> QED BY <3>3, <4>1
    <3> QED BY <1>5, <2>2, <3>1, <3>2, <3>3
  <2> QED BY <2>1, <2>2 DEF NothingForgotten
<1> QED BY <1>8, <1>9, <1>10, <1>11 DEF LinkInv

LEMMA ClearLinks ==
    ASSUME TypeInv, LinkInv, ClearReceipts
    PROVE  LinkInv'
<1>1. /\ receipts' = [e \in Events |-> None]
      /\ UNCHANGED <<inbox, scheduled, queue, draining, links, shown, lost, muddled>>
  BY DEF ClearReceipts
<1>2. StampInv'
  BY <1>1 DEF LinkInv, StampInv
<1> QED BY <1>1, <1>2, LinksKept

LEMMA CrashLinks ==
    ASSUME TypeInv, LinkInv, Crash
    PROVE  LinkInv'
<1>1. /\ scheduled' = {} /\ queue' = {} /\ draining' = {}
      /\ links' = [k \in Kinds |-> {}] /\ muddled' = {}
      /\ lost' = lost \cup OnTheirWay \cup {e \in Events : KindOf[e] \in muddled}
      /\ UNCHANGED <<receipts, inbox, shown>>
  BY DEF Crash, tables
<1>2. WaitInv' /\ StampInv' /\ ReceiptsTruthful'
  BY <1>1 DEF LinkInv, WaitInv, StampInv, ReceiptsTruthful
<1>3. NothingForgotten'
  <2>1. \A r \in inbox : r.about \subseteq Events
    BY DEF TypeInv, TypeOK, Rows
  <2> QED BY <1>1, <2>1 DEF LinkInv, NothingForgotten
<1> QED BY <1>2, <1>3 DEF LinkInv

LEMMA NextLinks == TypeInv /\ LinkInv /\ [Next]_vars => LinkInv'
<1> SUFFICES ASSUME TypeInv, LinkInv, [Next]_vars PROVE LinkInv'
  OBVIOUS
<1>1. CASE \E e \in Events, due \in BOOLEAN : Submit(e, due)
  BY <1>1, SubmitLinks
<1>2. CASE Process
  BY <1>2, ProcessLinks
<1>3. CASE \E busy, up \in BOOLEAN : Flush(busy, up)
  BY <1>3, FlushLinks
<1>4. CASE \E first \in Earliest(draining), presented, heard, raised, up \in BOOLEAN :
              Publish(first, presented, heard, raised, up)
  BY <1>4, PublishLinks
<1>5. CASE ClearReceipts
  BY <1>5, ClearLinks
<1>6. CASE Crash
  BY <1>6, CrashLinks
<1>7. CASE Tick
  <2>1. UNCHANGED <<receipts, inbox, scheduled, queue, draining, links, shown, lost, muddled>>
    BY <1>7 DEF Tick, tables
  <2> QED BY <2>1 DEF LinkInv, WaitInv, StampInv, ReceiptsTruthful, NothingForgotten, OnTheirWay
<1>8. CASE UNCHANGED vars
  <2>1. UNCHANGED <<receipts, inbox, scheduled, queue, draining, links, shown, lost, muddled>>
    BY <1>8 DEF vars
  <2> QED BY <2>1 DEF LinkInv, WaitInv, StampInv, ReceiptsTruthful, NothingForgotten, OnTheirWay
<1> QED BY <1>1, <1>2, <1>3, <1>4, <1>5, <1>6, <1>7, <1>8 DEF Next

LEMMA AlwaysLinked == Spec => []LinkInv
  BY InitLinks, NextLinks, AlwaysTypes, PTL DEF Spec

\* Results are matched with receipts first in, first out, and yet a receipt that
\* says delivered is of an event that was shown, as long as no result of its kind
\* went missing: then nothing waits when a batch registers its own links.
THEOREM ReceiptsAreTruthful == Spec => []ReceiptsTruthful
<1>1. LinkInv => ReceiptsTruthful
  BY DEF LinkInv
<1> QED BY <1>1, AlwaysLinked, PTL

\* An event whose receipt is still open is on its way to the user; only a crash, a
\* raising subscriber or a failed write leaves a receipt or an inbox row open.
THEOREM NothingIsForgotten == Spec => []NothingForgotten
<1>1. LinkInv => NothingForgotten
  BY DEF LinkInv
<1> QED BY <1>1, AlwaysLinked, PTL
=============================================================================
