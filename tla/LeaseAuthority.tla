---------------------------- MODULE LeaseAuthority ----------------------------
(***************************************************************************)
(* What a confirmation lease is, whoever asks, answers and executes: it is *)
(* issued under a new number by the owner of the moment, one at a time; it *)
(* is approved once, by that owner and before its deadline; and it pays    *)
(* for one execution, of the request it was issued for.  An owner that     *)
(* goes leaves no lease behind that could still be approved.               *)
(***************************************************************************)
EXTENDS Naturals

CONSTANT Lifetime   \* how long a lease may be approved

VARIABLES
    clock,     \* the time deadlines are read against
    owner,     \* the number of the present owner
    issued,    \* the last number given out
    live,      \* leases that wait for their answer
    carried,   \* leases that were approved and not yet used
    spent      \* executions a lease paid for

authorityVars == <<clock, owner, issued, live, carried, spent>>

Init ==
    /\ clock = 0 /\ owner = 0 /\ issued = 0
    /\ live = {} /\ carried = {} /\ spent = {}

Issue ==
    /\ \A m \in live : ~(clock < m.deadline)
    /\ \E l \in live' : /\ live' = {l}
                        /\ issued < l.lease /\ issued' = l.lease
                        /\ l.epoch = owner /\ l.deadline = clock + Lifetime
    /\ UNCHANGED <<clock, owner, carried, spent>>

Approve ==
    /\ \E l \in live : /\ l.epoch = owner /\ clock < l.deadline
                       /\ live' = live \ {l}
                       /\ carried' = carried \cup {l}
    /\ UNCHANGED <<clock, owner, issued, spent>>

Execute ==
    /\ \E l \in carried : /\ carried' = carried \ {l}
                          /\ spent' = spent \cup {[request |-> l.request, lease |-> l]}
    /\ UNCHANGED <<clock, owner, issued, live>>

\* Refused, expired or given up; numbers may be skipped, a new owner starts bare.
Withdraw ==
    /\ live' \subseteq live /\ carried' \subseteq carried
    /\ issued' >= issued /\ owner' >= owner
    /\ owner' # owner => live' = {}
    /\ UNCHANGED <<clock, spent>>

Tick ==
    /\ clock' = clock + 1
    /\ UNCHANGED <<owner, issued, live, carried, spent>>

Next == Issue \/ Approve \/ Execute \/ Withdraw \/ Tick

Spec == Init /\ [][Next]_authorityVars
=============================================================================
