----------------------------- MODULE AlarmPromise -----------------------------
(***************************************************************************)
(* What the schedule promises about an alarm, whatever crashes, fails or   *)
(* is set on the way: an armed alarm is cancelled or gets one receipt, a   *)
(* receipt is presented at most once, a one-shot alarm rings once and a    *)
(* cancelled alarm never rings again.                                      *)
(***************************************************************************)
EXTENDS Naturals

CONSTANTS Alarms, OneShot

VARIABLES
    armed,     \* alarms that wait for their time
    over,      \* alarms that may not be armed again
    receipts,  \* per alarm: receipts ever issued
    ringing,   \* alarms with a receipt still to be presented
    notices    \* per alarm: presentations

promiseVars == <<armed, over, receipts, ringing, notices>>

Init ==
    /\ armed = {}
    /\ over = {}
    /\ receipts = [a \in Alarms |-> 0]
    /\ ringing = {}
    /\ notices = [a \in Alarms |-> 0]

Arm(a) ==
    /\ a \notin armed \cup over
    /\ armed' = armed \cup {a}
    /\ UNCHANGED <<over, receipts, ringing, notices>>

Cancel(a) ==
    /\ a \in armed
    /\ armed' = armed \ {a}
    /\ over' = over \cup {a}
    /\ UNCHANGED <<receipts, ringing, notices>>

\* One poll: every alarm of `due` gets its receipt, those of `loud` ring.
Fire(due, loud) ==
    /\ loud \subseteq due /\ ringing = {}
    /\ armed' = armed \ due
    /\ over' = over \cup (due \cap OneShot)
    /\ receipts' = [a \in Alarms |-> IF a \in due THEN receipts[a] + 1 ELSE receipts[a]]
    /\ ringing' = loud
    /\ UNCHANGED notices

\* A receipt is presented, or never will be.
Present(a) ==
    /\ a \in ringing
    /\ ringing' = ringing \ {a}
    /\ notices' = [notices EXCEPT ![a] = @ + 1]
    /\ UNCHANGED <<armed, over, receipts>>

Drop(silenced) ==
    /\ ringing' = ringing \ silenced
    /\ UNCHANGED <<armed, over, receipts, notices>>

Next ==
    \/ \E a \in Alarms : Arm(a) \/ Cancel(a) \/ Present(a)
    \/ \E due \in SUBSET armed : \E loud \in SUBSET due : Fire(due, loud)
    \/ \E silenced \in SUBSET ringing : Drop(silenced)

Spec == Init /\ [][Next]_promiseVars
=============================================================================
