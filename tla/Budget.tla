------------------------------- MODULE Budget -------------------------------
(***************************************************************************)
(* What the spending-limit engine promises, with no Redis, no counters and *)
(* no concurrency: a payment is admitted in one indivisible step, only if  *)
(* it fits the remaining budget of every capped period whose bucket is     *)
(* still open, and it is charged to all of its buckets at once.  Denying   *)
(* is always permitted, so a denial is a stuttering step.                  *)
(***************************************************************************)
EXTENDS Integers

CONSTANTS Policies, Periods, Amounts, Cap, LastDay, Buckets, Bucket

VARIABLES clock, spent

Keys == Policies \X Periods \X Buckets

IsOpen(k) == k[3] >= Bucket[k[2]][clock]

Init == /\ clock = 0
        /\ spent = [k \in Keys |-> 0]

\* Policy q admits amount a with the clock sample d.
Admit(q, a, d) ==
    LET touched == {<<q, p, Bucket[p][d]>> : p \in Periods}
    IN  /\ \A k \in touched :
             IsOpen(k) /\ Cap[q][k[2]] > 0 => spent[k] + a <= Cap[q][k[2]]
        /\ spent' = [k \in Keys |-> IF k \in touched THEN spent[k] + a
                                                     ELSE spent[k]]
        /\ UNCHANGED clock

Tick == /\ clock < LastDay
        /\ clock' = clock + 1
        /\ UNCHANGED spent

Next == \/ \E q \in Policies, a \in Amounts, d \in 0..clock : Admit(q, a, d)
        \/ Tick

Spec == Init /\ [][Next]_<<clock, spent>>
=============================================================================
