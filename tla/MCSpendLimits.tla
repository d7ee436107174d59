---------------------------- MODULE MCSpendLimits ----------------------------
(* Instance of SpendLimits for TLC: two policies, and two days of one month *)
(* that lie in different weeks.  Under q1 two payments of 2 on the two days *)
(* pass the daily and the weekly cap and burst the monthly one, so two      *)
(* charges are rolled back; under q2 two payments of 1 burst the weekly     *)
(* cap with the daily charge held.                                          *)
EXTENDS SpendLimits

CONSTANTS q1, q2

MCStoredCap ==
    [q \in Policies |-> IF q = q1 THEN <<2, 2, 3>> ELSE <<2, 1, 0>>]
MCPerTx   == [q \in Policies |-> IF q = q1 THEN NoPerTx ELSE 1]
MCBlocked == [q \in Policies |-> IF q = q1 THEN {} ELSE {"mallory"}]
MCExpiry  == [q \in Policies |-> IF q = q1 THEN 9 ELSE 0]
MCBucket  == << [d \in Days |-> d],
                [d \in Days |-> d],
                [d \in Days |-> 0] >>

\* These are the buckets of the calendar when day 0 is Sunday 2026-05-24, numbered
\* in the order in which their keys appear.
Cal == INSTANCE PeriodCalendar WITH Offset <- [z \in {"UTC"} |-> 0]

At(y, m, d, hour) == 24 * Cal!Date(y, m, d) + hour
KeyOn(p, d) == Cal!periodKey(p, At(2026, 5, 24 + d, 12), 0)
Number(p)   == [d \in Days |-> Cardinality({KeyOn(p, e) : e \in 0..d}) - 1]

ASSUME BucketsOfCalendar ==
    MCBucket = <<Number("daily"), Number("weekly"), Number("monthly")>>

\* The calendar agrees with the cases of period_test.go.
ASSUME TestedKeys ==
    /\ Cal!periodKey("weekly", At(2026, 5, 21, 14), 0) = <<2026, 21>>
    /\ Cal!periodKey("monthly", At(2026, 5, 21, 14), 0) = <<2026, 5>>

ASSUME TestedResets ==
    /\ \A d \in {18, 21, 24} :
         Cal!nextReset("weekly", At(2026, 5, d, 9), 0) = At(2026, 5, 25, 0)
    /\ Cal!nextReset("monthly", At(2026, 5, 21, 14), 0) = At(2026, 6, 1, 0)
    /\ Cal!nextReset("monthly", At(2026, 12, 31, 23), 0) = At(2027, 1, 1, 0)
=============================================================================
