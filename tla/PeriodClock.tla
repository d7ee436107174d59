----------------------------- MODULE PeriodClock -----------------------------
(***************************************************************************)
(* A clock that walks through the calendar from each of the days in       *)
(* Starts, Stride hours at a time, for a policy in each of the zones in    *)
(* Names.  At every look a charge may be counted under periodKey and its   *)
(* Redis key set to expire at nextReset; SpendLimits relies on the two     *)
(* fitting together.                                                       *)
(***************************************************************************)
EXTENDS PeriodCalendar

CONSTANTS
    Names,    \* values of the timezone column
    Starts,   \* first dates <<year, month, day>> of the walks
    Span,     \* bound: the days each walk lasts
    Stride    \* bound: the hours between two looks at the clock

ASSUME SpanAssumption == Span \in Nat /\ Stride \in 1..24 /\ 24 % Stride = 0

\* No walk begins on the first day of the calendar or before it.
ASSUME StartAssumption == \A s \in Starts : Date(s[1], s[2], s[3]) \in Nat \ {0}

VARIABLES
    name,   \* the timezone of the policy
    end,    \* the hour at which the walk ends
    now

vars == <<name, end, now>>

tz == loadTimezone(name)

Init ==
    /\ name \in Names
    /\ \E s \in Starts : now = 24 * Date(s[1], s[2], s[3])
    /\ end = now + 24 * Span

\* time.Now() moves on.
Tick ==
    /\ now < end
    /\ now' = now + Stride
    /\ UNCHANGED <<name, end>>

Done == now = end /\ UNCHANGED vars

Next == Tick \/ Done

Spec == Init /\ [][Next]_vars
-----------------------------------------------------------------------------
(***************************************************************************)
(* Properties                                                              *)
(***************************************************************************)

\* EXPIREAT nextReset removes a counter exactly when its bucket ends ("the start
\* of the NEXT bucket"): the reset lies ahead, the hour before it is still counted
\* under the key in use now, and the hour it names is not.
ResetEndsBucket ==
    \A p \in Periods :
        LET reset == nextReset(p, now, tz)
        IN  /\ now < reset
            /\ periodKey(p, reset - 1, tz) = periodKey(p, now, tz)
            /\ periodKey(p, reset, tz) # periodKey(p, now, tz)

Earlier(a, b) == \E i \in DOMAIN a : a[i] < b[i] /\ \A j \in 1..(i - 1) : a[j] = b[j]

\* Time never reaches a key it has left: across week 53, New Year and leap days
\* every change of periodKey is to a key that sorts after all earlier ones, so a
\* new bucket never inherits an old counter.
KeysOnlyAdvance ==
    [][\A p \in Periods :
          \/ periodKey(p, now', tz) = periodKey(p, now, tz)
          \/ Earlier(periodKey(p, now, tz), periodKey(p, now', tz))]_vars
=============================================================================
