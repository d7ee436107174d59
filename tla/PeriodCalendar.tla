---------------------------- MODULE PeriodCalendar ----------------------------
(***************************************************************************)
(* The bucket arithmetic of internal/limits/period.go: the key a charge is *)
(* counted under and the instant at which Redis lets that key expire.      *)
(*                                                                         *)
(* An instant is a number of hours since 0001-01-01 00:00 UTC, a Monday;   *)
(* a date is a number of days since then.  A zone is its distance from     *)
(* UTC in hours (every policy the service writes says "UTC"; zones that    *)
(* change their distance are left out).  The calendar of Go's time package *)
(* is written as arithmetic, its carrying of month 13 included.            *)
(***************************************************************************)
EXTENDS Integers

CONSTANT Offset   \* Offset[name]: hours between UTC and each zone known by name

ASSUME OffsetAssumption == Offset \in [DOMAIN Offset -> -12..14]

Periods == {"daily", "weekly", "monthly"}

\* loadTimezone: an empty or unknown name is UTC.
loadTimezone(name) == IF name \in DOMAIN Offset THEN Offset[name] ELSE 0
-----------------------------------------------------------------------------
(***************************************************************************)
(* Package time                                                            *)
(***************************************************************************)
IsLeap(y)     == y % 4 = 0 /\ (y % 100 # 0 \/ y % 400 = 0)
YearStart(y)  == 365 * (y - 1) + (y - 1) \div 4 - (y - 1) \div 100 + (y - 1) \div 400
BeforeMonth   == <<0, 31, 59, 90, 120, 151, 181, 212, 243, 273, 304, 334>>
MonthStart(y, m) == YearStart(y) + BeforeMonth[m] + IF m > 2 /\ IsLeap(y) THEN 1 ELSE 0

\* Variant: month 13 stays in the same year.
DateWithinYear(y, m, d) == MonthStart(y, ((m - 1) % 12) + 1) + d - 1

\* time.Date: months outside 1..12 carry into the year.
Date(y, m, d) == MonthStart(y + (m - 1) \div 12, ((m - 1) % 12) + 1) + d - 1

Year(day)    == CHOOSE y \in (day \div 366 + 1)..(day \div 365 + 1) :
                    YearStart(y) <= day /\ day < YearStart(y + 1)
Month(day)   == CHOOSE m \in 1..12 :
                    /\ MonthStart(Year(day), m) <= day
                    /\ m < 12 => day < MonthStart(Year(day), m + 1)

\* time.Sunday = 0, time.Monday = 1, and so on.
Weekday(day) == (day + 1) % 7

\* ISOWeek: a week belongs to the year of its Thursday.
Thursday(day) == day - (day % 7) + 3
ISOYear(day)  == Year(Thursday(day))
ISOWeek(day)  == (Thursday(day) - YearStart(ISOYear(day))) \div 7 + 1

\* now.In(tz), as a date: what the clock on the wall says there.
LocalDay(now, tz) == (now + tz) \div 24

\* Midnight of a local date, as an instant.
Midnight(day, tz) == 24 * day - tz
-----------------------------------------------------------------------------
(***************************************************************************)
(* period.go                                                               *)
(***************************************************************************)

\* Variant: the week number is written beside the calendar year.
periodKeyOfCalendarYear(p, now, tz) ==
    LET local == LocalDay(now, tz)
    IN  CASE p = "daily"   -> <<local>>
          [] p = "weekly"  -> <<Year(local), ISOWeek(local)>>
          [] p = "monthly" -> <<Year(local), Month(local)>>

\* periodKey, most significant part first: the date, year and ISO week, or year
\* and month.
periodKey(p, now, tz) ==
    LET local == LocalDay(now, tz)
    IN  CASE p = "daily"   -> <<local>>
          [] p = "weekly"  -> <<ISOYear(local), ISOWeek(local)>>
          [] p = "monthly" -> <<Year(local), Month(local)>>

\* Variant: the distance modulo seven, with no case for a Monday.
daysUntilMondayOrToday(w) == (1 - w + 7) % 7

\* daysUntilMonday: from a Monday it is a whole week.
daysUntilMonday(w) == IF w = 1 THEN 7 ELSE (1 - w + 7) % 7

\* nextReset: the start of the next bucket.
nextReset(p, now, tz) ==
    LET local == LocalDay(now, tz)
    IN  CASE p = "daily"   -> Midnight(local + 1, tz)
          [] p = "weekly"  -> Midnight(local + daysUntilMonday(Weekday(local)), tz)
          [] p = "monthly" -> Midnight(Date(Year(local), Month(local) + 1, 1), tz)
=============================================================================
