-------------------------- MODULE PeriodClockProofs --------------------------
(***************************************************************************)
(* Proofs about PeriodCalendar and PeriodClock, for every instant, every   *)
(* zone and every walk of the clock.                                       *)
(*                                                                         *)
(* A day is taken apart the way the calendar repeats itself: 400 years,    *)
(* then centuries, then four years, then years.  That gives a witness for  *)
(* the year a day lies in, and YearStart being strictly monotone makes it  *)
(* the only one; the months of a year are twelve cases.  Everything else   *)
(* follows from each bucket being the days from one start to the next.     *)
(***************************************************************************)
EXTENDS PeriodClock, TLAPS

\* The key and the reset of a day, without zones.
KeyOfDay(p, day) ==
    CASE p = "daily"   -> <<day>>
      [] p = "weekly"  -> <<ISOYear(day), ISOWeek(day)>>
      [] p = "monthly" -> <<Year(day), Month(day)>>

ResetDay(p, day) ==
    CASE p = "daily"   -> day + 1
      [] p = "weekly"  -> day + daysUntilMonday(Weekday(day))
      [] p = "monthly" -> Date(Year(day), Month(day) + 1, 1)

InYear(day, y) == YearStart(y) <= day /\ day < YearStart(y + 1)

InMonth(day, y, m) == /\ MonthStart(y, m) <= day
                      /\ m < 12 => day < MonthStart(y, m + 1)
-----------------------------------------------------------------------------
(***************************************************************************)
(* Years                                                                   *)
(***************************************************************************)

\* The first days of the years are numbers in strictly increasing order.
LEMMA YearStartGrows ==
  ASSUME NEW y \in Int, NEW z \in Int, y < z
  PROVE  YearStart(y) \in Int /\ YearStart(z) \in Int /\ YearStart(y) < YearStart(z)
BY SMT DEF YearStart

\* The first day of a year is a number.
LEMMA YearStartType == ASSUME NEW y \in Int PROVE YearStart(y) \in Int
BY SMT DEF YearStart

\* A year is 365 days long, a leap year 366.
LEMMA YearLength ==
  ASSUME NEW y \in Int
  PROVE  YearStart(y + 1) = YearStart(y) + IF IsLeap(y) THEN 366 ELSE 365
BY SMT DEF YearStart, IsLeap

\* Every day from the first on lies in a year, among those Year looks at.
LEMMA YearExists ==
  ASSUME NEW day \in Nat
  PROVE  \E y \in (day \div 366 + 1)..(day \div 365 + 1) : InYear(day, y)
<1>1. PICK a \in Nat, r4 \in Nat : day = 146097 * a + r4 /\ r4 < 146097
  <2>1. /\ day \div 146097 \in Nat
        /\ 146097 * (day \div 146097) <= day
        /\ day < 146097 * (day \div 146097) + 146097
    BY SMT
  <2> QED BY <2>1, SMT
<1>2. PICK b \in 0..3, r1 \in Nat : /\ r4 = 36524 * b + r1 /\ r1 <= 36524
                                    /\ r1 = 36524 => b = 3
  <2>1. CASE r4 < 36524
    BY <2>1, <1>1, SMT
  <2>2. CASE 36524 <= r4 /\ r4 < 73048
    <3>1. r4 = 36524 * 1 + (r4 - 36524) /\ r4 - 36524 \in Nat /\ r4 - 36524 < 36524
      BY <2>2, <1>1, SMT
    <3> QED BY <3>1, SMT
  <2>3. CASE 73048 <= r4 /\ r4 < 109572
    <3>1. r4 = 36524 * 2 + (r4 - 73048) /\ r4 - 73048 \in Nat /\ r4 - 73048 < 36524
      BY <2>3, <1>1, SMT
    <3> QED BY <3>1, SMT
  <2>4. CASE 109572 <= r4
    <3>1. r4 = 36524 * 3 + (r4 - 109572) /\ r4 - 109572 \in Nat /\ r4 - 109572 <= 36524
      BY <2>4, <1>1, SMT
    <3> QED BY <3>1, SMT
  <2> QED BY <1>1, <2>1, <2>2, <2>3, <2>4, SMT
<1>3. PICK c \in 0..24, r0 \in 0..1460 : r1 = 1461 * c + r0
  <2>1. PICK c \in 0..24 : 1461 * c <= r1 /\ r1 < 1461 * c + 1461
    <3>1. /\ r1 \div 1461 \in 0..24
          /\ 1461 * (r1 \div 1461) <= r1
          /\ r1 < 1461 * (r1 \div 1461) + 1461
      BY <1>2, SMT
    <3> QED BY <3>1
  <2>2. PICK r0 \in 0..1460 : r0 = r1 - 1461 * c
    BY <2>1, SMT
  <2>3. r1 = 1461 * c + r0
    BY <2>2, SMT
  <2> WITNESS c \in 0..24, r0 \in 0..1460
  <2> QED BY <2>3
<1>4. PICK d \in 0..3, e \in 0..365 : r0 = 365 * d + e /\ (e = 365 => d = 3)
  BY SMT
<1> DEFINE k == 400 * a + 100 * b + 4 * c + d
<1>5. k \in Nat /\ k \div 4 = 100 * a + 25 * b + c
      /\ k \div 100 = 4 * a + b /\ k \div 400 = a
  BY SMT
<1>6. day = 365 * k + k \div 4 - k \div 100 + k \div 400 + e
  BY <1>1, <1>2, <1>3, <1>4, <1>5, SMT
<1>7. e = 365 => c < 24 \/ b = 3
  BY <1>2, <1>3, <1>4, SMT
<1>8. InYear(day, k + 1)
  <2>1. YearStart(k + 1) = 365 * k + k \div 4 - k \div 100 + k \div 400
    BY <1>5, SMT DEF YearStart
  <2>2. e = 365 => IsLeap(k + 1)
    <3> SUFFICES ASSUME e = 365 PROVE IsLeap(k + 1)
      OBVIOUS
    <3>1. k + 1 = 400 * a + 100 * b + 4 * c + 4
      BY <1>4, SMT
    <3>2. c < 24 \/ (c = 24 /\ b = 3)
      BY <1>7, SMT
    <3> HIDE DEF k
    <3> QED BY <1>5, <3>1, <3>2, SMT DEF IsLeap
  <2> HIDE DEF k
  <2>3. YearStart(k + 1 + 1) = YearStart(k + 1) + IF IsLeap(k + 1) THEN 366 ELSE 365
    BY <1>5, YearLength
  <2>4. YearStart(k + 1) \in Int
    BY <1>5, YearStartType
  <2>5. day = YearStart(k + 1) + e
    BY <2>1, <1>6
  <2> QED BY <2>2, <2>3, <2>4, <2>5, SMT DEF InYear
<1> HIDE DEF k
<1>9. k + 1 \in (day \div 366 + 1)..(day \div 365 + 1)
  BY <1>5, <1>6, SMT
<1> QED BY <1>8, <1>9

\* Year finds the year a day lies in.
LEMMA YearOf ==
  ASSUME NEW day \in Nat
  PROVE  Year(day) \in Int /\ InYear(day, Year(day))
<1> DEFINE Among == (day \div 366 + 1)..(day \div 365 + 1)
<1>1. Year(day) = CHOOSE y \in Among : InYear(day, y)
  BY DEF Year, InYear
<1>2. \E y \in Among : InYear(day, y)
  BY YearExists
<1>3. \A y \in Among : y \in Int
  BY SMT
<1> HIDE DEF Among
<1>4. (CHOOSE y \in Among : InYear(day, y)) \in Among
      /\ InYear(day, CHOOSE y \in Among : InYear(day, y))
  BY <1>2, Zenon
<1> QED BY <1>1, <1>3, <1>4, Zenon

\* A later day lies in the same year or in a later one.
LEMMA YearAdvances ==
  ASSUME NEW d \in Nat, NEW e \in Nat, d <= e
  PROVE  Year(d) <= Year(e)
<1>1. /\ Year(d) \in Int /\ YearStart(Year(d)) <= d
      /\ Year(e) \in Int /\ e < YearStart(Year(e) + 1)
  BY YearOf DEF InYear
<1>2. ASSUME Year(e) < Year(d) PROVE FALSE
  <2>1. YearStart(Year(e) + 1) <= YearStart(Year(d))
    <3>1. CASE Year(e) + 1 = Year(d)
      BY <3>1, <1>1, YearStartType, SMT
    <3>2. CASE Year(e) + 1 < Year(d)
      BY <3>2, <1>1, YearStartGrows, SMT
    <3> QED BY <3>1, <3>2, <1>1, <1>2, SMT
  <2>2. YearStart(Year(e) + 1) \in Int /\ YearStart(Year(d)) \in Int
    BY <1>1, YearStartType, SMT
  <2> QED BY <2>1, <2>2, <1>1, SMT
<1> QED BY <1>1, <1>2, SMT

\* The year a day lies in is the only one.
LEMMA YearIs ==
  ASSUME NEW day \in Nat, NEW y \in Int, InYear(day, y)
  PROVE  Year(day) = y
<1>1. Year(day) \in Int /\ InYear(day, Year(day))
  BY YearOf
<1>2. ASSUME NEW x \in Int, NEW z \in Int, x < z, InYear(day, x), InYear(day, z)
      PROVE  FALSE
  <2>1. YearStart(x + 1) <= YearStart(z)
    <3>1. CASE x + 1 = z
      BY <3>1, YearStartType, SMT
    <3>2. CASE x + 1 < z
      BY <3>2, YearStartGrows, SMT
    <3> QED BY <3>1, <3>2, <1>2, SMT
  <2>2. YearStart(x + 1) \in Int /\ YearStart(z) \in Int
    BY YearStartType, SMT
  <2> QED BY <2>1, <2>2, <1>2, SMT DEF InYear
<1> QED BY <1>1, <1>2, SMT
-----------------------------------------------------------------------------
(***************************************************************************)
(* Months                                                                  *)
(***************************************************************************)

\* The twelve first days, counted from the start of the year.
LEMMA MonthTable ==
  ASSUME NEW y \in Int
  PROVE  LET leap == IF IsLeap(y) THEN 1 ELSE 0
             first == YearStart(y)
         IN  /\ MonthStart(y, 1) = first
             /\ MonthStart(y, 2) = first + 31
             /\ MonthStart(y, 3) = first + 59 + leap
             /\ MonthStart(y, 4) = first + 90 + leap
             /\ MonthStart(y, 5) = first + 120 + leap
             /\ MonthStart(y, 6) = first + 151 + leap
             /\ MonthStart(y, 7) = first + 181 + leap
             /\ MonthStart(y, 8) = first + 212 + leap
             /\ MonthStart(y, 9) = first + 243 + leap
             /\ MonthStart(y, 10) = first + 273 + leap
             /\ MonthStart(y, 11) = first + 304 + leap
             /\ MonthStart(y, 12) = first + 334 + leap
BY YearStartType, SMT DEF MonthStart, BeforeMonth

\* The first days of the months of a year are in strictly increasing order and
\* the last month ends with the year.
LEMMA MonthStartGrows ==
  ASSUME NEW y \in Int, NEW m \in 1..12, NEW n \in 1..12
  PROVE  /\ MonthStart(y, m) \in Int
         /\ m < n => MonthStart(y, m) < MonthStart(y, n)
         /\ YearStart(y) <= MonthStart(y, m)
         /\ MonthStart(y, m) < YearStart(y + 1)
<1> DEFINE leap == IF IsLeap(y) THEN 1 ELSE 0
<1>1. leap \in 0..1 /\ YearStart(y) \in Int
      /\ YearStart(y + 1) = YearStart(y) + 365 + leap
  BY YearStartType, YearLength, SMT
<1>2. m \in {1, 2, 3, 4, 5, 6, 7, 8, 9, 10, 11, 12}
      /\ n \in {1, 2, 3, 4, 5, 6, 7, 8, 9, 10, 11, 12}
  BY SMT
<1>3. /\ MonthStart(y, 1) = YearStart(y)
      /\ MonthStart(y, 2) = YearStart(y) + 31
      /\ MonthStart(y, 3) = YearStart(y) + 59 + leap
      /\ MonthStart(y, 4) = YearStart(y) + 90 + leap
      /\ MonthStart(y, 5) = YearStart(y) + 120 + leap
      /\ MonthStart(y, 6) = YearStart(y) + 151 + leap
      /\ MonthStart(y, 7) = YearStart(y) + 181 + leap
      /\ MonthStart(y, 8) = YearStart(y) + 212 + leap
      /\ MonthStart(y, 9) = YearStart(y) + 243 + leap
      /\ MonthStart(y, 10) = YearStart(y) + 273 + leap
      /\ MonthStart(y, 11) = YearStart(y) + 304 + leap
      /\ MonthStart(y, 12) = YearStart(y) + 334 + leap
  BY MonthTable
<1> HIDE DEF leap
<1> QED BY <1>1, <1>2, <1>3, SMT

\* Every day of a year lies in one of its months.
LEMMA MonthExists ==
  ASSUME NEW day \in Nat, NEW y \in Int, InYear(day, y)
  PROVE  \E m \in 1..12 : InMonth(day, y, m)
<1>1. MonthStart(y, 1) <= day
  BY MonthTable DEF InYear
<1>2. \A m \in 1..12 : MonthStart(y, m) \in Int
  BY MonthStartGrows
<1>3. ASSUME \A m \in 1..12 : ~ InMonth(day, y, m)
      PROVE  FALSE
  <2>1. \A m \in 1..11 : MonthStart(y, m) <= day => MonthStart(y, m + 1) <= day
    BY <1>2, <1>3, SMT DEF InMonth
  <2>2. /\ MonthStart(y, 2) <= day /\ MonthStart(y, 3) <= day
        /\ MonthStart(y, 4) <= day /\ MonthStart(y, 5) <= day
        /\ MonthStart(y, 6) <= day /\ MonthStart(y, 7) <= day
        /\ MonthStart(y, 8) <= day /\ MonthStart(y, 9) <= day
        /\ MonthStart(y, 10) <= day /\ MonthStart(y, 11) <= day
        /\ MonthStart(y, 12) <= day
    BY <1>1, <2>1, SMT
  <2>3. InMonth(day, y, 12)
    BY <2>2, SMT DEF InMonth
  <2> QED BY <1>3, <2>3, SMT
<1> QED BY <1>3

\* Month finds the month a day lies in.
LEMMA MonthOf ==
  ASSUME NEW day \in Nat
  PROVE  Month(day) \in 1..12 /\ InMonth(day, Year(day), Month(day))
<1>1. Month(day) = CHOOSE m \in 1..12 : InMonth(day, Year(day), m)
  BY DEF Month, InMonth
<1>2. \E m \in 1..12 : InMonth(day, Year(day), m)
  BY YearOf, MonthExists
<1>3. /\ (CHOOSE m \in 1..12 : InMonth(day, Year(day), m)) \in 1..12
      /\ InMonth(day, Year(day), CHOOSE m \in 1..12 : InMonth(day, Year(day), m))
  BY <1>2, Zenon
<1> QED BY <1>1, <1>3, Zenon

\* A day in month n of a year does not come before one in a later month of it.
LEMMA MonthOrder ==
  ASSUME NEW y \in Int, NEW m \in 1..12, NEW n \in 1..12, NEW d \in Nat, NEW e \in Nat,
         d <= e, InMonth(d, y, m), InMonth(e, y, n)
  PROVE  m <= n
<1>1. ASSUME n < m PROVE FALSE
  <2>1. n + 1 \in 1..12 /\ n < 12
    BY <1>1, SMT
  <2>2. MonthStart(y, n + 1) <= MonthStart(y, m)
    <3>1. ASSUME NEW l \in 1..12, l <= m
          PROVE  MonthStart(y, l) <= MonthStart(y, m)
      <4>1. MonthStart(y, l) \in Int /\ MonthStart(y, m) \in Int
            /\ (l < m => MonthStart(y, l) < MonthStart(y, m))
        BY MonthStartGrows
      <4>2. l = m \/ l < m
        BY <3>1, SMT
      <4> QED BY <4>1, <4>2, SMT
    <3>2. n + 1 <= m
      BY <1>1, SMT
    <3> QED BY <3>1, <3>2, <2>1
  <2>3. MonthStart(y, n + 1) \in Int /\ MonthStart(y, m) \in Int
    BY <2>1, MonthStartGrows
  <2>4. MonthStart(y, m) <= d /\ e < MonthStart(y, n + 1)
    BY <2>1 DEF InMonth
  <2> QED BY <2>2, <2>3, <2>4, SMT
<1> QED BY <1>1, SMT

\* The month a day lies in is the only one.
LEMMA MonthIs ==
  ASSUME NEW day \in Nat, NEW m \in 1..12, InMonth(day, Year(day), m)
  PROVE  Month(day) = m
<1>1. /\ Month(day) \in 1..12 /\ InMonth(day, Year(day), Month(day))
      /\ Year(day) \in Int
  BY MonthOf, YearOf
<1>2. day <= day
  BY SMT
<1>3. Month(day) <= m
  BY <1>1, <1>2, MonthOrder, Zenon
<1>4. m <= Month(day)
  BY <1>1, <1>2, MonthOrder, Zenon
<1> QED BY <1>1, <1>3, <1>4, SMT

\* time.Date(y, m + 1, 1) is the day after the last one of the month, December
\* included.
LEMMA NextMonth ==
  ASSUME NEW y \in Int, NEW m \in 1..12
  PROVE  Date(y, m + 1, 1) = IF m < 12 THEN MonthStart(y, m + 1) ELSE YearStart(y + 1)
<1>1. CASE m < 12
  <2>1. m \div 12 = 0 /\ m % 12 = m
    BY <1>1, SMT
  <2>2. m + 1 - 1 = m /\ y + 0 = y /\ m + 1 \in 1..12
    BY <1>1, SMT
  <2>3. MonthStart(y, m + 1) \in Int
    BY <2>2, MonthStartGrows
  <2>4. Date(y, m + 1, 1) = MonthStart(y, m + 1) + 1 - 1
    BY <2>1, <2>2 DEF Date
  <2> QED BY <1>1, <2>3, <2>4, SMT
<1>2. CASE m = 12
  <2>1. (12 + 1 - 1) \div 12 = 1 /\ ((12 + 1 - 1) % 12) + 1 = 1
    BY SMT
  <2>2. MonthStart(y + 1, 1) = YearStart(y + 1) /\ YearStart(y + 1) \in Int
    BY MonthTable, YearStartType, SMT
  <2>3. Date(y, m + 1, 1) = MonthStart(y + 1, 1) + 1 - 1
    BY <1>2, <2>1 DEF Date
  <2> QED BY <1>2, <2>2, <2>3, SMT
<1> QED BY <1>1, <1>2, SMT
-----------------------------------------------------------------------------
(***************************************************************************)
(* Weeks                                                                   *)
(***************************************************************************)

\* A day is day r of week q, counted from the first Monday.
LEMMA WeekAndDay ==
  ASSUME NEW day \in Nat
  PROVE  \E q \in Nat, r \in 0..6 : day = 7 * q + r
<1>1. PICK q \in Nat : 7 * q <= day /\ day < 7 * q + 7
  <2>1. day \div 7 \in Nat /\ 7 * (day \div 7) <= day /\ day < 7 * (day \div 7) + 7
    BY SMT
  <2> QED BY <2>1
<1>2. PICK r \in 0..6 : r = day - 7 * q
  BY <1>1, SMT
<1>3. day = 7 * q + r
  BY <1>2, SMT
<1> WITNESS q \in Nat, r \in 0..6
<1> QED BY <1>3

\* The seven days of a week share their Thursday, and from each of them the next
\* Monday is the first day of the week that follows.
LEMMA WeekFacts ==
  ASSUME NEW q \in Nat, NEW r \in 0..6
  PROVE  /\ Thursday(7 * q + r) = 7 * q + 3
         /\ ResetDay("weekly", 7 * q + r) = 7 * q + 7
<1> DEFINE day == 7 * q + r
<1>1. day % 7 = r /\ day \in Int
  BY SMT
<1>2. (day + 1) % 7 = IF r = 6 THEN 0 ELSE r + 1
  BY SMT
<1> HIDE DEF day
<1>3. Thursday(day) = day - r + 3
  BY <1>1 DEF Thursday
<1>4. daysUntilMonday(Weekday(day)) = 7 - r
  <2>1. Weekday(day) = IF r = 6 THEN 0 ELSE r + 1
    BY <1>2 DEF Weekday
  <2>2. r \in {0, 1, 2, 3, 4, 5, 6}
    BY SMT
  <2> QED BY <2>1, <2>2, SMT DEF daysUntilMonday
<1>5. ResetDay("weekly", day) = day + (7 - r)
  BY <1>4 DEF ResetDay
<1> QED BY <1>3, <1>5, SMT DEF day

\* Year and number of the week whose Thursday is t.
WeekOf(t) == (t - YearStart(Year(t))) \div 7 + 1

\* The key of a week is its Thursday's.
LEMMA WeekKey ==
  ASSUME NEW q \in Nat, NEW r \in 0..6
  PROVE  KeyOfDay("weekly", 7 * q + r) = <<Year(7 * q + 3), WeekOf(7 * q + 3)>>
BY WeekFacts DEF KeyOfDay, ISOYear, ISOWeek, WeekOf

\* A later week has a later year, or the same year and a greater number.
LEMMA WeekAdvances ==
  ASSUME NEW s \in Nat, NEW t \in Nat, s + 7 <= t
  PROVE  /\ Year(s) \in Int /\ Year(t) \in Int
         /\ WeekOf(s) \in Int /\ WeekOf(t) \in Int
         /\ \/ Year(s) < Year(t)
            \/ Year(s) = Year(t) /\ WeekOf(s) < WeekOf(t)
<1>1. Year(s) \in Int /\ Year(t) \in Int /\ Year(s) <= Year(t)
  BY YearOf, YearAdvances, SMT
<1>2. YearStart(Year(s)) \in Int /\ YearStart(Year(t)) \in Int
  BY <1>1, YearStartType
<1>3. WeekOf(s) \in Int /\ WeekOf(t) \in Int
  BY <1>2, SMT DEF WeekOf
<1>4. Year(s) = Year(t) => WeekOf(s) < WeekOf(t)
  BY <1>2, SMT DEF WeekOf
<1> QED BY <1>1, <1>3, <1>4, SMT
-----------------------------------------------------------------------------
(***************************************************************************)
(* Buckets of days                                                         *)
(***************************************************************************)

\* How to compare two keys of one part, and two keys of two.
LEMMA EarlierKeys ==
  ASSUME NEW a \in Int, NEW b \in Int, NEW c \in Int, NEW d \in Int
  PROVE  /\ a < c => Earlier(<<a>>, <<c>>)
         /\ a < c \/ (a = c /\ b < d) => Earlier(<<a, b>>, <<c, d>>)
<1>1. ASSUME a < c PROVE Earlier(<<a>>, <<c>>)
  <2>1. 1 \in DOMAIN <<a>> /\ <<a>>[1] < <<c>>[1] /\ 1..(1 - 1) = {}
    BY <1>1
  <2> QED BY <2>1 DEF Earlier
<1>2. ASSUME a < c PROVE Earlier(<<a, b>>, <<c, d>>)
  <2>1. 1 \in DOMAIN <<a, b>> /\ <<a, b>>[1] < <<c, d>>[1] /\ 1..(1 - 1) = {}
    BY <1>2
  <2> QED BY <2>1 DEF Earlier
<1>3. ASSUME a = c, b < d PROVE Earlier(<<a, b>>, <<c, d>>)
  <2>1. /\ 2 \in DOMAIN <<a, b>> /\ <<a, b>>[2] < <<c, d>>[2]
        /\ \A j \in 1..(2 - 1) : <<a, b>>[j] = <<c, d>>[j]
    BY <1>3
  <2> QED BY <2>1 DEF Earlier
<1> QED BY <1>1, <1>2, <1>3

\* As the days pass the keys stay or advance.
LEMMA KeyOrder ==
  ASSUME NEW p \in Periods, NEW d \in Nat, NEW e \in Nat, d <= e
  PROVE  \/ KeyOfDay(p, e) = KeyOfDay(p, d)
         \/ Earlier(KeyOfDay(p, d), KeyOfDay(p, e))
<1>1. CASE p = "daily"
  <2>1. KeyOfDay(p, d) = <<d>> /\ KeyOfDay(p, e) = <<e>>
    BY <1>1 DEF KeyOfDay
  <2>2. d = e \/ d < e
    BY SMT
  <2>3. d \in Int /\ e \in Int
    BY SMT
  <2>4. d < e => Earlier(<<d>>, <<e>>)
    BY <2>3, EarlierKeys, Zenon
  <2> QED BY <2>1, <2>2, <2>4
<1>2. CASE p = "weekly"
  <2>1. PICK q \in Nat, r \in 0..6 : d = 7 * q + r
    BY WeekAndDay
  <2>2. PICK u \in Nat, v \in 0..6 : e = 7 * u + v
    BY WeekAndDay
  <2>3. /\ KeyOfDay(p, d) = <<Year(7 * q + 3), WeekOf(7 * q + 3)>>
        /\ KeyOfDay(p, e) = <<Year(7 * u + 3), WeekOf(7 * u + 3)>>
    BY <1>2, <2>1, <2>2, WeekKey
  <2>4. q = u \/ q < u
    BY <2>1, <2>2, SMT
  <2>5. CASE q = u
    BY <2>3, <2>5
  <2>6. CASE q < u
    <3>1. 7 * q + 3 \in Nat /\ 7 * u + 3 \in Nat /\ 7 * q + 3 + 7 <= 7 * u + 3
      BY <2>6, SMT
    <3> DEFINE s == 7 * q + 3
               t == 7 * u + 3
    <3> HIDE DEF s, t
    <3>2. /\ Year(s) \in Int /\ Year(t) \in Int
          /\ WeekOf(s) \in Int /\ WeekOf(t) \in Int
          /\ \/ Year(s) < Year(t)
             \/ Year(s) = Year(t) /\ WeekOf(s) < WeekOf(t)
      BY <3>1, WeekAdvances DEF s, t
    <3>3. Earlier(<<Year(s), WeekOf(s)>>, <<Year(t), WeekOf(t)>>)
      BY <3>2, EarlierKeys
    <3> QED BY <2>3, <3>3 DEF s, t
  <2> QED BY <2>4, <2>5, <2>6
<1>3. CASE p = "monthly"
  <2>1. /\ KeyOfDay(p, d) = <<Year(d), Month(d)>>
        /\ KeyOfDay(p, e) = <<Year(e), Month(e)>>
    BY <1>3 DEF KeyOfDay
  <2>2. /\ Year(d) \in Int /\ Year(e) \in Int /\ Year(d) <= Year(e)
        /\ Month(d) \in 1..12 /\ Month(e) \in 1..12
        /\ InMonth(d, Year(d), Month(d)) /\ InMonth(e, Year(e), Month(e))
    BY YearOf, YearAdvances, MonthOf
  <2>3. Year(d) = Year(e) => Month(d) <= Month(e)
    BY <2>2, MonthOrder
  <2>4. \/ Year(d) < Year(e) \/ (Year(d) = Year(e) /\ Month(d) < Month(e))
        \/ (Year(d) = Year(e) /\ Month(d) = Month(e))
    BY <2>2, <2>3, SMT
  <2>5. Month(d) \in Int /\ Month(e) \in Int
    BY <2>2, SMT
  <2> QED BY <2>1, <2>2, <2>4, <2>5, EarlierKeys
<1> QED BY <1>1, <1>2, <1>3 DEF Periods

\* The days from one until its reset make up the rest of its bucket: they have
\* its key, and the day of the reset has another.
LEMMA BucketOfDays ==
  ASSUME NEW p \in Periods, NEW d \in Nat
  PROVE  /\ ResetDay(p, d) \in Nat /\ d < ResetDay(p, d)
         /\ \A e \in Nat : /\ d <= e
                           /\ e < ResetDay(p, d)
                           => KeyOfDay(p, e) = KeyOfDay(p, d)
         /\ KeyOfDay(p, ResetDay(p, d)) # KeyOfDay(p, d)
<1>1. CASE p = "daily"
  <2>1. ResetDay(p, d) = d + 1 /\ \A e : KeyOfDay(p, e) = <<e>>
    BY <1>1 DEF ResetDay, KeyOfDay
  <2>2. \A e \in Nat : d <= e /\ e < d + 1 => e = d
    BY SMT
  <2>3. <<d + 1>> # <<d>>
    BY SMT
  <2> QED BY <2>1, <2>2, <2>3
<1>2. CASE p = "weekly"
  <2>1. PICK q \in Nat, r \in 0..6 : d = 7 * q + r
    BY WeekAndDay
  <2> DEFINE s == 7 * q + 3
             t == 7 * (q + 1) + 3
  <2>2. /\ ResetDay(p, d) = 7 * q + 7
        /\ KeyOfDay(p, d) = <<Year(s), WeekOf(s)>>
    BY <1>2, <2>1, WeekFacts, WeekKey
  <2>3. ASSUME NEW e \in Nat, d <= e, e < 7 * q + 7
        PROVE  KeyOfDay(p, e) = KeyOfDay(p, d)
    <3>1. PICK v \in 0..6 : v = e - 7 * q
      BY <2>1, <2>3, SMT
    <3>2. e = 7 * q + v
      BY <3>1, SMT
    <3> QED BY <1>2, <2>2, <3>2, WeekKey
  <2>4. KeyOfDay(p, 7 * q + 7) = <<Year(t), WeekOf(t)>>
    <3>1. q + 1 \in Nat /\ 0 \in 0..6 /\ 7 * q + 7 = 7 * (q + 1) + 0
      BY SMT
    <3>2. KeyOfDay("weekly", 7 * (q + 1) + 0) = <<Year(t), WeekOf(t)>>
      BY <3>1, WeekKey
    <3> QED BY <1>2, <3>1, <3>2
  <2>5. s \in Nat /\ t \in Nat /\ s + 7 <= t
    BY SMT
  <2> HIDE DEF s, t
  <2>6. \/ Year(s) # Year(t)
        \/ WeekOf(s) # WeekOf(t)
    BY <2>5, WeekAdvances, SMT
  <2>7. <<Year(t), WeekOf(t)>> # <<Year(s), WeekOf(s)>>
    BY <2>6
  <2>8. 7 * q + 7 \in Nat /\ d < 7 * q + 7
    BY <2>1, SMT
  <2> QED BY <2>2, <2>3, <2>4, <2>7, <2>8
<1>3. CASE p = "monthly"
  <2> DEFINE y == Year(d)
             m == Month(d)
             R == IF m < 12 THEN MonthStart(y, m + 1) ELSE YearStart(y + 1)
  <2>1. y \in Int /\ m \in 1..12 /\ InYear(d, y) /\ InMonth(d, y, m)
    BY YearOf, MonthOf
  <2>2. ResetDay(p, d) = R
    BY <1>3, <2>1, NextMonth DEF ResetDay
  <2>3. \A e : KeyOfDay(p, e) = <<Year(e), Month(e)>>
    BY <1>3 DEF KeyOfDay
  <2> HIDE DEF y, m
  <2>4. YearStart(y) \in Int /\ YearStart(y + 1) \in Int
    BY <2>1, YearStartType, SMT
  <2>5. MonthStart(y, m) \in Int /\ YearStart(y) <= MonthStart(y, m)
    BY <2>1, MonthStartGrows
  <2>6. ASSUME m < 12
        PROVE  /\ m + 1 \in 1..12
               /\ MonthStart(y, m + 1) \in Int
               /\ MonthStart(y, m + 1) < YearStart(y + 1)
               /\ YearStart(y) <= MonthStart(y, m + 1)
    <3>1. m + 1 \in 1..12
      BY <2>1, <2>6, SMT
    <3> QED BY <3>1, <2>1, MonthStartGrows
  <2>7. R \in Nat /\ d < R
    BY <2>1, <2>4, <2>6, SMT DEF InYear, InMonth
  <2>8. ASSUME NEW e \in Nat, d <= e, e < R
        PROVE  Year(e) = y /\ Month(e) = m
    <3>1. InYear(e, y)
      BY <2>1, <2>4, <2>6, <2>8, SMT DEF InYear
    <3>2. Year(e) = y
      BY <3>1, <2>1, YearIs
    <3>3. InMonth(e, y, m)
      BY <2>1, <2>5, <2>6, <2>8, SMT DEF InMonth
    <3> QED BY <3>2, <3>3, <2>1, MonthIs
  <2>9. \/ Year(R) # y
        \/ Month(R) # m
    <3>1. CASE m < 12
      <4>1. InMonth(R, y, m) => FALSE
        BY <3>1, <2>6, SMT DEF InMonth
      <4>2. InMonth(R, Year(R), Month(R))
        BY <2>7, MonthOf
      <4> QED BY <4>1, <4>2
    <3>2. CASE ~ (m < 12)
      <4>1. InYear(R, y) => FALSE
        BY <3>2, <2>4, SMT DEF InYear
      <4>2. InYear(R, Year(R))
        BY <2>7, YearOf
      <4> QED BY <4>1, <4>2
    <3> QED BY <3>1, <3>2
  <2> HIDE DEF R
  <2>10. <<Year(R), Month(R)>> # <<y, m>>
    BY <2>9
  <2> QED BY <2>2, <2>3, <2>7, <2>8, <2>10 DEF y, m
<1> QED BY <1>1, <1>2, <1>3 DEF Periods
-----------------------------------------------------------------------------
(***************************************************************************)
(* Instants and zones                                                      *)
(***************************************************************************)

\* Zones lie within half a day and a little of UTC.
LEMMA ZoneType == ASSUME NEW n PROVE loadTimezone(n) \in -12..14
<1>1. CASE n \in DOMAIN Offset
  BY <1>1, OffsetAssumption DEF loadTimezone
<1>2. CASE n \notin DOMAIN Offset
  BY <1>2, SMT DEF loadTimezone
<1> QED BY <1>1, <1>2

\* An instant is before a local midnight exactly when its local day is.
LEMMA MidnightSplits ==
  ASSUME NEW t \in Int, NEW z \in Int, NEW day \in Int
  PROVE  /\ LocalDay(t, z) \in Int /\ Midnight(day, z) \in Int
         /\ t < Midnight(day, z) <=> LocalDay(t, z) < day
         /\ LocalDay(Midnight(day, z), z) = day
BY SMT DEF LocalDay, Midnight

\* Time does not run backwards on any wall.
LEMMA LocalDayAdvances ==
  ASSUME NEW t \in Int, NEW u \in Int, NEW z \in -12..14, 24 <= t, t <= u
  PROVE  /\ LocalDay(t, z) \in Nat /\ LocalDay(u, z) \in Nat
         /\ LocalDay(t, z) <= LocalDay(u, z)
BY SMT DEF LocalDay

\* periodKey and nextReset look at the local day only.
LEMMA ByDay ==
  ASSUME NEW p \in Periods, NEW t, NEW z
  PROVE  /\ periodKey(p, t, z) = KeyOfDay(p, LocalDay(t, z))
         /\ nextReset(p, t, z) = Midnight(ResetDay(p, LocalDay(t, z)), z)
BY DEF periodKey, nextReset, KeyOfDay, ResetDay, Periods

\* What holds of a charge at any instant t in any zone z: until the reset every
\* instant is counted under the same key, and the reset is not.
LEMMA BucketOfInstants ==
  ASSUME NEW p \in Periods, NEW t \in Int, NEW z \in -12..14, 24 <= t
  PROVE  /\ nextReset(p, t, z) \in Int /\ t < nextReset(p, t, z)
         /\ \A u \in Int : /\ t <= u
                           /\ u < nextReset(p, t, z)
                           => periodKey(p, u, z) = periodKey(p, t, z)
         /\ periodKey(p, nextReset(p, t, z), z) # periodKey(p, t, z)
<1> DEFINE d == LocalDay(t, z)
           R == ResetDay(p, d)
<1>1. z \in Int /\ t <= t
  BY SMT
<1>2. d \in Nat
  BY <1>1, LocalDayAdvances
<1>3. /\ R \in Nat /\ d < R
      /\ \A e \in Nat : /\ d <= e
                        /\ e < R
                        => KeyOfDay(p, e) = KeyOfDay(p, d)
      /\ KeyOfDay(p, R) # KeyOfDay(p, d)
  BY <1>2, BucketOfDays
<1>4. /\ periodKey(p, t, z) = KeyOfDay(p, d)
      /\ nextReset(p, t, z) = Midnight(R, z)
  BY ByDay
<1>5. R \in Int
  BY <1>3, SMT
<1> HIDE DEF R
<1>6. /\ Midnight(R, z) \in Int
      /\ t < Midnight(R, z) <=> d < R
      /\ LocalDay(Midnight(R, z), z) = R
  BY <1>1, <1>5, MidnightSplits
<1>7. ASSUME NEW u \in Int, t <= u, u < Midnight(R, z)
      PROVE  periodKey(p, u, z) = KeyOfDay(p, d)
  <2>1. LocalDay(u, z) \in Nat /\ d <= LocalDay(u, z)
    BY <1>7, LocalDayAdvances
  <2>2. LocalDay(u, z) < R
    BY <1>1, <1>5, <1>7, MidnightSplits
  <2>3. periodKey(p, u, z) = KeyOfDay(p, LocalDay(u, z))
    BY ByDay
  <2> QED BY <2>1, <2>2, <2>3, <1>3
<1>8. periodKey(p, Midnight(R, z), z) = KeyOfDay(p, R)
  BY <1>6, ByDay
<1> HIDE DEF d
<1> QED BY <1>3, <1>4, <1>6, <1>7, <1>8
-----------------------------------------------------------------------------
(***************************************************************************)
(* The clock                                                               *)
(***************************************************************************)

\* The clock has left the first day of the calendar behind.
ClockInv == now \in Int /\ 24 <= now

\* Every walk keeps its clock there.
LEMMA ClockRuns == Spec => []ClockInv
<1>1. Init => ClockInv
  <2> SUFFICES ASSUME Init PROVE ClockInv
    OBVIOUS
  <2>1. PICK s \in Starts : now = 24 * Date(s[1], s[2], s[3])
    BY DEF Init
  <2>2. Date(s[1], s[2], s[3]) \in Nat \ {0}
    BY StartAssumption
  <2> QED BY <2>1, <2>2 DEF ClockInv
<1>2. ClockInv /\ [Next]_vars => ClockInv'
  BY SpanAssumption DEF ClockInv, Next, Tick, Done, vars
<1> QED BY <1>1, <1>2, PTL DEF Spec

\* For every walk and every zone, EXPIREAT nextReset removes a counter exactly
\* when its bucket ends, in every period.
THEOREM ResetIsExact == Spec => []ResetEndsBucket
<1>1. ClockInv => ResetEndsBucket
  <2> SUFFICES ASSUME ClockInv, NEW p \in Periods
               PROVE  /\ now < nextReset(p, now, tz)
                      /\ periodKey(p, nextReset(p, now, tz) - 1, tz)
                           = periodKey(p, now, tz)
                      /\ periodKey(p, nextReset(p, now, tz), tz)
                           # periodKey(p, now, tz)
    BY DEF ResetEndsBucket
  <2>1. tz \in -12..14 /\ now \in Int /\ 24 <= now
    BY ZoneType DEF tz, ClockInv
  <2> DEFINE reset == nextReset(p, now, tz)
  <2>2. /\ reset \in Int /\ now < reset
        /\ \A u \in Int : /\ now <= u
                          /\ u < reset
                          => periodKey(p, u, tz) = periodKey(p, now, tz)
        /\ periodKey(p, reset, tz) # periodKey(p, now, tz)
    BY <2>1, BucketOfInstants
  <2> HIDE DEF reset
  <2>3. reset - 1 \in Int /\ now <= reset - 1 /\ reset - 1 < reset
    BY <2>1, <2>2, SMT
  <2> QED BY <2>2, <2>3 DEF reset
<1> QED BY <1>1, ClockRuns, PTL

\* A bucket has no holes: from now until the reset every instant is counted under
\* the key in use now, whatever the hours between two looks at the clock.
BucketIsWhole ==
    \A p \in Periods : \A u \in Int :
        /\ now <= u
        /\ u < nextReset(p, now, tz)
        => periodKey(p, u, tz) = periodKey(p, now, tz)

\* For every walk and every zone, the charges of one bucket, however far apart,
\* meet under one Redis key until the key expires.
THEOREM WholeBuckets == Spec => []BucketIsWhole
<1>1. ClockInv => BucketIsWhole
  BY ZoneType, BucketOfInstants DEF ClockInv, BucketIsWhole, tz
<1> QED BY <1>1, ClockRuns, PTL

\* For every walk and every zone, time never reaches a key it has left.
THEOREM KeysAdvance == Spec => KeysOnlyAdvance
<1> DEFINE Moves(p) == \/ periodKey(p, now', tz) = periodKey(p, now, tz)
                       \/ Earlier(periodKey(p, now, tz), periodKey(p, now', tz))
<1>1. ClockInv /\ [Next]_vars => [\A p \in Periods : Moves(p)]_vars
  <2> SUFFICES ASSUME ClockInv, Next, NEW p \in Periods PROVE Moves(p)
    OBVIOUS
  <2>1. tz \in -12..14 /\ now \in Int /\ 24 <= now
    BY ZoneType DEF tz, ClockInv
  <2>2. now' \in Int /\ now <= now'
    BY <2>1, SpanAssumption DEF Next, Tick, Done, vars
  <2>3. /\ LocalDay(now, tz) \in Nat /\ LocalDay(now', tz) \in Nat
        /\ LocalDay(now, tz) <= LocalDay(now', tz)
    BY <2>1, <2>2, LocalDayAdvances
  <2>4. /\ periodKey(p, now, tz) = KeyOfDay(p, LocalDay(now, tz))
        /\ periodKey(p, now', tz) = KeyOfDay(p, LocalDay(now', tz))
    BY ByDay
  <2> QED BY <2>3, <2>4, KeyOrder
<1> QED BY <1>1, ClockRuns, PTL DEF Spec, KeysOnlyAdvance
=============================================================================
