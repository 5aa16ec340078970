------------------------- MODULE DeviceClock_proofs -------------------------
(***************************************************************************)
(* The archives of hours and of intervals are rings, the latter for every  *)
(* interval description whose ring is a whole number of days: the day      *)
(* number of tekon_hour_index counts the days of the calendar, and a ring  *)
(* of days with P periods each is a ring of periods.                       *)
(***************************************************************************)
EXTENDS DeviceClock, Remainders

-----------------------------------------------------------------------------
(* The day number                                                          *)

\* The date is one of the calendar, and its number is that of the day.
DayInv ==
  /\ date \in [year : 0..99, month : 1..12, day : 1..31]
  /\ IsDate(date)
  /\ days = DayNumber(date) /\ days \in Nat

\* Every month begins where the one before ends.
LEMMA MonthsFit ==
  ASSUME NEW leap \in BOOLEAN, NEW m \in 1..12
  PROVE  /\ DAYS_IN_YEAR(leap)[m] \in Nat
         /\ DAYS_IN_MONTH(leap)[m] \in 28..31
         /\ m < 12 => DAYS_IN_YEAR(leap)[m + 1] = DAYS_IN_YEAR(leap)[m] + DAYS_IN_MONTH(leap)[m]
<1>1. CASE leap
  BY <1>1 DEF DAYS_IN_YEAR, DAYS_IN_MONTH
<1>2. CASE ~leap
  BY <1>2 DEF DAYS_IN_YEAR, DAYS_IN_MONTH
<1> QED
  BY <1>1, <1>2

\* The year counts its days from 0.
LEMMA YearStarts ==
  ASSUME NEW y \in 0..99
  PROVE  LET d == [year |-> y, month |-> 1, day |-> 1]
         IN  IsDate(d) /\ DayNumber(d) = 365 * y + (y + 3) \div 4
<1> DEFINE d == [year |-> y, month |-> 1, day |-> 1]
<1>1. IsDate(d) /\ day_index(d) = 0
  BY DEF IsDate, IsMonth, DAYS_IN_MONTH, DAYS_IN_YEAR, day_index, is_leap_year
<1>2. (y + 3) \div 4 = y \div 4 + IF y % 4 = 0 THEN 0 ELSE 1
  OBVIOUS
<1> QED
  BY <1>1, <1>2 DEF DayNumber, is_leap_year

\* The invariant holds on the first day.
LEMMA InitDay == Init => DayInv
<1> SUFFICES ASSUME Init
             PROVE  DayInv
  OBVIOUS
<1>1. PICK y \in FirstYear..LastYear :
        /\ date = [year |-> y, month |-> 1, day |-> 1]
        /\ days = 365 * y + (y + 3) \div 4
  BY DEF Init
<1>2. y \in 0..99 /\ (y + 3) \div 4 \in Nat
  BY ClockAssumption
<1>3. IsDate(date) /\ DayNumber(date) = days
  BY <1>1, <1>2, YearStarts, ZenonT(60)
<1> QED
  BY <1>1, <1>2, <1>3 DEF DayInv

\* Within a year, the next day has the next index.
LEMMA WithinYear ==
  ASSUME DayInv, NextDay \/ NextMonth
  PROVE  /\ date' \in [year : 0..99, month : 1..12, day : 1..31] /\ IsDate(date')
         /\ date'.year = date.year /\ days' = days + 1
         /\ day_index(date) \in Nat /\ day_index(date') = day_index(date) + 1
<1> DEFINE y == date.year
           m == date.month
           d == date.day
           leap == is_leap_year(y)
<1>1. /\ date = [year |-> y, month |-> m, day |-> d]
      /\ y \in 0..99 /\ m \in 1..12 /\ d \in 1..31
  BY DEF DayInv
<1>2. leap \in BOOLEAN
  BY DEF is_leap_year
<1>3. day_index(date) = DAYS_IN_YEAR(leap)[m] + d - 1 /\ DAYS_IN_YEAR(leap)[m] \in Nat
  BY <1>1, <1>2, MonthsFit DEF day_index, DayInv
<1>4. CASE NextDay
  <2>1. date' = [year |-> y, month |-> m, day |-> d + 1] /\ days' = days + 1 /\ IsDate(date')
    BY <1>1, <1>4 DEF NextDay
  <2>2. d + 1 \in 1..31
    BY <1>1, <2>1 DEF IsDate, IsMonth, DAYS_IN_MONTH
  <2>3. day_index(date') = DAYS_IN_YEAR(leap)[m] + (d + 1) - 1
    BY <2>1 DEF day_index
  <2> QED
    BY <1>1, <1>3, <2>1, <2>2, <2>3
<1>5. CASE NextMonth
  <2>1. /\ date' = [year |-> y, month |-> m + 1, day |-> 1] /\ days' = days + 1
        /\ m \in 1..11 /\ ~IsDate([year |-> y, month |-> m, day |-> d + 1])
    <3>1. [date EXCEPT !.day = @ + 1] = [year |-> y, month |-> m, day |-> d + 1]
      BY <1>1
    <3> QED
      BY <1>1, <1>5, <3>1 DEF NextMonth
  <2>2. d = DAYS_IN_MONTH(leap)[m]
    BY <1>1, <2>1 DEF IsDate, IsMonth, DAYS_IN_MONTH, DayInv
  <2>3. IsDate(date')
    BY <1>1, <2>1 DEF IsDate, IsMonth, DAYS_IN_MONTH
  <2>4. DAYS_IN_YEAR(leap)[m + 1] = DAYS_IN_YEAR(leap)[m] + d
    BY <1>1, <1>2, <2>1, <2>2, MonthsFit
  <2>5. day_index(date') = DAYS_IN_YEAR(leap)[m + 1] + 1 - 1
    BY <2>1, <2>3 DEF day_index
  <2> QED
    BY <1>1, <1>3, <2>1, <2>3, <2>4, <2>5
<1> QED
  BY <1>4, <1>5

\* A year ends with its 365th or 366th day, and the next one starts.
LEMMA TurnOfYear ==
  ASSUME DayInv, NextYear
  PROVE  /\ date' = [year |-> date.year + 1, month |-> 1, day |-> 1]
         /\ date.year \in 0..98 /\ date.month = 12 /\ days' = days + 1
         /\ day_index(date) = IF is_leap_year(date.year) THEN 365 ELSE 364
<1> DEFINE y == date.year
           m == date.month
           d == date.day
<1>1. /\ date = [year |-> y, month |-> m, day |-> d]
      /\ y \in 0..99 /\ m \in 1..12 /\ d \in 1..31
  BY DEF DayInv
<1>2. /\ date' = [year |-> y + 1, month |-> 1, day |-> 1] /\ days' = days + 1
      /\ m = 12 /\ y \in 0..98
      /\ ~IsDate([year |-> y, month |-> m, day |-> d + 1])
  BY <1>1, ClockAssumption DEF NextYear
<1>3. d = 31
  BY <1>1, <1>2 DEF IsDate, IsMonth, DAYS_IN_MONTH, DayInv
<1>4. day_index(date) = IF is_leap_year(y) THEN 365 ELSE 364
  BY <1>1, <1>2, <1>3 DEF day_index, DAYS_IN_YEAR, DayInv
<1> QED
  BY <1>2, <1>4

\* The days are numbered without a gap.
LEMMA DayStep ==
  ASSUME DayInv, [Next]_vars
  PROVE  DayInv'
<1> DEFINE y == date.year
<1>1. y \in 0..99
  BY DEF DayInv
<1>2. CASE NextDay \/ NextMonth
  BY <1>1, <1>2, WithinYear DEF DayInv, DayNumber
<1>3. CASE NextYear
  <2>1. DayNumber(date) = 365 * y + y \div 4 + 365
    BY <1>1, <1>3, TurnOfYear DEF DayNumber
  <2>2. ((y + 1) + 3) \div 4 = y \div 4 + 1
    BY <1>1
  <2>3. date' = [year |-> y + 1, month |-> 1, day |-> 1] /\ y + 1 \in 0..99 /\ days' = days + 1
    BY <1>3, TurnOfYear
  <2>4. IsDate(date') /\ DayNumber(date') = 365 * (y + 1) + (y \div 4 + 1)
    BY <2>2, <2>3, YearStarts
  <2>5. days' = DayNumber(date')
    BY <1>1, <2>1, <2>3, <2>4 DEF DayInv
  <2> QED
    BY <2>3, <2>4, <2>5 DEF DayInv
<1>4. CASE UNCHANGED vars
  BY <1>4 DEF vars, DayInv
<1> QED
  BY <1>2, <1>3, <1>4 DEF Next

\* The day number is right on every day.
LEMMA DayInvHolds == Spec => []DayInv
  BY InitDay, DayStep, PTL DEF Spec

-----------------------------------------------------------------------------
(* The rings                                                               *)

\* The lengths of time that make up an hour.
HourParts == {1, 2, 3, 4, 5, 6, 10, 12, 15, 20, 30, 60}

LEMMA PartsOfHour ==
  ASSUME NEW i \in 1..60, 60 % i = 0
  PROVE  i \in HourParts
  BY DEF HourParts

\* A ring of whole days has as many slots as its days have intervals.
LEMMA RingSize ==
  ASSUME NEW i \in HourParts, NEW l \in Nat \ {0}, (l * i) % 1440 = 0
  PROVE  /\ IntervalDays(l, i) \in Nat \ {0}
         /\ IntervalDays(l, i) * (1440 \div i) = l
  BY DEF HourParts, IntervalDays

\* The k-th interval of a day, from the hour and the minute it begins with.
LEMMA IntervalOfDay ==
  ASSUME NEW i \in HourParts, NEW k \in 0 .. 1440 \div i - 1
  PROVE  /\ IsTime(At(k * i))
         /\ 1440 \div i \in Nat \ {0} /\ 60 \div i \in Nat
         /\ 1440 \div i = 24 * (60 \div i)
         /\ (60 \div i) * At(k * i).hour + At(k * i).minute \div i = k
<1>1. CASE i = 1
  BY <1>1 DEF IsTime, At
<1>2. CASE i = 2
  BY <1>2 DEF IsTime, At
<1>3. CASE i = 3
  BY <1>3 DEF IsTime, At
<1>4. CASE i = 4
  BY <1>4 DEF IsTime, At
<1>5. CASE i = 5
  BY <1>5 DEF IsTime, At
<1>6. CASE i = 6
  BY <1>6 DEF IsTime, At
<1>7. CASE i = 10
  BY <1>7 DEF IsTime, At
<1>8. CASE i = 12
  BY <1>8 DEF IsTime, At
<1>9. CASE i = 15
  BY <1>9 DEF IsTime, At
<1>10. CASE i = 20
  BY <1>10 DEF IsTime, At
<1>11. CASE i = 30
  BY <1>11 DEF IsTime, At
<1>12. CASE i = 60
  BY <1>12 DEF IsTime, At
<1> QED
  BY <1>1, <1>2, <1>3, <1>4, <1>5, <1>6, <1>7, <1>8, <1>9, <1>10, <1>11, <1>12
     DEF HourParts

\* The slot of an hour is its ordinal modulo the ring, for every size of the
\* ring that the device has.
THEOREM HoursRing == Spec => []HoursAreRing
<1>1. DayInv => HoursAreRing
  <2> SUFFICES ASSUME DayInv, NEW depth \in HourRings, NEW h \in 0..23
               PROVE  hour_index(date, At(60 * h), depth) = (24 * days + h) % depth
    BY DEF HoursAreRing
  <2> DEFINE n == depth \div 24
  <2>1. n \in {16, 32, 64} /\ n * 24 = depth
    BY DEF HourRings
  <2>2. IsTime(At(60 * h)) /\ At(60 * h).hour = h
    BY DEF IsTime, At
  <2>3. hour_index(date, At(60 * h), depth) = (days % n) * 24 + h
    BY <2>1, <2>2 DEF hour_index, DayInv
  <2> HIDE DEF n
  <2>4. SameSlot(days, n, 24, h)
    <3>1. days \in Nat /\ n \in Nat \ {0} /\ 24 \in Nat \ {0} /\ h \in 0 .. 24-1
      BY <2>1 DEF DayInv
    <3> QED
      BY <3>1, RingOfDays
  <2>5. (days % n) * 24 + h = (days * 24 + h) % depth
    BY <2>1, <2>4 DEF SameSlot
  <2>6. days * 24 + h = 24 * days + h
    BY DEF DayInv
  <2> QED
    BY <2>3, <2>5, <2>6
<1> QED
  BY <1>1, DayInvHolds, PTL

\* The slot of an interval is its ordinal modulo the limit of the archive, for
\* every interval description whose ring is a whole number of days.
THEOREM IntervalsRing == Spec => []IntervalsAreRing
<1>1. DayInv => IntervalsAreRing
  <2> SUFFICES ASSUME DayInv, NEW c \in Configs,
                      NEW k \in 0 .. 1440 \div c.interval - 1
               PROVE  interval_index(date, At(k * c.interval), c.limit, c.interval)
                        = (days * (1440 \div c.interval) + k) % c.limit
    BY DEF IntervalsAreRing
  <2> DEFINE i == c.interval
             l == c.limit
             n == IntervalDays(l, i)
             p == 1440 \div i
             t == At(k * i)
             h == t.hour
             f == 60 \div i
             x == days % n
  <2>1. i \in HourParts /\ l \in Nat \ {0} /\ (l * i) % 1440 = 0
    BY ClockAssumption, PartsOfHour
  <2> HIDE DEF i, l
  <2>2. n \in Nat \ {0} /\ n * p = l
    BY <2>1, RingSize
  <2>3. k \in 0 .. p - 1
    BY DEF i
  <2>4. /\ IsTime(t) /\ p \in Nat \ {0} /\ f \in Nat /\ p = 24 * f
        /\ f * h + t.minute \div i = k
    BY <2>1, <2>3, IntervalOfDay
  <2>5. interval_index(date, t, l, i) = f * (x * 24 + h) + t.minute \div i
    BY <2>2, <2>4 DEF interval_index, DayInv
  <2>6. x \in Nat /\ h \in Nat /\ t.minute \div i \in Int
    <3>1. x \in Nat
      <4>1. days \in Int /\ n \in Nat \ {0}
        BY <2>2 DEF DayInv
      <4> HIDE DEF n
      <4> QED
        BY <4>1, RemainderIsNumber
    <3>2. i \in Nat \ {0}
      BY <2>1 DEF HourParts
    <3>3. h \in Nat /\ t.minute \in Int
      BY <2>4 DEF IsTime
    <3> QED
      BY <3>1, <3>2, <3>3, DivMod
  <2> DEFINE v == t.minute \div i
  <2> HIDE DEF n, p, t, h, f, x, v
  <2>7. f * (x * 24 + h) + v = x * p + k
    BY <2>4, <2>6 DEF v
  <2>8. x * p + k = (days * p + k) % l
    <3>1. SameSlot(days, n, p, k)
      BY <2>2, <2>3, <2>4, RingOfDays DEF DayInv
    <3> QED
      BY <2>2, <3>1 DEF SameSlot, x
  <2>9. interval_index(date, t, l, i) = (days * p + k) % l
    BY <2>2, <2>5, <2>7, <2>8 DEF v
  <2> QED
    BY <2>9 DEF t, p, l, i
<1> QED
  BY <1>1, DayInvHolds, PTL

\* The ring of the months goes on by one slot with every month and comes round
\* after one year or four.
THEOREM MonthsRing == Spec => MonthsAreRing
<1>1. DayInv /\ [Next]_vars =>
        [\A depth \in MonthRings :
           month_index(date', depth) =
             (month_index(date, depth) + IF date'.month = date.month THEN 0 ELSE 1) % depth]_vars
  <2> SUFFICES ASSUME DayInv, Next, NEW depth \in MonthRings
               PROVE  month_index(date', depth) =
                        (month_index(date, depth)
                           + IF date'.month = date.month THEN 0 ELSE 1) % depth
    OBVIOUS
  <2> DEFINE y == date.year
             m == date.month
  <2>1. y \in 0..99 /\ m \in 1..12 /\ depth \in {12, 48}
    BY DEF DayInv, MonthRings
  <2>2. \/ date'.year = y /\ date'.month = m
        \/ date'.year = y /\ date'.month = m + 1 /\ m \in 1..11
        \/ date'.year = y + 1 /\ date'.month = 1 /\ m = 12 /\ y \in 0..98
    <3>1. CASE NextDay
      BY <3>1 DEF NextDay, DayInv
    <3>2. CASE NextMonth
      BY <2>1, <3>2 DEF NextMonth
    <3>3. CASE NextYear
      BY <3>3, TurnOfYear
    <3> QED
      BY <3>1, <3>2, <3>3 DEF Next
  <2>3. (y + 1) % 4 = IF y % 4 = 3 THEN 0 ELSE (y % 4) + 1
    BY <2>1
  <2> QED
    BY <2>1, <2>2, <2>3 DEF month_index, IsMonth
<1> QED
  BY <1>1, DayInvHolds, PTL DEF Spec, MonthsAreRing

\* The slots of a year's days follow each other without a gap, and the next
\* year begins with slot 0.
THEOREM DaysCounted == Spec => DaysOfYearAreCounted
<1>1. DayInv /\ [Next]_vars =>
        [day_index(date') =
           IF date'.year = date.year THEN day_index(date) + 1 ELSE 0]_vars
  <2> SUFFICES ASSUME DayInv, Next
               PROVE  day_index(date') =
                        IF date'.year = date.year THEN day_index(date) + 1 ELSE 0
    OBVIOUS
  <2>1. CASE NextDay \/ NextMonth
    BY <2>1, WithinYear
  <2>2. CASE NextYear
    <3>1. date' = [year |-> date.year + 1, month |-> 1, day |-> 1] /\ date.year \in 0..98
      BY <2>2, TurnOfYear
    <3>2. day_index(date') = 0
      BY <3>1 DEF day_index, IsDate, IsMonth, DAYS_IN_MONTH, DAYS_IN_YEAR, is_leap_year
    <3> QED
      BY <3>1, <3>2
  <2> QED
    BY <2>1, <2>2 DEF Next
<1> QED
  BY <1>1, DayInvHolds, PTL DEF Spec, DaysOfYearAreCounted
=============================================================================
