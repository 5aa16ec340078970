----------------------------- MODULE TekonTime ------------------------------
(***************************************************************************)
(* The archive indexes of tekon/time.c: which slot of its ring a device    *)
(* uses for the month, the day, the hour or the interval of a date and     *)
(* time.  A date is [year, month, day], its year counted from 2000.        *)
(***************************************************************************)
EXTENDS Integers

InvalidIndex == 65535   \* TEKON_INVALID_ARCH_INDEX, 0xFFFF
Trapped == -1           \* no value: the expression divides by zero

\* Days before each month; days in each month.
DAYS_IN_YEAR(leap) ==
  IF leap THEN <<0, 31, 60, 91, 121, 152, 182, 213, 244, 274, 305, 335>>
          ELSE <<0, 31, 59, 90, 120, 151, 181, 212, 243, 273, 304, 334>>
DAYS_IN_MONTH(leap) ==
  <<31, IF leap THEN 29 ELSE 28, 31, 30, 31, 30, 31, 31, 30, 31, 30, 31>>

is_leap_year(year) == year % 4 = 0

IsMonth(d) == d.year \in 0..99 /\ d.month \in 1..12
IsDate(d) == IsMonth(d) /\ d.day \in 1 .. DAYS_IN_MONTH(is_leap_year(d.year))[d.month]
IsTime(t) == t.hour \in 0..23 /\ t.minute \in 0..59

\* A mutant: the year is left out of the longer ring.
OneYear(d, depth) == IF IsMonth(d) THEN d.month - 1 ELSE InvalidIndex

month_index(d, depth) ==
  CASE IsMonth(d) /\ depth = 12 -> d.month - 1
    [] IsMonth(d) /\ depth = 48 -> (d.year % 4) * 12 + d.month - 1
    [] OTHER -> InvalidIndex

\* A mutant: every year has a slot for 29 February.
AlwaysLeap(d) == DAYS_IN_YEAR(TRUE)[d.month] + d.day - 1

day_index(d) ==
  IF IsDate(d) THEN DAYS_IN_YEAR(is_leap_year(d.year))[d.month] + d.day - 1
  ELSE InvalidIndex

\* A mutant: the first year is a leap year, and that is not made up for.
DayNumberFrom1(d) == 365 * d.year + d.year \div 4 + day_index(d)

\* nday of tekon_hour_index and tekon_interval_index.
DayNumber(d) ==
  365 * d.year + d.year \div 4 + day_index(d) + IF is_leap_year(d.year) THEN 0 ELSE 1

hour_index(d, t, depth) ==
  IF IsDate(d) /\ IsTime(t) /\ depth \div 24 \in {16, 32, 64}
  THEN (DayNumber(d) % (depth \div 24)) * 24 + t.hour
  ELSE InvalidIndex

\* A mutant: one day too many.
OneDayMore(limit, interval) == (interval * limit) \div 1440 + 1

\* Whole days that limit intervals of that many minutes make.
IntervalDays(limit, interval) == (interval * limit) \div 1440

interval_index(d, t, limit, interval) ==
  CASE ~(IsDate(d) /\ IsTime(t)) -> InvalidIndex
    [] IsDate(d) /\ IsTime(t) /\ IntervalDays(limit, interval) = 0 -> Trapped
    [] OTHER ->
         (60 \div interval) * ((DayNumber(d) % IntervalDays(limit, interval)) * 24 + t.hour)
         + t.minute \div interval
=============================================================================
