---------------------------- MODULE DeviceClock -----------------------------
(***************************************************************************)
(* The days a device goes through, and the slots TekonTime gives to their  *)
(* months, hours and intervals: every archive is to be a ring, the slot of *)
(* a period coming right after the slot of the period before.              *)
(* The calendar is the Gregorian one of the years 2000 to 2099.            *)
(***************************************************************************)
EXTENDS TekonTime

CONSTANTS
  FirstYear, LastYear,  \* the years the clock goes through, out of 0..99
  Configs               \* interval archives, [limit, interval]

ASSUME ClockAssumption ==
  /\ FirstYear \in 0..99 /\ LastYear \in FirstYear..99
  /\ \A c \in Configs :   \* an hour and the ring have whole numbers of them
       /\ c.interval \in 1..60 /\ 60 % c.interval = 0
       /\ c.limit \in Nat \ {0} /\ (c.limit * c.interval) % 1440 = 0

VARIABLES
  date,     \* the device's date
  days      \* history: days since 1 January 2000

vars == <<date, days>>

HourRings == {384, 768, 1536}
MonthRings == {12, 48}

\* The first of January of any of the years.
Init ==
  \E y \in FirstYear..LastYear :
    /\ date = [year |-> y, month |-> 1, day |-> 1]
    /\ days = 365 * y + (y + 3) \div 4

NextDay ==
  /\ IsDate([date EXCEPT !.day = @ + 1])
  /\ date' = [date EXCEPT !.day = @ + 1]
  /\ days' = days + 1

NextMonth ==
  /\ ~IsDate([date EXCEPT !.day = @ + 1])
  /\ date.month < 12
  /\ date' = [year |-> date.year, month |-> date.month + 1, day |-> 1]
  /\ days' = days + 1

NextYear ==
  /\ ~IsDate([date EXCEPT !.day = @ + 1])
  /\ date.month = 12 /\ date.year < LastYear
  /\ date' = [year |-> date.year + 1, month |-> 1, day |-> 1]
  /\ days' = days + 1

Next == NextDay \/ NextMonth \/ NextYear

Spec == Init /\ [][Next]_vars

At(minutes) == [hour |-> minutes \div 60, minute |-> minutes % 60]

-----------------------------------------------------------------------------
(* Properties                                                              *)

\* The hour's slot is the ordinal of the hour modulo the size of the ring,
\* over leap days and turns of the year too (tekon_hour_index).
HoursAreRing ==
  \A depth \in HourRings, h \in 0..23 :
    hour_index(date, At(60 * h), depth) = (24 * days + h) % depth

\* The same of the interval's slot (tekon_interval_index).
IntervalsAreRing ==
  \A c \in Configs : \A k \in 0 .. 1440 \div c.interval - 1 :
    interval_index(date, At(k * c.interval), c.limit, c.interval)
      = (days * (1440 \div c.interval) + k) % c.limit

\* A month's slot follows the slot of the month before, also when the year
\* turns, and all days of a month have the same (tekon_month_index).
MonthsAreRing ==
  [][\A depth \in MonthRings :
       month_index(date', depth) =
         (month_index(date, depth) + IF date'.month = date.month THEN 0 ELSE 1) % depth]_vars

\* The days of a year have the slots 0, 1, 2, ... without a gap and start anew
\* with the year: 29 February takes the slot that 1 March has in other years
\* (tekon_day_index).
DaysOfYearAreCounted ==
  [][day_index(date') =
       IF date'.year = date.year THEN day_index(date) + 1 ELSE 0]_vars
=============================================================================
