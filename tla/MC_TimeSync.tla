---------------------------- MODULE MC_TimeSync -----------------------------
(* Instances of TimeSync for TLC.                                          *)
EXTENDS TimeSync

\* Every set of checks that checks_from_string can make.
AllCheckSets == SUBSET {"difference", "minutes", "indexes"}
Default == {{"difference", "minutes"}}   \* checks_init

\* Midnight of a day, in local seconds.
WinterDay == 20000 * DayLen
SummerDay == 20010 * DayLen
SummerTime == {<<20005 * DayLen, 20100 * DayLen>>}

\* New times in a zone an hour ahead of UTC: midnight in winter, one o'clock in
\* summer.
TurnsOfDay == {WinterDay - 3600, SummerDay + 3600 - 7200}
\* Clocks in the last two seconds of a day, so that midnight comes before, between
\* or after the requests; at midnight; some seconds, one period and an hour later.
\* In summer midnight is an hour behind the new time.
AroundMidnight ==
  {WinterDay - 2, WinterDay - 1, WinterDay, WinterDay + 5, WinterDay + 300,
   SummerDay - 1, SummerDay, SummerDay + 3600}

\* A new time and a clock that is right, but for a second; in summer, a clock an
\* hour behind.
WinterNoon == {WinterDay + 12 * 3600 - 3600}
WinterNoonClock == {WinterDay + 12 * 3600 - 1}
SummerNoon == {SummerDay + 12 * 3600 - 7200}
HourBehind == {SummerDay + 11 * 3600}
=============================================================================
