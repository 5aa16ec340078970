----------------------------- MODULE LocalTime ------------------------------
(***************************************************************************)
(* Local time and UTC (utils/base/linux/time.c), for the specifications    *)
(* that convert the device's date and time.  The zone is external: Offset  *)
(* seconds ahead of UTC, and another hour in the periods Summers.          *)
(*                                                                         *)
(* UTC is in seconds since 1970.  A struct tm is the second it would be in *)
(* UTC, and tm_isdst: localtime_r sets it, while a date and time taken     *)
(* from the device leave it as memset made it, 0.                          *)
(***************************************************************************)
EXTENDS Integers

CONSTANTS
  Offset,   \* the time zone
  Summers   \* summer times, << first second, second after the last >>

Summer(u) == \E s \in Summers : s[1] <= u /\ u < s[2]

time_local_from_utc(u) ==
  [sec |-> u + Offset + (IF Summer(u) THEN 3600 ELSE 0), isdst |-> Summer(u)]

\* mktime takes the local time for summer time if and only if tm_isdst says so.
time_utc_from_local(l) == l.sec - Offset - (IF l.isdst THEN 3600 ELSE 0)

\* The struct tm of a date and a time the device replied (tekon_date_to_local,
\* tekon_time_to_local).
FromDevice(sec) == [sec |-> sec, isdst |-> FALSE]
=============================================================================
