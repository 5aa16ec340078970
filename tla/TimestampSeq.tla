---------------------------- MODULE TimestampSeq ----------------------------
(***************************************************************************)
(* timestamp_seq_month, _day, _hour and _interval of utils/base/tstamp.c:  *)
(* from the device's date and time walk back in fixed steps of UTC, turn   *)
(* every step into local time and that into an archive index, and stamp    *)
(* the index with the start of its period when it is met the first time.   *)
(*                                                                         *)
(* Times are seconds since 1970, local times those of LocalTime.           *)
(***************************************************************************)
EXTENDS TekonTime, LocalTime

CONSTANTS
  Configs,  \* archives, [type, depth, interval]
  Refs      \* device's local times, as if they were UTC

\* What the command line accepts as the description of an archive.
intcfg_is_valid(c) ==
  \/ c.type = "m" /\ c.depth \in {12, 48}
  \/ c.type = "d" /\ c.depth = 366
  \/ c.type = "h" /\ c.depth \in {384, 768, 1536}
  \/ c.type = "i" /\ c.depth \in 1..8191 /\ c.interval \in 1..99

ASSUME SeqAssumption ==
  /\ \A c \in Configs : intcfg_is_valid(c)
  /\ Refs \subseteq Nat
  /\ Offset \in Int
  /\ Summers \subseteq Nat \X Nat

VARIABLES
  cfg,      \* the archive
  ref,      \* the device's date and time
  pc,       \* "back", "fill", "done", "trapped"
  utc,      \* utc of the code
  dt,       \* dt, the local time of utc
  time,     \* self->time
  count,    \* self->count
  elapsed,
  result    \* what the function returned

vars == <<cfg, ref, pc, utc, dt, time, count, elapsed, result>>

TIME_INVALID == -1

-----------------------------------------------------------------------------
(* Dates                                                                    *)

\* The month that has day n of a year, before[i] being the days before month i.
MonthOf(n, before) ==
  CHOOSE i \in 1..12 : before[i] <= n /\ (i = 12 \/ n < before[i + 1])

\* Date and time of day of a second, the year counted from 2000.
DayOf(sec) == sec \div 86400
Date(sec) ==
  LET d == DayOf(sec) - 10957             \* days since 1 January 2000
      fourth == d % 1461                  \* and in its four years
      y == IF fourth < 366 THEN 0 ELSE 1 + (fourth - 366) \div 365
      n == IF y = 0 THEN fourth ELSE (fourth - 366) % 365
      before == DAYS_IN_YEAR(y = 0)
      m == MonthOf(n, before)
  IN [year |-> 4 * (d \div 1461) + y, month |-> m, day |-> n - before[m] + 1]
TimeOfDay(sec) == [hour |-> (sec % 86400) \div 3600, minute |-> (sec % 3600) \div 60]

-----------------------------------------------------------------------------
(* The parameters in which the four functions differ                       *)

Step == CASE cfg.type = "m" -> 8 * 86400
          [] cfg.type = "d" -> 8 * 3600
          [] cfg.type = "h" -> 1200
          [] cfg.type = "i" -> cfg.interval * 60

\* A mutant: the last step is not made.
ShortLimit == cfg.depth * (CASE cfg.type = "m" -> 31 * 86400 [] cfg.type = "d" -> 86400
                             [] cfg.type = "h" -> 3600 [] cfg.type = "i" -> Step) - Step

Limit == CASE cfg.type = "m" -> cfg.depth * 31 * 86400
           [] cfg.type = "d" -> cfg.depth * 86400
           [] cfg.type = "h" -> cfg.depth * 3600
           [] cfg.type = "i" -> cfg.depth * cfg.interval * 60

Index(sec) ==
  CASE cfg.type = "m" -> month_index(Date(sec), cfg.depth)
    [] cfg.type = "d" -> day_index(Date(sec))
    [] cfg.type = "h" -> hour_index(Date(sec), TimeOfDay(sec), cfg.depth)
    [] cfg.type = "i" ->
         interval_index(Date(sec), TimeOfDay(sec), cfg.depth, cfg.interval)

\* What the first loop compares: tm_mon, tm_mday, tm_hour.
Part(sec) ==
  CASE cfg.type = "m" -> Date(sec).month
    [] cfg.type = "d" -> Date(sec).day
    [] OTHER -> TimeOfDay(sec).hour

\* A mutant: the stamp is not rounded to the start of its period.
Unrounded(sec) == sec

\* dt rounded to the start of its month, day or hour; tm_isdst is kept.
Start(sec) ==
  CASE cfg.type = "m" -> (DayOf(sec) - Date(sec).day + 1) * 86400
    [] cfg.type = "d" -> DayOf(sec) * 86400
    [] OTHER -> (sec \div 3600) * 3600

\* A month and a day sequence start at midnight, the others at the time given.
Given(c, r) ==
  FromDevice(IF c.type \in {"m", "d"} THEN DayOf(r) * 86400 ELSE r)

-----------------------------------------------------------------------------
\* timestamp_seq_init, tekon_date_to_local and tekon_time_to_local.
Init ==
  /\ cfg \in Configs /\ ref \in Refs
  /\ time = [i \in 0 .. cfg.depth - 1 |-> TIME_INVALID]
  /\ count = 0 /\ elapsed = 0 /\ result = 0
  /\ dt = Given(cfg, ref)
  /\ utc = 0
  /\ pc = "back"

\* A mutant: the period given is stamped as well.
StayThere(sec) == TRUE

\* Whether the first loop ends at the local time sec.
IsEarlier(sec) == Part(sec) # Part(ref)

\* The first loop: back to the period before the one given.
WalkBack ==
  /\ pc = "back" /\ cfg.type # "i"
  /\ utc' = time_utc_from_local(dt) - Step
  /\ dt' = time_local_from_utc(utc')
  /\ pc' = IF IsEarlier(dt'.sec) THEN "fill" ELSE "back"
  /\ UNCHANGED <<cfg, ref, time, count, elapsed, result>>

\* A mutant: the interval's start is its stamp.
RoundDown(u) == (u \div Step) * Step

\* The end of the interval the time given is in.
RoundUp(u) == (u \div Step + 1) * Step

StartInterval ==
  /\ pc = "back" /\ cfg.type = "i"
  /\ utc' = RoundUp(time_utc_from_local(dt))
  /\ dt' = time_local_from_utc(utc')
  /\ pc' = "fill"
  /\ UNCHANGED <<cfg, ref, time, count, elapsed, result>>

\* timestamp_seq_add of u at index i.
IsFree(i) == i \in DOMAIN time /\ time[i] = TIME_INVALID
Add(i, u) ==
  IF IsFree(i) THEN time' = [time EXCEPT ![i] = u] /\ count' = count + 1
  ELSE UNCHANGED <<time, count>>

\* One turn of the second loop; it goes on while indexes are missing.
\* Only the interval's stamp is not rounded.
FillOne ==
  /\ pc = "fill"
  /\ Index(dt.sec) # Trapped
  /\ LET i == Index(dt.sec)
         stamp == IF cfg.type # "i" /\ IsFree(i)
                  THEN time_utc_from_local([dt EXCEPT !.sec = Start(dt.sec)])
                  ELSE utc
     IN  /\ Add(i, stamp)
         /\ utc' = stamp - Step
         /\ dt' = time_local_from_utc(utc')
  /\ elapsed' = elapsed + Step
  /\ IF count' < cfg.depth /\ elapsed' < Limit
     THEN pc' = pc /\ result' = result
     ELSE /\ pc' = "done"
          /\ result' = IF count' >= (IF cfg.type = "d" THEN 365 ELSE cfg.depth)
                       THEN 1 ELSE 0
  /\ UNCHANGED <<cfg, ref>>

\* tekon_interval_index divides by zero.
Trap ==
  /\ pc = "fill"
  /\ Index(dt.sec) = Trapped
  /\ pc' = "trapped"
  /\ UNCHANGED <<cfg, ref, utc, dt, time, count, elapsed, result>>

Done == pc \in {"done", "trapped"} /\ UNCHANGED vars

Next == WalkBack \/ StartInterval \/ FillOne \/ Trap \/ Done

Spec == Init /\ [][Next]_vars

-----------------------------------------------------------------------------
(* Properties                                                              *)

\* The ordinal of the period of the archive that the local second sec is in.
Period(sec) ==
  CASE cfg.type = "m" -> 12 * Date(sec).year + Date(sec).month
    [] cfg.type = "d" -> DayOf(sec)
    [] cfg.type = "h" -> sec \div 3600
    [] cfg.type = "i" -> sec \div Step

\* The newest period of the ring: an interval archive shows the interval that
\* is running, by its end; the others the last period that is over.
Newest == IF cfg.type = "i" THEN Period(ref) + 1 ELSE Period(ref) - 1

\* The period after p that the slot i is used for again; the slot of 31 December
\* of a leap year stays as it is for four years.
NextUse(p, i) ==
  CASE cfg.type # "d" -> p + cfg.depth
    [] cfg.type = "d" /\ i = 365 -> p + 1461
    [] cfg.type = "d" /\ i # 365 ->
         IF day_index(Date((p + 365) * 86400)) = i THEN p + 365 ELSE p + 366

Filled == {i \in DOMAIN time : time[i] # TIME_INVALID}
Local(i) == time_local_from_utc(time[i]).sec

IsStart(sec) ==
  /\ sec % 3600 = 0 \/ cfg.type = "i"
  /\ cfg.type \in {"m", "d"} => sec % 86400 = 0
  /\ cfg.type = "m" => Date(sec).day = 1

\* A stamp, read as a local time, is the start of a period whose index is the
\* slot it stands in (rounding, and assert(idx == probe), of timestamp_seq_*).
StampOfSlot ==
  pc = "done" => \A i \in Filled : Index(Local(i)) = i /\ IsStart(Local(i))

\* Every slot is stamped with the latest of its periods the device has a value
\* of: none that is still to come, and none after which the slot was used anew.
\* This is the function Held that ArchRead converts with.
StampIsLatest ==
  pc = "done" =>
    \A i \in Filled : LET p == Period(Local(i)) IN p <= Newest /\ Newest < NextUse(p, i)

\* The sequence is complete, the slot of 31 December of a leap year apart.
SeqIsComplete ==
  pc = "done" =>
    /\ result = 1
    /\ DOMAIN time \ Filled \subseteq (IF cfg.type = "d" THEN {365} ELSE {})

(* What comments and the usage say of the program, and it does not do      *)

\* "Choose the reference such that all others are before it" (tstamp.h), "the
\* start is one hour less than date" (timestamp_seq_hour).
RefIsNewest ==
  pc = "done" /\ cfg.type # "i" => \A i \in Filled : Period(Local(i)) < Period(ref)

\* The interval descriptions that the command line accepts can be used.
AcceptedIsUsable == pc # "trapped"
=============================================================================
