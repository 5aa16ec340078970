------------------------ MODULE TimestampSeq_proofs -------------------------
(***************************************************************************)
(* Proofs about TimestampSeq, in a zone without summer time: a stamp is    *)
(* the start of a period of the slot it stands in, for every archive,      *)
(* every reference time and every offset of the zone; the slots of an      *)
(* interval archive are stamped with their latest intervals; and while the *)
(* device's clock shows one of the years from 2004 to 2099, the sequences  *)
(* of all four types are complete and each slot has its latest period.     *)
(***************************************************************************)
EXTENDS TimestampSeq, Remainders, TLAPS

-----------------------------------------------------------------------------
(* The calendar                                                            *)

\* The two tables of the days before each month.
YearTables == {DAYS_IN_YEAR(TRUE), DAYS_IN_YEAR(FALSE)}

\* A year is made of twelve months, one behind the other.
LEMMA MonthIsUnique ==
  ASSUME NEW before, before \in YearTables, NEW n \in Nat
  PROVE  LET m == MonthOf(n, before)
         IN  /\ m \in 1..12 /\ before[m] \in Nat /\ before[m] <= n
             /\ MonthOf(before[m], before) = m
<1> DEFINE Has(k, i) == before[i] <= k /\ (i = 12 \/ k < before[i + 1])
<1>1. \A i \in 1..12 : before[i] \in Nat
  BY DEF YearTables, DAYS_IN_YEAR
<1>2. \A i, j \in 1..12 : i < j => before[i + 1] <= before[j]
  BY DEF YearTables, DAYS_IN_YEAR
<1>3. \A k \in Nat : \A i, j \in 1..12 : Has(k, i) /\ Has(k, j) => i = j
  <2> SUFFICES ASSUME NEW k \in Nat, NEW i \in 1..12, NEW j \in 1..12,
                      Has(k, i), Has(k, j), i < j
               PROVE  FALSE
    OBVIOUS
  <2>1. i + 1 \in 1..12 /\ i # 12
    OBVIOUS
  <2>2. k < before[i + 1] /\ before[i + 1] <= before[j] /\ before[j] <= k
    BY <1>2, <2>1
  <2> QED
    BY <1>1, <2>1, <2>2
<1>4. \E i \in 1..12 : Has(n, i)
  BY DEF YearTables, DAYS_IN_YEAR
<1>5. \A i \in 1..12 : Has(before[i], i)
  BY DEF YearTables, DAYS_IN_YEAR
<1> DEFINE m == MonthOf(n, before)
<1>6. m \in 1..12 /\ Has(n, m)
  BY <1>4 DEF MonthOf
<1>7. MonthOf(before[m], before) \in 1..12 /\ Has(before[m], MonthOf(before[m], before))
  BY <1>5, <1>6 DEF MonthOf
<1>8. MonthOf(before[m], before) = m
  BY <1>1, <1>3, <1>5, <1>6, <1>7
<1> QED
  BY <1>1, <1>6, <1>8

\* Year and day of the year, both from 0, of day d after 1 January 2000.
YearOfFour(d) == IF d % 1461 < 366 THEN 0 ELSE 1 + ((d % 1461) - 366) \div 365
DayOfYear(d) == IF YearOfFour(d) = 0 THEN d % 1461 ELSE ((d % 1461) - 366) % 365

\* Every day has a number in its year.
LEMMA DayOfYearIsNumber ==
  ASSUME NEW d \in Int
  PROVE  DayOfYear(d) \in Nat
<1>1. d % 1461 \in 0..1460
  BY ModRange
<1>2. ((d % 1461) - 366) % 365 \in 0..364
  BY <1>1
<1>3. YearOfFour(d) = 0 \/ DayOfYear(d) = ((d % 1461) - 366) % 365
  BY DEF DayOfYear
<1>4. YearOfFour(d) = 0 => DayOfYear(d) = d % 1461
  BY DEF DayOfYear
<1> QED
  BY <1>1, <1>2, <1>3, <1>4

\* Going back within a year leaves the year.
LEMMA SameYear ==
  ASSUME NEW d \in Int, NEW k \in Nat, k <= DayOfYear(d)
  PROVE  /\ (d - k) \div 1461 = d \div 1461
         /\ YearOfFour(d - k) = YearOfFour(d)
         /\ DayOfYear(d) \in Nat
         /\ DayOfYear(d - k) = DayOfYear(d) - k
<1> DEFINE r == d % 1461
<1>1. r \in 0..1460
  BY ModRange
<1>2. CASE r < 366
  <2>1. YearOfFour(d) = 0 /\ DayOfYear(d) = r
    BY <1>2 DEF YearOfFour, DayOfYear
  <2>2. (d - k) \div 1461 = d \div 1461 /\ (d - k) % 1461 = r - k
    BY <1>1, <2>1
  <2> QED
    BY <1>1, <1>2, <2>1, <2>2 DEF YearOfFour, DayOfYear
<1>3. CASE r >= 366
  <2> DEFINE a == (r - 366) \div 365
             n == (r - 366) % 365
  <2>1. a \in 0..2 /\ n \in 0..364 /\ r - 366 = 365 * a + n
    BY <1>1, <1>3
  <2>2. YearOfFour(d) = 1 + a /\ DayOfYear(d) = n
    BY <1>1, <1>3, <2>1 DEF YearOfFour, DayOfYear
  <2>3. (d - k) \div 1461 = d \div 1461 /\ (d - k) % 1461 = r - k
    BY <1>1, <1>3, <2>1, <2>2
  <2>4. r - k >= 366 /\ (r - k - 366) \div 365 = a /\ (r - k - 366) % 365 = n - k
    BY <1>1, <1>3, <2>1, <2>2
  <2>5. YearOfFour(d - k) = 1 + a
    BY <1>1, <2>1, <2>3, <2>4 DEF YearOfFour
  <2> QED
    BY <1>1, <2>1, <2>2, <2>3, <2>4, <2>5 DEF DayOfYear
<1> QED
  BY <1>1, <1>2, <1>3

\* The day on which the month of a second starts is the first of that month.
LEMMA FirstOfMonth ==
  ASSUME NEW s \in Int,
         NEW t, t = (DayOf(s) - Date(s).day + 1) * 86400
  PROVE  /\ t \in Int /\ t % 86400 = 0
         /\ Date(t).year = Date(s).year /\ Date(t).month = Date(s).month
         /\ Date(t).day = 1
<1> DEFINE d == DayOf(s) - 10957
           y == YearOfFour(d)
           n == DayOfYear(d)
           before == DAYS_IN_YEAR(y = 0)
           m == MonthOf(n, before)
           k == n - before[m]
           e == DayOf(t) - 10957
<1>1. DayOf(s) \in Int /\ d \in Int
  BY DEF DayOf
<1>2. n \in Nat
  BY <1>1, DayOfYearIsNumber
<1>3. /\ Date(s) = [year |-> 4 * (d \div 1461) + y, month |-> m, day |-> n - before[m] + 1]
      /\ Date(t) = [year |-> 4 * (e \div 1461) + YearOfFour(e),
                    month |-> MonthOf(DayOfYear(e), DAYS_IN_YEAR(YearOfFour(e) = 0)),
                    day |-> DayOfYear(e)
                              - DAYS_IN_YEAR(YearOfFour(e) = 0)
                                  [MonthOf(DayOfYear(e), DAYS_IN_YEAR(YearOfFour(e) = 0))] + 1]
  BY DEF Date, YearOfFour, DayOfYear
<1>4. m \in 1..12 /\ before[m] \in Nat /\ before[m] <= n /\ MonthOf(before[m], before) = m
  <2>1. before \in YearTables
    <3> HIDE DEF y
    <3>1. CASE y = 0
      BY <3>1 DEF YearTables, DAYS_IN_YEAR
    <3>2. CASE y # 0
      BY <3>2 DEF YearTables, DAYS_IN_YEAR
    <3> HIDE DEF before
    <3> QED
      BY <3>1, <3>2
  <2> HIDE DEF before, n
  <2> QED
    BY <1>2, <2>1, MonthIsUnique
<1>5. k \in Nat /\ k <= n
  BY <1>2, <1>4
<1>6. t = (DayOf(s) - k) * 86400 /\ DayOf(s) - k \in Int
  BY <1>1, <1>2, <1>3, <1>4
<1>7. t \in Int /\ t % 86400 = 0 /\ DayOf(t) = DayOf(s) - k
  BY <1>6 DEF DayOf
<1>8. e = d - k
  BY <1>1, <1>5, <1>7
<1>9. e \div 1461 = d \div 1461 /\ YearOfFour(e) = y /\ DayOfYear(e) = n - k
  BY <1>1, <1>5, <1>8, SameYear
<1>10. n - k = before[m]
  BY <1>2, <1>4
<1> QED
  BY <1>3, <1>4, <1>7, <1>9, <1>10

-----------------------------------------------------------------------------
(* Slots and their stamps                                                  *)

\* Seconds of the same day have the same date.
LEMMA SameDate ==
  ASSUME NEW s \in Int, NEW t \in Int, DayOf(t) = DayOf(s)
  PROVE  Date(t) = Date(s)
  BY DEF Date

\* The start of an hour is in that hour.
LEMMA StartOfHour ==
  ASSUME cfg.type = "h", NEW s \in Int
  PROVE  /\ Start(s) \in Int /\ Start(s) % 3600 = 0 /\ DayOf(Start(s)) = DayOf(s)
         /\ TimeOfDay(Start(s)).hour = TimeOfDay(s).hour
         /\ IsTime(TimeOfDay(Start(s))) /\ IsTime(TimeOfDay(s))
<1> DEFINE t == (s \div 3600) * 3600
<1>1. Start(s) = t
  BY DEF Start
<1>2. /\ t \in Int /\ t % 3600 = 0 /\ t \div 86400 = s \div 86400
      /\ (t % 86400) \div 3600 = (s % 86400) \div 3600
      /\ (s % 86400) \div 3600 \in 0..23
      /\ (s % 3600) \div 60 \in 0..59
  OBVIOUS
<1> HIDE DEF t
<1>3. (t % 3600) \div 60 \in 0..59
  BY <1>2
<1>4. /\ TimeOfDay(t).hour = TimeOfDay(s).hour
      /\ IsTime(TimeOfDay(t)) /\ IsTime(TimeOfDay(s))
  BY <1>2, <1>3 DEF TimeOfDay, IsTime
<1> QED
  BY <1>1, <1>2, <1>4 DEF DayOf

\* Midnight is on the day it starts.
LEMMA StartOfDay ==
  ASSUME NEW s \in Int, NEW t, t = DayOf(s) * 86400
  PROVE  t \in Int /\ t % 86400 = 0 /\ t % 3600 = 0 /\ DayOf(t) = DayOf(s)
  BY DEF DayOf

\* The archives: months, days, hours and intervals.
Types == {"m", "d", "h", "i"}

\* Rounding to the start of the period keeps the index.
LEMMA StartHasIndex ==
  ASSUME cfg.type \in {"m", "d", "h"}, NEW s \in Int
  PROVE  Start(s) \in Int /\ Index(Start(s)) = Index(s) /\ IsStart(Start(s))
<1>1. CASE cfg.type = "m"
  <2>1. Start(s) = (DayOf(s) - Date(s).day + 1) * 86400
    BY <1>1 DEF Start
  <2>2. /\ Start(s) \in Int /\ Start(s) % 86400 = 0
        /\ Date(Start(s)).year = Date(s).year /\ Date(Start(s)).month = Date(s).month
        /\ Date(Start(s)).day = 1
    BY <2>1, FirstOfMonth
  <2>3. month_index(Date(Start(s)), cfg.depth) = month_index(Date(s), cfg.depth)
    BY <2>2 DEF month_index, IsMonth
  <2>4. Start(s) % 3600 = 0
    BY <2>2
  <2> QED
    BY <1>1, <2>2, <2>3, <2>4 DEF Index, IsStart
<1>2. CASE cfg.type = "d"
  <2>1. Start(s) = DayOf(s) * 86400
    BY <1>2 DEF Start
  <2>2. /\ Start(s) \in Int /\ Start(s) % 86400 = 0 /\ Start(s) % 3600 = 0
        /\ Date(Start(s)) = Date(s)
    BY <2>1, StartOfDay, SameDate
  <2> QED
    BY <1>2, <2>2 DEF Index, IsStart
<1>3. CASE cfg.type = "h"
  <2>2. /\ Start(s) \in Int /\ Start(s) % 3600 = 0
        /\ Date(Start(s)) = Date(s)
        /\ TimeOfDay(Start(s)).hour = TimeOfDay(s).hour
        /\ IsTime(TimeOfDay(Start(s))) /\ IsTime(TimeOfDay(s))
    <3>1. Start(s) \in Int /\ Start(s) % 3600 = 0 /\ DayOf(Start(s)) = DayOf(s)
      BY <1>3, StartOfHour
    <3>2. /\ TimeOfDay(Start(s)).hour = TimeOfDay(s).hour
          /\ IsTime(TimeOfDay(Start(s))) /\ IsTime(TimeOfDay(s))
      BY <1>3, StartOfHour
    <3>3. Date(Start(s)) = Date(s)
      BY <3>1, SameDate
    <3> QED
      BY <3>1, <3>2, <3>3
  <2>3. hour_index(Date(Start(s)), TimeOfDay(Start(s)), cfg.depth)
          = hour_index(Date(s), TimeOfDay(s), cfg.depth)
    BY <2>2 DEF hour_index
  <2> QED
    BY <1>3, <2>2, <2>3 DEF Index, IsStart
<1> QED
  BY <1>1, <1>2, <1>3

\* A local time in the zone's only time, tm_isdst being 0.
No == FALSE
Plain(x) == [sec |-> x, isdst |-> No]

\* A struct tm without summer time, and its second.
LEMMA PlainTimes ==
  ASSUME NEW x
  PROVE  Plain(x).sec = x /\ \A y : [Plain(x) EXCEPT !.sec = y] = Plain(y)
<1>1. Plain(x).sec = x
  BY DEF Plain
<1>2. ASSUME NEW y
      PROVE  [Plain(x) EXCEPT !.sec = y] = Plain(y)
  BY DEF Plain
<1> QED
  BY <1>1, <1>2

\* Without summer time a zone only shifts.
LEMMA Shift ==
  ASSUME Summers = {}
  PROVE  /\ Offset \in Int
         /\ \A u \in Int : time_local_from_utc(u) = Plain(u + Offset)
         /\ \A x \in Int : time_utc_from_local(Plain(x)) = x - Offset
<1>1. Offset \in Int
  BY SeqAssumption
<1>2. \A u : ~Summer(u)
  BY DEF Summer
<1>3. ASSUME NEW u \in Int
      PROVE  time_local_from_utc(u) = Plain(u + Offset)
  <2>1. u + Offset + 0 = u + Offset
    BY <1>1
  <2>2. time_local_from_utc(u) = [sec |-> u + Offset + 0, isdst |-> Summer(u)]
    BY <1>2 DEF time_local_from_utc
  <2>3. Summer(u) = FALSE
    BY <1>2 DEF Summer
  <2> QED
    BY <2>1, <2>2, <2>3 DEF Plain, No
<1>4. ASSUME NEW x \in Int
      PROVE  time_utc_from_local(Plain(x)) = x - Offset
  BY <1>1 DEF time_utc_from_local, Plain, No
<1> QED
  BY <1>1, <1>3, <1>4

\* All archives have a step, and it stays.
LEMMA StepIsNumber ==
  ASSUME cfg \in Configs
  PROVE  cfg.type \in Types /\ Step \in Nat \ {0}
<1>1. CASE cfg.type = "i" /\ cfg.interval \in 1..99
  BY <1>1 DEF Step, Types
<1>2. CASE cfg.type \in {"m", "d", "h"}
  BY <1>2 DEF Step, Types
<1>3. intcfg_is_valid(cfg)
  BY SeqAssumption
<1> QED
  BY <1>1, <1>2, <1>3 DEF intcfg_is_valid

-----------------------------------------------------------------------------
(* The invariant                                                           *)

\* The stamp u is the start of a period that is kept in slot i.
Fits(i, u) == Index(u + Offset) = i /\ IsStart(u + Offset)

\* Whether a stamp fits depends on the archive alone.
LEMMA FitsKept ==
  ASSUME cfg' = cfg, NEW i, NEW u
  PROVE  Fits(i, u)' = Fits(i, u)
  BY DEF Fits, Index, IsStart

\* What was stamped fits, and the loop knows the local time of its utc.
StampInv ==
  /\ cfg \in Configs
  /\ time \in [DOMAIN time -> Int]
  /\ dt.sec \in Int /\ dt = Plain(dt.sec)
  /\ utc \in Int
  /\ pc = "fill" => dt.sec = utc + Offset
  /\ \A i \in DOMAIN time : time[i] # TIME_INVALID => Fits(i, time[i])

\* No stamp is made yet.
LEMMA InitStamps ==
  ASSUME Init
  PROVE  StampInv
<1>1. cfg \in Configs /\ ref \in Int /\ utc = 0 /\ pc = "back"
  BY SeqAssumption DEF Init
<1>2. dt.sec \in Int /\ dt = Plain(dt.sec)
  <2> DEFINE x == IF cfg.type \in {"m", "d"} THEN DayOf(ref) * 86400 ELSE ref
  <2>1. x \in Int
    BY <1>1 DEF DayOf
  <2>2. dt = Plain(x)
    BY DEF Init, Given, FromDevice, Plain, No
  <2> HIDE DEF x
  <2> QED
    BY <2>1, <2>2, PlainTimes
<1>3. /\ time \in [DOMAIN time -> Int]
      /\ \A i \in DOMAIN time : time[i] = TIME_INVALID
  BY DEF Init, TIME_INVALID
<1> QED
  BY <1>1, <1>2, <1>3 DEF StampInv

\* A step that stamps nothing and ends with a local time of its utc.
LEMMA UnstampedStep ==
  ASSUME Summers = {}, StampInv, cfg' = cfg, time' = time,
         utc' \in Int, dt' = time_local_from_utc(utc')
  PROVE  StampInv'
<1>1. dt' = Plain(utc' + Offset) /\ utc' + Offset \in Int
  BY Shift
<1>2. dt'.sec = utc' + Offset
  BY <1>1, PlainTimes
<1>3. \A i \in DOMAIN time : time[i] # TIME_INVALID => Fits(i, time[i])'
  BY FitsKept DEF StampInv
<1> QED
  BY <1>1, <1>2, <1>3 DEF StampInv

\* A turn of the second loop stamps a slot with a start of its own.
LEMMA FillStep ==
  ASSUME Summers = {}, StampInv, FillOne
  PROVE  StampInv'
<1> DEFINE s == dt.sec
           i == Index(s)
           stamp == IF cfg.type # "i" /\ IsFree(i)
                    THEN time_utc_from_local([dt EXCEPT !.sec = Start(s)])
                    ELSE utc
<1>1. cfg' = cfg /\ Add(i, stamp) /\ utc' = stamp - Step /\ dt' = time_local_from_utc(utc')
  BY DEF FillOne
<1>2. s \in Int /\ dt = Plain(s) /\ s = utc + Offset /\ utc \in Int /\ Offset \in Int
  BY Shift DEF FillOne, StampInv
<1>3. cfg \in Configs /\ cfg.type \in Types /\ Step \in Int
  BY StepIsNumber DEF StampInv
<1>4. stamp \in Int /\ (IsFree(i) => Fits(i, stamp))
  <2>1. CASE cfg.type # "i" /\ IsFree(i)
    <3>1. Start(s) \in Int /\ Index(Start(s)) = i /\ IsStart(Start(s))
      BY <1>2, <1>3, <2>1, StartHasIndex DEF Types
    <3>2. [dt EXCEPT !.sec = Start(s)] = Plain(Start(s))
      BY <1>2, PlainTimes
    <3>3. stamp = Start(s) - Offset
      BY <2>1, <3>1, <3>2, Shift
    <3>4. stamp \in Int /\ stamp + Offset = Start(s)
      BY <1>2, <3>1, <3>3
    <3> QED
      BY <3>1, <3>4 DEF Fits
  <2>2. CASE ~(cfg.type # "i" /\ IsFree(i))
    <3>1. stamp = utc
      BY <2>2
    <3>2. cfg.type = "i" => IsStart(s)
      BY DEF IsStart
    <3> QED
      BY <1>2, <2>2, <3>1, <3>2 DEF Fits
  <2> QED
    BY <2>1, <2>2
<1> HIDE DEF stamp, i
<1>5. /\ time' \in [DOMAIN time' -> Int]
      /\ \A j \in DOMAIN time' : time'[j] # TIME_INVALID => Fits(j, time'[j])
  <2>1. CASE IsFree(i)
    <3>1. time' = [time EXCEPT ![i] = stamp] /\ i \in DOMAIN time
      BY <1>1, <2>1 DEF Add, IsFree
    <3> QED
      BY <1>4, <2>1, <3>1 DEF StampInv
  <2>2. CASE ~IsFree(i)
    BY <1>1, <2>2 DEF Add, StampInv
  <2> QED
    BY <2>1, <2>2
<1>6. utc' \in Int
  BY <1>1, <1>3, <1>4
<1>7. dt' = Plain(utc' + Offset) /\ utc' + Offset \in Int
  BY <1>1, <1>2, <1>6, Shift
<1>8. dt'.sec = utc' + Offset
  BY <1>7, PlainTimes
<1>9. \A j \in DOMAIN time' : time'[j] # TIME_INVALID => Fits(j, time[j])'
  BY <1>1, <1>5, FitsKept
<1> QED
  BY <1>1, <1>3, <1>5, <1>6, <1>7, <1>8, <1>9 DEF StampInv

\* A step stamps a slot with the start of one of its periods, or none.
LEMMA StampStep ==
  ASSUME Summers = {}, StampInv, [Next]_vars
  PROVE  StampInv'
<1>1. dt.sec \in Int /\ dt = Plain(dt.sec) /\ Step \in Nat \ {0} /\ Offset \in Int
  BY StepIsNumber, Shift DEF StampInv
<1>2. time_utc_from_local(dt) \in Int
  BY <1>1, Shift
<1>3. CASE WalkBack
  <2>1. utc' \in Int
    BY <1>1, <1>2, <1>3 DEF WalkBack
  <2> QED
    BY <1>3, <2>1, UnstampedStep DEF WalkBack
<1>4. CASE StartInterval
  <2>1. utc' \in Int
    <3>1. utc' = (time_utc_from_local(dt) \div Step + 1) * Step
      BY <1>4 DEF StartInterval, RoundUp
    <3>2. time_utc_from_local(dt) \div Step \in Int
      BY <1>1, <1>2, DivMod
    <3> QED
      BY <1>1, <3>1, <3>2
  <2> QED
    BY <1>4, <2>1, UnstampedStep DEF StartInterval
<1>5. CASE FillOne
  BY <1>5, FillStep
<1>6. CASE Trap \/ Done \/ UNCHANGED vars
  <2>1. UNCHANGED <<cfg, utc, dt, time>> /\ (pc' = "fill" => pc = "fill")
    BY <1>6 DEF Trap, Done, vars
  <2>2. \A i \in DOMAIN time : time[i] # TIME_INVALID => Fits(i, time[i])'
    BY <2>1, FitsKept DEF StampInv
  <2> QED
    BY <2>1, <2>2 DEF StampInv
<1> QED
  BY <1>3, <1>4, <1>5, <1>6 DEF Next

\* Whatever the device's clock says when the sequence is made, and however far
\* the loops get, no slot has a stamp of another slot, nor one inside a period.
THEOREM StampsFit ==
  ASSUME Summers = {}
  PROVE  Spec => []StampOfSlot
<1>1. Init => StampInv
  BY InitStamps
<1>2. StampInv /\ [Next]_vars => StampInv'
  BY StampStep
<1>3. StampInv => StampOfSlot
  <2> SUFFICES ASSUME StampInv, NEW i \in Filled
               PROVE  Index(Local(i)) = i /\ IsStart(Local(i))
    BY DEF StampOfSlot
  <2>1. Fits(i, time[i]) /\ time[i] \in Int
    BY DEF StampInv, Filled
  <2>2. Local(i) = time[i] + Offset
    <3>1. time_local_from_utc(time[i]) = Plain(time[i] + Offset)
      BY <2>1, Shift
    <3> QED
      BY <3>1, PlainTimes DEF Local
  <2> QED
    BY <2>1, <2>2 DEF Fits
<1> QED
  BY <1>1, <1>2, <1>3, PTL DEF Spec

-----------------------------------------------------------------------------
(* The latest interval of every slot                                       *)

\* Multiples of the step, and their quotients.
LEMMA Multiples ==
  ASSUME NEW a \in Int, NEW b \in Int, NEW m \in Nat \ {0}
  PROVE  /\ a * m \in Int /\ a * m + b * m = (a + b) * m /\ a * m - b * m = (a - b) * m
         /\ (a * m) \div m = a
         /\ a * m < b * m => a < b
<1>1. a * m \in Int /\ b * m \in Int /\ a * m + b * m = (a + b) * m /\ a * m - b * m = (a - b) * m
  OBVIOUS
<1>2. a * m < b * m => a < b
  <2> SUFFICES ASSUME a * m < b * m, a >= b
               PROVE  FALSE
    OBVIOUS
  <2>1. m * (b - a) <= 0
    BY MultipleAtMost
  <2>2. m * (b - a) = b * m - a * m
    OBVIOUS
  <2> QED
    BY <1>1, <2>1, <2>2
<1>3. (a * m) \div m = a
  <2> DEFINE x == a * m
             q == x \div m
             r == x % m
  <2>1. x \in Int /\ q \in Int /\ x = m * q + r /\ r \in 0 .. m-1
    BY <1>1, DivMod, ModRange
  <2>2. m * (a - q) = r
    BY <2>1
  <2>3. a - q >= 1 => FALSE
    BY <2>1, <2>2, MultipleAtLeast
  <2>4. q - a >= 1 => FALSE
    <3>1. m * (q - a) = 0 - r
      BY <2>1, <2>2
    <3> QED
      BY <2>1, <3>1, MultipleAtLeast
  <2> QED
    BY <2>1, <2>3, <2>4
<1> QED
  BY <1>1, <1>2, <1>3

\* The interval after the one the device's time is in, counted in UTC.
NextInterval == (ref - Offset) \div Step + 1

\* The k-th turn of the loop is k intervals before the first one, and stamped
\* slots have stamps of turns that were made.
LatestInv ==
  /\ cfg \in Configs /\ ref \in Int
  /\ time \in [0 .. cfg.depth - 1 -> Int]
  /\ pc \in {"back", "fill", "done", "trapped"}
  /\ \E k \in 0 .. cfg.depth :
       /\ elapsed = k * Step
       /\ pc = "back" => k = 0 /\ dt = Plain(ref)
       /\ pc = "fill" => k < cfg.depth /\ utc = (NextInterval - k) * Step
       /\ \A i \in 0 .. cfg.depth - 1 : time[i] # TIME_INVALID =>
            \E j \in 0 .. k-1 : time[i] = (NextInterval - j) * Step

\* Archives of intervals, the zone a whole number of them ahead.
IntervalsOnly == \A c \in Configs : c.type = "i" /\ Offset % (c.interval * 60) = 0

\* The sizes of an interval archive.
LEMMA IntervalSizes ==
  ASSUME NEW c \in Configs, c.type = "i"
  PROVE  c.depth \in 1..8191 /\ c.interval \in 1..99
<1>1. intcfg_is_valid(c)
  BY SeqAssumption
<1> QED
  BY <1>1 DEF intcfg_is_valid

\* The step of an interval archive, and how far its loop goes.
LEMMA IntervalStep ==
  ASSUME IntervalsOnly, cfg \in Configs
  PROVE  /\ cfg.type = "i" /\ Step \in Nat \ {0} /\ Offset % Step = 0
         /\ cfg.depth \in Nat \ {0} /\ Limit = cfg.depth * Step
<1>1. cfg.type = "i" /\ Offset % (cfg.interval * 60) = 0
  BY SMTT(60) DEF IntervalsOnly
<1>2. cfg.depth \in 1..8191 /\ cfg.interval \in 1..99
  BY <1>1, IntervalSizes, SMTT(60)
<1>3. Step = cfg.interval * 60 /\ Limit = cfg.depth * cfg.interval * 60
  BY <1>1 DEF Step, Limit
<1>4. \A d, n \in Int : d * n * 60 = d * (n * 60)
  OBVIOUS
<1>5. \A n \in 1..99 : n * 60 \in Nat \ {0}
  OBVIOUS
<1>6. cfg.depth \in Int /\ cfg.interval \in Int /\ cfg.depth \in Nat \ {0}
  <2> DEFINE d == cfg.depth
             n == cfg.interval
  <2>1. d \in 1..8191 /\ n \in 1..99
    BY <1>2
  <2> HIDE DEF d, n
  <2>2. d \in Int /\ n \in Int /\ d \in Nat \ {0}
    BY <2>1
  <2> QED
    BY <2>2 DEF d, n
<1>7. Limit = cfg.depth * Step
  BY <1>3, <1>4, <1>6
<1>8. Step \in Nat \ {0}
  BY <1>2, <1>3, <1>5
<1> QED
  BY <1>1, <1>3, <1>6, <1>7, <1>8

\* No turn is made yet.
LEMMA InitLatest ==
  ASSUME IntervalsOnly, Init
  PROVE  LatestInv
<1>1. cfg \in Configs /\ ref \in Int /\ pc = "back" /\ elapsed = 0
  BY SeqAssumption DEF Init
<1>2. cfg.type = "i" /\ Step \in Nat \ {0} /\ cfg.depth \in Nat \ {0}
  BY <1>1, IntervalStep
<1>3. dt = Plain(ref)
  BY <1>2 DEF Init, Given, FromDevice, Plain, No
<1>4. /\ time \in [0 .. cfg.depth - 1 -> Int]
      /\ \A i \in 0 .. cfg.depth - 1 : time[i] = TIME_INVALID
  BY DEF Init, TIME_INVALID
<1>5. 0 \in 0 .. cfg.depth /\ elapsed = 0 * Step
  BY <1>1, <1>2
<1> QED
  BY <1>1, <1>3, <1>4, <1>5 DEF LatestInv

\* A turn stamps the interval it is at, and goes to the one before.
LEMMA LatestStep ==
  ASSUME Summers = {}, IntervalsOnly, LatestInv, [Next]_vars
  PROVE  LatestInv'
<1> DEFINE D == cfg.depth
           Q == NextInterval
           K(k) == /\ elapsed = k * Step
                   /\ pc = "back" => k = 0 /\ dt = Plain(ref)
                   /\ pc = "fill" => k < D /\ utc = (Q - k) * Step
                   /\ \A i \in 0 .. D - 1 : time[i] # TIME_INVALID =>
                        \E j \in 0 .. k-1 : time[i] = (Q - j) * Step
<1>1. /\ cfg.type = "i" /\ Step \in Nat \ {0} /\ D \in Nat \ {0} /\ Limit = D * Step
      /\ ref \in Int /\ Offset \in Int /\ cfg \in Configs
      /\ time \in [0 .. D - 1 -> Int]
  BY IntervalStep, Shift DEF LatestInv
<1>2. Q \in Int
  BY <1>1, DivMod DEF NextInterval
<1>3. PICK k \in 0 .. D : K(k)
  BY DEF LatestInv
<1>4. ASSUME cfg' = cfg, ref' = ref
      PROVE  Step' = Step /\ Q' = Q
  BY <1>4 DEF NextInterval, Step
<1>5. CASE StartInterval
  <2>1. /\ cfg' = cfg /\ ref' = ref /\ time' = time /\ elapsed' = elapsed /\ pc' = "fill"
        /\ utc' = RoundUp(time_utc_from_local(dt)) /\ pc = "back"
    BY <1>5 DEF StartInterval
  <2>2. k = 0 /\ time_utc_from_local(dt) = ref - Offset
    BY <1>1, <1>3, <2>1, Shift
  <2>3. utc' = Q * Step
    BY <2>1, <2>2 DEF RoundUp, NextInterval
  <2>4. Step' = Step /\ Q' = Q
    BY <1>4, <2>1
  <2>5. utc' = (Q - k) * Step /\ k < D
    BY <1>1, <1>2, <2>2, <2>3
  <2> QED
    BY <1>1, <1>3, <2>1, <2>4, <2>5 DEF LatestInv
<1>6. CASE FillOne
  <2> DEFINE i == Index(dt.sec)
  <2>1. /\ cfg' = cfg /\ ref' = ref /\ pc = "fill" /\ elapsed' = elapsed + Step
        /\ Add(i, utc) /\ utc' = utc - Step
        /\ pc' = "done" \/ (pc' = "fill" /\ elapsed' < Limit)
    <3>1. CASE IsFree(i)
      BY <1>1, <1>6, <3>1 DEF FillOne
    <3>2. CASE ~IsFree(i)
      BY <1>1, <1>6, <3>2 DEF FillOne
    <3> QED
      BY <3>1, <3>2
  <2>2. Step' = Step /\ Q' = Q
    BY <1>4, <2>1
  <2>3. k < D /\ utc = (Q - k) * Step /\ elapsed = k * Step
    BY <1>3, <2>1
  <2>4. elapsed' = (k + 1) * Step /\ k + 1 \in 0 .. D
    BY <1>1, <2>1, <2>3
  <2>5. utc' = (Q - (k + 1)) * Step
    BY <1>1, <1>2, <2>1, <2>3
  <2>6. pc' = "fill" => k + 1 < D
    <3>1. pc' = "fill" => (k + 1) * Step < D * Step
      BY <1>1, <2>1, <2>4
    <3>2. k + 1 \in Int /\ D \in Int
      BY <1>1
    <3> HIDE DEF D
    <3> QED
      BY <1>1, <3>1, <3>2, Multiples
  <2>7. utc \in Int
    BY <1>1, <1>2, <2>3, Multiples
  <2> HIDE DEF i
  <2>8. /\ time' \in [0 .. D - 1 -> Int]
        /\ \A x \in 0 .. D - 1 : time'[x] # TIME_INVALID =>
             \E j \in 0 .. k : time'[x] = (Q - j) * Step
    <3>1. CASE IsFree(i)
      <4>1. time' = [time EXCEPT ![i] = utc]
        BY <2>1, <3>1 DEF Add
      <4>2. ASSUME NEW x \in 0 .. D - 1, time'[x] # TIME_INVALID
            PROVE  \E j \in 0 .. k : time'[x] = (Q - j) * Step
        <5>1. CASE x = i
          BY <1>1, <2>3, <4>1, <5>1
        <5>2. CASE x # i
          <6>1. time'[x] = time[x]
            BY <1>1, <4>1, <5>2
          <6>2. PICK j \in 0 .. k-1 : time[x] = (Q - j) * Step
            BY <1>3, <4>2, <6>1
          <6> QED
            BY <6>1, <6>2
        <5> QED
          BY <5>1, <5>2
      <4> QED
        BY <1>1, <2>7, <4>1, <4>2
    <3>2. CASE ~IsFree(i)
      <4>1. time' = time
        BY <2>1, <3>2 DEF Add
      <4>2. ASSUME NEW x \in 0 .. D - 1, time[x] # TIME_INVALID
            PROVE  \E j \in 0 .. k : time[x] = (Q - j) * Step
        <5>1. PICK j \in 0 .. k-1 : time[x] = (Q - j) * Step
          BY <1>3, <4>2
        <5> QED
          BY <5>1
      <4> QED
        BY <1>1, <4>1, <4>2
    <3> QED
      BY <3>1, <3>2
  <2>9. k = (k + 1) - 1
    BY <1>1
  <2> QED
    <3> DEFINE n == k + 1
    <3>1. /\ n \in 0 .. D /\ elapsed' = n * Step /\ utc' = (Q - n) * Step
          /\ pc' = "fill" => n < D
          /\ \A x \in 0 .. D - 1 : time'[x] # TIME_INVALID =>
               \E j \in 0 .. n-1 : time'[x] = (Q - j) * Step
      BY <2>4, <2>5, <2>6, <2>8, <2>9
    <3> HIDE DEF n
    <3> QED
      BY <1>1, <2>1, <2>2, <2>8, <3>1, ZenonT(60) DEF LatestInv
<1>7. CASE Trap \/ Done \/ UNCHANGED vars
  <2>1. /\ UNCHANGED <<cfg, ref, utc, dt, time, elapsed>>
        /\ pc' = pc \/ pc' = "trapped"
    BY <1>7 DEF Trap, Done, vars
  <2>2. Step' = Step /\ Q' = Q
    BY <1>4, <2>1
  <2> QED
    BY <1>1, <1>3, <2>1, <2>2 DEF LatestInv
<1>8. ~WalkBack
  BY <1>1 DEF WalkBack
<1> QED
  BY <1>5, <1>6, <1>7, <1>8 DEF Next

\* An interval archive shows in every slot its latest interval, no matter where
\* in an interval the device's clock is: the loop neither overtakes the clock
\* nor comes back to a slot it has stamped.
THEOREM IntervalsAreLatest ==
  ASSUME Summers = {}, IntervalsOnly
  PROVE  Spec => []StampIsLatest
<1>1. Init => LatestInv
  BY InitLatest
<1>2. LatestInv /\ [Next]_vars => LatestInv'
  BY LatestStep
<1>3. LatestInv => StampIsLatest
  <2> SUFFICES ASSUME LatestInv, NEW i \in Filled
               PROVE  /\ Period(Local(i)) <= Newest
                      /\ Newest < NextUse(Period(Local(i)), i)
    BY DEF StampIsLatest
  <2> DEFINE Q == NextInterval
             z == Offset \div Step
  <2>1. /\ cfg.type = "i" /\ Step \in Nat \ {0} /\ cfg.depth \in Nat \ {0}
        /\ ref \in Int /\ Offset \in Int /\ Offset % Step = 0
    BY IntervalStep, Shift DEF LatestInv
  <2>2. z \in Int /\ Offset = z * Step
    BY <2>1, DivMod
  <2>3. Q \in Int
    BY <2>1, DivMod DEF NextInterval
  <2>4. PICK j \in 0 .. cfg.depth - 1 : time[i] = (Q - j) * Step
    BY <2>1 DEF LatestInv, Filled
  <2>11. Q = (ref - Offset) \div Step + 1
    BY DEF NextInterval
  <2> HIDE DEF Q, z
  <2>5. time[i] \in Int /\ Local(i) = (Q - j) * Step + Offset
    <3>1. time[i] \in Int
      BY <2>1, <2>3, <2>4, Multiples
    <3>2. time_local_from_utc(time[i]) = Plain(time[i] + Offset)
      BY <3>1, Shift
    <3> QED
      BY <2>4, <3>1, <3>2, PlainTimes DEF Local
  <2>6. Local(i) = ((Q - j) + z) * Step
    BY <2>1, <2>2, <2>3, <2>5, Multiples
  <2>7. Period(Local(i)) = (Q - j) + z
    <3>1. Period(Local(i)) = (((Q - j) + z) * Step) \div Step
      BY <2>1, <2>6 DEF Period
    <3>2. (Q - j) + z \in Int
      BY <2>2, <2>3, <2>1
    <3> QED
      BY <2>1, <3>1, <3>2, Multiples
  <2>8. ref \div Step = (Q - 1) + z
    <3>1. ((ref - Offset) + z * Step) \div Step = (ref - Offset) \div Step + z
      <4>1. ref - Offset \in Int
        BY <2>1
      <4> QED
        BY <2>1, <2>2, <4>1, QuotientShift
    <3>2. (ref - Offset) + z * Step = ref
      BY <2>1, <2>2
    <3>3. (ref - Offset) \div Step \in Int
      BY <2>1, DivMod
    <3> QED
      BY <2>2, <2>11, <3>1, <3>2, <3>3
  <2>9. Newest = Q + z
    BY <2>1, <2>2, <2>3, <2>8 DEF Newest, Period
  <2>10. NextUse(Period(Local(i)), i) = ((Q - j) + z) + cfg.depth
    BY <2>1, <2>7 DEF NextUse
  <2> QED
    BY <2>1, <2>2, <2>3, <2>7, <2>9, <2>10
<1> QED
  BY <1>1, <1>2, <1>3, PTL DEF Spec

-----------------------------------------------------------------------------
(* Months and days                                                         *)

\* Days since 1 January 2000; the year, the month and the day of the month of
\* day d.
DayNo(s) == DayOf(s) - 10957
YearNo(d) == 4 * (d \div 1461) + YearOfFour(d)
Table(d) == DAYS_IN_YEAR(YearOfFour(d) = 0)
MonthNo(d) == MonthOf(DayOfYear(d), Table(d))
DayInMonth(d) == DayOfYear(d) - Table(d)[MonthNo(d)] + 1

\* A second's date is that of its day.
LEMMA DateParts ==
  ASSUME NEW s
  PROVE  Date(s) = [year |-> YearNo(DayNo(s)), month |-> MonthNo(DayNo(s)),
                    day |-> DayInMonth(DayNo(s))]
  BY DEF Date, DayNo, YearNo, Table, MonthNo, DayInMonth, YearOfFour, DayOfYear

\* What the tables say of a month: it has 28 days at least.
Begins(before) ==
  /\ \A i \in 1..12 : before[i] \in 0..335
  /\ \A i \in 1..11 : before[i] + 28 <= before[i + 1] /\ before[i + 1] <= before[i] + 31
  /\ before[1] = 0 /\ before[12] \in {334, 335}

\* Both tables do.
LEMMA TablesBegin ==
  ASSUME NEW before \in YearTables
  PROVE  Begins(before)
  BY DEF YearTables, DAYS_IN_YEAR, Begins

\* One month of the table.
LEMMA MonthBegins ==
  ASSUME NEW before \in YearTables, NEW i \in 1..12
  PROVE  /\ before[i] \in Nat /\ before[i] <= 335 /\ (i = 1 => before[i] = 0)
         /\ i < 12 => before[i + 1] \in Nat /\ before[i] + 28 <= before[i + 1]
<1>1. Begins(before)
  BY TablesBegin
<1>2. before[i] \in 0..335
  BY <1>1 DEF Begins
<1>3. ASSUME i < 12
      PROVE  before[i + 1] \in 0..335 /\ before[i] + 28 <= before[i + 1]
  <2>1. i \in 1..11 /\ i + 1 \in 1..12
    BY <1>3
  <2> QED
    BY <1>1, <2>1 DEF Begins
<1>4. before[1] = 0
  BY <1>1 DEF Begins
<1> QED
  BY <1>2, <1>3, <1>4

\* The table of a year is one of two.
LEMMA TableIs ==
  ASSUME NEW d
  PROVE  Table(d) \in YearTables /\ Table(d)[12] = IF YearOfFour(d) = 0 THEN 335 ELSE 334
<1> DEFINE y == YearOfFour(d)
<1>1. DAYS_IN_YEAR(y = 0) \in YearTables /\ DAYS_IN_YEAR(y = 0)[12] = IF y = 0 THEN 335 ELSE 334
  <2> HIDE DEF y
  <2>1. CASE y = 0
    BY <2>1 DEF YearTables, DAYS_IN_YEAR
  <2>2. CASE y # 0
    BY <2>2 DEF YearTables, DAYS_IN_YEAR
  <2> QED
    BY <2>1, <2>2
<1> QED
  BY <1>1 DEF Table

\* The month that a day of the year is in.
LEMMA MonthIs ==
  ASSUME NEW before \in YearTables, NEW n \in Nat, NEW i \in 1..12,
         before[i] <= n, i = 12 \/ n < before[i + 1]
  PROVE  MonthOf(n, before) = i
<1> DEFINE Has(j) == before[j] <= n /\ (j = 12 \/ n < before[j + 1])
<1>1. MonthOf(n, before) \in 1..12 /\ Has(MonthOf(n, before))
  BY DEF MonthOf
<1>2. \A j \in 1..12 : before[j] \in Nat
  BY DEF YearTables, DAYS_IN_YEAR
<1>3. \A j, k \in 1..12 : j < k => before[j + 1] <= before[k]
  BY DEF YearTables, DAYS_IN_YEAR
<1>4. \A j, k \in 1..12 : Has(j) /\ Has(k) => ~(j < k)
  <2> SUFFICES ASSUME NEW j \in 1..12, NEW k \in 1..12, Has(j), Has(k), j < k
               PROVE  FALSE
    OBVIOUS
  <2>1. j + 1 \in 1..12 /\ j # 12
    OBVIOUS
  <2>2. n < before[j + 1] /\ before[j + 1] <= before[k] /\ before[k] <= n
    BY <1>3, <2>1
  <2> QED
    BY <1>2, <2>1, <2>2
<1>5. Has(i)
  OBVIOUS
<1> DEFINE m == MonthOf(n, before)
<1> HIDE DEF m, Has
<1>6. m \in 1..12 /\ Has(m)
  BY <1>1 DEF m
<1>7. ~(m < i) /\ ~(i < m)
  BY <1>4, <1>5, <1>6
<1> QED
  BY <1>6, <1>7 DEF m

\* The parts of a day's date are numbers in their ranges.
LEMMA PartsAreNumbers ==
  ASSUME NEW d \in Int
  PROVE  /\ YearOfFour(d) \in 0..3 /\ YearNo(d) \in Int
         /\ DayOfYear(d) \in 0 .. (IF YearOfFour(d) = 0 THEN 365 ELSE 364)
         /\ MonthNo(d) \in 1..12
         /\ Table(d)[MonthNo(d)] <= DayOfYear(d)
         /\ MonthNo(d) < 12 => DayOfYear(d) < Table(d)[MonthNo(d) + 1]
<1> DEFINE r == d % 1461
<1>1. r \in 0..1460 /\ d \div 1461 \in Int
  BY ModRange
<1>2. YearOfFour(d) \in 0..3 /\ DayOfYear(d) \in 0 .. (IF YearOfFour(d) = 0 THEN 365 ELSE 364)
  <2>1. CASE r < 366
    BY <1>1, <2>1 DEF YearOfFour, DayOfYear
  <2>2. CASE r >= 366
    <3>1. (r - 366) \div 365 \in 0..2 /\ (r - 366) % 365 \in 0..364
      BY <1>1, <2>2
    <3>2. YearOfFour(d) = 1 + (r - 366) \div 365
      BY <1>1, <2>2 DEF YearOfFour
    <3>3. YearOfFour(d) \in 1..3
      BY <3>1, <3>2
    <3>4. DayOfYear(d) = (r - 366) % 365
      BY <3>3 DEF DayOfYear
    <3> QED
      BY <3>1, <3>3, <3>4
  <2> QED
    BY <1>1, <2>1, <2>2
<1>3. YearNo(d) \in Int
  BY <1>1, <1>2 DEF YearNo
<1>4. /\ MonthNo(d) \in 1..12 /\ Table(d)[MonthNo(d)] <= DayOfYear(d)
      /\ MonthNo(d) < 12 => DayOfYear(d) < Table(d)[MonthNo(d) + 1]
  <2> DEFINE n == DayOfYear(d)
             b == Table(d)
             Has(j) == b[j] <= n /\ (j = 12 \/ n < b[j + 1])
  <2>1. n \in Nat /\ b \in YearTables
    BY <1>2, TableIs
  <2> HIDE DEF n, b
  <2>2. \E j \in 1..12 : Has(j)
    BY <2>1 DEF YearTables, DAYS_IN_YEAR
  <2>3. MonthOf(n, b) \in 1..12 /\ Has(MonthOf(n, b))
    BY <2>2 DEF MonthOf
  <2>4. MonthNo(d) = MonthOf(n, b)
    BY DEF MonthNo, n, b
  <2> HIDE DEF Has
  <2>5. MonthNo(d) \in 1..12 /\ Has(MonthNo(d))
    BY <2>3, <2>4
  <2> QED
    BY <2>5 DEF Has, n, b
<1> QED
  BY <1>2, <1>3, <1>4

\* The days before New Year are the last of the year before.
LEMMA YearBefore ==
  ASSUME NEW d \in Int, DayOfYear(d) = 0, NEW k \in 1..31
  PROVE  /\ YearNo(d - k) = YearNo(d) - 1
         /\ DayOfYear(d - k) = (IF YearOfFour(d - k) = 0 THEN 366 ELSE 365) - k
<1> DEFINE r == d % 1461
           q == d \div 1461
           e == d - k
<1>1. r \in 0..1460 /\ q \in Int /\ d = 1461 * q + r
  BY ModRange, DivMod
<1>2. r \in {0, 366, 731, 1096}
  <2>1. CASE r < 366
    BY <1>1, <2>1 DEF DayOfYear, YearOfFour
  <2>2. CASE r >= 366
    <3>1. (r - 366) \div 365 \in 0..2 /\ (r - 366) = 365 * ((r - 366) \div 365) + ((r - 366) % 365)
      BY <1>1, <2>2
    <3>2. YearOfFour(d) = 1 + (r - 366) \div 365
      BY <1>1, <2>2 DEF YearOfFour
    <3>3. (r - 366) % 365 = 0
      BY <3>1, <3>2 DEF DayOfYear
    <3> QED
      BY <1>1, <3>1, <3>3
  <2> QED
    BY <1>1, <2>1, <2>2
<1> HIDE DEF r, q
<1>3. CASE r = 0
  <2>1. e \div 1461 = q - 1 /\ e % 1461 = 1461 - k
    BY <1>1, <1>3
  <2>2. YearOfFour(e) = 3 /\ YearOfFour(d) = 0
    BY <1>3, <2>1 DEF YearOfFour, r
  <2>3. DayOfYear(e) = 365 - k
    BY <2>1, <2>2 DEF DayOfYear
  <2> QED
    BY <1>1, <2>1, <2>2, <2>3 DEF YearNo, q
<1>4. CASE r = 366
  <2>1. e \div 1461 = q /\ e % 1461 = 366 - k
    BY <1>1, <1>4
  <2>2. YearOfFour(e) = 0 /\ YearOfFour(d) = 1
    BY <1>4, <2>1 DEF YearOfFour, r
  <2>3. DayOfYear(e) = 366 - k
    BY <2>1, <2>2 DEF DayOfYear
  <2> QED
    BY <1>1, <2>1, <2>2, <2>3 DEF YearNo, q
<1>5. CASE r = 731
  <2>1. e \div 1461 = q /\ e % 1461 = 731 - k
    BY <1>1, <1>5
  <2>2. YearOfFour(e) = 1 /\ YearOfFour(d) = 2
    BY <1>5, <2>1 DEF YearOfFour, r
  <2>3. DayOfYear(e) = 365 - k
    BY <2>1, <2>2 DEF DayOfYear
  <2> QED
    BY <1>1, <2>1, <2>2, <2>3 DEF YearNo, q
<1>6. CASE r = 1096
  <2>1. e \div 1461 = q /\ e % 1461 = 1096 - k
    BY <1>1, <1>6
  <2>2. YearOfFour(e) = 2 /\ YearOfFour(d) = 3
    BY <1>6, <2>1 DEF YearOfFour, r
  <2>3. DayOfYear(e) = 365 - k
    BY <2>1, <2>2 DEF DayOfYear
  <2> QED
    BY <1>1, <2>1, <2>2, <2>3 DEF YearNo, q
<1> QED
  BY <1>2, <1>3, <1>4, <1>5, <1>6

\* The months are numbered through all years.
MonthCount(d) == 12 * YearNo(d) + MonthNo(d)

\* Days before in the same month.
LEMMA BackInMonth ==
  ASSUME NEW d \in Int, NEW j \in Nat, j < DayInMonth(d)
  PROVE  /\ YearNo(d - j) = YearNo(d) /\ MonthNo(d - j) = MonthNo(d)
         /\ DayInMonth(d - j) = DayInMonth(d) - j
<1> DEFINE n == DayOfYear(d)
           b == Table(d)
           m == MonthNo(d)
<1>1. /\ n \in Nat /\ b \in YearTables /\ m \in 1..12
      /\ b[m] <= n /\ (m < 12 => n < b[m + 1])
  BY PartsAreNumbers, TableIs
<1>2. /\ b[m] \in Nat /\ b[m] <= 335 /\ (m = 1 => b[m] = 0)
      /\ m < 12 => b[m + 1] \in Nat /\ b[m] + 28 <= b[m + 1]
  <2> HIDE DEF b, m
  <2> QED
    BY <1>1, MonthBegins
<1>3. b[m] \in Nat
  BY <1>2
<1>4. DayInMonth(d) = n - b[m] + 1
  BY DEF DayInMonth
<1>5. j <= n /\ n - j \in Nat /\ b[m] <= n - j
  BY <1>1, <1>3, <1>4
<1>6. /\ (d - j) \div 1461 = d \div 1461 /\ YearOfFour(d - j) = YearOfFour(d)
      /\ DayOfYear(d - j) = n - j
  BY <1>5, SameYear
<1>7. YearNo(d - j) = YearNo(d) /\ Table(d - j) = b
  BY <1>6 DEF YearNo, Table
<1> HIDE DEF b, n, m
<1>8. m = 12 \/ n - j < b[m + 1]
  <2>1. m < 12 => b[m + 1] \in Int
    BY <1>2
  <2> QED
    BY <1>1, <2>1
<1>9. MonthOf(n - j, b) = m
  BY <1>1, <1>5, <1>8, MonthIs
<1>10. MonthNo(d - j) = m
  BY <1>6, <1>7, <1>9 DEF MonthNo
<1>11. DayInMonth(d - j) = (n - j) - b[m] + 1
  BY <1>6, <1>7, <1>10 DEF DayInMonth
<1> QED
  BY <1>1, <1>3, <1>4, <1>7, <1>10, <1>11 DEF m

\* Days before the first of a month: the month before has 28 of them at least.
LEMMA BackOverFirst ==
  ASSUME NEW d \in Int, DayInMonth(d) = 1, NEW k \in 1..28
  PROVE  MonthCount(d - k) = MonthCount(d) - 1 /\ DayInMonth(d - k) >= 29 - k
<1> DEFINE n == DayOfYear(d)
           b == Table(d)
           m == MonthNo(d)
<1>1. n \in Nat /\ b \in YearTables /\ m \in 1..12 /\ YearNo(d) \in Int
  BY PartsAreNumbers, TableIs
<1>2. /\ b[m] \in Nat /\ b[m] <= 335 /\ (m = 1 => b[m] = 0)
      /\ m < 12 => b[m + 1] \in Nat /\ b[m] + 28 <= b[m + 1]
  <2> HIDE DEF b, m
  <2> QED
    BY <1>1, MonthBegins
<1>3. b[m] \in Nat
  BY <1>2
<1>4. n = b[m]
  BY <1>1, <1>3 DEF DayInMonth
<1>5. CASE m > 1
  <2> DEFINE i == m - 1
  <2>1. i \in 1..11 /\ i + 1 = m
    BY <1>1, <1>5
  <2> HIDE DEF i
  <2>2. b[i] \in Nat /\ b[i] + 28 <= b[m]
    <3>1. i \in 1..12 /\ i < 12
      BY <2>1
    <3> HIDE DEF b, m
    <3>2. b[i] + 28 <= b[i + 1] /\ b[i] \in Nat
      BY <1>1, <3>1, MonthBegins
    <3> QED
      BY <2>1, <3>2
  <2>3. k <= n /\ n - k \in Nat /\ b[i] <= n - k
    BY <1>1, <1>4, <2>2
  <2>4. /\ (d - k) \div 1461 = d \div 1461 /\ YearOfFour(d - k) = YearOfFour(d)
        /\ DayOfYear(d - k) = n - k
    BY <2>3, SameYear
  <2>5. YearNo(d - k) = YearNo(d) /\ Table(d - k) = b
    BY <2>4 DEF YearNo, Table
  <2> HIDE DEF b, n, m
  <2>6. n - k < b[i + 1]
    BY <1>1, <1>3, <1>4, <2>1
  <2>7. MonthOf(n - k, b) = i
    <3>1. i \in 1..12
      BY <2>1
    <3> QED
      BY <1>1, <2>3, <2>6, <3>1, MonthIs
  <2>8. MonthNo(d - k) = i
    BY <2>4, <2>5, <2>7 DEF MonthNo
  <2>9. DayInMonth(d - k) = (n - k) - b[i] + 1
    BY <2>4, <2>5, <2>8 DEF DayInMonth
  <2>10. DayInMonth(d - k) >= 29 - k
    BY <1>1, <1>3, <1>4, <2>2, <2>9
  <2>11. MonthCount(d - k) = MonthCount(d) - 1
    BY <1>1, <2>1, <2>5, <2>8 DEF MonthCount, m
  <2> QED
    BY <2>10, <2>11
<1>6. CASE m = 1
  <2>1. n = 0
    BY <1>2, <1>4, <1>6
  <2> DEFINE e == d - k
             c == Table(e)
             y == YearOfFour(e)
  <2>2. YearNo(e) = YearNo(d) - 1 /\ DayOfYear(e) = (IF y = 0 THEN 366 ELSE 365) - k
    BY <2>1, YearBefore
  <2>3. c \in YearTables /\ c[12] = IF y = 0 THEN 335 ELSE 334
    BY TableIs
  <2> HIDE DEF c, y
  <2>4. DayOfYear(e) \in Nat /\ c[12] <= DayOfYear(e) /\ DayOfYear(e) - c[12] = 31 - k
    BY <2>2, <2>3
  <2>5. MonthOf(DayOfYear(e), c) = 12
    BY <2>3, <2>4, MonthIs
  <2>6. MonthNo(e) = 12
    BY <2>5 DEF MonthNo, c
  <2>7. DayInMonth(e) = 32 - k
    BY <2>3, <2>4, <2>6 DEF DayInMonth, c
  <2> HIDE DEF e
  <2>8. MonthCount(e) = MonthCount(d) - 1
    BY <1>1, <1>6, <2>2, <2>6 DEF MonthCount
  <2> QED
    BY <2>7, <2>8 DEF e
<1> QED
  BY <1>1, <1>5, <1>6

\* The first day of a month is its day 1.
LEMMA DayInMonthIsNumber ==
  ASSUME NEW d \in Int
  PROVE  DayInMonth(d) \in Nat \ {0} /\ MonthCount(d) \in Int
<1>1. /\ YearNo(d) \in Int /\ MonthNo(d) \in 1..12 /\ DayOfYear(d) \in Nat
      /\ Table(d)[MonthNo(d)] <= DayOfYear(d)
  BY PartsAreNumbers
<1>2. Table(d) \in YearTables
  BY TableIs
<1>3. Table(d)[MonthNo(d)] \in Nat
  BY <1>1, <1>2, MonthBegins
<1> QED
  BY <1>1, <1>3 DEF DayInMonth, MonthCount

\* Up to four weeks before the first of the month one is in this month or in the
\* one before.
LEMMA MonthBack ==
  ASSUME NEW d \in Int, NEW j \in Nat, j < DayInMonth(d) + 28
  PROVE  /\ j < DayInMonth(d) => MonthCount(d - j) = MonthCount(d)
         /\ j >= DayInMonth(d) => MonthCount(d - j) = MonthCount(d) - 1
         /\ j = DayInMonth(d) => DayInMonth(d - j) >= 28
<1>2. DayInMonth(d) \in Nat \ {0}
  BY DayInMonthIsNumber
<1>3. MonthCount(d) \in Int /\ MonthCount(d - j) \in Int
  BY DayInMonthIsNumber
<1>4. CASE j < DayInMonth(d)
  BY <1>2, <1>3, <1>4, BackInMonth DEF MonthCount
<1>5. CASE j >= DayInMonth(d)
  <2> DEFINE a == DayInMonth(d) - 1
             f == d - a
             k == j - a
  <2>1. a \in Nat /\ f \in Int /\ k \in 1..28 /\ f - k = d - j /\ (j = DayInMonth(d) => k = 1)
    BY <1>2, <1>5
  <2>2. /\ YearNo(f) = YearNo(d) /\ MonthNo(f) = MonthNo(d)
        /\ DayInMonth(f) = DayInMonth(d) - a
    BY <1>2, <2>1, BackInMonth
  <2>3. DayInMonth(f) = 1 /\ MonthCount(f) = MonthCount(d)
    BY <1>2, <2>2 DEF MonthCount
  <2> HIDE DEF f, k, a
  <2>4. MonthCount(f - k) = MonthCount(f) - 1 /\ DayInMonth(f - k) >= 29 - k
    BY <2>1, <2>3, BackOverFirst
  <2> QED
    BY <1>2, <1>3, <1>5, <2>1, <2>3, <2>4
<1> QED
  BY <1>2, <1>3, <1>4, <1>5

\* A day is counted by its four years, its year and its day of the year.
LEMMA DayInFour ==
  ASSUME NEW d \in Int
  PROVE  d = 1461 * (d \div 1461) + 365 * YearOfFour(d)
               + (IF YearOfFour(d) = 0 THEN 0 ELSE 1) + DayOfYear(d)
<1> DEFINE r == d % 1461
           q == d \div 1461
<1>1. r \in 0..1460 /\ q \in Int /\ d = 1461 * q + r
  BY ModRange, DivMod
<1>2. r = 365 * YearOfFour(d) + (IF YearOfFour(d) = 0 THEN 0 ELSE 1) + DayOfYear(d)
  <2>1. CASE r < 366
    BY <1>1, <2>1 DEF DayOfYear, YearOfFour
  <2>2. CASE r >= 366
    <3> DEFINE a == (r - 366) \div 365
               n == (r - 366) % 365
    <3>1. a \in 0..2 /\ n \in 0..364 /\ r - 366 = 365 * a + n
      BY <1>1, <2>2
    <3>2. YearOfFour(d) = 1 + a
      BY <1>1, <2>2 DEF YearOfFour
    <3>3. DayOfYear(d) = n
      BY <3>1, <3>2 DEF DayOfYear
    <3> HIDE DEF a, n
    <3> QED
      BY <1>1, <3>1, <3>2, <3>3
  <2> QED
    BY <1>1, <2>1, <2>2
<1>3. YearOfFour(d) \in 0..3 /\ DayOfYear(d) \in Int
  BY PartsAreNumbers
<1> HIDE DEF r, q
<1> QED
  BY <1>1, <1>2, <1>3 DEF q

\* The days of 2000 to 2099.
CenturyDays == 0 .. 25 * 1461 - 1

\* The lengths of the months go with the table.
LEMMA MonthLength ==
  ASSUME NEW leap \in BOOLEAN, NEW m \in 1..12
  PROVE  /\ DAYS_IN_YEAR(leap) \in YearTables
         /\ DAYS_IN_MONTH(leap)[m] \in Nat
         /\ m < 12 => DAYS_IN_YEAR(leap)[m + 1] = DAYS_IN_YEAR(leap)[m] + DAYS_IN_MONTH(leap)[m]
         /\ m = 12 => DAYS_IN_YEAR(leap)[m] + DAYS_IN_MONTH(leap)[m] = IF leap THEN 366 ELSE 365
<1>1. CASE leap
  BY <1>1 DEF DAYS_IN_YEAR, DAYS_IN_MONTH, YearTables
<1>2. CASE ~leap
  BY <1>2 DEF DAYS_IN_YEAR, DAYS_IN_MONTH, YearTables
<1> QED
  BY <1>1, <1>2

\* What the indexes are made of: the date is one, and it gives the day of the
\* year and the number of the day.
LEMMA DateIsDate ==
  ASSUME NEW s, DayNo(s) \in CenturyDays
  PROVE  /\ IsDate(Date(s)) /\ day_index(Date(s)) = DayOfYear(DayNo(s))
         /\ DayNumber(Date(s)) = DayNo(s)
<1> DEFINE d == DayNo(s)
           q == d \div 1461
           y == YearOfFour(d)
           n == DayOfYear(d)
           m == MonthNo(d)
           leap == (y = 0)
           b == DAYS_IN_YEAR(leap)
           x == Date(s)
<1>1. d \in Int /\ d \in CenturyDays
  <2>1. CenturyDays \subseteq Int
    BY SMTT(60) DEF CenturyDays
  <2> QED
    BY <2>1
<1> HIDE DEF d
<1>2. q \in 0..24
  BY <1>1, SMTT(60) DEF CenturyDays
<1>3. /\ y \in 0..3 /\ n \in 0 .. (IF y = 0 THEN 365 ELSE 364) /\ m \in 1..12
      /\ b[m] <= n /\ (m < 12 => n < b[m + 1])
  BY <1>1, PartsAreNumbers DEF Table
<1>4. d = 1461 * q + 365 * y + (IF y = 0 THEN 0 ELSE 1) + n
  BY <1>1, DayInFour
<1>5. /\ x.year = 4 * q + y /\ x.month = m /\ x.day = n - b[m] + 1
  <2>1. x = [year |-> YearNo(d), month |-> MonthNo(d), day |-> DayInMonth(d)]
    BY DateParts DEF d
  <2> QED
    BY <2>1 DEF YearNo, DayInMonth, Table
<1> HIDE DEF q, y, n, m, x
<1>6. /\ x.year \in 0..99 /\ x.year % 4 = y /\ x.year \div 4 = q
  BY <1>2, <1>3, <1>5
<1>7. is_leap_year(x.year) = leap
  BY <1>6 DEF is_leap_year
<1> HIDE DEF leap
<1>8. /\ b \in YearTables /\ DAYS_IN_MONTH(leap)[m] \in Nat
      /\ m < 12 => b[m + 1] = b[m] + DAYS_IN_MONTH(leap)[m]
      /\ m = 12 => b[m] + DAYS_IN_MONTH(leap)[m] = IF leap THEN 366 ELSE 365
  <2>1. leap \in BOOLEAN
    BY DEF leap
  <2> QED
    BY <1>3, <2>1, MonthLength
<1>9. b[m] \in Nat
  BY <1>3, <1>8, MonthBegins
<1>10. IsDate(x)
  <2>1. x.day \in 1 .. DAYS_IN_MONTH(leap)[m]
    <3> DEFINE l == DAYS_IN_MONTH(leap)[m]
    <3>1. n \in Nat /\ l \in Nat /\ n < b[m] + l
      BY <1>3, <1>8, <1>9 DEF leap
    <3> HIDE DEF l
    <3> QED
      BY <1>3, <1>5, <1>9, <3>1 DEF l
  <2> QED
    BY <1>3, <1>5, <1>6, <1>7, <2>1 DEF IsDate, IsMonth
<1>11. day_index(x) = n
  <2>1. day_index(x) = b[m] + (n - b[m] + 1) - 1
    BY <1>5, <1>7, <1>10 DEF day_index
  <2>2. n \in Int
    BY <1>3
  <2> HIDE DEF b
  <2> QED
    BY <1>9, <2>1, <2>2
<1>12. DayNumber(x) = d
  <2>1. DayNumber(x) = 365 * (4 * q + y) + q + n + IF leap THEN 0 ELSE 1
    BY <1>5, <1>6, <1>7, <1>11 DEF DayNumber
  <2>2. n \in Int
    BY <1>3
  <2> QED
    BY <1>2, <1>3, <1>4, <2>1, <2>2 DEF leap
<1> QED
  BY <1>10, <1>11, <1>12 DEF d, x, n

-----------------------------------------------------------------------------
(* Periods and their slots                                                 *)

\* Step, Period, Start and Index of an archive, whatever the state.
StepOf(c) ==
  CASE c.type = "m" -> 691200 [] c.type = "d" -> 28800 [] c.type = "h" -> 1200
    [] c.type = "i" -> c.interval * 60
PeriodOf(c, s) ==
  CASE c.type = "m" -> MonthCount(DayNo(s)) [] c.type = "d" -> DayOf(s)
    [] c.type = "h" -> s \div 3600 [] c.type = "i" -> s \div StepOf(c)
StartOf(c, s) ==
  CASE c.type = "m" -> (DayOf(s) - DayInMonth(DayNo(s)) + 1) * 86400
    [] c.type = "d" -> DayOf(s) * 86400
    [] c.type = "h" -> (s \div 3600) * 3600
    [] c.type = "i" -> s
IndexOf(c, s) ==
  CASE c.type = "m" -> month_index(Date(s), c.depth)
    [] c.type = "d" -> day_index(Date(s))
    [] c.type = "h" -> hour_index(Date(s), TimeOfDay(s), c.depth)
    [] c.type = "i" -> interval_index(Date(s), TimeOfDay(s), c.depth, c.interval)

\* They are those of the archive that is read.
LEMMA OfArchive ==
  ASSUME cfg \in Configs
  PROVE  /\ Step = StepOf(cfg)
         /\ \A s \in Int : /\ Period(s) = PeriodOf(cfg, s) /\ Index(s) = IndexOf(cfg, s)
                           /\ cfg.type # "i" => Start(s) = StartOf(cfg, s)
<1>1. cfg.type \in Types
  BY StepIsNumber
<1>2. Step = StepOf(cfg)
  BY <1>1 DEF Step, StepOf, Types
<1>3. ASSUME NEW s \in Int
      PROVE  /\ Period(s) = PeriodOf(cfg, s) /\ Index(s) = IndexOf(cfg, s)
             /\ cfg.type # "i" => Start(s) = StartOf(cfg, s)
  <2>1. /\ Date(s).year = YearNo(DayNo(s)) /\ Date(s).month = MonthNo(DayNo(s))
        /\ Date(s).day = DayInMonth(DayNo(s))
    BY DateParts
  <2>2. Period(s) = PeriodOf(cfg, s)
    BY <1>1, <1>2, <2>1 DEF Period, PeriodOf, MonthCount, Types
  <2>3. Index(s) = IndexOf(cfg, s)
    BY <1>1 DEF Index, IndexOf, Types
  <2>4. cfg.type # "i" => Start(s) = StartOf(cfg, s)
    BY <1>1, <2>1 DEF Start, StartOf, Types
  <2> QED
    BY <2>2, <2>3, <2>4
<1> QED
  BY <1>2, <1>3

\* The archives that are read, and their sizes.
LEMMA ArchiveSizes ==
  ASSUME NEW c \in Configs
  PROVE  /\ c.type \in Types /\ StepOf(c) \in Nat \ {0} /\ c.depth \in Nat \ {0}
         /\ c.type = "m" => c.depth \in {12, 48}
         /\ c.type = "d" => c.depth = 366
         /\ c.type = "h" => c.depth \in {384, 768, 1536}
         /\ c.type = "i" => c.depth \in 1..8191 /\ c.interval \in 1..99
<1>1. intcfg_is_valid(c)
  BY SeqAssumption
<1>2. /\ c.type \in Types
      /\ c.type = "m" => c.depth \in {12, 48}
      /\ c.type = "d" => c.depth = 366
      /\ c.type = "h" => c.depth \in {384, 768, 1536}
      /\ c.type = "i" => c.depth \in 1..8191 /\ c.interval \in 1..99
  BY <1>1, SMTT(60) DEF intcfg_is_valid, Types
<1>3. c.depth \in Nat \ {0}
  <2> DEFINE A == 1..8191
             B == {12, 48, 366, 384, 768, 1536}
             x == c.depth
  <2>1. A \subseteq Nat \ {0} /\ B \subseteq Nat \ {0}
    OBVIOUS
  <2>2. x \in A \/ x \in B
    BY <1>2 DEF Types
  <2> HIDE DEF x, A, B
  <2>4. x \in Nat \ {0}
    BY <2>1, <2>2
  <2> QED
    BY <2>4 DEF x
<1>4. StepOf(c) \in Nat \ {0}
  <2>1. \A x \in 1..99 : x * 60 \in Nat \ {0}
    OBVIOUS
  <2> QED
    BY <1>2, <2>1 DEF Types, StepOf
<1> QED
  BY <1>2, <1>3, <1>4, SMTT(60)

\* A day's number, and that of days before.
LEMMA DaysBack ==
  ASSUME NEW s \in Int, NEW j \in Int, NEW t, t = s - j * 86400
  PROVE  t \in Int /\ DayNo(s) \in Int /\ DayNo(t) = DayNo(s) - j
  BY DEF DayNo, DayOf

\* A period starts in itself, and a step before its start is the one before.
LEMMA BeforeStart ==
  ASSUME NEW c \in Configs, NEW s \in Int
  PROVE  /\ PeriodOf(c, s) \in Int /\ StartOf(c, s) \in Int
         /\ PeriodOf(c, StartOf(c, s)) = PeriodOf(c, s)
         /\ PeriodOf(c, StartOf(c, s) - StepOf(c)) = PeriodOf(c, s) - 1
         /\ StartOf(c, s) <= s
<1>1. c.type \in Types /\ StepOf(c) \in Nat \ {0}
  BY ArchiveSizes
<1>2. CASE c.type = "m"
  <2> DEFINE d == DayNo(s)
             n == DayInMonth(d)
             a == n - 1
             b == n + 7
  <2>1. d \in Int
    BY DEF DayNo, DayOf
  <2> HIDE DEF d
  <2>2. n \in Nat \ {0} /\ MonthCount(d) \in Int
    BY <2>1, DayInMonthIsNumber
  <2>3. a \in Nat /\ a < n + 28 /\ a < n /\ b \in Nat /\ b < n + 28 /\ b >= n
    BY <2>2
  <2>4. MonthCount(d - a) = MonthCount(d) /\ MonthCount(d - b) = MonthCount(d) - 1
    <3> HIDE DEF a, b
    <3> QED
      BY <2>1, <2>3, MonthBack
  <2>5. StartOf(c, s) = (DayOf(s) - n + 1) * 86400
    BY <1>2 DEF StartOf, d
  <2> HIDE DEF n
  <2>6. /\ StartOf(c, s) \in Int /\ DayNo(StartOf(c, s)) = d - a /\ StartOf(c, s) <= s
        /\ DayNo(StartOf(c, s) - 691200) = d - b
    BY <2>2, <2>5 DEF DayNo, DayOf, d
  <2> QED
    BY <1>2, <2>2, <2>4, <2>6 DEF PeriodOf, StepOf, d
<1>3. CASE c.type = "d"
  <2>1. StartOf(c, s) = DayOf(s) * 86400
    BY <1>3 DEF StartOf
  <2>2. /\ StartOf(c, s) \in Int /\ DayOf(s) \in Int /\ StartOf(c, s) <= s
        /\ DayOf(StartOf(c, s)) = DayOf(s) /\ DayOf(StartOf(c, s) - 28800) = DayOf(s) - 1
    BY <2>1 DEF DayOf
  <2> QED
    BY <1>3, <2>2 DEF PeriodOf, StepOf
<1>4. CASE c.type = "h"
  <2>1. StartOf(c, s) = (s \div 3600) * 3600
    BY <1>4 DEF StartOf
  <2>2. /\ StartOf(c, s) \in Int /\ s \div 3600 \in Int /\ StartOf(c, s) <= s
        /\ StartOf(c, s) \div 3600 = s \div 3600
        /\ (StartOf(c, s) - 1200) \div 3600 = (s \div 3600) - 1
    BY <2>1
  <2> QED
    BY <1>4, <2>2 DEF PeriodOf, StepOf
<1>5. CASE c.type = "i"
  <2> DEFINE m == StepOf(c)
  <2>1. StartOf(c, s) = s /\ \A x : PeriodOf(c, x) = x \div m
    BY <1>5 DEF StartOf, PeriodOf
  <2> HIDE DEF m
  <2>2. m \in Nat \ {0}
    BY <1>1 DEF m
  <2>3. s \div m \in Int
    BY <2>2, DivMod
  <2> DEFINE z == 0 - 1
  <2>4. (s + z * m) \div m = s \div m + z
    <3>1. z \in Int
      OBVIOUS
    <3> HIDE DEF z
    <3> QED
      BY <2>2, <3>1, QuotientShift
  <2>5. s + z * m = s - m
    BY <2>2
  <2>6. (s - m) \div m = s \div m - 1
    BY <2>3, <2>4, <2>5
  <2> QED
    BY <2>1, <2>3, <2>6 DEF m
<1> QED
  BY <1>1, <1>2, <1>3, <1>4, <1>5 DEF Types

\* Intervals that make an hour and rings that make days.
WholeRings ==
  \A c \in Configs :
    c.type = "i" => 60 % c.interval = 0 /\ (c.depth * c.interval) % 1440 = 0

\* The archives whose slots are numbered round a ring, days apart.
RingTypes == {"m", "h", "i"}

\* The days from 1970 to 2000.
Epoch == 10957

\* A number, whichever it is.
LEMMA EpochIsInt == Epoch \in Int
  BY DEF Epoch

\* The slot of a period.
SlotOf(c, p) ==
  CASE c.type = "m" -> (p - 1) % c.depth
    [] c.type = "d" -> DayOfYear(p - Epoch)
    [] c.type = "h" -> (p - Epoch * 24) % c.depth
    [] c.type = "i" -> (p - Epoch * (1440 \div c.interval)) % c.depth

\* The lengths of an interval that divide an hour.
HourParts == {1, 2, 3, 4, 5, 6, 10, 12, 15, 20, 30, 60}

\* No other length of an interval divides the hour.
LEMMA PartsOfHour ==
  ASSUME NEW n \in 1..99, 60 % n = 0
  PROVE  n \in HourParts
<1>1. n \in 1..60
  BY SMT
<1> QED
  BY <1>1 DEF HourParts

\* The intervals of a day, from its hours and minutes.
DayHas(n, h, v, D, r, x) ==
  LET p == 1440 \div n
      k == (60 \div n) * h + v \div n
  IN  /\ p \in Nat \ {0} /\ k \in 0 .. p-1
      /\ (86400 * D + 3600 * h + 60 * v + r) \div (n * 60) = D * p + k
      /\ (60 \div n) * (x * 24 + h) + v \div n = x * p + k

\* So it is with every length that divides the hour.
LEMMA IntervalsOfDay ==
  ASSUME NEW n \in HourParts, NEW h \in 0..23, NEW v \in 0..59, NEW D \in Int,
         NEW r \in 0..59, NEW x \in Int
  PROVE  DayHas(n, h, v, D, r, x)
<1>1. CASE n = 1
  BY <1>1 DEF DayHas
<1>2. CASE n = 2
  BY <1>2 DEF DayHas
<1>3. CASE n = 3
  BY <1>3 DEF DayHas
<1>4. CASE n = 4
  BY <1>4 DEF DayHas
<1>5. CASE n = 5
  BY <1>5 DEF DayHas
<1>6. CASE n = 6
  BY <1>6 DEF DayHas
<1>7. CASE n = 10
  BY <1>7 DEF DayHas
<1>8. CASE n = 12
  BY <1>8 DEF DayHas
<1>9. CASE n = 15
  BY <1>9 DEF DayHas
<1>10. CASE n = 20
  BY <1>10 DEF DayHas
<1>11. CASE n = 30
  BY <1>11 DEF DayHas
<1>12. CASE n = 60
  BY <1>12 DEF DayHas
<1> QED
  BY <1>1, <1>2, <1>3, <1>4, <1>5, <1>6, <1>7, <1>8, <1>9, <1>10, <1>11, <1>12 DEF HourParts

\* A ring of whole days has as many slots as its days have intervals.
LEMMA RingSize ==
  ASSUME NEW n \in HourParts, NEW l \in Nat \ {0}, (l * n) % 1440 = 0
  PROVE  /\ IntervalDays(l, n) \in Nat \ {0}
         /\ IntervalDays(l, n) * (1440 \div n) = l
  BY DEF HourParts, IntervalDays

\* The hour, the minute and the second of a time of day.
LEMMA TimeParts ==
  ASSUME NEW s \in Int
  PROVE  /\ TimeOfDay(s).hour \in 0..23 /\ TimeOfDay(s).minute \in 0..59
         /\ DayOf(s) \in Int /\ s % 60 \in 0..59
         /\ s = 86400 * DayOf(s) + 3600 * TimeOfDay(s).hour + 60 * TimeOfDay(s).minute + (s % 60)
<1> DEFINE h == (s % 86400) \div 3600
           v == (s % 3600) \div 60
<1>1. h \in 0..23 /\ v \in 0..59 /\ s \div 86400 \in Int /\ s % 60 \in 0..59
  OBVIOUS
<1>2. s = 86400 * (s \div 86400) + 3600 * h + 60 * v + (s % 60)
  OBVIOUS
<1> QED
  BY <1>1, <1>2 DEF TimeOfDay, DayOf

\* A slot round a ring of l periods that make d days, counted from 2000.
SlotFrom(a, d, p, k, l, o) == (a % d) * p + k = (((a + o) * p + k) - o * p) % l

LEMMA SlotOfDay ==
  ASSUME NEW a \in Nat, NEW d \in Nat \ {0}, NEW p \in Nat \ {0}, NEW k \in 0 .. p-1,
         NEW l, l = d * p, NEW o \in Int
  PROVE  SlotFrom(a, d, p, k, l, o)
<1>1. SameSlot(a, d, p, k)
  BY RingOfDays
<1>2. ((a + o) * p + k) - o * p = a * p + k
  OBVIOUS
<1> QED
  BY <1>1, <1>2 DEF SameSlot, SlotFrom

\* The month's slot in a ring of four years.
LEMMA SlotOfMonth ==
  ASSUME NEW y \in Nat, NEW m \in 1..12
  PROVE  /\ (12 * y + m - 1) % 48 = (y % 4) * 12 + m - 1
         /\ (12 * y + m - 1) % 12 = m - 1
<1>1. y % 4 \in 0..3 /\ y \div 4 \in Int /\ y = 4 * (y \div 4) + (y % 4)
  OBVIOUS
<1>2. \A q \in Int, r \in 0..3 : (12 * (4 * q + r) + m - 1) % 48 = r * 12 + m - 1
  OBVIOUS
<1> QED
  BY <1>1, <1>2

\* The index of a second is the slot of its period (tekon_month_index,
\* tekon_hour_index, tekon_interval_index).
LEMMA SlotIsIndex ==
  ASSUME WholeRings, NEW c \in Configs, c.type \in RingTypes, NEW s \in Int,
         c.type = "m" => PeriodOf(c, s) >= 1 /\ PeriodOf(c, s) <= 1200,
         c.type # "m" => DayNo(s) \in CenturyDays
  PROVE  IndexOf(c, s) = SlotOf(c, PeriodOf(c, s))
<1> DEFINE d == DayNo(s)
           t == TimeOfDay(s)
           h == t.hour
           v == t.minute
           x == Date(s)
<1>1. /\ h \in 0..23 /\ v \in 0..59 /\ DayOf(s) \in Int /\ s % 60 \in 0..59
      /\ s = 86400 * DayOf(s) + 3600 * h + 60 * v + (s % 60)
  BY TimeParts
<1>2. IsTime(t)
  BY <1>1 DEF IsTime
<1>3. d + Epoch = DayOf(s) /\ d \in Int /\ Epoch \in Int
  BY <1>1 DEF DayNo, Epoch
<1>4. CASE c.type = "m"
  <2> DEFINE y == YearNo(d)
             m == MonthNo(d)
  <2>1. x.year = y /\ x.month = m
    BY DateParts
  <2>2. y \in Int /\ m \in 1..12 /\ 12 * y + m >= 1 /\ 12 * y + m <= 1200 /\ c.depth \in {12, 48}
    BY <1>3, <1>4, PartsAreNumbers, ArchiveSizes DEF PeriodOf, MonthCount
  <2>3. PeriodOf(c, s) = 12 * y + m
    BY <1>4 DEF PeriodOf, MonthCount
  <2> HIDE DEF y, m, x
  <2>4. IsMonth(x)
    BY <2>1, <2>2 DEF IsMonth
  <2>5. month_index(x, c.depth) = (12 * y + m - 1) % c.depth
    <3>1. y \in Nat
      BY <2>2
    <3>2. (12 * y + m - 1) % 48 = (y % 4) * 12 + m - 1 /\ (12 * y + m - 1) % 12 = m - 1
      BY <2>2, <3>1, SlotOfMonth
    <3>3. CASE c.depth = 12
      <4>1. month_index(x, 12) = m - 1
        BY <2>1, <2>4 DEF month_index
      <4> QED
        BY <3>2, <3>3, <4>1
    <3>4. CASE c.depth = 48
      <4>1. month_index(x, 48) = (y % 4) * 12 + m - 1
        BY <2>1, <2>4 DEF month_index
      <4> QED
        BY <3>2, <3>4, <4>1
    <3> QED
      BY <2>2, <3>3, <3>4
  <2>6. IndexOf(c, s) = month_index(x, c.depth)
    BY <1>4 DEF IndexOf, x
  <2>7. SlotOf(c, PeriodOf(c, s)) = (PeriodOf(c, s) - 1) % c.depth
    BY <1>4 DEF SlotOf
  <2>8. SlotOf(c, PeriodOf(c, s)) = (12 * y + m - 1) % c.depth
    <3>1. PeriodOf(c, s) - 1 = 12 * y + m - 1
      BY <2>2, <2>3
    <3> QED
      BY <2>7, <3>1, ZenonT(60)
  <2> QED
    BY <2>5, <2>6, <2>8, ZenonT(60)
<1>5. CASE c.type # "m"
  <2>1. IsDate(x) /\ DayNumber(x) = d /\ d \in Nat
    <3>1. CenturyDays \subseteq Nat
      BY DEF CenturyDays
    <3> QED
      BY <1>5, <3>1, DateIsDate
  <2> HIDE DEF x, t, d
  <2>2. CASE c.type = "h"
    <3> DEFINE n == c.depth \div 24
    <3>1. n \in {16, 32, 64} /\ c.depth = n * 24
      <4>1. c.depth \in {384, 768, 1536}
        BY <2>2, ArchiveSizes
      <4> QED
        BY <4>1, SMTT(60)
    <3>2. IndexOf(c, s) = (d % n) * 24 + h
      BY <1>2, <2>1, <2>2, <3>1 DEF IndexOf, hour_index, x, t
    <3>3. PeriodOf(c, s) = (d + Epoch) * 24 + h
      <4>1. s \div 3600 = DayOf(s) * 24 + h
        <5> HIDE DEF h, v
        <5> DEFINE w == 60 * v + (s % 60)
                   D == DayOf(s)
        <5>1. /\ w \in 0..3599 /\ s = 86400 * D + 3600 * h + w
              /\ D \in Int /\ h \in 0..23
          BY <1>1
        <5> HIDE DEF w, D
        <5> DEFINE a == D * 24 + h
        <5>2. a \in Int /\ s = 3600 * a + w
          BY <5>1
        <5> HIDE DEF a
        <5>3. s \div 3600 = a
          BY <5>1, <5>2
        <5> QED
          BY <5>3 DEF a, D
      <4> QED
        BY <1>1, <1>3, <2>2, <4>1 DEF PeriodOf
    <3>4. SlotOf(c, PeriodOf(c, s)) = (PeriodOf(c, s) - Epoch * 24) % c.depth
      BY <2>2 DEF SlotOf
    <3> HIDE DEF n, h
    <3>5. (d % n) * 24 + h = (((d + Epoch) * 24 + h) - Epoch * 24) % c.depth
      <4>1. h \in 0 .. 24-1 /\ n \in Nat \ {0} /\ 24 \in Nat \ {0}
        BY <1>1, <3>1 DEF h
      <4>2. SlotFrom(d, n, 24, h, c.depth, Epoch)
        BY <1>3, <2>1, <3>1, <4>1, SlotOfDay, SMTT(60)
      <4> QED
        BY <4>2 DEF SlotFrom
    <3> QED
      BY <3>2, <3>3, <3>4, <3>5
  <2>3. CASE c.type = "i"
    <3> DEFINE n == c.interval
               D == IntervalDays(c.depth, n)
               p == 1440 \div n
               k == (60 \div n) * h + v \div n
    <3>1. n \in HourParts /\ c.depth \in Nat \ {0} /\ (c.depth * n) % 1440 = 0
      BY <2>3, ArchiveSizes, PartsOfHour DEF WholeRings
    <3>2. D \in Nat \ {0} /\ D * p = c.depth
      <4> HIDE DEF n
      <4> QED
        BY <3>1, RingSize
    <3>9. d % D \in Int
      <4> HIDE DEF n, D
      <4> QED
        BY <2>1, <3>2, ModRange
    <3>3. /\ p \in Nat \ {0} /\ k \in 0 .. p-1
          /\ s \div (n * 60) = DayOf(s) * p + k
          /\ (60 \div n) * ((d % D) * 24 + h) + v \div n = (d % D) * p + k
      <4>1. DayHas(n, h, v, DayOf(s), s % 60, d % D)
        <5> DEFINE z == DayOf(s)
                   r == s % 60
                   w == d % D
        <5>1. /\ n \in HourParts /\ h \in 0..23 /\ v \in 0..59
              /\ z \in Int /\ r \in 0..59 /\ w \in Int
          BY <1>1, <3>1, <3>9, SMTT(60)
        <5> HIDE DEF n, h, v, D, z, r, w
        <5>2. DayHas(n, h, v, z, r, w)
          BY <5>1, IntervalsOfDay, ZenonT(60)
        <5> QED
          BY <5>2 DEF z, r, w
      <4>2. s = 86400 * DayOf(s) + 3600 * h + 60 * v + (s % 60)
        BY <1>1
      <4> HIDE DEF n, h, v, D
      <4> QED
        BY <4>1, <4>2 DEF DayHas
    <3>4. IndexOf(c, s) = (60 \div n) * ((d % D) * 24 + h) + v \div n
      <4>1. IndexOf(c, s) = interval_index(x, t, c.depth, n)
        BY <2>3 DEF IndexOf, x, t
      <4>2. D # 0
        BY <3>2
      <4> QED
        BY <1>2, <2>1, <4>1, <4>2 DEF interval_index
    <3>5. PeriodOf(c, s) = s \div (n * 60)
      BY <2>3 DEF PeriodOf, StepOf
    <3>6. SlotOf(c, PeriodOf(c, s)) = (PeriodOf(c, s) - Epoch * p) % c.depth
      BY <2>3 DEF SlotOf
    <3> HIDE DEF n, D, p, k, h, v
    <3>8. PeriodOf(c, s) = (d + Epoch) * p + k
      BY <1>3, <3>3, <3>5
    <3>10. IndexOf(c, s) = (d % D) * p + k
      BY <3>3, <3>4
    <3>11. (d % D) * p + k = (((d + Epoch) * p + k) - Epoch * p) % c.depth
      <4>1. SlotFrom(d, D, p, k, c.depth, Epoch)
        <5>1. c.depth = D * p /\ d \in Nat /\ D \in Nat \ {0} /\ p \in Nat \ {0} /\ k \in 0 .. p-1
          BY <2>1, <3>2, <3>3
        <5> QED
          BY <1>3, <5>1, SlotOfDay
      <4> QED
        BY <4>1 DEF SlotFrom
    <3> QED
      BY <3>6, <3>8, <3>10, <3>11
  <2> QED
    BY <1>5, <2>2, <2>3 DEF RingTypes
<1> QED
  BY <1>4, <1>5

\* Where the slots of a ring are counted from.
Origin(c) ==
  CASE c.type = "m" -> 1 [] c.type = "h" -> Epoch * 24
    [] c.type = "i" -> Epoch * (1440 \div c.interval)

\* The slot of a period is its distance from there, round the ring.
LEMMA SlotIs ==
  ASSUME NEW c \in Configs, c.type \in RingTypes
  PROVE  /\ Origin(c) \in Int /\ c.depth \in Nat \ {0}
         /\ \A p \in Int : /\ SlotOf(c, p) = (p - Origin(c)) % c.depth
                           /\ SlotOf(c, p) \in 0 .. c.depth - 1
<1>1. c.depth \in Nat \ {0}
  BY ArchiveSizes
<1>2. CASE c.type = "m"
  <2> DEFINE o == 1
  <2>1. Origin(c) = o /\ \A p : SlotOf(c, p) = (p - o) % c.depth
    BY <1>2 DEF Origin, SlotOf
  <2>2. o \in Int
    OBVIOUS
  <2> HIDE DEF o
  <2>3. \A p \in Int : p - o \in Int
    BY <2>2
  <2> QED
    BY <1>1, <2>1, <2>2, <2>3, ModRange
<1>3. CASE c.type = "h"
  <2> DEFINE o == Epoch * 24
  <2>1. Origin(c) = o /\ \A p : SlotOf(c, p) = (p - o) % c.depth
    BY <1>3 DEF Origin, SlotOf
  <2>2. o \in Int
    BY EpochIsInt
  <2> HIDE DEF o
  <2>3. \A p \in Int : p - o \in Int
    BY <2>2
  <2> QED
    BY <1>1, <2>1, <2>2, <2>3, ModRange
<1>4. CASE c.type = "i"
  <2> DEFINE n == c.interval
             o == Epoch * (1440 \div n)
  <2>1. Origin(c) = o /\ \A p : SlotOf(c, p) = (p - o) % c.depth
    BY <1>4 DEF Origin, SlotOf
  <2>2. n \in 1..99
    BY <1>4, ArchiveSizes
  <2> HIDE DEF n
  <2>3. 1440 \div n \in Int
    BY <2>2
  <2>4. o \in Int
    BY <2>3, EpochIsInt
  <2> HIDE DEF o
  <2>5. \A p \in Int : p - o \in Int
    BY <2>4
  <2> QED
    BY <1>1, <2>1, <2>4, <2>5, ModRange
<1> QED
  BY <1>2, <1>3, <1>4 DEF RingTypes

\* Less than a ring apart, two periods have two slots.
LEMMA SlotsDiffer ==
  ASSUME NEW c \in Configs, c.type \in RingTypes, NEW p \in Int, NEW q \in Int,
         p < q, q - p < c.depth
  PROVE  SlotOf(c, p) # SlotOf(c, q)
<1> DEFINE o == Origin(c)
           n == c.depth
           a == p - o
           b == q - o
<1>1. o \in Int /\ n \in Nat \ {0} /\ SlotOf(c, p) = a % n /\ SlotOf(c, q) = b % n
  BY SlotIs
<1> HIDE DEF o, n
<1>2. a \in Int /\ b \in Int /\ a <= b /\ a # b /\ b - a < n
  BY <1>1 DEF n
<1> HIDE DEF a, b
<1>3. a % n # b % n
  BY <1>1, <1>2, SameRemainder
<1> QED
  BY <1>1, <1>3

\* A whole ring of periods has all slots.
LEMMA SlotsCover ==
  ASSUME NEW c \in Configs, c.type \in RingTypes, NEW f \in Int, NEW i \in 0 .. c.depth - 1
  PROVE  \E j \in 0 .. c.depth - 1 : SlotOf(c, f - j) = i
<1> DEFINE o == Origin(c)
           n == c.depth
           x == (f - o) - i
           j == x % n
           q == x \div n
           y == (f - j) - o
<1>1. o \in Int /\ n \in Nat \ {0} /\ \A p \in Int : SlotOf(c, p) = (p - o) % n
  BY SlotIs
<1> HIDE DEF o
<1>2. i \in 0 .. n-1 /\ i \in Int
  BY <1>1
<1> HIDE DEF n
<1>3. x \in Int
  BY <1>1, <1>2
<1> HIDE DEF x
<1>4. j \in 0 .. n-1 /\ q \in Int /\ x = n * q + j
  BY <1>1, <1>3, ModRange, DivMod
<1> HIDE DEF j, q
<1>5. f - j \in Int /\ y \in Int
  BY <1>1, <1>4
<1>6. y = n * q + i
  <2> DEFINE w == n * q
  <2>1. w \in Int
    BY <1>1, <1>4
  <2>2. x = w + j
    BY <1>4
  <2> HIDE DEF w
  <2>3. y = w + i
    BY <1>1, <1>2, <1>4, <2>1, <2>2 DEF x
  <2> QED
    BY <2>3 DEF w
<1>7. SlotOf(c, f - j) = y % n
  BY <1>1, <1>5
<1> HIDE DEF y
<1>8. y % n = i % n
  BY <1>1, <1>2, <1>4, <1>5, <1>6, RemainderShift
<1>9. i % n = i
  BY <1>1, <1>2, SmallRemainder
<1> QED
  BY <1>4, <1>7, <1>8, <1>9 DEF n

-----------------------------------------------------------------------------
(* The century of the device                                               *)

\* The days from 2004 to 2099, but for the last; they have a year before and a
\* day after them in the century.
ClockDays == 1461 .. 25 * 1461 - 2

\* The bounds of both.
LEMMA DaysOfCentury ==
  /\ \A d \in ClockDays : d \in Int /\ d >= 1461 /\ d <= 25 * 1461 - 2
  /\ \A d \in Int : d >= 0 /\ d <= 25 * 1461 - 1 => d \in CenturyDays
<1>1. ASSUME NEW d \in ClockDays
      PROVE  d \in Int /\ d >= 1461 /\ d <= 25 * 1461 - 2
  BY DEF ClockDays
<1>2. ASSUME NEW d \in Int, d >= 0, d <= 25 * 1461 - 1
      PROVE  d \in CenturyDays
  <2> DEFINE b == 25 * 1461 - 1
  <2>1. b \in Nat /\ d <= b /\ d \in Nat
    BY <1>2
  <2> HIDE DEF b
  <2>2. d \in 0 .. b
    BY <2>1
  <2> QED
    BY <2>2 DEF CenturyDays, b
<1> QED
  BY <1>1, <1>2

\* The months of a century.
LEMMA CenturyMonths ==
  ASSUME NEW d \in ClockDays
  PROVE  MonthCount(d) \in Int /\ MonthCount(d) >= 49 /\ MonthCount(d) <= 1200
<1> USE DEF ClockDays
<1> DEFINE q == d \div 1461
           y == YearOfFour(d)
           m == MonthNo(d)
<1>1. y \in 0..3 /\ m \in 1..12
  BY PartsAreNumbers
<1>2. q \in 1..24
  OBVIOUS
<1>3. MonthCount(d) = 12 * (4 * q + y) + m
  BY DEF MonthCount, YearNo
<1> HIDE DEF q, y, m
<1> QED
  BY <1>1, <1>2, <1>3

\* The months after 1999 have no days before 2000.
LEMMA MonthIsLate ==
  ASSUME NEW d \in Int, MonthCount(d) \in Nat \ {0}
  PROVE  d \in Nat
<1> DEFINE q == d \div 1461
           y == YearOfFour(d)
           m == MonthNo(d)
<1>1. y \in 0..3 /\ m \in 1..12
  BY PartsAreNumbers
<1>2. q \in Int /\ (d < 0 => q <= 0 - 1)
  OBVIOUS
<1>3. MonthCount(d) = 12 * (4 * q + y) + m
  BY DEF MonthCount, YearNo
<1> HIDE DEF q, y, m
<1> QED
  BY <1>1, <1>2, <1>3

\* Devices whose clocks are set to one of the years from 2004 to 2099.
InCentury == \A r \in Refs : DayNo(r) \in ClockDays

\* A second whose index is the slot of its period.
Live(c, s) ==
  /\ c.type = "m" => PeriodOf(c, s) >= 1 /\ PeriodOf(c, s) <= 1200
  /\ c.type # "m" => DayNo(s) \in CenturyDays

\* It is after 1999.
LEMMA LiveIsLate ==
  ASSUME NEW c \in Configs, NEW s \in Int, Live(c, s)
  PROVE  StartOf(c, s) \in Int /\ StartOf(c, s) >= 86400 + 86400
<1> DEFINE t == StartOf(c, s)
<1>1. c.type \in Types /\ t \in Int /\ PeriodOf(c, t) = PeriodOf(c, s) /\ t <= s
  BY ArchiveSizes, BeforeStart
<1>2. DayNo(t) \in Int /\ (DayNo(t) \in Nat => t >= 86400 + 86400)
  <2> HIDE DEF t
  <2> QED
    BY <1>1 DEF DayNo, DayOf
<1>3. DayNo(t) \in Nat
  <2>1. CASE c.type = "m"
    <3>1. PeriodOf(c, t) = MonthCount(DayNo(t)) /\ PeriodOf(c, t) >= 1
      BY <1>1, <2>1 DEF Live, PeriodOf
    <3> DEFINE d == DayNo(t)
    <3>2. MonthCount(d) \in Int /\ MonthCount(d) >= 1 /\ d \in Int
      BY <1>1, <1>2, <3>1, BeforeStart
    <3> HIDE DEF d
    <3>3. d \in Nat
      <4>1. MonthCount(d) \in Nat \ {0}
        BY <3>2
      <4> QED
        BY <3>2, <4>1, MonthIsLate
    <3> QED
      BY <3>3 DEF d
  <2>2. CASE c.type # "m"
    <3>1. DayNo(s) \in Nat
      <4>1. DayNo(s) \in CenturyDays
        BY <2>2 DEF Live
      <4>2. CenturyDays \subseteq Nat
        BY DEF CenturyDays
      <4> QED
        BY <4>1, <4>2, Zenon
    <3>2. CASE c.type = "d"
      <4>1. t = DayOf(s) * 86400
        BY <3>2 DEF StartOf
      <4> HIDE DEF t
      <4> QED
        BY <3>1, <4>1 DEF DayNo, DayOf
    <3>3. CASE c.type = "h"
      <4>1. t = (s \div 3600) * 3600
        BY <3>3 DEF StartOf
      <4> HIDE DEF t
      <4>2. t \div 86400 = s \div 86400
        BY <4>1
      <4> QED
        BY <3>1, <4>2 DEF DayNo, DayOf
    <3>4. CASE c.type = "i"
      <4>1. t = s
        BY <3>4 DEF StartOf
      <4> HIDE DEF t
      <4> QED
        BY <3>1, <4>1, Zenon
    <3> QED
      BY <1>1, <2>2, <3>2, <3>3, <3>4 DEF Types
  <2> QED
    BY <2>1, <2>2
<1> QED
  BY <1>1, <1>2, <1>3

-----------------------------------------------------------------------------
(* The turns of the second loop                                            *)

\* The period that is stamped first.
First(c, r) ==
  IF c.type = "i" THEN ((r - Offset) \div StepOf(c) + 1) + Offset \div StepOf(c)
  ELSE PeriodOf(c, r) - 1

\* The local second s after k turns.
AtTurn(c, r, k, s) ==
  /\ PeriodOf(c, s) = First(c, r) - k
  /\ c.type = "i" => s + k * StepOf(c) \in r .. r + 3600

\* The first period is a number, a time to come or not.
LEMMA FirstIsNumber ==
  ASSUME NEW c \in Configs, NEW r \in Refs
  PROVE  First(c, r) \in Int /\ r \in Nat
<1>1. StepOf(c) \in Nat \ {0} /\ r \in Int /\ Offset \in Int /\ r \in Nat
  BY SeqAssumption, ArchiveSizes
<1>2. CASE c.type = "i"
  <2> DEFINE m == StepOf(c)
             a == r - Offset
  <2>1. First(c, r) = (a \div m + 1) + Offset \div m
    BY <1>2 DEF First
  <2> HIDE DEF m
  <2>2. m \in Nat \ {0} /\ a \in Int
    BY <1>1 DEF m
  <2> HIDE DEF a
  <2>3. a \div m \in Int /\ Offset \div m \in Int
    BY <1>1, <2>2, DivMod
  <2> QED
    BY <1>1, <2>1, <2>3
<1>3. CASE c.type # "i"
  <2>1. First(c, r) = PeriodOf(c, r) - 1
    BY <1>3 DEF First
  <2>2. PeriodOf(c, r) \in Int
    BY <1>1, BeforeStart
  <2> QED
    BY <1>1, <2>1, <2>2
<1> QED
  BY <1>2, <1>3, SMTT(60)

\* The seconds that the longest ring of hours goes back.
Farthest == 8190 * 3600

\* A year before a day of the century there is one, and an hour after it.
LEMMA DaysNear ==
  ASSUME NEW r \in Int, NEW s \in Int, DayNo(r) \in ClockDays,
         s <= r + 3600, s >= r - Farthest
  PROVE  DayNo(s) \in CenturyDays
<1>1. DayOf(r) \in Int /\ DayOf(s) \in Int
  BY DEF DayOf
<1>2. DayOf(s) <= DayOf(r) + 1 /\ DayOf(s) >= DayOf(r) - 342
  BY DEF DayOf, Farthest
<1>3. DayNo(s) <= DayNo(r) + 1 /\ DayNo(s) >= DayNo(r) - 342 /\ DayNo(s) \in Int /\ DayNo(r) \in Int
  BY <1>1, <1>2 DEF DayNo
<1>4. DayNo(r) >= 1461 /\ DayNo(r) <= 25 * 1461 - 2
  BY DaysOfCentury
<1>5. DayNo(s) >= 0 /\ DayNo(s) <= 25 * 1461 - 1
  BY <1>3, <1>4
<1> QED
  BY <1>3, <1>5, DaysOfCentury

\* What k steps of an interval make, at most.
StepsFar(k, m) == k * m \in Nat /\ k * m <= Farthest

\* A ring of intervals goes no farther than the longest one.
LEMMA StepsMake ==
  ASSUME NEW k \in Nat, NEW m \in Nat, k <= 8190, m <= 3600
  PROVE  StepsFar(k, m)
<1> USE DEF Farthest
<1> DEFINE a == 8190 - k
           b == 3600 - m
<1>1. a \in Nat /\ b \in Nat /\ k \in Nat /\ m \in Nat
  OBVIOUS
<1>2. a * m \in Nat /\ 8190 * b \in Nat /\ k * m \in Nat
  BY <1>1, Product
<1>3. a * m = 8190 * m - k * m
  OBVIOUS
<1>4. 8190 * b = Farthest - 8190 * m
  OBVIOUS
<1> HIDE DEF a, b
<1> DEFINE x == k * m
           y == a * m
           z == 8190 * b
<1>5. x \in Nat /\ y \in Nat /\ z \in Nat /\ y = 8190 * m - x /\ z = Farthest - 8190 * m
  BY <1>2, <1>3, <1>4
<1> HIDE DEF x, y, z
<1>6. x <= Farthest
  BY <1>5
<1> QED
  BY <1>2, <1>6 DEF x, StepsFar

\* As long as the ring is not full the periods are in the century.
LEMMA TurnIsLive ==
  ASSUME WholeRings, InCentury, NEW c \in Configs, c.type \in RingTypes, NEW r \in Refs,
         NEW k \in 0 .. c.depth - 1, NEW s \in Int, AtTurn(c, r, k, s)
  PROVE  Live(c, s)
<1>1. /\ r \in Int /\ Offset \in Int /\ c.depth \in Nat \ {0}
      /\ DayNo(r) \in ClockDays
  BY SeqAssumption, ArchiveSizes DEF InCentury
<1>2. CASE c.type = "m"
  <2>1. k \in 0..47
    BY <1>2, ArchiveSizes
  <2>2. /\ PeriodOf(c, s) = PeriodOf(c, r) - 1 - k
        /\ PeriodOf(c, r) = MonthCount(DayNo(r))
    BY <1>2 DEF AtTurn, First, PeriodOf
  <2>3. /\ MonthCount(DayNo(r)) \in Int
        /\ MonthCount(DayNo(r)) >= 49 /\ MonthCount(DayNo(r)) <= 1200
    BY <1>1, CenturyMonths
  <2>4. PeriodOf(c, s) >= 1 /\ PeriodOf(c, s) <= 1200
    BY <2>1, <2>2, <2>3
  <2> QED
    BY <1>2, <2>4 DEF Live
<1>3. CASE c.type = "h"
  <2>1. k \in 0..1535
    BY <1>3, ArchiveSizes, SMTT(60)
  <2>2. s \div 3600 = r \div 3600 - 1 - k
    BY <1>3 DEF AtTurn, First, PeriodOf
  <2>3. s <= r + 3600 /\ s >= r - Farthest
    BY <1>1, <2>1, <2>2 DEF Farthest
  <2>4. DayNo(s) \in CenturyDays
    BY <1>1, <2>3, DaysNear
  <2> QED
    BY <1>3, <2>4 DEF Live
<1>4. CASE c.type = "i"
  <2>1. c.depth \in 1..8191 /\ c.interval \in HourParts /\ StepOf(c) = c.interval * 60
    BY <1>4, ArchiveSizes, PartsOfHour, SMTT(60) DEF WholeRings, StepOf
  <2>2. k \in Nat /\ k <= 8190
    <3> DEFINE A == 1..8191
    <3>1. \A n \in A : n \in Int /\ n <= 8191
      OBVIOUS
    <3>2. c.depth \in A
      BY <2>1, SMTT(60)
    <3> HIDE DEF A
    <3>3. c.depth \in Int /\ c.depth <= 8191
      BY <3>1, <3>2
    <3> QED
      BY <3>3
  <2>3. StepOf(c) \in Nat /\ StepOf(c) <= 3600
    <3>1. \A n \in HourParts : n * 60 \in Nat /\ n * 60 <= 3600
      BY DEF HourParts
    <3> QED
      BY <2>1, <3>1
  <2> DEFINE m == StepOf(c)
             x == k * m
  <2>4. s + x \in r .. r + 3600
    BY <1>4 DEF AtTurn
  <2> HIDE DEF m
  <2>5. x \in Nat /\ x <= Farthest
    <3>1. m \in Nat /\ m <= 3600
      BY <2>3 DEF m
    <3>2. StepsFar(k, m)
      BY <2>2, <3>1, StepsMake
    <3> QED
      BY <3>2 DEF StepsFar
  <2> HIDE DEF x
  <2>6. s <= r + 3600 /\ s >= r - Farthest
    BY <1>1, <2>4, <2>5 DEF Farthest
  <2>7. DayNo(s) \in CenturyDays
    BY <1>1, <2>6, DaysNear
  <2> QED
    BY <1>4, <2>7 DEF Live
<1> QED
  BY <1>2, <1>3, <1>4, SMTT(60) DEF RingTypes

\* A live second's slot is free for a stamp that is no TIME_INVALID, and a step
\* before its start the next turn begins.
LEMMA NextTurn ==
  ASSUME WholeRings, InCentury, NEW c \in Configs, c.type \in RingTypes, NEW r \in Refs,
         NEW k \in 0 .. c.depth - 1, NEW s \in Int, AtTurn(c, r, k, s)
  PROVE  /\ IndexOf(c, s) = SlotOf(c, First(c, r) - k)
         /\ StartOf(c, s) \in Int /\ StartOf(c, s) > 86400
         /\ PeriodOf(c, StartOf(c, s)) = First(c, r) - k
         /\ AtTurn(c, r, k + 1, StartOf(c, s) - StepOf(c))
<1>1. Live(c, s)
  BY TurnIsLive
<1>2. IndexOf(c, s) = SlotOf(c, PeriodOf(c, s)) /\ PeriodOf(c, s) = First(c, r) - k
  BY <1>1, SlotIsIndex DEF Live, AtTurn
<1>3. StartOf(c, s) \in Int /\ StartOf(c, s) >= 86400 + 86400
  BY <1>1, LiveIsLate
<1>4. /\ PeriodOf(c, StartOf(c, s)) = PeriodOf(c, s)
      /\ PeriodOf(c, StartOf(c, s) - StepOf(c)) = PeriodOf(c, s) - 1
  BY BeforeStart
<1>5. c.depth \in Nat \ {0} /\ StepOf(c) \in Nat \ {0} /\ First(c, r) \in Int /\ k \in Int
  BY ArchiveSizes, FirstIsNumber
<1>6. PeriodOf(c, StartOf(c, s) - StepOf(c)) = First(c, r) - (k + 1)
  BY <1>2, <1>4, <1>5
<1>7. ASSUME c.type = "i"
      PROVE  (StartOf(c, s) - StepOf(c)) + (k + 1) * StepOf(c) \in r .. r + 3600
  <2> DEFINE m == StepOf(c)
  <2>1. StartOf(c, s) = s /\ s + k * m \in r .. r + 3600
    BY <1>7 DEF StartOf, AtTurn
  <2> HIDE DEF m
  <2>2. m \in Int
    BY <1>5 DEF m
  <2>3. (s - m) + (k + 1) * m = s + k * m
    BY <1>5, <2>2
  <2> QED
    BY <2>1, <2>3 DEF m
<1> QED
  BY <1>2, <1>3, <1>4, <1>6, <1>7 DEF AtTurn

\* What the slots hold after k turns: the k periods up to the first.
HasPeriod(c, r, j, t) ==
  LET i == SlotOf(c, First(c, r) - j)
  IN  t[i] # TIME_INVALID /\ PeriodOf(c, t[i] + Offset) = First(c, r) - j
IsSlot(c, r, j, i) == i = SlotOf(c, First(c, r) - j)
Holds(c, r, k, t) ==
  /\ \A j \in 0 .. k-1 : HasPeriod(c, r, j, t)
  /\ \A i \in 0 .. c.depth - 1 :
       t[i] # TIME_INVALID => \E j \in 0 .. k-1 : IsSlot(c, r, j, i)

Stamped(t, i, u) == [t EXCEPT ![i] = u]

\* The slots of the first k turns are not that of the next one.
Apart(c, r, k) ==
  /\ \A j \in 0 .. k : SlotOf(c, First(c, r) - j) \in 0 .. c.depth - 1
  /\ \A j \in 0 .. k-1 : SlotOf(c, First(c, r) - j) # SlotOf(c, First(c, r) - k)

\* Stamp u of turn k fits slot i.
StampOf(c, r, k, i, u) ==
  /\ i = SlotOf(c, First(c, r) - k)
  /\ u \in Int /\ u # TIME_INVALID /\ PeriodOf(c, u + Offset) = First(c, r) - k

\* The next turn stamps a slot that no turn before it had.
LEMMA HoldsMore ==
  ASSUME NEW c \in Configs, NEW r \in Refs, NEW k \in Nat,
         NEW t \in [0 .. c.depth - 1 -> Int], Holds(c, r, k, t), Apart(c, r, k),
         NEW i, NEW u, StampOf(c, r, k, i, u)
  PROVE  /\ i \in 0 .. c.depth - 1 /\ t[i] = TIME_INVALID
         /\ Holds(c, r, k + 1, Stamped(t, i, u))
<1> DEFINE F == First(c, r)
           n == c.depth
           v == Stamped(t, i, u)
<1>1. F \in Int /\ k \in 0 .. k
  BY FirstIsNumber
<1>10. /\ i = SlotOf(c, F - k) /\ u \in Int
       /\ u # TIME_INVALID /\ PeriodOf(c, u + Offset) = F - k
  BY DEF StampOf
<1>2. \A j \in 0 .. k : SlotOf(c, F - j) \in 0 .. n-1
  BY DEF Apart
<1>3. i \in 0 .. n-1
  BY <1>1, <1>2, <1>10
<1>4. \A j \in 0 .. k-1 : SlotOf(c, F - j) # i
  BY <1>10 DEF Apart
<1>5. t[i] = TIME_INVALID
  <2> SUFFICES ASSUME t[i] # TIME_INVALID
               PROVE  FALSE
    OBVIOUS
  <2>1. PICK j \in 0 .. k-1 : IsSlot(c, r, j, i)
    BY <1>3 DEF Holds
  <2> QED
    BY <1>4, <2>1 DEF IsSlot
<1>6. v[i] = u /\ \A x \in 0 .. n-1 : x # i => v[x] = t[x]
  BY <1>3 DEF Stamped
<1> HIDE DEF v, F
<1>7. ASSUME NEW j \in 0 .. (k + 1) - 1
      PROVE  HasPeriod(c, r, j, v)
  <2>1. CASE j = k
    BY <1>6, <1>10, <2>1 DEF HasPeriod, F
  <2>2. CASE j # k
    <3>1. j \in 0 .. k-1 /\ j \in 0 .. k
      BY <1>1, <2>2
    <3>2. HasPeriod(c, r, j, t)
      BY <3>1 DEF Holds
    <3>3. v[SlotOf(c, F - j)] = t[SlotOf(c, F - j)]
      BY <1>2, <1>4, <1>6, <3>1
    <3> QED
      BY <3>2, <3>3 DEF HasPeriod, F
  <2> QED
    BY <2>1, <2>2
<1>8. ASSUME NEW x \in 0 .. n-1, v[x] # TIME_INVALID
      PROVE  \E j \in 0 .. (k + 1) - 1 : IsSlot(c, r, j, x)
  <2>1. CASE x = i
    <3>1. k \in 0 .. (k + 1) - 1
      BY <1>1
    <3> QED
      BY <1>10, <2>1, <3>1 DEF IsSlot, F
  <2>2. CASE x # i
    <3>1. PICK j \in 0 .. k-1 : IsSlot(c, r, j, x)
      BY <1>6, <1>8, <2>2 DEF Holds
    <3>2. j \in 0 .. (k + 1) - 1
      BY <1>1
    <3> QED
      BY <3>1, <3>2
  <2> QED
    BY <2>1, <2>2
<1>9. Holds(c, r, k + 1, v)
  BY <1>7, <1>8 DEF Holds
<1> QED
  BY <1>3, <1>5, <1>9 DEF v

\* A ring's next turn does.
LEMMA RingHoldsMore ==
  ASSUME NEW c \in Configs, c.type \in RingTypes, NEW r \in Refs, NEW k \in 0 .. c.depth - 1
  PROVE  k \in Nat /\ Apart(c, r, k)
<1> DEFINE F == First(c, r)
           n == c.depth
<1>1. F \in Int /\ n \in Nat \ {0} /\ k \in 0 .. n-1 /\ k \in Nat
  BY FirstIsNumber, ArchiveSizes
<1>2. ASSUME NEW j \in 0 .. k
      PROVE  SlotOf(c, F - j) \in 0 .. n-1
  <2>1. F - j \in Int
    <3> HIDE DEF F, n
    <3> QED
      BY <1>1
  <2> QED
    BY <2>1, SlotIs
<1>4. ASSUME NEW j \in 0 .. k-1
      PROVE  SlotOf(c, F - j) # SlotOf(c, F - k)
  <2> DEFINE p == F - k
             q == F - j
  <2>1. p \in Int /\ q \in Int /\ p < q /\ q - p < n
    <3> HIDE DEF F, n
    <3> QED
      BY <1>1
  <2> HIDE DEF p, q
  <2>2. SlotOf(c, p) # SlotOf(c, q)
    BY <2>1, SlotsDiffer
  <2> QED
    BY <2>2 DEF p, q
<1> QED
  BY <1>1, <1>2, <1>4 DEF Apart

\* After a whole ring of turns every slot is stamped, with one of its periods
\* and no slot with a period that is a ring old.
LEMMA HoldsAll ==
  ASSUME NEW c \in Configs, c.type \in RingTypes, NEW r \in Refs, NEW t,
         Holds(c, r, c.depth, t), NEW i \in 0 .. c.depth - 1
  PROVE  /\ t[i] # TIME_INVALID
         /\ PeriodOf(c, t[i] + Offset) <= First(c, r)
         /\ First(c, r) < PeriodOf(c, t[i] + Offset) + c.depth
<1>1. First(c, r) \in Int /\ c.depth \in Nat \ {0}
  BY FirstIsNumber, ArchiveSizes
<1>2. PICK j \in 0 .. c.depth - 1 : SlotOf(c, First(c, r) - j) = i
  BY <1>1, SlotsCover
<1>3. t[i] # TIME_INVALID /\ PeriodOf(c, t[i] + Offset) = First(c, r) - j
  BY <1>2 DEF Holds, HasPeriod
<1> QED
  BY <1>1, <1>3

-----------------------------------------------------------------------------
(* The first loop                                                          *)

\* What it compares.
PartOf(c, s) ==
  CASE c.type = "m" -> MonthNo(DayNo(s)) [] c.type = "d" -> DayInMonth(DayNo(s))
    [] OTHER -> (s % 86400) \div 3600

\* It is tm_mon, tm_mday or tm_hour of the archive that is read.
LEMMA PartIs ==
  ASSUME cfg \in Configs, NEW s
  PROVE  Part(s) = PartOf(cfg, s)
<1>1. cfg.type \in Types
  BY StepIsNumber
<1>2. Date(s).month = MonthNo(DayNo(s)) /\ Date(s).day = DayInMonth(DayNo(s))
  BY DateParts
<1>3. TimeOfDay(s).hour = (s % 86400) \div 3600
  BY DEF TimeOfDay
<1> QED
  BY <1>1, <1>2, <1>3 DEF Part, PartOf, Types

\* A step leads into the same period or the one before, and the parts tell
\* which.
LEMMA StepBack ==
  ASSUME NEW c \in Configs, c.type # "i", NEW r \in Int, NEW s \in Int,
         PeriodOf(c, s) = PeriodOf(c, r), NEW t, t = s - StepOf(c)
  PROVE  /\ PartOf(c, t) = PartOf(c, r) => PeriodOf(c, t) = PeriodOf(c, r)
         /\ PartOf(c, t) # PartOf(c, r) => PeriodOf(c, t) = PeriodOf(c, r) - 1
<1>1. c.type \in {"m", "d", "h"}
  BY ArchiveSizes DEF Types
<1>2. CASE c.type = "m"
  <2> DEFINE d == DayNo(s)
             e == DayNo(r)
             j == 8
  <2>1. d \in Int /\ e \in Int /\ DayNo(t) = d - j
    BY <1>2 DEF StepOf, DayNo, DayOf
  <2>2. MonthCount(d) = MonthCount(e)
    BY <1>2 DEF PeriodOf
  <2>3. PartOf(c, t) = MonthNo(DayNo(t)) /\ PartOf(c, r) = MonthNo(e)
    BY <1>2 DEF PartOf
  <2>4. PeriodOf(c, t) = MonthCount(DayNo(t)) /\ PeriodOf(c, r) = MonthCount(e)
    BY <1>2 DEF PeriodOf
  <2> HIDE DEF d, e
  <2>5. MonthCount(d - j) = MonthCount(d) \/ MonthCount(d - j) = MonthCount(d) - 1
    <3>1. DayInMonth(d) \in Nat \ {0}
      BY <2>1, DayInMonthIsNumber
    <3>2. j \in Nat /\ j < DayInMonth(d) + 28
      BY <3>1
    <3>3. j < DayInMonth(d) \/ j >= DayInMonth(d)
      BY <3>1
    <3> HIDE DEF j
    <3> QED
      BY <2>1, <3>2, <3>3, MonthBack
  <2>6. ASSUME NEW x \in Int
        PROVE  MonthNo(x) \in 1..12 /\ YearNo(x) \in Int /\ MonthCount(x) = 12 * YearNo(x) + MonthNo(x)
    BY PartsAreNumbers DEF MonthCount
  <2>7. d - j \in Int
    BY <2>1
  <2> DEFINE y == YearNo(d - j)
             m == MonthNo(d - j)
             z == YearNo(e)
             o == MonthNo(e)
  <2>8. /\ m \in 1..12 /\ o \in 1..12 /\ y \in Int /\ z \in Int
        /\ MonthCount(d - j) = 12 * y + m /\ MonthCount(e) = 12 * z + o
    BY <2>1, <2>6, <2>7
  <2> HIDE DEF y, m, z, o
  <2>9. /\ 12 * y + m = 12 * z + o \/ 12 * y + m = 12 * z + o - 1
    BY <2>2, <2>5, <2>8
  <2>10. /\ m = o => 12 * y + m = 12 * z + o
         /\ m # o => 12 * y + m = 12 * z + o - 1
    BY <2>8, <2>9
  <2> QED
    BY <2>1, <2>3, <2>4, <2>8, <2>10 DEF m, o
<1>3. CASE c.type = "d"
  <2> DEFINE d == DayNo(s)
  <2>1. /\ d \in Int /\ DayOf(s) = DayOf(r) /\ DayNo(r) = d
        /\ DayNo(t) = d \/ DayNo(t) = d - 1
        /\ DayOf(t) = DayNo(t) + (DayOf(r) - d) /\ DayOf(r) \in Int
    <3>1. DayOf(s) = DayOf(r) /\ t = s - 28800
      BY <1>3 DEF PeriodOf, StepOf
    <3> QED
      BY <3>1 DEF DayNo, DayOf
  <2>2. PartOf(c, t) = DayInMonth(DayNo(t)) /\ PartOf(c, r) = DayInMonth(DayNo(r))
    BY <1>3 DEF PartOf
  <2>3. PeriodOf(c, t) = DayOf(t) /\ PeriodOf(c, r) = DayOf(r)
    BY <1>3 DEF PeriodOf
  <2> HIDE DEF d
  <2>4. DayInMonth(d - 1) # DayInMonth(d)
    <3> DEFINE j == 1
    <3>1. DayInMonth(d) \in Nat \ {0} /\ DayInMonth(d - j) \in Nat \ {0}
      BY <2>1, DayInMonthIsNumber
    <3>2. j \in Nat /\ j < DayInMonth(d) + 28
      BY <3>1
    <3>3. CASE j < DayInMonth(d)
      <4>1. DayInMonth(d - j) = DayInMonth(d) - j
        <5> HIDE DEF j
        <5> QED
          BY <2>1, <3>2, <3>3, BackInMonth
      <4> QED
        BY <3>1, <4>1
    <3>4. CASE ~(j < DayInMonth(d))
      <4>1. j = DayInMonth(d)
        BY <3>1, <3>4
      <4>2. DayInMonth(d - j) >= 28
        <5> HIDE DEF j
        <5> QED
          BY <2>1, <3>2, <4>1, MonthBack
      <4> QED
        BY <3>1, <4>1, <4>2
    <3> QED
      BY <3>3, <3>4
  <2> QED
    BY <2>1, <2>2, <2>3, <2>4
<1>4. CASE c.type = "h"
  <2>1. s \div 3600 = r \div 3600 /\ t = s - 1200
    BY <1>4 DEF PeriodOf, StepOf
  <2>2. PartOf(c, t) = (t % 86400) \div 3600 /\ PartOf(c, r) = (r % 86400) \div 3600
    BY <1>4 DEF PartOf
  <2>3. PeriodOf(c, t) = t \div 3600 /\ PeriodOf(c, r) = r \div 3600
    BY <1>4 DEF PeriodOf
  <2>4. \A x \in Int : (x % 86400) \div 3600 = (x \div 3600) % 24
    OBVIOUS
  <2> DEFINE a == t \div 3600
             b == r \div 3600
  <2>5. t \in Int /\ a \in Int /\ b \in Int /\ (a = b \/ a = b - 1)
    BY <2>1
  <2>6. PartOf(c, t) = a % 24 /\ PartOf(c, r) = b % 24
    BY <2>2, <2>4, <2>5
  <2> HIDE DEF a, b
  <2>7. (a % 24 = b % 24 => a = b) /\ (a % 24 # b % 24 => a = b - 1)
    BY <2>5
  <2> QED
    BY <2>3, <2>6, <2>7 DEF a, b
<1> QED
  BY <1>1, <1>2, <1>3, <1>4

\* The zone is not more than a day ahead.
ZoneInDay == Offset <= 86400

\* The loop of an archive goes on until the ring is full.
LEMMA LimitIsFar ==
  ASSUME cfg \in Configs, NEW j \in Nat, j < cfg.depth
  PROVE  j * StepOf(cfg) \in Int /\ Limit \in Int /\ j * StepOf(cfg) < Limit
<1> DEFINE n == cfg.depth
           m == StepOf(cfg)
<1>1. n \in Nat \ {0} /\ m \in Nat \ {0} /\ cfg.type \in Types
  BY ArchiveSizes
<1>2. Limit \in Int /\ Limit >= n * m
  <2>1. CASE cfg.type = "m"
    <3>1. Limit = n * 31 * 86400 /\ m = 691200
      BY <2>1 DEF Limit, StepOf
    <3> HIDE DEF n, m
    <3> QED
      BY <1>1, <3>1
  <2>2. CASE cfg.type = "d"
    <3>1. Limit = n * 86400 /\ m = 28800
      BY <2>2 DEF Limit, StepOf
    <3> HIDE DEF n, m
    <3> QED
      BY <1>1, <3>1
  <2>3. CASE cfg.type = "h"
    <3>1. Limit = n * 3600 /\ m = 1200
      BY <2>3 DEF Limit, StepOf
    <3> HIDE DEF n, m
    <3> QED
      BY <1>1, <3>1
  <2>4. CASE cfg.type = "i"
    <3> DEFINE v == cfg.interval
    <3>1. Limit = n * v * 60 /\ m = v * 60
      BY <2>4 DEF Limit, StepOf
    <3>2. v \in Nat
      <4>1. v \in 1..99
        BY <2>4, ArchiveSizes
      <4> QED
        BY <4>1, SMTT(60)
    <3> HIDE DEF n, m, v
    <3>3. n * v * 60 = n * (v * 60) /\ n * v * 60 \in Int
      BY <1>1, <3>2
    <3> QED
      BY <3>1, <3>3
  <2> QED
    BY <1>1, <2>1, <2>2, <2>3, <2>4 DEF Types
<1> HIDE DEF n, m
<1>3. n - j \in Int /\ n - j >= 1
  BY <1>1 DEF n
<1> DEFINE q == n - j
<1>4. q * m = n * m - j * m
  BY <1>1
<1>5. m * q >= m /\ m * q = q * m
  <2>1. m * q = q * m
    BY <1>1
  <2> HIDE DEF q
  <2> QED
    BY <1>1, <1>3, <2>1, MultipleAtLeast DEF q
<1>6. n * m \in Int /\ j * m \in Int
  BY <1>1
<1> DEFINE x == n * m
           y == j * m
           z == q * m
<1>7. x \in Int /\ y \in Int /\ z = x - y /\ z >= m /\ Limit >= x
  BY <1>2, <1>4, <1>5, <1>6
<1> HIDE DEF x, y, z
<1>8. y < Limit
  BY <1>1, <1>2, <1>7
<1> QED
  BY <1>2, <1>6, <1>8 DEF y, m

\* A step of intervals is an hour at most.
LEMMA StepInHour ==
  ASSUME WholeRings, NEW c \in Configs, c.type = "i"
  PROVE  StepOf(c) \in Nat \ {0} /\ StepOf(c) <= 3600
<1>1. c.interval \in HourParts /\ StepOf(c) = c.interval * 60
  BY ArchiveSizes, PartsOfHour DEF WholeRings, StepOf
<1>2. \A n \in HourParts : n * 60 \in Nat /\ n * 60 <= 3600
  BY DEF HourParts
<1>3. StepOf(c) \in Nat \ {0}
  BY ArchiveSizes
<1> QED
  BY <1>1, <1>2, <1>3

\* The end of the interval that is running begins the second loop.
LEMMA FirstTurn ==
  ASSUME WholeRings, NEW c \in Configs, c.type = "i", NEW r \in Refs,
         NEW x, x = (r - Offset) \div StepOf(c) + 1,
         NEW s, s = x * StepOf(c) + Offset
  PROVE  s \in Int /\ AtTurn(c, r, 0, s)
<1> DEFINE m == StepOf(c)
           a == r - Offset
           q == a \div m
           z == a % m
           w == x * m
<1>1. m \in Nat \ {0} /\ m <= 3600 /\ Offset \in Int /\ r \in Int
  BY StepInHour, SeqAssumption
<1>2. First(c, r) = x + Offset \div m /\ PeriodOf(c, s) = s \div m
  BY DEF First, PeriodOf
<1> HIDE DEF m
<1>3. a \in Int
  BY <1>1
<1> HIDE DEF a
<1>4. q \in Int /\ a = m * q + z /\ z \in 0 .. m-1
  BY <1>1, <1>3, DivMod, ModRange
<1>5. x = q + 1
  BY DEF m, a
<1> HIDE DEF q, z
<1>6. x \in Int /\ w \in Int /\ w = m * q + m
  BY <1>1, <1>4, <1>5
<1>7. s = Offset + x * m
  BY <1>1, <1>6 DEF m
<1>8. (Offset + x * m) \div m = Offset \div m + x
  <2> DEFINE o == Offset
  <2>1. o \in Int /\ x \in Int /\ m \in Nat \ {0}
    BY <1>1, <1>6
  <2> HIDE DEF o
  <2>2. (o + x * m) \div m = o \div m + x
    BY <2>1, QuotientShift
  <2> QED
    BY <2>2 DEF o
<1>9. Offset \div m \in Int
  BY <1>1, DivMod
<1>10. PeriodOf(c, s) = First(c, r) - 0 /\ First(c, r) \in Int
  BY <1>2, <1>6, <1>7, <1>8, <1>9
<1> HIDE DEF w
<1>11. s = Offset + w
  BY <1>7 DEF w
<1> DEFINE v == m * q
<1>12. v \in Int /\ a = v + z /\ w = v + m
  BY <1>1, <1>4, <1>6
<1> HIDE DEF v
<1>13. s \in Int /\ s >= r /\ s <= r + 3600
  BY <1>1, <1>4, <1>11, <1>12 DEF a
<1>14. 0 * m = 0
  BY <1>1
<1>15. s + 0 * m \in r .. r + 3600
  BY <1>1, <1>13, <1>14
<1> QED
  BY <1>10, <1>13, <1>15 DEF AtTurn, m

-----------------------------------------------------------------------------
(* The ring is filled                                                      *)

\* k turns are made.
Turn(c, r, k, t, n, e, s) ==
  /\ e = k * StepOf(c) /\ n = k
  /\ Holds(c, r, k, t) /\ AtTurn(c, r, k, s)

\* Archive c, reference r, stamps t, pc p, count n, elapsed e, local time s and
\* result x of a sequence whose archive is a ring.
Ring(c, r, t, p, n, e, s, x) ==
  /\ t \in [0 .. c.depth - 1 -> Int]
  /\ p \in {"back", "fill", "done"}
  /\ p = "back" => /\ n = 0 /\ e = 0 /\ Holds(c, r, 0, t)
                   /\ IF c.type = "i" THEN s = r ELSE PeriodOf(c, s) = PeriodOf(c, r)
  /\ p = "fill" => \E k \in 0 .. c.depth - 1 : Turn(c, r, k, t, n, e, s)
  /\ p = "done" => x = 1 /\ Holds(c, r, c.depth, t)

RingInv ==
  /\ ref \in Refs
  /\ cfg.type \in RingTypes => Ring(cfg, ref, time, pc, count, elapsed, dt.sec, result)

\* No slot of the ring is stamped yet.
LEMMA InitRing ==
  ASSUME Init
  PROVE  RingInv
<1> DEFINE s == dt.sec
<1>1. /\ cfg \in Configs /\ ref \in Refs /\ pc = "back" /\ count = 0 /\ elapsed = 0
      /\ time = [i \in 0 .. cfg.depth - 1 |-> TIME_INVALID] /\ dt = Given(cfg, ref)
  BY DEF Init
<1>2. s = IF cfg.type \in {"m", "d"} THEN DayOf(ref) * 86400 ELSE ref
  BY <1>1 DEF Given, FromDevice
<1>3. ref \in Int
  BY <1>1, SeqAssumption
<1> HIDE DEF s
<1>4. ASSUME cfg.type \in RingTypes
      PROVE  Ring(cfg, ref, time, pc, count, elapsed, s, result)
  <2>1. time \in [0 .. cfg.depth - 1 -> Int] /\ \A i \in 0 .. cfg.depth - 1 : time[i] = TIME_INVALID
    BY <1>1 DEF TIME_INVALID
  <2>2. Holds(cfg, ref, 0, time)
    BY <2>1 DEF Holds
  <2>3. IF cfg.type = "i" THEN s = ref ELSE PeriodOf(cfg, s) = PeriodOf(cfg, ref)
    <3>1. CASE cfg.type = "m"
      <4>1. s = DayOf(ref) * 86400
        BY <1>2, <3>1
      <4>2. DayOf(s) = DayOf(ref)
        BY <1>3, <4>1, StartOfDay
      <4> QED
        BY <3>1, <4>2 DEF PeriodOf, DayNo
    <3>2. CASE cfg.type # "m"
      BY <1>2, <1>4, <3>2 DEF RingTypes
    <3> QED
      BY <3>1, <3>2
  <2> QED
    BY <1>1, <2>1, <2>2, <2>3 DEF Ring
<1> QED
  BY <1>1, <1>4 DEF RingInv, s

\* One turn of the second loop.
LEMMA RingFill ==
  ASSUME Summers = {}, WholeRings, InCentury, ZoneInDay, StampInv, RingInv,
         cfg.type \in RingTypes, pc = "fill"
  PROVE  /\ Index(dt.sec) # Trapped
         /\ FillOne => Ring(cfg', ref', time', pc', count', elapsed', dt'.sec, result')
<1> DEFINE c == cfg
           r == ref
           s == dt.sec
           n == cfg.depth
           i == Index(dt.sec)
           m == StepOf(cfg)
           F == First(cfg, ref)
           a == StartOf(cfg, dt.sec)
           u == a - Offset
<1>1. /\ c \in Configs /\ r \in Refs /\ s \in Int /\ dt = Plain(s) /\ s = utc + Offset
      /\ utc \in Int /\ Offset \in Int /\ Offset <= 86400
  BY Shift DEF StampInv, RingInv, ZoneInDay
<1>2. time \in [0 .. n-1 -> Int]
  BY DEF RingInv, Ring
<1>3. PICK k \in 0 .. n-1 : Turn(c, r, k, time, count, elapsed, s)
  BY DEF RingInv, Ring
<1>4. elapsed = k * m /\ count = k /\ Holds(c, r, k, time) /\ AtTurn(c, r, k, s)
  BY <1>3 DEF Turn
<1>5. /\ Step = m /\ Index(s) = IndexOf(c, s) /\ (c.type # "i" => Start(s) = a)
  BY <1>1, OfArchive, SMTT(60)
<1>6. n \in Nat \ {0} /\ m \in Nat \ {0} /\ k \in Nat /\ F \in Int
  BY <1>1, ArchiveSizes, FirstIsNumber
<1>7. /\ i = SlotOf(c, F - k) /\ a \in Int /\ a > 86400 /\ PeriodOf(c, a) = F - k
      /\ AtTurn(c, r, k + 1, a - m)
  <2>1. /\ IndexOf(c, s) = SlotOf(c, First(c, r) - k)
        /\ StartOf(c, s) \in Int /\ StartOf(c, s) > 86400
        /\ PeriodOf(c, StartOf(c, s)) = First(c, r) - k
        /\ AtTurn(c, r, k + 1, StartOf(c, s) - StepOf(c))
    <3> HIDE DEF c, r, s
    <3>1. k \in 0 .. c.depth - 1 /\ c.type \in RingTypes
      BY DEF c
    <3> QED
      BY <1>1, <1>4, <3>1, NextTurn
  <2> QED
    BY <1>5, <2>1
<1>8. u \in Int /\ u # TIME_INVALID /\ u + Offset = a
  <2> HIDE DEF a
  <2> QED
    BY <1>1, <1>7 DEF TIME_INVALID
<1>9. /\ i \in 0 .. n-1 /\ time[i] = TIME_INVALID
      /\ Holds(c, r, k + 1, Stamped(time, i, u))
  <2>1. PeriodOf(c, u + Offset) = First(c, r) - k
    BY <1>7, <1>8
  <2>2. c.type \in RingTypes /\ k \in 0 .. c.depth - 1 /\ time \in [0 .. c.depth - 1 -> Int]
    BY <1>2
  <2>3. i = SlotOf(c, First(c, r) - k)
    BY <1>7
  <2> HIDE DEF c, r, i, u
  <2>4. /\ i \in 0 .. c.depth - 1 /\ time[i] = TIME_INVALID
        /\ Holds(c, r, k + 1, Stamped(time, i, u))
    <3>1. c \in Configs /\ r \in Refs /\ u \in Int /\ u # TIME_INVALID /\ Holds(c, r, k, time)
      BY <1>1, <1>4, <1>8
    <3> HIDE DEF m, F, a, s, n
    <3>2. k \in Nat /\ Apart(c, r, k)
      BY <2>2, <3>1, RingHoldsMore
    <3>3. StampOf(c, r, k, i, u)
      BY <2>1, <2>3, <3>1 DEF StampOf
    <3> QED
      BY <2>2, <3>1, <3>2, <3>3, HoldsMore
  <2> QED
    BY <2>4 DEF c
<1>10. i # Trapped
  <2> HIDE DEF i, n
  <2> QED
    BY <1>6, <1>9 DEF Trapped
<1>11. ASSUME FillOne
       PROVE  Ring(cfg', ref', time', pc', count', elapsed', dt'.sec, result')
  <2> DEFINE stamp == IF cfg.type # "i" /\ IsFree(i)
                      THEN time_utc_from_local([dt EXCEPT !.sec = Start(dt.sec)])
                      ELSE utc
  <2>1. /\ Add(i, stamp) /\ utc' = stamp - Step /\ dt' = time_local_from_utc(utc')
        /\ elapsed' = elapsed + Step /\ cfg' = cfg /\ ref' = ref
    BY <1>11 DEF FillOne
  <2>2. /\ IF count' < n /\ elapsed' < Limit THEN pc' = pc /\ result' = result
           ELSE /\ pc' = "done"
                /\ result' = IF count' >= (IF cfg.type = "d" THEN 365 ELSE n) THEN 1 ELSE 0
    BY <1>11 DEF FillOne
  <2>3. IsFree(i)
    BY <1>2, <1>9 DEF IsFree
  <2>4. stamp = u
    <3>1. CASE c.type # "i"
      <4>1. stamp = time_utc_from_local([dt EXCEPT !.sec = a])
        BY <1>5, <2>3, <3>1
      <4>2. [dt EXCEPT !.sec = a] = Plain(a)
        <5> HIDE DEF s, a
        <5> QED
          BY <1>1, PlainTimes
      <4> HIDE DEF a, stamp
      <4>3. time_utc_from_local(Plain(a)) = a - Offset
        BY <1>7, Shift
      <4> QED
        BY <4>1, <4>2, <4>3
    <3>2. CASE c.type = "i"
      <4>1. a = s
        BY <3>2 DEF StartOf
      <4>2. stamp = utc
        BY <3>2
      <4> HIDE DEF a, s, stamp
      <4>3. utc = a - Offset
        BY <1>1, <4>1
      <4> QED
        BY <4>2, <4>3
    <3> QED
      BY <3>1, <3>2
  <2> HIDE DEF stamp
  <2>5. time' = [time EXCEPT ![i] = u] /\ count' = k + 1
    BY <1>4, <2>1, <2>3, <2>4 DEF Add
  <2>6. time' \in [0 .. n-1 -> Int]
    <3> HIDE DEF u, n, i
    <3> QED
      BY <1>2, <1>8, <2>5
  <2>7. Holds(c, r, k + 1, time')
    BY <1>9, <2>5 DEF Stamped
  <2>8. elapsed' = (k + 1) * m
    <3>1. elapsed' = k * m + m
      BY <1>4, <1>5, <2>1
    <3> HIDE DEF m
    <3> QED
      BY <1>6, <3>1
  <2>9. dt'.sec = a - m
    <3>1. utc' = u - m
      BY <1>5, <2>1, <2>4
    <3> HIDE DEF u, m
    <3>2. utc' \in Int
      BY <1>6, <1>8, <3>1
    <3>3. dt' = Plain(utc' + Offset)
      BY <2>1, <3>2, Shift
    <3>4. dt'.sec = utc' + Offset
      BY <3>3, PlainTimes
    <3> HIDE DEF a
    <3> QED
      BY <1>1, <1>6, <1>7, <1>8, <3>1, <3>4
  <2>10. CASE k + 1 < n
    <3>1. elapsed' < Limit
      <4>1. k + 1 \in Nat
        BY <1>6
      <4> DEFINE j == k + 1
      <4> HIDE DEF j
      <4>2. j * m < Limit
        BY <1>1, <2>10, <4>1, LimitIsFar DEF j
      <4> QED
        BY <2>8, <4>2 DEF j
    <3>2. pc' = "fill"
      BY <2>2, <2>5, <2>10, <3>1
    <3>3. k + 1 \in 0 .. n-1
      <4> HIDE DEF n
      <4> QED
        BY <1>6, <2>10
    <3>4. Turn(c, r, k + 1, time', count', elapsed', dt'.sec)
      BY <1>7, <2>5, <2>7, <2>8, <2>9 DEF Turn
    <3>5. Ring(c, r, time', pc', count', elapsed', dt'.sec, result')
      BY <2>6, <3>2, <3>3, <3>4 DEF Ring
    <3> QED
      BY <2>1, <3>5
  <2>11. CASE ~(k + 1 < n)
    <3>1. k + 1 = n /\ ~(count' < n) /\ count' >= n
      <4> HIDE DEF n
      <4> QED
        BY <1>6, <2>5, <2>11
    <3>2. cfg.type # "d"
      BY DEF RingTypes
    <3>3. pc' = "done" /\ result' = 1
      BY <2>2, <3>1, <3>2
    <3>4. Ring(c, r, time', pc', count', elapsed', dt'.sec, result')
      BY <2>6, <2>7, <3>1, <3>3 DEF Ring
    <3> QED
      BY <2>1, <3>4
  <2> QED
    BY <2>10, <2>11
<1> QED
  BY <1>10, <1>11

\* A ring is filled turn by turn.
LEMMA RingStep ==
  ASSUME Summers = {}, WholeRings, InCentury, ZoneInDay, StampInv, RingInv, [Next]_vars
  PROVE  RingInv'
<1> DEFINE s == dt.sec
<1>1. /\ cfg \in Configs /\ ref \in Refs /\ s \in Int /\ dt = Plain(s)
      /\ utc \in Int /\ Offset \in Int /\ ref \in Int
      /\ time_utc_from_local(dt) = s - Offset
  BY Shift, SeqAssumption, SMTT(60) DEF StampInv, RingInv
<1>2. Step = StepOf(cfg) /\ StepOf(cfg) \in Nat \ {0} /\ cfg.depth \in Nat \ {0}
  BY <1>1, OfArchive, ArchiveSizes
<1>3. CASE WalkBack
  <2>1. /\ pc = "back" /\ cfg.type # "i" /\ utc' = (s - Offset) - StepOf(cfg)
        /\ dt' = time_local_from_utc(utc')
        /\ pc' = IF IsEarlier(dt'.sec) THEN "fill" ELSE "back"
        /\ cfg' = cfg /\ ref' = ref /\ time' = time /\ count' = count
        /\ elapsed' = elapsed /\ result' = result
    BY <1>1, <1>2, <1>3 DEF WalkBack
  <2> DEFINE t == s - StepOf(cfg)
  <2>2. dt'.sec = t /\ t \in Int
    <3> HIDE DEF s
    <3>1. utc' \in Int
      BY <1>1, <1>2, <2>1
    <3>2. dt' = Plain(utc' + Offset)
      BY <2>1, <3>1, Shift
    <3>3. dt'.sec = utc' + Offset
      BY <3>2, PlainTimes
    <3> QED
      BY <1>1, <1>2, <2>1, <3>3
  <2>3. IsEarlier(t) <=> PartOf(cfg, t) # PartOf(cfg, ref)
    BY <1>1, PartIs DEF IsEarlier
  <2> HIDE DEF t
  <2>4. ASSUME cfg.type \in RingTypes
        PROVE  Ring(cfg, ref, time, pc', count, elapsed, t, result)
    <3>1. /\ time \in [0 .. cfg.depth - 1 -> Int] /\ count = 0 /\ elapsed = 0
          /\ Holds(cfg, ref, 0, time) /\ PeriodOf(cfg, s) = PeriodOf(cfg, ref)
      BY <2>1, <2>4 DEF RingInv, Ring
    <3>2. /\ PartOf(cfg, t) = PartOf(cfg, ref) => PeriodOf(cfg, t) = PeriodOf(cfg, ref)
          /\ PartOf(cfg, t) # PartOf(cfg, ref) => PeriodOf(cfg, t) = PeriodOf(cfg, ref) - 1
      <4> DEFINE c == cfg
                 r == ref
      <4>1. /\ c \in Configs /\ c.type # "i" /\ r \in Int /\ s \in Int
            /\ PeriodOf(c, s) = PeriodOf(c, r) /\ t = s - StepOf(c)
        BY <1>1, <2>1, <3>1 DEF t
      <4> HIDE DEF c, r, s
      <4>2. /\ PartOf(c, t) = PartOf(c, r) => PeriodOf(c, t) = PeriodOf(c, r)
            /\ PartOf(c, t) # PartOf(c, r) => PeriodOf(c, t) = PeriodOf(c, r) - 1
        BY <4>1, StepBack
      <4> QED
        BY <4>2 DEF c, r
    <3>3. CASE IsEarlier(t)
      <4>1. PeriodOf(cfg, t) = First(cfg, ref) - 0 /\ pc' = "fill"
        <5>1. First(cfg, ref) = PeriodOf(cfg, ref) - 1
          BY <2>1 DEF First
        <5>2. First(cfg, ref) \in Int
          BY <1>1, FirstIsNumber
        <5>3. First(cfg, ref) - 0 = First(cfg, ref)
          BY <5>2
        <5> QED
          BY <2>1, <2>2, <2>3, <3>2, <3>3, <5>1, <5>3
      <4>2. AtTurn(cfg, ref, 0, t)
        BY <2>1, <4>1 DEF AtTurn
      <4>3. 0 * StepOf(cfg) = 0 /\ 0 \in 0 .. cfg.depth - 1
        BY <1>2
      <4>4. Turn(cfg, ref, 0, time, count, elapsed, t)
        BY <3>1, <4>2, <4>3 DEF Turn
      <4> QED
        BY <3>1, <4>1, <4>3, <4>4 DEF Ring
    <3>4. CASE ~IsEarlier(t)
      <4>1. PeriodOf(cfg, t) = PeriodOf(cfg, ref) /\ pc' = "back"
        BY <2>1, <2>2, <2>3, <3>2, <3>4
      <4> QED
        BY <2>1, <3>1, <4>1 DEF Ring
    <3> QED
      BY <3>3, <3>4
  <2> QED
    BY <1>1, <2>1, <2>2, <2>4 DEF RingInv
<1>4. CASE StartInterval
  <2>1. /\ pc = "back" /\ cfg.type = "i" /\ utc' = RoundUp(s - Offset)
        /\ dt' = time_local_from_utc(utc') /\ pc' = "fill"
        /\ cfg' = cfg /\ ref' = ref /\ time' = time /\ count' = count
        /\ elapsed' = elapsed /\ result' = result
    BY <1>1, <1>4 DEF StartInterval
  <2>2. cfg.type \in RingTypes
    BY <2>1 DEF RingTypes
  <2>3. /\ time \in [0 .. cfg.depth - 1 -> Int] /\ count = 0 /\ elapsed = 0
        /\ Holds(cfg, ref, 0, time) /\ s = ref
    BY <2>1, <2>2 DEF RingInv, Ring
  <2> DEFINE m == StepOf(cfg)
             x == (ref - Offset) \div m + 1
             t == x * m + Offset
  <2>4. utc' = x * m /\ x \in Int
    <3>1. utc' = x * m
      BY <1>2, <2>1, <2>3 DEF RoundUp
    <3> DEFINE b == ref - Offset
    <3>2. b \in Int
      BY <1>1
    <3> HIDE DEF b
    <3>3. b \div m \in Int
      BY <1>2, <3>2, DivMod
    <3>4. x \in Int
      BY <3>3 DEF b
    <3> QED
      BY <3>1, <3>4
  <2>5. t \in Int /\ AtTurn(cfg, ref, 0, t)
    <3> DEFINE c == cfg
               r == ref
               y == (r - Offset) \div StepOf(c) + 1
               z == y * StepOf(c) + Offset
    <3>1. c \in Configs /\ c.type = "i" /\ r \in Refs
      BY <1>1, <2>1
    <3> HIDE DEF c, r
    <3>2. z \in Int /\ AtTurn(c, r, 0, z)
      BY <3>1, FirstTurn
    <3> QED
      BY <3>2 DEF c, r
  <2>6. dt'.sec = t
    <3> HIDE DEF x
    <3>1. utc' \in Int
      BY <1>2, <2>4
    <3>2. dt' = Plain(utc' + Offset)
      BY <2>1, <3>1, Shift
    <3> QED
      BY <2>4, <3>2, PlainTimes
  <2> HIDE DEF t
  <2>7. 0 * StepOf(cfg) = 0 /\ 0 \in 0 .. cfg.depth - 1
    BY <1>2
  <2>8. Turn(cfg, ref, 0, time, count, elapsed, t)
    BY <2>3, <2>5, <2>7 DEF Turn
  <2>9. Ring(cfg, ref, time, "fill", count, elapsed, t, result)
    BY <2>3, <2>7, <2>8 DEF Ring
  <2> QED
    BY <1>1, <2>1, <2>6, <2>9 DEF RingInv
<1>5. CASE FillOne
  <2>1. pc = "fill" /\ cfg' = cfg /\ ref' = ref
    BY <1>5 DEF FillOne
  <2>2. cfg.type \in RingTypes =>
          Ring(cfg', ref', time', pc', count', elapsed', dt'.sec, result')
    BY <1>5, <2>1, RingFill
  <2> QED
    BY <1>1, <2>1, <2>2 DEF RingInv
<1>6. CASE Trap
  <2>1. pc = "fill" /\ Index(dt.sec) = Trapped /\ cfg' = cfg /\ ref' = ref
    BY <1>6 DEF Trap
  <2>2. cfg.type \notin RingTypes
    BY <2>1, RingFill
  <2> QED
    BY <1>1, <2>1, <2>2 DEF RingInv
<1>7. CASE Done \/ UNCHANGED vars
  <2>1. /\ cfg' = cfg /\ ref' = ref /\ time' = time /\ pc' = pc /\ count' = count
        /\ elapsed' = elapsed /\ dt' = dt /\ result' = result
    BY <1>7 DEF Done, vars
  <2> QED
    BY <2>1 DEF RingInv
<1> QED
  BY <1>3, <1>4, <1>5, <1>6, <1>7 DEF Next

-----------------------------------------------------------------------------
(* The days of a year                                                      *)

\* The days before day d, its year's and those of a year of l days before it.
YearsBack(d, l) ==
  /\ \A j \in 0 .. DayOfYear(d) : DayOfYear(d - j) = DayOfYear(d) - j
  /\ \A j \in DayOfYear(d) + 1 .. DayOfYear(d) + l : DayOfYear(d - j) = DayOfYear(d) + l - j

\* Every day has them.
LEMMA DaysBefore ==
  ASSUME NEW d \in Int
  PROVE  DayOfYear(d) \in 0..365 /\ \E l \in {365, 366} : YearsBack(d, l)
<1> DEFINE n == DayOfYear(d)
           f == d - n
           e == f - 1
<1>1. n \in 0..365
  <2>1. 0..364 \subseteq 0..365
    OBVIOUS
  <2>2. n \in 0..365 \/ n \in 0..364
    BY PartsAreNumbers
  <2> HIDE DEF n
  <2> QED
    BY <2>1, <2>2
<1>2. \A j \in 0..n : DayOfYear(d - j) = n - j
  <2> SUFFICES ASSUME NEW j \in 0..n
               PROVE  DayOfYear(d - j) = n - j
    OBVIOUS
  <2>1. j \in Nat /\ j <= n
    BY <1>1
  <2> QED
    BY <2>1, SameYear
<1>3. f \in Int /\ DayOfYear(f) = 0
  <2>1. n \in 0..n /\ n - n = 0
    BY <1>1
  <2> QED
    BY <1>1, <1>2, <2>1
<1> HIDE DEF n
<1>4. e \in Int
  BY <1>3
<1>5. PICK l \in {365, 366} : DayOfYear(e) = l - 1
  <2> DEFINE k == 1
  <2>1. k \in 1..31
    OBVIOUS
  <2> HIDE DEF k, f
  <2>2. DayOfYear(f - k) = (IF YearOfFour(f - k) = 0 THEN 366 ELSE 365) - k
    BY <1>3, <2>1, YearBefore
  <2> QED
    BY <2>2 DEF k
<1>6. ASSUME NEW j \in n + 1 .. n + l
      PROVE  DayOfYear(d - j) = n + l - j
  <2> DEFINE k == j - n - 1
  <2>1. k \in Nat /\ k <= l - 1 /\ e - k = d - j /\ (l - 1) - k = n + l - j
    BY <1>1 DEF n
  <2> HIDE DEF k, e
  <2>3. k <= DayOfYear(e)
    BY <1>5, <2>1
  <2>2. DayOfYear(e - k) = DayOfYear(e) - k
    BY <1>4, <2>1, <2>3, SameYear
  <2> QED
    BY <1>5, <2>1, <2>2
<1>7. YearsBack(d, l)
  BY <1>2, <1>6 DEF n, YearsBack
<1> QED
  BY <1>1, <1>7 DEF n

\* Less than a common year apart, two days have two slots.
LEMMA DaysDiffer ==
  ASSUME NEW d \in Int, NEW j \in 1..364
  PROVE  DayOfYear(d - j) # DayOfYear(d)
<1> DEFINE n == DayOfYear(d)
<1>1. n \in 0..365
  BY DaysBefore
<1>2. PICK l \in {365, 366} : YearsBack(d, l)
  BY DaysBefore
<1>3. /\ \A i \in 0..n : DayOfYear(d - i) = n - i
      /\ \A i \in n + 1 .. n + l : DayOfYear(d - i) = n + l - i
  BY <1>2 DEF YearsBack
<1> HIDE DEF n
<1>4. CASE j \in 0..n
  BY <1>1, <1>3, <1>4 DEF n
<1>5. CASE j \notin 0..n
  <2>1. j \in n + 1 .. n + l
    BY <1>1, <1>5
  <2>2. DayOfYear(d - j) = n + l - j
    BY <1>3, <2>1
  <2>3. n + l - j # n
    BY <1>1
  <2> QED
    BY <2>2, <2>3 DEF n
<1> QED
  BY <1>4, <1>5

\* The days of a leap year have all slots but that of its last day.
LEMMA DaysCover ==
  ASSUME NEW d \in Int, NEW i \in 0..364
  PROVE  \E j \in 0..365 : DayOfYear(d - j) = i
<1> DEFINE n == DayOfYear(d)
<1>1. n \in 0..365
  BY DaysBefore
<1>2. PICK l \in {365, 366} : YearsBack(d, l)
  BY DaysBefore
<1>3. /\ \A j \in 0..n : DayOfYear(d - j) = n - j
      /\ \A j \in n + 1 .. n + l : DayOfYear(d - j) = n + l - j
  BY <1>2 DEF YearsBack
<1> HIDE DEF n
<1>4. CASE i <= n
  <2> DEFINE j == n - i
  <2>1. j \in 0..n /\ j \in 0..365 /\ n - j = i
    BY <1>1, <1>4
  <2> HIDE DEF j
  <2> QED
    BY <1>3, <2>1
<1>5. CASE ~(i <= n)
  <2> DEFINE j == n + l - i
  <2>1. j \in n + 1 .. n + l /\ j \in 0..365 /\ n + l - j = i
    BY <1>1, <1>5
  <2> HIDE DEF j
  <2> QED
    BY <1>3, <2>1
<1> QED
  BY <1>4, <1>5

-----------------------------------------------------------------------------
(* The turns of a day sequence                                             *)

\* The local second after k turns, 365 of which stamped their days.
LateSecond(c, r, k) == (First(c, r) - 364) * 86400 + (364 - k) * 28800

DayTurn(c, r, k, t, n, e, s) ==
  /\ e = k * 28800 /\ n = k
  /\ Holds(c, r, k, t) /\ PeriodOf(c, s) = First(c, r) - k
  /\ k = 365 => s = LateSecond(c, r, k)

LateTurn(c, r, k, t, n, e, s) ==
  /\ e = k * 28800 /\ n = 365
  /\ Holds(c, r, 365, t)
  /\ SlotOf(c, First(c, r) - 365) = SlotOf(c, First(c, r))
  /\ s = LateSecond(c, r, k)

\* The latest day of slot i that is over is p.
DayLatest(c, r, i, p) ==
  /\ p \in Int /\ p <= First(c, r)
  /\ IF i = 365 THEN First(c, r) < p + 1461
     ELSE \/ First(c, r) < p + 365
          \/ First(c, r) = p + 365 /\ SlotOf(c, First(c, r)) # i

IsLatest(c, r, t, i) ==
  t[i] # TIME_INVALID => DayLatest(c, r, i, PeriodOf(c, t[i] + Offset))

IsStamped(t, i) == t[i] # TIME_INVALID

DaysDone(c, r, t) ==
  /\ \A i \in 0..364 : IsStamped(t, i)
  /\ \A i \in 0..365 : IsLatest(c, r, t, i)

\* The sizes of the archive of days.
LEMMA DayParts ==
  ASSUME NEW c \in Configs, c.type = "d"
  PROVE  /\ c.depth = 366 /\ StepOf(c) = 28800
         /\ \A p : SlotOf(c, p) = DayOfYear(p - Epoch)
         /\ \A s : PeriodOf(c, s) = DayOf(s) /\ StartOf(c, s) = DayOf(s) * 86400
         /\ \A r : First(c, r) = DayOf(r) - 1
<1>1. c.depth = 366
  BY ArchiveSizes
<1> QED
  BY <1>1 DEF StepOf, SlotOf, PeriodOf, StartOf, First

\* The slots are the days of a leap year.
LEMMA DaySlots ==
  ASSUME NEW c \in Configs, c.type = "d", NEW p \in Int
  PROVE  SlotOf(c, p) \in 0..365
<1> DEFINE d == p - Epoch
<1>1. d \in Int
  BY EpochIsInt
<1> HIDE DEF d
<1>2. DayOfYear(d) \in 0..365
  BY <1>1, DaysBefore
<1> QED
  BY <1>2, DayParts DEF d

\* The index of a day up to 610 days before the first is its slot.
LEMMA DayIsLive ==
  ASSUME InCentury, NEW c \in Configs, c.type = "d", NEW r \in Refs, NEW s \in Int,
         DayOf(s) <= First(c, r), DayOf(s) >= First(c, r) - 610
  PROVE  /\ IndexOf(c, s) = SlotOf(c, DayOf(s)) /\ IndexOf(c, s) \in 0..365
         /\ StartOf(c, s) \in Int /\ StartOf(c, s) > 86400
         /\ DayOf(StartOf(c, s)) = DayOf(s)
<1>1. First(c, r) = DayOf(r) - 1 /\ r \in Int /\ DayNo(r) \in ClockDays
  BY DayParts, SeqAssumption DEF InCentury
<1>2. DayOf(r) \in Int /\ DayOf(s) \in Int
  BY <1>1 DEF DayOf
<1>3. DayNo(r) \in Int /\ DayNo(r) >= 1461 /\ DayNo(r) <= 25 * 1461 - 2
  BY <1>1, DaysOfCentury
<1>4. DayNo(s) \in Int /\ DayNo(s) >= 0 /\ DayNo(s) <= 25 * 1461 - 1
  BY <1>1, <1>2, <1>3 DEF DayNo
<1>5. DayNo(s) \in CenturyDays
  BY <1>4, DaysOfCentury
<1>6. IndexOf(c, s) = DayOfYear(DayNo(s))
  <2>1. IndexOf(c, s) = day_index(Date(s))
    BY DEF IndexOf
  <2> QED
    BY <1>5, <2>1, DateIsDate
<1>7. DayNo(s) = DayOf(s) - Epoch
  BY DEF DayNo, Epoch
<1>8. IndexOf(c, s) = SlotOf(c, DayOf(s))
  BY <1>6, <1>7, DayParts
<1>9. IndexOf(c, s) \in 0..365
  BY <1>2, <1>8, DaySlots
<1>10. Live(c, s)
  BY <1>5 DEF Live
<1>11. StartOf(c, s) \in Int /\ StartOf(c, s) >= 86400 + 86400
  BY <1>10, LiveIsLate
<1>12. DayOf(StartOf(c, s)) = DayOf(s)
  <2>1. PeriodOf(c, StartOf(c, s)) = PeriodOf(c, s)
    BY BeforeStart
  <2> QED
    BY <2>1, DayParts
<1> QED
  BY <1>8, <1>9, <1>11, <1>12

\* The slots of the first 365 days, and of a 366th that is not the first one's.
LEMMA DaysApart ==
  ASSUME NEW c \in Configs, c.type = "d", NEW r \in Refs, NEW k \in 0..365,
         k = 365 => SlotOf(c, First(c, r) - 365) # SlotOf(c, First(c, r))
  PROVE  k \in Nat /\ Apart(c, r, k)
<1> DEFINE F == First(c, r)
<1>1. F \in Int /\ c.depth = 366
  BY FirstIsNumber, DayParts
<1> HIDE DEF F
<1>2. ASSUME NEW j \in 0 .. k
      PROVE  SlotOf(c, F - j) \in 0 .. c.depth - 1
  <2>1. F - j \in Int /\ 366 - 1 = 365
    BY <1>1
  <2> QED
    BY <1>1, <2>1, DaySlots
<1>3. ASSUME NEW j \in 0 .. k-1
      PROVE  SlotOf(c, F - j) # SlotOf(c, F - k)
  <2>1. CASE k - j \in 1..364
    <3> DEFINE d == (F - j) - Epoch
               i == k - j
    <3>1. d \in Int /\ (F - k) - Epoch = d - i
      BY <1>1, EpochIsInt
    <3>2. SlotOf(c, F - j) = DayOfYear(d) /\ SlotOf(c, F - k) = DayOfYear(d - i)
      BY <3>1, DayParts
    <3>3. i \in 1..364
      BY <2>1
    <3> HIDE DEF d, i
    <3> QED
      BY <3>1, <3>2, <3>3, DaysDiffer, ZenonT(60)
  <2>2. CASE k - j \notin 1..364
    <3>1. k = 365 /\ j = 0
      BY <2>2
    <3>2. F - j = F
      BY <1>1, <3>1
    <3> QED
      BY <3>1, <3>2 DEF F
  <2> QED
    BY <2>1, <2>2
<1>4. k \in Nat
  OBVIOUS
<1> QED
  BY <1>2, <1>3, <1>4 DEF Apart, F

\* When the first 365 days, or 366, are stamped the sequence is complete.
LEMMA DaysAreDone ==
  ASSUME NEW c \in Configs, c.type = "d", NEW r \in Refs, NEW t, NEW k \in {365, 366},
         Holds(c, r, k, t),
         k = 365 <=> SlotOf(c, First(c, r) - 365) = SlotOf(c, First(c, r))
  PROVE  DaysDone(c, r, t)
<1> DEFINE F == First(c, r)
<1>1. F \in Int /\ c.depth = 366
  BY FirstIsNumber, DayParts
<1>2. \A j \in 0 .. k-1 : /\ t[SlotOf(c, F - j)] # TIME_INVALID
                          /\ PeriodOf(c, t[SlotOf(c, F - j)] + Offset) = F - j
  BY DEF Holds, HasPeriod
<1>3. \A i \in 0..365 : t[i] # TIME_INVALID => \E j \in 0 .. k-1 : i = SlotOf(c, F - j)
  <2>1. 0 .. c.depth - 1 = 0..365
    BY <1>1
  <2> QED
    BY <2>1, SMTT(60) DEF Holds, IsSlot
<1>4. k = 365 <=> SlotOf(c, F - 365) = SlotOf(c, F)
  OBVIOUS
<1> HIDE DEF F
<1>5. ASSUME NEW i \in 0..364
      PROVE  t[i] # TIME_INVALID
  <2> DEFINE d == F - Epoch
  <2>1. d \in Int
    BY <1>1, EpochIsInt
  <2>2. \A j \in 0..365 : (F - j) - Epoch = d - j
    BY <1>1, EpochIsInt
  <2> HIDE DEF d
  <2>3. PICK j \in 0..365 : DayOfYear(d - j) = i
    BY <2>1, DaysCover, ZenonT(60)
  <2>4. SlotOf(c, F - j) = i
    BY <2>2, <2>3, DayParts
  <2>5. CASE j \in 0 .. k-1
    BY <1>2, <2>4, <2>5
  <2>6. CASE j \notin 0 .. k-1
    <3>1. j = 365 /\ k = 365
      BY <2>6
    <3>2. 0 \in 0 .. k-1 /\ F - 0 = F
      BY <1>1
    <3>3. SlotOf(c, F) = i
      BY <1>4, <2>4, <3>1
    <3> QED
      BY <1>2, <3>2, <3>3
  <2> QED
    BY <2>5, <2>6
<1>6. ASSUME NEW i \in 0..365, t[i] # TIME_INVALID
      PROVE  DayLatest(c, r, i, PeriodOf(c, t[i] + Offset))
  <2>1. PICK j \in 0 .. k-1 : i = SlotOf(c, F - j)
    BY <1>3, <1>6, SMTT(60)
  <2>2. PeriodOf(c, t[i] + Offset) = F - j
    BY <1>2, <2>1
  <2>3. F - j \in Int /\ F - j <= F /\ F < (F - j) + 1461
        /\ (F < (F - j) + 365 \/ j = 365)
    BY <1>1
  <2>4. j = 365 => F = (F - j) + 365 /\ SlotOf(c, F) # i
    <3> SUFFICES ASSUME j = 365
                 PROVE  F = (F - j) + 365 /\ SlotOf(c, F) # i
      OBVIOUS
    <3>1. F = (F - j) + 365 /\ k # 365
      BY <1>1, SMTT(60)
    <3> QED
      BY <1>4, <2>1, <3>1
  <2> QED
    BY <2>2, <2>3, <2>4 DEF DayLatest, F
<1> QED
  BY <1>5, <1>6 DEF DaysDone, IsLatest, IsStamped

\* The slot of 31 December of a leap year may be stamped later.
LEMMA LastDayStamped ==
  ASSUME NEW c \in Configs, NEW r \in Refs, NEW t \in [0..365 -> Int],
         DaysDone(c, r, t), NEW u \in Int,
         u # TIME_INVALID, NEW p \in Int, PeriodOf(c, u + Offset) = p,
         p <= First(c, r), First(c, r) < p + 1461
  PROVE  DaysDone(c, r, Stamped(t, 365, u))
<1> DEFINE v == Stamped(t, 365, u)
<1>1. v[365] = u /\ \A i \in 0..365 : i # 365 => v[i] = t[i]
  BY DEF Stamped
<1> HIDE DEF v
<1>2. ASSUME NEW i \in 0..364
      PROVE  v[i] # TIME_INVALID
  <2>1. i # 365 /\ i \in 0..365
    OBVIOUS
  <2>2. v[i] = t[i]
    BY <1>1, <2>1, SMTT(60)
  <2>3. t[i] # TIME_INVALID
    <3>1. IsStamped(t, i)
      BY DEF DaysDone
    <3> QED
      BY <3>1 DEF IsStamped
  <2> QED
    BY <2>2, <2>3
<1>3. ASSUME NEW i \in 0..365, v[i] # TIME_INVALID
      PROVE  DayLatest(c, r, i, PeriodOf(c, v[i] + Offset))
  <2>1. CASE i = 365
    BY <1>1, <2>1 DEF DayLatest
  <2>2. CASE i # 365
    <3>1. v[i] = t[i]
      BY <1>1, <2>2
    <3>2. t[i] # TIME_INVALID
      BY <1>3, <3>1
    <3>3. DayLatest(c, r, i, PeriodOf(c, t[i] + Offset))
      <4>1. IsLatest(c, r, t, i)
        BY DEF DaysDone
      <4> QED
        BY <3>2, <4>1 DEF IsLatest
    <3> QED
      BY <3>1, <3>3
  <2> QED
    BY <2>1, <2>2
<1> QED
  BY <1>2, <1>3, ZenonT(60) DEF DaysDone, IsLatest, IsStamped, v

\* Archive c, reference r, stamps t, pc p, count n, elapsed e, local time s and
\* result x of a sequence of days.
Days(c, r, t, p, n, e, s, x) ==
  /\ t \in [0..365 -> Int]
  /\ p = "back" => n = 0 /\ e = 0 /\ Holds(c, r, 0, t) /\ PeriodOf(c, s) = PeriodOf(c, r)
  /\ p = "fill" => \/ \E k \in 0..365 : DayTurn(c, r, k, t, n, e, s)
                   \/ \E k \in 366..1097 : LateTurn(c, r, k, t, n, e, s)
  /\ p = "done" => x = 1 /\ DaysDone(c, r, t)

DaysInv ==
  /\ ref \in Refs
  /\ cfg.type = "d" => Days(cfg, ref, time, pc, count, elapsed, dt.sec, result)

\* What a turn does to a sequence of days.
LEMMA DayEffect ==
  ASSUME Summers = {}, StampInv, FillOne, cfg.type = "d",
         StartOf(cfg, dt.sec) \in Int
  PROVE  LET i == Index(dt.sec)
             a == StartOf(cfg, dt.sec)
         IN  /\ pc = "fill" /\ cfg' = cfg /\ ref' = ref /\ elapsed' = elapsed + 28800
             /\ IsFree(i) => /\ time' = Stamped(time, i, a - Offset) /\ count' = count + 1
                             /\ dt'.sec = a - 28800
             /\ ~IsFree(i) => /\ time' = time /\ count' = count
                              /\ dt'.sec = dt.sec - 28800
             /\ IF count' < 366 /\ elapsed' < 1098 * 28800
                THEN pc' = pc /\ result' = result
                ELSE pc' = "done" /\ result' = IF count' >= 365 THEN 1 ELSE 0
<1> DEFINE i == Index(dt.sec)
           s == dt.sec
           a == StartOf(cfg, dt.sec)
           stamp == IF cfg.type # "i" /\ IsFree(i)
                    THEN time_utc_from_local([dt EXCEPT !.sec = Start(dt.sec)])
                    ELSE utc
<1>1. /\ cfg \in Configs /\ s \in Int /\ dt = Plain(s) /\ s = utc + Offset
      /\ utc \in Int /\ Offset \in Int /\ pc = "fill"
  BY Shift DEF StampInv, FillOne
<1>2. Step = 28800 /\ Start(s) = a /\ cfg.depth = 366 /\ Limit = 366 * 86400
  <2>1. StepOf(cfg) = 28800 /\ cfg.depth = 366
    BY <1>1, DayParts
  <2>2. Step = StepOf(cfg) /\ Start(s) = a
    BY <1>1, OfArchive
  <2>3. Limit = cfg.depth * 86400
    BY DEF Limit
  <2> QED
    BY <2>1, <2>2, <2>3
<1>3. /\ Add(i, stamp) /\ utc' = stamp - 28800 /\ dt' = time_local_from_utc(utc')
      /\ elapsed' = elapsed + 28800 /\ cfg' = cfg /\ ref' = ref
      /\ IF count' < 366 /\ elapsed' < 366 * 86400
         THEN pc' = pc /\ result' = result
         ELSE pc' = "done" /\ result' = IF count' >= 365 THEN 1 ELSE 0
  BY <1>2 DEF FillOne
<1>4. 366 * 86400 = 1098 * 28800
  OBVIOUS
<1>5. stamp \in Int => dt'.sec = stamp - 28800 + Offset
  <2> SUFFICES ASSUME stamp \in Int
               PROVE  dt'.sec = stamp - 28800 + Offset
    OBVIOUS
  <2> HIDE DEF stamp
  <2>1. utc' \in Int
    BY <1>3
  <2>2. dt' = Plain(utc' + Offset)
    BY <1>3, <2>1, Shift
  <2> QED
    BY <1>3, <2>2, PlainTimes
<1>6. CASE IsFree(i)
  <2>1. stamp = a - Offset
    <3>1. stamp = time_utc_from_local([dt EXCEPT !.sec = a])
      BY <1>2, <1>6
    <3>2. [dt EXCEPT !.sec = a] = Plain(a)
      <4> HIDE DEF s, a
      <4> QED
        BY <1>1, PlainTimes
    <3> HIDE DEF a, stamp
    <3>3. a \in Int
      BY DEF a
    <3>4. time_utc_from_local(Plain(a)) = a - Offset
      BY <3>3, Shift
    <3> QED
      BY <3>1, <3>2, <3>4
  <2>2. dt'.sec = a - 28800
    <3>1. a \in Int
      OBVIOUS
    <3> HIDE DEF a, stamp
    <3> QED
      BY <1>1, <1>5, <2>1, <3>1
  <2> HIDE DEF stamp
  <2>3. time' = Stamped(time, i, a - Offset) /\ count' = count + 1
    BY <1>3, <1>6, <2>1 DEF Add, Stamped
  <2> QED
    BY <1>1, <1>3, <1>4, <1>6, <2>2, <2>3
<1>7. CASE ~IsFree(i)
  <2>1. stamp = utc
    BY <1>7
  <2>2. dt'.sec = s - 28800
    <3> HIDE DEF stamp, s
    <3> QED
      BY <1>1, <1>5, <2>1
  <2> HIDE DEF stamp
  <2>3. time' = time /\ count' = count
    BY <1>3, <1>7 DEF Add
  <2> QED
    BY <1>1, <1>3, <1>4, <1>7, <2>2, <2>3
<1> QED
  BY <1>6, <1>7

\* Turns that find their slots taken go on by thirds of a day.
IsLate(c, r, k) ==
  LET s == LateSecond(c, r, k)
  IN  /\ s \in Int /\ s - 28800 = LateSecond(c, r, k + 1)
      /\ DayOf(s) <= First(c, r) /\ DayOf(s) >= First(c, r) - 610
      /\ DayOf(s) \in Int

\* They do.
LEMMA LateSeconds ==
  ASSUME NEW c \in Configs, c.type = "d", NEW r \in Refs, NEW k \in 365..1097
  PROVE  IsLate(c, r, k)
<1> DEFINE F == First(c, r)
           s == LateSecond(c, r, k)
<1>1. F \in Int
  BY FirstIsNumber
<1>2. /\ s = (F - 364) * 86400 + (364 - k) * 28800
      /\ LateSecond(c, r, k + 1) = (F - 364) * 86400 + (364 - (k + 1)) * 28800
  BY DEF LateSecond
<1> HIDE DEF F, s
<1>3. s \in Int /\ s - 28800 = LateSecond(c, r, k + 1)
  BY <1>1, <1>2
<1>4. s \div 86400 <= F /\ s \div 86400 >= F - 610 /\ s \div 86400 \in Int
  BY <1>1, <1>2, SMTT(60)
<1> QED
  BY <1>3, <1>4 DEF DayOf, F, s, IsLate

\* A turn of a sequence of days.
LEMMA DaysFill ==
  ASSUME Summers = {}, InCentury, ZoneInDay, StampInv, DaysInv, FillOne, cfg.type = "d"
  PROVE  Days(cfg', ref', time', pc', count', elapsed', dt'.sec, result')
<1> DEFINE c == cfg
           r == ref
           s == dt.sec
           i == Index(dt.sec)
           a == StartOf(cfg, dt.sec)
           u == a - Offset
           F == First(cfg, ref)
           lim == 1098 * 28800
<1>1. /\ c \in Configs /\ c.type = "d" /\ r \in Refs /\ s \in Int /\ pc = "fill"
      /\ Offset \in Int /\ Offset <= 86400
      /\ time \in [0..365 -> Int] /\ F \in Int
  BY Shift, FirstIsNumber DEF StampInv, DaysInv, Days, ZoneInDay, FillOne
<1>2. \/ \E k \in 0..365 : DayTurn(c, r, k, time, count, elapsed, s)
      \/ \E k \in 366..1097 : LateTurn(c, r, k, time, count, elapsed, s)
  <2>1. pc = "fill"
    BY <1>1
  <2>2. Days(c, r, time, pc, count, elapsed, s, result)
    BY DEF DaysInv
  <2> HIDE DEF c, r, s
  <2> QED
    BY <2>1, <2>2 DEF Days
<1>3. \A k : DayTurn(c, r, k, time, count, elapsed, s) => PeriodOf(c, s) = F - k
  BY SMTT(60) DEF DayTurn
<1>4. DayOf(s) \in Int /\ DayOf(s) <= F /\ DayOf(s) >= F - 610
  <2>1. CASE \E k \in 0..365 : DayTurn(c, r, k, time, count, elapsed, s)
    <3>1. PICK k \in 0..365 : DayTurn(c, r, k, time, count, elapsed, s)
      BY <2>1
    <3>2. DayOf(s) = F - k
      BY <1>1, <1>3, <3>1, DayParts
    <3> HIDE DEF F, s
    <3> QED
      BY <1>1, <3>2
  <2>2. CASE \E k \in 366..1097 : LateTurn(c, r, k, time, count, elapsed, s)
    <3>1. PICK k \in 366..1097 : LateTurn(c, r, k, time, count, elapsed, s)
      BY <2>2
    <3>2. s = LateSecond(c, r, k) /\ k \in 365..1097
      BY <3>1 DEF LateTurn
    <3>3. DayOf(s) <= First(c, r) /\ DayOf(s) >= First(c, r) - 610 /\ DayOf(s) \in Int
      <4> HIDE DEF c, r, s
      <4>1. IsLate(c, r, k)
        BY <1>1, <3>2, LateSeconds
      <4> QED
        BY <3>2, <4>1 DEF IsLate
    <3> QED
      BY <3>3
  <2> QED
    BY <1>2, <2>1, <2>2
<1>5. /\ i = SlotOf(c, DayOf(s)) /\ i \in 0..365
      /\ a \in Int /\ a > 86400 /\ DayOf(a) = DayOf(s) /\ a = DayOf(s) * 86400
  <2>1. /\ IndexOf(c, s) = SlotOf(c, DayOf(s)) /\ IndexOf(c, s) \in 0..365
        /\ StartOf(c, s) \in Int /\ StartOf(c, s) > 86400
        /\ DayOf(StartOf(c, s)) = DayOf(s)
    <3>1. DayOf(s) <= First(c, r) /\ DayOf(s) >= First(c, r) - 610
      BY <1>4
    <3> HIDE DEF c, r, s
    <3> QED
      BY <1>1, <3>1, DayIsLive
  <2>2. i = IndexOf(c, s)
    BY <1>1, OfArchive
  <2>3. a = DayOf(s) * 86400
    BY <1>1, DayParts
  <2> QED
    BY <2>1, <2>2, <2>3
<1>6. u \in Int /\ u # TIME_INVALID /\ u + Offset = a
  <2> HIDE DEF a
  <2> QED
    BY <1>1, <1>5 DEF TIME_INVALID
<1>7. PeriodOf(c, u + Offset) = DayOf(s)
  BY <1>1, <1>5, <1>6, DayParts
<1>8. /\ cfg' = c /\ ref' = r /\ elapsed' = elapsed + 28800
      /\ IsFree(i) => /\ time' = Stamped(time, i, u) /\ count' = count + 1
                      /\ dt'.sec = a - 28800
      /\ ~IsFree(i) => time' = time /\ count' = count /\ dt'.sec = s - 28800
      /\ IF count' < 366 /\ elapsed' < lim
         THEN pc' = pc /\ result' = result
         ELSE pc' = "done" /\ result' = IF count' >= 365 THEN 1 ELSE 0
  BY <1>1, <1>5, DayEffect
<1>9. IsFree(i) <=> time[i] = TIME_INVALID
  BY <1>1, <1>5 DEF IsFree
<1>10. time' \in [0..365 -> Int]
  <2> HIDE DEF i, u
  <2>1. CASE IsFree(i)
    BY <1>1, <1>6, <1>8, <2>1 DEF Stamped
  <2>2. CASE ~IsFree(i)
    BY <1>1, <1>8, <2>2
  <2> QED
    BY <2>1, <2>2
<1> HIDE DEF lim
<1>12. lim = 1098 * 28800
  BY DEF lim
<1>13. \A k \in Int : k * 28800 + 28800 = (k + 1) * 28800
  OBVIOUS
<1>20. CASE \E k \in 0..365 : DayTurn(c, r, k, time, count, elapsed, s)
  <2>1. PICK k \in 0..365 : DayTurn(c, r, k, time, count, elapsed, s)
    BY <1>20
  <2>2. /\ elapsed = k * 28800 /\ count = k
        /\ Holds(c, r, k, time) /\ PeriodOf(c, s) = F - k
        /\ k = 365 => s = LateSecond(c, r, k)
    BY <2>1 DEF DayTurn
  <2>3. DayOf(s) = F - k
    BY <1>1, <2>2, DayParts
  <2>4. elapsed' = (k + 1) * 28800
    BY <1>8, <1>13, <2>2
  <2>5. elapsed' < lim
    <3>1. (k + 1) * 28800 < 1098 * 28800
      OBVIOUS
    <3> QED
      BY <1>12, <2>4, <3>1
  <2>6. CASE k = 365 => SlotOf(c, F - 365) # SlotOf(c, F)
    <3>1. k \in Nat /\ Apart(c, r, k)
      <4>1. k = 365 => SlotOf(c, First(c, r) - 365) # SlotOf(c, First(c, r))
        BY <2>6
      <4> HIDE DEF c, r
      <4> QED
        BY <1>1, <4>1, DaysApart
    <3>2. /\ i \in 0 .. c.depth - 1 /\ time[i] = TIME_INVALID
          /\ Holds(c, r, k + 1, Stamped(time, i, u))
      <4>1. /\ i = SlotOf(c, First(c, r) - k) /\ PeriodOf(c, u + Offset) = First(c, r) - k
            /\ time \in [0 .. c.depth - 1 -> Int]
        <5>1. c.depth = 366
          BY <1>1, DayParts
        <5>2. 0 .. c.depth - 1 = 0..365
          BY <5>1
        <5>3. i = SlotOf(c, First(c, r) - k)
          BY <1>5, <2>3
        <5>4. PeriodOf(c, u + Offset) = First(c, r) - k
          BY <1>7, <2>3
        <5> DEFINE S == 0..365
                   T == 0 .. c.depth - 1
        <5>5. time \in [T -> Int]
          <6>1. T = S /\ time \in [S -> Int]
            BY <1>1, <5>2
          <6> HIDE DEF S, T
          <6> QED
            BY <6>1
        <5> QED
          BY <5>3, <5>4, <5>5
      <4>2. c \in Configs /\ r \in Refs /\ Holds(c, r, k, time)
        BY <1>1, <2>2
      <4>3. StampOf(c, r, k, i, u)
        BY <1>6, <4>1 DEF StampOf
      <4> HIDE DEF c, r, i, u, s, a, F
      <4>4. time \in [0 .. c.depth - 1 -> Int]
        BY <4>1
      <4> QED
        BY <3>1, <4>2, <4>3, <4>4, HoldsMore
    <3>3. IsFree(i)
      BY <1>9, <3>2
    <3>4. /\ time' = Stamped(time, i, u) /\ count' = k + 1 /\ dt'.sec = a - 28800
          /\ Holds(c, r, k + 1, time')
      BY <1>8, <2>2, <3>2, <3>3
    <3>5. CASE k < 365
      <4>1. pc' = "fill"
        <5>1. count' < 366
          BY <3>4, <3>5
        <5> QED
          BY <1>1, <1>8, <2>5, <5>1
      <4>2. PeriodOf(c, a - 28800) = F - (k + 1)
        <5>1. PeriodOf(c, a - 28800) = DayOf(a - 28800)
          BY <1>1, DayParts
        <5>2. a = (F - k) * 86400
          BY <1>5, <2>3
        <5> HIDE DEF a, F
        <5>3. DayOf(a - 28800) = F - (k + 1)
          BY <1>1, <5>2 DEF DayOf
        <5> QED
          BY <5>1, <5>3
      <4>3. k + 1 = 365 => a - 28800 = LateSecond(c, r, k + 1)
        <5> SUFFICES ASSUME k + 1 = 365
                     PROVE  a - 28800 = LateSecond(c, r, 365)
          OBVIOUS
        <5>1. k = 364
          OBVIOUS
        <5>2. a = (F - 364) * 86400
          BY <1>5, <2>3, <5>1
        <5>3. LateSecond(c, r, 365) = (F - 364) * 86400 + (364 - 365) * 28800
          BY DEF LateSecond
        <5> HIDE DEF a, F
        <5> QED
          BY <1>1, <5>2, <5>3
      <4>4. k + 1 \in 0..365
        BY <3>5
      <4>5. DayTurn(c, r, k + 1, time', count', elapsed', dt'.sec)
        BY <2>4, <3>4, <4>2, <4>3 DEF DayTurn
      <4> QED
        BY <1>8, <1>10, <4>1, <4>4, <4>5 DEF Days
    <3>6. CASE ~(k < 365)
      <4>1. k = 365 /\ k + 1 = 366
        BY <3>6
      <4>2. pc' = "done" /\ result' = 1
        <5>1. ~(count' < 366) /\ count' >= 365
          BY <3>4, <4>1
        <5> QED
          BY <1>8, <5>1
      <4>3. DaysDone(c, r, time')
        <5> DEFINE x == 366
                   v == time'
        <5>1. x \in {365, 366} /\ x # 365
          OBVIOUS
        <5>2. Holds(c, r, x, v)
          BY <3>4, <4>1
        <5>3. x = 365 <=> SlotOf(c, First(c, r) - 365) = SlotOf(c, First(c, r))
          BY <2>6, <4>1, <5>1
        <5> HIDE DEF x, v, c, r
        <5>4. DaysDone(c, r, v)
          BY <1>1, <5>1, <5>2, <5>3, DaysAreDone
        <5> QED
          BY <5>4 DEF v
      <4> QED
        BY <1>8, <1>10, <4>2, <4>3 DEF Days
    <3> QED
      BY <3>5, <3>6
  <2>7. CASE ~(k = 365 => SlotOf(c, F - 365) # SlotOf(c, F))
    <3>1. k = 365 /\ SlotOf(c, F - 365) = SlotOf(c, F)
      BY <2>7
    <3>2. i = SlotOf(c, F)
      BY <1>5, <2>3, <3>1
    <3>3. time[i] # TIME_INVALID
      <4>1. HasPeriod(c, r, 0, time)
        BY <2>2, <3>1 DEF Holds
      <4>2. F - 0 = F
        BY <1>1
      <4> QED
        BY <3>2, <4>1, <4>2 DEF HasPeriod
    <3>4. ~IsFree(i)
      BY <1>9, <3>3
    <3>5. time' = time /\ count' = 365 /\ dt'.sec = s - 28800 /\ elapsed' = 366 * 28800
      BY <1>8, <2>2, <2>4, <3>1, <3>4
    <3>6. pc' = "fill"
      <4>1. count' < 366
        BY <3>5
      <4> QED
        BY <1>1, <1>8, <2>5, <4>1
    <3>7. s - 28800 = LateSecond(c, r, 366)
      <4> DEFINE x == 365
      <4>1. s = LateSecond(c, r, x) /\ x \in 365..1097 /\ x + 1 = 366
        BY <2>2, <3>1
      <4> HIDE DEF c, r, s, x
      <4>3. IsLate(c, r, x)
        BY <1>1, <4>1, LateSeconds
      <4>2. s - 28800 = LateSecond(c, r, x + 1)
        BY <4>1, <4>3 DEF IsLate
      <4> QED
        BY <4>1, <4>2
    <3>8. LateTurn(c, r, 366, time', count', elapsed', dt'.sec)
      BY <2>2, <3>1, <3>5, <3>7 DEF LateTurn
    <3>9. 366 \in 366..1097
      OBVIOUS
    <3> QED
      BY <1>8, <1>10, <3>6, <3>8, <3>9 DEF Days
  <2> QED
    BY <2>6, <2>7
<1>21. CASE \E k \in 366..1097 : LateTurn(c, r, k, time, count, elapsed, s)
  <2>1. PICK k \in 366..1097 : LateTurn(c, r, k, time, count, elapsed, s)
    BY <1>21
  <2>2. /\ elapsed = k * 28800 /\ count = 365 /\ Holds(c, r, 365, time)
        /\ SlotOf(c, F - 365) = SlotOf(c, F) /\ s = LateSecond(c, r, k)
    BY <2>1 DEF LateTurn
  <2>3. elapsed' = (k + 1) * 28800
    BY <1>8, <1>13, <2>2
  <2>4. DaysDone(c, r, time)
    <3> DEFINE x == 365
    <3>1. x \in {365, 366} /\ Holds(c, r, x, time)
          /\ (x = 365 <=> SlotOf(c, First(c, r) - 365) = SlotOf(c, First(c, r)))
      BY <2>2
    <3> HIDE DEF x, c, r
    <3> QED
      BY <1>1, <3>1, DaysAreDone
  <2>5. CASE IsFree(i)
    <3>1. i = 365
      <4>1. time[i] = TIME_INVALID
        BY <1>9, <2>5, SMTT(60)
      <4>2. i \notin 0..364
        BY <2>4, <4>1 DEF DaysDone, IsStamped
      <4>3. i \in 0..365
        BY <1>5
      <4> HIDE DEF i
      <4> QED
        BY <4>2, <4>3
    <3>2. time' = Stamped(time, 365, u) /\ count' = 366
      BY <1>8, <2>2, <2>5, <3>1
    <3>3. pc' = "done" /\ result' = 1
      <4>1. ~(count' < 366) /\ count' >= 365
        BY <3>2
      <4> QED
        BY <1>8, <4>1
    <3>4. DaysDone(c, r, Stamped(time, 365, u))
      <4> DEFINE p == DayOf(s)
      <4>1. /\ p \in Int /\ PeriodOf(c, u + Offset) = p /\ p <= First(c, r)
            /\ First(c, r) < p + 1461
        <5>1. F < p + 1461
          <6> HIDE DEF F, p
          <6>1. p \in Int /\ p >= F - 610
            BY <1>4 DEF p
          <6> QED
            BY <1>1, <6>1
        <5> QED
          BY <1>4, <1>7, <5>1
      <4> HIDE DEF c, r, u, p
      <4> QED
        BY <1>1, <1>6, <2>4, <4>1, LastDayStamped
    <3> QED
      BY <1>8, <1>10, <3>2, <3>3, <3>4 DEF Days
  <2>6. CASE ~IsFree(i)
    <3>1. time' = time /\ count' = 365 /\ dt'.sec = s - 28800
      BY <1>8, <2>2, <2>6, SMTT(60)
    <3>2. CASE elapsed' < lim
      <4>1. pc' = "fill"
        <5>1. count' < 366
          BY <3>1
        <5> QED
          BY <1>1, <1>8, <3>2, <5>1
      <4>2. k + 1 \in 366..1097
        BY <1>12, <2>3, <3>2
      <4>3. s - 28800 = LateSecond(c, r, k + 1)
        <5>1. k \in 365..1097 /\ s = LateSecond(c, r, k)
          BY <2>2
        <5> HIDE DEF c, r, s
        <5>2. IsLate(c, r, k)
          BY <1>1, <5>1, LateSeconds
        <5> QED
          BY <5>1, <5>2 DEF IsLate
      <4>4. LateTurn(c, r, k + 1, time', count', elapsed', dt'.sec)
        BY <2>2, <2>3, <3>1, <4>3 DEF LateTurn
      <4> QED
        BY <1>8, <1>10, <4>1, <4>2, <4>4 DEF Days
    <3>3. CASE ~(elapsed' < lim)
      <4>1. pc' = "done" /\ result' = 1
        <5>1. count' >= 365
          BY <3>1
        <5> QED
          BY <1>8, <3>3, <5>1
      <4> QED
        BY <1>8, <1>10, <2>4, <3>1, <4>1 DEF Days
    <3> QED
      BY <3>2, <3>3
  <2> QED
    BY <2>5, <2>6
<1> QED
  BY <1>2, <1>20, <1>21

\* No day is stamped yet.
LEMMA InitDays ==
  ASSUME Init
  PROVE  DaysInv
<1> DEFINE s == dt.sec
<1>1. /\ cfg \in Configs /\ ref \in Refs /\ pc = "back" /\ count = 0 /\ elapsed = 0
      /\ time = [i \in 0 .. cfg.depth - 1 |-> TIME_INVALID] /\ dt = Given(cfg, ref)
  BY DEF Init
<1>2. s = IF cfg.type \in {"m", "d"} THEN DayOf(ref) * 86400 ELSE ref
  BY <1>1 DEF Given, FromDevice
<1>3. ref \in Int
  BY <1>1, SeqAssumption
<1> HIDE DEF s
<1>4. ASSUME cfg.type = "d"
      PROVE  Days(cfg, ref, time, pc, count, elapsed, s, result)
  <2>1. cfg.depth = 366
    BY <1>1, <1>4, DayParts
  <2>2. 0 .. cfg.depth - 1 = 0..365
    BY <2>1
  <2>3. time \in [0..365 -> Int] /\ \A i \in 0 .. cfg.depth - 1 : time[i] = TIME_INVALID
    BY <1>1, <2>2 DEF TIME_INVALID
  <2>4. Holds(cfg, ref, 0, time)
    BY <2>3 DEF Holds
  <2>5. PeriodOf(cfg, s) = PeriodOf(cfg, ref)
    <3>1. s = DayOf(ref) * 86400
      BY <1>2, <1>4
    <3>2. DayOf(s) = DayOf(ref)
      BY <1>3, <3>1, StartOfDay
    <3> QED
      BY <1>4, <3>2 DEF PeriodOf
  <2> QED
    BY <1>1, <2>3, <2>4, <2>5 DEF Days
<1> QED
  BY <1>1, <1>4 DEF DaysInv, s

\* The days are stamped turn by turn.
LEMMA DaysStep ==
  ASSUME Summers = {}, InCentury, ZoneInDay, StampInv, DaysInv, [Next]_vars
  PROVE  DaysInv'
<1> DEFINE s == dt.sec
<1>1. /\ cfg \in Configs /\ ref \in Refs /\ s \in Int /\ dt = Plain(s)
      /\ utc \in Int /\ Offset \in Int /\ ref \in Int
      /\ time_utc_from_local(dt) = s - Offset
  BY Shift, SeqAssumption DEF StampInv, DaysInv
<1>2. Step = StepOf(cfg) /\ StepOf(cfg) \in Nat \ {0}
  BY <1>1, OfArchive, ArchiveSizes
<1>3. CASE WalkBack
  <2>1. /\ pc = "back" /\ cfg.type # "i" /\ utc' = (s - Offset) - StepOf(cfg)
        /\ dt' = time_local_from_utc(utc')
        /\ pc' = IF IsEarlier(dt'.sec) THEN "fill" ELSE "back"
        /\ cfg' = cfg /\ ref' = ref /\ time' = time /\ count' = count
        /\ elapsed' = elapsed /\ result' = result
    BY <1>1, <1>2, <1>3 DEF WalkBack
  <2> DEFINE t == s - StepOf(cfg)
  <2>2. dt'.sec = t /\ t \in Int
    <3> HIDE DEF s
    <3>1. utc' \in Int
      BY <1>1, <1>2, <2>1
    <3>2. dt' = Plain(utc' + Offset)
      BY <2>1, <3>1, Shift
    <3>3. dt'.sec = utc' + Offset
      BY <3>2, PlainTimes
    <3> QED
      BY <1>1, <1>2, <2>1, <3>3
  <2>3. IsEarlier(t) <=> PartOf(cfg, t) # PartOf(cfg, ref)
    BY <1>1, PartIs DEF IsEarlier
  <2> HIDE DEF t
  <2>4. ASSUME cfg.type = "d"
        PROVE  Days(cfg, ref, time, pc', count, elapsed, t, result)
    <3>1. /\ time \in [0..365 -> Int] /\ count = 0 /\ elapsed = 0
          /\ Holds(cfg, ref, 0, time) /\ PeriodOf(cfg, s) = PeriodOf(cfg, ref)
      BY <2>1, <2>4 DEF DaysInv, Days
    <3>2. /\ PartOf(cfg, t) = PartOf(cfg, ref) => PeriodOf(cfg, t) = PeriodOf(cfg, ref)
          /\ PartOf(cfg, t) # PartOf(cfg, ref) => PeriodOf(cfg, t) = PeriodOf(cfg, ref) - 1
      <4> DEFINE c == cfg
                 r == ref
      <4>1. /\ c \in Configs /\ c.type # "i" /\ r \in Int /\ s \in Int
            /\ PeriodOf(c, s) = PeriodOf(c, r) /\ t = s - StepOf(c)
        BY <1>1, <2>1, <3>1 DEF t
      <4> HIDE DEF c, r, s
      <4>2. /\ PartOf(c, t) = PartOf(c, r) => PeriodOf(c, t) = PeriodOf(c, r)
            /\ PartOf(c, t) # PartOf(c, r) => PeriodOf(c, t) = PeriodOf(c, r) - 1
        BY <4>1, StepBack
      <4> QED
        BY <4>2 DEF c, r
    <3>3. CASE IsEarlier(t)
      <4>1. PeriodOf(cfg, t) = First(cfg, ref) - 0 /\ pc' = "fill"
        <5>1. First(cfg, ref) = PeriodOf(cfg, ref) - 1
          BY <2>1 DEF First
        <5>2. First(cfg, ref) \in Int
          BY <1>1, FirstIsNumber
        <5>3. First(cfg, ref) - 0 = First(cfg, ref)
          BY <5>2
        <5> QED
          BY <2>1, <2>2, <2>3, <3>2, <3>3, <5>1, <5>3
      <4>2. 0 * 28800 = 0 /\ 0 \in 0..365
        OBVIOUS
      <4>3. DayTurn(cfg, ref, 0, time, count, elapsed, t)
        BY <3>1, <4>1, <4>2 DEF DayTurn
      <4> QED
        BY <3>1, <4>1, <4>2, <4>3 DEF Days
    <3>4. CASE ~IsEarlier(t)
      <4>1. PeriodOf(cfg, t) = PeriodOf(cfg, ref) /\ pc' = "back"
        BY <2>1, <2>2, <2>3, <3>2, <3>4
      <4> QED
        BY <3>1, <4>1 DEF Days
    <3> QED
      BY <3>3, <3>4
  <2> QED
    BY <1>1, <2>1, <2>2, <2>4 DEF DaysInv
<1>4. CASE StartInterval
  <2>1. cfg' = cfg /\ ref' = ref /\ cfg.type # "d"
    BY <1>4 DEF StartInterval
  <2> QED
    BY <1>1, <2>1 DEF DaysInv
<1>5. CASE FillOne
  <2>1. cfg' = cfg /\ ref' = ref
    BY <1>5 DEF FillOne
  <2>2. cfg.type = "d" =>
          Days(cfg', ref', time', pc', count', elapsed', dt'.sec, result')
    BY <1>5, DaysFill
  <2> QED
    BY <1>1, <2>1, <2>2 DEF DaysInv
<1>6. CASE Trap
  <2>1. /\ pc' = "trapped" /\ cfg' = cfg /\ ref' = ref /\ time' = time
    BY <1>6 DEF Trap
  <2>2. cfg.type = "d" => time \in [0..365 -> Int]
    BY DEF DaysInv, Days
  <2> QED
    BY <1>1, <2>1, <2>2 DEF DaysInv, Days
<1>7. CASE Done \/ UNCHANGED vars
  <2>1. /\ cfg' = cfg /\ ref' = ref /\ time' = time /\ pc' = pc /\ count' = count
        /\ elapsed' = elapsed /\ dt' = dt /\ result' = result
    BY <1>7 DEF Done, vars
  <2> QED
    BY <2>1 DEF DaysInv
<1> QED
  BY <1>3, <1>4, <1>5, <1>6, <1>7 DEF Next

-----------------------------------------------------------------------------
(* The sequence is complete, and up to date                                *)

\* A finished sequence.
LEMMA Finished ==
  ASSUME StampInv, RingInv, DaysInv, pc = "done"
  PROVE  /\ cfg \in Configs /\ ref \in Refs /\ result = 1
         /\ cfg.type # "d" => /\ cfg.type \in RingTypes /\ DOMAIN time = 0 .. cfg.depth - 1
                              /\ Holds(cfg, ref, cfg.depth, time)
         /\ cfg.type = "d" => DOMAIN time = 0..365 /\ DaysDone(cfg, ref, time)
<1>1. cfg \in Configs /\ ref \in Refs
  BY DEF StampInv, RingInv
<1>2. cfg.type \in RingTypes \/ cfg.type = "d"
  BY <1>1, ArchiveSizes DEF Types, RingTypes
<1>3. cfg.type \in RingTypes => /\ result = 1 /\ DOMAIN time = 0 .. cfg.depth - 1
                                /\ Holds(cfg, ref, cfg.depth, time)
  BY DEF RingInv, Ring
<1>4. cfg.type = "d" => result = 1 /\ DOMAIN time = 0..365 /\ DaysDone(cfg, ref, time)
  BY DEF DaysInv, Days
<1> QED
  BY <1>1, <1>2, <1>3, <1>4

\* The stamps a finished sequence is not missing.
LEMMA AllStamped ==
  ASSUME StampInv, RingInv, DaysInv
  PROVE  SeqIsComplete
<1> SUFFICES ASSUME pc = "done"
             PROVE  /\ result = 1
                    /\ DOMAIN time \ Filled \subseteq (IF cfg.type = "d" THEN {365} ELSE {})
  BY DEF SeqIsComplete
<1>1. CASE cfg.type = "d"
  <2>1. result = 1 /\ DOMAIN time = 0..365 /\ DaysDone(cfg, ref, time)
    BY <1>1, Finished
  <2>2. ASSUME NEW i \in 0..365, i # 365
        PROVE  time[i] # TIME_INVALID
    <3>1. i \in 0..364
      BY <2>2
    <3>2. IsStamped(time, i)
      BY <2>1, <3>1 DEF DaysDone
    <3> QED
      BY <3>2 DEF IsStamped
  <2> QED
    BY <1>1, <2>1, <2>2 DEF Filled
<1>2. CASE cfg.type # "d"
  <2>1. /\ result = 1 /\ DOMAIN time = 0 .. cfg.depth - 1 /\ cfg \in Configs /\ ref \in Refs
        /\ cfg.type \in RingTypes /\ Holds(cfg, ref, cfg.depth, time)
    BY <1>2, Finished
  <2>2. ASSUME NEW i \in 0 .. cfg.depth - 1
        PROVE  time[i] # TIME_INVALID
    BY <2>1, HoldsAll
  <2> QED
    BY <2>1, <2>2 DEF Filled
<1> QED
  BY <1>1, <1>2

\* Every sequence that the utility makes on a device whose clock shows one of
\* the years from 2004 to 2099 has a stamp for each slot of the archive, but for
\* that of 31 December of a leap year: neither does the first loop miss the
\* period before the device's, nor does the second give up by its time limit
\* before the last slot, nor meet a slot again while another one is free.
THEOREM SequencesAreComplete ==
  ASSUME Summers = {}, WholeRings, InCentury, ZoneInDay
  PROVE  Spec => []SeqIsComplete
<1> DEFINE Inv == StampInv /\ RingInv /\ DaysInv
<1>1. Init => Inv
  BY InitStamps, InitRing, InitDays
<1>2. Inv /\ [Next]_vars => Inv'
  <2> SUFFICES ASSUME Inv, [Next]_vars
               PROVE  Inv'
    OBVIOUS
  <2>1. StampInv'
    BY StampStep
  <2>2. RingInv'
    BY RingStep
  <2>3. DaysInv'
    BY DaysStep
  <2> QED
    BY <2>1, <2>2, <2>3
<1>3. Inv => SeqIsComplete
  BY AllStamped
<1> QED
  BY <1>1, <1>2, <1>3, PTL DEF Spec

\* A zone that is a whole number of every archive's intervals ahead.
WholeZone == \A c \in Configs : c.type = "i" => Offset % (c.interval * 60) = 0

\* The ring starts with its newest period.
LEMMA NewestIsFirst ==
  ASSUME WholeZone, cfg \in Configs, ref \in Refs
  PROVE  Newest = First(cfg, ref)
<1> DEFINE m == StepOf(cfg)
           a == ref - Offset
           z == Offset \div m
<1>1. /\ m \in Nat \ {0} /\ ref \in Int /\ Offset \in Int
      /\ Period(ref) = PeriodOf(cfg, ref)
  BY SeqAssumption, ArchiveSizes, OfArchive
<1>2. CASE cfg.type = "i"
  <2>1. /\ PeriodOf(cfg, ref) = ref \div m /\ Offset % m = 0
        /\ First(cfg, ref) = (a \div m + 1) + z
    BY <1>2 DEF WholeZone, StepOf, PeriodOf, First
  <2> HIDE DEF m
  <2>2. z \in Int /\ Offset = z * m
    BY <1>1, <2>1, DivMod
  <2>3. a \in Int
    BY <1>1
  <2>4. (a + z * m) \div m = a \div m + z
    <3> HIDE DEF a, z
    <3> QED
      BY <1>1, <2>2, <2>3, QuotientShift
  <2>5. a + z * m = ref
    <3> HIDE DEF z
    <3> QED
      BY <1>1, <2>2
  <2>6. a \div m \in Int
    <3> HIDE DEF a
    <3> QED
      BY <1>1, <2>3, DivMod
  <2>7. Newest = PeriodOf(cfg, ref) + 1
    BY <1>1, <1>2 DEF Newest
  <2> DEFINE x == a \div m
  <2>8. ref \div m = x + z
    BY <2>4, <2>5
  <2>9. x \in Int
    BY <2>6
  <2>10. Newest = (x + z) + 1 /\ First(cfg, ref) = (x + 1) + z
    BY <2>1, <2>7, <2>8
  <2> HIDE DEF x, z
  <2> QED
    BY <2>2, <2>9, <2>10
<1>3. CASE cfg.type # "i"
  BY <1>1, <1>3 DEF Newest, First
<1> QED
  BY <1>2, <1>3, SMTT(60)

\* The slot of the newest day.
LEMMA NewestDay ==
  ASSUME InCentury, NEW c \in Configs, c.type = "d", NEW r \in Refs
  PROVE  day_index(Date(First(c, r) * 86400)) = SlotOf(c, First(c, r))
<1> DEFINE F == First(c, r)
           s == F * 86400
<1>1. F \in Int
  BY FirstIsNumber
<1>2. s \in Int /\ DayOf(s) = F /\ F >= F - 610
  <2> HIDE DEF F
  <2> QED
    BY <1>1 DEF DayOf
<1>3. DayOf(s) <= First(c, r) /\ DayOf(s) >= First(c, r) - 610
  BY <1>1, <1>2
<1> HIDE DEF s
<1>4. IndexOf(c, s) = SlotOf(c, DayOf(s))
  BY <1>2, <1>3, DayIsLive
<1>5. IndexOf(c, s) = day_index(Date(s))
  BY DEF IndexOf
<1> QED
  BY <1>2, <1>4, <1>5 DEF s

\* No stamp of a finished sequence is of a period to come, or of one whose slot
\* was used again.
LEMMA AllLatest ==
  ASSUME Summers = {}, WholeZone, InCentury, StampInv, RingInv, DaysInv
  PROVE  StampIsLatest
<1> SUFFICES ASSUME pc = "done", NEW i \in Filled
             PROVE  Period(Local(i)) <= Newest /\ Newest < NextUse(Period(Local(i)), i)
  BY DEF StampIsLatest
<1> DEFINE F == First(cfg, ref)
           p == PeriodOf(cfg, time[i] + Offset)
<1>1. cfg \in Configs /\ ref \in Refs /\ F \in Int /\ Newest = F
  BY Finished, FirstIsNumber, NewestIsFirst
<1>2. i \in DOMAIN time /\ time[i] # TIME_INVALID /\ time[i] \in Int /\ Offset \in Int
  BY Shift DEF Filled, StampInv
<1>3. Period(Local(i)) = p /\ p \in Int
  <2>1. time_local_from_utc(time[i]) = Plain(time[i] + Offset)
    BY <1>2, Shift
  <2>2. Local(i) = time[i] + Offset /\ time[i] + Offset \in Int
    BY <1>2, <2>1, PlainTimes DEF Local
  <2> QED
    BY <1>1, <2>2, OfArchive, BeforeStart
<1>4. CASE cfg.type # "d"
  <2>1. /\ cfg.type \in RingTypes /\ i \in 0 .. cfg.depth - 1
        /\ Holds(cfg, ref, cfg.depth, time)
    BY <1>2, <1>4, Finished
  <2>2. p <= F /\ F < p + cfg.depth
    BY <1>1, <2>1, HoldsAll
  <2>3. NextUse(p, i) = p + cfg.depth
    BY <1>4 DEF NextUse
  <2> QED
    BY <1>1, <1>3, <2>2, <2>3
<1>5. CASE cfg.type = "d"
  <2>1. i \in 0..365 /\ DaysDone(cfg, ref, time)
    BY <1>2, <1>5, Finished, SMTT(60)
  <2>2. DayLatest(cfg, ref, i, p)
    BY <1>2, <2>1 DEF DaysDone, IsLatest
  <2>3. p <= F
    BY <2>2 DEF DayLatest
  <2>4. F < NextUse(p, i)
    <3> DEFINE at == day_index(Date((p + 365) * 86400))
    <3>1. i = 365 => NextUse(p, i) = p + 1461 /\ F < p + 1461
      BY <1>5, <2>2 DEF NextUse, DayLatest
    <3>2. i # 365 => /\ NextUse(p, i) = IF at = i THEN p + 365 ELSE p + 366
                     /\ F < p + 365 \/ (F = p + 365 /\ SlotOf(cfg, F) # i)
      BY <1>5, <2>2 DEF NextUse, DayLatest
    <3>3. F = p + 365 => at = SlotOf(cfg, F)
      <4>1. day_index(Date(F * 86400)) = SlotOf(cfg, F)
        BY <1>1, <1>5, NewestDay
      <4> QED
        BY <4>1
    <3> HIDE DEF F, p, at
    <3> QED
      BY <1>1, <1>3, <3>1, <3>2, <3>3
  <2> QED
    BY <1>1, <1>3, <2>3, <2>4
<1> QED
  BY <1>4, <1>5

\* And every slot shows its latest period: no matter where in a month, a day or
\* an hour the device's clock is, the first stamp is of the last period that is
\* over, and every further one of the period before, so that none is skipped
\* and none stamped a round too early.
THEOREM SequencesAreLatest ==
  ASSUME Summers = {}, WholeRings, InCentury, ZoneInDay, WholeZone
  PROVE  Spec => []StampIsLatest
<1> DEFINE Inv == StampInv /\ RingInv /\ DaysInv
<1>1. Init => Inv
  BY InitStamps, InitRing, InitDays
<1>2. Inv /\ [Next]_vars => Inv'
  <2> SUFFICES ASSUME Inv, [Next]_vars
               PROVE  Inv'
    OBVIOUS
  <2>1. StampInv'
    BY StampStep
  <2>2. RingInv'
    BY RingStep
  <2>3. DaysInv'
    BY DaysStep
  <2> QED
    BY <2>1, <2>2, <2>3
<1>3. Inv => StampIsLatest
  BY AllLatest
<1> QED
  BY <1>1, <1>2, <1>3, PTL DEF Spec
=============================================================================
