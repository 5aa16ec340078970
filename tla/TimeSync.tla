------------------------------ MODULE TimeSync ------------------------------
(***************************************************************************)
(* tekon_sync (utils/sync/main.c, utils/sync/check.c): read the device's   *)
(* clock, check the new time against it, raise the access level, write the *)
(* date and then the time, and give the level back.                        *)
(*                                                                         *)
(* The device is external.  Its clock runs all the while; date and time    *)
(* are two registers that are written one by one, at the level ADMIN only, *)
(* and the device may lower the level by itself.  It shows local time; the *)
(* new time is given in UTC.  Times are in seconds, local ones as if they  *)
(* were UTC.                                                               *)
(***************************************************************************)
EXTENDS Exchange, LocalTime

CONSTANTS
  Diff,       \* self->diff of the difference check, in seconds
  Minutes,    \* self->minutes of the minutes check
  CheckSets,  \* the sets of checks the command line may ask for
  News,       \* the times it may ask to set, UTC
  Clocks,     \* what the device's clock may show when the program starts
  MaxTicks,   \* how far the clock runs while it is observed
  Styles,     \* how the device confirms: "ack" without a number, "level" with
  Keys        \* whether the password is right

Abs(n) == IF n < 0 THEN -n ELSE n

DayLen == 86400
Interval == 300         \* the archive of 5 minutes that check_indexes takes
Year2000 == 946684800   \* the device knows no time before; no division is negative

ASSUME SyncAssumption ==
  /\ Diff \in Nat \ {0} /\ Minutes \in Nat \ {0}
  /\ CheckSets \subseteq SUBSET {"difference", "minutes", "indexes"}
  /\ \A t \in News \cup Clocks : t \in Nat /\ t > Year2000 + DayLen
  /\ Offset \in Int /\ Abs(Offset) <= DayLen
  /\ MaxTicks \in Nat
  /\ Styles \subseteq {"ack", "level"} /\ Styles # {}
  /\ Keys \subseteq BOOLEAN

VARIABLES
  pc,       \* "connect", "send", "wait", "down", "done"
  stage,    \* the request sync_time is at
  checks,   \* app->checks.avail
  new,      \* app->newtime, UTC, taken when the program starts
  devtime,  \* what read_time returned
  wrote,    \* what write_time returned
  result,   \* what sync_time returned
  clock,    \* the device's clock
  priv,     \* the device's access level
  key,      \* whether the password is the device's
  start,    \* history: the clock when the program started
  age,      \* history: how long ago that was
  seen      \* history: which of Events happened

client == <<pc, stage, checks, new, devtime, wrote, result>>
device == <<clock, priv, key, start, age, seen>>
vars == <<netvars, client, device>>

USER == 1     \* TEKON_PRIV_USER
ADMIN == 2    \* TEKON_PRIV_ADMIN
NoNumber == -1  \* an ACK or a NAK carries no number
NotRead == -1

Stages == {"read", "admin", "date", "time", "user"}

\* The device executed a write; its clock ran into a new day.
Events == {"date", "time", "midnight"}

Day(t) == t \div DayLen
TimeOfDay(t) == t % DayLen

-----------------------------------------------------------------------------
(* The checks                                                              *)

\* newtime of sync_time, and the second that write_time sets.
newtime == time_local_from_utc(new)
Local == newtime.sec

\* A mutant: the difference without llabs.
LateOnly(t, u) == t - u <= Diff
\* A mutant: minutes may differ by one.
NextMinute(t, u) == t \div (60 * Minutes) - u \div (60 * Minutes) \in {0, 1}
\* A mutant: only the index of the day is compared.
DayIndexes(t, u) == Day(t) = Day(u)

\* Difference and minutes are checked in UTC ...
CheckDiff(t, u) == Abs(t - u) <= Diff
CheckMinutes(t, u) == t \div (60 * Minutes) = u \div (60 * Minutes)

\* ... and the indexes in local time.  The interval's index; those of the month,
\* the day and the hour change with it.  Times so far apart that all four rings
\* came full circle are left out.
CheckIndexes(t, u) == t \div Interval = u \div Interval

\* checks_run: what it makes of newtime is app->newtime again, and of the device's
\* time the UTC it would be outside summer time.
ChecksPass(n, d) ==
  LET newt_utc == time_utc_from_local(n)
      dev_utc == time_utc_from_local(d)
  IN /\ "difference" \in checks => CheckDiff(newt_utc, dev_utc)
     /\ "minutes" \in checks => CheckMinutes(newt_utc, dev_utc)
     /\ "indexes" \in checks => CheckIndexes(n.sec, d.sec)

-----------------------------------------------------------------------------
(* The utility                                                             *)

Init ==
  /\ ExchangeInit
  /\ pc = "connect" /\ stage = "read"
  /\ checks \in CheckSets
  /\ new \in News
  /\ devtime = NotRead
  /\ wrote = 0 /\ result = 0
  /\ clock \in Clocks
  /\ priv = USER
  /\ key \in Keys
  /\ start = clock /\ age = 0 /\ seen = {}

Connect ==
  /\ pc = "connect"
  /\ pc' = "send"
  /\ UNCHANGED <<netvars, stage, checks, new, devtime, wrote, result, device>>

ConnectFails ==
  /\ pc = "connect"
  /\ pc' = "done"
  /\ UNCHANGED <<netvars, stage, checks, new, devtime, wrote, result, device>>

Send ==
  /\ pc = "send"
  /\ Request(stage)
  /\ pc' = "wait"
  /\ UNCHANGED <<stage, checks, new, devtime, wrote, result, device>>

\* process_request returned 0.  sync_time ignores what write_time returned and
\* goes on to give the rights back; any other failure ends the session.
Failed ==
  /\ IF stage \in {"date", "time"}
     THEN pc' = "send" /\ stage' = "user"
     ELSE pc' = "down" /\ stage' = stage
  /\ UNCHANGED <<checks, new, devtime, wrote, result, device>>

\* A mutant: the number is not compared.
AnyNumber(m) ==
  IF stage = "read" THEN m.body = "read"
  ELSE m.body # "read" /\ (m.num = NoNumber => m.data = 1)

\* process_request, and what read_time and login make of its reply: an ACK
\* answers any write and no read (its zero date is invalid), a NAK answers
\* nothing, a reply with a number answers the request of that number; the
\* access level in the reply to a login is not looked at.
Accepted(m) ==
  \/ m.num = NoNumber /\ m.data = 1 /\ stage # "read"
  \/ m.num = nout /\ (m.body = "read" <=> stage = "read")

SendFails == pc = "send" /\ RequestFails /\ Failed
ReceiveFails == pc = "wait" /\ TakeNothing /\ Failed
Refuse == pc = "wait" /\ TakeHead /\ ~Accepted(Head(rxq)) /\ Failed

\* read_time, then checks_run.
ReceiveClock ==
  /\ pc = "wait" /\ stage = "read"
  /\ TakeHead
  /\ Accepted(Head(rxq))
  /\ devtime' = Head(rxq).data
  /\ IF ChecksPass(newtime, FromDevice(devtime'))
     THEN pc' = "send" /\ stage' = "admin"
     ELSE pc' = "down" /\ stage' = stage
  /\ UNCHANGED <<checks, new, wrote, result, device>>

\* login, the two writes of write_time, and the second login.
ReceiveDone ==
  /\ pc = "wait" /\ stage # "read"
  /\ TakeHead
  /\ Accepted(Head(rxq))
  /\ stage' = CASE stage = "admin" -> "date"
                [] stage = "date" -> "time"
                [] OTHER -> "user"
  /\ pc' = IF stage = "user" THEN "down" ELSE "send"
  /\ wrote' = IF stage = "time" THEN 1 ELSE wrote
  /\ result' = IF stage = "user" THEN 1 ELSE result
  /\ UNCHANGED <<checks, new, devtime, device>>

LinkDown ==
  /\ pc = "down"
  /\ pc' = "done"
  /\ Close
  /\ UNCHANGED <<stage, checks, new, devtime, wrote, result, device>>

Utility ==
  \/ Connect \/ ConnectFails
  \/ Send \/ SendFails
  \/ ReceiveClock \/ ReceiveDone
  \/ Refuse \/ ReceiveFails
  \/ LinkDown

-----------------------------------------------------------------------------
(* The device and the network                                              *)

LinkIsUp == pc \in {"send", "wait"}

Reply(m, num, data) ==
  IF LinkIsUp THEN PutReply(m, ReplyTo(m, num, data)) ELSE PutNothing(m)

\* A confirmation has the request's number or none, as the device's style is.
Confirm(m) ==
  \E style \in Styles : Reply(m, IF style = "ack" THEN NoNumber ELSE m.num, 1)

Nak(m) == Reply(m, NoNumber, 0)

AnswerRead ==
  /\ \E m \in wire : m.body = "read" /\ Reply(m, m.num, clock)
  /\ UNCHANGED <<client, device>>

\* With a wrong password the level stays: a NAK says so, or the level replied.
AnswerLogin ==
  /\ \E m \in wire :
       \/ /\ m.body = "user"
          /\ Confirm(m)
          /\ priv' = USER
       \/ /\ m.body = "admin" /\ key
          /\ Confirm(m)
          /\ priv' = ADMIN
       \/ /\ m.body = "admin" /\ ~key
          /\ Nak(m) \/ ("level" \in Styles /\ Reply(m, m.num, 0))
          /\ priv' = priv
  /\ UNCHANGED <<client, clock, key, start, age, seen>>

\* The clock after a write to the register r of what new holds for it.
Written(r) ==
  IF r = "date" THEN Day(Local) * DayLen + TimeOfDay(clock)
  ELSE Day(clock) * DayLen + TimeOfDay(Local)

AnswerWrite ==
  /\ priv = ADMIN
  /\ \E m \in wire :
       /\ m.body \in {"date", "time"}
       /\ Confirm(m)
       /\ clock' = Written(m.body)
       /\ seen' = seen \cup {m.body}
  /\ UNCHANGED <<client, priv, key, start, age>>

RefuseWrite ==
  /\ priv # ADMIN
  /\ \E m \in wire : m.body \in {"date", "time"} /\ Nak(m)
  /\ UNCHANGED <<client, device>>

Arrive ==
  /\ LinkIsUp
  /\ Deliver
  /\ UNCHANGED <<client, device>>

\* "The device itself will drop the rights after a while."
RightsExpire ==
  /\ priv = ADMIN
  /\ priv' = USER
  /\ UNCHANGED <<netvars, client, clock, key, start, age, seen>>

Tick ==
  /\ age < MaxTicks
  /\ age' = age + 1
  /\ clock' = clock + 1
  /\ seen' = seen \cup (IF clock' % DayLen = 0 THEN {"midnight"} ELSE {})
  /\ UNCHANGED <<netvars, client, priv, key, start>>

Done == pc = "done" /\ UNCHANGED vars

Next ==
  \/ Utility
  \/ AnswerRead \/ AnswerLogin \/ AnswerWrite \/ RefuseWrite
  \/ Arrive \/ RightsExpire \/ Tick
  \/ Done

Spec == Init /\ [][Next]_vars

\* The utility runs until it ends: link_recv returns within SO_RCVTIMEO.
FairSpec == Spec /\ WF_vars(Utility)

-----------------------------------------------------------------------------
(* Properties                                                              *)

Requests == [ord : Nat, num : 0 .. SeqMod-1, body : Stages]
Replies == [ord : Nat, num : 0 .. SeqMod-1 \cup {NoNumber}, body : Stages, data : Nat]

\* Every variable has the type its declaration in the code and in the
\* network's model gives it.
TypeOK ==
  /\ nout \in 0 .. SeqMod-1
  /\ nreq \in Nat
  /\ wire \subseteq Requests
  /\ back \subseteq Replies
  /\ rxq \in Seq(Replies)
  /\ pc \in {"connect", "send", "wait", "down", "done"}
  /\ stage \in Stages
  /\ checks \subseteq {"difference", "minutes", "indexes"}
  /\ new \in News
  /\ devtime \in Nat \cup {NotRead}
  /\ wrote \in {0, 1} /\ result \in {0, 1}
  /\ clock \in Nat
  /\ priv \in {USER, ADMIN}
  /\ key \in BOOLEAN
  /\ start \in Nat /\ age \in Nat
  /\ seen \subseteq Events

\* With numbered confirmations the network may drop, delay, reorder and repeat
\* as it likes: the five requests of a session have five numbers.  Without
\* numbers it must neither repeat nor keep a message over the next request.
NetworkSuffices ==
  IF "ack" \in Styles THEN MaxAge = 0 /\ ~Repeats ELSE SeqMod >= 5

\* write_time returns 1 only if the device executed both of its writes: no
\* other confirmation, late or repeated, is taken for theirs.
WriteOkIsWritten ==
  NetworkSuffices /\ wrote = 1 => {"date", "time"} \subseteq seen

\* The checks that keep the new time on the device's day: the indexes in any
\* case; the minutes, whose blocks are cut in UTC, only if the blocks of the zone
\* fit the days, and outside summer time, which the device's UTC does not know.
KeepsDay ==
  \/ "indexes" \in checks
  \/ /\ "minutes" \in checks
     /\ DayLen % (60 * Minutes) = 0 /\ Offset % (60 * Minutes) = 0
     /\ ~Summer(new)

\* New time and clock are on one day, as it happens or because of the checks.
OneDay == KeepsDay \/ Day(Local) = Day(start)

\* Whatever gets lost, a session whose checks keep new time and device time on
\* one day leaves the clock either alone or set, never half set, unless the
\* clock itself ran over midnight meanwhile: the date write alone is harmless
\* (check_minutes, check_indexes, write_time).
ClockIsWhole ==
  OneDay /\ "midnight" \notin seen =>
    IF "time" \in seen THEN clock \in Local .. Local + age ELSE clock = start + age

\* Then the difference check bounds the step the clock makes, up to the time
\* that went by since the program started, and up to the hour that checks_run
\* does not see in summer.
StepIsBounded ==
  "difference" \in checks /\ OneDay /\ "midnight" \notin seen =>
    Abs(clock - (start + age)) <= Diff + age + (IF Summer(new) THEN 3600 ELSE 0)

\* With the indexes check a write, however late or often it comes, takes the
\* clock into another period only if the clock has left the one it was read in
\* (check_indexes, whose reading is two requests old when the date is written).
MovesToPeriod == age' = age /\ clock' \div Interval # clock \div Interval
IndexesMoveAlone ==
  [][ "indexes" \in checks /\ MovesToPeriod
        => clock \div Interval # devtime \div Interval ]_vars

\* Exit code 0 means that the device is back at the user's level: a login that
\* was answered was executed, and the login that raised the level comes back
\* only in a network that keeps a message over two later requests (sync_time).
RightsReturned ==
  MaxAge <= 1 /\ pc = "done" /\ result = 1 => priv = USER

\* However the network behaves, the utility comes to its end.
Terminates == <>(pc = "done")

(* What comments and the usage say of the program, and it does not do      *)

\* "Returns 0 in case of an error" (sync_time): exit code 0 means that the
\* date and the time were written.
ExitOkIsWritten ==
  pc = "done" /\ result = 1 => {"date", "time"} \subseteq seen

\* "difference:N - ensures that new time differs from device time not more than
\* N seconds" (usage): setting the clock moves it by no more than that, up to the
\* time that went by.
DifferenceIsKept ==
  "difference" \in checks /\ {"date", "time"} \subseteq seen =>
    Abs(clock - (start + age)) <= Diff + age
=============================================================================
