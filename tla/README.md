# Verification of tekon-utils

TLA+ models of the command line utilities that talk to Tekon heat meters
through a gateway, TLC configurations that check them on small instances, and
theorems about them whose proofs TLAPS checks. `tlc -config X.cfg M` runs one
of the configurations listed below; `tlapm M_proofs.tla` checks the proofs.
Line numbers refer to the sources under `src/`.

## The system

Three programs send requests to a device and wait for the reply to each before
they send the next one. Nothing is stored between two runs of a program, and
each is one thread: what runs concurrently is the *device* - its clock goes on,
its archives move on, its access level expires - and the *network*, over which
UDP datagrams get lost, delayed, reordered and repeated.

| Part | Source | State | Operations |
|---|---|---|---|
| Exchange | `process_request` in the three `main.c`, `utils/base/linux/link.c` | request number modulo 16 (`nout`), socket and its receive queue, timeout | pack, send, receive one datagram, unpack, compare numbers |
| Archive utility | `utils/arch/main.c`, `arch.c` | table of records (index, quality, value, timestamp), clock readings before and after | connect, read clock, read chunks of 40 records, read clock, turn indexes into timestamps, print |
| Synchronisation utility | `utils/sync/main.c`, `check.c` | time to set, set of checks | read clock, check, login as admin, write date, write time, login as user |
| Measurement utility | `utils/msr/main.c`, `msr.c` | table of measurements (address, quality, value, host's time) | connect, read chunks of 40, print |
| Archive indexes | `tekon/time.c` | none | index of a month, day, hour, interval; BCD conversion |
| Timestamp sequences | `utils/base/tstamp.c`, `linux/time.c` | sequence of timestamps by index | walk back from the device's time, stamp every new index |
| Codec | `tekon/message.c`, `pack.c`, `unpack.c`, `proto.c` | none | build, pack, validate and unpack the messages 0x11, 0x14, 0x19, 0x1C |
| Command line | `read_args` of the three `main.c`, `utils/base/types.c`, `string.c`, `checks_from_string` | the options taken so far | parse addresses, intervals, checks; test that they make a session |
| The rest | `log.c`, `win/`, `test/` | | output, the Windows port of link and time, test programs |

How they interact: `read_args` fills the table and the addresses; a utility
calls `process_request`, which calls the codec and the link; the archive utility
hands its clock readings to `archive_index_to_utc`, which compares their archive
indexes and takes timestamps from a sequence; the synchronisation utility hands
device time and new time to `checks_run`, which uses the same indexes.

What is hard, and what makes the parts correct:

* **Exchange.** A reply is recognised by a number of four bits and a count. A
  late reply must not pass for the answer to another request; a lost one must
  not hang the program.
* **Archive utility.** The ring is overwritten while it is read, and reading
  may break off anywhere. A value must come from the slot it is printed for, a
  timestamp must be the one of the value beside it, and success must mean that
  everything was read.
* **Synchronisation utility.** Date and time are written one after the other,
  checked against a clock read before, at a level that must be given back. The
  clock must not be left half set or moved further than the checks allow.
* **Measurement utility.** Rows get the host's time, not the device's, and rows
  of several gateways may share one table. The time beside a value must not lie
  before it, and the exit code must tell whether every row was answered.
* **Indexes and sequences.** Calendar arithmetic around leap days, turns of
  years and summer time. Indexes must form rings, a stamp must be the start of
  the latest period of its slot, and no slot may be missed.
* **Codec and command line.** Numbers go through fields of limited length,
  through 16 and 8 bits and through bytes. The device must be asked for what
  was written; a damaged reply must not show as a value; an accepted command
  line must lead to requests that can be made.

## Modules

```
Exchange --+-- ArchRead -- MC_ArchRead        Options, Codec -- Query -- MC_Query
           +-- MsrRead --- MC_MsrRead
           `-- TimeSync -- MC_TimeSync        TekonTime --+-- DeviceClock --- MC_DeviceClock
LocalTime --+-- TimeSync                                  `-- TimestampSeq -- MC_TimestampSeq
            `-- TimestampSeq
TableReader   implemented by ArchRead and MsrRead

Remainders --+-- Exchange_proofs --+-- ArchRead_proofs
             |                     +-- MsrRead_proofs
             |                     `-- TimeSync_proofs
             +-- DeviceClock_proofs
             +-- TimestampSeq_proofs
             `-- Query_proofs
```

**Exchange** is `process_request` over a link, with the network on the other
side. `Request` and `RequestFails` are the part up to `link_send`; `TakeHead`
and `TakeNothing` are `link_recv`, the second one also for the timeout and for a
datagram that `validate` refuses. `wire` and `back` are sets of messages on
their way, `rxq` the socket's queue. Loss needs no action, since a message may
lie where it is for ever; with `Repeats` a message may be taken again and again.
`MaxAge` is the number of later requests after which the network has dropped a
message; the queue in the socket forgets nothing. `ord` and `nreq`, the ordinal
of a request, are history: the properties use them, no guard does. The link's
TCP mode is the special case of a network that does nothing of this.

**ArchRead** is `tekon_arch` from `link_up` to the end of
`archive_index_to_utc`. `pc` is where the program is, `phase` what it reads;
`Send` and the `Receive` actions are one turn of `read_time` or `read_chunk`
each, with the loop of `read_archive` in `ReceiveChunk`; `Abort` is the common
end of every failed request. The device is external: its clock counts periods,
`Held(s, t)` is the period whose value slot `s` holds in period `t`, and `Tick`
opens the next period over the oldest slot. A reply is a reply of the moment it
is sent. A clock reading unpacked from the reply to a chunk is any period of the
run, because the bytes are anything.

**MsrRead** is `tekon_msr` from `link_up` to the exit: `Connect` and
`ConnectFails` both mark every row with `apply_noconn`, `ReceiveChunk` is
`read_multiple` with the loop of `read_data`, `Abort` what a failed request
does to the rows of its chunk. `Body` says what the code asks: the whole chunk
through the gateway of its first row. `time` is one clock for host and device;
a value carries the moment at which the device took it.

**TableReader** is what both promise, without requests, replies and numbers: a
table that is filled from its start, a chunk at a time and each chunk at one
moment of the run, and a verdict that says "complete" only of a full table. It
is implemented under the mapping `Reader` at the end of ArchRead and of
MsrRead: a row shows what it holds once it was answered and `Nothing` before,
`count` is the loop's position, `verdict` is the result once the program ended.
`ReadsTable` states it. For the archive, the clock readings before and after
are stutters.

**TimeSync** is `sync_time` with everything it calls. `stage` is the request it
is at. `Failed` is what a failed request leads to: the end, or, for the two
writes, the last login, because `sync_time` ignores the result of `write_time`.
`Accepted` is the test of `process_request` with the tests `read_time` and
`login` add to it. The device is external: date and time are two registers,
written at the level ADMIN only, confirmed with an ACK, which has no number, or
with a reply that has one (`Styles`); a wrong password leaves the level alone.
`newtime` and `FromDevice(devtime)` are the two `struct tm` that `checks_run`
gets. Difference and minutes are compared after `mktime`, in UTC, the indexes in
local time, so that the first two miss the hour of summer time, and the blocks
of the minutes check are those of UTC (`sync_summer_hour`, `KeepsDay`).
`Local` is the second that `write_time` sets.

**LocalTime** is `utils/base/linux/time.c`: `time_local_from_utc` and
`time_utc_from_local` do what `localtime_r` and `mktime` do in a zone with a
constant offset and given summers, `tm_isdst` included. It is shared by TimeSync
and TimestampSeq, whose errors in summer have one origin: a `struct tm` filled
from the device's date and time has the `tm_isdst` 0 of `memset`.

**Options** has the parsers. A text is the sequence of its fields, the parts
between separators; a field has a number, the length it is written with, and
says whether it is hexadecimal or a letter. `ReadField` is the loop of a parser
over one field: it stops at the field's limit, drops one character as if it
were the separator and reads on, which is what the code does with a field that
is too long. The parsers of `types.c` and `checks_from_string` are built from
it, with the conversions of `atol`, `strtol` and the widths of the fields they
are stored in.

**Codec** has the messages as sequences of bytes: what `tekon_req_*` and
`pack.c` make of a request, what `validate` of `unpack.c` tests, and what
`tekon_resp_unpack` takes from a reply, its return value and whether the message
was filled in. BCD dates and times are converted digit by digit.

**Query** composes the two into the life of one request. The actions `OptionT`,
`OptionA`, `OptionArchive`, `OptionParameters`, `OptionPassword`, `OptionD`,
`OptionI` and `OptionC` are the branches of the three `read_args`, in any order
and any number, each with its refusals; `EndOfArgs` is what is tested behind the
loop. `Ask` builds and packs any request of the session; `Answer` is the
external device, which decodes it (`Heard`) and replies with what its memory
holds; `ArriveWhole`, `ArriveChanged`, `ArriveShort` and `ArriveLong` are the
datagram as it comes in; `Receive` is `process_request` behind `link_recv`, and
`ReceiveUnfilled` the same where `tekon_resp_*` refused and the message is what
the stack held. `said`, `heard`, `sent` and `harm` are history. A fourth tool,
"lib", calls the requests 0x11 and 0x19 that none of the utilities uses.

**TekonTime** has the index functions of `tekon/time.c`, digit by digit, for
dates and times of the real calendar. **DeviceClock** walks through that
calendar day by day and states what the indexes have to do on the way.

**TimestampSeq** is the loop of each `timestamp_seq_*` function, one action per
turn, in seconds, with the indexes of TekonTime and the conversions of
LocalTime: the four functions differ in the `tm_isdst` they give to `mktime`.

ArchRead and TimestampSeq meet in one formula. ArchRead converts the index of a
slot with `Held`; the invariant `StampIsLatest` of TimestampSeq says that the
sequences of the code compute this: the latest period of the slot that is
already archived. Query meets the three sessions in the same way: they take for
granted that a request asks for what its body says and that a reply says what
the device held, and Query shows that texts, tables and bytes carry this.

## Runs

Passing runs:

| Run | Shows | Bounds |
|---|---|---|
| `arch_ring` | records hold what their own slots held, form a prefix and are final; a timestamp is the period of the value beside it; success is complete; the session implements TableReader; the program ends | 4 records in 2 chunks of a ring of 5, 3 numbers, messages live over one more request and may be repeated, queue of 2, 4 ticks from period 5 on, so that the clock almost comes round |
| `msr_table` | a row holds the value of its own parameter, its time lies between that value and the values of later chunks, exit code and qualities agree; the session implements TableReader; the program ends | 5 rows in 3 chunks, one of them invalid, two gateways, 3 numbers, the same network, 2 ticks |
| `sync_session` | what is believed written was written, the clock is never half set, never moved by more than was checked, nor taken by a write into another period than the one it was read in; success gives the rights back; the program ends | all 8 sets of checks, right and wrong password; in a zone an hour ahead of UTC midnight in winter as new time, with clocks 2 and 1 seconds before it, at it, 5 seconds and 5 minutes after it, and one o'clock in summer, with clocks at it, an hour and a second more behind; difference 2 seconds, minutes 1, 2 seconds go by, 5 numbers, the same network |
| `query` | what the command line says is what the device is asked for, to the byte; what is shown is what the device holds, although the reply is damaged; accepted options make requests that can be made | every order, omission and repetition of the options; texts as expected, at each limit and beyond it; request numbers 0 and 15; tables of 2; replies with any byte changed by 1, 58, 128 or 189, cut short anywhere, or with one or two bytes more |
| `clock_century` | the indexes are rings | every day of 2000 to 2099, 5-minute and hourly intervals; no abstraction |
| `seq_rings` | stamps are starts of periods, the latest of their slot, and no slot is missed | 7 archives, 9 reference times at turns of hours, months and years, a zone 5 hours ahead without summer time |

Runs whose property must fail, because the program does not do what its
comments, tests or documentation say (PROJECT.json, "findings", quotes them):

| Run | What it shows |
|---|---|
| `sync_exit_code` | exit code 0 though nothing was written |
| `sync_late_ack` | a late ACK is taken for the reply to the last login, and the level stays ADMIN |
| `sync_summer_hour` | in summer a difference check of 30 seconds lets pass a new time an hour away from the clock |
| `msr_gateways` | a row is printed with its own gateway and a value read from another |
| `seq_summer_hours` | in summer the hour sequence stamps hours that are not over |
| `seq_interval` | an accepted interval archive of less than a day divides by zero |

**Why the bounds are enough.** What can go wrong in an exchange depends on the
distance of two requests modulo the number of numbers. With 3 numbers and
messages one request old, the queue can make a message one request older, which
is the largest distance that 3 numbers tell apart: `arch_ring` and `msr_table`
are at the edge of `NumbersSuffice`, and the mutants that look at no number fail in
them. A queue of two datagrams holds a late or repeated reply together with the
awaited one, in either order; more are of no use, since the first datagram that
does not fit ends a session of `tekon_arch` and `tekon_msr`, and in `tekon_sync`
at most one request follows a failed one. A clock reading is a list of two, as long as a
chunk, so that replies to the two can be confused. Ticks fall before, between
and after the readings. A synchronisation makes five requests at most, so five
numbers are as good as sixteen. The theorems then hold for every value of the
constants. The days of `sync_session` are real ones, in seconds: what matters
is on which side of a minute, a period, midnight and the hour of summer time
the clock is when it is read and when it is written, so two seconds that go by
are enough.

The texts of `query` are one for each way through a parser: the limit of each
field, one character more and two, the largest number that fits the variable
and the next one, decimal and hexadecimal. A byte changes by its lowest or
highest bit, or so that the first byte of a numbered reply (58) or of a NAK
(189) becomes that of an ACK; the checksum is a sum, so which byte is changed
matters more than by how much, and every byte is changed. `arch` is not in `Lossy`,
since its requests 0x1C and their replies are those of `msr`.

`Terminates` assumes weak fairness of the utility's own steps, and of nothing
else: neither the device nor the network need ever act. The code justifies it
by `SO_RCVTIMEO` (`link.c:85`), with a timeout of 1 to 60000 ms
(`utils/arch/main.c:308` and its like), which ends every wait; `AcceptedCanAsk`
of Query shows that no command line gets past this limit. The mutants
`WaitForever`, a `link_recv` without timeout, violate the property.

`DeviceClock` stops at the end of the century, hence its `CHECK_DEADLOCK FALSE`;
the other models end in a `Done` step.

Properties have conditions where the code has limits, and say so:

* `NumbersSuffice`: a number is not used again while a message with it is about.
* `Span < Depth` in `StampIsPeriod`: less than a turn of the ring goes by.
* `NetworkSuffices` in `WriteOkIsWritten`: what confirmations without numbers
  allow. `MaxAge <= 1` in `RightsReturned`: the login that raised the level does
  not come back after the one that lowers it.
* `OneDay` in `ClockIsWhole` and `StepIsBounded`: the new time is of the clock's
  day, as it happens or because of the checks (`KeepsDay`). The indexes ensure
  it; the minutes do so only outside summer time and with blocks that fit day and
  zone. The default checks therefore ensure it in winter only: in summer a clock
  at 23:00:30 and a new time of 00:00:30 pass, and if the write of the time gets
  lost, the clock is left a day ahead, while a clock that is right is refused.
  `StepIsBounded` allows that hour in summer.
* `"midnight" \notin seen` in `ClockIsWhole` and `StepIsBounded`: date and time
  are written apart, and a midnight between the two leaves the new time on the
  next day although both writes succeed.
* `sent[6] # 0` in `ValuesAreTrue`: not a reply that names gateway 0, which is
  reported as unpacked although `tekon_resp_1c` refuses it (`unpack.c:300`,
  `ReceiveUnfilled`); the unit test of that case (`unit_unpack.c:306-323`) sees
  the refusal only because the checksum of its frame is wrong. A first byte turned into that of an
  ACK confirms a write; `ConfirmedIsTrue` leaves it out, as no checksum guards
  it. `GoodAnswerIsTaken` has the request 0x19 of one index, whose reply
  `unpack_readem_19` refuses.
* `Fits`: a field longer than its limit is not refused but cut, and read on in
  the next field: `udp:5196001:2` is port 51960, gateway 1.

## Theorems

Proved for all values of the constants that `ExchangeAssumption`,
`ArchAssumption`, `MsrAssumption`, `SyncAssumption`, `ClockAssumption`,
`SeqAssumption`, `TextsAssumption` or `QueryAssumption` allow.
These say that sizes are numbers; that an archive lies inside its ring, which
`read_args` tests; that the minutes and the difference of the checks are above 0, as
`checks_from_string` wants, that new times and clocks are later than 2000, where
the device's years start, and a zone is no more than a day from UTC; that an hour
is made of whole intervals and a ring of whole days, without which the indexes
are no ring; that an archive is one that `intcfg_is_valid` accepts; that a text
is a sequence of fields and a password of eight characters has eight digits;
that a date and a time are numbers of two digits, and the addresses of a message
have the widths the functions of `message.h` declare.

| Theorem | States | Further assumption |
|---|---|---|
| `ArchRead_proofs!TypeCorrect` | `Spec => []TypeOK` | |
| `ArchRead_proofs!AnswersAreOwn` | `Spec => []AnsweredFromOwnSlot` | |
| `ArchRead_proofs!StampsAreTrue` | `Spec => []StampIsPeriod` | |
| `ArchRead_proofs!PrefixHolds` | `Spec => []ReadIsPrefix` | |
| `ArchRead_proofs!SuccessHolds` | `Spec => []SuccessIsComplete` | |
| `ArchRead_proofs!AnswersAreFinal` | `Spec => AnsweredIsFinal` | |
| `ArchRead_proofs!ArchReadsTable` | `Spec => ReadsTable` | `MaxAge + 1 < SeqMod` |
| `MsrRead_proofs!MsrTypeCorrect` | `Spec => []TypeOK` | |
| `MsrRead_proofs!RowsAreOwn` | `Spec => []AnsweredFromOwnRow` | |
| `MsrRead_proofs!StampsAreTimely` | `Spec => []ValueIsTimely` | |
| `MsrRead_proofs!ExitIsTrue` | `Spec => []ExitTellsAll` | |
| `MsrRead_proofs!MsrReadsTable` | `Spec => ReadsTable` | `MaxAge + 1 < SeqMod` |
| `TimeSync_proofs!SyncTypeCorrect` | `Spec => []TypeOK` | |
| `TimeSync_proofs!WritesAreDone` | `Spec => []WriteOkIsWritten` | |
| `TimeSync_proofs!ClockStaysWhole` | `Spec => []ClockIsWhole` | |
| `TimeSync_proofs!StepStaysBounded` | `Spec => []StepIsBounded` | |
| `TimeSync_proofs!IndexesAreKept` | `Spec => IndexesMoveAlone` | |
| `TimeSync_proofs!RightsComeBack` | `Spec => []RightsReturned` | `"ack" \notin Styles`, `SeqMod >= 5`, `MaxAge <= 1` |
| `DeviceClock_proofs!HoursRing` | `Spec => []HoursAreRing` | |
| `DeviceClock_proofs!IntervalsRing` | `Spec => []IntervalsAreRing` | |
| `DeviceClock_proofs!MonthsRing` | `Spec => MonthsAreRing` | |
| `DeviceClock_proofs!DaysCounted` | `Spec => DaysOfYearAreCounted` | |
| `TimestampSeq_proofs!StampsFit` | `Spec => []StampOfSlot` | `Summers = {}` |
| `TimestampSeq_proofs!IntervalsAreLatest` | `Spec => []StampIsLatest` | `Summers = {}`, interval archives only, `Offset` a multiple of the interval |
| `TimestampSeq_proofs!SequencesAreComplete` | `Spec => []SeqIsComplete` | `Summers = {}`, `WholeRings`, `InCentury`, `ZoneInDay` |
| `TimestampSeq_proofs!SequencesAreLatest` | `Spec => []StampIsLatest` | the same, and `WholeZone` |
| `Query_proofs!TypeCorrect` | `Spec => []TypeOK` | |
| `Query_proofs!AskedIsWritten` | `Spec => []AskedAsWritten` | |
| `Query_proofs!AskedIsInsideRing` | `Spec => []AskedInsideRing` | |
| `Query_proofs!SetIsAsWritten` | `Spec => []SetAsWritten` | |
| `Query_proofs!ShownValuesAreTrue` | `Spec => []ValuesAreTrue` | |
| `Query_proofs!ConfirmedWasDone` | `Spec => []ConfirmedIsTrue` | |
| `Query_proofs!GoodAnswersAreTaken` | `Spec => []GoodAnswerIsTaken` | |
| `Query_proofs!AcceptedIsAsked` | `Spec => []AcceptedCanAsk` | |
| `Query_proofs!NamedChecksAreMade` | `Spec => []ChecksAreNamed` | |
| `Query_proofs!RequestIsHeard` | a packed message is heard with its number, gateway and elements | `m` is a message that `read_args` or a caller can have made |
| `Query_proofs!DamageIsNoticed` | a reply that is cut short or has one byte changed is refused, or taken for a receipt if the byte is the first | |
| `Query_proofs!QueryInvHolds` | `Spec => []QueryInv` | |

**Answers belong to their requests.** That an accepted reply belongs to the last
request is not inductive: one has to know how old a queued datagram can be.
`IInv` of ArchRead says that while the utility is about to send, everything in
the queue is at most `MaxAge` requests old, and while it waits, one request
older, with the younger ones behind (`QueueInv`): had an older reply been in
the queue it would have been met, and refused, before. So an accepted number,
equal modulo `SeqMod` and less than `SeqMod` apart, is the last request's
(`SameRemainder` of Remainders). `Exchange_proofs` has what the actions of the
exchange do to the queue, for all three utilities.

**Archive.** The accepted reply's contents are then what was asked for
(`CurrentInv`), and its moment lies between the two clock readings (`OrderInv`,
`ValueInv`). Equal indexes before and after and less than a turn in between
make both readings the same period, hence the one of every value.

**Measurements.** `MInv` follows the same line; that stamps are ordered needs
that a reply was made after its request was sent, hence after the stamps of all
earlier chunks, and before it was taken.

**Refinement.** Every step maps to a step of TableReader or a stutter. The one
that matters is the acceptance of a chunk: the moment at which the device made
the reply is the `t` that `Read` asks for, and `AnswersAreOwn`'s argument gives
that all rows of the chunk are of that moment (`ChunkIsRead`). A failure maps
to `Conclude`, a tick to `Pass`, everything else to a stutter.

**Confirmed writes.** `SInv` of TimeSync has two arguments. With numbers, a
session numbers at most five requests (`StageInv`), which the numbers tell apart
whatever the network does. Without numbers, there is one message at most in
network and queue while no request has failed, and it belongs to the last
request (`SingleInv`); after a failure of a write no other write follows. In
both cases the accepted confirmation is one that the device sent when it
executed that very write (`ReplyInv`). TLC checks the first case; the second
one is left to the theorem.

**The device's clock.** `CInv` of TimeSync holds for every zone and network. A
write is on the wire only after the checks compared the new time with a reading
that was made within the session (`ReadInv`, `CheckInv`). Until the time is
written, only time itself moves the clock: the date write changes nothing while
new time and clock are on the same day (`DayInv`). Where the checks are the
reason for that, it is because a day is made of their blocks (`Coarser`) and
because blocks of UTC are blocks of local time when the zone's offset is a
multiple of them (`BlocksAreLocal`); `SameDay` collects what the checks say
about local times. The time write sets the new time, however late it comes and
however often. `IndexesAreKept` needs no history: while the clock is in the
period that was read, it is in the new time's, so the date write leaves it alone
and the time write leaves it in the period.

**The rights.** `LevelInv`: the login as admin is one of the first two requests,
the login as user, which is the last, comes at least two requests later. When it
is executed the other one is too old to be delivered, and after it nothing
raises the level. That the answer to it is its own is the argument on numbers.

**Indexes.** On every day the model walks through, `days` counts the days
as the code's day numbers do (`DayInv`). A ring of whole days is a ring of days
times one of the periods of a day (`RingOfDays`), which is how `tekon_hour_index` and
`tekon_interval_index` compute it.

The index of the next day follows from the lengths of the months
(`WithinYear`, `TurnOfYear`).

**Timestamps.** `StampInv`: a stamped slot has the index of its stamp. It needs
that the start of a month, day or hour has the index of every other second in
it, which for months is calendar arithmetic on the four years of 1461 days
(`FirstOfMonth`, from `SameYear` and `MonthIsUnique`). `LatestInv` counts the
turns of the interval loop: the k-th one stands k intervals before the end of
the running one, and `Limit` ends it before the ring comes round.

**Sequences are complete and up to date.** The loops make steps shorter than a
period, yet every turn of the second one is in the period before the last
turn's: it rounds to the start of its period, and a step before that start is in
the period before (`BeforeStart`). The first loop stops in the period before the
device's, since tm_mon, tm_mday or tm_hour changes there and nowhere else
(`StepBack`: a month has at least 28 days, more than a step of 8). So turn k is
in period `First - k` (`AtTurn`), and its index is the slot of that period
(`SlotIsIndex`, where the day number of a date has to be the inverse of the C
library's calendar, `DateIsDate`). `Holds` says that after k turns the stamps
are those of the last k periods and no others; slots of periods less than a ring
apart differ (`SlotsDiffer`), so every turn finds a free one, and a ring of
turns has met all (`SlotsCover`). `RingInv` is this invariant. The time limit
cannot end the loop before, because the limit is the ring's length and a step is
at most a period (`LimitIsFar`).

The archive of days is not a ring: 365 or 366 turns apart the slot is the
same, depending on the years (`DaysBefore`). `DaysInv` has two parts therefore.
After 365 turns the loop is done if the 366th day is one with a slot of its own;
if not, it goes on in thirds of a day, finding slots taken, until it meets a
31 December of a leap year or the limit of 1098 steps ends it (`LateTurn`).
Either way the slots but 365 are stamped with the latest day (`DaysDone`).

Of the assumptions, `WholeRings` wants intervals that divide an hour and rings
that make whole days: `tekon_interval_index` numbers no others without a jump,
and divides by zero for rings of less than a day. `InCentury` is a device's
clock from 2004 to 30 December 2099: the code's day numbers are those of the
calendar from 2000 on, and the longest ring, of 48 months, goes back four
years. `ZoneInDay` is a zone no more than a day ahead, which keeps all stamps
away from TIME_INVALID; `WholeZone` is what `IntervalsAreLatest` has, too:
an interval is counted in UTC when it is stamped and in local time when it is
looked up. The archives and times of `seq_rings` satisfy all of them, except
the archive of 100 intervals, which is in the run because it never starts.

**The codec.** A frame is read by position, so the lemmas on it say what stands
where: a list of blocks of one size, joined, has block k in the places from
`size * (k-1) + 1` on, for any number of blocks (`Flattened`). `RequestIsHeard`
follows from this for the four messages. For replies, the checksum of a sequence
is what one has counted behind its last byte (`CrcIsCounted`): two sequences that
differ in one byte have different sums (`CrcSeesOneByte`), and the length bytes and the prefix each stand twice or are
compared to a constant; so every byte behind the first is guarded by something
(`OtherByteChanged`), and a part of a frame is shorter than it says
(`CutIsRefused`). A reply with bytes behind it is read like the reply alone.

**The parsers.** A text whose fields fit is read field by field
(`FieldsThatFit`). One with a field that is too long is harder: the loop cuts it
and drops one character, and the rest is a field for the next loop. `Late` says
what all these texts have in common from there on: more fields are left than
there are loops to come, and only the last of them is a letter (`InStepOrLate`).
So the last loop of the parser does not find a letter, and the text is refused (`LetterIsLast`).
Hence `AskedAsWritten` needs no condition on the lengths of the fields of a parameter:
a text with all its separators is read as written or refused. The texts of
network and clock addresses end in a number, and the properties say `Fits`.

**A request's life.** `QueryInv` is a chain, each part of which needs the one
before it. `OptionsInv`: an option's value is the one its last text stands for,
and a row of the table that of its own texts, whatever stood between. `ReadyInv`: behind
`read_args` its last tests hold, and keep holding since nothing sets the options
any more. `AskInv`: so the message can be built and packed, and what the device
heard is the message. `ReplyInv`: the reply on its way is one to what was heard,
whole, longer, cut or changed in one place. `BytesInv` gives the damaged byte its
type, without which a change could make the sum come out. `EndInv`: by the
lemmas on replies, what is taken is what the device held, or the reply named gateway
0, or its first byte was changed. No part is inductive without the others, and
the properties of the run follow without another step.

**Induction.** What is recursive in the model, the sum and the loops of the
parsers, is a recursive function. Its equations come from the existence of the
function (`Loop` of Remainders, made from the least element of a set of
numbers, `LeastNumber`), and a claim on every turn from the set of the numbers
for which it holds (`UpTo`).

Model-checked only is `Terminates`, as liveness is out of the prover's reach. The
theorems on timestamps are for zones without summer time; with it there is only
the run `seq_summer_hours`, whose stamps are not those the code's comments
promise.

## Not modelled, and simplifications

* Options: the test for fewer than four arguments, `-v`, which only changes the
  log, and the syntax of the number after `-u`; the 256 characters that the text
  of `-c` may have. An IP address is valid or not.
* Frames of 250 bytes and more, and TCP, where a reply may arrive in parts and
  several in one read; the tests of `validate` then refuse what is not one
  reply.
* ArchRead has rings of a fixed number of slots. The day archive has 365 or 366,
  depending on the year: its sequences and indexes are in TimestampSeq and
  DeviceClock.
* `archive_index_to_utc` ignores what the sequence functions return, so an
  incomplete sequence leaves stamps at -1. `SeqIsComplete` says that this does
  not happen for the rings of the run. For interval archives of less than a day
  the sequence never starts (`seq_interval`).
* `timestamp_seq_month` has the summer time of `seq_summer_hours`, too
  (`tstamp.c:163`): soon after the change, a month is stamped 23:00 of the month
  before. It has no run of its own.
* `check_indexes` compares four indexes modulo their rings; TimeSync compares
  interval periods. Both agree unless the times are so far apart that all rings
  came round, which the other checks would have to let pass. The check is made
  once, before the writes: a period that turns between check and write is not
  seen, hence the condition of `IndexesMoveAlone`; the usage text
  (`utils/sync/main.c:59-60`) does not mention it.
* The zone of LocalTime is the one of the machine, with an offset that does not
  change but for summer time. A local time that summer time skips or repeats is
  taken for what `tm_isdst` says. `mktime` and `localtime_r` do not fail, so
  TIME_INVALID, which the checks test for, does not occur in TimeSync.
* `minutes * 60` (`check.c:194`) overflows for more than 35 million minutes, and
  years from 2100 on are written with two digits; TimeSync has no such values.
* `unpack_readem_19` and `unpack_readem_list_1C` do not compare the number of
  elements of a reply with their arrays of 60 and 40 values (`unpack.c:250-252`,
  `295-298`): a longer list is written past the end before `tekon_resp_*` refuses
  it. The model has the refusal, a message that is not filled in, and not the
  writing. The replies of the runs are not that long.
* The comment at `check.h:21-22` gives the difference in milliseconds; the code
  counts seconds, and so does the model.
* Logging and printing, the Windows port, which offers the same interface over
  Winsock, and the test programs have no behaviour of their own.

## Plan

1. The replies of TCP as a stream of bytes, with parts and joins.
2. The day archive's ring in ArchRead, with `Held` of the year's length.
3. What remains true of the timestamps in a zone with summer time, as a property
   and a theorem: the stamps of days, and those of hours away from the change.
