------------------------------ MODULE ArchRead ------------------------------
(***************************************************************************)
(* tekon_arch (utils/arch/main.c, utils/arch/arch.c): read N records of a  *)
(* ring archive in chunks, between two readings of the device's clock, and *)
(* turn the records' indexes into timestamps if the index of the current   *)
(* period did not change in between.                                       *)
(*                                                                         *)
(* The device is external.  Its clock counts archive periods (months,      *)
(* days, hours or intervals); it keeps running while it is read, and every *)
(* new period overwrites the oldest slot of the ring.                      *)
(***************************************************************************)
EXTENDS Exchange

CONSTANTS
  N,        \* records to read, archive->address.count
  First,    \* index of the first one, archive->address.index
  Chunk,    \* TEKON_PROTO_PLIST_SIZE, 40 in the code
  Depth,    \* slots of the device's ring
  Ahead,    \* the newest period in the ring at period t is t + Ahead
  Bad,      \* slots whose value the device reports as invalid
  Span,     \* periods that can pass between the start and the end of a run
  Origins   \* periods in which a run may start

ASSUME ArchAssumption ==
  /\ N \in Nat \ {0}
  /\ First \in Nat
  /\ Chunk \in Nat \ {0}
  /\ Depth \in Nat \ {0}
  /\ First + N <= Depth         \* read_args compares start + size with limit
  /\ Ahead \in Int
  /\ Bad \subseteq 0..Depth-1
  /\ Span \in Nat
  /\ Origins \subseteq Nat

VARIABLES
  pc,       \* "connect", "send", "wait", "convert", "done"
  phase,    \* what read_data reads: "begin", "chunk" or "end"
  pos,      \* read_archive's pos: records read so far
  recs,     \* archive->rec
  begin,    \* the device's period in begin_at, NoTime until it is read
  end,      \* the device's period in end_at, NoTime until it is read
  result,   \* what read_data returned
  tsc,      \* app->use_tsc
  origin,   \* the period in which the run started
  time      \* the period the device's clock is in

vars == <<netvars, pc, phase, pos, recs, begin, end, result, tsc, origin, time>>

NoTime == -1            \* TIME_INVALID, and a begin_at / end_at full of zeroes
Records == 0 .. N-1     \* positions in archive->rec, counted from 0
Index(i) == First + i   \* rec_init(&rec, archive->address.index + i)

-----------------------------------------------------------------------------
(* The device                                                              *)

\* tekon_month_index, tekon_day_index, tekon_hour_index and
\* tekon_interval_index number the slots of the ring by the period's ordinal.
SlotOf(p) == p % Depth

\* The period whose value the slot s holds while the clock is in period t: the
\* latest one of that slot, going back from the newest.
Held(s, t) == t + Ahead - ((t + Ahead - s) % Depth)

\* A record's value: the slot it was read from and the period it belongs to.
\* Zero is the 0 of apply_noconn, Clock the bits of a date or a time.
Value == [slot : Nat, period : Int]
Zero == [slot |-> Depth, period |-> 0]
Clock == [slot |-> Depth, period |-> 1]

-----------------------------------------------------------------------------
(* Requests                                                                *)

Least(a, b) == IF a < b THEN a ELSE b

TimeBody == [what |-> "time", pos |-> 0, n |-> 2]
ChunkBody == [what |-> "chunk", pos |-> pos, n |-> Least(N - pos, Chunk)]

\* What the utility asks for next, and what it is waiting for.
Body == IF phase = "chunk" THEN ChunkBody ELSE TimeBody

\* A mutant: nin == nout is not tested.
AnyNumber(m) == m.body.n = Body.n

\* process_request accepts a reply with the number of the last request and as
\* many elements as the last request has, and looks at nothing else.
Matches(m) == m.num = nout /\ m.body.n = Body.n

\* The value and quality at position k of the list of the reply m.
ListValue(m, k) ==
  IF m.body.what = "time"
  THEN Clock
  ELSE LET s == Index(m.body.pos + k) IN [slot |-> s, period |-> Held(s, m.data)]

ListQual(m, k) ==
  IF m.body.what = "chunk" /\ Index(m.body.pos + k) \in Bad THEN "INVALID" ELSE "OK"

Periods == origin .. origin + Span

\* The clock readings that tekon_date_unpack can make of the reply m.
Reading(m) == IF m.body.what = "time" THEN {m.data} ELSE Periods

-----------------------------------------------------------------------------
Init ==
  /\ ExchangeInit
  /\ pc = "connect"
  /\ phase = "begin"
  /\ pos = 0
  /\ recs = [i \in Records |-> [qual |-> "UNK", value |-> Zero, ts |-> NoTime]]
  /\ begin = NoTime
  /\ end = NoTime
  /\ result = 0
  /\ tsc \in BOOLEAN
  /\ origin \in Origins
  /\ time = origin

\* A mutant: apply_noconn is not called.
StillUnknown == recs

\* apply_noconn on every record.
NoConn == [i \in Records |-> [recs[i] EXCEPT !.qual = "NOCONN", !.value = Zero]]

\* link_up succeeds; archive_foreach calls apply_noconn.
Connect ==
  /\ pc = "connect"
  /\ pc' = "send"
  /\ phase' = IF tsc THEN "begin" ELSE "chunk"
  /\ recs' = NoConn
  /\ UNCHANGED <<netvars, pos, begin, end, result, tsc, origin, time>>

\* link_up fails; archive_foreach calls apply_noconn all the same.
ConnectFails ==
  /\ pc = "connect"
  /\ pc' = "convert"
  /\ recs' = NoConn
  /\ UNCHANGED <<netvars, phase, pos, begin, end, result, tsc, origin, time>>

Send ==
  /\ pc = "send"
  /\ Request(Body)
  /\ pc' = "wait"
  /\ UNCHANGED <<phase, pos, recs, begin, end, result, tsc, origin, time>>

\* A mutant: a failure marks every record, not only those of the chunk.
AllUnread == [i \in Records |-> [recs[i] EXCEPT !.qual = "NOCONN"]]

\* The chunk's records after read_chunk: rec_update with Q_NOCONN and no value.
Unread == [i \in Records |->
             IF phase = "chunk" /\ i \in pos .. pos + ChunkBody.n - 1
             THEN [recs[i] EXCEPT !.qual = "NOCONN"] ELSE recs[i]]

\* process_request returned 0: read_data takes the link down and returns 0.
Abort ==
  /\ pc' = "convert"
  /\ recs' = Unread
  /\ UNCHANGED <<phase, pos, begin, end, result, tsc, origin, time>>

SendFails == pc = "send" /\ RequestFails /\ Abort

ReceiveFails == pc = "wait" /\ TakeNothing /\ Abort

Refuse == pc = "wait" /\ TakeHead /\ ~Matches(Head(rxq)) /\ Abort

ReceiveBegin ==
  /\ pc = "wait" /\ phase = "begin"
  /\ TakeHead
  /\ Matches(Head(rxq))
  /\ begin' \in Reading(Head(rxq))
  /\ pc' = "send"
  /\ phase' = "chunk"
  /\ UNCHANGED <<pos, recs, end, result, tsc, origin, time>>

\* read_chunk stores the chunk; read_archive goes on with the next one, and
\* read_data with the second reading of the clock or with its return.
ReceiveChunk ==
  /\ pc = "wait" /\ phase = "chunk"
  /\ TakeHead
  /\ Matches(Head(rxq))
  /\ recs' = [i \in Records |->
                IF i \in pos .. pos + ChunkBody.n - 1
                THEN [recs[i] EXCEPT !.qual = ListQual(Head(rxq), i - pos),
                                     !.value = ListValue(Head(rxq), i - pos)]
                ELSE recs[i]]
  /\ pos' = pos + ChunkBody.n
  /\ pc' = IF pos' < N \/ tsc THEN "send" ELSE "convert"
  /\ result' = IF pos' < N \/ tsc THEN result ELSE 1
  /\ phase' = IF pos' < N THEN "chunk" ELSE "end"
  /\ UNCHANGED <<begin, end, tsc, origin, time>>

ReceiveEnd ==
  /\ pc = "wait" /\ phase = "end"
  /\ TakeHead
  /\ Matches(Head(rxq))
  /\ end' \in Reading(Head(rxq))
  /\ pc' = "convert"
  /\ result' = 1
  /\ UNCHANGED <<phase, pos, recs, begin, tsc, origin, time>>

\* timestamp_seq_*: walking back from the period `to`, the first period met of
\* every slot; a slot the ring does not have gets none.
SeqTime(s, to) == IF s < Depth THEN Held(s, to) ELSE NoTime

\* Mutants: index_eq is not called; to->date.day is not tested.
AnyIndex == end # NoTime
AnyDay == SlotOf(begin) = SlotOf(end)

\* index_eq and the test of to->date.day.
Convertible == end # NoTime /\ SlotOf(begin) = SlotOf(end)

\* archive_index_to_utc, whatever read_data returned; then the program ends.
Convert ==
  /\ pc = "convert"
  /\ pc' = "done"
  /\ recs' = [i \in Records |->
                IF Convertible THEN [recs[i] EXCEPT !.ts = SeqTime(Index(i), end)]
                ELSE recs[i]]
  /\ Close
  /\ UNCHANGED <<phase, pos, begin, end, result, tsc, origin, time>>

-----------------------------------------------------------------------------
(* The device and the network                                              *)

LinkIsUp == pc \in {"send", "wait"}

\* The device answers a request from what its clock and its ring hold now.
Answer ==
  /\ LinkIsUp
  /\ \E m \in wire : PutReply(m, ReplyTo(m, m.num, time))
  /\ UNCHANGED <<pc, phase, pos, recs, begin, end, result, tsc, origin, time>>

Arrive ==
  /\ LinkIsUp
  /\ Deliver
  /\ UNCHANGED <<pc, phase, pos, recs, begin, end, result, tsc, origin, time>>

\* A period ends: the device opens the next one over the oldest slot.
Tick ==
  /\ time < origin + Span
  /\ time' = time + 1
  /\ UNCHANGED <<netvars, pc, phase, pos, recs, begin, end, result, tsc, origin>>

Utility ==
  \/ Connect \/ ConnectFails
  \/ Send \/ SendFails
  \/ ReceiveBegin \/ ReceiveChunk \/ ReceiveEnd
  \/ Refuse \/ ReceiveFails
  \/ Convert

Done == pc = "done" /\ UNCHANGED vars

Next == Utility \/ Answer \/ Arrive \/ Tick \/ Done

Spec == Init /\ [][Next]_vars

\* The utility runs until it ends: link_recv returns within SO_RCVTIMEO.
FairSpec == Spec /\ WF_vars(Utility)

-----------------------------------------------------------------------------
(* Properties                                                              *)

Qualities == {"UNK", "NOCONN", "OK", "INVALID"}
Bodies == [what : {"time", "chunk"}, pos : 0..N, n : 1 .. N + 2]
Requests == [ord : Nat, num : 0 .. SeqMod-1, body : Bodies]
Replies == [ord : Nat, num : 0 .. SeqMod-1, body : Bodies, data : Nat]
Recs == [qual : Qualities, value : Value, ts : Int]

\* Every variable has the type its declaration in the code and in the
\* network's model gives it.
TypeOK ==
  /\ nout \in 0 .. SeqMod-1
  /\ nreq \in Nat
  /\ wire \subseteq Requests
  /\ back \subseteq Replies
  /\ rxq \in Seq(Replies)
  /\ pc \in {"connect", "send", "wait", "convert", "done"}
  /\ phase \in {"begin", "chunk", "end"}
  /\ pos \in 0..N
  /\ recs \in [Records -> Recs]
  /\ begin \in Nat \cup {NoTime}
  /\ end \in Nat \cup {NoTime}
  /\ result \in {0, 1}
  /\ tsc \in BOOLEAN
  /\ origin \in Nat
  /\ time \in Nat

Answered(i) == recs[i].qual \in {"OK", "INVALID"}

\* The number on a reply tells the request it answers apart from the others:
\* either the network forgets a reply before its number is in use again, or
\* no number was used twice.
NumbersSuffice == MaxAge + 1 < SeqMod \/ nreq <= SeqMod

\* A record the utility prints as answered holds what the slot of that very
\* record held at some moment of the run: no late, repeated or reordered
\* reply is taken for the answer to another request (process_request).
AnsweredFromOwnSlot ==
  NumbersSuffice =>
    \A i \in Records : Answered(i) =>
      \E t \in origin..time :
        recs[i].value = [slot |-> Index(i), period |-> Held(Index(i), t)]

\* The timestamp printed with a value is the period the value was archived
\* for, although the ring moved on while its records were being read
\* (index_eq and archive_index_to_utc).
StampIsPeriod ==
  NumbersSuffice /\ Span < Depth =>
    \A i \in Records : recs[i].ts # NoTime => recs[i].value.period = recs[i].ts

\* The answered records are the first ones, up to where the reading broke off;
\* the others read "no connection" and 0 (read_archive, apply_noconn).
ReadIsPrefix ==
  pc # "connect" =>
    \A i \in Records :
      /\ Answered(i) <=> i < pos
      /\ ~Answered(i) => recs[i].qual = "NOCONN" /\ recs[i].value = Zero

\* Exit code 0 and timestamps come only from a session that read everything it
\* was to read: a failure of any request is not mistaken for success.
SuccessIsComplete ==
  pc = "done" =>
    /\ result = 1 => \A i \in Records : Answered(i)
    /\ (\E i \in Records : recs[i].ts # NoTime) => tsc /\ result = 1

\* What was read is never overwritten, neither by a later chunk nor by the
\* failure of one: every record is written by one request only.
AnsweredIsFinal ==
  [][\A i \in Records : Answered(i) =>
        recs'[i].qual = recs[i].qual /\ recs'[i].value = recs[i].value]_vars

\* However the network behaves, the utility comes to its end.
Terminates == <>(pc = "done")

\* What the device holds for record i at moment t.
RowAt(i, t) ==
  [qual |-> IF Index(i) \in Bad THEN "INVALID" ELSE "OK",
   value |-> [slot |-> Index(i), period |-> Held(Index(i), t)]]

Unanswered == [qual |-> "NOCONN", value |-> Zero]

Reader == INSTANCE TableReader WITH
  now <- time,
  count <- pos,
  table <- [i \in Records |-> IF Answered(i)
                              THEN [qual |-> recs[i].qual, value |-> recs[i].value]
                              ELSE Unanswered],
  verdict <- IF pc # "done" THEN "reading"
             ELSE IF result = 1 THEN "complete" ELSE "incomplete",
  Nothing <- Unanswered,
  Content <- RowAt

\* tekon_arch implements the abstract reader, over a network whose messages the
\* numbers tell apart: whatever the clock readings around it bring, read_data
\* shows whole chunks of one moment each, in order and once.
ReadsTable == Reader!Spec
=============================================================================
