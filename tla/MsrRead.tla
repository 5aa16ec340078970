------------------------------ MODULE MsrRead ------------------------------
(***************************************************************************)
(* tekon_msr (utils/msr/main.c, utils/msr/msr.c): read a table of          *)
(* measurements in chunks and print every row with the address it was      *)
(* asked for, its quality and the host's time of the answer.               *)
(*                                                                         *)
(* The device is external: it answers a request with what the parameters   *)
(* asked for hold at the moment it answers.                                *)
(***************************************************************************)
EXTENDS Exchange

CONSTANTS
  N,         \* rows of the table, msr_table_size
  Chunk,     \* TEKON_PROTO_PLIST_SIZE, 40 in the code
  Gateways,  \* the gateway msr_init recorded for each row
  Bad,       \* rows whose value the device reports as invalid
  Span       \* how far the clock runs while it is observed

ASSUME MsrAssumption ==
  /\ N \in Nat \ {0}          \* read_args refuses an empty table
  /\ Chunk \in Nat \ {0}
  /\ Gateways \in [0 .. N-1 -> 1..255]
  /\ Bad \subseteq 0 .. N-1
  /\ Span \in Nat

VARIABLES
  pc,       \* "connect", "send", "wait", "down", "done"
  pos,      \* read_data's pos: rows read so far
  rows,     \* app->table.msr
  result,   \* what read_data returned
  time      \* the time, of host and device

vars == <<netvars, pc, pos, rows, result, time>>

NoTime == -1           \* TIME_INVALID
Rows == 0 .. N-1       \* positions in table.msr

\* A row's value: the parameter it was read from, through which gateway and
\* when.  Zero is the 0 of msr_init.
Value == [row : Nat, gw : Nat, at : Nat]
Zero == [row |-> N, gw |-> 0, at |-> 0]

-----------------------------------------------------------------------------
(* Requests                                                                *)

Least(a, b) == IF a < b THEN a ELSE b

ChunkSize == Least(N - pos, Chunk)
InChunk(i) == i \in pos .. pos + ChunkSize - 1

\* read_multiple asks the gateway of the chunk's first row for all of them.
Body == [pos |-> pos, n |-> ChunkSize, gw |-> Gateways[pos]]

\* A mutant: nin == nout is not tested.
AnyNumber(m) == m.body.n = Body.n

\* process_request compares the number and the count of elements.
Matches(m) == m.num = nout /\ m.body.n = Body.n

ListValue(m, k) == [row |-> m.body.pos + k, gw |-> m.body.gw, at |-> m.data]
ListQual(m, k) == IF m.body.pos + k \in Bad THEN "INVALID" ELSE "OK"

-----------------------------------------------------------------------------
Init ==
  /\ ExchangeInit
  /\ pc = "connect"
  /\ pos = 0
  /\ rows = [i \in Rows |-> [qual |-> "UNK", value |-> Zero, ts |-> NoTime]]
  /\ result = 0
  /\ time = 0

\* Mutants: apply_noconn marks the first row only; an answer keeps the stamp the
\* row got from apply_noconn.
FirstOnly == [rows EXCEPT ![0].qual = "NOCONN", ![0].ts = time]
StampOfConnect == rows[pos].ts

\* apply_noconn on every row.
NoConn == [i \in Rows |-> [rows[i] EXCEPT !.qual = "NOCONN", !.ts = time]]

\* time_now_utc() after process_request.
Stamp == time

\* link_up succeeds; msr_table_foreach calls apply_noconn.
Connect ==
  /\ pc = "connect"
  /\ pc' = "send"
  /\ rows' = NoConn
  /\ UNCHANGED <<netvars, pos, result, time>>

\* link_up fails; msr_table_foreach calls apply_noconn all the same.
ConnectFails ==
  /\ pc = "connect"
  /\ pc' = "done"
  /\ rows' = NoConn
  /\ UNCHANGED <<netvars, pos, result, time>>

Send ==
  /\ pc = "send"
  /\ Request(Body)
  /\ pc' = "wait"
  /\ UNCHANGED <<pos, rows, result, time>>

\* A mutant: a failure marks the whole table, as it marks the chunk.
AllUnread == [i \in Rows |-> [rows[i] EXCEPT !.qual = "NOCONN", !.ts = Stamp]]

\* msr_update with Q_NOCONN and no value, on the rows of the chunk.
Unread == [i \in Rows |->
             IF InChunk(i) THEN [rows[i] EXCEPT !.qual = "NOCONN", !.ts = Stamp]
             ELSE rows[i]]

\* process_request returned 0: read_data returns 0 and asks for no more.
Abort ==
  /\ pc' = "down"
  /\ rows' = Unread
  /\ UNCHANGED <<pos, result, time>>

SendFails == pc = "send" /\ RequestFails /\ Abort
ReceiveFails == pc = "wait" /\ TakeNothing /\ Abort
Refuse == pc = "wait" /\ TakeHead /\ ~Matches(Head(rxq)) /\ Abort

\* read_multiple stores the chunk; read_data goes on with the next one.
ReceiveChunk ==
  /\ pc = "wait"
  /\ TakeHead
  /\ Matches(Head(rxq))
  /\ rows' = [i \in Rows |->
                IF InChunk(i)
                THEN [qual |-> ListQual(Head(rxq), i - pos),
                      value |-> ListValue(Head(rxq), i - pos),
                      ts |-> Stamp]
                ELSE rows[i]]
  /\ pos' = pos + ChunkSize
  /\ pc' = IF pos' < N THEN "send" ELSE "down"
  /\ result' = IF pos' < N THEN 0 ELSE 1
  /\ UNCHANGED time

\* link_down; then the table is printed and the program ends.
LinkDown ==
  /\ pc = "down"
  /\ pc' = "done"
  /\ Close
  /\ UNCHANGED <<pos, rows, result, time>>

Utility ==
  \/ Connect \/ ConnectFails
  \/ Send \/ SendFails
  \/ ReceiveChunk \/ Refuse \/ ReceiveFails
  \/ LinkDown

-----------------------------------------------------------------------------
(* The device and the network                                              *)

LinkIsUp == pc \in {"send", "wait"}

Answer ==
  /\ LinkIsUp
  /\ \E m \in wire : PutReply(m, ReplyTo(m, m.num, time))
  /\ UNCHANGED <<pc, pos, rows, result, time>>

Arrive ==
  /\ LinkIsUp
  /\ Deliver
  /\ UNCHANGED <<pc, pos, rows, result, time>>

Tick ==
  /\ time < Span
  /\ time' = time + 1
  /\ UNCHANGED <<netvars, pc, pos, rows, result>>

Done == pc = "done" /\ UNCHANGED vars

Next == Utility \/ Answer \/ Arrive \/ Tick \/ Done

Spec == Init /\ [][Next]_vars

\* The utility runs until it ends: link_recv returns within SO_RCVTIMEO.
FairSpec == Spec /\ WF_vars(Utility)

-----------------------------------------------------------------------------
(* Properties                                                              *)

Bodies == [pos : Rows, n : 1..N, gw : 1..255]
Requests == [ord : Nat, num : 0 .. SeqMod-1, body : Bodies]
Replies == [ord : Nat, num : 0 .. SeqMod-1, body : Bodies, data : Nat]
MsrRows == [qual : {"UNK", "NOCONN", "OK", "INVALID"}, value : Value, ts : Int]

\* Every variable has the type its declaration in the code and in the
\* network's model gives it.
TypeOK ==
  /\ nout \in 0 .. SeqMod-1
  /\ nreq \in Nat
  /\ wire \subseteq Requests
  /\ back \subseteq Replies
  /\ rxq \in Seq(Replies)
  /\ pc \in {"connect", "send", "wait", "down", "done"}
  /\ pos \in 0..N
  /\ rows \in [Rows -> MsrRows]
  /\ result \in {0, 1}
  /\ time \in Nat

Answered(i) == rows[i].qual \in {"OK", "INVALID"}

\* A number is not used again while the network may hold a message with it.
NumbersSuffice == MaxAge + 1 < SeqMod \/ nreq <= SeqMod

\* A row printed as answered has the value of that very parameter, however
\* many replies are late, repeated or overtaken (process_request).
AnsweredFromOwnRow ==
  NumbersSuffice => \A i \in Rows : Answered(i) => rows[i].value.row = i

\* The time printed with an answered row is no earlier than its value, and no
\* later than the values of the chunks that were asked for after it: the rows
\* are ordered in time as they are in the table (read_multiple).
ValueIsTimely ==
  NumbersSuffice =>
    \A i \in Rows : Answered(i) =>
      /\ rows[i].value.at <= rows[i].ts /\ rows[i].ts <= time
      /\ \A j \in Rows :
           Answered(j) /\ i \div Chunk < j \div Chunk =>
             rows[i].ts <= rows[j].value.at

\* The table that is printed tells how the session went: the program exits
\* with 0 if and only if every row was answered, and the others say "no
\* connection", hold the initial 0 and the time the reading was tried.
ExitTellsAll ==
  pc = "done" =>
    /\ result = 1 <=> \A i \in Rows : Answered(i)
    /\ \A i \in Rows : ~Answered(i) =>
         rows[i].qual = "NOCONN" /\ rows[i].value = Zero /\ rows[i].ts >= 0

\* However the network behaves, the utility comes to its end.
Terminates == <>(pc = "done")

\* What the device holds for row i at moment t, as the request for the row's
\* chunk gets to see it.
RowAt(i, t) ==
  [qual |-> IF i \in Bad THEN "INVALID" ELSE "OK",
   value |-> [row |-> i, gw |-> Gateways[(i \div Chunk) * Chunk], at |-> t]]

Unanswered == [qual |-> "NOCONN", value |-> Zero]

Reader == INSTANCE TableReader WITH
  origin <- 0,
  now <- time,
  count <- pos,
  table <- [i \in Rows |-> IF Answered(i)
                           THEN [qual |-> rows[i].qual, value |-> rows[i].value]
                           ELSE Unanswered],
  verdict <- IF pc # "done" THEN "reading"
             ELSE IF result = 1 THEN "complete" ELSE "incomplete",
  Nothing <- Unanswered,
  Content <- RowAt

\* tekon_msr implements the abstract reader, over a network whose messages the
\* numbers tell apart: read_data and all it calls show nothing but whole chunks
\* of one moment each, in order and once (read_data).
ReadsTable == Reader!Spec

(* What the README says of the program, and it does not do                 *)

\* "Information about where they were received from is added to the values":
\* the gateway printed with a row is the one its value was asked from.
RowComesFromGateway ==
  NumbersSuffice => \A i \in Rows : Answered(i) => rows[i].value.gw = Gateways[i]
=============================================================================
