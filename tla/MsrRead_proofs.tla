-------------------------- MODULE MsrRead_proofs ----------------------------
(***************************************************************************)
(* Proofs about MsrRead, for every size of table and chunk, every choice   *)
(* of gateways and every network whose messages the numbers tell apart:    *)
(* the invariants of tekon_msr, and that it implements TableReader.        *)
(*                                                                         *)
(* The argument is the one of ArchRead_proofs, with the host's time stamps *)
(* in the place of the clock readings: the reply that is accepted is the   *)
(* one to the last request, so its value was taken after every stamp in    *)
(* the table and before the one it gets.                                   *)
(***************************************************************************)
EXTENDS MsrRead, Exchange_proofs

-----------------------------------------------------------------------------
(* The inductive invariant                                                 *)

\* How old the datagrams in the socket's queue can be.
QueueInv ==
  MaxAge + 1 < SeqMod =>
    /\ pc = "send" => Young
    /\ pc = "wait" => Awaiting

\* A message of the last request is about what the utility is waiting for.
CurrentInv ==
  pc = "wait" =>
    \A m \in wire \cup back \cup Queued : m.ord = nreq => m.body = Body

\* Where the session is: at the start of a chunk, or at the end of the table.
SessionInv ==
  /\ pc = "connect" => pos = 0 /\ rxq = << >>
  /\ pc \in {"connect", "send", "wait"} => pos < N
  /\ result = 1 <=> pos = N
  /\ pos # N => \E q \in Nat : pos = Chunk * q

\* What the rows hold apart from the answers.
RowsInv ==
  /\ pc = "connect" => \A i \in Rows : rows[i].qual = "UNK" /\ rows[i].value = Zero
  /\ pc # "connect" =>
       \A i \in Rows :
         /\ Answered(i) <=> i < pos
         /\ ~Answered(i) =>
              rows[i].qual = "NOCONN" /\ rows[i].value = Zero /\ rows[i].ts >= 0

\* Nothing was answered after now.
ClockInv == \A m \in back \cup Queued : m.data <= time

\* A row answered with what the device held at t, before every reply that the
\* utility may still accept and every value of a later chunk.
Timely(i) ==
  /\ rows[i].value.at <= rows[i].ts /\ rows[i].ts <= time
  /\ \A j \in Rows : Answered(j) /\ i \div Chunk < j \div Chunk =>
       rows[i].ts <= rows[j].value.at
  /\ pc = "wait" => \A m \in back \cup Queued : m.ord = nreq => rows[i].ts <= m.data

ValueInv ==
  NumbersSuffice =>
    \A i \in Rows : Answered(i) =>
      /\ rows[i].value.row = i
      /\ Timely(i)

MInv ==
  /\ TypeOK /\ NetInv /\ QueueInv /\ CurrentInv /\ SessionInv
  /\ RowsInv /\ ClockInv /\ ValueInv

-----------------------------------------------------------------------------
(* The chunk                                                               *)

\* Rows of one chunk have one quotient, those before it a smaller one.
LEMMA QuotientOfChunk ==
  ASSUME NEW i \in Nat, NEW c \in Nat \ {0}, NEW q \in Nat
  PROVE  /\ c * q <= i /\ i < c * q + c => i \div c = q
         /\ i < c * q => i \div c < q
<1> DEFINE p == i \div c
           r == i % c
<1>1. p \in Int /\ r \in 0 .. c-1 /\ i = c * p + r
  BY DivMod, ModRange
<1> HIDE DEF p, r
<1>2. c * p - c * q = c * (p - q) /\ c * q - c * p = c * (q - p)
  BY <1>1
<1>3. p - q >= 1 => c * p - c * q >= c
  BY <1>1, <1>2, MultipleAtLeast
<1>4. q - p >= 1 => c * q - c * p >= c
  BY <1>1, <1>2, MultipleAtLeast
<1>5. p - q >= 0 => c * q - c * p <= 0
  BY <1>1, <1>2, MultipleAtMost
<1>6. c * q <= i /\ i < c * q + c => p = q
  BY <1>1, <1>3, <1>4
<1>7. i < c * q => p < q
  BY <1>1, <1>5
<1> QED
  BY <1>6, <1>7 DEF p

\* The chunk to be read is not empty, and stays within the table.
LEMMA ChunkType ==
  ASSUME TypeOK, SessionInv, pc \in {"send", "wait"}
  PROVE  /\ pos \in Rows /\ pos \in Nat
         /\ ChunkSize \in 1 .. N /\ pos + ChunkSize \in 1 .. N /\ ChunkSize <= Chunk
         /\ Body \in Bodies
         /\ \A i \in Rows : InChunk(i) <=> pos <= i /\ i < pos + ChunkSize
<1>1. pos \in Rows /\ pos \in Nat /\ N \in Nat /\ Chunk \in Nat \ {0}
  BY MsrAssumption DEF TypeOK, SessionInv, Rows
<1>2. ChunkSize \in 1 .. N /\ pos + ChunkSize \in 1 .. N /\ ChunkSize <= Chunk
  BY <1>1 DEF ChunkSize, Least, Rows
<1>3. Gateways[pos] \in 1..255
  BY <1>1, MsrAssumption DEF Rows
<1>4. Body \in Bodies
  BY <1>1, <1>2, <1>3 DEF Body, Bodies
<1>5. \A i \in Rows : InChunk(i) <=> pos <= i /\ i < pos + ChunkSize
  BY <1>1, <1>2 DEF InChunk, Rows
<1> QED
  BY <1>1, <1>2, <1>4, <1>5

-----------------------------------------------------------------------------
(* Types                                                                   *)

\* Every action keeps the types.
LEMMA TypeStep ==
  ASSUME TypeOK, SessionInv, [Next]_vars
  PROVE  TypeOK'
<1> USE DEF TypeOK
<1>0. rxq \in Seq(Replies) /\ back \subseteq Replies
  OBVIOUS
<1>1. NoConn \in [Rows -> MsrRows]
  <2>1. ASSUME NEW i \in Rows
        PROVE  [rows[i] EXCEPT !.qual = "NOCONN", !.ts = time] \in MsrRows
    <3>1. rows[i] \in MsrRows /\ time \in Int
      OBVIOUS
    <3> QED
      BY <3>1 DEF MsrRows
  <2> QED
    BY <2>1 DEF NoConn
<1>2. CASE Connect \/ ConnectFails
  BY <1>1, <1>2 DEF Connect, ConnectFails, netvars
<1>3. Following(nout) \in 0 .. SeqMod-1 /\ nreq + 1 \in Nat
  BY ModRange, ExchangeAssumption DEF Following
<1>4. CASE Send
  <2>1. Body \in Bodies
    BY <1>4, ChunkType DEF Send
  <2>2. nreq' \in Nat /\ nout' \in 0 .. SeqMod-1
    BY <1>3, <1>4 DEF Send, Request
  <2>3. [ord |-> nreq', num |-> nout', body |-> Body] \in Requests
    BY <2>1, <2>2 DEF Requests
  <2>4. wire' \subseteq Requests /\ back' \subseteq Replies /\ rxq' \in Seq(Replies)
    BY <1>4, <2>3 DEF Send, Request, Kept
  <2> QED
    BY <1>4, <2>2, <2>4 DEF Send
<1>5. ASSUME Abort
      PROVE  rows' \in [Rows -> MsrRows] /\ pc' = "down" /\ UNCHANGED <<pos, result, time>>
  <2>1. ASSUME NEW i \in Rows
        PROVE  [rows[i] EXCEPT !.qual = "NOCONN", !.ts = Stamp] \in MsrRows
    <3>1. rows[i] \in MsrRows /\ Stamp \in Int
      BY DEF Stamp
    <3> QED
      BY <3>1 DEF MsrRows
  <2> QED
    BY <1>5, <2>1 DEF Abort, Unread
<1>6. CASE SendFails
  <2>1. nreq' \in Nat /\ nout' \in 0 .. SeqMod-1
    BY <1>3, <1>6 DEF SendFails, RequestFails
  <2>2. wire' \subseteq Requests /\ back' \subseteq Replies /\ rxq' \in Seq(Replies)
    BY <1>6 DEF SendFails, RequestFails, Kept
  <2> QED
    BY <1>5, <1>6, <2>1, <2>2 DEF SendFails
<1>7. CASE ReceiveFails \/ Refuse
  <2>1. rxq' \in Seq(Replies)
    BY <1>0, <1>7, NothingTaken, HeadTaken DEF ReceiveFails, Refuse
  <2> QED
    BY <1>5, <1>7, <2>1 DEF ReceiveFails, Refuse, TakeNothing, TakeHead
<1>8. CASE ReceiveChunk
  <2>1. rxq' \in Seq(Replies) /\ Head(rxq) \in Replies
    BY <1>0, <1>8, HeadTaken DEF ReceiveChunk
  <2>2. pos + ChunkSize \in 1 .. N /\ pos \in Nat
    BY <1>8, ChunkType DEF ReceiveChunk
  <2>3. ASSUME NEW i \in Rows, InChunk(i)
        PROVE  /\ ListValue(Head(rxq), i - pos) \in Value
               /\ ListQual(Head(rxq), i - pos) \in {"OK", "INVALID"}
    <3>1. i - pos \in Nat
      BY <1>8, <2>2, <2>3, ChunkType DEF ReceiveChunk, Rows
    <3>2. Head(rxq).body.pos \in Nat /\ Head(rxq).body.gw \in Nat /\ Head(rxq).data \in Nat
      <4>1. Head(rxq).body \in Bodies /\ Head(rxq).data \in Nat
        BY <2>1 DEF Replies
      <4>2. Rows \subseteq Nat /\ 1..255 \subseteq Nat
        BY MsrAssumption DEF Rows
      <4> QED
        BY <4>1, <4>2 DEF Bodies
    <3>3. Head(rxq).body.pos + (i - pos) \in Nat
      BY <3>1, <3>2
    <3> QED
      BY <3>2, <3>3 DEF ListValue, ListQual, Value
  <2>4. rows' \in [Rows -> MsrRows]
    BY <1>8, <2>3 DEF ReceiveChunk, MsrRows, Stamp
  <2>5. pos' \in 0..N
    <3>1. pos' = pos + ChunkSize
      BY <1>8 DEF ReceiveChunk
    <3> QED
      BY <2>2, <3>1, MsrAssumption
  <2> QED
    BY <1>8, <2>1, <2>4, <2>5 DEF ReceiveChunk, TakeHead
<1>9. CASE LinkDown
  BY <1>9 DEF LinkDown, Close
<1>10. CASE Answer
  <2>1. PICK m \in wire : PutReply(m, ReplyTo(m, m.num, time))
    BY <1>10 DEF Answer
  <2>2. ReplyTo(m, m.num, time) \in Replies
    BY DEF ReplyTo, Replies, Requests
  <2> QED
    BY <1>10, <2>1, <2>2 DEF Answer, PutReply, Handed
<1>11. CASE Arrive
  <2>1. rxq' \in Seq(Replies)
    BY <1>0, <1>11, Delivered DEF Arrive
  <2> QED
    BY <1>11, <2>1 DEF Arrive, Deliver, Handed
<1>12. CASE Tick
  BY <1>12 DEF Tick, netvars
<1>13. CASE UNCHANGED vars
  BY <1>13 DEF vars, netvars
<1> QED
  BY <1>2, <1>4, <1>6, <1>7, <1>8, <1>9, <1>10, <1>11, <1>12, <1>13
     DEF Next, Utility, Done

-----------------------------------------------------------------------------
(* The session and the network                                             *)

\* Every action keeps the session at the start of a chunk or at the end.
LEMMA SessionStep ==
  ASSUME TypeOK, SessionInv, [Next]_vars
  PROVE  SessionInv'
<1> USE DEF SessionInv
<1>1. CASE Connect \/ ConnectFails
  BY <1>1 DEF Connect, ConnectFails, netvars
<1>2. CASE Send
  BY <1>2 DEF Send
<1>3. CASE SendFails \/ ReceiveFails \/ Refuse
  BY <1>3 DEF SendFails, ReceiveFails, Refuse, Abort
<1>4. CASE ReceiveChunk
  <2>1. pos + ChunkSize \in 1 .. N /\ pos \in Nat /\ N \in Nat /\ Chunk \in Nat
    BY <1>4, ChunkType, MsrAssumption DEF ReceiveChunk
  <2>2. /\ pos' = pos + ChunkSize
        /\ pc' = IF pos' < N THEN "send" ELSE "down"
        /\ result' = IF pos' < N THEN 0 ELSE 1
        /\ pc = "wait"
    BY <1>4 DEF ReceiveChunk
  <2>3. PICK q \in Nat : pos = Chunk * q
    BY <2>1, <2>2
  <2>4. ASSUME pos' # N
        PROVE  pos' = Chunk * (q + 1)
    <3>1. ChunkSize = Chunk
      BY <2>1, <2>2, <2>4 DEF ChunkSize, Least
    <3> QED
      BY <2>1, <2>2, <2>3, <3>1
  <2>5. pos' # N => \E p \in Nat : pos' = Chunk * p
    <3>1. q + 1 \in Nat
      OBVIOUS
    <3> QED
      BY <2>4, <3>1
  <2>6. pc' # "connect" /\ (pc' = "send" => pos' < N) /\ pc' # "wait"
    BY <2>2
  <2>7. result' = 1 <=> pos' = N
    BY <2>1, <2>2
  <2> QED
    BY <2>5, <2>6, <2>7
<1>5. CASE LinkDown
  BY <1>5 DEF LinkDown
<1>6. CASE Answer \/ Arrive
  BY <1>6 DEF Answer, Arrive, LinkIsUp
<1>7. CASE Tick \/ UNCHANGED vars
  BY <1>7 DEF Tick, vars, netvars
<1> QED
  BY <1>1, <1>2, <1>3, <1>4, <1>5, <1>6, <1>7 DEF Next, Utility, Done

\* Every action keeps the network's invariant.
LEMMA NetStep ==
  ASSUME TypeOK, NetInv, [Next]_vars
  PROVE  NetInv'
<1>0. nreq \in Nat /\ rxq \in Seq(Replies) /\ back \subseteq Replies
  BY DEF TypeOK
<1>1. CASE UNCHANGED netvars
  BY <1>1 DEF NetInv, Queued, netvars
<1>2. CASE Send \/ SendFails
  BY <1>0, <1>2, NetRequest DEF Send, SendFails
<1>3. CASE TakeNothing
  BY <1>0, <1>3, NothingTaken, NetShrinks DEF TakeNothing
<1>4. CASE TakeHead
  BY <1>0, <1>4, HeadTaken, NetShrinks DEF TakeHead
<1>5. CASE Close
  BY <1>5 DEF Close, NetInv, Queued
<1>6. CASE Answer
  BY <1>6, NetReply DEF Answer
<1>7. CASE Arrive
  BY <1>0, <1>7, NetDeliver DEF Arrive
<1> QED
  BY <1>1, <1>2, <1>3, <1>4, <1>5, <1>6, <1>7
     DEF Next, Utility, Done, Connect, ConnectFails, ReceiveFails, Refuse, ReceiveChunk,
         LinkDown, Tick, vars

\* The reply that process_request accepts is the reply to the last request.
LEMMA AcceptedIsOwn ==
  ASSUME TypeOK, NetInv, QueueInv, CurrentInv, NumbersSuffice, pc = "wait",
         TakeHead, Matches(Head(rxq))
  PROVE  /\ Head(rxq).ord = nreq /\ Head(rxq).body = Body
         /\ Head(rxq) \in Queued /\ Head(rxq) \in Replies
<1>1. /\ Head(rxq) = rxq[1] /\ rxq[1] \in Queued /\ rxq[1] \in Replies
      /\ Len(rxq) \in Nat \ {0} /\ nreq \in Nat
  BY HeadTaken DEF TypeOK
<1>2. rxq[1].num = nout /\ 1 \in 1 .. Len(rxq)
  BY <1>1 DEF Matches
<1>3. rxq[1].ord = nreq
  BY <1>1, <1>2, NumberIdentifies DEF QueueInv, NumbersSuffice
<1> QED
  BY <1>1, <1>3 DEF CurrentInv

\* Every action keeps the bound on the age of the queue's datagrams.
LEMMA QueueStep ==
  ASSUME TypeOK, SessionInv, NetInv, QueueInv, CurrentInv, [Next]_vars
  PROVE  QueueInv'
<1> SUFFICES ASSUME MaxAge + 1 < SeqMod
             PROVE  (pc' = "send" => Young') /\ (pc' = "wait" => Awaiting')
  BY DEF QueueInv
<1>0. nreq \in Nat /\ rxq \in Seq(Replies) /\ back \subseteq Replies
  BY DEF TypeOK
<1>1. CASE UNCHANGED <<nreq, rxq, pc>>
  BY <1>1 DEF QueueInv, Young, Awaiting
<1>2. CASE Connect
  BY <1>2 DEF Connect, netvars, SessionInv, Young
<1>3. CASE Send
  BY <1>0, <1>3, YoungAwaits DEF Send, QueueInv
<1>4. CASE pc' \in {"down", "done"}
  BY <1>4
<1>5. CASE ReceiveChunk /\ pc' = "send"
  <2>1. Head(rxq).ord = nreq
    BY <1>5, AcceptedIsOwn DEF ReceiveChunk, NumbersSuffice
  <2> QED
    BY <1>0, <1>5, <2>1, RestIsYoung DEF ReceiveChunk, QueueInv
<1>6. CASE Arrive
  BY <1>0, <1>6, DeliverKeepsAge DEF Arrive, QueueInv
<1> QED
  BY <1>1, <1>2, <1>3, <1>4, <1>5, <1>6
     DEF Next, Utility, Done, ConnectFails, SendFails, ReceiveFails, Refuse, Abort,
         ReceiveChunk, LinkDown, Tick, Answer, PutReply, vars, netvars

\* What is queued or on its way after a step: of the last request only what
\* was there before, or what the device answers now.
LEMMA RepliesAfter ==
  ASSUME TypeOK, NetInv, [Next]_vars
  PROVE  \A m \in back' \cup Queued' :
           \/ m \in back \cup Queued
           \/ Answer /\ m.data = time
<1>0. rxq \in Seq(Replies) /\ back \subseteq Replies
  BY DEF TypeOK
<1>1. CASE Send \/ SendFails
  BY <1>1 DEF Send, SendFails, Request, RequestFails, Kept, Queued
<1>2. CASE TakeNothing \/ TakeHead
  BY <1>0, <1>2, NothingTaken, HeadTaken DEF TakeNothing, TakeHead
<1>3. CASE Arrive
  BY <1>0, <1>3, Delivered DEF Arrive, Deliver, Handed
<1>4. CASE Close
  BY <1>4 DEF Close, Queued
<1>5. CASE UNCHANGED netvars
  BY <1>5 DEF netvars, Queued
<1>6. CASE Answer
  <2>1. PICK m \in wire : PutReply(m, ReplyTo(m, m.num, time))
    BY <1>6 DEF Answer
  <2>2. Queued' = Queued /\ back' = back \cup {ReplyTo(m, m.num, time)}
    BY <2>1 DEF PutReply, Queued
  <2> QED
    BY <1>6, <2>2 DEF ReplyTo
<1> QED
  BY <1>1, <1>2, <1>3, <1>4, <1>5, <1>6
     DEF Next, Utility, Done, Connect, ConnectFails, ReceiveFails, Refuse, ReceiveChunk,
         LinkDown, Tick, vars

\* Every action keeps it that messages of the last request carry its body.
LEMMA CurrentStep ==
  ASSUME TypeOK, NetInv, CurrentInv, [Next]_vars
  PROVE  CurrentInv'
<1> USE DEF Body, ChunkSize
<1>0. rxq \in Seq(Replies) /\ back \subseteq Replies
  BY DEF TypeOK
<1>1. CASE UNCHANGED <<netvars, pc, pos>>
  BY <1>1 DEF netvars, CurrentInv, Queued
<1>2. CASE pc' # "wait"
  BY <1>2 DEF CurrentInv
<1>3. CASE Send
  <2>1. /\ nreq' = nreq + 1 /\ Queued' = Queued /\ back' \subseteq back
        /\ \A m \in wire' : m \in wire \/ m.body = Body
    BY <1>3 DEF Send, Request, Kept, Queued
  <2>2. Body' = Body
    BY <1>3 DEF Send
  <2>3. nreq \in Nat /\ \A m \in wire \cup back \cup Queued : m.ord \in 1 .. nreq
    BY DEF TypeOK, NetInv
  <2> QED
    BY <2>1, <2>2, <2>3 DEF CurrentInv
<1>4. CASE Answer
  <2>1. PICK m \in wire : PutReply(m, ReplyTo(m, m.num, time))
    BY <1>4 DEF Answer
  <2>2. Queued' = Queued /\ Body' = Body
    BY <1>4, <2>1 DEF Answer, PutReply, Queued
  <2> QED
    BY <1>4, <2>1, <2>2 DEF Answer, PutReply, Handed, ReplyTo, CurrentInv
<1>5. CASE Arrive
  <2>1. Body' = Body
    BY <1>5 DEF Arrive
  <2> QED
    BY <1>0, <1>5, <2>1, Delivered DEF Arrive, Deliver, Handed, CurrentInv
<1> QED
  BY <1>1, <1>2, <1>3, <1>4, <1>5
     DEF Next, Utility, Done, Connect, ConnectFails, SendFails, ReceiveFails, Refuse,
         Abort, ReceiveChunk, LinkDown, Tick, vars

\* Nothing is answered in the future.
LEMMA ClockStep ==
  ASSUME TypeOK, NetInv, ClockInv, [Next]_vars
  PROVE  ClockInv'
<1>1. time \in Nat /\ time' >= time
  BY DEF TypeOK, Next, Utility, Done, Connect, ConnectFails, Send, SendFails, ReceiveFails,
         Refuse, Abort, ReceiveChunk, LinkDown, Answer, Arrive, Tick, vars
<1>2. \A m \in back \cup Queued : m.data \in Nat
  BY QueuedAre DEF TypeOK, Replies
<1>3. time' \in Nat
  BY <1>1 DEF Next, Utility, Done, Connect, ConnectFails, Send, SendFails, ReceiveFails,
         Refuse, Abort, ReceiveChunk, LinkDown, Answer, Arrive, Tick, vars
<1> QED
  BY <1>1, <1>2, <1>3, RepliesAfter DEF ClockInv

-----------------------------------------------------------------------------
(* The rows                                                                *)

\* What becomes of a row that is marked as not read.
LEMMA MarkedRow ==
  ASSUME TypeOK, NEW i \in Rows,
         rows'[i] = [rows[i] EXCEPT !.qual = "NOCONN", !.ts = time]
  PROVE  rows'[i].qual = "NOCONN" /\ rows'[i].value = rows[i].value /\ rows'[i].ts = time
<1>1. rows[i] \in MsrRows
  BY DEF TypeOK
<1> QED
  BY <1>1 DEF MsrRows

\* What a step makes of a row: the chunk's rows get the reply's elements and
\* the host's time, other answers stay, and a failure answers nothing.
LEMMA RowsAfter ==
  ASSUME TypeOK, SessionInv, RowsInv, [Next]_vars, NEW i \in Rows
  PROVE  \/ /\ ReceiveChunk /\ InChunk(i)
            /\ rows'[i] = [qual |-> ListQual(Head(rxq), i - pos),
                           value |-> ListValue(Head(rxq), i - pos), ts |-> time]
         \/ /\ ~(ReceiveChunk /\ InChunk(i))
            /\ \/ rows'[i] = rows[i]
               \/ /\ ~Answered(i) /\ rows[i].value = Zero
                  /\ rows'[i].qual = "NOCONN" /\ rows'[i].value = Zero
                  /\ rows'[i].ts = time
<1>1. rows[i] \in MsrRows
  BY DEF TypeOK
<1>2. CASE rows' = NoConn /\ pc = "connect"
  <2>1. rows'[i] = [rows[i] EXCEPT !.qual = "NOCONN", !.ts = time]
    BY <1>2 DEF NoConn
  <2>2. rows[i].qual = "UNK" /\ rows[i].value = Zero
    BY <1>2 DEF RowsInv
  <2>3. rows'[i].qual = "NOCONN" /\ rows'[i].value = Zero /\ rows'[i].ts = time
    BY <1>1, <2>1, <2>2, MarkedRow
  <2> QED
    BY <1>2, <2>2, <2>3 DEF Answered, ReceiveChunk
<1>3. CASE Abort /\ pc \in {"send", "wait"} /\ ~ReceiveChunk
  <2>1. CASE InChunk(i)
    <3>1. ~(i < pos)
      BY <1>3, <2>1, ChunkType, MsrAssumption DEF Rows
    <3>2. ~Answered(i) /\ rows[i].value = Zero
      BY <1>3, <3>1 DEF RowsInv
    <3>3. rows'[i] = [rows[i] EXCEPT !.qual = "NOCONN", !.ts = time]
      BY <1>3, <2>1 DEF Abort, Unread, Stamp
    <3> QED
      BY <1>1, <1>3, <3>2, <3>3, MarkedRow
  <2>2. CASE ~InChunk(i)
    BY <1>3, <2>2 DEF Abort, Unread
  <2> QED
    BY <2>1, <2>2
<1>4. CASE ReceiveChunk
  BY <1>4 DEF ReceiveChunk, Stamp
<1>5. CASE rows' = rows /\ ~ReceiveChunk
  BY <1>5
<1>6. ReceiveChunk => pc' # "down" \/ pos' # pos
  <2>1. ReceiveChunk => pos \in Nat /\ ChunkSize \in 1 .. N /\ pos' = pos + ChunkSize
    BY ChunkType DEF ReceiveChunk
  <2> QED
    BY <2>1
<1> QED
  BY <1>2, <1>3, <1>4, <1>5, <1>6
     DEF Next, Utility, Done, Connect, ConnectFails, Send, SendFails, ReceiveFails, Refuse,
         LinkDown, Answer, Arrive, Tick, vars, Abort

\* A reply's element is an answer.
LEMMA ElementAnswers ==
  ASSUME NEW m, NEW k
  PROVE  ListQual(m, k) \in {"OK", "INVALID"}
  BY DEF ListQual

\* Answers are a prefix of the table and grow by whole chunks.
LEMMA RowsStep ==
  ASSUME TypeOK, SessionInv, RowsInv, [Next]_vars
  PROVE  RowsInv'
<1>1. pc' = "connect" => pc = "connect" /\ rows' = rows
  BY DEF Next, Utility, Done, Connect, ConnectFails, Send, SendFails, ReceiveFails, Refuse,
         Abort, ReceiveChunk, LinkDown, Answer, Arrive, Tick, vars
<1>2. CASE pc' = "connect"
  BY <1>1, <1>2 DEF RowsInv
<1>3. CASE pc' # "connect" /\ pc = "connect"
  <2>1. rows' = NoConn /\ pos' = 0
    <3>1. Connect \/ ConnectFails
      BY <1>3 DEF Next, Utility, Done, Send, SendFails, ReceiveFails, Refuse, ReceiveChunk,
           LinkDown, Answer, Arrive, Tick, vars
    <3> QED
      BY <3>1 DEF Connect, ConnectFails, SessionInv
  <2>2. \A i \in Rows : rows'[i].qual = "NOCONN" /\ rows'[i].value = Zero /\ rows'[i].ts >= 0
    <3>1. time >= 0
      BY DEF TypeOK
    <3>2. ASSUME NEW i \in Rows
          PROVE  rows'[i].qual = "NOCONN" /\ rows'[i].value = Zero /\ rows'[i].ts = time
      <4>1. rows[i] \in MsrRows /\ rows[i].value = Zero
        BY <1>3 DEF TypeOK, RowsInv
      <4>2. rows'[i] = [rows[i] EXCEPT !.qual = "NOCONN", !.ts = time]
        BY <2>1 DEF NoConn
      <4> QED
        BY <4>1, <4>2, MarkedRow
    <3> QED
      BY <3>1, <3>2
  <2>3. \A i \in Rows : ~(i < 0)
    BY MsrAssumption DEF Rows
  <2> QED
    BY <1>3, <2>1, <2>2, <2>3 DEF RowsInv, Answered
<1>4. CASE pc # "connect" /\ ~ReceiveChunk
  <2>1. pos' = pos /\ pc' # "connect"
    BY <1>1, <1>4 DEF Next, Utility, Done, Connect, ConnectFails, Send, SendFails, ReceiveFails,
         Refuse, Abort, LinkDown, Answer, Arrive, Tick, vars
  <2>2. \A i \in Rows : \/ rows'[i] = rows[i]
                        \/ /\ ~Answered(i)
                           /\ rows'[i].qual = "NOCONN" /\ rows'[i].value = Zero
                           /\ rows'[i].ts = time
    BY <1>4, RowsAfter
  <2>3. time >= 0
    BY DEF TypeOK
  <2> QED
    BY <1>4, <2>1, <2>2, <2>3 DEF RowsInv, Answered
<1>5. CASE ReceiveChunk
  <2>1. /\ pos \in Nat /\ ChunkSize \in 1 .. N /\ pos' = pos + ChunkSize
        /\ pc # "connect" /\ pc' # "connect"
        /\ \A i \in Rows : InChunk(i) <=> pos <= i /\ i < pos + ChunkSize
    BY <1>5, ChunkType DEF ReceiveChunk
  <2>2. ASSUME NEW i \in Rows
        PROVE  /\ Answered(i)' <=> i < pos'
               /\ ~Answered(i)' =>
                    rows'[i].qual = "NOCONN" /\ rows'[i].value = Zero /\ rows'[i].ts >= 0
    <3>1. i \in Nat /\ N \in Nat
      BY MsrAssumption DEF Rows
    <3>2. CASE InChunk(i)
      <4>1. rows'[i].qual \in {"OK", "INVALID"}
        BY <1>5, <3>2, ElementAnswers DEF ReceiveChunk
      <4> QED
        BY <2>1, <3>1, <3>2, <4>1 DEF Answered
    <3>3. CASE ~InChunk(i)
      <4>1. rows'[i] = rows[i]
        BY <1>5, <3>3 DEF ReceiveChunk
      <4>2. i < pos' <=> i < pos
        BY <2>1, <3>1, <3>3
      <4> QED
        BY <2>1, <4>1, <4>2 DEF RowsInv, Answered
    <3> QED
      BY <3>2, <3>3
  <2> QED
    BY <2>1, <2>2 DEF RowsInv
<1> QED
  BY <1>2, <1>3, <1>4, <1>5

-----------------------------------------------------------------------------
(* The values                                                              *)

\* What suffices after a step sufficed before it: numbers only grow.
LEMMA SufficedBefore ==
  ASSUME TypeOK, [Next]_vars, NumbersSuffice'
  PROVE  NumbersSuffice
<1>1. nreq' = nreq \/ nreq' = nreq + 1
  BY DEF Next, Utility, Done, Connect, ConnectFails, Send, SendFails, ReceiveFails, Refuse,
         ReceiveChunk, LinkDown, Answer, Arrive, Tick, vars, netvars, Request, RequestFails,
         TakeHead, TakeNothing, Close, PutReply, Deliver
<1> QED
  BY <1>1, ExchangeAssumption DEF NumbersSuffice, TypeOK


\* What the rows of a chunk get: their own values, read at the moment of the
\* reply and after every stamp in the table.
LEMMA ChunkReceived ==
  ASSUME MInv, NumbersSuffice, ReceiveChunk
  PROVE  \E t \in 0 .. time :
           /\ \A i \in Rows : InChunk(i) =>
                /\ rows'[i].qual = RowAt(i, t).qual /\ rows'[i].value = RowAt(i, t).value
                /\ rows'[i].ts = time
           /\ \A i \in Rows : Answered(i) => rows[i].ts <= t
<1> DEFINE t == Head(rxq).data
<1> USE DEF MInv
<1>1. Head(rxq).body = Body /\ Head(rxq).ord = nreq /\ Head(rxq) \in Queued
      /\ Head(rxq) \in Replies
  BY AcceptedIsOwn DEF ReceiveChunk
<1>2. t \in 0 .. time
  BY <1>1 DEF ClockInv, Replies, TypeOK
<1>3. PICK q \in Nat : pos = Chunk * q
  BY MsrAssumption DEF SessionInv, ReceiveChunk, TypeOK
<1>4. ASSUME NEW i \in Rows, InChunk(i)
      PROVE  /\ rows'[i].qual = RowAt(i, t).qual /\ rows'[i].value = RowAt(i, t).value
             /\ rows'[i].ts = time
  <2>1. /\ i \in Nat /\ pos \in Nat /\ ChunkSize \in Nat /\ ChunkSize <= Chunk
        /\ pos <= i /\ i < pos + ChunkSize /\ Chunk \in Nat \ {0}
    BY <1>4, ChunkType, MsrAssumption DEF Rows, ReceiveChunk
  <2>2. i \div Chunk = q
    BY <1>3, <2>1, QuotientOfChunk
  <2>3. q * Chunk = pos
    BY <1>3, <2>1
  <2>4. Head(rxq).body.pos + (i - pos) = i /\ Head(rxq).body.gw = Gateways[pos]
    BY <1>1, <2>1 DEF Body
  <2>5. /\ ListQual(Head(rxq), i - pos) = RowAt(i, t).qual
        /\ ListValue(Head(rxq), i - pos) = RowAt(i, t).value
    BY <2>2, <2>3, <2>4 DEF ListQual, ListValue, RowAt
  <2> QED
    BY <1>4, <2>5 DEF ReceiveChunk, Stamp
<1>5. \A i \in Rows : Answered(i) => rows[i].ts <= t
  BY <1>1 DEF ValueInv, Timely, ReceiveChunk
<1> HIDE DEF t
<1> QED
  BY <1>2, <1>4, <1>5

\* Every action keeps values and stamps in order.
LEMMA ValueStep ==
  ASSUME MInv, [Next]_vars
  PROVE  ValueInv'
<1> SUFFICES ASSUME NumbersSuffice', NEW i \in Rows, Answered(i)'
             PROVE  rows'[i].value.row = i /\ Timely(i)'
  BY DEF ValueInv
<1> USE DEF MInv
<1>1. NumbersSuffice
  BY SufficedBefore
<1>2. time \in Nat /\ time' \in Nat /\ time <= time'
  BY DEF TypeOK, Next, Utility, Done, Connect, ConnectFails, Send, SendFails, ReceiveFails,
         Refuse, Abort, ReceiveChunk, LinkDown, Answer, Arrive, Tick, vars
<1>3. ASSUME NEW j \in Rows, Answered(j), ~(ReceiveChunk /\ InChunk(j))
      PROVE  rows'[j] = rows[j]
  BY <1>3, RowsAfter
<1>4. ASSUME NEW j \in Rows, ~(ReceiveChunk /\ InChunk(j)), Answered(j)'
      PROVE  Answered(j) /\ rows'[j] = rows[j]
  BY <1>4, RowsAfter DEF Answered
<1>5. rows[i].ts \in Int /\ \A j \in Rows : rows[j].ts \in Int
  BY DEF TypeOK, MsrRows
<1>6. CASE ~(ReceiveChunk /\ InChunk(i))
  <2>1. Answered(i) /\ rows'[i] = rows[i]
    BY <1>4, <1>6
  <2>2. rows[i].value.row = i /\ Timely(i)
    BY <1>1, <2>1 DEF ValueInv
  <2>3. ASSUME NEW j \in Rows, Answered(j)', i \div Chunk < j \div Chunk
        PROVE  rows[i].ts <= rows'[j].value.at
    <3>1. CASE ~(ReceiveChunk /\ InChunk(j))
      BY <1>4, <2>2, <2>3, <3>1 DEF Timely
    <3>2. CASE ReceiveChunk /\ InChunk(j)
      <4>1. PICK t \in 0 .. time :
              /\ \A k \in Rows : InChunk(k) =>
                   /\ rows'[k].qual = RowAt(k, t).qual /\ rows'[k].value = RowAt(k, t).value
                   /\ rows'[k].ts = time
              /\ \A k \in Rows : Answered(k) => rows[k].ts <= t
        BY <1>1, <3>2, ChunkReceived
      <4>2. rows'[j].value.at = t
        <5>1. rows'[j].value = RowAt(j, t).value
          BY <3>2, <4>1
        <5> QED
          BY <5>1 DEF RowAt
      <4> QED
        BY <2>1, <4>1, <4>2
    <3> QED
      BY <3>1, <3>2
  <2>4. ASSUME pc' = "wait", NEW m \in back' \cup Queued', m.ord = nreq'
        PROVE  rows[i].ts <= m.data
    <3>1. CASE Send
      <4>1. m \in back \cup Queued
        BY <2>4, <3>1, RepliesAfter DEF Send, Answer, LinkIsUp, Request, Kept, Queued
      <4>2. m.ord \in 1 .. nreq /\ nreq' = nreq + 1 /\ nreq \in Nat
        BY <3>1, <4>1 DEF NetInv, Send, Request, TypeOK
      <4> QED
        BY <2>4, <4>2
    <3>2. CASE ~Send
      <4>1. pc = "wait" /\ nreq' = nreq
        BY <2>4, <3>2 DEF Next, Utility, Done, Connect, ConnectFails, SendFails, ReceiveFails,
           Refuse, Abort, ReceiveChunk, LinkDown, Answer, Arrive, Tick, vars, netvars,
           PutReply, Deliver
      <4>2. m \in back \cup Queued \/ m.data = time
        BY <2>4, RepliesAfter
      <4> QED
        BY <2>2, <2>4, <4>1, <4>2 DEF Timely
    <3> QED
      BY <3>1, <3>2
  <2>5. rows[i].ts <= time'
    BY <1>2, <1>5, <2>2 DEF Timely
  <2> QED
    BY <2>1, <2>2, <2>3, <2>4, <2>5 DEF Timely
<1>7. CASE ReceiveChunk /\ InChunk(i)
  <2>1. PICK t \in 0 .. time :
          \A k \in Rows : InChunk(k) =>
            /\ rows'[k].qual = RowAt(k, t).qual /\ rows'[k].value = RowAt(k, t).value
            /\ rows'[k].ts = time
    BY <1>1, <1>7, ChunkReceived
  <2>2. rows'[i].value.row = i /\ rows'[i].value.at = t /\ rows'[i].ts = time
    <3>1. rows'[i].value = RowAt(i, t).value /\ rows'[i].ts = time
      BY <1>7, <2>1
    <3> QED
      BY <3>1 DEF RowAt
  <2>3. ASSUME NEW j \in Rows, Answered(j)'
        PROVE  ~(i \div Chunk < j \div Chunk)
    <3>1. /\ pos \in Nat /\ ChunkSize \in Nat /\ ChunkSize <= Chunk /\ Chunk \in Nat \ {0}
          /\ i \in Nat /\ j \in Nat /\ pos <= i /\ i < pos + ChunkSize
          /\ InChunk(j) <=> pos <= j /\ j < pos + ChunkSize
      BY <1>7, ChunkType, MsrAssumption DEF Rows, ReceiveChunk
    <3>2. j < pos \/ InChunk(j)
      BY <1>4, <1>7, <2>3 DEF RowsInv, ReceiveChunk
    <3>3. PICK q \in Nat : pos = Chunk * q
      BY <1>7, MsrAssumption DEF SessionInv, ReceiveChunk, TypeOK
    <3>4. i \div Chunk = q
      BY <3>1, <3>3, QuotientOfChunk
    <3>5. j \div Chunk = q \/ j \div Chunk < q
      BY <3>1, <3>2, <3>3, QuotientOfChunk
    <3>6. j \div Chunk \in Int
      BY <3>1, DivMod
    <3> QED
      BY <3>4, <3>5, <3>6
  <2>4. pc' # "wait" /\ time' = time
    BY <1>7 DEF ReceiveChunk
  <2> QED
    BY <1>2, <2>1, <2>2, <2>3, <2>4 DEF Timely
<1> QED
  BY <1>6, <1>7

-----------------------------------------------------------------------------
(* The theorems                                                            *)

\* The program and the network start in the invariant.
LEMMA InitMInv ==
  ASSUME Init
  PROVE  MInv
<1> USE DEF Init
<1>1. /\ << >> \in Seq(Replies) /\ 0 \in 0 .. SeqMod-1 /\ 0 \in 0..N
      /\ Queued = {} /\ wire = {} /\ back = {} /\ rxq = << >> /\ nout = 0 /\ nreq = 0
  BY ExchangeAssumption, MsrAssumption DEF ExchangeInit, Queued
<1>2. Zero \in Value /\ NoTime \in Int
  BY MsrAssumption DEF Zero, Value, NoTime
<1>3. [i \in Rows |-> [qual |-> "UNK", value |-> Zero, ts |-> NoTime]] \in [Rows -> MsrRows]
  BY <1>2 DEF MsrRows
<1>4. TypeOK
  BY <1>1, <1>3 DEF TypeOK
<1>5. NetInv /\ QueueInv /\ CurrentInv /\ ClockInv
  BY <1>1, NetStart DEF QueueInv, CurrentInv, ClockInv
<1>6. SessionInv
  <2>1. 0 < N /\ 0 # N /\ 0 = Chunk * 0
    BY MsrAssumption
  <2>2. \E q \in Nat : 0 = Chunk * q
    BY <2>1
  <2> QED
    BY <1>1, <2>1, <2>2 DEF SessionInv
<1>7. RowsInv /\ ValueInv
  BY DEF RowsInv, ValueInv, Answered
<1> QED
  BY <1>4, <1>5, <1>6, <1>7 DEF MInv

\* One step keeps the invariant.
LEMMA MInvStep ==
  ASSUME MInv, [Next]_vars
  PROVE  MInv'
<1>1. TypeOK' /\ NetInv' /\ QueueInv' /\ CurrentInv' /\ SessionInv'
  BY TypeStep, NetStep, QueueStep, CurrentStep, SessionStep DEF MInv
<1>2. RowsInv' /\ ClockInv' /\ ValueInv'
  BY RowsStep, ClockStep, ValueStep DEF MInv
<1> QED
  BY <1>1, <1>2 DEF MInv

\* The invariant holds in every reachable state.
LEMMA MInvHolds == Spec => []MInv
<1>1. Init => MInv
  BY InitMInv
<1>2. MInv /\ [Next]_vars => MInv'
  BY MInvStep
<1> QED
  BY <1>1, <1>2, PTL DEF Spec

\* The variables of tekon_msr and of the network keep their types.
THEOREM MsrTypeCorrect == Spec => []TypeOK
<1>1. MInv => TypeOK
  BY DEF MInv
<1> QED
  BY <1>1, MInvHolds, PTL

\* No answered row holds another parameter's value, whatever the network loses,
\* repeats, delays or reorders, as long as the numbers suffice.
THEOREM RowsAreOwn == Spec => []AnsweredFromOwnRow
<1>1. MInv => AnsweredFromOwnRow
  BY DEF MInv, ValueInv, AnsweredFromOwnRow
<1> QED
  BY <1>1, MInvHolds, PTL

\* The host's time stands between the value beside it and the values of the
\* chunks that are read later.
THEOREM StampsAreTimely == Spec => []ValueIsTimely
<1>1. MInv => ValueIsTimely
  BY DEF MInv, ValueInv, Timely, ValueIsTimely
<1> QED
  BY <1>1, MInvHolds, PTL

\* Exit code 0 is for the full table, and what was not read says so.
THEOREM ExitIsTrue == Spec => []ExitTellsAll
<1>1. MInv => ExitTellsAll
  <2> SUFFICES ASSUME MInv, pc = "done"
               PROVE  /\ result = 1 <=> \A i \in Rows : Answered(i)
                      /\ \A i \in Rows : ~Answered(i) =>
                           rows[i].qual = "NOCONN" /\ rows[i].value = Zero /\ rows[i].ts >= 0
    BY DEF ExitTellsAll
  <2>1. \A i \in Rows : Answered(i) <=> i < pos
    BY DEF MInv, RowsInv
  <2>2. pos \in 0..N /\ N \in Nat \ {0} /\ (result = 1 <=> pos = N)
    BY MsrAssumption DEF MInv, TypeOK, SessionInv
  <2>3. (\A i \in Rows : i < pos) <=> pos = N
    <3>1. N-1 \in Rows /\ \A i \in Rows : i < N
      BY <2>2 DEF Rows
    <3> QED
      BY <2>2, <3>1
  <2>4. result = 1 <=> \A i \in Rows : Answered(i)
    BY <2>1, <2>2, <2>3
  <2> QED
    BY <2>4 DEF MInv, RowsInv
<1> QED
  BY <1>1, MInvHolds, PTL

-----------------------------------------------------------------------------
(* The refinement                                                          *)

\* What the abstract reader sees of a row, and of the session.
Shown(i) ==
  IF Answered(i) THEN [qual |-> rows[i].qual, value |-> rows[i].value] ELSE Unanswered
Verdict ==
  IF pc # "done" THEN "reading" ELSE IF result = 1 THEN "complete" ELSE "incomplete"

\* The abstract reader's state does not change.
LEMMA ReaderStutters ==
  ASSUME UNCHANGED <<time, pos, Verdict>>, \A i \in Rows : Shown(i)' = Shown(i)
  PROVE  UNCHANGED Reader!vars
<1>1. [i \in Rows |-> Shown(i)]' = [i \in Rows |-> Shown(i)]
  OBVIOUS
<1> QED
  BY <1>1 DEF Reader!vars, Shown, Verdict

\* Only the reply to a chunk changes what the abstract reader sees of a row.
LEMMA ShownKept ==
  ASSUME TypeOK, SessionInv, RowsInv, [Next]_vars, NEW i \in Rows,
         ~(ReceiveChunk /\ InChunk(i))
  PROVE  Shown(i)' = Shown(i)
  BY RowsAfter DEF Shown, Answered, Unanswered

\* The reply to a chunk is one reading of the abstract reader.
LEMMA ChunkIsRead ==
  ASSUME MInv, NumbersSuffice, ReceiveChunk, [Next]_vars
  PROVE  Reader!Read
<1> USE DEF MInv
<1>1. PICK t \in 0 .. time :
        \A i \in Rows : InChunk(i) =>
          /\ rows'[i].qual = RowAt(i, t).qual /\ rows'[i].value = RowAt(i, t).value
          /\ rows'[i].ts = time
  BY ChunkReceived
<1>2. /\ pos \in Nat /\ ChunkSize \in 1 .. N /\ pos' = pos + ChunkSize /\ pos < N
      /\ pc = "wait" /\ pc' # "done" /\ UNCHANGED time /\ N \in Nat /\ Chunk \in Nat
      /\ \A i \in Rows : InChunk(i) <=> pos <= i /\ i < pos + ChunkSize
  BY ChunkType, MsrAssumption DEF ReceiveChunk, SessionInv
<1>3. pos' = Reader!Upto(pos + Chunk, N)
  BY <1>2 DEF Reader!Upto, ChunkSize, Least
<1>4. ASSUME NEW i \in Rows
      PROVE  Shown(i)' = IF i \in pos .. pos' - 1 THEN RowAt(i, t) ELSE Shown(i)
  <2>1. i \in pos .. pos' - 1 <=> InChunk(i)
    BY <1>2 DEF Rows
  <2>2. CASE InChunk(i)
    <3>1. Answered(i)'
      BY <1>1, <2>2 DEF Answered, RowAt
    <3> QED
      BY <1>1, <2>1, <2>2, <3>1 DEF Shown, RowAt
  <2>3. CASE ~InChunk(i)
    BY <2>1, <2>3, ShownKept
  <2> QED
    BY <2>2, <2>3
<1>5. [i \in Rows |-> Shown(i)]' =
        [i \in Reader!Rows |-> IF i \in pos .. pos' - 1 THEN RowAt(i, t)
                               ELSE [k \in Rows |-> Shown(k)][i]]
  BY <1>4 DEF Reader!Rows, Rows
<1> QED
  BY <1>1, <1>2, <1>3, <1>5 DEF Reader!Read, Shown, Verdict

\* Every step of tekon_msr is a step of the abstract reader, or none.
LEMMA StepIsReader ==
  ASSUME MInv, NumbersSuffice, [Next]_vars
  PROVE  [Reader!Next]_(Reader!vars)
<1> USE DEF MInv
<1>1. ~ReceiveChunk => \A i \in Rows : Shown(i)' = Shown(i)
  BY ShownKept
<1>2. CASE ReceiveChunk
  BY <1>2, ChunkIsRead DEF Reader!Next
<1>3. CASE ~ReceiveChunk /\ pc' # "done" /\ UNCHANGED <<time, pos>>
  <2>1. pc # "done"
    BY <1>3 DEF Next, Utility, Done, Connect, ConnectFails, Send, SendFails, ReceiveFails,
       Refuse, LinkDown, Answer, Arrive, LinkIsUp, Tick, vars
  <2> QED
    BY <1>1, <1>3, <2>1, ReaderStutters DEF Verdict
<1>4. CASE UNCHANGED <<pc, time, pos, result>> /\ ~ReceiveChunk
  BY <1>1, <1>4, ReaderStutters DEF Verdict
<1>5. CASE (ConnectFails \/ LinkDown) /\ ~ReceiveChunk
  <2>1. /\ pc # "done" /\ pc' = "done" /\ UNCHANGED <<time, pos, result>>
        /\ result = 1 => pos = N
    BY <1>5 DEF ConnectFails, LinkDown, SessionInv
  <2>2. [i \in Rows |-> Shown(i)]' = [i \in Rows |-> Shown(i)]
    BY <1>1, <1>5
  <2> QED
    BY <2>1, <2>2 DEF Reader!Next, Reader!Conclude, Shown
<1>6. CASE Tick /\ ~ReceiveChunk
  <2>1. time' = time + 1 /\ UNCHANGED <<pos, pc, result>>
    BY <1>6 DEF Tick
  <2>2. [i \in Rows |-> Shown(i)]' = [i \in Rows |-> Shown(i)]
    BY <1>1, <1>6
  <2> QED
    BY <2>1, <2>2 DEF Reader!Next, Reader!Pass, Shown
<1> QED
  BY <1>2, <1>3, <1>4, <1>5, <1>6
     DEF Next, Utility, Done, Connect, Send, SendFails, ReceiveFails, Refuse, Abort,
         Answer, Arrive, LinkIsUp, vars

\* tekon_msr starts as the abstract reader does.
LEMMA InitIsReader ==
  ASSUME Init
  PROVE  Reader!Init
<1>1. \A i \in Rows : Shown(i) = Unanswered
  BY DEF Init, Shown, Answered
<1>2. [i \in Rows |-> Shown(i)] = [i \in Reader!Rows |-> Unanswered]
  BY <1>1 DEF Reader!Rows, Rows
<1>3. 0 \in Nat /\ time = 0 /\ pos = 0 /\ pc = "connect"
  BY DEF Init
<1> QED
  BY <1>2, <1>3 DEF Reader!Init, Shown

\* tekon_msr implements the abstract reader over every network that forgets a
\* message before its number is in use again: whole chunks of one moment each,
\* in order and once, and success only with the full table.
THEOREM MsrReadsTable ==
  ASSUME MaxAge + 1 < SeqMod
  PROVE  Spec => ReadsTable
<1>1. NumbersSuffice
  BY DEF NumbersSuffice
<1>2. Init => Reader!Init
  BY InitIsReader
<1>3. MInv /\ [Next]_vars => [Reader!Next]_(Reader!vars)
  BY <1>1, StepIsReader
<1> QED
  BY <1>2, <1>3, MInvHolds, PTL DEF Spec, ReadsTable, Reader!Spec
=============================================================================
