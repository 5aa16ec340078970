-------------------------- MODULE ArchRead_proofs ---------------------------
(***************************************************************************)
(* Proofs about ArchRead, for every number of records, chunk size, ring    *)
(* depth and request-number modulus.                                       *)
(*                                                                         *)
(* The inductive invariant says what the network can still hold.  With the *)
(* reply of the last request accepted, nothing in the socket's queue is    *)
(* older than MaxAge requests, because a reply that was queued before the  *)
(* last request would have been met, and refused, first.  So a queued      *)
(* reply is at most MaxAge + 1 requests old when it is looked at, and if   *)
(* that is less than SeqMod its number tells whose reply it is.            *)
(***************************************************************************)
EXTENDS ArchRead, Exchange_proofs

-----------------------------------------------------------------------------
(* The inductive invariant                                                 *)

\* How old the datagrams in the socket's queue can be.
QueueInv ==
  MaxAge + 1 < SeqMod =>
    /\ pc = "send" => Young
    /\ pc = "wait" => Awaiting

\* A message of the last request is about what the utility is waiting for.
CurrentInv ==
  pc = "wait" =>
    \A m \in wire \cup back \cup Queued : m.ord = nreq => m.body = Body

\* Where the session is, and what it has by then.
SessionInv ==
  /\ pc = "connect" => phase = "begin" /\ pos = 0 /\ nreq = 0
  /\ pc = "connect" => wire = {} /\ back = {} /\ rxq = << >>
  /\ pc \in {"send", "wait"} =>
       /\ phase = "begin" => pos = 0 /\ begin = NoTime /\ tsc
       /\ phase = "chunk" => pos < N /\ (tsc <=> begin # NoTime)
       /\ phase = "end" => pos = N /\ tsc /\ begin # NoTime
       /\ result = 0 /\ end = NoTime
  /\ pc = "connect" => result = 0 /\ end = NoTime /\ begin = NoTime
  /\ begin # NoTime => tsc
  /\ end # NoTime => begin # NoTime /\ result = 1
  /\ result = 1 => pos = N /\ pc \in {"convert", "done"}

\* What the records hold apart from the answers.
RecsInv ==
  /\ ReadIsPrefix
  /\ pc = "connect" => \A i \in Records : recs[i].qual = "UNK"
  /\ pc # "done" => \A i \in Records : recs[i].ts = NoTime
  /\ pc = "done" => \A i \in Records :
       recs[i].ts = IF Convertible THEN SeqTime(Index(i), end) ELSE NoTime

ClockInv ==
  /\ origin <= time /\ time <= origin + Span
  /\ \A m \in back \cup Queued : origin <= m.data /\ m.data <= time

\* The clock readings and the moments the answers were given are in order.
OrderInv ==
  NumbersSuffice =>
    /\ begin # NoTime => origin <= begin /\ begin <= time
    /\ end # NoTime => begin <= end /\ end <= time
    /\ pc = "wait" /\ begin # NoTime =>
         \A m \in back \cup Queued : m.ord = nreq => begin <= m.data

AnsweredAt(i, t) ==
  /\ origin <= t /\ t <= time
  /\ recs[i].value = [slot |-> Index(i), period |-> Held(Index(i), t)]
  /\ begin # NoTime => begin <= t
  /\ end # NoTime => t <= end
  /\ pc = "wait" => \A m \in back \cup Queued : m.ord = nreq => t <= m.data

ValueInv ==
  NumbersSuffice =>
    \A i \in Records : Answered(i) => \E t \in Nat : AnsweredAt(i, t)

IInv ==
  /\ TypeOK /\ NetInv /\ QueueInv /\ CurrentInv /\ SessionInv
  /\ RecsInv /\ ClockInv /\ OrderInv /\ ValueInv

-----------------------------------------------------------------------------
(* Types of the data                                                      *)

\* A period is an integer, even one before the device's clock began to count.
LEMMA HeldType ==
  ASSUME NEW s \in Nat, NEW t \in Nat
  PROVE  Held(s, t) \in Int
<1> DEFINE a == t + Ahead - s
<1>1. a \in Int
  BY ArchAssumption
<1> HIDE DEF a
<1>2. a % Depth \in 0 .. Depth-1
  BY <1>1, ModRange, ArchAssumption
<1> QED
  BY <1>2, ArchAssumption DEF Held, a

-----------------------------------------------------------------------------
(* What the actions do to the socket's queue                               *)

\* What is queued are replies.
LEMMA QueuedType ==
  ASSUME TypeOK
  PROVE  Queued \subseteq Replies
  BY QueuedAre DEF TypeOK

\* Reading the head leaves a queue of datagrams that were there before.
LEMMA TakeHeadQueue ==
  ASSUME TypeOK, TakeHead
  PROVE  /\ Head(rxq) = rxq[1] /\ rxq[1] \in Queued /\ rxq[1] \in Replies
         /\ Len(rxq) \in Nat \ {0}
         /\ rxq' \in Seq(Replies)
         /\ Queued' \subseteq Queued
         /\ Len(rxq') = Len(rxq) - 1
         /\ \A k \in 1 .. Len(rxq') : rxq'[k] = rxq[k + 1]
<1>1. rxq \in Seq(Replies)
  BY DEF TypeOK
<1> QED
  BY <1>1, HeadTaken

\* So does reading nothing, or a damaged datagram.
LEMMA TakeNothingQueue ==
  ASSUME TypeOK, TakeNothing
  PROVE  rxq' \in Seq(Replies) /\ Queued' \subseteq Queued
  BY NothingTaken DEF TypeOK

\* A datagram that arrives is put behind the others.
LEMMA DeliverQueue ==
  ASSUME TypeOK, Deliver
  PROVE  /\ rxq' \in Seq(Replies)
         /\ Queued' \subseteq Queued \cup back
         /\ Len(rxq) \in Nat
         /\ Len(rxq') = Len(rxq) + 1
         /\ \A k \in 1 .. Len(rxq) : rxq'[k] = rxq[k]
         /\ rxq'[Len(rxq) + 1] \in back
<1>1. rxq \in Seq(Replies) /\ back \subseteq Replies
  BY DEF TypeOK
<1> QED
  BY <1>1, Delivered

-----------------------------------------------------------------------------
(* Types                                                                   *)

\* What the utility asks for is a request's body, and a chunk stays within
\* the archive.
LEMMA BodyType ==
  ASSUME TypeOK, SessionInv, pc \in {"send", "wait"}
  PROVE  /\ Body \in Bodies
         /\ phase = "chunk" => Body = ChunkBody
         /\ phase = "chunk" => ChunkBody.n \in 1 .. N /\ pos + ChunkBody.n \in 1 .. N
  BY ArchAssumption DEF TypeOK, SessionInv, Body, ChunkBody, TimeBody, Bodies, Least

\* A value of a reply is a value.
LEMMA ListValueType ==
  ASSUME NEW m \in Replies, NEW k \in Nat
  PROVE  ListValue(m, k) \in Value /\ ListQual(m, k) \in {"OK", "INVALID"}
<1>1. Clock \in Value
  BY ArchAssumption DEF Clock, Value
<1>2. m.body.pos \in Nat /\ m.data \in Nat
  BY ArchAssumption DEF Replies, Bodies
<1> DEFINE s == Index(m.body.pos + k)
<1>3. s \in Nat
  BY <1>2, ArchAssumption DEF Index
<1> HIDE DEF s
<1>4. Held(s, m.data) \in Int
  BY <1>2, <1>3, HeldType
<1> QED
  BY <1>1, <1>3, <1>4 DEF ListValue, ListQual, Value, s

\* apply_noconn makes records of records.
LEMMA NoConnType ==
  ASSUME TypeOK
  PROVE  NoConn \in [Records -> Recs]
<1>1. Zero \in Value
  BY ArchAssumption DEF Zero, Value
<1> QED
  BY <1>1 DEF TypeOK, NoConn, Recs, Qualities

\* What a reading of the clock makes of a reply is a period.
LEMMA ReadingType ==
  ASSUME NEW m \in Replies, origin \in Nat
  PROVE  Reading(m) \subseteq Nat
  BY ArchAssumption DEF Reading, Replies, Periods

\* Every action keeps the types.
LEMMA TypeStep ==
  ASSUME TypeOK, SessionInv, [Next]_vars
  PROVE  TypeOK'
<1> USE DEF TypeOK
<1>1. CASE Connect
  <2>1. NoConn \in [Records -> Recs]
    BY NoConnType
  <2> QED
    BY <1>1, <2>1 DEF Connect, netvars
<1>2. CASE ConnectFails
  <2>1. NoConn \in [Records -> Recs]
    BY NoConnType
  <2> QED
    BY <1>2, <2>1 DEF ConnectFails, netvars
<1>3. CASE Send
  <2>1. Body \in Bodies
    BY <1>3, BodyType DEF Send
  <2>2. nreq' \in Nat /\ nout' \in 0 .. SeqMod-1
    BY <1>3, ModRange, ExchangeAssumption DEF Send, Request, Following
  <2>3. [ord |-> nreq', num |-> nout', body |-> Body] \in Requests
    BY <2>1, <2>2 DEF Requests
  <2>4. wire' \subseteq Requests /\ back' \subseteq Replies /\ rxq' \in Seq(Replies)
    BY <1>3, <2>3 DEF Send, Request, Following, Kept
  <2> QED
    BY <1>3, <2>2, <2>4 DEF Send
<1>4. ASSUME Abort PROVE recs' \in [Records -> Recs]
                         /\ pc' = "convert"
                         /\ UNCHANGED <<phase, pos, begin, end, result, tsc, origin, time>>
  BY <1>4 DEF Abort, Unread, Recs, Qualities
<1>5. CASE SendFails
  <2>1. nreq' \in Nat /\ nout' \in 0 .. SeqMod-1
    BY <1>5, ModRange, ExchangeAssumption DEF SendFails, RequestFails, Following
  <2>2. wire' \subseteq Requests /\ back' \subseteq Replies /\ rxq' \in Seq(Replies)
    BY <1>5 DEF SendFails, RequestFails, Following, Kept
  <2> QED
    BY <1>4, <1>5, <2>1, <2>2 DEF SendFails
<1>6. CASE ReceiveFails
  <2>1. rxq' \in Seq(Replies)
    BY <1>6, TakeNothingQueue DEF ReceiveFails
  <2> QED
    BY <1>4, <1>6, <2>1 DEF ReceiveFails, TakeNothing
<1>7. CASE Refuse
  <2>1. rxq' \in Seq(Replies)
    BY <1>7, TakeHeadQueue DEF Refuse
  <2> QED
    BY <1>4, <1>7, <2>1 DEF Refuse, TakeHead
<1>8. CASE ReceiveBegin
  <2>1. rxq' \in Seq(Replies) /\ Head(rxq) \in Replies
    BY <1>8, TakeHeadQueue DEF ReceiveBegin
  <2>2. begin' \in Nat
    BY <1>8, <2>1, ReadingType DEF ReceiveBegin
  <2> QED
    BY <1>8, <2>1, <2>2 DEF ReceiveBegin, TakeHead
<1>9. CASE ReceiveChunk
  <2>1. rxq' \in Seq(Replies) /\ Head(rxq) \in Replies
    BY <1>9, TakeHeadQueue DEF ReceiveChunk
  <2>2. pos + ChunkBody.n \in 1 .. N
    BY <1>9, BodyType DEF ReceiveChunk
  <2>3. ASSUME NEW i \in Records, i \in pos .. pos + ChunkBody.n - 1
        PROVE  /\ ListValue(Head(rxq), i - pos) \in Value
               /\ ListQual(Head(rxq), i - pos) \in Qualities
    <3>1. i - pos \in Nat
      BY <2>3 DEF Records
    <3> QED
      BY <3>1, <2>1, ListValueType DEF Qualities
  <2>4. recs' \in [Records -> Recs]
    BY <1>9, <2>3 DEF ReceiveChunk, Recs
  <2>5. pos' \in 0 .. N
    <3>1. pos' = pos + ChunkBody.n
      BY <1>9 DEF ReceiveChunk
    <3> QED
      BY <3>1, <2>2, ArchAssumption
  <2>6. pc' \in {"send", "convert"} /\ result' \in {0, 1} /\ phase' \in {"chunk", "end"}
    BY <1>9 DEF ReceiveChunk
  <2> QED
    BY <1>9, <2>1, <2>4, <2>5, <2>6 DEF ReceiveChunk, TakeHead
<1>10. CASE ReceiveEnd
  <2>1. rxq' \in Seq(Replies) /\ Head(rxq) \in Replies
    BY <1>10, TakeHeadQueue DEF ReceiveEnd
  <2>2. end' \in Nat
    BY <1>10, <2>1, ReadingType DEF ReceiveEnd
  <2> QED
    BY <1>10, <2>1, <2>2 DEF ReceiveEnd, TakeHead
<1>11. CASE Convert
  <2>1. ASSUME NEW i \in Records, Convertible
        PROVE  SeqTime(Index(i), end) \in Int
    <3>1. Index(i) \in Nat /\ end \in Nat
      BY <2>1, ArchAssumption DEF Convertible, Index, Records
    <3> QED
      BY <3>1, HeldType DEF SeqTime, NoTime
  <2>2. recs' \in [Records -> Recs]
    BY <1>11, <2>1 DEF Convert, Recs
  <2>3. << >> \in Seq(Replies)
    OBVIOUS
  <2> QED
    BY <1>11, <2>2, <2>3 DEF Convert, Close
<1>12. CASE Answer
  <2>1. PICK m \in wire : PutReply(m, ReplyTo(m, m.num, time))
    BY <1>12 DEF Answer
  <2>2. ReplyTo(m, m.num, time) \in Replies
    BY DEF ReplyTo, Replies, Requests
  <2> QED
    BY <1>12, <2>1, <2>2 DEF Answer, PutReply, Handed
<1>13. CASE Arrive
  <2>1. rxq' \in Seq(Replies)
    BY <1>13, DeliverQueue DEF Arrive
  <2> QED
    BY <1>13, <2>1 DEF Arrive, Deliver, Handed
<1>14. CASE Tick
  BY <1>14 DEF Tick, netvars
<1>15. CASE UNCHANGED vars
  BY <1>15 DEF vars, netvars
<1> QED
  BY <1>1, <1>2, <1>3, <1>5, <1>6, <1>7, <1>8, <1>9, <1>10, <1>11, <1>12,
     <1>13, <1>14, <1>15 DEF Next, Utility, Done

-----------------------------------------------------------------------------
(* The session                                                             *)

\* Every action keeps the session's order: clock, chunks, clock, conversion.
LEMMA SessionStep ==
  ASSUME TypeOK, SessionInv, [Next]_vars
  PROVE  SessionInv'
<1> USE DEF TypeOK, SessionInv
<1>1. CASE Connect
  BY <1>1, ArchAssumption DEF Connect, netvars, NoTime
<1>2. CASE ConnectFails
  BY <1>2 DEF ConnectFails, netvars
<1>3. CASE Send
  BY <1>3 DEF Send
<1>4. CASE SendFails
  BY <1>4 DEF SendFails, Abort
<1>5. CASE ReceiveFails
  BY <1>5 DEF ReceiveFails, Abort
<1>6. CASE Refuse
  BY <1>6 DEF Refuse, Abort
<1>7. CASE ReceiveBegin
  <2>1. begin' \in Nat
    BY <1>7, TakeHeadQueue, ReadingType DEF ReceiveBegin
  <2> QED
    BY <1>7, <2>1, ArchAssumption DEF ReceiveBegin, NoTime
<1>8. CASE ReceiveChunk
  <2>1. pos + ChunkBody.n \in 1 .. N
    BY <1>8, BodyType DEF ReceiveChunk
  <2>2. /\ pos' = pos + ChunkBody.n
        /\ pc' = IF pos' < N \/ tsc THEN "send" ELSE "convert"
        /\ result' = IF pos' < N \/ tsc THEN result ELSE 1
        /\ phase' = IF pos' < N THEN "chunk" ELSE "end"
        /\ pc = "wait" /\ phase = "chunk"
        /\ UNCHANGED <<begin, end, tsc>>
    BY <1>8 DEF ReceiveChunk
  <2> QED
    BY <2>1, <2>2, ArchAssumption
<1>9. CASE ReceiveEnd
  <2>1. end' \in Nat
    BY <1>9, TakeHeadQueue, ReadingType DEF ReceiveEnd
  <2> QED
    BY <1>9, <2>1 DEF ReceiveEnd, NoTime
<1>10. CASE Convert
  BY <1>10 DEF Convert
<1>11. CASE Answer
  BY <1>11 DEF Answer, LinkIsUp
<1>12. CASE Arrive
  BY <1>12 DEF Arrive, LinkIsUp
<1>13. CASE Tick
  BY <1>13 DEF Tick, netvars
<1>14. CASE UNCHANGED vars
  BY <1>14 DEF vars, netvars
<1> QED
  BY <1>1, <1>2, <1>3, <1>4, <1>5, <1>6, <1>7, <1>8, <1>9, <1>10, <1>11,
     <1>12, <1>13, <1>14 DEF Next, Utility, Done

-----------------------------------------------------------------------------
(* The network                                                             *)

\* Every action keeps the network's invariant.
LEMMA NetStep ==
  ASSUME TypeOK, NetInv, [Next]_vars
  PROVE  NetInv'
<1>0. nreq \in Nat /\ rxq \in Seq(Replies) /\ back \subseteq Replies
  BY DEF TypeOK
<1>1. CASE UNCHANGED netvars
  BY <1>1 DEF NetInv, Queued, netvars
<1>2. CASE Send
  BY <1>0, <1>2, NetRequest DEF Send
<1>3. CASE SendFails
  BY <1>0, <1>3, NetRequest DEF SendFails
<1>4. CASE TakeNothing
  BY <1>4, TakeNothingQueue, NetShrinks DEF TakeNothing
<1>5. CASE TakeHead
  BY <1>5, TakeHeadQueue, NetShrinks DEF TakeHead
<1>6. CASE Close
  BY <1>6 DEF Close, NetInv, Queued
<1>7. CASE Answer
  BY <1>7, NetReply DEF Answer
<1>8. CASE Arrive
  BY <1>0, <1>8, NetDeliver DEF Arrive
<1> QED
  BY <1>1, <1>2, <1>3, <1>4, <1>5, <1>6, <1>7, <1>8
     DEF Next, Utility, Done, Connect, ConnectFails, ReceiveFails, Refuse,
         ReceiveBegin, ReceiveChunk, ReceiveEnd, Convert, Tick, vars

\* A reply that process_request accepts is the reply to the last request, and
\* its contents are what the utility asked for.
LEMMA AcceptedIsOwn ==
  ASSUME TypeOK, NetInv, QueueInv, CurrentInv, NumbersSuffice, pc = "wait",
         TakeHead, Matches(Head(rxq))
  PROVE  Head(rxq).ord = nreq /\ Head(rxq).body = Body
<1>1. Head(rxq) = rxq[1] /\ rxq[1] \in Queued /\ Len(rxq) \in Nat \ {0}
  BY TakeHeadQueue
<1>2. rxq[1].num = nout /\ 1 \in 1 .. Len(rxq) /\ nreq \in Nat
  BY <1>1 DEF Matches, TypeOK
<1>3. rxq[1].ord = nreq
  BY <1>2, NumberIdentifies DEF QueueInv, NumbersSuffice
<1> QED
  BY <1>1, <1>3 DEF CurrentInv

\* Every action keeps the bound on the age of the queue's datagrams.
LEMMA QueueStep ==
  ASSUME TypeOK, SessionInv, NetInv, QueueInv, CurrentInv, [Next]_vars
  PROVE  QueueInv'
<1> SUFFICES ASSUME MaxAge + 1 < SeqMod
             PROVE  (pc' = "send" => Young') /\ (pc' = "wait" => Awaiting')
  BY DEF QueueInv
<1>0. nreq \in Nat /\ rxq \in Seq(Replies) /\ back \subseteq Replies
  BY DEF TypeOK
<1>1. CASE UNCHANGED <<nreq, rxq, pc>>
  BY <1>1 DEF QueueInv, Young, Awaiting
<1>2. CASE Connect
  BY <1>2 DEF Connect, netvars, SessionInv, Young
<1>3. CASE Send
  BY <1>0, <1>3, YoungAwaits DEF Send, QueueInv
<1>4. CASE pc' \in {"convert", "done"}
  BY <1>4
<1>5. CASE pc = "wait" /\ TakeHead /\ Matches(Head(rxq)) /\ pc' = "send"
  <2>1. Head(rxq).ord = nreq
    BY <1>5, AcceptedIsOwn DEF NumbersSuffice
  <2> QED
    BY <1>0, <1>5, <2>1, RestIsYoung DEF QueueInv
<1>6. CASE Arrive
  BY <1>0, <1>6, DeliverKeepsAge DEF Arrive, QueueInv
<1> QED
  BY <1>1, <1>2, <1>3, <1>4, <1>5, <1>6
     DEF Next, Utility, Done, ConnectFails, SendFails, ReceiveFails, Refuse, Abort,
         ReceiveBegin, ReceiveChunk, ReceiveEnd, Convert, Tick, Answer, PutReply, vars, netvars

\* Every action keeps it that messages of the last request carry its body.
LEMMA CurrentStep ==
  ASSUME TypeOK, SessionInv, NetInv, CurrentInv, [Next]_vars
  PROVE  CurrentInv'
<1>1. CASE UNCHANGED <<netvars, pc, phase, pos>>
  BY <1>1 DEF netvars, CurrentInv, Queued, Body, ChunkBody
<1>2. CASE pc' # "wait"
  BY <1>2 DEF CurrentInv
<1>3. CASE Send
  <2>1. /\ nreq' = nreq + 1 /\ Queued' = Queued /\ back' \subseteq back
        /\ \A m \in wire' : m \in wire \/ m.body = Body
    BY <1>3 DEF Send, Request, Following, Kept, Queued
  <2>2. Body' = Body
    BY <1>3 DEF Send, Body, ChunkBody
  <2>3. nreq \in Nat /\ \A m \in wire \cup back \cup Queued : m.ord \in 1 .. nreq
    BY DEF TypeOK, NetInv
  <2> QED
    BY <2>1, <2>2, <2>3 DEF CurrentInv
<1>4. CASE Answer
  <2>1. PICK m \in wire : PutReply(m, ReplyTo(m, m.num, time))
    BY <1>4 DEF Answer
  <2>2. Queued' = Queued /\ Body' = Body
    BY <1>4, <2>1 DEF Answer, PutReply, Handed, Queued, Body, ChunkBody
  <2> QED
    BY <1>4, <2>1, <2>2 DEF Answer, PutReply, Handed, ReplyTo, CurrentInv
<1>5. CASE Arrive
  <2>1. Body' = Body
    BY <1>5 DEF Arrive, Body, ChunkBody
  <2> QED
    BY <1>5, <2>1, DeliverQueue DEF Arrive, Deliver, Handed, CurrentInv
<1> QED
  BY <1>1, <1>2, <1>3, <1>4, <1>5
     DEF Next, Utility, Done, Connect, ConnectFails, SendFails, ReceiveFails, Refuse,
         Abort, ReceiveBegin, ReceiveChunk, ReceiveEnd, Convert, Tick, vars

-----------------------------------------------------------------------------
(* The clock                                                               *)

\* Every action keeps the clock within the run's span, and every reply was
\* given at a moment of the run.
LEMMA ClockStep ==
  ASSUME TypeOK, ClockInv, [Next]_vars
  PROVE  ClockInv'
<1> USE DEF ClockInv
<1>1. CASE UNCHANGED <<origin, time>> /\ back' \subseteq back /\ Queued' \subseteq Queued
  BY <1>1
<1>2. CASE UNCHANGED <<netvars, origin, time>>
  BY <1>2 DEF netvars, Queued
<1>3. CASE Tick
  <2>1. Queued' = Queued /\ back' = back
    BY <1>3 DEF Tick, netvars, Queued
  <2>2. \A m \in back \cup Queued : m.data \in Nat
    BY QueuedType DEF TypeOK, Replies
  <2> QED
    BY <1>3, <2>1, <2>2, ArchAssumption DEF Tick, TypeOK
<1>4. CASE Send
  BY <1>1, <1>4 DEF Send, Request, Following, Kept, Queued
<1>5. CASE SendFails
  BY <1>1, <1>5 DEF SendFails, Abort, RequestFails, Kept, Queued
<1>6. CASE TakeNothing /\ UNCHANGED <<origin, time>>
  BY <1>1, <1>6, TakeNothingQueue DEF TakeNothing
<1>7. CASE TakeHead /\ UNCHANGED <<origin, time>>
  BY <1>1, <1>7, TakeHeadQueue DEF TakeHead
<1>8. CASE Convert
  BY <1>8 DEF Convert, Close, Queued
<1>9. CASE Answer
  <2>1. PICK m \in wire : PutReply(m, ReplyTo(m, m.num, time))
    BY <1>9 DEF Answer
  <2>2. Queued' = Queued
    BY <2>1 DEF PutReply, Queued
  <2> QED
    BY <1>9, <2>1, <2>2 DEF Answer, PutReply, Handed, ReplyTo, TypeOK
<1>10. CASE Arrive
  BY <1>10, DeliverQueue DEF Arrive, Deliver, Handed
<1> QED
  BY <1>2, <1>3, <1>4, <1>5, <1>6, <1>7, <1>8, <1>9, <1>10
     DEF Next, Utility, Done, Connect, ConnectFails, ReceiveFails, Refuse, Abort,
         ReceiveBegin, ReceiveChunk, ReceiveEnd, vars

-----------------------------------------------------------------------------
(* The records                                                             *)

\* Every action keeps what the records hold apart from the answers.
LEMMA RecsStep ==
  ASSUME TypeOK, SessionInv, RecsInv, [Next]_vars
  PROVE  RecsInv'
<1> USE DEF RecsInv, ReadIsPrefix, Answered
<1>1. CASE UNCHANGED <<pc, recs, pos, begin, end>>
  BY <1>1 DEF Convertible
<1>2. CASE recs' = NoConn /\ pc = "connect" /\ pc' \in {"send", "convert"} /\ pos' = pos
  <2>1. \A i \in Records : /\ recs'[i].qual = "NOCONN" /\ recs'[i].value = Zero
                           /\ recs'[i].ts = NoTime
    BY <1>2 DEF NoConn, TypeOK, Recs
  <2>2. pos' = 0
    BY <1>2 DEF SessionInv
  <2> QED
    BY <1>2, <2>1, <2>2 DEF Records
<1>3. CASE Send
  BY <1>3 DEF Send
<1>4. CASE Abort /\ pc \in {"send", "wait"}
  <2>1. \A i \in Records : i \in pos .. pos + ChunkBody.n - 1 => ~(i < pos)
    BY DEF Records, TypeOK
  <2>2. \A i \in Records : recs'[i] = recs[i]
    <3>1. \A i \in Records : /\ i \in pos .. pos + ChunkBody.n - 1 => recs[i].qual = "NOCONN"
                             /\ recs[i] \in Recs
      BY <1>4, <2>1 DEF TypeOK
    <3> QED
      BY <1>4, <3>1 DEF Abort, Unread, Recs
  <2> QED
    BY <1>4, <2>2 DEF Abort
<1>5. CASE ReceiveBegin
  BY <1>5 DEF ReceiveBegin
<1>6. CASE ReceiveEnd
  BY <1>6 DEF ReceiveEnd
<1>7. CASE ReceiveChunk
  <2> DEFINE n == ChunkBody.n
  <2>1. n \in 1 .. N /\ pos \in Nat /\ pos + n \in 1 .. N
    <3>1. n \in 1 .. N /\ pos + n \in 1 .. N
      BY <1>7, BodyType DEF ReceiveChunk
    <3> QED
      BY <3>1 DEF TypeOK
  <2>2. pos' = pos + n /\ pc = "wait" /\ pc' # "done" /\ pc' # "connect"
    BY <1>7 DEF ReceiveChunk
  <2>3. ASSUME NEW i \in Records, i \in pos .. pos + n - 1
        PROVE  recs'[i].qual \in {"OK", "INVALID"} /\ recs'[i].ts = recs[i].ts
    BY <1>7, <2>3 DEF ReceiveChunk, ListQual, TypeOK, Recs
  <2>4. ASSUME NEW i \in Records, i \notin pos .. pos + n - 1
        PROVE  recs'[i] = recs[i]
    BY <1>7, <2>4 DEF ReceiveChunk
  <2> HIDE DEF n
  <2>5. \A i \in Records : /\ i \in pos .. pos + n - 1 <=> pos <= i /\ i < pos + n
                           /\ i \in Int
    BY <2>1, ArchAssumption DEF Records
  <2>6. pc # "connect" /\ pc # "done"
    BY <1>7 DEF ReceiveChunk
  <2> QED
    BY <2>1, <2>2, <2>3, <2>4, <2>5, <2>6
<1>8. CASE Convert
  <2>1. \A i \in Records :
          /\ recs'[i].qual = recs[i].qual /\ recs'[i].value = recs[i].value
          /\ recs'[i].ts = IF Convertible THEN SeqTime(Index(i), end) ELSE NoTime
    BY <1>8 DEF Convert, TypeOK, Recs
  <2>2. UNCHANGED <<begin, end, pos>> /\ pc = "convert" /\ pc' = "done"
    BY <1>8 DEF Convert
  <2> QED
    BY <2>1, <2>2 DEF Convertible
<1> QED
  BY <1>1, <1>2, <1>3, <1>4, <1>5, <1>6, <1>7, <1>8
     DEF Next, Utility, Done, Connect, ConnectFails, SendFails, ReceiveFails, Refuse,
         Answer, Arrive, Tick, vars

-----------------------------------------------------------------------------
(* The order of the readings and of the answers                            *)

\* What suffices after a step sufficed before it: numbers only grow.
LEMMA SufficedBefore ==
  ASSUME TypeOK, [Next]_vars, NumbersSuffice'
  PROVE  NumbersSuffice
<1>1. nreq' = nreq \/ nreq' = nreq + 1
  BY DEF Next, Utility, Done, Connect, ConnectFails, Send, SendFails, ReceiveFails,
         Refuse, ReceiveBegin, ReceiveChunk, ReceiveEnd, Convert, Answer, Arrive, Tick,
         vars, netvars, Request, RequestFails, TakeHead, TakeNothing, Close, PutReply,
         Deliver
<1> QED
  BY <1>1, ExchangeAssumption DEF NumbersSuffice, TypeOK

\* A step that numbers a request leaves no reply of that request behind.
LEMMA NoReplyYet ==
  ASSUME TypeOK, NetInv, nreq' = nreq + 1, back' \subseteq back, Queued' \subseteq Queued
  PROVE  \A m \in back' \cup Queued' : m.ord # nreq'
  BY DEF NetInv, TypeOK

\* A request leaves the network with no new replies.
LEMMA SendReplies ==
  ASSUME Send
  PROVE  nreq' = nreq + 1 /\ back' \subseteq back /\ Queued' \subseteq Queued
  BY DEF Send, Request, Following, Kept, Queued

\* A reply that the network hands over was on its way before.
LEMMA ArriveReplies ==
  ASSUME TypeOK, Arrive
  PROVE  back' \cup Queued' \subseteq back \cup Queued /\ UNCHANGED nreq
  BY DeliverQueue DEF Arrive, Deliver, Handed

\* A new answer is given at the moment the clock shows.
LEMMA AnswerReplies ==
  ASSUME Answer
  PROVE  /\ \A m \in back' \cup Queued' : m \in back \cup Queued \/ m.data = time
         /\ UNCHANGED nreq
<1>1. PICK m \in wire : PutReply(m, ReplyTo(m, m.num, time))
  BY DEF Answer
<1> QED
  BY <1>1 DEF PutReply, Handed, ReplyTo, Queued

\* Every action keeps the two readings of the clock in order.
LEMMA OrderStep ==
  ASSUME TypeOK, SessionInv, NetInv, QueueInv, CurrentInv, ClockInv, OrderInv,
         [Next]_vars
  PROVE  OrderInv'
<1> SUFFICES ASSUME NumbersSuffice'
             PROVE  /\ begin' # NoTime => origin' <= begin' /\ begin' <= time'
                    /\ end' # NoTime => begin' <= end' /\ end' <= time'
                    /\ pc' = "wait" /\ begin' # NoTime =>
                         \A m \in back' \cup Queued' : m.ord = nreq' => begin' <= m.data
  BY DEF OrderInv
<1>1. NumbersSuffice
  BY SufficedBefore
<1>2. /\ begin # NoTime => origin <= begin /\ begin <= time
      /\ end # NoTime => begin <= end /\ end <= time
      /\ pc = "wait" /\ begin # NoTime =>
           \A m \in back \cup Queued : m.ord = nreq => begin <= m.data
  BY <1>1 DEF OrderInv
<1>3. CASE UNCHANGED <<netvars, pc, begin, end, origin, time>>
  BY <1>2, <1>3 DEF netvars, Queued
<1>4. CASE pc' # "wait" /\ UNCHANGED <<begin, end, origin, time>>
  BY <1>2, <1>4
<1>5. CASE Send
  BY <1>2, <1>5, SendReplies, NoReplyYet DEF Send
<1>6. ASSUME pc = "wait", TakeHead, Matches(Head(rxq)), phase # "chunk"
      PROVE  /\ Reading(Head(rxq)) = {Head(rxq).data} /\ Head(rxq).ord = nreq
             /\ Head(rxq) \in back \cup Queued
             /\ origin <= Head(rxq).data /\ Head(rxq).data <= time
  <2>1. Head(rxq).body = Body /\ Head(rxq).ord = nreq
    BY <1>1, <1>6, AcceptedIsOwn
  <2>2. Head(rxq) \in Queued
    BY <1>6, TakeHeadQueue
  <2> QED
    BY <1>6, <2>1, <2>2 DEF Reading, Body, TimeBody, ClockInv
<1>7. CASE ReceiveBegin
  <2>1. end' = NoTime
    BY <1>7 DEF ReceiveBegin, SessionInv
  <2> QED
    BY <1>6, <1>7, <2>1 DEF ReceiveBegin
<1>8. CASE ReceiveEnd
  <2>1. begin # NoTime /\ pc = "wait"
    BY <1>8 DEF ReceiveEnd, SessionInv
  <2> QED
    BY <1>2, <1>6, <1>8, <2>1 DEF ReceiveEnd
<1>9. CASE Answer
  BY <1>2, <1>9, AnswerReplies DEF Answer
<1>10. CASE Arrive
  BY <1>2, <1>10, ArriveReplies DEF Arrive
<1>11. CASE Tick
  <2>1. Queued' = Queued /\ UNCHANGED <<back, nreq, pc, begin, end, origin>>
    BY <1>11 DEF Tick, netvars, Queued
  <2> QED
    BY <1>2, <1>11, <2>1 DEF Tick, TypeOK, NoTime
<1> QED
  BY <1>3, <1>4, <1>5, <1>7, <1>8, <1>9, <1>10, <1>11
     DEF Next, Utility, Done, Connect, ConnectFails, SendFails, ReceiveFails, Refuse,
         Abort, ReceiveChunk, Convert, vars

-----------------------------------------------------------------------------
(* The answers                                                             *)

\* A step answers no record that is not in the chunk being received, and
\* changes no answer.
LEMMA AnswersKept ==
  ASSUME TypeOK, SessionInv, RecsInv, [Next]_vars, NEW i \in Records
  PROVE  /\ Answered(i) => /\ recs'[i].qual = recs[i].qual
                           /\ recs'[i].value = recs[i].value
         /\ Answered(i)' => \/ Answered(i)
                            \/ ReceiveChunk /\ i \in pos .. pos + ChunkBody.n - 1
<1> USE DEF Answered
<1>1. recs[i] \in Recs /\ pos \in Nat /\ i \in Nat
  BY DEF TypeOK, Records
<1>2. CASE recs' = recs
  BY <1>2
<1>3. CASE recs' = NoConn /\ pc = "connect"
  BY <1>1, <1>3 DEF NoConn, RecsInv, Recs
<1>4. CASE recs' = Unread /\ pc \in {"send", "wait"}
  <2>1. i \in pos .. pos + ChunkBody.n - 1 => recs[i].qual = "NOCONN"
    BY <1>1, <1>4 DEF RecsInv, ReadIsPrefix
  <2> QED
    BY <1>1, <1>4, <2>1 DEF Unread, Recs
<1>5. CASE ReceiveChunk
  <2>1. i \in pos .. pos + ChunkBody.n - 1 => ~Answered(i)
    <3>1. pc # "connect"
      BY <1>5 DEF ReceiveChunk
    <3> QED
      BY <1>1, <3>1 DEF RecsInv, ReadIsPrefix
  <2> QED
    BY <1>5, <2>1 DEF ReceiveChunk
<1>6. CASE Convert
  BY <1>1, <1>6 DEF Convert, Recs
<1> QED
  BY <1>2, <1>3, <1>4, <1>5, <1>6
     DEF Next, Utility, Done, Connect, ConnectFails, Send, SendFails, ReceiveFails,
         Refuse, Abort, ReceiveBegin, ReceiveEnd, Answer, Arrive, Tick, vars

\* A record that had been answered stays answered by the same moment's value.
LEMMA AnsweredStays ==
  ASSUME IInv, [Next]_vars, NumbersSuffice, NEW i \in Records, Answered(i),
         NEW t \in Nat, AnsweredAt(i, t)
  PROVE  AnsweredAt(i, t)'
<1> USE DEF AnsweredAt, IInv
<1>1. recs'[i].value = recs[i].value /\ time \in Nat
  BY AnswersKept DEF TypeOK
<1>2. CASE UNCHANGED <<netvars, pc, begin, end, origin, time>>
  BY <1>1, <1>2 DEF netvars, Queued
<1>3. CASE pc' # "wait" /\ UNCHANGED <<begin, end, origin, time>>
  BY <1>1, <1>3
<1>4. CASE Send
  BY <1>1, <1>4, SendReplies, NoReplyYet DEF Send
<1>5. CASE ReceiveBegin
  <2>1. pos = 0 /\ pc = "wait"
    BY <1>5 DEF ReceiveBegin, SessionInv
  <2> QED
    BY <2>1 DEF RecsInv, ReadIsPrefix, Records
<1>6. CASE ReceiveEnd
  <2>1. Head(rxq).body = Body /\ Head(rxq).ord = nreq /\ Head(rxq) \in Queued
    BY <1>6, AcceptedIsOwn, TakeHeadQueue DEF ReceiveEnd
  <2>2. end' = Head(rxq).data
    BY <1>6, <2>1 DEF ReceiveEnd, Reading, Body, TimeBody
  <2>3. t <= Head(rxq).data
    BY <1>6, <2>1 DEF ReceiveEnd
  <2> QED
    BY <1>1, <1>6, <2>2, <2>3 DEF ReceiveEnd
<1>7. CASE Answer
  BY <1>1, <1>7, AnswerReplies DEF Answer
<1>8. CASE Arrive
  BY <1>1, <1>8, ArriveReplies DEF Arrive
<1>9. CASE Tick
  <2>1. Queued' = Queued /\ UNCHANGED <<back, nreq, pc, begin, end, origin>>
    BY <1>9 DEF Tick, netvars, Queued
  <2> QED
    BY <1>1, <1>9, <2>1 DEF Tick
<1> QED
  BY <1>2, <1>3, <1>4, <1>5, <1>6, <1>7, <1>8, <1>9
     DEF Next, Utility, Done, Connect, ConnectFails, SendFails, ReceiveFails, Refuse,
         Abort, ReceiveChunk, Convert, vars

\* A record of the chunk being received gets what its own slot held when the
\* device answered.
LEMMA AnsweredByChunk ==
  ASSUME IInv, NumbersSuffice, ReceiveChunk, NEW i \in Records,
         i \in pos .. pos + ChunkBody.n - 1
  PROVE  \E t \in Nat : AnsweredAt(i, t)'
<1> DEFINE m == Head(rxq)
           t == m.data
<1> USE DEF IInv
<1>1. m.body = ChunkBody /\ m.ord = nreq /\ m \in Queued /\ m \in Replies
  BY AcceptedIsOwn, BodyType, TakeHeadQueue DEF ReceiveChunk
<1>2. t \in Nat /\ origin <= t /\ t <= time
  BY <1>1 DEF Replies, ClockInv
<1>3. begin # NoTime => begin <= t
  BY <1>1 DEF OrderInv, ReceiveChunk
<1>4. i - pos \in Nat /\ pos + (i - pos) = i
  BY DEF TypeOK, Records
<1>5. recs'[i].value = [slot |-> Index(i), period |-> Held(Index(i), t)]
  <2>1. recs'[i].value = ListValue(m, i - pos)
    BY DEF ReceiveChunk, TypeOK, Recs
  <2>2. m.body.what = "chunk" /\ m.body.pos = pos
    BY <1>1 DEF ChunkBody
  <2> QED
    BY <1>4, <2>1, <2>2 DEF ListValue
<1>6. /\ UNCHANGED <<begin, end, origin, time>> /\ pc' # "wait"
      /\ end = NoTime
  BY DEF ReceiveChunk, SessionInv
<1> HIDE DEF m, t
<1> QED
  BY <1>2, <1>3, <1>5, <1>6 DEF AnsweredAt

\* Every action keeps it that the answers are the slots' own.
LEMMA ValueStep ==
  ASSUME IInv, [Next]_vars
  PROVE  ValueInv'
<1> SUFFICES ASSUME NumbersSuffice', NEW i \in Records, Answered(i)'
             PROVE  \E t \in Nat : AnsweredAt(i, t)'
  BY DEF ValueInv
<1>1. NumbersSuffice
  BY SufficedBefore DEF IInv
<1>2. CASE Answered(i)
  <2>1. PICK t \in Nat : AnsweredAt(i, t)
    BY <1>1, <1>2 DEF IInv, ValueInv
  <2> QED
    BY <1>1, <1>2, <2>1, AnsweredStays
<1>3. CASE ~Answered(i)
  <2>1. ReceiveChunk /\ i \in pos .. pos + ChunkBody.n - 1
    BY <1>3, AnswersKept DEF IInv
  <2> QED
    BY <1>1, <2>1, AnsweredByChunk
<1> QED
  BY <1>2, <1>3

-----------------------------------------------------------------------------
(* The theorems                                                            *)

\* The program and the network start in the invariant.
LEMMA InitIInv ==
  ASSUME Init
  PROVE  IInv
<1> USE DEF Init, ExchangeInit
<1>1. /\ Zero \in Value /\ << >> \in Seq(Replies) /\ origin \in Nat /\ 0 \in 0 .. SeqMod-1
      /\ Queued = {}
  BY ExchangeAssumption, ArchAssumption DEF Zero, Value, Queued
<1>2. TypeOK
  BY <1>1, ArchAssumption DEF TypeOK, Recs, Qualities, NoTime
<1>3. NetInv
  BY NetStart
<1>4. QueueInv /\ CurrentInv /\ SessionInv /\ ClockInv /\ OrderInv
  BY <1>1, ArchAssumption
     DEF QueueInv, CurrentInv, SessionInv, ClockInv, OrderInv, NoTime
<1>5. RecsInv /\ ValueInv
  BY DEF RecsInv, ReadIsPrefix, ValueInv, Answered
<1> QED
  BY <1>2, <1>3, <1>4, <1>5 DEF IInv

\* The invariant is inductive.
LEMMA IInvHolds == Spec => []IInv
<1>1. Init => IInv
  BY InitIInv
<1>2. IInv /\ [Next]_vars => IInv'
  <2> SUFFICES ASSUME IInv, [Next]_vars
               PROVE  IInv'
    OBVIOUS
  <2>1. TypeOK' /\ NetInv' /\ QueueInv' /\ CurrentInv' /\ SessionInv'
    BY TypeStep, NetStep, QueueStep, CurrentStep, SessionStep DEF IInv
  <2>2. RecsInv' /\ ClockInv' /\ OrderInv' /\ ValueInv'
    BY RecsStep, ClockStep, OrderStep, ValueStep DEF IInv
  <2> QED
    BY <2>1, <2>2 DEF IInv
<1> QED
  BY <1>1, <1>2, PTL DEF Spec

\* Type correctness, for all values of the constants.
THEOREM TypeCorrect == Spec => []TypeOK
<1>1. IInv => TypeOK
  BY DEF IInv
<1> QED
  BY <1>1, IInvHolds, PTL

\* No answered record holds another slot's value, whatever the network loses,
\* repeats, delays or reorders, as long as the numbers suffice.
THEOREM AnswersAreOwn == Spec => []AnsweredFromOwnSlot
<1>1. IInv => AnsweredFromOwnSlot
  <2> SUFFICES ASSUME IInv, NumbersSuffice, NEW i \in Records, Answered(i)
               PROVE  \E t \in origin..time :
                        recs[i].value = [slot |-> Index(i), period |-> Held(Index(i), t)]
    BY DEF AnsweredFromOwnSlot
  <2>1. PICK t \in Nat : AnsweredAt(i, t)
    BY DEF IInv, ValueInv
  <2>2. origin \in Nat /\ time \in Nat
    BY DEF IInv, TypeOK
  <2>3. t \in origin .. time
    BY <2>1, <2>2 DEF AnsweredAt
  <2> QED
    BY <2>1, <2>3 DEF AnsweredAt
<1> QED
  BY <1>1, IInvHolds, PTL

\* A timestamp is the period of the value it is printed with, although the
\* device archives on while it is read: equal indexes before and after mean
\* equal periods when less than a turn of the ring went by.
THEOREM StampsAreTrue == Spec => []StampIsPeriod
<1>1. IInv => StampIsPeriod
  <2> SUFFICES ASSUME IInv, NumbersSuffice, Span < Depth, NEW i \in Records,
                      recs[i].ts # NoTime
               PROVE  recs[i].value.period = recs[i].ts
    BY DEF StampIsPeriod
  <2>1. /\ pc = "done" /\ Convertible /\ recs[i].ts = SeqTime(Index(i), end)
        /\ pc # "connect"
    BY DEF IInv, TypeOK, RecsInv
  <2>2. end # NoTime /\ begin # NoTime /\ pos = N
    BY <2>1 DEF Convertible, IInv, SessionInv
  <2>3. Answered(i)
    BY <2>1, <2>2, ArchAssumption DEF IInv, RecsInv, ReadIsPrefix, Records
  <2>4. PICK t \in Nat : AnsweredAt(i, t)
    BY <2>3 DEF IInv, ValueInv
  <2>5. begin <= t /\ t <= end /\ origin <= begin /\ end <= origin + Span
        /\ begin \in Nat /\ end \in Nat /\ origin \in Nat /\ time \in Nat
    <3>1. /\ begin \in Nat /\ end \in Nat /\ origin \in Nat /\ time \in Nat
          /\ Span \in Nat
      BY <2>2, ArchAssumption DEF IInv, TypeOK
    <3>2. /\ begin <= t /\ t <= end /\ origin <= begin /\ end <= time
          /\ time <= origin + Span
      BY <2>2, <2>4 DEF AnsweredAt, IInv, OrderInv, ClockInv
    <3> QED
      BY <3>1, <3>2
  <2>6. begin = end
    <3>1. begin \in Int /\ end \in Int /\ begin <= end /\ end - begin < Depth
      BY <2>5, ArchAssumption
    <3>2. begin % Depth = end % Depth
      BY <2>1 DEF Convertible, SlotOf
    <3> QED
      BY <3>1, <3>2, SameRemainder, ArchAssumption
  <2>7. t = end
    BY <2>5, <2>6
  <2>8. recs[i].value.period = Held(Index(i), end)
    BY <2>4, <2>7 DEF AnsweredAt
  <2>9. Index(i) < Depth
    BY ArchAssumption DEF Index, Records
  <2> QED
    BY <2>1, <2>8, <2>9 DEF SeqTime
<1> QED
  BY <1>1, IInvHolds, PTL

\* The answered records are the first pos ones and the rest say so.
THEOREM PrefixHolds == Spec => []ReadIsPrefix
<1>1. IInv => ReadIsPrefix
  BY DEF IInv, RecsInv
<1> QED
  BY <1>1, IInvHolds, PTL

\* Exit code 0 and timestamps are for complete sessions.
THEOREM SuccessHolds == Spec => []SuccessIsComplete
<1>1. IInv => SuccessIsComplete
  <2> SUFFICES ASSUME IInv, pc = "done"
               PROVE  /\ result = 1 => \A i \in Records : Answered(i)
                      /\ (\E i \in Records : recs[i].ts # NoTime) => tsc /\ result = 1
    BY DEF SuccessIsComplete
  <2>1. result = 1 => \A i \in Records : Answered(i)
    BY ArchAssumption DEF IInv, SessionInv, RecsInv, ReadIsPrefix, Records
  <2>2. ASSUME NEW i \in Records, recs[i].ts # NoTime
        PROVE  tsc /\ result = 1
    <3>1. end # NoTime
      BY <2>2 DEF IInv, RecsInv, Convertible
    <3> QED
      BY <3>1 DEF IInv, SessionInv
  <2> QED
    BY <2>1, <2>2
<1> QED
  BY <1>1, IInvHolds, PTL

\* An answer is never overwritten.
THEOREM AnswersAreFinal == Spec => AnsweredIsFinal
<1>1. IInv /\ [Next]_vars =>
        [\A i \in Records : Answered(i) =>
            recs'[i].qual = recs[i].qual /\ recs'[i].value = recs[i].value]_vars
  BY AnswersKept DEF IInv
<1> QED
  BY <1>1, IInvHolds, PTL DEF Spec, AnsweredIsFinal

-----------------------------------------------------------------------------
(* The refinement                                                          *)

\* What the abstract reader sees of a record, and of the session.
Shown(i) ==
  IF Answered(i) THEN [qual |-> recs[i].qual, value |-> recs[i].value] ELSE Unanswered
Verdict ==
  IF pc # "done" THEN "reading" ELSE IF result = 1 THEN "complete" ELSE "incomplete"

\* The abstract reader's state does not change.
LEMMA ReaderStutters ==
  ASSUME UNCHANGED <<origin, time, pos, Verdict>>, \A i \in Records : Shown(i)' = Shown(i)
  PROVE  UNCHANGED Reader!vars
<1>1. [i \in Records |-> Shown(i)]' = [i \in Records |-> Shown(i)]
  OBVIOUS
<1> QED
  BY <1>1 DEF Reader!vars, Shown, Verdict

\* Only the reply to a chunk changes what the abstract reader sees of a record.
LEMMA ShownKept ==
  ASSUME TypeOK, SessionInv, RecsInv, [Next]_vars, NEW i \in Records,
         ~(ReceiveChunk /\ i \in pos .. pos + ChunkBody.n - 1)
  PROVE  Shown(i)' = Shown(i)
<1>1. CASE Answered(i)
  <2>1. recs'[i].qual = recs[i].qual /\ recs'[i].value = recs[i].value
    BY <1>1, AnswersKept
  <2> QED
    BY <1>1, <2>1 DEF Shown, Answered
<1>2. CASE ~Answered(i)
  <2>1. ~Answered(i)'
    BY <1>2, AnswersKept
  <2> QED
    BY <1>2, <2>1 DEF Shown, Unanswered, Zero
<1> QED
  BY <1>1, <1>2

\* The reply to a chunk is one reading of the abstract reader.
LEMMA ChunkIsRead ==
  ASSUME IInv, NumbersSuffice, ReceiveChunk, [Next]_vars
  PROVE  Reader!Read
<1> DEFINE m == Head(rxq)
           t == m.data
           n == ChunkBody.n
<1> USE DEF IInv
<1>1. m.body = ChunkBody /\ m \in Queued /\ m \in Replies
  BY AcceptedIsOwn, BodyType, TakeHeadQueue DEF ReceiveChunk
<1>2. t \in origin .. time
  BY <1>1 DEF Replies, ClockInv, TypeOK
<1>3. /\ pos \in Nat /\ n \in 1 .. N /\ pos' = pos + n /\ pos < N /\ N \in Nat /\ Chunk \in Nat
      /\ pc = "wait" /\ pc' # "done" /\ UNCHANGED <<origin, time>>
  <2>1. /\ pc = "wait" /\ phase = "chunk" /\ pc' # "done" /\ pos' = pos + n
        /\ UNCHANGED <<origin, time>>
    BY DEF ReceiveChunk
  <2>2. n \in 1 .. N
    BY <2>1, BodyType
  <2>3. pos < N
    BY <2>1 DEF SessionInv
  <2>4. pos \in Nat /\ N \in Nat /\ Chunk \in Nat
    BY ArchAssumption DEF TypeOK
  <2> QED
    BY <2>1, <2>2, <2>3, <2>4
<1>4. pos' = Reader!Upto(pos + Chunk, N)
  <2>1. n = Least(N - pos, Chunk)
    BY DEF ChunkBody
  <2> HIDE DEF n
  <2> QED
    BY <1>3, <2>1 DEF Reader!Upto, Least
<1>5. ASSUME NEW i \in Records, i \in pos .. pos + n - 1
      PROVE  Shown(i)' = RowAt(i, t)
  <2>1. i - pos \in Nat /\ pos + (i - pos) = i
    BY <1>3, <1>5 DEF Records
  <2>2. m.body.what = "chunk" /\ m.body.pos = pos
    BY <1>1 DEF ChunkBody
  <2>3. /\ ListQual(m, i - pos) = RowAt(i, t).qual
        /\ ListValue(m, i - pos) = RowAt(i, t).value
    BY <2>1, <2>2 DEF ListQual, ListValue, RowAt
  <2>4. recs'[i].qual = RowAt(i, t).qual /\ recs'[i].value = RowAt(i, t).value
    BY <1>5, <2>3 DEF ReceiveChunk, TypeOK, Recs
  <2>5. Answered(i)'
    BY <2>4 DEF Answered, RowAt
  <2> QED
    BY <2>4, <2>5 DEF Shown, RowAt
<1>6. ASSUME NEW i \in Records, i \notin pos .. pos + n - 1
      PROVE  Shown(i)' = Shown(i)
  BY <1>6, ShownKept
<1> HIDE DEF n, t, m
<1>7. \A i \in Records : i \in pos .. pos' - 1 <=> i \in pos .. pos + n - 1
  BY <1>3
<1>8. [i \in Records |-> Shown(i)]' =
        [i \in Reader!Rows |-> IF i \in pos .. pos' - 1 THEN RowAt(i, t)
                               ELSE [k \in Records |-> Shown(k)][i]]
  BY <1>5, <1>6, <1>7 DEF Reader!Rows, Records
<1> QED
  BY <1>2, <1>3, <1>4, <1>8 DEF Reader!Read, Shown, Verdict

\* Every step of tekon_arch is a step of the abstract reader, or none: readings
\* of the clock and failures change nothing that it sees.
LEMMA StepIsReader ==
  ASSUME IInv, NumbersSuffice, [Next]_vars
  PROVE  [Reader!Next]_(Reader!vars)
<1> USE DEF IInv
<1>1. ~ReceiveChunk => \A i \in Records : Shown(i)' = Shown(i)
  BY ShownKept
<1>2. CASE ReceiveChunk
  BY <1>2, ChunkIsRead DEF Reader!Next
<1>3. CASE /\ ~ReceiveChunk /\ pc # "done" /\ pc' # "done"
           /\ UNCHANGED <<origin, time, pos>>
  BY <1>1, <1>3, ReaderStutters DEF Verdict
<1>4. CASE UNCHANGED <<pc, origin, time, pos, result>> /\ ~ReceiveChunk
  BY <1>1, <1>4, ReaderStutters DEF Verdict
<1>5. CASE Convert /\ ~ReceiveChunk
  <2>1. /\ pc # "done" /\ pc' = "done" /\ UNCHANGED <<origin, time, pos, result>>
        /\ result = 1 => pos = N
    BY <1>5 DEF Convert, SessionInv
  <2>2. [i \in Records |-> Shown(i)]' = [i \in Records |-> Shown(i)]
    BY <1>1, <1>5
  <2> QED
    BY <2>1, <2>2 DEF Reader!Next, Reader!Conclude, Shown
<1>6. CASE Tick /\ ~ReceiveChunk
  <2>1. time' = time + 1 /\ UNCHANGED <<origin, pos, pc, result>>
    BY <1>6 DEF Tick
  <2>2. [i \in Records |-> Shown(i)]' = [i \in Records |-> Shown(i)]
    BY <1>1, <1>6
  <2> QED
    BY <2>1, <2>2 DEF Reader!Next, Reader!Pass, Shown
<1> QED
  BY <1>2, <1>3, <1>4, <1>5, <1>6
     DEF Next, Utility, Done, Connect, ConnectFails, Send, SendFails, ReceiveFails, Refuse,
         Abort, ReceiveBegin, ReceiveEnd, Answer, Arrive, LinkIsUp, vars

\* tekon_arch starts as the abstract reader does.
LEMMA InitIsReader ==
  ASSUME Init
  PROVE  Reader!Init
<1>1. \A i \in Records : Shown(i) = Unanswered
  BY DEF Init, Shown, Answered
<1>2. [i \in Records |-> Shown(i)] = [i \in Reader!Rows |-> Unanswered]
  BY <1>1 DEF Reader!Rows, Records
<1>3. origin \in Nat /\ time = origin /\ pos = 0 /\ pc = "connect"
  BY ArchAssumption DEF Init
<1> QED
  BY <1>2, <1>3 DEF Reader!Init, Shown

\* tekon_arch implements the abstract reader over every network that forgets a
\* message before its number is in use again: whole chunks of one moment each,
\* in order and once, and success only with the full archive.
THEOREM ArchReadsTable ==
  ASSUME MaxAge + 1 < SeqMod
  PROVE  Spec => ReadsTable
<1>1. NumbersSuffice
  BY DEF NumbersSuffice
<1>2. Init => Reader!Init
  BY InitIsReader
<1>3. IInv /\ [Next]_vars => [Reader!Next]_(Reader!vars)
  BY <1>1, StepIsReader
<1> QED
  BY <1>2, <1>3, IInvHolds, PTL DEF Spec, ReadsTable, Reader!Spec
=============================================================================
