-------------------------- MODULE TimeSync_proofs ---------------------------
(***************************************************************************)
(* Proofs about TimeSync, for every calendar, every set of checks and, if  *)
(* the device confirms with numbers, every network.                        *)
(*                                                                         *)
(* Two arguments show that a confirmation that is accepted is the right    *)
(* one.  With numbers: a session numbers at most five requests, so no two  *)
(* of its messages with one number belong to different requests.  Without: *)
(* while no request has failed there is one message at most in the queue   *)
(* and the network together, and it belongs to the last request; after a   *)
(* failure no write follows.                                               *)
(*                                                                         *)
(* The device's clock is never half set, moved too far or moved into       *)
(* another period, and its level is given back.  For the clock the network *)
(* plays no part.  A write is on the wire only after the checks let the    *)
(* new time pass against a reading of the clock, and until then nothing    *)
(* but time itself has moved the clock.  As long as it stays on the day    *)
(* that was read, the write of the date is harmless, and however late or   *)
(* often the write of the time comes, it sets the clock to the new time.   *)
(***************************************************************************)
EXTENDS TimeSync, Exchange_proofs

-----------------------------------------------------------------------------
(* The inductive invariant                                                 *)

\* How many requests were numbered when the session is at its stage.
NumbersAt(s) == CASE s = "read" -> {0} [] s = "admin" -> {1} [] s = "date" -> {2}
                  [] s = "time" -> {3} [] s = "user" -> {3, 4}

StageInv ==
  /\ nreq \in 0..5
  /\ pc = "connect" => stage = "read"
  /\ pc \in {"connect", "send"} => nreq \in NumbersAt(stage)
  /\ pc = "wait" => nreq - 1 \in NumbersAt(stage)

\* Numbers and ordinals agree, and the last request is about the stage.
NumberInv ==
  /\ nout = nreq % SeqMod
  /\ \A m \in wire \cup back \cup Queued :
       /\ m.ord \in 1..nreq
       /\ m.num # NoNumber => m.num = m.ord % SeqMod
       /\ pc = "wait" /\ m.ord = nreq => m.body = stage

Positive(m) == m.num # NoNumber \/ m.data = 1

\* A positive reply to a write was preceded by the write.
ReplyInv ==
  \A m \in back \cup Queued :
    /\ m.body \in {"date", "time"} /\ Positive(m) => m.body \in seen
    /\ m.num = NoNumber /\ m.data = 1 => "ack" \in Styles

\* Without numbers: the only message there is belongs to the last request.
Empty == wire = {} /\ back = {} /\ rxq = << >>
OnlyMessage ==
  \/ Empty
  \/ \E m \in wire : wire = {m} /\ back = {} /\ rxq = << >> /\ m.ord = nreq
  \/ \E m \in back : wire = {} /\ back = {m} /\ rxq = << >> /\ m.ord = nreq
  \/ \E m \in Queued : wire = {} /\ back = {} /\ rxq = <<m>> /\ m.ord = nreq

SingleInv ==
  MaxAge = 0 /\ ~Repeats /\ stage # "user" =>
    /\ pc \in {"connect", "send"} => Empty
    /\ pc = "wait" => OnlyMessage

WrittenInv ==
  /\ stage = "time" => "date" \in seen
  /\ wrote = 1 => {"date", "time"} \subseteq seen

SInv ==
  /\ TypeOK /\ StageInv
  /\ NetworkSuffices => NumberInv /\ ReplyInv /\ SingleInv /\ WrittenInv
-----------------------------------------------------------------------------
(* Types                                                                   *)

\* A day is made of periods.
LEMMA Calendar ==
  DayLen \in Nat \ {0} /\ Interval \in Nat \ {0} /\ DayLen % Interval = 0
  BY DEF DayLen, Interval

\* The new time is one of the device's, and in UTC what the program was given.
LEMMA NewTime ==
  ASSUME TypeOK
  PROVE  /\ new \in Nat /\ Local \in Nat /\ Offset \in Int
         /\ Local = new + Offset + (IF Summer(new) THEN 3600 ELSE 0)
         /\ time_utc_from_local(newtime) = new
<1>1. new \in Nat /\ new > Year2000 + DayLen /\ Offset \in Int /\ Abs(Offset) <= DayLen
  BY SyncAssumption DEF TypeOK
<1>2. /\ newtime.sec = new + Offset + (IF Summer(new) THEN 3600 ELSE 0)
      /\ newtime.isdst = Summer(new)
  BY DEF newtime, time_local_from_utc
<1>3. Local \in Nat
  BY <1>1, <1>2 DEF Local, Year2000, DayLen, Abs
<1>4. time_utc_from_local(newtime) = new
  BY <1>1, <1>2 DEF time_utc_from_local
<1> QED
  BY <1>1, <1>2, <1>3, <1>4 DEF Local

\* A clock that was written shows a time.
LEMMA WrittenType ==
  ASSUME TypeOK, NEW r
  PROVE  Written(r) \in Nat
<1>1. DayLen \in Nat \ {0} /\ clock \in Nat /\ Local \in Nat
  BY Calendar, NewTime DEF TypeOK
<1>2. /\ Day(Local) \in Nat /\ Day(clock) \in Nat
      /\ TimeOfDay(Local) \in Nat /\ TimeOfDay(clock) \in Nat
  BY <1>1, Quotient, ModRange DEF Day, TimeOfDay
<1>3. Day(Local) * DayLen \in Nat /\ Day(clock) * DayLen \in Nat
  BY <1>1, <1>2, Product
<1> QED
  BY <1>2, <1>3 DEF Written

Answer == AnswerRead \/ AnswerLogin \/ AnswerWrite \/ RefuseWrite

\* The reply r to the request m, as it is after the device's step.
IsReply(r, m) ==
  /\ r \in Replies
  /\ r.ord = m.ord /\ r.body = m.body
  /\ r.num \in {NoNumber, m.num}
  /\ r.num = NoNumber /\ r.data = 1 => "ack" \in Styles
  /\ r.body \in {"date", "time"} /\ Positive(r) => r.body \in seen'

\* What Reply does when the device replies r to m.
LEMMA ReplyEffect ==
  ASSUME NEW m \in wire, NEW num, NEW data, Reply(m, num, data)
  PROVE  /\ wire' = Handed(wire, m)
         /\ back' = back \/ back' = back \cup {ReplyTo(m, num, data)}
         /\ UNCHANGED <<nout, nreq, rxq>>
  BY DEF Reply, PutReply, PutNothing

\* What a confirmation, and what a refusal does.
LEMMA ConfirmEffect ==
  ASSUME TypeOK, NEW m \in wire, Confirm(m),
         m.body \in {"date", "time"} => m.body \in seen'
  PROVE  \E r \in Replies :
          /\ IsReply(r, m)
          /\ wire' = Handed(wire, m)
          /\ back' = back \/ back' = back \cup {r}
          /\ UNCHANGED <<nout, nreq, rxq>>
<1>1. PICK style \in Styles : Reply(m, IF style = "ack" THEN NoNumber ELSE m.num, 1)
  BY DEF Confirm
<1> DEFINE num == IF style = "ack" THEN NoNumber ELSE m.num
           r == ReplyTo(m, num, 1)
<1>2. m \in Requests
  BY DEF TypeOK
<1>3. r \in Replies /\ IsReply(r, m)
  BY <1>2 DEF IsReply, ReplyTo, Replies, Requests, Positive, NoNumber
<1>4. Reply(m, num, 1)
  BY <1>1
<1> HIDE DEF num
<1> QED
  BY <1>3, <1>4, ReplyEffect

LEMMA RefusalEffect ==
  ASSUME TypeOK, NEW m \in wire,
         \/ Nak(m)
         \/ m.body = "admin" /\ Reply(m, m.num, 0)
  PROVE  \E r \in Replies :
          /\ IsReply(r, m)
          /\ wire' = Handed(wire, m)
          /\ back' = back \/ back' = back \cup {r}
          /\ UNCHANGED <<nout, nreq, rxq>>
<1>1. m \in Requests
  BY DEF TypeOK
<1>2. CASE Nak(m)
  <2>1. ReplyTo(m, NoNumber, 0) \in Replies /\ IsReply(ReplyTo(m, NoNumber, 0), m)
    BY <1>1 DEF IsReply, ReplyTo, Replies, Requests, Positive, NoNumber
  <2> QED
    BY <1>2, <2>1, ReplyEffect DEF Nak
<1>3. CASE m.body = "admin" /\ Reply(m, m.num, 0)
  <2>1. ReplyTo(m, m.num, 0) \in Replies /\ IsReply(ReplyTo(m, m.num, 0), m)
    BY <1>1, <1>3 DEF IsReply, ReplyTo, Replies, Requests, Positive, NoNumber
  <2> QED
    BY <1>3, <2>1, ReplyEffect
<1> QED
  BY <1>2, <1>3

\* The device's step: it takes a request and sends one reply at most.
LEMMA AnswerEffect ==
  ASSUME TypeOK, Answer
  PROVE  /\ \E m \in wire, r \in Replies :
              /\ IsReply(r, m)
              /\ wire' = Handed(wire, m)
              /\ back' = back \/ back' = back \cup {r}
         /\ UNCHANGED <<nout, nreq, rxq, client>>
         /\ clock' \in Nat /\ priv' \in {USER, ADMIN} /\ UNCHANGED <<key, start, age>>
         /\ seen \subseteq seen' /\ seen' \subseteq Events
<1>1. CASE AnswerRead
  <2>1. PICK m \in wire : m.body = "read" /\ Reply(m, m.num, clock)
    BY <1>1 DEF AnswerRead
  <2>2. ReplyTo(m, m.num, clock) \in Replies /\ IsReply(ReplyTo(m, m.num, clock), m)
    BY <2>1 DEF TypeOK, IsReply, ReplyTo, Replies, Requests, NoNumber
  <2> QED
    BY <1>1, <2>1, <2>2, ReplyEffect DEF AnswerRead, device, TypeOK
<1>2. CASE AnswerLogin
  <2>1. PICK m \in wire :
          /\ m.body \in {"user", "admin"}
          /\ Confirm(m) \/ Nak(m) \/ (m.body = "admin" /\ Reply(m, m.num, 0))
          /\ priv' \in {USER, ADMIN, priv}
    BY <1>2 DEF AnswerLogin
  <2>2. \E r \in Replies :
          /\ IsReply(r, m)
          /\ wire' = Handed(wire, m)
          /\ back' = back \/ back' = back \cup {r}
          /\ UNCHANGED <<nout, nreq, rxq>>
    BY <2>1, ConfirmEffect, RefusalEffect
  <2> QED
    BY <1>2, <2>1, <2>2 DEF AnswerLogin, TypeOK
<1>3. CASE AnswerWrite
  <2>1. PICK m \in wire :
          /\ m.body \in {"date", "time"}
          /\ Confirm(m)
          /\ clock' = Written(m.body)
          /\ seen' = seen \cup {m.body}
    BY <1>3 DEF AnswerWrite
  <2>2. m.body \in seen' /\ seen \subseteq seen' /\ seen' \subseteq Events
    BY <2>1 DEF Events, TypeOK
  <2>3. \E r \in Replies :
          /\ IsReply(r, m)
          /\ wire' = Handed(wire, m)
          /\ back' = back \/ back' = back \cup {r}
          /\ UNCHANGED <<nout, nreq, rxq>>
    BY <2>1, <2>2, ConfirmEffect
  <2>4. clock' \in Nat
    BY <2>1, WrittenType
  <2> QED
    BY <1>3, <2>2, <2>3, <2>4 DEF AnswerWrite, TypeOK
<1>4. CASE RefuseWrite
  <2>1. PICK m \in wire : m.body \in {"date", "time"} /\ Nak(m)
    BY <1>4 DEF RefuseWrite
  <2>2. \E r \in Replies :
          /\ IsReply(r, m)
          /\ wire' = Handed(wire, m)
          /\ back' = back \/ back' = back \cup {r}
          /\ UNCHANGED <<nout, nreq, rxq>>
    BY <2>1, <1>4, RefusalEffect DEF RefuseWrite
  <2> QED
    BY <1>4, <2>1, <2>2 DEF RefuseWrite, device, TypeOK
<1> QED
  BY <1>1, <1>2, <1>3, <1>4 DEF Answer

\* The client's part of a failed request.
LEMMA FailedType ==
  ASSUME TypeOK, Failed
  PROVE  pc' \in {"send", "down"} /\ stage' \in Stages
         /\ UNCHANGED <<checks, new, devtime, wrote, result, device>>
  BY DEF TypeOK, Failed, Stages

\* What numbering a request does to the types of the exchange.
LEMMA RequestType ==
  ASSUME TypeOK, Request(stage) \/ RequestFails
  PROVE  /\ nreq' \in Nat /\ nout' \in 0 .. SeqMod-1
         /\ wire' \subseteq Requests /\ back' \subseteq Replies /\ rxq' \in Seq(Replies)
<1> DEFINE n == nout + 1
<1>0. nreq' = nreq + 1 /\ nreq \in Nat /\ nout' = n % SeqMod /\ n \in Int
  <2>1. nreq \in Nat /\ nout \in Int
    BY ExchangeAssumption DEF TypeOK
  <2>2. nreq' = nreq + 1 /\ nout' = n % SeqMod
    BY DEF Request, RequestFails, Following
  <2> QED
    BY <2>1, <2>2
<1> HIDE DEF n
<1>1. nreq' \in Nat /\ nout' \in 0 .. SeqMod-1
  BY <1>0, ModRange, ExchangeAssumption
<1>2. [ord |-> nreq', num |-> nout', body |-> stage] \in Requests
  BY <1>1 DEF Requests, TypeOK
<1> QED
  BY <1>1, <1>2 DEF Request, RequestFails, Kept, TypeOK

\* Every action keeps the types.
LEMMA TypeStep ==
  ASSUME TypeOK, [Next]_vars
  PROVE  TypeOK'
<1>1. CASE Connect \/ ConnectFails
  BY <1>1 DEF Connect, ConnectFails, TypeOK, netvars, device
<1>2. CASE Send
  BY <1>2, RequestType DEF Send, TypeOK, device
<1>3. CASE SendFails
  <2>1. Failed /\ RequestFails
    BY <1>3 DEF SendFails
  <2> QED
    BY <2>1, RequestType, FailedType DEF TypeOK, device
<1>4. CASE ReceiveFails
  <2>1. Failed /\ TakeNothing
    BY <1>4 DEF ReceiveFails
  <2>2. rxq' \in Seq(Replies)
    BY <2>1, NothingTaken DEF TypeOK
  <2> QED
    BY <2>1, <2>2, FailedType DEF TypeOK, device, TakeNothing
<1>5. CASE Refuse
  <2>1. Failed /\ TakeHead
    BY <1>5 DEF Refuse
  <2>2. rxq' \in Seq(Replies)
    BY <2>1, HeadTaken DEF TypeOK
  <2> QED
    BY <2>1, <2>2, FailedType DEF TypeOK, device, TakeHead
<1>6. CASE ReceiveClock
  <2>1. rxq' \in Seq(Replies) /\ Head(rxq) \in Replies
    BY <1>6, HeadTaken DEF TypeOK, ReceiveClock
  <2>2. devtime' \in Nat /\ pc' \in {"send", "down"} /\ stage' \in Stages
    BY <1>6, <2>1 DEF ReceiveClock, Replies, TypeOK, Stages
  <2> QED
    BY <1>6, <2>1, <2>2 DEF TypeOK, ReceiveClock, device, TakeHead
<1>7. CASE ReceiveDone
  <2>1. rxq' \in Seq(Replies)
    BY <1>7, HeadTaken DEF TypeOK, ReceiveDone
  <2>2. stage' \in Stages /\ pc' \in {"send", "down"} /\ wrote' \in {0, 1} /\ result' \in {0, 1}
    BY <1>7 DEF ReceiveDone, TypeOK, Stages
  <2> QED
    BY <1>7, <2>1, <2>2 DEF TypeOK, ReceiveDone, device, TakeHead
<1>8. CASE LinkDown
  <2>1. << >> \in Seq(Replies)
    OBVIOUS
  <2> QED
    BY <1>8, <2>1 DEF LinkDown, Close, TypeOK, device
<1>9. CASE Answer
  <2>1. PICK m \in wire, r \in Replies :
          /\ IsReply(r, m)
          /\ wire' = Handed(wire, m)
          /\ back' = back \/ back' = back \cup {r}
    BY <1>9, AnswerEffect
  <2>2. wire' \subseteq Requests /\ back' \subseteq Replies
    BY <2>1 DEF TypeOK, IsReply, Handed
  <2> QED
    BY <1>9, <2>2, AnswerEffect DEF TypeOK, client
<1>10. CASE Arrive
  <2>1. rxq' \in Seq(Replies)
    BY <1>10, Delivered DEF TypeOK, Arrive
  <2> QED
    BY <1>10, <2>1 DEF TypeOK, Arrive, Deliver, Handed, client, device
<1>11. CASE RightsExpire
  BY <1>11 DEF RightsExpire, TypeOK, netvars, client
<1>12. CASE Tick
  BY <1>12 DEF Tick, TypeOK, netvars, client, Events
<1>13. CASE UNCHANGED vars
  BY <1>13 DEF TypeOK, vars, netvars, client, device
<1> QED
  BY <1>1, <1>2, <1>3, <1>4, <1>5, <1>6, <1>7, <1>8, <1>9, <1>10, <1>11, <1>12, <1>13
     DEF Next, Utility, Answer, Done

-----------------------------------------------------------------------------
(* The session and its numbers                                             *)

\* Every action keeps the count of the requests: read, login, date, time and
\* login again, the time left out when the date was not confirmed.
LEMMA StageStep ==
  ASSUME TypeOK, StageInv, [Next]_vars
  PROVE  StageInv'
<1> USE DEF TypeOK, StageInv, NumbersAt, Stages
<1>1. CASE Connect \/ ConnectFails
  BY <1>1 DEF Connect, ConnectFails, netvars
<1>2. CASE Send
  BY <1>2 DEF Send, Request
<1>3. CASE SendFails
  BY <1>3 DEF SendFails, RequestFails, Failed
<1>4. CASE ReceiveFails \/ Refuse
  BY <1>4 DEF ReceiveFails, Refuse, TakeNothing, TakeHead, Failed
<1>5. CASE ReceiveClock
  BY <1>5 DEF ReceiveClock, TakeHead
<1>6. CASE ReceiveDone
  BY <1>6 DEF ReceiveDone, TakeHead
<1>7. CASE LinkDown
  BY <1>7 DEF LinkDown, Close
<1>8. CASE Answer
  BY <1>8, AnswerEffect DEF client
<1>9. CASE Arrive
  BY <1>9 DEF Arrive, Deliver, client
<1>10. CASE RightsExpire \/ Tick
  BY <1>10 DEF RightsExpire, Tick, netvars, client
<1>11. CASE UNCHANGED vars
  BY <1>11 DEF vars, netvars, client
<1> QED
  BY <1>1, <1>2, <1>3, <1>4, <1>5, <1>6, <1>7, <1>8, <1>9, <1>10, <1>11
     DEF Next, Utility, Answer, Done

\* A step that numbers no request and adds no message, and after which the
\* utility does not wait, or waits for the same.
LEMMA NumberKept ==
  ASSUME NumberInv, UNCHANGED <<nout, nreq>>,
         (wire \cup back \cup Queued)' \subseteq wire \cup back \cup Queued,
         pc' # "wait" \/ UNCHANGED <<pc, stage>>
  PROVE  NumberInv'
  BY DEF NumberInv

\* Every action keeps numbers and ordinals in step.
LEMMA NumberStep ==
  ASSUME TypeOK, NumberInv, [Next]_vars
  PROVE  NumberInv'
<1>1. CASE Connect \/ ConnectFails
  <2>1. Queued' = Queued
    BY <1>1 DEF Queued, Connect, ConnectFails, netvars
  <2> QED
    BY <1>1, <2>1, NumberKept DEF Connect, ConnectFails, netvars
<1>2. CASE Send \/ SendFails
  <2>1. nout' = nreq' % SeqMod /\ nreq' = nreq + 1 /\ nreq \in Nat
    BY <1>2, NextNumber, ExchangeAssumption
       DEF NumberInv, TypeOK, Send, SendFails, Request, RequestFails, Following
  <2>2. Queued' = Queued /\ back' \subseteq back
    BY <1>2 DEF Queued, Send, SendFails, Request, RequestFails, Kept
  <2>3. \A m \in wire' :
          \/ m \in wire
          \/ m.ord = nreq' /\ m.num = nout' /\ m.body = stage /\ stage' = stage
    BY <1>2 DEF Send, SendFails, Request, RequestFails, Kept
  <2>4. ASSUME NEW m \in wire \cup back \cup Queued
        PROVE  m.ord \in 1..nreq' /\ m.ord # nreq' /\ (m.num # NoNumber => m.num = m.ord % SeqMod)
    BY <2>1 DEF NumberInv
  <2> QED
    BY <2>1, <2>2, <2>3, <2>4 DEF NumberInv
<1>3. CASE ReceiveFails
  <2>1. Queued' \subseteq Queued
    BY <1>3, NothingTaken DEF TypeOK, ReceiveFails
  <2> QED
    BY <1>3, <2>1, NumberKept DEF ReceiveFails, TakeNothing, Failed
<1>4. CASE Refuse \/ ReceiveClock \/ ReceiveDone
  <2>1. Queued' \subseteq Queued
    BY <1>4, HeadTaken DEF TypeOK, Refuse, ReceiveClock, ReceiveDone
  <2>2. pc' # "wait"
    BY <1>4 DEF Refuse, ReceiveClock, ReceiveDone, Failed
  <2> QED
    BY <1>4, <2>1, <2>2, NumberKept DEF Refuse, ReceiveClock, ReceiveDone, TakeHead
<1>5. CASE LinkDown
  <2>1. Queued' = {} /\ back' = {} /\ pc' # "wait"
    BY <1>5 DEF Queued, LinkDown, Close
  <2> QED
    BY <1>5, <2>1, NumberKept DEF LinkDown, Close
<1>6. CASE Answer
  <2>1. PICK m \in wire, r \in Replies :
          /\ IsReply(r, m)
          /\ wire' = Handed(wire, m)
          /\ back' = back \/ back' = back \cup {r}
    BY <1>6, AnswerEffect
  <2>2. UNCHANGED <<nout, nreq, pc, stage>> /\ Queued' = Queued
    BY <1>6, AnswerEffect DEF client, Queued
  <2>3. wire' \subseteq wire
    BY <2>1 DEF Handed
  <2> QED
    BY <2>1, <2>2, <2>3 DEF NumberInv, IsReply
<1>7. CASE Arrive
  <2>1. Queued' \subseteq Queued \cup back /\ back' \subseteq back
    BY <1>7, Delivered DEF TypeOK, Arrive, Deliver, Handed
  <2> QED
    BY <1>7, <2>1, NumberKept DEF Arrive, Deliver, client
<1>8. CASE RightsExpire \/ Tick \/ UNCHANGED vars
  <2>1. Queued' = Queued /\ UNCHANGED <<netvars, pc, stage>>
    BY <1>8 DEF Queued, RightsExpire, Tick, vars, netvars, client
  <2> QED
    BY <2>1, NumberKept DEF netvars
<1> QED
  BY <1>1, <1>2, <1>3, <1>4, <1>5, <1>6, <1>7, <1>8 DEF Next, Utility, Answer, Done
-----------------------------------------------------------------------------
(* Replies, and what they stand for                                        *)

\* What happened has happened.
LEMMA SeenGrows ==
  ASSUME TypeOK, [Next]_vars
  PROVE  seen \subseteq seen'
<1>1. Answer => seen \subseteq seen'
  BY AnswerEffect
<1>2. Tick => seen \subseteq seen'
  BY DEF Tick
<1>3. Failed => seen' = seen
  BY DEF Failed, device
<1> QED
  BY <1>1, <1>2, <1>3
     DEF Next, Utility, Answer, Done, Connect, ConnectFails, Send, SendFails, ReceiveClock,
         ReceiveDone, Refuse, ReceiveFails, LinkDown, Arrive, RightsExpire, vars, device

\* Only the device adds a reply.
LEMMA RepliesKept ==
  ASSUME TypeOK, [Next]_vars, ~Answer
  PROVE  (back \cup Queued)' \subseteq back \cup Queued
<1>1. Send \/ SendFails => Queued' = Queued /\ back' \subseteq back
  BY DEF Send, SendFails, Request, RequestFails, Kept, Queued
<1>2. TakeNothing \/ TakeHead => Queued' \subseteq Queued /\ back' = back
  BY NothingTaken, HeadTaken DEF TypeOK, TakeNothing, TakeHead
<1>3. Arrive => Queued' \subseteq Queued \cup back /\ back' \subseteq back
  BY Delivered DEF TypeOK, Arrive, Deliver, Handed
<1>4. LinkDown => Queued' = {} /\ back' = {}
  BY DEF LinkDown, Close, Queued
<1>5. UNCHANGED netvars => Queued' = Queued /\ back' = back
  BY DEF netvars, Queued
<1> QED
  BY <1>1, <1>2, <1>3, <1>4, <1>5
     DEF Next, Utility, Answer, Done, Connect, ConnectFails, ReceiveClock, ReceiveDone, Refuse,
         ReceiveFails, RightsExpire, Tick, vars

\* Every action keeps positive replies true.
LEMMA ReplyStep ==
  ASSUME TypeOK, ReplyInv, [Next]_vars
  PROVE  ReplyInv'
<1>1. seen \subseteq seen'
  BY SeenGrows
<1>2. CASE ~Answer
  BY <1>1, <1>2, RepliesKept DEF ReplyInv, Positive
<1>3. CASE Answer
  <2>1. PICK m \in wire, r \in Replies : IsReply(r, m) /\ back' \subseteq back \cup {r}
    BY <1>3, AnswerEffect
  <2>2. Queued' = Queued
    BY <1>3, AnswerEffect DEF Queued
  <2> QED
    BY <1>1, <2>1, <2>2 DEF ReplyInv, Positive, IsReply
<1> QED
  BY <1>2, <1>3

\* Every action keeps the only message the only one.
LEMMA SingleStep ==
  ASSUME TypeOK, SingleInv, [Next]_vars
  PROVE  SingleInv'
<1> SUFFICES ASSUME MaxAge = 0, ~Repeats, stage' # "user"
             PROVE  /\ pc' \in {"connect", "send"} => Empty'
                    /\ pc' = "wait" => OnlyMessage'
  BY DEF SingleInv
<1>1. CASE Connect \/ ConnectFails
  BY <1>1 DEF Connect, ConnectFails, netvars, SingleInv, Empty
<1>2. CASE Send
  <2>1. Empty
    BY <1>2 DEF Send, SingleInv
  <2>2. PICK m : m = [ord |-> nreq', num |-> nout', body |-> stage]
    OBVIOUS
  <2>3. wire' = {m} /\ back' = {} /\ rxq' = << >>
    BY <1>2, <2>1, <2>2 DEF Send, Request, Kept, Empty
  <2>4. m.ord = nreq'
    BY <2>2
  <2> QED
    BY <1>2, <2>3, <2>4 DEF OnlyMessage, Send
<1>3. CASE SendFails \/ ReceiveFails \/ Refuse
  BY <1>3 DEF SendFails, ReceiveFails, Refuse, Failed
<1>4. CASE ReceiveClock \/ ReceiveDone
  <2>1. pc = "wait" /\ stage # "user" /\ TakeHead /\ pc' # "wait"
    BY <1>4 DEF ReceiveClock, ReceiveDone
  <2>2. PICK m : wire = {} /\ back = {} /\ rxq = <<m>>
    BY <2>1 DEF SingleInv, OnlyMessage, Empty, TakeHead
  <2>3. Empty'
    BY <2>1, <2>2 DEF TakeHead, Empty
  <2> QED
    BY <2>1, <2>3
<1>5. CASE LinkDown
  BY <1>5 DEF LinkDown
<1>6. CASE Answer
  <2>1. PICK m \in wire, r \in Replies :
          /\ IsReply(r, m)
          /\ wire' = Handed(wire, m)
          /\ back' = back \/ back' = back \cup {r}
    BY <1>6, AnswerEffect
  <2>2. UNCHANGED <<nout, nreq, rxq, pc, stage>>
    BY <1>6, AnswerEffect DEF client
  <2>3. ~Empty
    BY <2>1 DEF Empty
  <2>4. ASSUME pc = "wait"
        PROVE  OnlyMessage'
    <3>1. wire = {m} /\ back = {} /\ rxq = << >> /\ m.ord = nreq
      BY <2>1, <2>2, <2>3, <2>4 DEF SingleInv, OnlyMessage
    <3>2. wire' = {} /\ rxq' = << >> /\ (back' = {} \/ back' = {r}) /\ r.ord = nreq'
      BY <2>1, <2>2, <3>1 DEF Handed, IsReply
    <3> QED
      BY <3>2 DEF OnlyMessage, Empty
  <2> QED
    BY <2>2, <2>3, <2>4 DEF SingleInv
<1>7. CASE Arrive
  <2>1. PICK m \in back : rxq' = Append(rxq, m) /\ back' = back \ {m}
    BY <1>7 DEF Arrive, Deliver, Handed
  <2>2. UNCHANGED <<nout, nreq, wire, pc, stage>>
    BY <1>7 DEF Arrive, Deliver, client
  <2>3. ~Empty
    BY <2>1 DEF Empty
  <2>4. ASSUME pc = "wait"
        PROVE  OnlyMessage'
    <3>1. wire = {} /\ back = {m} /\ rxq = << >> /\ m.ord = nreq
      BY <2>1, <2>2, <2>3, <2>4 DEF SingleInv, OnlyMessage
    <3>2. wire' = {} /\ back' = {} /\ rxq' = <<m>> /\ m.ord = nreq'
      BY <2>1, <2>2, <3>1
    <3>3. m \in Queued'
      BY <3>2 DEF Queued
    <3> QED
      BY <3>2, <3>3 DEF OnlyMessage
  <2> QED
    BY <2>2, <2>3, <2>4 DEF SingleInv
<1>8. CASE RightsExpire \/ Tick \/ UNCHANGED vars
  <2>1. Queued' = Queued /\ UNCHANGED <<netvars, pc, stage>>
    BY <1>8 DEF Queued, RightsExpire, Tick, vars, netvars, client
  <2> QED
    BY <2>1 DEF SingleInv, OnlyMessage, Empty, netvars
<1> QED
  BY <1>1, <1>2, <1>3, <1>4, <1>5, <1>6, <1>7, <1>8 DEF Next, Utility, Answer, Done

\* With numbers: whatever is accepted is the reply to the last request, for the
\* requests of a session have different numbers.
LEMMA AcceptedIsLast ==
  ASSUME TypeOK, StageInv, NumberInv, ReplyInv, "ack" \notin Styles, SeqMod >= 5,
         pc = "wait", TakeHead, Accepted(Head(rxq))
  PROVE  Head(rxq).ord = nreq /\ Head(rxq).body = stage
<1> DEFINE h == Head(rxq)
<1>1. h \in Queued /\ h \in Replies
  BY HeadTaken DEF TypeOK
<1>2. nreq \in 0..5 /\ nout \in 0 .. SeqMod-1 /\ SeqMod \in Nat \ {0}
  BY ExchangeAssumption DEF TypeOK, StageInv
<1>3. h.num = nout /\ h.num # NoNumber
  BY <1>1, <1>2 DEF Accepted, NoNumber, ReplyInv
<1>4. /\ h.ord \in 1..nreq /\ h.ord % SeqMod = nreq % SeqMod
      /\ h.ord = nreq => h.body = stage
  BY <1>1, <1>3 DEF NumberInv
<1>5. h.ord \in Int /\ h.ord <= nreq /\ nreq - h.ord < SeqMod
  BY <1>2, <1>4
<1>6. h.ord = nreq
  <2> HIDE DEF h
  <2> QED
    BY <1>2, <1>4, <1>5, SameRemainder
<1> QED
  BY <1>4, <1>6

\* The confirmation that is accepted for a write is this write's, and the
\* device executed it.
LEMMA AcceptedIsExecuted ==
  ASSUME TypeOK, StageInv, NetworkSuffices, NumberInv, ReplyInv, SingleInv,
         pc = "wait", stage \in {"date", "time"}, TakeHead, Accepted(Head(rxq))
  PROVE  stage \in seen
<1> DEFINE h == Head(rxq)
<1>1. h \in Queued /\ h \in Replies
  BY HeadTaken DEF TypeOK
<1>2. nout # NoNumber
  BY ExchangeAssumption DEF TypeOK, NoNumber
<1>3. /\ h.ord \in 1..nreq
      /\ h.num # NoNumber => h.num = h.ord % SeqMod
      /\ h.ord = nreq => h.body = stage
  BY <1>1 DEF NumberInv
<1>4. \/ h.num = NoNumber /\ h.data = 1
      \/ h.num = nout /\ h.num # NoNumber
  BY <1>2 DEF Accepted, NoNumber
<1>5. h.ord = nreq
  <2>1. CASE "ack" \in Styles
    <3>1. OnlyMessage
      BY <2>1 DEF NetworkSuffices, SingleInv
    <3>2. PICK m \in Queued : rxq = <<m>> /\ m.ord = nreq
      BY <3>1 DEF OnlyMessage, Empty, TakeHead
    <3> QED
      BY <3>2
  <2>2. CASE "ack" \notin Styles
    BY <2>2, AcceptedIsLast DEF NetworkSuffices
  <2> QED
    BY <2>1, <2>2
<1> QED
  BY <1>1, <1>3, <1>4, <1>5 DEF ReplyInv, Positive

\* Every action keeps the writes behind what the utility believes of them.
LEMMA WrittenStep ==
  ASSUME TypeOK, StageInv, NetworkSuffices, NumberInv, ReplyInv, SingleInv, WrittenInv,
         [Next]_vars
  PROVE  WrittenInv'
<1>1. seen \subseteq seen'
  BY SeenGrows
<1>2. CASE ReceiveDone
  <2>1. stage \in {"date", "time"} => stage \in seen
    BY <1>2, AcceptedIsExecuted DEF ReceiveDone
  <2> QED
    BY <1>1, <1>2, <2>1 DEF ReceiveDone, WrittenInv
<1>3. CASE ~ReceiveDone
  <2>1. wrote' = wrote /\ (stage' = "time" => stage = "time")
    <3>1. Answer => UNCHANGED client
      BY AnswerEffect
    <3> QED
      BY <1>3, <3>1
         DEF Next, Utility, Answer, Done, Connect, ConnectFails, Send, SendFails, ReceiveClock,
             Refuse, ReceiveFails, Failed, LinkDown, Arrive, RightsExpire, Tick, vars, client
  <2> QED
    BY <1>1, <2>1 DEF WrittenInv
<1> QED
  BY <1>2, <1>3

-----------------------------------------------------------------------------
(* What was confirmed                                                      *)

\* The invariant holds when the program starts.
LEMMA InitSInv ==
  ASSUME Init
  PROVE  SInv
<1>1. TypeOK
  <2>1. << >> \in Seq(Replies)
    OBVIOUS
  <2> QED
    BY <2>1, ExchangeAssumption, SyncAssumption
       DEF Init, ExchangeInit, TypeOK, Stages, NotRead, USER, Events
<1>2. StageInv
  BY DEF Init, ExchangeInit, StageInv, NumbersAt
<1>3. wire = {} /\ back = {} /\ Queued = {} /\ nout = 0 /\ nreq = 0
  BY DEF Init, ExchangeInit, Queued
<1>4. nout = nreq % SeqMod
  BY <1>3, ExchangeAssumption
<1>5. NumberInv /\ ReplyInv /\ WrittenInv
  BY <1>3, <1>4 DEF NumberInv, ReplyInv, WrittenInv, Init
<1>6. SingleInv
  BY DEF SingleInv, Empty, Init, ExchangeInit
<1> QED
  BY <1>1, <1>2, <1>5, <1>6 DEF SInv

\* The invariant holds in every reachable state.
LEMMA SInvHolds == Spec => []SInv
<1>1. Init => SInv
  BY InitSInv
<1>2. SInv /\ [Next]_vars => SInv'
  <2> SUFFICES ASSUME SInv, [Next]_vars
               PROVE  SInv'
    OBVIOUS
  <2>1. TypeOK' /\ StageInv'
    BY TypeStep, StageStep DEF SInv
  <2>2. NetworkSuffices => NumberInv' /\ ReplyInv' /\ SingleInv' /\ WrittenInv'
    BY NumberStep, ReplyStep, SingleStep, WrittenStep DEF SInv
  <2>3. NetworkSuffices' = NetworkSuffices
    BY DEF NetworkSuffices
  <2> QED
    BY <2>1, <2>2, <2>3 DEF SInv
<1> QED
  BY <1>1, <1>2, PTL DEF Spec

\* The variables of tekon_sync, of the device and of the network keep their
\* types, whatever the network does.
THEOREM SyncTypeCorrect == Spec => []TypeOK
<1>1. SInv => TypeOK
  BY DEF SInv
<1> QED
  BY <1>1, SInvHolds, PTL

\* write_time returns 1 only if the device executed the write of the date and
\* the write of the time: for every network if confirmations have numbers, for
\* one that neither repeats nor keeps a message over the next request if not.
THEOREM WritesAreDone == Spec => []WriteOkIsWritten
<1>1. SInv => WriteOkIsWritten
  BY DEF SInv, WrittenInv, WriteOkIsWritten
<1> QED
  BY <1>1, SInvHolds, PTL

-----------------------------------------------------------------------------
(* The clock                                                               *)

\* Until the checks passed, only time moved the clock: nothing but the request
\* to read it and replies to that are about.
ReadInv ==
  stage = "read" =>
    /\ clock = start + age
    /\ seen \cap {"date", "time"} = {}
    /\ \A m \in wire \cup back \cup Queued : m.body = "read"
    /\ \A m \in back \cup Queued : m.data \in start .. clock

\* After that the new time agrees with a time the clock showed in the session.
CheckInv ==
  stage # "read" =>
    devtime \in start .. start + age /\ ChecksPass(newtime, FromDevice(devtime))

\* No write changes the day; if the clock is not as it would be without the
\* program, it is as it would be if the new time had been set at one moment.
DayInv ==
  OneDay /\ "midnight" \notin seen =>
    /\ Day(clock) = Day(start)
    /\ stage # "read" => Day(Local) = Day(start)
    /\ IF "time" \in seen THEN clock \in Local .. Local + age ELSE clock = start + age

CInv == SInv /\ ReadInv /\ CheckInv /\ DayInv

\* What a step can do to the device's clock, and to what is known of it.
LEMMA ClockMoves ==
  ASSUME [Next]_vars
  PROVE  Tick \/ AnswerWrite \/ UNCHANGED <<clock, start, age, seen>>
<1>1. Failed => UNCHANGED device
  BY DEF Failed
<1> QED
  BY <1>1
     DEF Next, Utility, Connect, ConnectFails, Send, SendFails, ReceiveClock, ReceiveDone,
         Refuse, ReceiveFails, LinkDown, AnswerRead, AnswerLogin, RefuseWrite, Arrive,
         RightsExpire, Done, vars, device

\* The command line stays as it is, and the clock is read once, at the start.
LEMMA StageMoves ==
  ASSUME TypeOK, [Next]_vars
  PROVE  /\ UNCHANGED <<checks, new, start>>
         /\ stage' = "read" => stage = "read"
         /\ ReceiveClock \/ UNCHANGED devtime
         /\ stage = "read" /\ stage' # "read" => ReceiveClock
<1>1. Answer => UNCHANGED client /\ start' = start
  BY AnswerEffect
<1>2. Failed => /\ UNCHANGED <<checks, new, devtime, device>>
                /\ stage = "read" => stage' = "read"
                /\ stage' = "read" => stage = "read"
  BY DEF Failed
<1> QED
  BY <1>1, <1>2
     DEF Next, Utility, Answer, Done, Connect, ConnectFails, Send, SendFails, ReceiveClock,
         ReceiveDone, Refuse, ReceiveFails, LinkDown, Arrive, RightsExpire, Tick, vars, client,
         device

\* Only the utility puts a request on the wire: the one of its stage.
LEMMA WireMoves ==
  ASSUME TypeOK, [Next]_vars
  PROVE  \A m \in wire' : m \in wire \/ (m.body = stage /\ m.ord = nreq')
<1>1. Answer => wire' \subseteq wire
  BY AnswerEffect DEF Handed
<1>2. Send => \A m \in wire' : m \in wire \/ (m.body = stage /\ m.ord = nreq')
  BY DEF Send, Request, Kept
<1>3. RequestFails => wire' \subseteq wire
  BY DEF RequestFails, Kept
<1>4. TakeHead \/ TakeNothing \/ Deliver \/ Close => wire' = wire
  BY DEF TakeHead, TakeNothing, Deliver, Close
<1> QED
  BY <1>1, <1>2, <1>3, <1>4
     DEF Next, Utility, Answer, Done, Connect, ConnectFails, SendFails, ReceiveClock,
         ReceiveDone, Refuse, ReceiveFails, LinkDown, Arrive, RightsExpire, Tick, vars, netvars

\* The replies a step can add: a reading of the clock, if only such requests
\* are about.
LEMMA ReadingReplies ==
  ASSUME TypeOK, ReadInv, stage = "read", [Next]_vars
  PROVE  \A m \in (back \cup Queued)' :
           m \in back \cup Queued \/ (m.body = "read" /\ m.data = clock)
<1>1. CASE ~Answer
  BY <1>1, RepliesKept
<1>2. CASE Answer
  <2>1. AnswerRead
    BY <1>2 DEF Answer, AnswerLogin, AnswerWrite, RefuseWrite, ReadInv
  <2>2. PICK m \in wire : m.body = "read" /\ Reply(m, m.num, clock)
    BY <2>1 DEF AnswerRead
  <2>3. back' = back \/ back' = back \cup {ReplyTo(m, m.num, clock)}
    BY <2>2, ReplyEffect
  <2>4. Queued' = Queued
    BY <2>2, ReplyEffect DEF Queued
  <2> QED
    BY <2>2, <2>3, <2>4 DEF ReplyTo
<1> QED
  BY <1>1, <1>2

\* Every action keeps what holds until the checks passed.
LEMMA ReadStep ==
  ASSUME TypeOK, ReadInv, [Next]_vars
  PROVE  ReadInv'
<1> SUFFICES ASSUME stage' = "read"
             PROVE  /\ clock' = start' + age'
                    /\ seen' \cap {"date", "time"} = {}
                    /\ \A m \in (wire \cup back \cup Queued)' : m.body = "read"
                    /\ \A m \in (back \cup Queued)' : m.data \in start' .. clock'
  BY DEF ReadInv
<1>1. stage = "read" /\ start' = start
  BY StageMoves
<1>2. /\ clock = start + age /\ seen \cap {"date", "time"} = {}
      /\ \A m \in wire \cup back \cup Queued : m.body = "read"
      /\ \A m \in back \cup Queued : m.data \in start .. clock
  BY <1>1 DEF ReadInv
<1>3. start \in Nat /\ age \in Nat /\ clock \in Nat
  BY DEF TypeOK
<1>4. ~AnswerWrite
  BY <1>2 DEF AnswerWrite
<1>5. /\ clock' = start + age' /\ clock <= clock' /\ clock' \in Nat
      /\ seen' \cap {"date", "time"} = {}
  <2>1. CASE Tick
    BY <1>2, <1>3, <2>1 DEF Tick
  <2>2. CASE UNCHANGED <<clock, start, age, seen>>
    BY <1>2, <1>3, <2>2
  <2> QED
    BY <1>4, <2>1, <2>2, ClockMoves
<1>6. \A m \in wire' : m.body = "read"
  BY <1>1, <1>2, WireMoves
<1>7. \A m \in (back \cup Queued)' : m.body = "read" /\ m.data \in start .. clock
  BY <1>1, <1>2, <1>3, ReadingReplies
<1> QED
  BY <1>1, <1>3, <1>5, <1>6, <1>7

\* The reading against which the checks pass was taken in the session.
LEMMA CheckStep ==
  ASSUME TypeOK, ReadInv, CheckInv, [Next]_vars
  PROVE  CheckInv'
<1> SUFFICES ASSUME stage' # "read"
             PROVE  devtime' \in start' .. start' + age' /\ ChecksPass(newtime, FromDevice(devtime))'
  BY DEF CheckInv
<1>1. UNCHANGED <<checks, new, start>>
  BY StageMoves
<1>2. start \in Nat /\ age \in Nat /\ clock \in Nat
  BY DEF TypeOK
<1>3. age' \in Nat /\ age <= age'
  BY <1>2, ClockMoves DEF Tick, AnswerWrite
<1>4. start .. start + age \subseteq start .. start + age'
  <2>1. \A s, a, b \in Nat : a <= b => s .. s + a \subseteq s .. s + b
    OBVIOUS
  <2> QED
    BY <1>2, <1>3, <2>1
<1>5. CASE ReceiveClock
  <2>1. stage = "read" /\ ChecksPass(newtime, FromDevice(devtime')) /\ devtime' = Head(rxq).data
    BY <1>5 DEF ReceiveClock
  <2>2. Head(rxq) \in Queued
    BY <1>5, HeadTaken DEF TypeOK, ReceiveClock
  <2>3. devtime' \in start .. start + age
    BY <2>1, <2>2 DEF ReadInv
  <2>4. ChecksPass(newtime, FromDevice(devtime))'
    BY <1>1, <2>1 DEF ChecksPass, newtime
  <2>5. devtime' \in start' .. start' + age'
    BY <1>1, <1>4, <2>3
  <2> QED
    BY <2>4, <2>5
<1>6. CASE ~ReceiveClock
  <2>1. stage # "read" /\ devtime' = devtime
    BY <1>6, StageMoves
  <2>2. ChecksPass(newtime, FromDevice(devtime))'
    BY <1>1, <2>1 DEF CheckInv, ChecksPass, newtime
  <2>3. devtime \in start .. start + age
    BY <2>1 DEF CheckInv
  <2>4. devtime' \in start' .. start' + age'
    BY <1>1, <1>4, <2>1, <2>3
  <2> QED
    BY <2>2, <2>4
<1> QED
  BY <1>5, <1>6

\* With aligned blocks the minutes check in UTC is one in local time.
LEMMA BlocksAreLocal ==
  ASSUME NEW t \in Int, NEW u \in Int, NEW n \in Nat \ {0}, Offset \in Int,
         Offset % n = 0, Same(t - Offset, u - Offset, n)
  PROVE  Same(t, u, n)
<1> DEFINE z == Offset \div n
<1>1. z \in Int /\ Offset = z * n
  BY DivMod
<1> HIDE DEF z
<1>2. t = (t - Offset) + z * n /\ u = (u - Offset) + z * n
  BY <1>1
<1>3. ASSUME NEW a \in Int
      PROVE  (a + z * n) \div n = a \div n + z
  BY <1>1, QuotientShift
<1>4. /\ ((t - Offset) + z * n) \div n = (t - Offset) \div n + z
      /\ ((u - Offset) + z * n) \div n = (u - Offset) \div n + z
  <2>1. t - Offset \in Int /\ u - Offset \in Int
    OBVIOUS
  <2> QED
    BY <2>1, <1>3
<1> QED
  BY <1>2, <1>4 DEF Same

\* The new time is of the day, and with checked indexes of the period, of the
\* reading it was checked against.
Period(t) == t \div Interval
LEMMA SameDay ==
  ASSUME TypeOK, NEW u \in Nat, ChecksPass(newtime, FromDevice(u))
  PROVE  /\ KeepsDay => Day(Local) = Day(u)
         /\ "indexes" \in checks => Period(Local) = Period(u)
         /\ "difference" \in checks => Abs(new - (u - Offset)) <= Diff
<1> DEFINE n == 60 * Minutes
<1>1. /\ DayLen \in Nat \ {0} /\ Interval \in Nat \ {0} /\ DayLen % Interval = 0
      /\ n \in Nat \ {0} /\ Local \in Nat
  BY Calendar, NewTime, SyncAssumption
<1>2. time_utc_from_local(newtime) = new /\ time_utc_from_local(FromDevice(u)) = u - Offset
  BY NewTime DEF time_utc_from_local, FromDevice
<1>3. newtime.sec = Local /\ FromDevice(u).sec = u
  BY DEF Local, FromDevice
<1>4. /\ "difference" \in checks => CheckDiff(new, u - Offset)
      /\ "minutes" \in checks => CheckMinutes(new, u - Offset)
      /\ "indexes" \in checks => CheckIndexes(Local, u)
  BY <1>2, <1>3 DEF ChecksPass
<1>5. "indexes" \in checks => Same(Local, u, Interval)
  BY <1>4 DEF CheckIndexes, Same
<1>6. "indexes" \in checks => Day(Local) = Day(u)
  <2>1. "indexes" \in checks => Same(Local, u, DayLen)
    BY <1>1, <1>5, Coarser
  <2> QED
    BY <2>1 DEF Same, Day
<1>7. ASSUME "minutes" \in checks, DayLen % n = 0, Offset % n = 0, ~Summer(new)
      PROVE  Day(Local) = Day(u)
  <2>1. new = Local - Offset /\ Offset \in Int
    BY <1>7, NewTime
  <2>2. Same(Local - Offset, u - Offset, n)
    BY <1>4, <1>7, <2>1 DEF CheckMinutes, Same
  <2>3. Same(Local, u, n)
    <3> HIDE DEF n
    <3> QED
      BY <1>1, <1>7, <2>1, <2>2, BlocksAreLocal
  <2>4. Same(Local, u, DayLen)
    <3> HIDE DEF n
    <3> QED
      BY <1>1, <1>7, <2>3, Coarser
  <2> QED
    BY <2>4 DEF Same, Day
<1> QED
  BY <1>4, <1>5, <1>6, <1>7 DEF KeepsDay, CheckDiff, Same, Period

\* What the writes do to a clock that is of the new time's day.
LEMMA WriteMoves ==
  ASSUME TypeOK, Day(clock) = Day(Local)
  PROVE  Written("date") = clock /\ Written("time") = Local
<1>1. DayLen \in Nat \ {0} /\ clock \in Nat /\ Local \in Nat
  BY Calendar, NewTime DEF TypeOK
<1>2. /\ Day(Local) * DayLen + TimeOfDay(Local) = Local
      /\ Day(clock) * DayLen + TimeOfDay(clock) = clock
  BY <1>1, DayAndTime DEF Day, TimeOfDay
<1> QED
  BY <1>2 DEF Written

\* Every action keeps the clock whole.
LEMMA DayStep ==
  ASSUME TypeOK, ReadInv, CheckInv, CheckInv', DayInv, [Next]_vars
  PROVE  DayInv'
<1> SUFFICES ASSUME OneDay', "midnight" \notin seen'
             PROVE  /\ Day(clock') = Day(start')
                    /\ stage' # "read" => Day(Local') = Day(start')
                    /\ IF "time" \in seen' THEN clock' \in Local' .. Local' + age'
                       ELSE clock' = start' + age'
  BY DEF DayInv, Day
<1>1. UNCHANGED <<checks, new, start>> /\ seen \subseteq seen' /\ Local' = Local
  BY StageMoves, SeenGrows DEF Local, newtime
<1>2. OneDay /\ "midnight" \notin seen
  BY <1>1 DEF OneDay, KeepsDay, Local, newtime, Day
<1>3. /\ start \in Nat /\ age \in Nat /\ clock \in Nat /\ Local \in Nat
      /\ DayLen \in Nat \ {0}
  BY Calendar, NewTime DEF TypeOK
<1>4. /\ Day(clock) = Day(start)
      /\ stage # "read" => Day(Local) = Day(start)
      /\ IF "time" \in seen THEN clock \in Local .. Local + age ELSE clock = start + age
  BY <1>2 DEF DayInv
<1>5. stage' # "read" => Day(Local) = Day(start)
  <2>1. CASE stage # "read"
    BY <2>1, <1>4
  <2>2. CASE stage = "read" /\ stage' # "read"
    <3>1. /\ ReceiveClock
          /\ devtime' = Head(rxq).data
          /\ ChecksPass(newtime, FromDevice(devtime'))
      BY <2>2, StageMoves DEF ReceiveClock
    <3>2. devtime' \in start .. clock
      BY <2>2, <3>1, HeadTaken DEF ReadInv, TypeOK, ReceiveClock
    <3>3. devtime' \in Nat
      BY <1>3, <3>2
    <3>4. Day(devtime') = Day(start)
      <4>1. PICK t : t = devtime'
        OBVIOUS
      <4>2. t \in start .. clock /\ start \div DayLen = clock \div DayLen
        BY <1>4, <3>2, <4>1 DEF Day
      <4>3. t \div DayLen = start \div DayLen
        BY <1>3, <4>2, Between, ZenonT(60)
      <4> QED
        BY <4>1, <4>3 DEF Day
    <3>5. KeepsDay => Day(Local) = Day(devtime')
      BY <3>1, <3>3, SameDay
    <3> QED
      BY <1>2, <3>4, <3>5 DEF OneDay
  <2> QED
    BY <2>1, <2>2
<1>6. /\ Day(clock') = Day(start)
      /\ IF "time" \in seen' THEN clock' \in Local .. Local + age' ELSE clock' = start + age'
  <2>1. CASE Tick
    <3>1. clock' = clock + 1 /\ age' = age + 1 /\ ("time" \in seen' <=> "time" \in seen)
      BY <2>1 DEF Tick
    <3>2. (clock + 1) % DayLen # 0
      BY <2>1, <3>1 DEF Tick
    <3>3. Day(clock + 1) = Day(clock)
      BY <1>3, <3>2, NextMoment DEF Day
    <3>4. IF "time" \in seen' THEN clock' \in Local .. Local + age' ELSE clock' = start + age'
      BY <1>3, <1>4, <3>1
    <3> QED
      BY <1>4, <3>1, <3>3, <3>4
  <2>2. CASE AnswerWrite
    <3>1. PICK m \in wire :
            /\ m.body \in {"date", "time"}
            /\ clock' = Written(m.body)
            /\ seen' = seen \cup {m.body}
      BY <2>2 DEF AnswerWrite
    <3>2. stage # "read"
      BY <3>1 DEF ReadInv
    <3>3. Written("date") = clock /\ Written("time") = Local
      BY <1>4, <3>2, WriteMoves
    <3>4. age' = age
      BY <2>2 DEF AnswerWrite
    <3>5. CASE m.body = "date"
      BY <1>4, <3>1, <3>3, <3>4, <3>5
    <3>6. CASE m.body = "time"
      <4>1. clock' = Local /\ "time" \in seen'
        BY <3>1, <3>3, <3>6
      <4>2. Day(clock') = Day(start)
        BY <4>1, <3>2, <1>4
      <4> QED
        BY <1>3, <3>4, <4>1, <4>2
    <3> QED
      BY <3>1, <3>5, <3>6
  <2>3. CASE UNCHANGED <<clock, start, age, seen>>
    BY <1>4, <2>3
  <2> QED
    BY <2>1, <2>2, <2>3, ClockMoves
<1> QED
  BY <1>1, <1>5, <1>6

\* The invariant holds in every reachable state.
LEMMA CInvHolds == Spec => []CInv
<1>1. Init /\ SInv => CInv
  <2> SUFFICES ASSUME Init, SInv
               PROVE  ReadInv /\ CheckInv /\ DayInv
    BY DEF CInv
  <2>1. /\ clock = start /\ age = 0 /\ clock \in Nat /\ seen = {} /\ stage = "read"
        /\ wire = {} /\ back = {} /\ Queued = {}
    BY DEF Init, ExchangeInit, Queued, SInv, TypeOK
  <2>2. ReadInv
    BY <2>1 DEF ReadInv
  <2>3. CheckInv /\ DayInv
    BY <2>1 DEF CheckInv, DayInv
  <2> QED
    BY <2>2, <2>3
<1>2. CInv /\ SInv' /\ [Next]_vars => CInv'
  <2> SUFFICES ASSUME CInv, SInv', [Next]_vars
               PROVE  CInv'
    OBVIOUS
  <2>1. TypeOK
    BY DEF CInv, SInv
  <2>2. ReadInv' /\ CheckInv'
    BY <2>1, ReadStep, CheckStep DEF CInv
  <2>3. DayInv'
    BY <2>1, <2>2, DayStep DEF CInv
  <2> QED
    BY <2>2, <2>3 DEF CInv
<1> QED
  BY <1>1, <1>2, SInvHolds, PTL DEF Spec

\* Whatever the network loses, delays, reorders or repeats, a session whose
\* new time is of the device's day, by its checks or as it happens, leaves the
\* clock alone or sets it, and never half.
THEOREM ClockStaysWhole == Spec => []ClockIsWhole
<1>1. CInv => ClockIsWhole
  BY DEF CInv, DayInv, ClockIsWhole
<1> QED
  BY <1>1, CInvHolds, PTL

\* The difference that was checked, and in summer the hour the check does not
\* see, bound what the two writes do, however long after the check they reach
\* the device.
THEOREM StepStaysBounded == Spec => []StepIsBounded
<1> DEFINE hour == IF Summer(new) THEN 3600 ELSE 0
<1>1. CInv => StepIsBounded
  <2> SUFFICES ASSUME CInv, "difference" \in checks, OneDay, "midnight" \notin seen
               PROVE  Abs(clock - (start + age)) <= Diff + age + hour
    BY DEF StepIsBounded
  <2>1. /\ start \in Nat /\ age \in Nat /\ clock \in Nat /\ Diff \in Nat /\ TypeOK
        /\ hour \in Nat
    BY SyncAssumption DEF CInv, SInv, TypeOK
  <2>2. CASE "time" \in seen
    <3>1. clock \in Local .. Local + age /\ stage # "read"
      BY <2>2 DEF CInv, DayInv, ReadInv
    <3>2. devtime \in start .. start + age /\ ChecksPass(newtime, FromDevice(devtime))
      BY <3>1 DEF CInv, CheckInv
    <3>3. devtime \in Nat
      BY <2>1, <3>2
    <3>4. Abs(new - (devtime - Offset)) <= Diff
      BY <2>1, <3>2, <3>3, SameDay
    <3>5. new \in Nat /\ Offset \in Int /\ Local = new + Offset + hour /\ Local \in Nat
      BY <2>1, NewTime
    <3> HIDE DEF hour
    <3> QED
      BY <2>1, <3>1, <3>2, <3>3, <3>4, <3>5 DEF Abs
  <2>3. CASE "time" \notin seen
    <3>1. clock = start + age
      BY <2>3 DEF CInv, DayInv
    <3> HIDE DEF hour
    <3> QED
      BY <2>1, <3>1 DEF Abs
  <2> QED
    BY <2>2, <2>3
<1> QED
  BY <1>1, CInvHolds, PTL

\* With the check of the indexes no write moves a clock out of the period in
\* which it was read, whatever the network does with the write.
THEOREM IndexesAreKept == Spec => IndexesMoveAlone
<1> DEFINE A == "indexes" \in checks /\ MovesToPeriod
                  => clock \div Interval # devtime \div Interval
<1>1. CInv /\ [Next]_vars => [A]_vars
  <2> SUFFICES ASSUME CInv, [Next]_vars, "indexes" \in checks, age' = age,
                      Period(clock) = Period(devtime)
               PROVE  Period(clock') = Period(clock)
    BY DEF MovesToPeriod, Period
  <2>1. TypeOK /\ ReadInv /\ CheckInv
    BY DEF CInv, SInv
  <2>2. CASE AnswerWrite
    <3>1. PICK m \in wire : m.body \in {"date", "time"} /\ clock' = Written(m.body)
      BY <2>2 DEF AnswerWrite
    <3>2. devtime \in start .. start + age /\ ChecksPass(newtime, FromDevice(devtime))
      BY <2>1, <3>1 DEF ReadInv, CheckInv
    <3>3. devtime \in Nat /\ clock \in Nat
      BY <2>1, <3>2 DEF TypeOK
    <3>4. Period(Local) = Period(clock)
      BY <2>1, <3>2, <3>3, SameDay
    <3>5. Day(clock) = Day(Local)
      <4>1. Same(clock, Local, Interval)
        BY <3>4 DEF Same, Period
      <4>2. Same(clock, Local, DayLen)
        BY <2>1, <3>3, <4>1, Calendar, NewTime, Coarser
      <4> QED
        BY <4>2 DEF Same, Day
    <3>6. clock' = clock \/ clock' = Local
      BY <2>1, <3>1, <3>5, WriteMoves
    <3> QED
      BY <3>4, <3>6
  <2>3. CASE Tick
    BY <2>1, <2>3 DEF Tick, TypeOK
  <2>4. CASE UNCHANGED <<clock, start, age, seen>>
    BY <2>4
  <2> QED
    BY <2>2, <2>3, <2>4, ClockMoves
<1> QED
  BY <1>1, CInvHolds, PTL DEF Spec, IndexesMoveAlone

-----------------------------------------------------------------------------
(* The access level                                                        *)

\* The login that raises the level is among the first two requests, the one
\* that lowers it is the fourth or the fifth.  While a reply to the latter is
\* about, or was accepted, the level is down, since the former is too old.
LevelInv ==
  /\ \A m \in wire : nreq - m.ord <= MaxAge /\ (m.body = "admin" => m.ord <= 2)
  /\ \A m \in wire \cup back \cup Queued : m.body = "user" => m.ord >= 4
  /\ \A m \in back \cup Queued : m.body = "user" => priv = USER
  /\ result = 1 => nreq >= 4 /\ priv = USER

\* What a step does to the requests on the wire.
LEMMA RequestMoves ==
  ASSUME TypeOK, [Next]_vars
  PROVE  \/ nreq' = nreq /\ wire' \subseteq wire
         \/ /\ pc = "send" /\ nreq' = nreq + 1
            /\ \A m \in wire' : m \in Kept(wire, nreq') \/ (m.body = stage /\ m.ord = nreq')
<1>1. Answer => nreq' = nreq /\ wire' \subseteq wire
  BY AnswerEffect DEF Handed
<1>2. RequestFails => nreq' = nreq + 1 /\ wire' = Kept(wire, nreq')
  BY DEF RequestFails
<1>3. Request(stage) => /\ nreq' = nreq + 1
                        /\ \A m \in wire' : m \in Kept(wire, nreq') \/ (m.body = stage /\ m.ord = nreq')
  BY DEF Request
<1>4. TakeHead \/ TakeNothing \/ Deliver \/ Close => nreq' = nreq /\ wire' = wire
  BY DEF TakeHead, TakeNothing, Deliver, Close
<1> QED
  BY <1>1, <1>2, <1>3, <1>4
     DEF Next, Utility, Answer, Done, Connect, ConnectFails, Send, SendFails, ReceiveClock,
         ReceiveDone, Refuse, ReceiveFails, LinkDown, Arrive, RightsExpire, Tick, vars, netvars

\* What a step does to the level: it is lowered, or it stays while no reply to
\* a login as user is sent, or a login as admin raises it.
LEMMA LevelMoves ==
  ASSUME TypeOK, [Next]_vars
  PROVE  \/ priv' = USER
         \/ /\ \A m \in (back \cup Queued)' : m.body = "user" => m \in back \cup Queued
            /\ priv' = priv \/ (nreq' = nreq /\ \E m \in wire : m.body = "admin")
<1>1. CASE ~Answer
  <2>1. (back \cup Queued)' \subseteq back \cup Queued
    BY <1>1, RepliesKept
  <2>2. priv' = priv \/ priv' = USER
    BY <1>1
       DEF Next, Utility, Answer, Done, Connect, ConnectFails, Send, SendFails, ReceiveClock,
           ReceiveDone, Refuse, ReceiveFails, Failed, LinkDown, Arrive, RightsExpire, Tick, vars,
           device
  <2> QED
    BY <2>1, <2>2
<1>2. CASE AnswerLogin
  <2>1. PICK m \in wire :
          \/ m.body = "user" /\ priv' = USER
          \/ m.body = "admin" /\ (Confirm(m) \/ Nak(m) \/ Reply(m, m.num, 0))
    BY <1>2 DEF AnswerLogin
  <2>2. CASE m.body = "admin" /\ (Confirm(m) \/ Nak(m) \/ Reply(m, m.num, 0))
    <3>1. PICK num, data : Reply(m, num, data)
      BY <2>2 DEF Confirm, Nak
    <3>2. /\ back' = back \/ back' = back \cup {ReplyTo(m, num, data)}
          /\ nreq' = nreq /\ rxq' = rxq
      BY <3>1, ReplyEffect
    <3>3. Queued' = Queued
      BY <3>2 DEF Queued
    <3>4. ReplyTo(m, num, data).body = "admin"
      BY <2>2 DEF ReplyTo
    <3> QED
      BY <2>2, <3>2, <3>3, <3>4
  <2> QED
    BY <2>1, <2>2
<1>3. CASE AnswerRead \/ AnswerWrite \/ RefuseWrite
  <2>1. PICK m \in wire : m.body # "user" /\ \E num, data : Reply(m, num, data)
    BY <1>3 DEF AnswerRead, AnswerWrite, RefuseWrite, Confirm, Nak
  <2>2. PICK num, data : Reply(m, num, data)
    BY <2>1
  <2>3. /\ back' = back \/ back' = back \cup {ReplyTo(m, num, data)}
        /\ rxq' = rxq
    BY <2>2, ReplyEffect
  <2>4. Queued' = Queued
    BY <2>3 DEF Queued
  <2>5. ReplyTo(m, num, data).body # "user"
    BY <2>1 DEF ReplyTo
  <2>6. priv' = priv
    BY <1>3 DEF AnswerRead, AnswerWrite, RefuseWrite, device
  <2> QED
    BY <2>3, <2>4, <2>5, <2>6
<1> QED
  BY <1>1, <1>2, <1>3 DEF Answer

\* Every action keeps the level in step with the replies.
LEMMA LevelStep ==
  ASSUME "ack" \notin Styles, SeqMod >= 5, MaxAge <= 1,
         TypeOK, StageInv, NumberInv, NumberInv', ReplyInv, LevelInv, [Next]_vars
  PROVE  LevelInv'
<1>1. nreq \in Nat /\ MaxAge \in Nat /\ \A m \in wire : m.ord \in Nat
  BY ExchangeAssumption DEF TypeOK, Requests
<1>2. \A m \in wire' : /\ nreq' - m.ord <= MaxAge
                       /\ m.body = "admin" => m.ord <= 2
                       /\ m.body = "user" => m.ord >= 4
  <2>1. CASE nreq' = nreq /\ wire' \subseteq wire
    BY <2>1 DEF LevelInv
  <2>2. CASE /\ pc = "send" /\ nreq' = nreq + 1
             /\ \A m \in wire' : m \in Kept(wire, nreq') \/ (m.body = stage /\ m.ord = nreq')
    <3>1. /\ stage = "admin" => nreq' = 2
          /\ stage = "user" => nreq' >= 4
      BY <1>1, <2>2 DEF StageInv, NumbersAt
    <3> QED
      BY <1>1, <2>2, <3>1 DEF LevelInv, Kept
  <2> QED
    BY <2>1, <2>2, RequestMoves
<1>3. \A m \in (back \cup Queued)' : m.body = "user" => m.ord >= 4
  <2>1. CASE ~Answer
    BY <2>1, RepliesKept DEF LevelInv
  <2>2. CASE Answer
    <3>1. PICK m \in wire, r \in Replies : IsReply(r, m) /\ back' \subseteq back \cup {r}
      BY <2>2, AnswerEffect
    <3>2. Queued' = Queued
      BY <2>2, AnswerEffect DEF Queued
    <3> QED
      BY <3>1, <3>2 DEF LevelInv, IsReply
  <2> QED
    BY <2>1, <2>2
\* Once a login as user was sent, the one as admin is too old to come again.
<1>4. ASSUME nreq >= 4, NEW m \in wire, m.body = "admin"
      PROVE  FALSE
  BY <1>1, <1>4 DEF LevelInv
<1>5. \A m \in (back \cup Queued)' : m.body = "user" => priv' = USER
  <2> SUFFICES ASSUME NEW u \in (back \cup Queued)', u.body = "user", priv' # USER
               PROVE  FALSE
    OBVIOUS
  <2>1. u \in back \cup Queued
    BY LevelMoves
  <2>2. priv = USER /\ u.ord >= 4 /\ u.ord \in 1..nreq
    BY <2>1 DEF LevelInv, NumberInv
  <2>3. nreq >= 4
    BY <1>1, <2>2
  <2> QED
    BY <1>4, <2>2, <2>3, LevelMoves
<1>6. result' = 1 => nreq' >= 4 /\ priv' = USER
  <2> SUFFICES ASSUME result' = 1
               PROVE  nreq' >= 4 /\ priv' = USER
    OBVIOUS
  <2>1. nreq >= 4 /\ nreq' >= nreq
    <3>1. nreq' = nreq \/ nreq' = nreq + 1
      BY RequestMoves
    <3>2. nreq >= 4
      <4>1. CASE result = 1
        BY <4>1 DEF LevelInv
      <4>2. CASE result # 1
        <5>1. pc = "wait" /\ stage = "user"
          BY <4>2, AnswerEffect
             DEF Next, Utility, Answer, Done, Connect, ConnectFails, Send, SendFails,
                 ReceiveClock, ReceiveDone, Refuse, ReceiveFails, Failed, LinkDown, Arrive,
                 RightsExpire, Tick, vars, client
        <5> QED
          BY <1>1, <5>1 DEF StageInv, NumbersAt
      <4> QED
        BY <4>1, <4>2
    <3> QED
      BY <1>1, <3>1, <3>2
  <2>2. priv = USER
    <3>1. CASE result = 1
      BY <3>1 DEF LevelInv
    <3>2. CASE result # 1
      <4>1. ReceiveDone /\ stage = "user"
        BY <3>2, AnswerEffect
           DEF Next, Utility, Answer, Done, Connect, ConnectFails, Send, SendFails,
               ReceiveClock, ReceiveDone, Refuse, ReceiveFails, Failed, LinkDown, Arrive,
               RightsExpire, Tick, vars, client
      <4>2. Head(rxq).body = "user"
        BY <4>1, AcceptedIsLast DEF ReceiveDone
      <4>3. Head(rxq) \in Queued
        BY <4>1, HeadTaken DEF TypeOK, ReceiveDone
      <4> QED
        BY <4>2, <4>3 DEF LevelInv
    <3> QED
      BY <3>1, <3>2
  <2>3. priv' = USER
    BY <1>4, <2>1, <2>2, LevelMoves
  <2> QED
    BY <1>1, <2>1, <2>3, RequestMoves
<1> QED
  BY <1>2, <1>3, <1>5, <1>6 DEF LevelInv

\* Exit code 0 means that the level was given back, if the device confirms with
\* numbers and the network keeps no message over more than one later request.
THEOREM RightsComeBack ==
  ASSUME "ack" \notin Styles, SeqMod >= 5, MaxAge <= 1
  PROVE  Spec => []RightsReturned
<1>1. NetworkSuffices /\ NetworkSuffices'
  BY DEF NetworkSuffices
<1>2. Init => LevelInv
  BY DEF Init, ExchangeInit, LevelInv, Queued
<1>3. SInv /\ SInv' /\ LevelInv /\ [Next]_vars => LevelInv'
  BY <1>1, LevelStep DEF SInv
<1>4. LevelInv => RightsReturned
  BY DEF LevelInv, RightsReturned
<1> QED
  BY <1>2, <1>3, <1>4, SInvHolds, PTL DEF Spec
=============================================================================
