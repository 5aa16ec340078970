-------------------------- MODULE Exchange_proofs ---------------------------
(***************************************************************************)
(* Facts about the exchange of requests and replies that the proofs about  *)
(* the utilities share: what its actions do to the socket's queue, and     *)
(* which reply a number identifies.                                        *)
(***************************************************************************)
EXTENDS Exchange, Remainders, TLAPS

\* The datagrams in the socket's queue.
Queued == {rxq[k] : k \in 1 .. Len(rxq)}

-----------------------------------------------------------------------------
(* Sequences                                                               *)

\* The head and the tail of a sequence.
LEMMA TailFacts ==
  ASSUME NEW S, NEW q \in Seq(S), q # << >>
  PROVE  /\ Tail(q) \in Seq(S)
         /\ Len(q) \in Nat \ {0}
         /\ Head(q) = q[1] /\ q[1] \in S
         /\ Len(Tail(q)) = Len(q) - 1
         /\ \A k \in 1 .. Len(q) - 1 : Tail(q)[k] = q[k + 1]
  OBVIOUS

\* A sequence with an element added at its end.
LEMMA AppendFacts ==
  ASSUME NEW S, NEW q \in Seq(S), NEW e \in S
  PROVE  /\ Append(q, e) \in Seq(S)
         /\ Len(q) \in Nat
         /\ Len(Append(q, e)) = Len(q) + 1
         /\ \A k \in 1 .. Len(q) : Append(q, e)[k] = q[k]
         /\ Append(q, e)[Len(q) + 1] = e
  OBVIOUS

-----------------------------------------------------------------------------
(* What the actions do to the socket's queue                               *)

\* What is queued has the type of the queue's elements.
LEMMA QueuedAre ==
  ASSUME NEW S, rxq \in Seq(S)
  PROVE  Queued \subseteq S
<1>1. \A k \in 1 .. Len(rxq) : rxq[k] \in S
  OBVIOUS
<1> QED
  BY <1>1 DEF Queued

\* Reading the head leaves a queue of datagrams that were there before.
LEMMA HeadTaken ==
  ASSUME NEW S, rxq \in Seq(S), TakeHead
  PROVE  /\ Head(rxq) = rxq[1] /\ rxq[1] \in Queued /\ rxq[1] \in S
         /\ Len(rxq) \in Nat \ {0}
         /\ rxq' \in Seq(S)
         /\ Queued' \subseteq Queued
         /\ Len(rxq') = Len(rxq) - 1
         /\ \A k \in 1 .. Len(rxq') : rxq'[k] = rxq[k + 1]
  BY TailFacts DEF TakeHead, Queued

\* So does reading nothing, or a damaged datagram.
LEMMA NothingTaken ==
  ASSUME NEW S, rxq \in Seq(S), TakeNothing
  PROVE  rxq' \in Seq(S) /\ Queued' \subseteq Queued
<1>1. CASE rxq' = rxq
  BY <1>1 DEF Queued
<1>2. CASE rxq # << >> /\ rxq' = Tail(rxq)
  BY <1>2, TailFacts DEF Queued
<1> QED
  BY <1>1, <1>2 DEF TakeNothing

\* A datagram that arrives is put behind the others.
LEMMA Delivered ==
  ASSUME NEW S, rxq \in Seq(S), back \subseteq S, Deliver
  PROVE  /\ rxq' \in Seq(S)
         /\ Queued' \subseteq Queued \cup back
         /\ Len(rxq) \in Nat
         /\ Len(rxq') = Len(rxq) + 1
         /\ \A k \in 1 .. Len(rxq) : rxq'[k] = rxq[k]
         /\ rxq'[Len(rxq) + 1] \in back
<1>1. PICK m \in back : rxq' = Append(rxq, m)
  BY DEF Deliver
<1>3. /\ rxq' \in Seq(S)
      /\ Len(rxq) \in Nat
      /\ Len(rxq') = Len(rxq) + 1
      /\ \A k \in 1 .. Len(rxq) : rxq'[k] = rxq[k]
      /\ rxq'[Len(rxq) + 1] = m
  BY <1>1, AppendFacts
<1>4. \A k \in 1 .. Len(rxq') : k \in 1 .. Len(rxq) \/ k = Len(rxq) + 1
  BY <1>3
<1> QED
  BY <1>3, <1>4 DEF Queued

-----------------------------------------------------------------------------
(* Numbers on the network                                                  *)

\* Numbers and ordinals agree, and the network forgets.
NetInv ==
  /\ nout = nreq % SeqMod
  /\ \A m \in wire \cup back : m.ord <= nreq /\ nreq - m.ord <= MaxAge
  /\ \A m \in wire \cup back \cup Queued :
       m.ord \in 1..nreq /\ m.num = m.ord % SeqMod

\* How old the queued datagrams are while a request is about to be sent, and
\* how old while its reply is awaited: with the reply, only younger ones follow.
Young == \A k \in 1 .. Len(rxq) : nreq - rxq[k].ord <= MaxAge
Awaiting ==
  \A k \in 1 .. Len(rxq) :
    /\ nreq - rxq[k].ord <= MaxAge + 1
    /\ rxq[k].ord = nreq => \A j \in k .. Len(rxq) : nreq - rxq[j].ord <= MaxAge

\* Nothing is on the network before the first request.
LEMMA NetStart ==
  ASSUME ExchangeInit
  PROVE  NetInv /\ Young
<1>1. 0 = 0 % SeqMod
  BY ExchangeAssumption
<1> QED
  BY <1>1 DEF ExchangeInit, NetInv, Young, Queued

\* A queue that only loses datagrams keeps the network's invariant.
LEMMA NetShrinks ==
  ASSUME NetInv, Queued' \subseteq Queued, UNCHANGED <<nout, nreq, wire, back>>
  PROVE  NetInv'
  BY DEF NetInv

\* Numbering a request drops from the network what is now too old.
LEMMA NetNumbers ==
  ASSUME nreq \in Nat, NetInv, nout' = Following(nout), nreq' = nreq + 1, rxq' = rxq,
         back' = Kept(back, nreq'),
         \A m \in wire' :
           \/ m \in Kept(wire, nreq')
           \/ m.ord = nreq' /\ m.num = nout'
  PROVE  NetInv'
<1>1. nout' = nreq' % SeqMod
  BY NextNumber, ExchangeAssumption DEF NetInv, Following
<1>2. Queued' = Queued
  BY DEF Queued
<1>3. nreq \in Nat /\ MaxAge \in Nat
  BY ExchangeAssumption
<1> QED
  BY <1>1, <1>2, <1>3 DEF NetInv, Kept

\* Sending a request, and failing to send it, keep the network's invariant.
LEMMA NetRequest ==
  ASSUME nreq \in Nat, NetInv, NEW body, Request(body) \/ RequestFails
  PROVE  NetInv'
<1>1. \A m \in wire' :
        \/ m \in Kept(wire, nreq')
        \/ m.ord = nreq' /\ m.num = nout'
  BY DEF Request, RequestFails
<1> QED
  BY <1>1, NetNumbers DEF Request, RequestFails

\* So does a device that gives the number back.
LEMMA NetReply ==
  ASSUME NetInv, NEW m \in wire, NEW data, PutReply(m, ReplyTo(m, m.num, data))
  PROVE  NetInv'
<1>1. Queued' = Queued
  BY DEF PutReply, Queued
<1> QED
  BY <1>1 DEF NetInv, PutReply, Handed, ReplyTo

\* And the network that hands a reply over.
LEMMA NetDeliver ==
  ASSUME NEW S, rxq \in Seq(S), back \subseteq S, NetInv, Deliver
  PROVE  NetInv'
  BY Delivered DEF Deliver, Handed, NetInv

\* What was young before the next request is one request older after it.
LEMMA YoungAwaits ==
  ASSUME nreq \in Nat, NetInv, Young, NEW body, Request(body)
  PROVE  Awaiting'
<1>1. rxq' = rxq /\ nreq' = nreq + 1
  BY DEF Request
<1>2. nreq \in Nat /\ MaxAge \in Nat
  BY ExchangeAssumption
<1>3. \A k \in 1 .. Len(rxq) : rxq[k].ord \in 1 .. nreq /\ nreq - rxq[k].ord <= MaxAge
  BY DEF Young, NetInv, Queued
<1> QED
  BY <1>1, <1>2, <1>3 DEF Awaiting

\* What arrives comes from the network, which forgets, and is put at the end.
LEMMA DeliverKeepsAge ==
  ASSUME NEW S, rxq \in Seq(S), back \subseteq S, nreq \in Nat, NetInv, Deliver
  PROVE  (Young => Young') /\ (Awaiting => Awaiting')
<1> DEFINE L == Len(rxq)
<1>1. /\ L \in Nat /\ Len(rxq') = L + 1
      /\ \A k \in 1 .. L : rxq'[k] = rxq[k]
      /\ rxq'[L + 1] \in back
      /\ nreq' = nreq
  BY Delivered DEF Deliver
<1>2. nreq - rxq'[L + 1].ord <= MaxAge /\ rxq'[L + 1].ord \in 1 .. nreq
  BY <1>1 DEF NetInv
<1>3. nreq \in Nat /\ MaxAge \in Nat
  BY ExchangeAssumption
<1>4. \A k \in 1 .. L : rxq[k].ord \in 1 .. nreq
  BY DEF NetInv, Queued
<1>5. ASSUME Young PROVE Young'
  <2>1. \A k \in 1 .. L : nreq - rxq[k].ord <= MaxAge
    BY <1>5 DEF Young
  <2> HIDE DEF L
  <2> QED
    BY <1>1, <1>2, <2>1 DEF Young
<1>6. ASSUME Awaiting PROVE Awaiting'
  <2>1. \A k \in 1 .. L :
          /\ nreq - rxq[k].ord <= MaxAge + 1
          /\ rxq[k].ord = nreq => \A j \in k .. L : nreq - rxq[j].ord <= MaxAge
    BY <1>6 DEF Awaiting
  <2> HIDE DEF L
  <2> QED
    BY <1>1, <1>2, <1>3, <1>4, <2>1 DEF Awaiting
<1> QED
  BY <1>5, <1>6

\* The heart of it: a queued reply with the number of the last request is the
\* reply to the last request.
LEMMA NumberIdentifies ==
  ASSUME nreq \in Nat, NetInv,
         MaxAge + 1 < SeqMod => Awaiting,
         MaxAge + 1 < SeqMod \/ nreq <= SeqMod,
         NEW k \in 1 .. Len(rxq), rxq[k].num = nout
  PROVE  rxq[k].ord = nreq
<1>1. /\ rxq[k].ord \in 1 .. nreq /\ rxq[k].num = rxq[k].ord % SeqMod
      /\ nout = nreq % SeqMod
  BY DEF NetInv, Queued
<1>2. nreq \in Nat /\ SeqMod \in Nat \ {0} /\ MaxAge \in Nat
  BY ExchangeAssumption
<1>3. nreq - rxq[k].ord < SeqMod
  <2>1. CASE MaxAge + 1 < SeqMod
    <3>1. nreq - rxq[k].ord <= MaxAge + 1
      BY <2>1 DEF Awaiting
    <3> QED
      BY <3>1, <2>1, <1>1, <1>2
  <2>2. CASE nreq <= SeqMod
    BY <2>2, <1>1, <1>2
  <2> QED
    BY <2>1, <2>2
<1> DEFINE o == rxq[k].ord
<1>4. o % SeqMod = nreq % SeqMod
  BY <1>1
<1>5. o \in Int /\ nreq \in Int /\ o <= nreq /\ nreq - o < SeqMod
  BY <1>1, <1>2, <1>3
<1> HIDE DEF o
<1>6. o = nreq
  BY <1>2, <1>4, <1>5, SameRemainder
<1> QED
  BY <1>6 DEF o

\* With the reply of the last request read, the rest of the queue is young.
LEMMA RestIsYoung ==
  ASSUME NEW S, rxq \in Seq(S), Awaiting, TakeHead, Head(rxq).ord = nreq
  PROVE  Young'
<1>1. /\ Head(rxq) = rxq[1] /\ Len(rxq) \in Nat \ {0}
      /\ Len(rxq') = Len(rxq) - 1
      /\ \A k \in 1 .. Len(rxq') : rxq'[k] = rxq[k + 1]
      /\ nreq' = nreq
  BY HeadTaken DEF TakeHead
<1>2. \A j \in 1 .. Len(rxq) : nreq - rxq[j].ord <= MaxAge
  BY <1>1 DEF Awaiting
<1> QED
  BY <1>1, <1>2 DEF Young
=============================================================================
