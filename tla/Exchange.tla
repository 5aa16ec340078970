------------------------------ MODULE Exchange ------------------------------
(***************************************************************************)
(* One request - one reply over a datagram link: process_request of the    *)
(* three utilities (utils/{sync,arch,msr}/main.c) on top of utils/base/    *)
(* linux/link.c, and the network between the utility and the device.       *)
(*                                                                         *)
(* The network may lose, reorder, delay and duplicate.  Loss needs no      *)
(* action: a message that nobody takes is lost.  Duplication needs none    *)
(* either: with Repeats, taking a message leaves it where it is, to be     *)
(* taken again.  What bounds delay and duplication is age: the network     *)
(* keeps a message only while at most MaxAge later requests were numbered. *)
(*                                                                         *)
(* The socket's receive queue is a FIFO and keeps what reached it for any  *)
(* time: process_request reads one datagram per request and never drains.  *)
(*                                                                         *)
(* A message is [ord, num, body (, data)].  num is the number on the wire. *)
(* ord is a history field, the ordinal of the request the message belongs  *)
(* to; no guard of the code looks at it.                                   *)
(***************************************************************************)
EXTENDS Integers, Sequences

CONSTANTS
  SeqMod,   \* request numbers are counted modulo SeqMod; 16 in the code
  MaxAge,   \* later requests after which the network has dropped a message
  Repeats,  \* whether the network may deliver a message more than once
  RxCap     \* datagrams the socket's receive buffer holds

ASSUME ExchangeAssumption ==
  /\ SeqMod \in Nat \ {0}
  /\ MaxAge \in Nat
  /\ Repeats \in BOOLEAN
  /\ RxCap \in Nat \ {0}

VARIABLES
  nout,     \* the static counter of process_request
  nreq,     \* history: requests numbered so far, not reduced modulo SeqMod
  wire,     \* requests on their way to the device
  back,     \* replies on their way to the utility
  rxq       \* datagrams queued in the utility's socket

netvars == <<nout, nreq, wire, back, rxq>>

ExchangeInit ==
  /\ nout = 0
  /\ nreq = 0
  /\ wire = {}
  /\ back = {}
  /\ rxq = << >>

\* The messages of S the network still holds when request n is numbered.
Kept(S, n) == {m \in S : n - m.ord <= MaxAge}

\* A mutant: the reduction modulo 16 is left out.
Unreduced(n) == n + 1

\* nout = (nout + 1) % 16
Following(n) == (n + 1) % SeqMod

\* tekon_req_pack and link_send of a request whose contents are body.
Request(body) ==
  /\ nout' = Following(nout)
  /\ nreq' = nreq + 1
  /\ wire' = Kept(wire, nreq') \cup {[ord |-> nreq', num |-> nout', body |-> body]}
  /\ back' = Kept(back, nreq')
  /\ rxq' = rxq

\* link_send fails: the number is used up and nothing leaves the host.
RequestFails ==
  /\ nout' = Following(nout)
  /\ nreq' = nreq + 1
  /\ wire' = Kept(wire, nreq')
  /\ back' = Kept(back, nreq')
  /\ rxq' = rxq

\* link_recv returns the datagram at the head of the queue.
TakeHead ==
  /\ rxq # << >>
  /\ rxq' = Tail(rxq)
  /\ UNCHANGED <<nout, nreq, wire, back>>

\* A mutant: link_recv without SO_RCVTIMEO waits until a datagram is there.
WaitForever ==
  /\ rxq # << >>
  /\ rxq' = Tail(rxq)
  /\ UNCHANGED <<nout, nreq, wire, back>>

\* link_recv returns no datagram (SO_RCVTIMEO, ECONNREFUSED, EINTR), or one
\* that was damaged on its way and that validate of unpack.c refuses.
TakeNothing ==
  /\ rxq' \in {rxq} \cup (IF rxq = << >> THEN {} ELSE {Tail(rxq)})
  /\ UNCHANGED <<nout, nreq, wire, back>>

\* The reply the device sends to the request m.
ReplyTo(m, num, data) == [ord |-> m.ord, num |-> num, body |-> m.body, data |-> data]

\* S once the network has handed over its message m.
Handed(S, m) == IF Repeats THEN S ELSE S \ {m}

\* The device takes the request m and puts the reply r on the network.
PutReply(m, r) ==
  /\ wire' = Handed(wire, m)
  /\ back' = back \cup {r}
  /\ UNCHANGED <<nout, nreq, rxq>>

\* The device takes the request m; nobody is there to take its reply.
PutNothing(m) ==
  /\ wire' = Handed(wire, m)
  /\ UNCHANGED <<nout, nreq, back, rxq>>

\* The network hands a reply to the utility's socket; a full buffer drops it.
Deliver ==
  /\ Len(rxq) < RxCap
  /\ \E m \in back : rxq' = Append(rxq, m) /\ back' = Handed(back, m)
  /\ UNCHANGED <<nout, nreq, wire>>

\* link_down: the socket and its queue are gone, and with them the replies
\* still on their way.  A request on its way still reaches the device.
Close ==
  /\ rxq' = << >>
  /\ back' = {}
  /\ UNCHANGED <<nout, nreq, wire>>
=============================================================================
