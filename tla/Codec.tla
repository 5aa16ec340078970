------------------------------- MODULE Codec -------------------------------
(***************************************************************************)
(* The messages of the protocol as bytes: tekon/message.c, pack.c,         *)
(* unpack.c, proto.c and the BCD part of time.c.  A frame is a sequence of *)
(* bytes.  What the device makes of a request and how it frames a reply is *)
(* external.                                                               *)
(*                                                                         *)
(* Message types are "11" (one parameter), "19" (consecutive indexes of    *)
(* one parameter), "1C" (list of parameters) and "14" (write, login).      *)
(***************************************************************************)
EXTENDS Integers, Sequences, SequencesExt

FIX == 16       \* TEKON_PROTO_FIX_PREFIX
VAR == 104      \* TEKON_PROTO_VAR_PREFIX
END == 22       \* TEKON_PROTO_END
ACK == 162      \* TEKON_PROTO_POS_ACK
NAK == 229      \* TEKON_PROTO_NEG_ACK
PLIST == 40     \* TEKON_PROTO_PLIST_SIZE
ILIST == 60     \* TEKON_PROTO_ILIST_SIZE
NoIndex == 65535    \* TEKON_INVALID_INDEX

Byte == 0..255
Word == 0..65535

\* buffer_writer_u16 on a little-endian host.
U16(u) == <<u % 256, u \div 256>>
FromU16(lo, hi) == lo + 256 * hi

\* The sum of the bytes s[r[1]] to s[r[2]], by halves.
Sums(s) ==
  LET sum[r \in (1..Len(s)) \X (1..Len(s))] ==
        LET middle == (r[1] + r[2]) \div 2 IN
        IF r[1] = r[2] THEN s[r[1]] % 256
        ELSE (sum[<<r[1], middle>>] + sum[<<middle + 1, r[2]>>]) % 256
  IN sum

\* tekon_crc over the bytes s.
Crc(s) == Sums(s)[<<1, Len(s)>>]

\* One BCD digit pair: (n / 10 << 4) | n % 10, and back.
ToBcd(n) == (16 * (n \div 10) + (n % 10)) % 256
FromBcd(b) == 10 * (b \div 16) + (b % 16)

tekon_date_pack(d) == <<ToBcd(d.dow), ToBcd(d.day), ToBcd(d.month), ToBcd(d.year)>>

\* A mutant: hour and second change places.
HourFirst(t) == <<0, ToBcd(t.hour), ToBcd(t.minute), ToBcd(t.second)>>

tekon_time_pack(t) == <<0, ToBcd(t.second), ToBcd(t.minute), ToBcd(t.hour)>>

tekon_date_unpack(b) ==
  [dow |-> FromBcd(b[1]), day |-> FromBcd(b[2]), month |-> FromBcd(b[3]), year |-> FromBcd(b[4])]
tekon_time_unpack(b) ==
  [second |-> FromBcd(b[2]), minute |-> FromBcd(b[3]), hour |-> FromBcd(b[4])]

-----------------------------------------------------------------------------
(* Requests: message.c.  None stands for the return of 0.                  *)

None == [type |-> "UNK"]

tekon_req_11(gateway, device, address) ==
  IF gateway = 0 \/ device = 0 THEN None
  ELSE [type |-> "11", gateway |-> gateway,
        elems |-> <<[dev |-> device, par |-> address, idx |-> 0]>>]

tekon_req_14(gateway, data) ==
  IF gateway = 0 THEN None
  ELSE [type |-> "14", gateway |-> gateway, elems |-> data]

\* param->index = index + i is cut to 16 bits.
tekon_req_19(gateway, device, address, index, size) ==
  IF gateway = 0 \/ size > ILIST THEN None
  ELSE [type |-> "19", gateway |-> gateway,
        elems |-> [i \in 1..size |-> [dev |-> device, par |-> address,
                                      idx |-> (index + i - 1) % 65536]]]

tekon_req_1c(gateway, elems) ==
  IF gateway = 0 \/ Len(elems) > PLIST \/ \E i \in DOMAIN elems : elems[i].dev = 0
  THEN None
  ELSE [type |-> "1C", gateway |-> gateway, elems |-> elems]

-----------------------------------------------------------------------------
(* Packing: pack.c.  << >> stands for the return of 0.                     *)

Fixed(inner) == <<FIX>> \o inner \o <<Crc(inner), END>>
Variable(inner) ==
  <<VAR, Len(inner), Len(inner), VAR>> \o inner \o <<Crc(inner), END>>

Header(m, number, code) == <<64 + number, m.gateway, code>>

\* One element of the list; TEKON_INVALID_INDEX is sent as "no index".
ListElement(e) ==
  <<e.dev>> \o U16(e.par) \o (IF e.idx = NoIndex THEN <<0, 0, 0>> ELSE U16(e.idx) \o <<1>>)

pack_readem_11(m, number) ==
  LET e == m.elems[1] IN Fixed(Header(m, number, 17) \o <<e.dev>> \o U16(e.par))

\* The command, byte 3 of the payload, sets the length bytes of the frame; they
\* are right for what write_time (9 bytes) and login (8 bytes) give.
pack_readem_14(m, number) ==
  LET len == CASE m.elems[3] = 3 -> 12 [] m.elems[3] = 5 -> 11
      inner == Header(m, number, 20) \o m.elems
  IN <<VAR, len, len, VAR>> \o inner \o <<Crc(SubSeq(inner, 1, len)), END>>

pack_readem_19(m, number) ==
  LET e == m.elems[1] IN
  IF Len(m.elems) \in 1..ILIST
  THEN Variable(Header(m, number, 25) \o <<e.dev>> \o U16(e.par) \o U16(e.idx)
                  \o <<Len(m.elems)>>)
  ELSE << >>

pack_readem_list_1C(m, number) ==
  IF Len(m.elems) <= PLIST
  THEN Variable(Header(m, number, 28)
         \o FlattenSeq([i \in DOMAIN m.elems |-> ListElement(m.elems[i])]))
  ELSE << >>

tekon_req_pack(m, number) ==
  CASE number > 15 -> << >>
    [] number <= 15 /\ m.type = "11" -> pack_readem_11(m, number)
    [] number <= 15 /\ m.type = "14" -> pack_readem_14(m, number)
    [] number <= 15 /\ m.type = "19" -> pack_readem_19(m, number)
    [] number <= 15 /\ m.type = "1C" -> pack_readem_list_1C(m, number)

-----------------------------------------------------------------------------
(* The device                                                              *)

\* n slices of s, of size bytes each, from position `from` on.
Slices(s, from, size, n) ==
  [i \in 1..n |-> SubSeq(s, from + (i-1) * size, from + i * size - 1)]

FromElement(b) ==
  [dev |-> b[1], par |-> FromU16(b[2], b[3]),
   idx |-> IF b[6] = 1 THEN FromU16(b[4], b[5]) ELSE NoIndex]

\* What the device takes a request for.
Heard(f) ==
  LET inner == IF f[1] = FIX THEN SubSeq(f, 2, 7) ELSE SubSeq(f, 5, 4 + f[2])
      body == SubSeq(inner, 4, Len(inner))
  IN [number |-> inner[1] % 16, gateway |-> inner[2],
      elems |->
        CASE inner[3] = 17 -> <<[dev |-> body[1], par |-> FromU16(body[2], body[3]), idx |-> 0]>>
          [] inner[3] = 20 -> body
          [] inner[3] = 25 -> [i \in 1..body[6] |->
                                 [dev |-> body[1], par |-> FromU16(body[2], body[3]),
                                  idx |-> (FromU16(body[4], body[5]) + i - 1) % 65536]]
          [] inner[3] = 28 -> [i \in 1 .. Len(body) \div 6 |->
                                 FromElement(SubSeq(body, 6 * i - 5, 6 * i))]]

ReplyFrame(number, gateway, data) == Variable(<<number, gateway>> \o data)

-----------------------------------------------------------------------------
(* Unpacking: unpack.c, and tekon_resp_* of message.c                      *)

\* A mutant: the checksum is not compared.
AnySum(s, crc) == crc \in Byte

\* tekon_fixed_crc and tekon_variable_crc against the frame's own.
SumIs(s, crc) == Crc(s) = crc

\* Frames with a length of 250 and more, which no request leads to, are left
\* out: the code adds 6 to the length in eight bits.
validate(f) ==
  CASE f[1] \in {ACK, NAK} -> TRUE
    [] f[1] = FIX -> Len(f) >= 9 /\ SumIs(SubSeq(f, 2, 7), f[8]) /\ f[9] = END
    [] f[1] = VAR -> /\ Len(f) >= 9 /\ Len(f) >= f[2] + 6
                     /\ f[2] = f[3] /\ f[2] > 2
                     /\ SumIs(SubSeq(f, 5, f[2] + 4), f[f[2] + 5])
                     /\ f[f[2] + 6] = END
    [] OTHER -> FALSE

\* What tekon_resp_unpack leaves: its return value, the number, the type of the
\* message and its elements.  A message that tekon_resp_* refuses stays as it
\* was: filled is FALSE.
Refused == [ret |-> 0, number |-> 0, type |-> "UNK", elems |-> << >>, filled |-> FALSE]

Reply(f, ret, type, elems, filled) ==
  [ret |-> ret, number |-> f[5] % 16, type |-> type, elems |-> elems, filled |-> filled]

\* The tests that all the replies of variable length begin with.
IsVariable(f, atLeast) == f[1] = VAR /\ f[4] = VAR /\ f[2] = f[3] /\ f[2] >= atLeast

unpack_readem_11(f) ==
  LET n == f[2] - 2 IN
  IF IsVariable(f, 3) /\ n <= 4
  THEN Reply(f, n + 8, "11",
             <<[value |-> SubSeq(f, 7, 6 + n) \o [i \in 1 .. 4 - n |-> 0], qual |-> 0]>>,
             f[6] # 0)
  ELSE Refused

unpack_readem_14(f) ==
  IF IsVariable(f, 3) /\ f[2] = 3 /\ f[6] # 0
  THEN Reply(f, 9, "14", <<f[7]>>, TRUE) ELSE Refused

unpack_readem_19(f) ==
  LET n == (f[2] - 2) \div 4
      values == Slices(f, 7, 4, n)
  IN IF IsVariable(f, 8) /\ (f[2] - 2) % 4 = 0
     THEN Reply(f, f[2] + 6, "19",
                [i \in 1..n |-> [value |-> values[i], qual |-> 0]],
                f[6] # 0 /\ n <= ILIST)
     ELSE Refused

\* A mutant: the shortest list accepted has more than one element.
TwoElements == 8

\* len1 of a list of one element.
OneElement == 7

unpack_readem_list_1C(f) ==
  LET n == (f[2] - 2) \div 5
      values == Slices(f, 7, 5, n)
  IN IF IsVariable(f, OneElement) /\ (f[2] - 2) % 5 = 0
     THEN Reply(f, f[2] + 6, "1C",
                [i \in 1..n |-> [value |-> SubSeq(values[i], 1, 4), qual |-> values[i][5]]],
                f[6] # 0 /\ n <= PLIST)
     ELSE Refused

\* tekon_resp_ack; the number stays the 0 the caller set it to.
Confirmation(f) ==
  [ret |-> 1, number |-> 0, type |-> IF f[1] = ACK THEN "ACK" ELSE "NAK",
   elems |-> << >>, filled |-> TRUE]

unpack_readem(f, type) ==
  CASE type = "11" -> unpack_readem_11(f)
    [] type = "14" -> unpack_readem_14(f)
    [] type = "19" -> unpack_readem_19(f)
    [] type = "1C" -> unpack_readem_list_1C(f)

tekon_resp_unpack(f, type) ==
  IF f = << >> \/ ~validate(f) THEN Refused
  ELSE IF f[1] \in {ACK, NAK} THEN Confirmation(f)
  ELSE unpack_readem(f, type)
=============================================================================
