------------------------------- MODULE Query -------------------------------
(***************************************************************************)
(* The life of one request: from the texts on the command line through     *)
(* read_args, tekon_req_* and tekon_req_pack to what the device is asked,  *)
(* and from the device's reply, which may be damaged on its way, through   *)
(* tekon_resp_unpack to the values that are shown.  The tools are          *)
(* tekon_arch, tekon_msr, tekon_sync, and a caller of the library for the  *)
(* messages that none of them uses.                                        *)
(*                                                                         *)
(* The order of the requests of a session, and numbers that do not fit,    *)
(* are the subject of ArchRead, MsrRead and TimeSync; here any request of  *)
(* the session may be the one looked at.                                   *)
(***************************************************************************)
EXTENDS Options, Codec

CONSTANTS
  Tools,        \* subset of {"arch", "msr", "sync", "lib"}
  NetTexts,     \* texts of the option -a, for each tool
  ArchTexts, ParTexts, DtTexts, IntTexts, CheckTexts,  \* texts of the others
  Passwords,    \* password texts: a length and the digits read
  Timeouts,     \* numbers for the timeout option
  News,         \* the dates and times tekon_sync may have to set
  Probes,       \* calls of tekon_req_11 and tekon_req_19
  Numbers,      \* request numbers
  TableMax,     \* MEASURMENT_MAX_TABLE_SIZE, 1024 in the code
  Deltas,       \* what a damaged byte may have been changed by
  Lossy,        \* the tools whose replies may be damaged on their way
  NoGateway     \* whether the device may leave its address out of a reply

\* Dates and times as tekon_sync makes them: numbers of two digits.
Dates == [dow : 0..99, day : 0..99, month : 0..99, year : 0..99]
Times == [hour : 0..99, minute : 0..99, second : 0..99]

ASSUME TextsAssumption ==
  /\ \A t \in Tools : \A text \in NetTexts[t] : text.fields \in Seq(Field)
  /\ ArchTexts \subseteq Seq(Field)
  /\ ParTexts \subseteq Seq(Seq(Field))
  /\ DtTexts \subseteq Seq(Field)
  /\ IntTexts \subseteq Seq(Field) \ {<< >>}
  /\ CheckTexts \subseteq Seq([name : STRING, value : Int])
  /\ Passwords \subseteq [len : Nat, digits : Seq(0..9)]
  /\ \A text \in Passwords : text.len >= 8 => Len(text.digits) = 8

\* The device, the parameter and the index of a message have 8 and 16 bits.
ASSUME QueryAssumption ==
  /\ Tools \subseteq {"arch", "msr", "sync", "lib"}
  /\ Timeouts \subseteq Int
  /\ News # {} /\ News \subseteq [date : Dates, time : Times]
  /\ Probes \subseteq [what : {"par11", "ind19"}, from : {0}, gateway : Byte, dev : Byte,
                       par : Word, idx : Word, size : Byte]
  /\ Numbers \subseteq 0..15
  /\ TableMax \in Nat \ {0}
  /\ Deltas \subseteq 1..255
  /\ Lossy \subseteq Tools
  /\ NoGateway \in BOOLEAN

VARIABLES
  tool,     \* which program runs
  pc,       \* "args", "refused", "ready", "unasked", "asked", "answered",
            \* "arrived", "taken" or "failed"
  app,      \* struct app, and the local gateway of read_args
  said,     \* history: the text of each option, the last one if repeated
  new,      \* tekon_sync's new time
  ask,      \* which request of the session
  number,   \* its number
  frame,    \* the bytes on their way
  heard,    \* history: what the device took the request for
  sent,     \* history: the bytes of the device's reply
  harm,     \* history: what happened to them
  got       \* the elements of a reply that was taken

vars == <<tool, pc, app, said, new, ask, number, frame, heard, sent, harm, got>>

NoAsk == [what |-> "none", from |-> 0]
NoneHeard == [number |-> 0, gateway |-> 0, elems |-> << >>]

-----------------------------------------------------------------------------
(* read_args                                                               *)

\* init and checks_init; the type of an address is TEKON_PARAM_RAW until set.
App0 ==
  [timeout |-> 1000,
   net |-> [port |-> 0, gateway |-> 0],
   gateway |-> 0,
   addr |-> [dev |-> 0, par |-> 0, idx |-> 0, cnt |-> 0, type |-> "r"],
   dt |-> [dev |-> 0, date |-> 0, time |-> 0],
   int |-> [type |-> "none", depth |-> 0, interval |-> 0],
   table |-> << >>,
   checks |-> [avail |-> {"difference", "minutes"}, diff |-> 30, minutes |-> 1],
   password |-> << >>]

Said0 == [net |-> << >>, addr |-> << >>, dt |-> << >>, int |-> << >>,
          checks |-> << >>, table |-> << >>, password |-> << >>]

Init ==
  /\ tool \in Tools
  /\ pc = IF tool = "lib" THEN "ready" ELSE "args"
  /\ app = App0
  /\ said = Said0
  /\ new \in (IF tool = "sync" THEN News ELSE {CHOOSE n \in News : TRUE})
  /\ ask = NoAsk /\ number = 0 /\ frame = << >>
  /\ heard = NoneHeard /\ sent = << >> /\ harm = "none" /\ got = << >>

later == <<ask, number, frame, heard, sent, harm, got>>

Refuse == pc' = "refused" /\ UNCHANGED <<tool, app, said, new, later>>

\* The option sets app and said, or is refused.
Set(ok, app1, said1) ==
  IF ok THEN app' = app1 /\ said' = said1 /\ UNCHANGED <<tool, pc, new, later>> ELSE Refuse

InArgs(tools) == pc = "args" /\ tool \in tools

\* Milliseconds: a minute at most.
Waits == 1..60000

\* A mutant: zero is a timeout.
OrZero(t) == t \in 0..60000
TimeoutIsValid(t) == t \in Waits

OptionT ==
  /\ InArgs({"arch", "msr", "sync"})
  /\ \E t \in Timeouts : Set(TimeoutIsValid(t), [app EXCEPT !.timeout = t], said)

OptionA ==
  /\ InArgs({"arch", "msr", "sync"})
  /\ \E text \in NetTexts[tool] :
       LET net == netaddr_from_string(text) IN
       IF net.ok
       THEN Set(TRUE, [app EXCEPT !.net = net.value, !.gateway = net.value.gateway],
                [said EXCEPT !.net = <<text>>])
       ELSE Refuse

\* The address of an archive; the option -a must stand before it.
OptionArchive ==
  /\ InArgs({"arch"})
  /\ \E text \in ArchTexts :
       LET addr == archaddr_from_string(text) IN
       IF app.gateway # 0 /\ addr.ok
       THEN Set(TRUE, [app EXCEPT !.addr = addr.value], [said EXCEPT !.addr = <<text>>])
       ELSE Refuse

\* Tokens with the addresses of parameters: each becomes a row of the table,
\* with the gateway of the last -a before it.
OptionParameters ==
  /\ InArgs({"msr"})
  /\ \E tokens \in ParTexts :
       LET pars == [i \in DOMAIN tokens |-> paraddr_from_string(tokens[i])]
           row(i) == [gateway |-> app.gateway, dev |-> pars[i].value.dev,
                      par |-> pars[i].value.par, idx |-> pars[i].value.idx]
       IN IF /\ app.gateway # 0
             /\ \A i \in DOMAIN pars : pars[i].ok
             /\ Len(app.table) + Len(tokens) <= TableMax
          THEN Set(TRUE,
                   [app EXCEPT !.table = @ \o [i \in DOMAIN tokens |-> row(i)]],
                   [said EXCEPT !.table = @ \o [i \in DOMAIN tokens |->
                                  [net |-> said.net[1], par |-> tokens[i]]]])
          ELSE Refuse

\* Eight digits at least; the first eight count.
OptionPassword ==
  /\ InArgs({"sync"})
  /\ \E text \in Passwords :
       Set(text.len >= 8, [app EXCEPT !.password = text.digits],
           [said EXCEPT !.password = <<text>>])

\* The addresses of date and time; tekon_arch takes the gateway again.
OptionD ==
  /\ InArgs({"arch", "sync"})
  /\ \E text \in DtTexts :
       LET dt == dtaddr_from_string(text) IN
       IF dt.ok
       THEN Set(TRUE, [app EXCEPT !.dt = dt.value, !.gateway = app.net.gateway],
                [said EXCEPT !.dt = <<text>>])
       ELSE Refuse

OptionI ==
  /\ InArgs({"arch"})
  /\ \E text \in IntTexts :
       LET int == intcfg_from_string(text) IN
       IF int.ok
       THEN Set(TRUE, [app EXCEPT !.int = int.value], [said EXCEPT !.int = <<text>>])
       ELSE Refuse

OptionC ==
  /\ InArgs({"sync"})
  /\ \E text \in CheckTexts :
       LET checks == checks_from_string(text) IN
       IF checks.ok
       THEN Set(TRUE, [app EXCEPT !.checks = checks.value], [said EXCEPT !.checks = <<text>>])
       ELSE Refuse

\* What read_args tests behind its loop.
Limit == IF app.int.type = "d" THEN 366 ELSE app.int.depth

\* A mutant: the start is not added.
SizeFits == Limit # 0 => app.addr.cnt <= Limit
RangeFits == Limit # 0 => app.addr.idx + app.addr.cnt <= Limit

\* How many records may be asked for.
Counts == 1..8192

ArchComplete ==
  /\ app.net.port # 0
  /\ app.addr.dev # 0
  /\ app.addr.type \in {"f", "u", "h", "b", "r"}
  /\ app.addr.cnt \in Counts
  /\ RangeFits

MsrComplete == app.net.port # 0 /\ app.table # << >>

SyncComplete ==
  /\ app.password # << >>
  /\ app.net.port # 0
  /\ app.dt.date # 0
  /\ app.dt.time # 0

Complete ==
  CASE tool = "arch" -> ArchComplete
    [] tool = "msr" -> MsrComplete
    [] tool = "sync" -> SyncComplete

EndOfArgs ==
  /\ pc = "args"
  /\ IF Complete THEN pc' = "ready" /\ UNCHANGED <<tool, app, said, new, later>> ELSE Refuse

-----------------------------------------------------------------------------
(* The requests of a session                                               *)

Smaller(a, b) == IF a < b THEN a ELSE b

UseTsc == app.gateway # 0 /\ app.dt.dev # 0 /\ app.int.type # "none"

\* The elements to read: rec_init for each record; msr_init for each row.
Items ==
  IF tool = "arch"
  THEN [i \in 1 .. app.addr.cnt |->
          [dev |-> app.addr.dev, par |-> app.addr.par,
           idx |-> Narrow(app.addr.idx + i - 1)]]
  ELSE [i \in DOMAIN app.table |->
          [dev |-> app.table[i].dev, par |-> app.table[i].par, idx |-> app.table[i].idx]]

ChunkStarts(n) == {k \in 0 .. n-1 : k % PLIST = 0}

Asks ==
  CASE tool = "arch" ->
         [what : {"chunk"}, from : ChunkStarts(app.addr.cnt)]
           \cup (IF UseTsc THEN [what : {"clock"}, from : {0}] ELSE {})
    [] tool = "msr" -> [what : {"chunk"}, from : ChunkStarts(Len(app.table))]
    [] tool = "sync" -> [what : {"clock", "admin", "date", "time", "user"}, from : {0}]
    [] tool = "lib" -> Probes

Gateway(a) ==
  CASE tool = "arch" -> app.gateway
    [] tool = "msr" -> app.table[a.from + 1].gateway
    [] tool = "sync" -> app.net.gateway
    [] tool = "lib" -> a.gateway

\* Pairs of the password's digits, as login sends them.
Pairs(d) == [i \in 1..4 |-> 10 * d[2*i - 1] + d[2*i]]

Login(level) == <<7, app.dt.dev, 5, level>> \o Pairs(app.password)
Write(register, value) == <<8, app.dt.dev, 3>> \o U16(register) \o value

\* read_chunk, read_multiple, read_time, login and write_time.
Message(a) ==
  CASE a.what = "chunk" ->
         tekon_req_1c(Gateway(a), SubSeq(Items, a.from + 1, Smaller(a.from + PLIST, Len(Items))))
    [] a.what = "clock" ->
         tekon_req_1c(Gateway(a), <<[dev |-> app.dt.dev, par |-> app.dt.date, idx |-> 0],
                                 [dev |-> app.dt.dev, par |-> app.dt.time, idx |-> 0]>>)
    [] a.what = "admin" -> tekon_req_14(Gateway(a), Login(2))
    [] a.what = "user" -> tekon_req_14(Gateway(a), Login(1))
    [] a.what = "date" ->
         tekon_req_14(Gateway(a), Write(app.dt.date, tekon_date_pack(new.date)))
    [] a.what = "time" ->
         tekon_req_14(Gateway(a), Write(app.dt.time, tekon_time_pack(new.time)))
    [] a.what = "par11" -> tekon_req_11(Gateway(a), a.dev, a.par)
    [] a.what = "ind19" -> tekon_req_19(Gateway(a), a.dev, a.par, a.idx, a.size)

Ask ==
  /\ pc = "ready"
  /\ \E a \in Asks, n \in Numbers :
       LET f == IF Message(a) = None THEN << >> ELSE tekon_req_pack(Message(a), n) IN
       /\ ask' = a
       /\ number' = n
       /\ frame' = f
       /\ pc' = IF f = << >> THEN "unasked" ELSE "asked"
  /\ UNCHANGED <<tool, app, said, new, heard, sent, harm, got>>

-----------------------------------------------------------------------------
(* The device and the network                                              *)

\* What the device's memory holds under an address, and how good it is.  A
\* parameter with an odd address is two bytes long.
Memory(e) == <<(e.dev + e.idx) % 256, e.idx \div 256, e.par % 256, e.par \div 256>>
Stored(e) == IF e.par % 2 = 1 THEN SubSeq(Memory(e), 1, 2) ELSE Memory(e)
Quality(e) == IF e.idx % 3 = 1 THEN 128 ELSE 0

Asked11 == ask.what = "par11"
AskedList == ask.what \in {"chunk", "clock"}
AskedWrite == ask.what \in {"admin", "date", "time", "user"}

\* The reply to a read.
Data(h) ==
  FlattenSeq([i \in DOMAIN h.elems |->
    IF AskedList THEN Memory(h.elems[i]) \o <<Quality(h.elems[i])>>
    ELSE IF Asked11 THEN Stored(h.elems[i]) ELSE Memory(h.elems[i])])

Answers(h) ==
  LET replies == {ReplyFrame(h.number, gateway, IF AskedWrite THEN <<h.elems[4]>> ELSE Data(h)) :
                    gateway \in {h.gateway} \cup (IF NoGateway THEN {0} ELSE {})}
  IN IF AskedWrite THEN replies \cup {<<ACK>>, <<NAK>>} ELSE replies

Answer ==
  /\ pc = "asked"
  /\ heard' = Heard(frame)
  /\ \E f \in Answers(heard') : frame' = f /\ sent' = f
  /\ pc' = "answered"
  /\ UNCHANGED <<tool, app, said, new, ask, number, harm, got>>

Arrive(f, h) ==
  /\ pc = "answered"
  /\ frame' = f
  /\ harm' = h
  /\ pc' = "arrived"
  /\ UNCHANGED <<tool, app, said, new, ask, number, heard, sent, got>>

ArriveWhole == Arrive(sent, "none")

\* A byte was changed; the first one tells the kinds of reply apart.
ArriveChanged ==
  tool \in Lossy /\ \E i \in DOMAIN sent, d \in Deltas :
    Arrive([sent EXCEPT ![i] = (@ + d) % 256], IF i = 1 THEN "first" ELSE "byte")

ArriveShort == tool \in Lossy /\ \E n \in 1 .. Len(sent) - 1 : Arrive(SubSeq(sent, 1, n), "short")
ArriveLong == \E n \in 1..2 : Arrive(sent \o SubSeq(sent, 1, Smaller(n, Len(sent))), "long")

-----------------------------------------------------------------------------
(* process_request                                                         *)

\* A mutant: a NAK is a receipt, too.
AnyReceipt(r) ==
  \/ tool = "sync" /\ r.type \in {"ACK", "NAK"} /\ AskedWrite
  \/ tool = "sync" /\ r.type = "14" /\ r.number = number
  \/ /\ ~(tool = "sync" /\ r.type \in {"ACK", "NAK", "14"})
     /\ r.number = number
     /\ Len(r.elems) = Len(Message(ask).elems)

\* For tekon_sync an ACK confirms a write, and read_time finds no date in it;
\* a reply to a write counts by its number, any other by its elements, too.
Accepted(r) ==
  \/ tool = "sync" /\ r.type = "ACK" /\ AskedWrite
  \/ tool = "sync" /\ r.type = "14" /\ r.number = number
  \/ /\ ~(tool = "sync" /\ r.type \in {"ACK", "14"})
     /\ r.number = number
     /\ Len(r.elems) = Len(Message(ask).elems)

End(taken, elems) ==
  /\ pc' = IF taken THEN "taken" ELSE "failed"
  /\ got' = elems
  /\ frame' = << >>
  /\ UNCHANGED <<tool, app, said, new, ask, number, heard, sent, harm>>

Receive ==
  /\ pc = "arrived"
  /\ LET r == tekon_resp_unpack(frame, Message(ask).type) IN
     /\ r.ret > 0 => r.filled
     /\ IF r.ret > 0 /\ Accepted(r) THEN End(TRUE, r.elems) ELSE End(FALSE, << >>)

\* tekon_resp_* refused: the message is what the stack held, its type and its
\* count too, and any of it may be taken.
ReceiveUnfilled ==
  /\ pc = "arrived"
  /\ LET r == tekon_resp_unpack(frame, Message(ask).type) IN
     /\ r.ret > 0 /\ ~r.filled
     /\ \/ End(FALSE, << >>)
        \/ /\ tool = "sync" \/ r.number = number
           /\ End(TRUE, [i \in DOMAIN Message(ask).elems |-> [value |-> <<0, 0, 0, 0>>, qual |-> 0]])

Done == pc \in {"refused", "unasked", "taken", "failed"} /\ UNCHANGED vars

Next ==
  \/ OptionT \/ OptionA \/ OptionArchive \/ OptionParameters \/ OptionPassword
  \/ OptionD \/ OptionI \/ OptionC \/ EndOfArgs
  \/ Ask \/ Answer
  \/ ArriveWhole \/ ArriveChanged \/ ArriveShort \/ ArriveLong
  \/ Receive \/ ReceiveUnfilled
  \/ Done

Spec == Init /\ [][Next]_vars

-----------------------------------------------------------------------------
(* Properties                                                              *)

Elements == [dev : Byte, par : Word, idx : Word]

\* Every variable has the type its declaration in the code gives it; numbers
\* keep to the width of their fields, and frames are bytes.
TypeOK ==
  /\ tool \in Tools
  /\ pc \in {"args", "refused", "ready", "unasked", "asked", "answered", "arrived", "taken",
             "failed"}
  /\ app.timeout \in Nat
  /\ app.net \in [port : Word, gateway : Byte]
  /\ app.gateway \in Byte
  /\ app.addr \in [dev : Byte, par : Word, idx : Word, cnt : Word,
                  type : {"r", "b", "u", "h", "f", "t", "d"}]
  /\ app.dt \in [dev : Byte, date : Word, time : Word]
  /\ app.int \in [type : {"none", "m", "d", "h", "i"}, depth : Word, interval : Byte]
  /\ Len(app.table) <= TableMax
  /\ app.checks.avail \subseteq {"difference", "minutes", "indexes"}
  /\ number \in 0..15
  /\ frame \in Seq(Byte) /\ sent \in Seq(Byte)
  /\ harm \in {"none", "first", "byte", "short", "long"}

(* What was written on the command line                                    *)

\* The field k of a text fits the limit l of the parser.
Fits(text, limits) ==
  Len(text) = Len(limits) /\ \A k \in DOMAIN limits : text[k].len <= limits[k]

NetFits(net) == Fits(net.fields, <<5, 4>>)
WrittenGateway(net) == net.fields[2].num

WrittenItem(text, k) == [dev |-> text[1].num, par |-> text[2].num, idx |-> text[3].num + k]

\* A text of n fields, numbers all but the last, which is the letter of the type.
HasFields(text, n) == Len(text) = n /\ \A k \in 1 .. n-1 : text[k].letter = "digit"

\* What the protocol can carry: parameters of 16 bits, and every index but the
\* last; numbers that may not be hexadecimal are not.
CanBeAsked(item, text) == item.par <= 65535 /\ item.idx < 65535 /\ ~text[3].hex

HasBeenAsked == pc \in {"answered", "arrived", "taken", "failed"}

\* The device is asked for what the command line says, by number, device,
\* parameter and index, through the gateway it names: no text of the right
\* number of fields is taken for another one, and no record for another, on
\* the way through parser, table, message and frame.
AskedAsWritten ==
  HasBeenAsked /\ ask.what = "chunk" =>
    /\ heard.number = number
    /\ \A i \in DOMAIN heard.elems :
         LET text == IF tool = "arch" THEN said.addr[1] ELSE said.table[ask.from + i].par
             item == WrittenItem(text, IF tool = "arch" THEN ask.from + i - 1 ELSE 0)
         IN HasFields(text, IF tool = "arch" THEN 5 ELSE 4) /\ CanBeAsked(item, text)
            => heard.elems[i] = item
    /\ LET net == IF tool = "arch" THEN said.net[1] ELSE said.table[ask.from + 1].net
       IN NetFits(net) => heard.gateway = WrittenGateway(net)

\* tekon_sync reads and writes the registers named on the command line, sets
\* the very date and time it was to set, and gives the password as written;
\* the texts fit their fields (write_time, login, BCD packing).
SetAsWritten ==
  LET text == said.dt[1]
      bytes == heard.elems
      register == FromU16(bytes[4], bytes[5])
      value == SubSeq(bytes, 6, 9)
  IN HasBeenAsked /\ tool = "sync" /\ Fits(text, <<3, 6, 6>>)
     /\ text[2].num <= 65535 /\ text[3].num <= 65535 =>
     /\ ask.what = "clock" => bytes = <<[dev |-> text[1].num, par |-> text[2].num, idx |-> 0],
                                       [dev |-> text[1].num, par |-> text[3].num, idx |-> 0]>>
     /\ ask.what = "date" => /\ bytes[2] = text[1].num /\ bytes[3] = 3
                             /\ register = text[2].num
                             /\ tekon_date_unpack(value) = new.date
     /\ ask.what = "time" => /\ bytes[2] = text[1].num /\ bytes[3] = 3
                             /\ register = text[3].num
                             /\ tekon_time_unpack(value) = new.time
     /\ ask.what \in {"admin", "user"} =>
          /\ bytes[2] = text[1].num /\ bytes[3] = 5
          /\ bytes[4] = IF ask.what = "admin" THEN 2 ELSE 1
          /\ SubSeq(bytes, 5, 8) = Pairs(said.password[1].digits)

\* Whatever is damaged, cut off or appended on the way, a value that is shown
\* is the one the device holds under the address that is shown with it; only
\* the address with the index 65535 is read without an index.
ValuesAreTrue ==
  pc = "taken" /\ ~AskedWrite /\ sent[6] # 0 =>
    \A i \in DOMAIN got :
      LET item == Message(ask).elems[i] IN
      item.idx # NoIndex =>
        /\ AskedList => got[i] = [value |-> Memory(item), qual |-> Quality(item)]
        /\ ask.what = "ind19" => got[i].value = Memory(item)
        /\ Asked11 => got[i].value = IF item.par % 2 = 1 THEN Stored(item) \o <<0, 0>>
                                     ELSE Memory(item)

\* A write or a login counts as done only if the device confirmed it, unless
\* the first byte of its reply, which makes an ACK, was damaged.
ConfirmedIsTrue == pc = "taken" /\ AskedWrite /\ harm # "first" => sent # <<NAK>>

\* An answer that arrives as the device sent it is taken, and bytes behind it do
\* no harm; only a list of one index, 0x19, is refused (unpack_readem_19).
GoodAnswerIsTaken ==
  /\ pc = "failed" /\ harm \in {"none", "long"}
  => \/ sent = <<NAK>>
     \/ sent # <<ACK>> /\ sent[6] = 0
     \/ ask.what = "ind19" /\ ask.size = 1

\* With an interval on the command line, the archive's requests stay inside the
\* ring it describes and name every slot once: no index is beyond the depth
\* as it was written, none wraps, and none is the mark for "no index".
AskedInsideRing ==
  HasBeenAsked /\ tool = "arch" /\ ask.what = "chunk" /\ said.int # << >> =>
    LET int == said.int[1]
        depth == IF int[1].letter = "d" THEN 366 ELSE int[2].num
    IN /\ \A i \in DOMAIN heard.elems : heard.elems[i].idx < depth
       /\ \A i, j \in DOMAIN heard.elems : i # j => heard.elems[i].idx # heard.elems[j].idx

\* Whatever order, repetition and omission of options read_args lets pass, the
\* request can be made, and the wait for its reply is bounded.
AcceptedCanAsk ==
  /\ pc = "unasked" => tool = "lib"
  /\ app.timeout \in Waits

\* A check named on the command line is made, with the value named last; only
\* none at the head of the list, or an option without any name, makes no check.
ChecksAreNamed ==
  tool = "sync" /\ pc # "refused" /\ said.checks # << >> =>
    LET text == said.checks[1]
        names == {text[i].name : i \in DOMAIN text}
    IN \/ text = << >> /\ app.checks.avail = {}
       \/ text # << >> /\ text[1].name = "none" /\ app.checks.avail = {}
       \/ text # << >> /\ app.checks.avail = names
            /\ \A i \in DOMAIN text :
                 (\A j \in i+1 .. Len(text) : text[j].name # text[i].name) =>
                   /\ text[i].name = "difference" => app.checks.diff = text[i].value
                   /\ text[i].name = "minutes" => app.checks.minutes = text[i].value
=============================================================================
