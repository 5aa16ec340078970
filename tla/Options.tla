------------------------------ MODULE Options ------------------------------
(***************************************************************************)
(* The texts of the command line: utils/base/types.c, string.c and         *)
(* checks_from_string of utils/sync/check.c.                               *)
(*                                                                         *)
(* A text is the sequence of its fields, the parts between the separators. *)
(* A field has a number, the length it is written with, and says whether   *)
(* it is written in hexadecimal or is a letter.  A letter is the number 0, *)
(* as atol takes it.  Field texts of the right number of separators in the *)
(* wrong places, and IP addresses, are not told apart further.             *)
(***************************************************************************)
EXTENDS Integers, Sequences

Digits(n) == CHOOSE k \in 1..9 : n < 10^k /\ (k = 1 \/ n >= 10^(k-1))
HexDigits(n) == CHOOSE k \in 1..7 : n < 16^k /\ (k = 1 \/ n >= 16^(k-1))

Dec(n) == [num |-> n, len |-> Digits(n), hex |-> FALSE, letter |-> "digit"]
Padded(n, len) == [num |-> n, len |-> len, hex |-> FALSE, letter |-> "digit"]
Hex(n) == [num |-> n, len |-> 2 + HexDigits(n), hex |-> TRUE, letter |-> "digit"]
Letter(c) == [num |-> 0, len |-> 1, hex |-> FALSE, letter |-> c]
Empty == [num |-> 0, len |-> 0, hex |-> FALSE, letter |-> "none"]

TypeLetters == {"r", "b", "u", "h", "f", "t", "d"}

\* Any field; "x" stands for a letter that no parser knows.
Field == [num : Nat, len : Nat, hex : BOOLEAN,
          letter : TypeLetters \cup {"m", "i", "x", "digit", "none"}]

-----------------------------------------------------------------------------
(* Reading a field                                                         *)

Base(f) == IF f.hex THEN 16 ELSE 10

\* What a number of n characters in the notation of f is less than.
Power(f, n) ==
  LET power[k \in 0..n] == IF k = 0 THEN 1 ELSE Base(f) * power[k-1]
  IN power[n]

\* The first `limit` characters of the field f.
Cut(f, limit) == [f EXCEPT !.num = f.num \div Power(f, f.len - limit), !.len = limit]

\* A mutant: what is too long for a field is skipped, up to the next separator.
Skipped(f, limit) == << >>

\* What is left of f for the next field's loop: one character is dropped, as if
\* it were the separator, and the rest is read as a field of its own.
Rest(f, limit) ==
  LET len == f.len - limit - 1 IN
  <<IF len = 0 THEN Empty
    ELSE [f EXCEPT !.num = f.num % Power(f, len), !.len = len, !.hex = FALSE]>>

\* One of the loops over a field, and the string_next behind it.
ReadField(acc, limit) ==
  LET f == IF acc.left = << >> THEN Empty ELSE Head(acc.left)
      others == IF acc.left = << >> THEN << >> ELSE Tail(acc.left)
  IN IF f.len <= limit
     THEN [left |-> others, got |-> Append(acc.got, f)]
     ELSE [left |-> Rest(f, limit) \o others, got |-> Append(acc.got, Cut(f, limit))]

\* What is left and what was got after each of the loops.
Reading(text, limits) ==
  LET read[k \in 0..Len(limits)] ==
        IF k = 0 THEN [left |-> text, got |-> << >>] ELSE ReadField(read[k-1], limits[k])
  IN read

Fields(text, limits) == Reading(text, limits)[Len(limits)].got

\* atol and atoi stop at the x of a hexadecimal number.
atol(f) == IF f.hex THEN 0 ELSE f.num
strtol(f) == f.num

\* A mutant: the parameter's address is kept in an int.
Wide(n) == n

\* The conversion to uint16_t and uint8_t.
Narrow(n) == n % 65536
Narrow8(n) == n % 256

-----------------------------------------------------------------------------
(* Addresses.  Bad stands for the return of 0.                             *)

Bad == [ok |-> FALSE]

\* What is accepted as a gateway or a device, as a port, as an index or a count.
Gateways == 1..255
Ports == 1..65535
Indexes == 0..65535

\* A text of netaddr_from_string has a link type, an IP that inet_addr takes
\* or not, and the fields port and gateway.
netaddr_from_string(text) ==
  LET f == Fields(text.fields, <<5, 4>>)
      port == atol(f[1])
      gateway == atol(f[2])
  IN IF /\ text.type \in {"udp", "tcp"}
        /\ text.ip
        /\ port \in Ports
        /\ gateway \in Gateways
     THEN [ok |-> TRUE, value |-> [port |-> port, gateway |-> gateway]]
     ELSE Bad

paraddr_from_string(text) ==
  LET f == Fields(text, <<3, 6, 5, 1>>) IN
  IF /\ atol(f[1]) \in Gateways
     /\ strtol(f[2]) > 0
     /\ atol(f[3]) \in Indexes
     /\ f[4].letter \in TypeLetters
  THEN [ok |-> TRUE,
        value |-> [dev |-> atol(f[1]), par |-> Narrow(strtol(f[2])), idx |-> atol(f[3]),
                   cnt |-> 0, type |-> f[4].letter]]
  ELSE Bad

archaddr_from_string(text) ==
  LET f == Fields(text, <<3, 6, 5, 5, 1>>) IN
  IF /\ atol(f[1]) \in Gateways
     /\ strtol(f[2]) > 0
     /\ atol(f[3]) \in Indexes
     /\ atol(f[4]) \in Indexes
     /\ f[5].letter \in TypeLetters
  THEN [ok |-> TRUE,
        value |-> [dev |-> atol(f[1]), par |-> Narrow(strtol(f[2])), idx |-> atol(f[3]),
                   cnt |-> atol(f[4]), type |-> f[5].letter]]
  ELSE Bad

dtaddr_from_string(text) ==
  LET f == Fields(text, <<3, 6, 6>>) IN
  IF atol(f[1]) \in Gateways /\ strtol(f[2]) > 0 /\ strtol(f[3]) > 0
  THEN [ok |-> TRUE,
        value |-> [dev |-> atol(f[1]), date |-> Narrow(strtol(f[2])),
                   time |-> Narrow(strtol(f[3]))]]
  ELSE Bad

-----------------------------------------------------------------------------
(* Intervals                                                               *)

intcfg_is_valid(type, depth, interval) ==
  CASE type = "m" -> depth \in {12, 48}
    [] type = "d" -> depth \in {0, 365, 366}
    [] type = "h" -> depth \in {16 * 24, 32 * 24, 64 * 24}
    [] type = "i" -> depth \in 1..8191 /\ interval \in 1..99
    [] OTHER -> FALSE

\* The type is one character; the separator behind it is skipped unread.
intcfg_from_string(text) ==
  LET f == Fields(Tail(text), <<4, 2>>)
      type == Head(text).letter
      depth == Narrow(atol(f[1]))
      interval == Narrow8(atol(f[2]))
  IN IF intcfg_is_valid(type, depth, interval)
     THEN [ok |-> TRUE, value |-> [type |-> type, depth |-> depth, interval |-> interval]]
     ELSE Bad

-----------------------------------------------------------------------------
(* Checks                                                                  *)

\* A text of checks_from_string is the sequence of its tokens, each a name and
\* the number behind its colon; an option of blanks only has none.
NoChecks == [ok |-> TRUE, stop |-> FALSE, avail |-> {}, diff |-> 0, minutes |-> 0]

\* A mutant: none ends the list whatever stands before it.
StopAnyway(acc) == [acc EXCEPT !.stop = TRUE, !.avail = {}]

\* none is refused behind another check, and ends the list otherwise.
Stop(acc) == [acc EXCEPT !.stop = TRUE, !.ok = acc.avail = {}]

\* One turn of the loop over the tokens.
ReadToken(acc, token) ==
  IF acc.stop \/ ~acc.ok THEN acc
  ELSE CASE token.name = "none" -> Stop(acc)
         [] token.name = "difference" ->
              [acc EXCEPT !.ok = token.value > 0, !.diff = token.value,
                          !.avail = @ \cup {"difference"}]
         [] token.name = "minutes" ->
              [acc EXCEPT !.ok = token.value > 0, !.minutes = token.value,
                          !.avail = @ \cup {"minutes"}]
         [] token.name = "indexes" -> [acc EXCEPT !.avail = @ \cup {"indexes"}]
         [] OTHER -> [acc EXCEPT !.ok = FALSE]

\* What is known after each token.
ReadingChecks(tokens) ==
  LET read[k \in 0..Len(tokens)] ==
        IF k = 0 THEN NoChecks ELSE ReadToken(read[k-1], tokens[k])
  IN read

checks_from_string(tokens) ==
  LET read == ReadingChecks(tokens)[Len(tokens)] IN
  IF read.ok
  THEN [ok |-> TRUE, value |-> [avail |-> read.avail, diff |-> read.diff,
                                minutes |-> read.minutes]]
  ELSE Bad
=============================================================================
