------------------------------ MODULE MC_Query ------------------------------
(* Instances of Query for TLC.  Each text stands for a class of texts: as    *)
(* expected, at a limit of the parser, one or two characters beyond it, or   *)
(* a number in the other notation.                                           *)
EXTENDS Query

Net(type, port, gateway) == [type |-> type, ip |-> TRUE, fields |-> <<port, gateway>>]

SomeNets ==
  [arch |-> {Net("udp", Dec(51960), Dec(9)),
             Net("udp", Dec(5196001), Dec(2)),      \* two digits too many: gateway 1
             Net("udp", Dec(519600), Dec(2)),
             [type |-> "udp", ip |-> FALSE, fields |-> <<Dec(502), Dec(2)>>]},
   msr |-> {Net("tcp", Dec(502), Dec(255)), Net("udp", Dec(51960), Dec(9)),
            Net("udp", Dec(51960), Padded(25, 5)), \* gateway 00025
            Net("udp", Dec(65536), Dec(2)), Net("udp", Dec(502), Dec(256)),
            Net("udp", Dec(502), Dec(0)), Net("ppp", Dec(502), Dec(2))},
   sync |-> {Net("udp", Dec(51960), Dec(9))},
   lib |-> {}]

SomeArchives == {
  <<Dec(3), Hex(32796), Dec(0), Dec(12), Letter("f")>>,
  <<Dec(3), Hex(32796), Dec(10), Dec(2), Letter("f")>>,
  <<Dec(3), Hex(32796), Dec(10), Dec(3), Letter("h")>>,
  <<Dec(3), Dec(7), Dec(343), Dec(41), Letter("u")>>,
  <<Dec(3), Dec(7), Dec(1535), Dec(1), Letter("u")>>,
  <<Dec(3), Dec(7), Dec(1536), Dec(1), Letter("u")>>,
  <<Dec(3), Dec(7), Dec(364), Dec(2), Letter("b")>>,
  <<Dec(3), Dec(7), Dec(365), Dec(2), Letter("b")>>,
  <<Dec(3), Dec(7), Dec(65534), Dec(3), Letter("r")>>,   \* runs over the last index
  <<Dec(255), Dec(99999), Dec(0), Dec(1), Letter("f")>>, \* 17 bits
  <<Dec(3), Dec(7), Hex(16), Dec(1), Letter("f")>>,      \* a hexadecimal index
  <<Dec(3), Dec(7), Dec(0), Dec(0), Letter("f")>>,
  <<Dec(3), Dec(7), Dec(0), Dec(8193), Letter("f")>>,
  <<Dec(3), Dec(7), Dec(0), Dec(1), Letter("t")>>,
  <<Dec(3), Dec(7), Dec(0), Dec(65536), Letter("f")>>,
  <<Dec(256), Dec(7), Dec(0), Dec(1), Letter("f")>>,
  <<Dec(1000), Dec(7), Dec(0), Dec(1), Letter("f")>>,
  <<Dec(12345), Dec(7), Dec(0), Dec(1), Letter("f")>>,
  <<Dec(3), Dec(1234567), Dec(0), Dec(1), Letter("f")>>,
  <<Dec(3), Dec(12345678), Dec(0), Dec(1), Letter("f")>>,
  <<Dec(3), Dec(7), Dec(100000), Dec(1), Letter("f")>>,
  <<Dec(3), Dec(7), Dec(1234567), Dec(1), Letter("f")>>,
  <<Dec(3), Dec(7), Dec(0), Dec(100001), Letter("f")>>,
  <<Dec(3), Dec(7), Dec(0), Letter("f")>>}

SomeParameters == {
  << >>,
  <<<<Dec(3), Hex(61441), Dec(0), Letter("r")>>, <<Dec(3), Dec(7), Dec(1), Letter("t")>>>>,
  <<<<Dec(4), Dec(65535), Dec(65534), Letter("f")>>>>,
  <<<<Dec(4), Dec(8), Dec(65535), Letter("f")>>>>,
  <<<<Dec(3), Dec(7), Dec(1), Letter("f")>>, <<Dec(3), Dec(7), Dec(65536), Letter("f")>>>>,
  <<<<Dec(1000), Dec(7), Dec(0), Letter("f")>>>>,
  <<<<Dec(12345), Dec(7), Dec(0), Letter("f")>>>>,
  <<<<Dec(3), Dec(1234567), Dec(0), Letter("f")>>>>,
  <<<<Dec(3), Dec(7), Dec(100000), Letter("f")>>>>,
  <<<<Dec(3), Dec(7), Dec(0), Letter("x")>>>>}

SomeClocks == {
  <<Dec(3), Hex(61463), Hex(61464)>>, <<Dec(255), Dec(1), Dec(65535)>>,
  <<Dec(3), Dec(65536), Dec(2)>>,        \* a date register of 17 bits: 0
  <<Dec(3), Dec(12345678), Dec(2)>>,     \* read as 123456 and 8
  <<Dec(3), Dec(1234567), Dec(2)>>, <<Dec(3), Dec(1), Dec(0)>>, <<Dec(0), Dec(1), Dec(2)>>}

SomeIntervals == {
  <<Letter("m"), Dec(12)>>, <<Letter("m"), Dec(13)>>,
  <<Letter("d"), Dec(0)>>, <<Letter("d"), Dec(366)>>,
  <<Letter("h"), Dec(384)>>,
  <<Letter("h"), Dec(15360)>>,           \* read as 1536
  <<Letter("i"), Dec(1440), Dec(5)>>,
  <<Letter("i"), Dec(1440), Dec(600)>>,  \* read as 60
  <<Letter("i"), Dec(12)>>, <<Letter("i"), Dec(8192), Dec(5)>>, <<Letter("x"), Dec(12)>>}

Token(name, value) == [name |-> name, value |-> value]

SomeChecks == {
  << >>,
  <<Token("none", 0)>>, <<Token("none", 0), Token("indexes", 0)>>,
  <<Token("indexes", 0), Token("none", 0)>>,
  <<Token("difference", 5), Token("minutes", 1), Token("difference", 7)>>,
  <<Token("difference", 0)>>, <<Token("indexes", 0), Token("minutes", -1)>>,
  <<Token("seconds", 1)>>}

SomePasswords == {[len |-> 8, digits |-> <<1, 2, 3, 4, 5, 6, 7, 8>>],
                  [len |-> 9, digits |-> <<0, 0, 0, 0, 0, 0, 9, 9>>],
                  [len |-> 7, digits |-> <<1, 2, 3, 4, 5, 6, 7>>]}

Moment(dow, day, month, year, hour, minute, second) ==
  [date |-> [dow |-> dow, day |-> day, month |-> month, year |-> year],
   time |-> [hour |-> hour, minute |-> minute, second |-> second]]

SomeMoments == {Moment(2, 31, 12, 19, 23, 59, 58), Moment(6, 29, 2, 20, 0, 9, 10)}

SomeProbes ==
  [what : {"par11"}, from : {0}, gateway : {9}, dev : {3}, par : {61441, 8}, idx : {0}, size : {1}]
    \cup
  [what : {"ind19"}, from : {0}, gateway : {255}, dev : {3}, par : {7}, idx : {0, 65500},
   size : {0, 1, 2, 60, 61}]
=============================================================================
