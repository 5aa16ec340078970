-------------------------- MODULE MC_TimestampSeq ---------------------------
(* Instances of TimestampSeq for TLC.                                      *)
EXTENDS TimestampSeq

Archive(t, d, i) == [type |-> t, depth |-> d, interval |-> i]

\* Seconds of 1 January 2016 + n days + h hours, a leap year.
At(n, h) == 1451606400 + n * 86400 + h * 3600

Rings == {Archive("m", 12, 0), Archive("m", 48, 0), Archive("d", 366, 0),
          Archive("h", 384, 0), Archive("i", 288, 5), Archive("i", 48, 60),
          Archive("i", 100, 5)}
Hours == {Archive("h", 384, 0)}
Any == {Archive("i", n, 5) : n \in {100, 288}}

\* Around the turns of hours, months and years, leap ones and others; the slot
\* of 31 December is one, two and almost four years old.
Turns == {At(0, 0), At(31, 0), At(59, 23) + 3599, At(60, 0), At(90, 13), At(366, 12),
          At(790, 1), At(1095, 22), At(1460, 5) + 1799}

\* A European time zone with its summer of 2016, and times in it.
Berlin == 3600
Summer16 == {<<At(86, 1), At(303, 1)>>}
InSummer == {At(180, 13) + 2400}

Zone == 18000
=============================================================================
