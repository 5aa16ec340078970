---------------------------- MODULE Query_proofs ----------------------------
(***************************************************************************)
(* Proofs about Query, for every text on the command line, every table,    *)
(* every device and every request: what a request says, what the device    *)
(* takes it for, and what is made of its reply.                            *)
(*                                                                         *)
(* The first half is about the codec and the parsers alone.  A request is  *)
(* heard as it was meant; a reply is read as what it answers, however much *)
(* follows it; and no damage makes another reply of it, since the checksum *)
(* tells two sequences apart that differ in one byte.  A field that fits   *)
(* its loop is read as written, and a text whose fields do not fit is late *)
(* by one for good, so that its last letter is met too soon or not at all. *)
(*                                                                         *)
(* The second half carries this along the life of a request: the values of *)
(* the options are linked to their texts, the message to the values, what  *)
(* the device heard to the message, its reply to what it heard, what       *)
(* arrives to the reply, and the end to what arrived.                      *)
(***************************************************************************)
EXTENDS Query, Remainders

-----------------------------------------------------------------------------
(* Sequences                                                               *)

\* p consists of the elements a to b of s.
IsPart(p, s, a, b) ==
  /\ Len(p) = b - a + 1
  /\ \A i \in 1 .. b-a+1 : p[i] = s[i + a - 1]

\* SubSeq takes a part.
LEMMA Part ==
  ASSUME NEW S, NEW s \in Seq(S), NEW a \in 1 .. Len(s) + 1, NEW b \in a-1 .. Len(s)
  PROVE  SubSeq(s, a, b) \in Seq(S) /\ IsPart(SubSeq(s, a, b), s, a, b)
<1>1. SubSeq(s, a, b) = [i \in 1 .. b-a+1 |-> s[i+a-1]]
  OBVIOUS
<1> DEFINE n == b - a + 1
           p == [i \in 1..n |-> s[i+a-1]]
<1>2. n \in Nat
  OBVIOUS
<1>3. \A i \in 1..n : s[i+a-1] \in S
  OBVIOUS
<1>4. p \in Seq(S) /\ Len(p) = n /\ \A i \in 1..n : p[i] = s[i+a-1]
  <2> HIDE DEF n
  <2> QED
    BY <1>2, <1>3
<1> QED
  BY <1>1, <1>4 DEF IsPart

\* r consists of s and t in a row.
IsJoin(r, s, t) ==
  /\ Len(r) = Len(s) + Len(t)
  /\ \A i \in 1..Len(s) : r[i] = s[i]
  /\ \A i \in 1..Len(t) : r[Len(s) + i] = t[i]

\* Joining puts one sequence behind the other.
LEMMA Join ==
  ASSUME NEW S, NEW s \in Seq(S), NEW t \in Seq(S)
  PROVE  s \o t \in Seq(S) /\ IsJoin(s \o t, s, t)
  BY DEF IsJoin

\* Two sequences with the same elements are equal.
LEMMA SameSequence ==
  ASSUME NEW S, NEW s \in Seq(S), NEW t \in Seq(S), Len(s) = Len(t),
         \A i \in 1 .. Len(s) : s[i] = t[i]
  PROVE  s = t
  OBVIOUS

-----------------------------------------------------------------------------
(* The checksum                                                            *)

\* t[k] is what tekon_crc has counted after k bytes of s.
Counted(s, t) ==
  /\ t \in [0..Len(s) -> Byte]
  /\ t[0] = 0
  /\ \A k \in 1..Len(s) : t[k] = (t[k-1] + s[k]) % 256

\* Sums of bytes, and differences of sums.
LEMMA SumIsByte ==
  ASSUME NEW x \in Byte, NEW y \in Byte
  PROVE  (x + y) % 256 \in Byte
  BY DEF Byte

\* What is taken away from a sum:
LEMMA WholeSum ==
  ASSUME NEW x \in Byte
  PROVE  (x - 0) % 256 = x
  BY DEF Byte

\* what was added last is left,
LEMMA Taken ==
  ASSUME NEW x \in Byte, NEW y \in Byte
  PROVE  (((x + y) % 256) - x) % 256 = y % 256
  BY DEF Byte

\* and differences add up.
LEMMA Halves ==
  ASSUME NEW x \in Byte, NEW y \in Byte, NEW z \in Byte
  PROVE  (z - x) % 256 = (((y - x) % 256) + ((z - y) % 256)) % 256
  BY DEF Byte

\* Every sequence of bytes can be counted from its start.
LEMMA SumsAreCounted ==
  ASSUME NEW s \in Seq(Byte)
  PROVE  \E t : Counted(s, t)
<1> DEFINE n == Len(s)
           step == [k \in 1..n |-> [x \in Byte |-> (x + s[k]) % 256]]
<1>1. n \in Nat /\ 0 \in Byte
  BY DEF Byte
<1>2. step \in [1..n -> [Byte -> Byte]]
  <2>1. ASSUME NEW k \in 1..n, NEW x \in Byte
        PROVE  (x + s[k]) % 256 \in Byte
    <3>1. s[k] \in Byte
      OBVIOUS
    <3> QED
      BY <3>1, SumIsByte
  <2> QED
    BY <2>1
<1>3. \A k \in 1..n, x \in Byte : step[k][x] = (x + s[k]) % 256
  OBVIOUS
<1> HIDE DEF step
<1> DEFINE z == 0
<1>4. z \in Byte
  BY <1>1
<1> HIDE DEF n, z
<1>6. PICK t : Turns(t, Byte, z, n, step)
  BY <1>1, <1>2, <1>4, Loop
<1>7. t \in [0..n -> Byte] /\ t[0] = z /\ \A k \in 1..n : t[k] = step[k][t[k-1]]
  BY <1>6 DEF Turns
<1>5. ASSUME NEW k \in 1..n PROVE t[k] = (t[k-1] + s[k]) % 256
  <2>1. t[k-1] \in Byte
    BY <1>1, <1>7
  <2> QED
    BY <1>3, <1>7, <2>1, SMTT(60)
<1> QED
  BY <1>7, <1>5 DEF Counted, n, z

\* Spans of a sequence, and the sum of one from what was counted.
Spans(s) == (1..Len(s)) \X (1..Len(s))
Span(t, r) == IF r[1] > r[2] THEN 0 ELSE (t[r[2]] - t[r[1]-1]) % 256

\* The function of the sums exists: spans of one length are made of shorter ones.
LEMMA SumsHaveHalves ==
  ASSUME NEW s \in Seq(Byte)
  PROVE  Sums(s) = [r \in Spans(s) |->
           IF r[1] = r[2] THEN s[r[1]] % 256
           ELSE (Sums(s)[<<r[1], (r[1] + r[2]) \div 2>>]
                   + Sums(s)[<<(r[1] + r[2]) \div 2 + 1, r[2]>>]) % 256]
<1>1. PICK t : Counted(s, t)
  BY SumsAreCounted
<1> DEFINE f == [r \in Spans(s) |-> Span(t, r)]
<1>2. ASSUME NEW r \in Spans(s)
      PROVE  f[r] = IF r[1] = r[2] THEN s[r[1]] % 256
                    ELSE (f[<<r[1], (r[1] + r[2]) \div 2>>]
                            + f[<<(r[1] + r[2]) \div 2 + 1, r[2]>>]) % 256
  <2> DEFINE a == r[1]
             b == r[2]
             m == (a + b) \div 2
  <2>1. a \in 1..Len(s) /\ b \in 1..Len(s) /\ r = <<a, b>>
    BY DEF Spans
  <2>2. /\ t[a-1] \in Byte /\ t[a] \in Byte /\ t[b] \in Byte /\ s[a] \in Byte
        /\ t[a] = (t[a-1] + s[a]) % 256
    BY <1>1, <2>1 DEF Counted
  <2>3. CASE a = b
    <3>1. f[r] = (t[a] - t[a-1]) % 256
      BY <2>1, <2>3 DEF Span
    <3>2. (t[a] - t[a-1]) % 256 = s[a] % 256
      BY <2>2, Taken
    <3> QED
      BY <2>3, <3>1, <3>2
  <2>4. CASE a < b
    <3>1. m \in a .. b-1
      BY <2>1, <2>4
    <3> HIDE DEF m
    <3>2. <<a, m>> \in Spans(s) /\ <<m + 1, b>> \in Spans(s)
      BY <2>1, <3>1 DEF Spans
    <3>3. t[m] \in Byte
      BY <1>1, <2>1, <3>1 DEF Counted
    <3>4. f[<<a, m>>] = (t[m] - t[a-1]) % 256
      BY <2>1, <3>1, <3>2 DEF Span
    <3>5. f[<<m + 1, b>>] = (t[b] - t[m]) % 256
      <4>1. (m + 1) - 1 = m /\ ~(m + 1 > b)
        BY <2>1, <3>1
      <4> QED
        BY <3>2, <4>1 DEF Span
    <3>6. f[r] = (t[b] - t[a-1]) % 256
      BY <2>1, <2>4 DEF Span
    <3>7. (t[b] - t[a-1]) % 256 = (((t[m] - t[a-1]) % 256) + ((t[b] - t[m]) % 256)) % 256
      BY <2>2, <3>3, Halves
    <3> HIDE DEF f
    <3>8. f[r] = (f[<<a, m>>] + f[<<m + 1, b>>]) % 256
      BY <3>4, <3>5, <3>6, <3>7
    <3>9. a # b
      BY <2>1, <2>4
    <3> QED
      BY <3>8, <3>9 DEF m
  <2>5. CASE a > b
    <3>1. m \in b .. a-1
      BY <2>1, <2>5
    <3> HIDE DEF m
    <3>2. <<a, m>> \in Spans(s) /\ <<m + 1, b>> \in Spans(s) /\ a > m /\ m + 1 > b /\ a # b
      BY <2>1, <2>5, <3>1 DEF Spans
    <3>3. f[<<a, m>>] = 0 /\ f[<<m + 1, b>>] = 0
      BY <3>2 DEF Span
    <3>4. f[r] = 0
      BY <2>1, <2>5 DEF Span
    <3> HIDE DEF f
    <3>5. f[r] = (f[<<a, m>>] + f[<<m + 1, b>>]) % 256
      BY <3>3, <3>4
    <3> QED
      BY <3>2, <3>5 DEF m
  <2> HIDE DEF f
  <2> QED
    BY <2>1, <2>3, <2>4, <2>5
<1> DEFINE g == [r \in Spans(s) |-> IF r[1] = r[2] THEN s[r[1]] % 256
                    ELSE (f[<<r[1], (r[1] + r[2]) \div 2>>]
                            + f[<<(r[1] + r[2]) \div 2 + 1, r[2]>>]) % 256]
<1>3. f = g
  <2>1. \A r \in Spans(s) : f[r] = g[r]
    BY <1>2, ZenonT(60)
  <2>2. f = [r \in Spans(s) |-> f[r]] /\ g = [r \in Spans(s) |-> g[r]]
    OBVIOUS
  <2> HIDE DEF f, g
  <2> QED
    BY <2>1, <2>2
<1> HIDE DEF f
<1>4. \E h : h = [r \in Spans(s) |-> IF r[1] = r[2] THEN s[r[1]] % 256
                    ELSE (h[<<r[1], (r[1] + r[2]) \div 2>>]
                            + h[<<(r[1] + r[2]) \div 2 + 1, r[2]>>]) % 256]
  BY <1>3
<1> QED
  BY <1>4 DEF Sums, Spans

\* Its values: a span of one byte,
LEMMA SumOfOne ==
  ASSUME NEW s \in Seq(Byte), NEW x \in 1..Len(s)
  PROVE  Sums(s)[<<x, x>>] = s[x] % 256
<1> DEFINE f == Sums(s)
<1>1. f = [r \in Spans(s) |->
           IF r[1] = r[2] THEN s[r[1]] % 256
           ELSE (f[<<r[1], (r[1] + r[2]) \div 2>>]
                   + f[<<(r[1] + r[2]) \div 2 + 1, r[2]>>]) % 256]
  BY SumsHaveHalves
<1>2. <<x, x>> \in Spans(s)
  BY DEF Spans
<1> HIDE DEF f
<1>3. f[<<x, x>>] = s[x] % 256
  BY <1>1, <1>2
<1> QED
  BY <1>3 DEF f

\* and one of two halves.
LEMMA SumOfTwo ==
  ASSUME NEW s \in Seq(Byte), NEW x \in 1..Len(s), NEW y \in 1..Len(s), x # y
  PROVE  Sums(s)[<<x, y>>] = (Sums(s)[<<x, (x + y) \div 2>>]
                                + Sums(s)[<<(x + y) \div 2 + 1, y>>]) % 256
<1> DEFINE f == Sums(s)
<1>1. f = [r \in Spans(s) |->
           IF r[1] = r[2] THEN s[r[1]] % 256
           ELSE (f[<<r[1], (r[1] + r[2]) \div 2>>]
                   + f[<<(r[1] + r[2]) \div 2 + 1, r[2]>>]) % 256]
  BY SumsHaveHalves
<1>2. <<x, y>> \in Spans(s)
  BY DEF Spans
<1> HIDE DEF f
<1>3. f[<<x, y>>] = (f[<<x, (x + y) \div 2>>] + f[<<(x + y) \div 2 + 1, y>>]) % 256
  BY <1>1, <1>2
<1> QED
  BY <1>3 DEF f

\* The sum of a span is what was counted over it.
LEMMA SumOfSpan ==
  ASSUME NEW s \in Seq(Byte), NEW t, Counted(s, t),
         NEW a \in 1..Len(s), NEW b \in a..Len(s)
  PROVE  Sums(s)[<<a, b>>] = (t[b] - t[a-1]) % 256
<1> DEFINE Good(x, y) == Sums(s)[<<x, y>>] = (t[y] - t[x-1]) % 256
           P == {n \in Nat : \A x, y \in 1..Len(s) : x <= y /\ y - x <= n => Good(x, y)}
<1>1. ASSUME NEW x \in 1..Len(s)
      PROVE  Good(x, x)
  <2>2. Sums(s)[<<x, x>>] = s[x] % 256
    BY SumOfOne
  <2>3. t[x-1] \in Byte /\ s[x] \in Byte /\ t[x] = (t[x-1] + s[x]) % 256
    BY DEF Counted
  <2> QED
    BY <2>2, <2>3, Taken
<1>2. 0 \in P
  <2> HIDE DEF Good
  <2>1. \A x, y \in 1..Len(s) : x <= y /\ y - x <= 0 => x = y
    OBVIOUS
  <2> QED
    BY <1>1, <2>1
<1>3. ASSUME NEW n \in 0 .. Len(s) - 1, n \in P
      PROVE  n + 1 \in P
  <2>1. ASSUME NEW x \in 1..Len(s), NEW y \in 1..Len(s), x < y, y - x <= n + 1
        PROVE  Good(x, y)
    <3> DEFINE m == (x + y) \div 2
    <3>1. m \in x .. y-1
      BY <2>1
    <3>2. x # y
      BY <2>1
    <3>3. Sums(s)[<<x, y>>] = (Sums(s)[<<x, m>>] + Sums(s)[<<m + 1, y>>]) % 256
      BY <3>2, SumOfTwo
    <3> HIDE DEF m
    <3>4. m \in 1..Len(s) /\ m + 1 \in 1..Len(s) /\ m - x <= n /\ y - (m + 1) <= n
      BY <2>1, <3>1
    <3>5. Good(x, m) /\ Good(m + 1, y)
      <4> HIDE DEF Good
      <4> QED
        BY <1>3, <3>1, <3>4
    <3>6. (m + 1) - 1 = m
      BY <3>1
    <3>7. t[x-1] \in Byte /\ t[m] \in Byte /\ t[y] \in Byte
      <4>1. x - 1 \in 0..Len(s) /\ m \in 0..Len(s) /\ y \in 0..Len(s)
        BY <3>4
      <4> QED
        BY <4>1 DEF Counted
    <3> QED
      BY <3>3, <3>5, <3>6, <3>7, Halves
  <2> HIDE DEF Good
  <2>2. \A x, y \in 1..Len(s) : x <= y => x = y \/ x < y
    OBVIOUS
  <2> QED
    BY <1>1, <2>1, <2>2
<1>4. Len(s) \in P
  <2> HIDE DEF P
  <2>1. \A k \in 0 .. Len(s) - 1 : k \in P => k + 1 \in P
    BY <1>3
  <2>2. \A k \in 0 .. Len(s) : k \in P
    BY <1>2, <2>1, UpTo
  <2> QED
    BY <2>2
<1>5. a <= b /\ b - a <= Len(s) /\ b \in 1..Len(s)
  OBVIOUS
<1>6. Good(a, b)
  <2> HIDE DEF Good
  <2> QED
    BY <1>4, <1>5
<1> QED
  BY <1>6

\* The checksum is what was counted over all the bytes.
LEMMA CrcIsCounted ==
  ASSUME NEW s \in Seq(Byte), s # << >>, NEW t, Counted(s, t)
  PROVE  Crc(s) = t[Len(s)]
<1> DEFINE n == Len(s)
<1>1. 1 \in 1..n /\ n \in 1..n
  OBVIOUS
<1>2. Sums(s)[<<1, n>>] = (t[n] - t[1-1]) % 256
  BY <1>1, SumOfSpan
<1>3. t[n] \in Byte /\ t[1-1] = 0
  BY <1>1 DEF Counted
<1>4. (t[n] - 0) % 256 = t[n]
  BY <1>3, WholeSum
<1> QED
  BY <1>2, <1>3, <1>4 DEF Crc

\* A checksum is a byte.
LEMMA CrcIsByte ==
  ASSUME NEW s \in Seq(Byte), s # << >>
  PROVE  Crc(s) \in Byte
<1>1. PICK t : Counted(s, t)
  BY SumsAreCounted
<1> QED
  BY <1>1, CrcIsCounted DEF Counted

\* Two sequences of one length differ in one byte.
DifferAt(s, u, i) ==
  /\ Len(s) = Len(u)
  /\ s[i] # u[i]
  /\ \A j \in 1..Len(s) : j # i => s[j] = u[j]

\* A difference of two sums is kept whatever is added.
LEMMA SumsMoveOn ==
  ASSUME NEW x \in Byte, NEW y \in Byte, NEW z \in Byte, x # y
  PROVE  (x + z) % 256 # (y + z) % 256 /\ (z + x) % 256 # (z + y) % 256
<1>1. x \in 0..255 /\ y \in 0..255 /\ z \in 0..255
  BY DEF Byte
<1>2. \A a \in 0..255 : (a + z) % 256 = a + z \/ (a + z) % 256 = a + z - 256
  BY <1>1
<1>3. (x + z) % 256 # (y + z) % 256
  BY <1>1, <1>2, SMTT(60)
<1>4. z + x = x + z /\ z + y = y + z
  BY <1>1
<1> QED
  BY <1>3, <1>4

\* tekon_crc tells two such sequences apart.
LEMMA CrcSeesOneByte ==
  ASSUME NEW s \in Seq(Byte), NEW u \in Seq(Byte), NEW i \in 1..Len(s), DifferAt(s, u, i)
  PROVE  Crc(s) # Crc(u)
<1> DEFINE n == Len(s)
<1>1. PICK t : Counted(s, t)
  BY SumsAreCounted
<1>2. PICK v : Counted(u, v)
  BY SumsAreCounted
<1>3. /\ t[0] = 0 /\ v[0] = 0
      /\ \A k \in 0..n : t[k] \in Byte /\ v[k] \in Byte
      /\ \A k \in 1..n : t[k] = (t[k-1] + s[k]) % 256 /\ v[k] = (v[k-1] + u[k]) % 256
  BY <1>1, <1>2, ZenonT(60) DEF Counted, DifferAt
<1>4. \A k \in 1..n : s[k] \in Byte /\ u[k] \in Byte
  BY DEF DifferAt
<1> DEFINE Good(k) == IF k < i THEN t[k] = v[k] ELSE t[k] # v[k]
           P == {k \in 0..n : Good(k)}
<1>5. 0 \in P
  BY <1>3
<1>6. ASSUME NEW k \in 0 .. n-1, k \in P
      PROVE  k + 1 \in P
  <2>1. /\ t[k] \in Byte /\ v[k] \in Byte /\ s[k+1] \in Byte /\ u[k+1] \in Byte
        /\ t[k+1] = (t[k] + s[k+1]) % 256 /\ v[k+1] = (v[k] + u[k+1]) % 256
    <3>1. (k + 1) - 1 = k /\ k + 1 \in 1..n /\ k \in 0..n
      OBVIOUS
    <3> QED
      BY <1>3, <1>4, <3>1
  <2>2. CASE k + 1 < i
    <3>1. t[k] = v[k] /\ s[k+1] = u[k+1]
      BY <1>6, <2>2 DEF DifferAt
    <3> QED
      BY <2>1, <2>2, <3>1
  <2>3. CASE k + 1 = i
    <3>1. t[k] = v[k] /\ s[k+1] # u[k+1]
      BY <1>6, <2>3 DEF DifferAt
    <3>2. t[k+1] # v[k+1]
      BY <2>1, <3>1, SumsMoveOn
    <3> QED
      BY <2>3, <3>2
  <2>4. CASE k + 1 > i
    <3>1. t[k] # v[k] /\ s[k+1] = u[k+1]
      BY <1>6, <2>4 DEF DifferAt
    <3>2. t[k+1] # v[k+1]
      BY <2>1, <3>1, SumsMoveOn
    <3> QED
      BY <2>4, <3>2
  <2> QED
    BY <2>2, <2>3, <2>4
<1>7. n \in P
  <2> HIDE DEF P
  <2>1. \A k \in 0 .. n-1 : k \in P => k + 1 \in P
    BY <1>6
  <2>2. n \in Nat
    OBVIOUS
  <2> HIDE DEF n
  <2>3. \A k \in 0 .. n : k \in P
    BY <1>5, <2>1, <2>2, UpTo
  <2> QED
    BY <2>2, <2>3
<1>8. t[n] # v[n]
  BY <1>7
<1>9. s # << >> /\ u # << >> /\ Len(u) = n
  BY DEF DifferAt
<1> QED
  BY <1>1, <1>2, <1>8, <1>9, CrcIsCounted

-----------------------------------------------------------------------------
(* Blocks of one size, one behind the other                                *)

\* Sequences of one size.
Blocks(S, size, seqs) == /\ seqs \in Seq(Seq(S))
                         /\ \A i \in 1..Len(seqs) : Len(seqs[i]) = size

\* f is made of the first n of them.
JoinedTo(f, S, size, seqs, n) ==
  /\ f \in Seq(S)
  /\ Len(f) = size * n
  /\ \A i \in 1..n, k \in 1..size : f[size * (i-1) + k] = seqs[i][k]

\* Where the elements of a block stand.
LEMMA InBlock ==
  ASSUME NEW size \in Nat \ {0}, NEW n \in Nat, NEW i \in 1..n, NEW k \in 1..size
  PROVE  size * (i-1) + k \in 1 .. size * n
<1> DEFINE d == n - i
           j == i - 1
<1>1. d \in Nat /\ j \in Nat /\ n = d + j + 1
  OBVIOUS
<1> HIDE DEF d, j
<1>2. size * d >= 0 /\ size * j >= 0 /\ size * d \in Int /\ size * j \in Int
  BY <1>1
<1>3. size * n = size * d + size * j + size
  BY <1>1
<1>4. size * j + k \in 1 .. size * n
  BY <1>2, <1>3
<1> QED
  BY <1>4 DEF j

\* One block more.
LEMMA JoinedOnce ==
  ASSUME NEW S, NEW size \in Nat \ {0}, NEW seqs, Blocks(S, size, seqs),
         NEW n \in 1 .. Len(seqs), NEW f, JoinedTo(f, S, size, seqs, n-1)
  PROVE  JoinedTo(f \o seqs[n], S, size, seqs, n)
<1> DEFINE b == seqs[n]
           g == f \o b
           m == n - 1
<1>1. f \in Seq(S) /\ b \in Seq(S) /\ Len(b) = size /\ m \in Nat /\ n = m + 1
  BY DEF Blocks, JoinedTo
<1>2. Len(f) = size * m /\ \A i \in 1..m, k \in 1..size : f[size * (i-1) + k] = seqs[i][k]
  BY DEF JoinedTo
<1> HIDE DEF b, m
<1>3. size * n = size * m + size /\ size * m \in Nat
  BY <1>1
<1>4. /\ g \in Seq(S) /\ Len(g) = Len(f) + size
      /\ \A x \in 1 .. Len(f) : g[x] = f[x]
      /\ \A x \in 1..size : g[Len(f) + x] = b[x]
  BY <1>1
<1> HIDE DEF g
<1>5. Len(g) = size * n
  BY <1>2, <1>3, <1>4
<1>6. ASSUME NEW i \in 1..n, NEW k \in 1..size
      PROVE  g[size * (i-1) + k] = seqs[i][k]
  <2>1. CASE i = n
    <3>1. i - 1 = m
      BY <1>1, <2>1
    <3>2. g[size * m + k] = b[k]
      BY <1>2, <1>4
    <3> QED
      BY <2>1, <3>1, <3>2 DEF b
  <2>2. CASE i \in 1..m
    <3> DEFINE x == size * (i-1) + k
    <3>1. x \in 1 .. size * m
      BY <1>1, <2>2, InBlock
    <3>2. f[x] = seqs[i][k]
      BY <1>2, <2>2
    <3> HIDE DEF x
    <3>3. g[x] = f[x]
      BY <1>2, <1>4, <3>1
    <3> QED
      BY <3>2, <3>3 DEF x
  <2> QED
    BY <1>1, <2>1, <2>2
<1> QED
  BY <1>4, <1>5, <1>6 DEF JoinedTo, g, b

\* FlattenSeq joins the blocks.
LEMMA Flattened ==
  ASSUME NEW S, NEW size \in Nat \ {0}, NEW seqs, Blocks(S, size, seqs)
  PROVE  JoinedTo(FlattenSeq(seqs), S, size, seqs, Len(seqs))
<1> DEFINE n == Len(seqs)
           Joining(f) == f = [i \in 1..n |-> IF i = 1 THEN seqs[i] ELSE f[i-1] \o seqs[i]]
<1>1. n \in Nat /\ \A i \in 1..n : seqs[i] \in Seq(S) /\ Len(seqs[i]) = size
  BY DEF Blocks
<1>2. CASE n = 0
  <2>1. FlattenSeq(seqs) = seqs /\ seqs = << >>
    BY <1>2 DEF FlattenSeq, Blocks
  <2>2. size * 0 = 0
    OBVIOUS
  <2> QED
    BY <1>2, <2>1, <2>2 DEF JoinedTo
<1>3. CASE n # 0
  <2> DEFINE step == [k \in 1..n |-> [x \in Seq(S) |-> x \o seqs[k]]]
             e == << >>
  <2>1. step \in [1..n -> [Seq(S) -> Seq(S)]]
    <3>1. \A k \in 1..n, x \in Seq(S) : x \o seqs[k] \in Seq(S)
      BY <1>1
    <3> QED
      BY <3>1
  <2>2. \A k \in 1..n, x \in Seq(S) : step[k][x] = x \o seqs[k]
    OBVIOUS
  <2>3. e \in Seq(S)
    OBVIOUS
  <2> HIDE DEF step, e
  <2>4. PICK g : g \in [0..n -> Seq(S)] /\ g[0] = e /\ \A k \in 1..n : g[k] = step[k][g[k-1]]
    <3> HIDE DEF n, Joining
    <3>1. PICK g : Turns(g, Seq(S), e, n, step)
      BY <1>1, <2>1, <2>3, Loop
    <3> QED
      BY <3>1 DEF Turns
  <2>5. ASSUME NEW k \in 1..n
        PROVE  g[k] = g[k-1] \o seqs[k]
    <3>1. g[k-1] \in Seq(S)
      BY <2>4
    <3> QED
      BY <2>2, <2>4, <3>1
  <2>6. g[1] = seqs[1]
    <3>1. 1 \in 1..n
      BY <1>1, <1>3
    <3>2. g[1] = g[1-1] \o seqs[1]
      BY <2>5, <3>1
    <3>3. g[1-1] = << >>
      BY <2>4 DEF e
    <3> QED
      BY <1>1, <3>1, <3>2, <3>3
  <2> DEFINE h == [i \in 1..n |-> g[i]]
             c == [i \in 1..n |-> IF i = 1 THEN seqs[i] ELSE h[i-1] \o seqs[i]]
  <2>7. h = c
    <3>1. ASSUME NEW i \in 1..n
          PROVE  h[i] = c[i]
      <4>1. CASE i = 1
        BY <2>6, <4>1
      <4>2. CASE i # 1
        <5>1. i - 1 \in 1..n
          BY <4>2
        <5> QED
          BY <2>5, <4>2, <5>1
      <4> QED
        BY <4>1, <4>2
    <3>2. h = [i \in 1..n |-> h[i]] /\ c = [i \in 1..n |-> c[i]]
      OBVIOUS
    <3> HIDE DEF h, c
    <3> QED
      BY <3>1, <3>2
  <2>8. Joining(h)
    BY <2>7
  <2>9. PICK f : Joining(f) /\ FlattenSeq(seqs) = f[n]
    <3>1. FlattenSeq(seqs) = (CHOOSE f : Joining(f))[n]
      BY <1>3 DEF FlattenSeq
    <3>2. Joining(CHOOSE f : Joining(f))
      <4> HIDE DEF Joining
      <4> QED
        BY <2>8
    <3> HIDE DEF Joining
    <3> QED
      BY <3>1, <3>2
  <2>10. f[1] = seqs[1] /\ \A i \in 2..n : f[i] = f[i-1] \o seqs[i]
    <3>1. \A i \in 1..n : f[i] = IF i = 1 THEN seqs[i] ELSE f[i-1] \o seqs[i]
      BY <2>9
    <3>2. 1 \in 1..n /\ \A i \in 2..n : i \in 1..n /\ i # 1
      BY <1>1, <1>3
    <3> QED
      BY <3>1, <3>2
  <2> DEFINE P == {i \in 0..n : i = 0 \/ JoinedTo(f[i], S, size, seqs, i)}
  <2>11. 0 \in P
    BY <1>1
  <2>12. ASSUME NEW i \in 0 .. n-1, i \in P
         PROVE  i + 1 \in P
    <3>1. CASE i = 0
      <4>1. JoinedTo(e, S, size, seqs, 0)
        <5>1. size * 0 = 0
          OBVIOUS
        <5> QED
          BY <5>1 DEF JoinedTo, e
      <4>2. 1 \in 1..n /\ 1 - 1 = 0
        BY <1>1, <1>3
      <4>3. JoinedTo(e \o seqs[1], S, size, seqs, 1)
        BY <4>1, <4>2, JoinedOnce
      <4>4. e \o seqs[1] = seqs[1]
        BY <1>1, <4>2 DEF e
      <4> QED
        BY <2>10, <3>1, <4>2, <4>3, <4>4
    <3>2. CASE i # 0
      <4>1. JoinedTo(f[i], S, size, seqs, i) /\ i + 1 \in 1..n /\ (i + 1) - 1 = i
        BY <2>12, <3>2
      <4>2. JoinedTo(f[i] \o seqs[i+1], S, size, seqs, i + 1)
        BY <4>1, JoinedOnce
      <4>3. f[i+1] = f[i] \o seqs[i+1]
        <5>1. i + 1 \in 2..n
          BY <3>2, <4>1
        <5> QED
          BY <2>10, <4>1, <5>1
      <4>4. JoinedTo(f[i+1], S, size, seqs, i + 1)
        BY <4>2, <4>3
      <4> QED
        BY <4>1, <4>4
    <3> QED
      BY <3>1, <3>2
  <2>13. n \in P
    <3> HIDE DEF P, n
    <3>1. \A i \in 0 .. n-1 : i \in P => i + 1 \in P
      BY <2>12
    <3>2. \A i \in 0 .. n : i \in P
      BY <1>1, <2>11, <3>1, UpTo
    <3> QED
      BY <1>1, <3>2
  <2> QED
    BY <1>3, <2>9, <2>13
<1> QED
  BY <1>2, <1>3

-----------------------------------------------------------------------------
(* Frames                                                                  *)

\* f consists of head, inner and tail in a row.
IsRow(f, head, inner, tail) ==
  /\ Len(f) = Len(head) + Len(inner) + Len(tail)
  /\ \A i \in 1..Len(head) : f[i] = head[i]
  /\ \A i \in 1..Len(inner) : f[Len(head) + i] = inner[i]
  /\ \A i \in 1..Len(tail) : f[Len(head) + Len(inner) + i] = tail[i]
  /\ SubSeq(f, Len(head) + 1, Len(head) + Len(inner)) = inner

\* Three sequences in a row.
LEMMA Row ==
  ASSUME NEW S, NEW head \in Seq(S), NEW inner \in Seq(S), NEW tail \in Seq(S)
  PROVE  head \o inner \o tail \in Seq(S) /\ IsRow(head \o inner \o tail, head, inner, tail)
<1> DEFINE g == head \o inner
           a == Len(head)
           n == Len(inner)
           b == Len(tail)
           f == g \o tail
<1>0. a \in Nat /\ n \in Nat /\ b \in Nat
  OBVIOUS
<1>1. g \in Seq(S) /\ IsJoin(g, head, inner)
  BY Join
<1> HIDE DEF g
<1>2. f \in Seq(S) /\ IsJoin(f, g, tail)
  BY <1>1, Join
<1> HIDE DEF f
<1>3. /\ Len(g) = a + n
      /\ \A i \in 1..a : g[i] = head[i]
      /\ \A i \in 1..n : g[a + i] = inner[i]
  BY <1>1 DEF IsJoin
<1>4. /\ Len(f) = Len(g) + b
      /\ \A i \in 1..Len(g) : f[i] = g[i]
      /\ \A i \in 1..b : f[Len(g) + i] = tail[i]
  BY <1>2 DEF IsJoin
<1> HIDE DEF a, n, b
<1>5. ASSUME NEW i \in 1..a PROVE f[i] = head[i]
  <2>1. i \in 1..Len(g)
    BY <1>0, <1>3
  <2> QED
    BY <1>3, <1>4, <2>1
<1>6. ASSUME NEW i \in 1..n PROVE f[a + i] = inner[i]
  <2>1. a + i \in 1..Len(g)
    BY <1>0, <1>3
  <2> QED
    BY <1>3, <1>4, <2>1
<1>7. Len(f) = a + n + b /\ \A i \in 1..b : f[a + n + i] = tail[i]
  BY <1>0, <1>3, <1>4
<1> DEFINE p == SubSeq(f, a + 1, a + n)
<1>8. p = inner
  <2>1. a + 1 \in 1 .. Len(f) + 1 /\ a + n \in (a+1) - 1 .. Len(f) /\ (a + n) - (a + 1) + 1 = n
    BY <1>0, <1>7
  <2>2. p \in Seq(S) /\ IsPart(p, f, a + 1, a + n)
    BY <1>2, <2>1, Part
  <2> HIDE DEF p
  <2>3. Len(p) = n /\ \A i \in 1..n : p[i] = f[i + (a+1) - 1]
    BY <2>1, <2>2 DEF IsPart
  <2>4. \A i \in 1..n : i + (a + 1) - 1 = a + i
    BY <1>0
  <2>5. Len(p) = Len(inner) /\ \A i \in 1..Len(p) : p[i] = inner[i]
    BY <1>6, <2>3, <2>4 DEF n
  <2> QED
    BY <2>2, <2>5, SameSequence
<1>9. IsRow(f, head, inner, tail)
  BY <1>5, <1>6, <1>7, <1>8 DEF IsRow, a, n, b
<1> QED
  BY <1>2, <1>9 DEF f, g

\* The checksum and the end of a frame.
LEMMA FrameEnd ==
  ASSUME NEW c \in Byte
  PROVE  <<c, END>> \in Seq(Byte) /\ Len(<<c, END>>) = 2
         /\ <<c, END>>[1] = c /\ <<c, END>>[2] = END
  BY DEF Byte, END

\* The head of a frame of variable length.
LEMMA VariableHead ==
  ASSUME NEW n \in Byte
  PROVE  /\ <<VAR, n, n, VAR>> \in Seq(Byte) /\ Len(<<VAR, n, n, VAR>>) = 4
         /\ <<VAR, n, n, VAR>>[1] = VAR /\ <<VAR, n, n, VAR>>[2] = n
         /\ <<VAR, n, n, VAR>>[3] = n /\ <<VAR, n, n, VAR>>[4] = VAR
  BY DEF Byte, VAR

\* f is a frame of variable length around inner.
FramedAs(f, inner) ==
  /\ Len(f) = Len(inner) + 6
  /\ f[1] = VAR /\ f[2] = Len(inner) /\ f[3] = Len(inner) /\ f[4] = VAR
  /\ \A i \in 1..Len(inner) : f[4 + i] = inner[i]
  /\ f[Len(inner) + 5] = Crc(inner)
  /\ f[Len(inner) + 6] = END
  /\ SubSeq(f, 5, 4 + Len(inner)) = inner

\* pack_variable: the head, the bytes, their checksum and the end.
LEMMA VariableFrame ==
  ASSUME NEW inner \in Seq(Byte), Len(inner) >= 1, Len(inner) <= 255
  PROVE  Variable(inner) \in Seq(Byte) /\ FramedAs(Variable(inner), inner)
<1>0. Len(inner) \in Nat /\ inner # << >>
  OBVIOUS
<1>1. Len(inner) \in Byte /\ Len(inner) \in Nat /\ inner # << >>
  <2> DEFINE k == Len(inner)
  <2>1. k \in Nat /\ k <= 255
    BY <1>0
  <2> HIDE DEF k
  <2>2. k \in Byte
    BY <2>1 DEF Byte
  <2> QED
    BY <1>0, <2>2 DEF k
<1>2. Crc(inner) \in Byte
  BY <1>1, CrcIsByte
<1> DEFINE n == Len(inner)
           c == Crc(inner)
           head == <<VAR, n, n, VAR>>
           tail == <<c, END>>
           f == Variable(inner)
<1>3. f = head \o inner \o tail
  BY DEF Variable
<1> HIDE DEF n, c, f
<1>4. /\ head \in Seq(Byte) /\ Len(head) = 4
      /\ head[1] = VAR /\ head[2] = n /\ head[3] = n /\ head[4] = VAR
  BY <1>1, VariableHead DEF n
<1>5. tail \in Seq(Byte) /\ Len(tail) = 2 /\ tail[1] = c /\ tail[2] = END
  BY <1>2, FrameEnd DEF c
<1> HIDE DEF head, tail
<1>6. f \in Seq(Byte) /\ IsRow(f, head, inner, tail)
  BY <1>3, <1>4, <1>5, Row
<1>7. /\ Len(f) = 4 + n + 2
      /\ \A i \in 1..4 : f[i] = head[i]
      /\ \A i \in 1..n : f[4 + i] = inner[i]
      /\ \A i \in 1..2 : f[4 + n + i] = tail[i]
      /\ SubSeq(f, 4 + 1, 4 + n) = inner
  BY <1>4, <1>5, <1>6 DEF IsRow, n
<1>8. f[1] = VAR /\ f[2] = n /\ f[3] = n /\ f[4] = VAR
  BY <1>4, <1>7
<1>9. f[n + 5] = c /\ f[n + 6] = END
  <2>1. n + 5 = 4 + n + 1 /\ n + 6 = 4 + n + 2
    BY <1>1 DEF n
  <2> QED
    BY <1>5, <1>7, <2>1
<1>10. Len(f) = n + 6 /\ 4 + 1 = 5
  BY <1>1, <1>7 DEF n
<1> QED
  BY <1>6, <1>7, <1>8, <1>9, <1>10 DEF FramedAs, n, c, f

\* A frame of fixed length around six bytes.
FixedAs(f, inner) == Len(f) = 9 /\ f[1] = FIX /\ SubSeq(f, 2, 7) = inner

\* pack_fixed, likewise.
LEMMA FixedFrame ==
  ASSUME NEW inner \in Seq(Byte), Len(inner) = 6
  PROVE  Fixed(inner) \in Seq(Byte) /\ FixedAs(Fixed(inner), inner)
<1>1. inner # << >>
  OBVIOUS
<1>2. Crc(inner) \in Byte
  BY <1>1, CrcIsByte
<1> DEFINE c == Crc(inner)
           head == <<FIX>>
           tail == <<c, END>>
           f == Fixed(inner)
<1>3. f = head \o inner \o tail
  BY DEF Fixed
<1> HIDE DEF c, f
<1>4. head \in Seq(Byte) /\ Len(head) = 1 /\ head[1] = FIX
  BY DEF Byte, FIX
<1>5. tail \in Seq(Byte) /\ Len(tail) = 2
  BY <1>2, FrameEnd DEF c
<1> HIDE DEF head, tail
<1>6. f \in Seq(Byte) /\ IsRow(f, head, inner, tail)
  BY <1>3, <1>4, <1>5, Row
<1>7. Len(f) = 9 /\ f[1] = FIX /\ SubSeq(f, 2, 7) = inner
  BY <1>4, <1>5, <1>6, SMTT(60) DEF IsRow
<1> QED
  BY <1>6, <1>7 DEF f, FixedAs

-----------------------------------------------------------------------------
(* Requests                                                                *)

\* b is a sequence of the two bytes of the word u.
IsWord(b, u) ==
  b \in Seq(Byte) /\ Len(b) = 2 /\ b[1] = u % 256 /\ b[2] = u \div 256 /\ FromU16(b[1], b[2]) = u

\* A word is written low byte first, and read as it was written.
LEMMA WordBytes ==
  ASSUME NEW u \in Word
  PROVE  /\ u % 256 \in Byte /\ u \div 256 \in Byte
         /\ FromU16(u % 256, u \div 256) = u
  BY DEF Word, Byte, FromU16

\* U16 writes a word.
LEMMA WordIsWritten ==
  ASSUME NEW u \in Word
  PROVE  IsWord(U16(u), u)
<1> DEFINE p == u % 256
           q == u \div 256
<1>1. p \in Byte /\ q \in Byte /\ FromU16(p, q) = u
  BY WordBytes
<1> HIDE DEF p, q
<1>2. <<p, q>> \in Seq(Byte) /\ Len(<<p, q>>) = 2 /\ <<p, q>>[1] = p /\ <<p, q>>[2] = q
  BY <1>1
<1>3. U16(u) = <<p, q>>
  BY DEF U16, p, q
<1> QED
  BY <1>1, <1>2, <1>3 DEF IsWord, p, q

\* The three bytes of an index, or of none.
IndexBytes(idx) == IF idx = NoIndex THEN <<0, 0, 0>> ELSE U16(idx) \o <<1>>

IsIndex(b, idx) ==
  /\ b \in Seq(Byte) /\ Len(b) = 3
  /\ (IF b[3] = 1 THEN FromU16(b[1], b[2]) ELSE NoIndex) = idx

\* An index is told from none by its third byte.
LEMMA IndexIsWritten ==
  ASSUME NEW idx \in Word
  PROVE  IsIndex(IndexBytes(idx), idx)
<1>1. CASE idx = NoIndex
  <2>1. <<0, 0, 0>> \in Seq(Byte) /\ Len(<<0, 0, 0>>) = 3 /\ <<0, 0, 0>>[3] = 0
    BY DEF Byte
  <2> QED
    BY <1>1, <2>1 DEF IsIndex, IndexBytes
<1>2. CASE idx # NoIndex
  <2> DEFINE w == U16(idx)
             o == <<1>>
             r == w \o o
  <2>1. IsWord(w, idx)
    BY WordIsWritten
  <2>2. o \in Seq(Byte) /\ Len(o) = 1 /\ o[1] = 1
    BY DEF Byte
  <2> HIDE DEF w, o
  <2>3. w \in Seq(Byte) /\ Len(w) = 2 /\ FromU16(w[1], w[2]) = idx
    BY <2>1 DEF IsWord
  <2>4. r \in Seq(Byte) /\ IsJoin(r, w, o)
    BY <2>2, <2>3, Join
  <2> HIDE DEF r
  <2>5. Len(r) = 3 /\ r[1] = w[1] /\ r[2] = w[2] /\ r[2+1] = o[1]
    BY <2>2, <2>3, <2>4 DEF IsJoin
  <2>6. r[3] = 1 /\ FromU16(r[1], r[2]) = idx
    BY <2>2, <2>3, <2>5
  <2>7. IsIndex(r, idx)
    BY <2>4, <2>5, <2>6 DEF IsIndex
  <2>8. IndexBytes(idx) = r
    BY <1>2 DEF IndexBytes, r, w, o
  <2> QED
    BY <2>7, <2>8
<1> QED
  BY <1>1, <1>2

\* b begins with the bytes of a device and a parameter.
IsParameter(b, dev, par) ==
  b[1] = dev /\ b[2] = par % 256 /\ b[3] = par \div 256 /\ FromU16(b[2], b[3]) = par

\* A device and a parameter in front of other bytes.
LEMMA ParameterIsWritten ==
  ASSUME NEW dev \in Byte, NEW par \in Word, NEW t \in Seq(Byte)
  PROVE  LET r == <<dev>> \o U16(par) \o t IN
         /\ r \in Seq(Byte) /\ Len(r) = 3 + Len(t) /\ IsParameter(r, dev, par)
         /\ \A k \in 1..Len(t) : r[3 + k] = t[k]
<1> DEFINE o == <<dev>>
           w == U16(par)
           r == o \o w \o t
<1>1. o \in Seq(Byte) /\ Len(o) = 1 /\ o[1] = dev
  OBVIOUS
<1>2. IsWord(w, par)
  BY WordIsWritten
<1> HIDE DEF o, w
<1>3. w \in Seq(Byte) /\ Len(w) = 2 /\ w[1] = par % 256 /\ w[2] = par \div 256
      /\ FromU16(w[1], w[2]) = par
  BY <1>2 DEF IsWord
<1>4. r \in Seq(Byte) /\ IsRow(r, o, w, t)
  BY <1>1, <1>3, Row
<1> HIDE DEF r
<1>5. Len(r) = 3 + Len(t) /\ r[1] = o[1] /\ r[1+1] = w[1] /\ r[1+2] = w[2]
      /\ \A k \in 1..Len(t) : r[1 + 2 + k] = t[k]
  BY <1>1, <1>3, <1>4 DEF IsRow
<1>6. \A k \in 1..Len(t) : r[3 + k] = t[k]
  BY <1>5
<1>7. r[1] = dev /\ r[2] = w[1] /\ r[3] = w[2]
  BY <1>1, <1>5
<1>8. IsParameter(r, dev, par)
  BY <1>3, <1>7 DEF IsParameter
<1> QED
  BY <1>4, <1>5, <1>6, <1>8 DEF r, o, w

\* b is the six bytes of the element e.
IsElement(b, e) == b \in Seq(Byte) /\ Len(b) = 6 /\ FromElement(b) = e

\* What FromElement makes of its six bytes.
ElementOf(dev, par, idx) == [dev |-> dev, par |-> par, idx |-> idx]

\* An element of a list is read as it was written.
LEMMA ElementIsWritten ==
  ASSUME NEW e \in Elements
  PROVE  IsElement(ListElement(e), e)
<1>1. e.dev \in Byte /\ e.par \in Word /\ e.idx \in Word /\ e = ElementOf(e.dev, e.par, e.idx)
  BY DEF Elements, ElementOf
<1> DEFINE t == IndexBytes(e.idx)
           r == <<e.dev>> \o U16(e.par) \o t
<1>2. IsIndex(t, e.idx)
  BY <1>1, IndexIsWritten
<1>3. t \in Seq(Byte) /\ Len(t) = 3
  BY <1>2 DEF IsIndex
<1>0. r = ListElement(e)
  BY DEF ListElement, IndexBytes
<1> HIDE DEF t
<1>4. r \in Seq(Byte) /\ Len(r) = 3 + Len(t) /\ IsParameter(r, e.dev, e.par)
      /\ \A k \in 1..Len(t) : r[3 + k] = t[k]
  BY <1>1, <1>3, ParameterIsWritten
<1> HIDE DEF r
<1>5. r[3+1] = t[1] /\ r[3+2] = t[2] /\ r[3+3] = t[3]
  BY <1>3, <1>4
<1>6. r[4] = t[1] /\ r[5] = t[2] /\ r[6] = t[3]
  BY <1>5
<1>7. (IF r[6] = 1 THEN FromU16(r[4], r[5]) ELSE NoIndex) = e.idx
  BY <1>2, <1>6 DEF IsIndex
<1>8. r[1] = e.dev /\ FromU16(r[2], r[3]) = e.par
  BY <1>4 DEF IsParameter
<1>9. FromElement(r) = ElementOf(e.dev, e.par, e.idx)
  BY <1>7, <1>8 DEF FromElement, ElementOf
<1>10. Len(r) = 6
  BY <1>3, <1>4
<1> QED
  BY <1>0, <1>1, <1>4, <1>9, <1>10 DEF IsElement

\* A sequence that has a length is not empty.
LEMMA NotEmpty ==
  ASSUME NEW s, Len(s) # 0
  PROVE  s # << >>
<1>1. Len(<< >>) = 0
  OBVIOUS
<1> QED
  BY <1>1

\* A part of a sequence has the elements of another sequence.
LEMMA SamePart ==
  ASSUME NEW S, NEW s \in Seq(S), NEW p \in Seq(S), NEW a \in Nat, NEW b \in Nat,
         1 <= a, a <= b + 1, b <= Len(s), Len(p) = b - a + 1,
         \A i \in 1 .. Len(p) : s[a - 1 + i] = p[i]
  PROVE  SubSeq(s, a, b) = p
<1> DEFINE q == SubSeq(s, a, b)
<1>1. a \in 1 .. Len(s) + 1 /\ b \in a-1 .. Len(s)
  OBVIOUS
<1>2. q \in Seq(S) /\ IsPart(q, s, a, b)
  BY <1>1, Part
<1> HIDE DEF q
<1>3. Len(q) = Len(p) /\ \A i \in 1..Len(p) : q[i] = s[i + a - 1]
  BY <1>2 DEF IsPart
<1>4. \A i \in 1..Len(p) : i + a - 1 = a - 1 + i
  OBVIOUS
<1>5. \A i \in 1..Len(p) : q[i] = p[i]
  BY <1>3, <1>4
<1> QED
  BY <1>2, <1>3, <1>5, SameSequence DEF q

\* What the device makes of a frame's command and the bytes behind it.
HeardBody(code, body) ==
  CASE code = 17 -> <<[dev |-> body[1], par |-> FromU16(body[2], body[3]), idx |-> 0]>>
    [] code = 20 -> body
    [] code = 25 -> [i \in 1..body[6] |->
                       [dev |-> body[1], par |-> FromU16(body[2], body[3]),
                        idx |-> (FromU16(body[4], body[5]) + i - 1) % 65536]]
    [] code = 28 -> [i \in 1 .. Len(body) \div 6 |-> FromElement(SubSeq(body, 6 * i - 5, 6 * i))]

\* inner is the bytes of a request without its frame.
IsInner(inner, n, gateway, code, body) ==
  /\ inner \in Seq(Byte)
  /\ Len(inner) = 3 + Len(body)
  /\ inner[1] % 16 = n /\ inner[2] = gateway /\ inner[3] = code
  /\ SubSeq(inner, 4, Len(inner)) = body

Inner(n, gateway, code, body) == <<64 + n, gateway, code>> \o body

\* The number of a request in its first byte.
LEMMA FirstByte ==
  ASSUME NEW n \in 0..15
  PROVE  64 + n \in Byte /\ (64 + n) % 16 = n
  BY DEF Byte

\* The bytes of a request: number, gateway, function, and what it is about.
LEMMA InnerOfRequest ==
  ASSUME NEW n \in 0..15, NEW gateway \in Byte, NEW code \in Byte, NEW body \in Seq(Byte)
  PROVE  IsInner(Inner(n, gateway, code, body), n, gateway, code, body)
<1> DEFINE x == 64 + n
           h == <<x, gateway, code>>
           inner == h \o body
<1>1. x \in Byte /\ x % 16 = n
  BY FirstByte
<1> HIDE DEF x
<1>2. h \in Seq(Byte) /\ Len(h) = 3 /\ h[1] = x /\ h[2] = gateway /\ h[3] = code
  BY <1>1
<1> HIDE DEF h
<1>3. inner \in Seq(Byte) /\ IsJoin(inner, h, body)
  BY <1>2, Join
<1> HIDE DEF inner
<1>4. Len(body) \in Nat
  OBVIOUS
<1>5. /\ Len(inner) = 3 + Len(body)
      /\ inner[1] = h[1] /\ inner[2] = h[2] /\ inner[3] = h[3]
      /\ \A i \in 1..Len(body) : inner[3 + i] = body[i]
  BY <1>2, <1>3 DEF IsJoin
<1>6. SubSeq(inner, 4, Len(inner)) = body
  <2>1. 4 <= Len(inner) + 1 /\ Len(body) = Len(inner) - 4 + 1 /\ Len(inner) \in Nat
    BY <1>4, <1>5
  <2>2. \A i \in 1..Len(body) : inner[4 - 1 + i] = body[i]
    BY <1>5
  <2> QED
    BY <1>3, <2>1, <2>2, SamePart
<1>7. IsInner(inner, n, gateway, code, body)
  BY <1>1, <1>2, <1>3, <1>5, <1>6 DEF IsInner
<1> QED
  BY <1>7 DEF Inner, inner, h, x

\* What the device should take a request for.
HeardIs(f, n, gateway, elems) ==
  /\ f \in Seq(Byte) /\ f # << >>
  /\ Heard(f) = [number |-> n, gateway |-> gateway, elems |-> elems]

\* The bytes between the frame's head and its end.
InnerOfFrame(f) == IF f[1] = FIX THEN SubSeq(f, 2, 7) ELSE SubSeq(f, 5, 4 + f[2])

\* What is heard are the fields of the inner bytes.
LEMMA HeardInner ==
  ASSUME NEW f \in Seq(Byte), f # << >>, NEW n, NEW gateway, NEW code, NEW body,
         IsInner(InnerOfFrame(f), n, gateway, code, body)
  PROVE  HeardIs(f, n, gateway, HeardBody(code, body))
<1> DEFINE inner == InnerOfFrame(f)
           b == SubSeq(inner, 4, Len(inner))
<1>1. inner[1] % 16 = n /\ inner[2] = gateway /\ inner[3] = code /\ b = body
  BY DEF IsInner
<1>2. Heard(f) = [number |-> inner[1] % 16, gateway |-> inner[2], elems |-> HeardBody(inner[3], b)]
  BY DEF Heard, HeardBody, InnerOfFrame
<1> HIDE DEF inner, b
<1> QED
  BY <1>1, <1>2 DEF HeardIs

\* A frame of variable length is heard as it was written.
LEMMA VariableIsHeard ==
  ASSUME NEW n \in 0..15, NEW gateway \in Byte, NEW code \in Byte, NEW body \in Seq(Byte),
         Len(body) <= 252
  PROVE  HeardIs(Variable(Inner(n, gateway, code, body)), n, gateway, HeardBody(code, body))
<1> DEFINE inner == Inner(n, gateway, code, body)
           f == Variable(inner)
<1>0. Len(body) \in Nat
  OBVIOUS
<1>1. IsInner(inner, n, gateway, code, body)
  BY InnerOfRequest
<1> HIDE DEF inner
<1>2. inner \in Seq(Byte) /\ Len(inner) >= 1 /\ Len(inner) <= 255
  BY <1>0, <1>1 DEF IsInner
<1>3. f \in Seq(Byte) /\ FramedAs(f, inner)
  BY <1>2, VariableFrame
<1> HIDE DEF f
<1>4. /\ f[1] = VAR /\ f[2] = Len(inner)
      /\ SubSeq(f, 5, 4 + Len(inner)) = inner /\ Len(f) = Len(inner) + 6
  BY <1>3 DEF FramedAs
<1>5. f[1] # FIX
  BY <1>4 DEF VAR, FIX
<1>6. InnerOfFrame(f) = inner
  BY <1>4, <1>5 DEF InnerOfFrame
<1>7. f # << >>
  BY <1>2, <1>3, <1>4
<1>8. HeardIs(f, n, gateway, HeardBody(code, body))
  BY <1>1, <1>3, <1>6, <1>7, HeardInner
<1> QED
  BY <1>8 DEF f, inner

\* So is a frame of fixed length.
LEMMA FixedIsHeard ==
  ASSUME NEW n \in 0..15, NEW gateway \in Byte, NEW code \in Byte, NEW body \in Seq(Byte),
         Len(body) = 3
  PROVE  HeardIs(Fixed(Inner(n, gateway, code, body)), n, gateway, HeardBody(code, body))
<1> DEFINE inner == Inner(n, gateway, code, body)
           f == Fixed(inner)
<1>1. IsInner(inner, n, gateway, code, body)
  BY InnerOfRequest
<1> HIDE DEF inner
<1>2. inner \in Seq(Byte) /\ Len(inner) = 6
  BY <1>1 DEF IsInner
<1>3. f \in Seq(Byte) /\ FixedAs(f, inner)
  BY <1>2, FixedFrame
<1> HIDE DEF f
<1>4. InnerOfFrame(f) = inner
  BY <1>3 DEF FixedAs, InnerOfFrame
<1>5. f # << >>
  <2>1. Len(f) # 0
    BY <1>3 DEF FixedAs
  <2> QED
    BY <2>1, NotEmpty
<1>6. HeardIs(f, n, gateway, HeardBody(code, body))
  BY <1>1, <1>3, <1>4, <1>5, HeardInner
<1> QED
  BY <1>6 DEF f, inner

\* Joining is associative.
LEMMA Associate ==
  ASSUME NEW s \in Seq(Byte), NEW t \in Seq(Byte), NEW u \in Seq(Byte)
  PROVE  (s \o t) \o u = s \o (t \o u)
  OBVIOUS

\* pack_header writes number, gateway and function.
LEMMA HeaderBytes ==
  ASSUME NEW m, m.gateway \in Byte, NEW n \in 0..15, NEW code \in Byte
  PROVE  /\ Header(m, n, code) = <<64 + n, m.gateway, code>>
         /\ Header(m, n, code) \in Seq(Byte)
         /\ \A body \in Seq(Byte) : Header(m, n, code) \o body = Inner(n, m.gateway, code, body)
<1> DEFINE x == 64 + n
           g == m.gateway
<1>1. x \in Byte
  BY FirstByte
<1>2. g \in Byte
  OBVIOUS
<1>3. Header(m, n, code) = <<x, g, code>>
  BY DEF Header
<1>4. \A body \in Seq(Byte) : Inner(n, g, code, body) = <<x, g, code>> \o body
  BY DEF Inner
<1> HIDE DEF x, g
<1>5. <<x, g, code>> \in Seq(Byte)
  BY <1>1, <1>2
<1>6. \A body \in Seq(Byte) : Header(m, n, code) \o body = Inner(n, g, code, body)
  BY <1>3, <1>4
<1> QED
  BY <1>3, <1>5, <1>6 DEF x, g

\* The codes of the functions are bytes.
LEMMA Codes == 17 \in Byte /\ 20 \in Byte /\ 25 \in Byte /\ 28 \in Byte
  BY DEF Byte

\* The kinds of message.
IsOne(m) == m.type = "11" /\ \E e \in Elements : e.idx = 0 /\ m.elems = <<e>>

\* Function 0x11: one parameter.
LEMMA OneIsHeard ==
  ASSUME NEW m, m.gateway \in Byte, IsOne(m), NEW n \in 0..15
  PROVE  HeardIs(tekon_req_pack(m, n), n, m.gateway, m.elems)
<1>1. PICK e \in Elements : e.idx = 0 /\ m.elems = <<e>>
  BY DEF IsOne
<1>2. e.dev \in Byte /\ e.par \in Word /\ e = ElementOf(e.dev, e.par, 0)
  BY <1>1 DEF Elements, ElementOf
<1> DEFINE h == Header(m, n, 17)
           o == <<e.dev>>
           w == U16(e.par)
           t == << >>
           body == o \o w
<1>3. tekon_req_pack(m, n) = Fixed(h \o o \o w)
  <2>1. m.elems[1] = e
    BY <1>1
  <2>2. tekon_req_pack(m, n) = pack_readem_11(m, n)
    <3>1. ~(n > 15)
      OBVIOUS
    <3> QED
      BY <3>1 DEF tekon_req_pack, IsOne
  <2> QED
    BY <2>1, <2>2 DEF pack_readem_11
<1>4. o \in Seq(Byte) /\ t \in Seq(Byte) /\ Len(t) = 0
  BY <1>2
<1>5. w \in Seq(Byte)
  BY <1>2, WordIsWritten DEF IsWord
<1>6. h \in Seq(Byte) /\ \A b \in Seq(Byte) : h \o b = Inner(n, m.gateway, 17, b)
  BY Codes, HeaderBytes
<1>7. body \in Seq(Byte) /\ Len(body) = 3 /\ IsParameter(body, e.dev, e.par)
  <2> DEFINE r == o \o w \o t
  <2>1. r = body
    BY <1>4, <1>5
  <2> HIDE DEF t, body
  <2>2. r \in Seq(Byte) /\ Len(r) = 3 + Len(t) /\ IsParameter(r, e.dev, e.par)
    BY <1>2, <1>4, ParameterIsWritten
  <2> HIDE DEF r
  <2>3. Len(body) = 3
    BY <1>4, <2>1, <2>2
  <2> QED
    BY <2>1, <2>2, <2>3
<1>8. h \o o \o w = Inner(n, m.gateway, 17, body)
  <2> HIDE DEF h, o, w, t
  <2>1. h \o o \o w = h \o (o \o w)
    BY <1>4, <1>5, <1>6, Associate
  <2> QED
    BY <1>6, <1>7, <2>1
<1> HIDE DEF h, o, w, t, body
<1>9. HeardIs(tekon_req_pack(m, n), n, m.gateway, HeardBody(17, body))
  BY <1>3, <1>7, <1>8, Codes, FixedIsHeard
<1>10. HeardBody(17, body) = m.elems
  <2>1. body[1] = e.dev /\ FromU16(body[2], body[3]) = e.par
    BY <1>7 DEF IsParameter
  <2>2. HeardBody(17, body) = <<ElementOf(e.dev, e.par, 0)>>
    BY <2>1 DEF HeardBody, ElementOf
  <2> QED
    BY <1>1, <1>2, <2>2
<1> QED
  BY <1>9, <1>10

\* A message of write_time has nine bytes, one of login eight.
IsWrite(m) ==
  /\ m.type = "14" /\ m.elems \in Seq(Byte)
  /\ \/ m.elems[3] = 3 /\ Len(m.elems) = 9
     \/ m.elems[3] = 5 /\ Len(m.elems) = 8

\* Function 0x14: a write or a login.
LEMMA WriteIsHeard ==
  ASSUME NEW m, m.gateway \in Byte, IsWrite(m), NEW n \in 0..15
  PROVE  HeardIs(tekon_req_pack(m, n), n, m.gateway, m.elems)
<1> DEFINE body == m.elems
           len == Len(body) + 3
           inner == Inner(n, m.gateway, 20, body)
           f == Variable(inner)
<1>1. body \in Seq(Byte) /\ (Len(body) = 8 \/ Len(body) = 9)
  BY DEF IsWrite
<1>11. Len(body) <= 252
  <2> DEFINE k == Len(body)
  <2>1. k = 8 \/ k = 9
    BY <1>1
  <2> HIDE DEF k
  <2>2. k <= 252
    BY <2>1
  <2> QED
    BY <2>2 DEF k
<1>2. (CASE m.elems[3] = 3 -> 12 [] m.elems[3] = 5 -> 11) = len
  <2> DEFINE x == m.elems[3]
             k == Len(m.elems)
  <2>1. (x = 3 /\ k = 9) \/ (x = 5 /\ k = 8)
    BY DEF IsWrite
  <2>2. k + 3 = len
    OBVIOUS
  <2> HIDE DEF x, k, len
  <2>3. CASE x = 3 /\ k = 9
    <3>1. len = 12
      BY <2>2, <2>3
    <3> QED
      BY <2>3, <3>1 DEF x
  <2>4. CASE x = 5 /\ k = 8
    <3>1. len = 11 /\ x # 3
      BY <2>2, <2>4
    <3> QED
      BY <2>4, <3>1 DEF x
  <2> QED
    BY <2>1, <2>3, <2>4
<1>3. Header(m, n, 20) \o m.elems = inner
  BY <1>1, Codes, HeaderBytes
<1> HIDE DEF inner
<1>4. tekon_req_pack(m, n) = <<VAR, len, len, VAR>> \o inner \o <<Crc(SubSeq(inner, 1, len)), END>>
  <2>1. tekon_req_pack(m, n) = pack_readem_14(m, n)
    <3>1. ~(n > 15)
      OBVIOUS
    <3> QED
      BY <3>1 DEF tekon_req_pack, IsWrite
  <2>2. pack_readem_14(m, n)
          = <<VAR, len, len, VAR>> \o inner \o <<Crc(SubSeq(inner, 1, len)), END>>
    <3> HIDE DEF len
    <3> QED
      BY <1>2, <1>3 DEF pack_readem_14
  <2> QED
    BY <2>1, <2>2
<1>5. IsInner(inner, n, m.gateway, 20, body)
  BY <1>1, Codes, InnerOfRequest DEF inner
<1> HIDE DEF body
<1>6. inner \in Seq(Byte) /\ Len(inner) = len
  <2>1. Len(inner) = 3 + Len(body) /\ Len(body) + 3 = 3 + Len(body)
    BY <1>1, <1>5 DEF IsInner
  <2> QED
    BY <1>5, <2>1 DEF IsInner
<1>7. SubSeq(inner, 1, len) = inner
  BY <1>6
<1>8. tekon_req_pack(m, n) = f
  BY <1>4, <1>6, <1>7 DEF Variable
<1> HIDE DEF f
<1>9. HeardIs(f, n, m.gateway, HeardBody(20, body))
  <2> QED
    BY <1>1, <1>11, Codes, VariableIsHeard, SMTT(60) DEF f, inner
<1>10. HeardBody(20, body) = m.elems
  BY DEF HeardBody, body
<1> QED
  BY <1>8, <1>9, <1>10

\* size consecutive indexes of a parameter.
Consecutive(dev, par, idx, size) ==
  [i \in 1..size |-> [dev |-> dev, par |-> par, idx |-> (idx + i - 1) % 65536]]

IsRun(m) ==
  /\ m.type = "19"
  /\ \E dev \in Byte, par \in Word, idx \in Word, size \in 1..60 :
       m.elems = Consecutive(dev, par, idx, size)

\* A word is not changed by its width.
LEMMA WordFits ==
  ASSUME NEW u \in Word
  PROVE  u \in Nat /\ u % 65536 = u
<1>1. 65536 - 1 = 65535
  OBVIOUS
<1>2. u \in 0 .. (65536 - 1)
  BY <1>1, SMTT(60) DEF Word
<1>3. 65536 \in Nat \ {0}
  OBVIOUS
<1> DEFINE m == 65536
<1>4. u \in 0 .. m-1
  BY <1>2, SMTT(60)
<1>5. m \in Nat \ {0}
  BY <1>3
<1> HIDE DEF m
<1>6. u % m = u /\ u \in Nat
  BY <1>4, <1>5, SmallRemainder
<1> QED
  BY <1>6 DEF m

BeginsWith(elems, dev, par, idx, size) ==
  Len(elems) = size /\ elems[1].dev = dev /\ elems[1].par = par /\ elems[1].idx = idx

\* A run of indexes is given by its first element and its size.
LEMMA RunHead ==
  ASSUME NEW dev \in Byte, NEW par \in Word, NEW idx \in Word, NEW size \in 1..60
  PROVE  BeginsWith(Consecutive(dev, par, idx, size), dev, par, idx, size)
<1> DEFINE x == (idx + 1 - 1) % 65536
<1>1. x = idx
  <2>1. idx \in Nat /\ idx % 65536 = idx
    BY WordFits
  <2>2. idx + 1 - 1 = idx
    BY <2>1
  <2> QED
    BY <2>1, <2>2
<1> HIDE DEF x
<1>2. Consecutive(dev, par, idx, size)[1] = [dev |-> dev, par |-> par, idx |-> x]
  BY DEF Consecutive, x
<1>3. Len(Consecutive(dev, par, idx, size)) = size
  BY DEF Consecutive
<1> QED
  BY <1>1, <1>2, <1>3 DEF BeginsWith

\* Function 0x19: a run of indexes.
LEMMA RunIsHeard ==
  ASSUME NEW m, m.gateway \in Byte, IsRun(m), NEW n \in 0..15
  PROVE  HeardIs(tekon_req_pack(m, n), n, m.gateway, m.elems)
<1>1. PICK dev \in Byte, par \in Word, idx \in Word, size \in 1..60 :
        m.elems = Consecutive(dev, par, idx, size)
  BY DEF IsRun
<1> DEFINE h == Header(m, n, 25)
           o == <<dev>>
           w == U16(par)
           v == U16(idx)
           l == <<size>>
           t == v \o l
           body == o \o w \o t
<1>2. tekon_req_pack(m, n) = Variable(h \o o \o w \o v \o l)
  <2>1. Len(m.elems) = size /\ m.elems[1].dev = dev /\ m.elems[1].par = par /\ m.elems[1].idx = idx
    <3>1. BeginsWith(m.elems, dev, par, idx, size)
      BY <1>1, RunHead
    <3> QED
      BY <3>1 DEF BeginsWith
  <2>2. tekon_req_pack(m, n) = pack_readem_19(m, n)
    <3>1. ~(n > 15)
      OBVIOUS
    <3> QED
      BY <3>1 DEF tekon_req_pack, IsRun
  <2>3. Len(m.elems) \in 1..ILIST
    BY <2>1 DEF ILIST
  <2> QED
    BY <2>1, <2>2, <2>3 DEF pack_readem_19
<1>3. o \in Seq(Byte) /\ IsWord(w, par) /\ IsWord(v, idx)
  BY WordIsWritten
<1>4. l \in Seq(Byte) /\ Len(l) = 1 /\ l[1] = size
  BY DEF Byte
<1>5. h \in Seq(Byte) /\ \A b \in Seq(Byte) : h \o b = Inner(n, m.gateway, 25, b)
  BY Codes, HeaderBytes
<1> HIDE DEF h, w, v, l
<1>6. w \in Seq(Byte) /\ v \in Seq(Byte) /\ Len(v) = 2 /\ FromU16(v[1], v[2]) = idx
  BY <1>3 DEF IsWord
<1>7. t \in Seq(Byte) /\ IsJoin(t, v, l)
  BY <1>4, <1>6, Join
<1> HIDE DEF t
<1>8. Len(t) = 3 /\ t[1] = v[1] /\ t[2] = v[2] /\ t[2+1] = l[1]
  BY <1>4, <1>6, <1>7 DEF IsJoin
<1>9. body \in Seq(Byte) /\ Len(body) = 3 + Len(t) /\ IsParameter(body, dev, par)
      /\ \A k \in 1..Len(t) : body[3 + k] = t[k]
  BY <1>7, ParameterIsWritten DEF w
<1> HIDE DEF o
<1>10. h \o o \o w \o v \o l = Inner(n, m.gateway, 25, body)
  <2> DEFINE ho == h \o o
             how == ho \o w
             ow == o \o w
  <2>1. ho \in Seq(Byte) /\ how \in Seq(Byte) /\ ow \in Seq(Byte)
    BY <1>3, <1>5, <1>6
  <2>2. how = h \o ow
    BY <1>3, <1>5, <1>6, Associate
  <2> HIDE DEF ow, how, ho
  <2>3. (how \o v) \o l = how \o (v \o l)
    BY <1>4, <1>6, <2>1, Associate, ZenonT(60)
  <2>4. (h \o ow) \o t = h \o (ow \o t)
    BY <1>5, <1>7, <2>1, Associate
  <2>5. how \o (v \o l) = h \o (ow \o t)
    BY <2>2, <2>4 DEF t
  <2>6. h \o body = Inner(n, m.gateway, 25, body)
    BY <1>5, <1>9
  <2>7. body = ow \o t
    BY DEF ow
  <2> HIDE DEF body
  <2>8. how \o v \o l = Inner(n, m.gateway, 25, body)
    BY <2>3, <2>5, <2>6, <2>7
  <2> QED
    BY <2>8 DEF how, ho
<1> HIDE DEF body
<1>11. body[4] = v[1] /\ body[5] = v[2] /\ body[6] = size
  <2>1. body[3+1] = t[1] /\ body[3+2] = t[2] /\ body[3+3] = t[3]
    BY <1>8, <1>9
  <2> QED
    BY <1>4, <1>8, <2>1
<1>12. HeardIs(tekon_req_pack(m, n), n, m.gateway, HeardBody(25, body))
  <2>1. Len(body) <= 252
    BY <1>8, <1>9
  <2>2. HeardIs(Variable(Inner(n, m.gateway, 25, body)), n, m.gateway, HeardBody(25, body))
    BY <1>9, <2>1, Codes, VariableIsHeard
  <2> QED
    BY <1>2, <1>10, <2>2
<1>13. HeardBody(25, body) = m.elems
  <2>1. body[1] = dev /\ FromU16(body[2], body[3]) = par
    BY <1>9 DEF IsParameter
  <2>2. FromU16(body[4], body[5]) = idx
    BY <1>6, <1>11
  <2>3. HeardBody(25, body) = Consecutive(dev, par, idx, size)
    BY <1>11, <2>1, <2>2 DEF HeardBody, Consecutive
  <2> QED
    BY <1>1, <2>3
<1> QED
  BY <1>12, <1>13

\* A list of 1 to 40 elements.
IsList(m) ==
  m.type = "1C" /\ m.elems \in Seq(Elements) /\ Len(m.elems) >= 1 /\ Len(m.elems) <= 40

\* Function 0x1C: a list of elements.
LEMMA ListIsHeard ==
  ASSUME NEW m, m.gateway \in Byte, IsList(m), NEW n \in 0..15
  PROVE  HeardIs(tekon_req_pack(m, n), n, m.gateway, m.elems)
<1> DEFINE elems == m.elems
           k == Len(elems)
           seqs == [i \in 1..k |-> ListElement(elems[i])]
           body == FlattenSeq(seqs)
           h == Header(m, n, 28)
<1>1. /\ elems \in Seq(Elements) /\ k \in Nat /\ k >= 1 /\ k <= 40
      /\ \A i \in 1..k : elems[i] \in Elements
  BY DEF IsList
<1>2. tekon_req_pack(m, n) = Variable(h \o body)
  <2>1. tekon_req_pack(m, n) = pack_readem_list_1C(m, n)
    <3>1. ~(n > 15)
      OBVIOUS
    <3> QED
      BY <3>1 DEF tekon_req_pack, IsList
  <2>2. Len(m.elems) <= PLIST /\ DOMAIN m.elems = 1..k
    BY <1>1 DEF PLIST
  <2> HIDE DEF k
  <2>3. pack_readem_list_1C(m, n) = Variable(h \o body)
    BY <2>2 DEF pack_readem_list_1C
  <2> QED
    BY <2>1, <2>3
<1>3. \A i \in 1..k : IsElement(ListElement(elems[i]), elems[i])
  BY <1>1, ElementIsWritten
<1>4. h \in Seq(Byte) /\ \A b \in Seq(Byte) : h \o b = Inner(n, m.gateway, 28, b)
  BY Codes, HeaderBytes
<1> HIDE DEF elems, k, body, h
<1>5. seqs \in Seq(Seq(Byte)) /\ Len(seqs) = k
      /\ \A i \in 1..k : seqs[i] = ListElement(elems[i])
  <2>1. \A i \in 1..k : ListElement(elems[i]) \in Seq(Byte)
    BY <1>3 DEF IsElement
  <2> QED
    BY <1>1, <2>1
<1> HIDE DEF seqs
<1>6. \A i \in 1..k : IsElement(seqs[i], elems[i])
  BY <1>3, <1>5
<1>7. Blocks(Byte, 6, seqs)
  BY <1>5, <1>6 DEF Blocks, IsElement
<1>8. JoinedTo(body, Byte, 6, seqs, k)
  <2> DEFINE six == 6
  <2>1. six \in Nat \ {0}
    OBVIOUS
  <2> HIDE DEF six
  <2>2. JoinedTo(FlattenSeq(seqs), Byte, six, seqs, Len(seqs))
    BY <1>7, <2>1, Flattened DEF six
  <2> QED
    BY <1>5, <2>2 DEF body, six
<1>9. body \in Seq(Byte) /\ Len(body) = 6 * k
      /\ \A i \in 1..k, j \in 1..6 : body[6 * (i-1) + j] = seqs[i][j]
  BY <1>8 DEF JoinedTo
<1>10. HeardIs(tekon_req_pack(m, n), n, m.gateway, HeardBody(28, body))
  <2>1. Len(body) <= 252
    BY <1>1, <1>9
  <2>2. HeardIs(Variable(Inner(n, m.gateway, 28, body)), n, m.gateway, HeardBody(28, body))
    BY <1>9, <2>1, Codes, VariableIsHeard
  <2>3. h \o body = Inner(n, m.gateway, 28, body)
    BY <1>4, <1>9
  <2> QED
    BY <1>2, <2>2, <2>3
<1>11. HeardBody(28, body) = elems
  <2>1. Len(body) \div 6 = k
    BY <1>1, <1>9
  <2> DEFINE got1 == [i \in 1..k |-> FromElement(SubSeq(body, 6 * i - 5, 6 * i))]
  <2>2. HeardBody(28, body) = got1
    BY <2>1 DEF HeardBody
  <2>3. ASSUME NEW i \in 1..k
        PROVE  FromElement(SubSeq(body, 6 * i - 5, 6 * i)) = elems[i]
    <3> DEFINE a == 6 * i - 5
               b == 6 * i
               p == seqs[i]
    <3>1. p \in Seq(Byte) /\ Len(p) = 6 /\ FromElement(p) = elems[i]
      BY <1>6 DEF IsElement
    <3>2. a \in Nat /\ b \in Nat /\ 1 <= a /\ a <= b + 1 /\ b <= Len(body) /\ b - a + 1 = 6
          /\ a - 1 = 6 * (i - 1)
      BY <1>1, <1>9
    <3>5. Len(p) = b - a + 1
      BY <3>1, <3>2
    <3>3. \A j \in 1..Len(p) : body[a - 1 + j] = p[j]
      <4> HIDE DEF a, b, p
      <4> QED
        BY <1>9, <3>1, <3>2 DEF p
    <3> HIDE DEF a, b, p
    <3>4. SubSeq(body, a, b) = p
      BY <1>9, <3>1, <3>2, <3>3, <3>5, SamePart
    <3> QED
      BY <3>1, <3>4 DEF a, b
  <2>4. got1 = [i \in 1..k |-> elems[i]]
    BY <2>3
  <2>5. elems = [i \in 1..k |-> elems[i]]
    BY <1>1 DEF k
  <2> QED
    BY <2>2, <2>4, <2>5
<1> QED
  BY <1>10, <1>11 DEF elems

\* The messages that read_args lets the tools make, and the library's callers.
WellFormed(m) == m.gateway \in 1..255 /\ (IsOne(m) \/ IsWrite(m) \/ IsRun(m) \/ IsList(m))

\* A request that is packed is heard as it was meant: its number, its gateway and
\* every element, whichever function it uses (tekon_req_pack).
THEOREM RequestIsHeard ==
  ASSUME NEW m, WellFormed(m), NEW n \in 0..15
  PROVE  HeardIs(tekon_req_pack(m, n), n, m.gateway, m.elems)
<1>1. m.gateway \in Byte
  BY DEF WellFormed, Byte
<1> QED
  BY <1>1, OneIsHeard, WriteIsHeard, RunIsHeard, ListIsHeard DEF WellFormed

-----------------------------------------------------------------------------
(* Replies                                                                 *)

\* f is, or begins with, a reply with this number, gateway and data.
Carries(f, n, gateway, data) ==
  /\ f \in Seq(Byte)
  /\ Len(f) >= Len(data) + 8
  /\ f[1] = VAR /\ f[2] = Len(data) + 2 /\ f[3] = Len(data) + 2 /\ f[4] = VAR
  /\ f[5] = n /\ f[6] = gateway
  /\ \A i \in 1..Len(data) : f[6 + i] = data[i]
  /\ f[Len(data) + 7] = Crc(SubSeq(f, 5, Len(data) + 6))
  /\ f[Len(data) + 8] = END

\* A sequence of two bytes.
LEMMA TwoBytes ==
  ASSUME NEW a \in Byte, NEW b \in Byte
  PROVE  <<a, b>> \in Seq(Byte) /\ Len(<<a, b>>) = 2 /\ <<a, b>>[1] = a /\ <<a, b>>[2] = b
  OBVIOUS

\* The device's frames are replies.
LEMMA ReplyCarries ==
  ASSUME NEW n \in Byte, NEW gateway \in Byte, NEW data \in Seq(Byte), Len(data) <= 253
  PROVE  /\ Carries(ReplyFrame(n, gateway, data), n, gateway, data)
         /\ Len(ReplyFrame(n, gateway, data)) = Len(data) + 8
<1> DEFINE h == <<n, gateway>>
           inner == h \o data
           f == Variable(inner)
           k == Len(data)
<1>1. h \in Seq(Byte) /\ Len(h) = 2 /\ h[1] = n /\ h[2] = gateway
  BY TwoBytes
<1>2. k \in Nat /\ k <= 253
  OBVIOUS
<1> HIDE DEF h
<1>3. inner \in Seq(Byte) /\ IsJoin(inner, h, data)
  BY <1>1, Join
<1> HIDE DEF inner, k
<1>4. /\ Len(inner) = 2 + k
      /\ inner[1] = n /\ inner[2] = gateway
      /\ \A i \in 1..k : inner[2 + i] = data[i]
  BY <1>1, <1>3 DEF IsJoin, k
<1>5. Len(inner) >= 1 /\ Len(inner) <= 255
  BY <1>2, <1>4
<1>6. f \in Seq(Byte) /\ FramedAs(f, inner)
  BY <1>3, <1>5, VariableFrame
<1> HIDE DEF f
<1>7. /\ Len(f) = k + 8
      /\ f[1] = VAR /\ f[2] = k + 2 /\ f[3] = k + 2 /\ f[4] = VAR
      /\ f[k + 7] = Crc(inner)
      /\ f[k + 8] = END
      /\ SubSeq(f, 5, k + 6) = inner
  <2>1. Len(inner) + 6 = k + 8 /\ Len(inner) + 5 = k + 7 /\ 4 + Len(inner) = k + 6
        /\ Len(inner) = k + 2
    BY <1>2, <1>4
  <2> QED
    BY <1>6, <2>1 DEF FramedAs
<1>8. \A i \in 1 .. k + 2 : f[4 + i] = inner[i]
  <2>1. Len(inner) = k + 2
    BY <1>2, <1>4
  <2> QED
    BY <1>6, <2>1 DEF FramedAs
<1>9. f[5] = n /\ f[6] = gateway
  <2>1. 1 \in 1 .. k+2 /\ 2 \in 1 .. k+2 /\ 4 + 1 = 5 /\ 4 + 2 = 6
    BY <1>2
  <2>2. f[4+1] = inner[1] /\ f[4+2] = inner[2]
    BY <1>8, <2>1
  <2> QED
    BY <1>4, <2>1, <2>2
<1>10. ASSUME NEW i \in 1..k
       PROVE  f[6 + i] = data[i]
  <2>1. 2 + i \in 1 .. k+2 /\ 4 + (2 + i) = 6 + i
    BY <1>2
  <2>2. f[4 + (2 + i)] = inner[2 + i]
    BY <1>8, <2>1
  <2> QED
    BY <1>4, <2>1, <2>2
<1>11. Len(f) >= k + 8
  BY <1>2, <1>7
<1>12. Carries(f, n, gateway, data)
  BY <1>6, <1>7, <1>9, <1>10, <1>11 DEF Carries, k
<1>13. f = ReplyFrame(n, gateway, data)
  BY DEF ReplyFrame, f, inner, h
<1> QED
  BY <1>7, <1>12, <1>13 DEF k

\* f begins with s.
Begins(f, s) == f \in Seq(Byte) /\ Len(f) >= Len(s) /\ \A i \in 1..Len(s) : f[i] = s[i]

\* Bytes behind a reply change nothing of it.
LEMMA LongCarries ==
  ASSUME NEW n, NEW gateway, NEW data \in Seq(Byte), NEW s, Carries(s, n, gateway, data),
         Len(s) = Len(data) + 8, NEW f, Begins(f, s)
  PROVE  Carries(f, n, gateway, data)
<1> DEFINE k == Len(data)
<1>1. k \in Nat /\ f \in Seq(Byte) /\ s \in Seq(Byte) /\ Len(f) >= k + 8
  BY DEF Begins, Carries
<1>2. \A i \in 1 .. k+8 : f[i] = s[i]
  BY DEF Begins
<1>3. SubSeq(f, 5, k + 6) = SubSeq(s, 5, k + 6)
  <2> DEFINE p == SubSeq(s, 5, k + 6)
  <2>1. 5 \in 1 .. Len(s) + 1 /\ k + 6 \in 5-1 .. Len(s) /\ (k + 6) - 5 + 1 = k + 2
        /\ 5 <= (k + 6) + 1 /\ k + 6 <= Len(f) /\ k + 6 \in Nat
    BY <1>1
  <2>2. p \in Seq(Byte) /\ IsPart(p, s, 5, k + 6)
    BY <1>1, <2>1, Part
  <2> HIDE DEF p, k
  <2>3. Len(p) = (k + 6) - 5 + 1 /\ Len(p) = k + 2 /\ \A i \in 1 .. k+2 : p[i] = s[i + 5 - 1]
    BY <2>1, <2>2 DEF IsPart
  <2>4. \A i \in 1..Len(p) : f[5 - 1 + i] = p[i]
    <3>1. ASSUME NEW i \in 1 .. k+2
          PROVE  f[5 - 1 + i] = p[i]
      <4>1. 5 - 1 + i \in 1 .. k+8 /\ i + 5 - 1 = 5 - 1 + i
        BY <1>1
      <4> QED
        BY <1>2, <2>3, <4>1
    <3> QED
      BY <2>3, <3>1
  <2>5. SubSeq(f, 5, k + 6) = p
    BY <1>1, <2>1, <2>2, <2>3, <2>4, SamePart
  <2> QED
    BY <2>5 DEF p
<1> HIDE DEF k
<1>4. f[1] = s[1] /\ f[2] = s[2] /\ f[3] = s[3] /\ f[4] = s[4] /\ f[5] = s[5] /\ f[6] = s[6]
      /\ f[k + 7] = s[k + 7] /\ f[k + 8] = s[k + 8]
  BY <1>1, <1>2
<1>5. \A i \in 1..k : f[6 + i] = s[6 + i]
  BY <1>1, <1>2
<1> QED
  BY <1>1, <1>3, <1>4, <1>5 DEF Carries, k

Types == {"11", "14", "19", "1C"}

\* The first byte tells frames and receipts apart.
LEMMA FirstBytes == VAR # FIX /\ VAR \notin {ACK, NAK} /\ FIX \notin {ACK, NAK} /\ ACK # NAK
  BY DEF VAR, FIX, ACK, NAK

\* validate on a frame of variable length.
LEMMA ValidateVariable ==
  ASSUME NEW f, f[1] = VAR
  PROVE  validate(f) <=> /\ Len(f) >= 9 /\ Len(f) >= f[2] + 6
                         /\ f[2] = f[3] /\ f[2] > 2
                         /\ Crc(SubSeq(f, 5, f[2] + 4)) = f[f[2] + 5]
                         /\ f[f[2] + 6] = END
  BY FirstBytes DEF validate, SumIs

\* A reply is valid.
LEMMA CarriesValid ==
  ASSUME NEW f, NEW n, NEW gateway, NEW data \in Seq(Byte), Len(data) >= 1,
         Carries(f, n, gateway, data)
  PROVE  validate(f) /\ f # << >> /\ f[1] \notin {ACK, NAK}
<1> DEFINE k == Len(data)
<1>1. k \in Nat /\ k >= 1
  OBVIOUS
<1>2. /\ Len(f) >= k + 8 /\ Len(f) \in Nat
      /\ f[1] = VAR /\ f[2] = k + 2 /\ f[3] = k + 2
      /\ f[k + 7] = Crc(SubSeq(f, 5, k + 6)) /\ f[k + 8] = END
  BY DEF Carries
<1> HIDE DEF k
<1>3. /\ Len(f) >= 9 /\ Len(f) >= f[2] + 6 /\ f[2] = f[3] /\ f[2] > 2
      /\ f[2] + 4 = k + 6 /\ f[2] + 5 = k + 7 /\ f[2] + 6 = k + 8
  BY <1>1, <1>2
<1>4. validate(f)
  BY <1>2, <1>3, ValidateVariable
<1>5. Len(f) # 0
  BY <1>1, <1>2
<1> QED
  BY <1>2, <1>4, <1>5, NotEmpty, FirstBytes

\* What is not valid is refused.
LEMMA InvalidIsRefused ==
  ASSUME NEW f, NEW t, ~validate(f)
  PROVE  tekon_resp_unpack(f, t) = Refused
  BY DEF tekon_resp_unpack

\* No message is read from what does not begin like a frame of variable length.
LEMMA OthersAreRefused ==
  ASSUME NEW f, NEW t \in Types, ~(f[1] = VAR /\ f[4] = VAR)
  PROVE  unpack_readem(f, t) = Refused
<1>1. \A n : ~IsVariable(f, n)
  BY DEF IsVariable
<1>2. /\ unpack_readem_11(f) = Refused /\ unpack_readem_14(f) = Refused
      /\ unpack_readem_19(f) = Refused /\ unpack_readem_list_1C(f) = Refused
  BY <1>1 DEF unpack_readem_11, unpack_readem_14, unpack_readem_19, unpack_readem_list_1C
<1> QED
  BY <1>2 DEF unpack_readem, Types

\* A reply whose first byte was changed is refused, or taken for a receipt.
LEMMA FirstByteChanged ==
  ASSUME NEW f, NEW t \in Types, f[1] # VAR
  PROVE  tekon_resp_unpack(f, t) = Refused \/ tekon_resp_unpack(f, t) = Confirmation(f)
<1>1. unpack_readem(f, t) = Refused
  BY OthersAreRefused
<1> QED
  BY <1>1 DEF tekon_resp_unpack

\* A reply with any other byte changed is refused.
LEMMA OtherByteChanged ==
  ASSUME NEW s, NEW n, NEW gateway, NEW data \in Seq(Byte), Carries(s, n, gateway, data),
         Len(s) = Len(data) + 8, NEW i \in 2 .. Len(s),
         NEW f \in Seq(Byte), DifferAt(s, f, i), NEW t \in Types
  PROVE  tekon_resp_unpack(f, t) = Refused
<1> DEFINE k == Len(data)
<1>1. k \in Nat /\ s \in Seq(Byte) /\ Len(s) = k + 8 /\ Len(f) = k + 8 /\ i \in 2 .. k+8
  BY DEF Carries, DifferAt
<1>2. /\ s[1] = VAR /\ s[2] = k + 2 /\ s[3] = k + 2 /\ s[4] = VAR
      /\ s[k + 7] = Crc(SubSeq(s, 5, k + 6))
      /\ s[k + 8] = END
  BY DEF Carries
<1>3. s[i] # f[i] /\ \A j \in 1 .. k+8 : j # i => s[j] = f[j]
  BY DEF DifferAt
<1> HIDE DEF k
<1>4. f[1] = VAR
  BY <1>1, <1>2, <1>3
<1>5. CASE i = 2 \/ i = 3
  <2>1. f[2] # f[3]
    BY <1>1, <1>2, <1>3, <1>5
  <2>2. ~validate(f)
    BY <1>4, <2>1, ValidateVariable
  <2> QED
    BY <2>2, InvalidIsRefused
<1>6. CASE i = 4
  <2>1. f[4] # VAR
    BY <1>1, <1>2, <1>3, <1>6
  <2>2. unpack_readem(f, t) = Refused
    BY <2>1, OthersAreRefused
  <2>3. f[1] \notin {ACK, NAK}
    BY <1>4, FirstBytes
  <2> QED
    BY <2>2, <2>3 DEF tekon_resp_unpack
<1>7. CASE i \in 5 .. k+8
  <2>1. f[2] = k + 2
    BY <1>1, <1>2, <1>3, <1>7
  <2>2. f[2] + 4 = k + 6 /\ f[2] + 5 = k + 7 /\ f[2] + 6 = k + 8
    BY <1>1, <2>1
  <2>3. ~(Crc(SubSeq(f, 5, k + 6)) = f[k + 7] /\ f[k + 8] = END)
    <3> DEFINE p == SubSeq(s, 5, k + 6)
               q == SubSeq(f, 5, k + 6)
    <3>1. 5 \in 1 .. Len(s) + 1 /\ k + 6 \in 5-1 .. Len(s) /\ (k + 6) - 5 + 1 = k + 2
          /\ 5 \in 1 .. Len(f) + 1 /\ k + 6 \in 5-1 .. Len(f)
      BY <1>1
    <3>2. p \in Seq(Byte) /\ IsPart(p, s, 5, k + 6) /\ q \in Seq(Byte) /\ IsPart(q, f, 5, k + 6)
      BY <1>1, <3>1, Part
    <3> HIDE DEF p, q
    <3>3. /\ Len(p) = k + 2 /\ Len(q) = k + 2
          /\ \A j \in 1 .. k+2 : p[j] = s[j + 5 - 1] /\ q[j] = f[j + 5 - 1]
      BY <3>1, <3>2 DEF IsPart
    <3>8. \A j \in 1 .. k+2 : p[j] = s[j + 4] /\ q[j] = f[j + 4]
      <4>1. \A j \in 1 .. k+2 : j + 5 - 1 = j + 4
        BY <1>1
      <4> QED
        BY <3>3, <4>1
    <3>4. \A j \in 1 .. k+2 : j + 5 - 1 = j + 4 /\ j + 4 \in 1 .. k+8
      BY <1>1
    <3>5. CASE i \in 5 .. k+6
      <4> DEFINE x == i - 4
      <4>1. x \in 1 .. k+2 /\ x + 4 = i /\ \A j \in 1 .. k+2 : j # x => j + 4 # i
        BY <1>1, <3>5
      <4> HIDE DEF x
      <4>2. p[x] # q[x]
        BY <1>3, <3>8, <4>1
      <4>6. \A j \in 1 .. k+2 : j # x => p[j] = q[j]
        BY <1>3, <3>4, <3>8, <4>1
      <4>3. DifferAt(p, q, x) /\ x \in 1..Len(p)
        BY <3>3, <4>1, <4>2, <4>6 DEF DifferAt
      <4>4. Crc(p) # Crc(q)
        BY <3>2, <4>3, CrcSeesOneByte
      <4>5. s[k + 7] = f[k + 7]
        BY <1>1, <1>3, <3>5
      <4> QED
        BY <1>2, <4>4, <4>5 DEF p, q
    <3>6. CASE i = k + 7
      <4>1. p = q
        <5>1. \A j \in 1 .. k+2 : j + 4 # i
          BY <1>1, <3>6
        <5>2. \A j \in 1 .. k+2 : p[j] = q[j]
          BY <1>3, <3>4, <3>8, <5>1
        <5>3. Len(p) = Len(q) /\ \A j \in 1..Len(p) : p[j] = q[j]
          BY <3>3, <5>2
        <5> QED
          BY <3>2, <5>3, SameSequence
      <4>2. f[k + 7] # s[k + 7]
        BY <1>3, <3>6
      <4> QED
        BY <1>2, <4>1, <4>2 DEF p, q
    <3>7. CASE i = k + 8
      BY <1>2, <1>3, <3>7
    <3> QED
      BY <1>1, <1>7, <3>5, <3>6, <3>7
  <2>4. ~validate(f)
    BY <1>4, <2>2, <2>3, ValidateVariable
  <2> QED
    BY <2>4, InvalidIsRefused
<1> QED
  BY <1>1, <1>5, <1>6, <1>7

\* A reply whose end was cut off is refused.
LEMMA CutIsRefused ==
  ASSUME NEW s, NEW n, NEW gateway, NEW data \in Seq(Byte), Carries(s, n, gateway, data),
         Len(s) = Len(data) + 8, NEW m \in 1 .. Len(s) - 1, NEW t \in Types
  PROVE  tekon_resp_unpack(SubSeq(s, 1, m), t) = Refused
<1> DEFINE k == Len(data)
           f == SubSeq(s, 1, m)
<1>1. k \in Nat /\ s \in Seq(Byte) /\ Len(s) = k + 8 /\ m \in 1 .. k+7
  BY DEF Carries
<1>2. s[1] = VAR /\ s[2] = k + 2
  BY DEF Carries
<1> HIDE DEF k
<1>3. 1 \in 1 .. Len(s) + 1 /\ m \in 1-1 .. Len(s) /\ m - 1 + 1 = m
  BY <1>1
<1>4. f \in Seq(Byte) /\ IsPart(f, s, 1, m)
  BY <1>1, <1>3, Part
<1> HIDE DEF f
<1>5. Len(f) = m /\ \A i \in 1..m : f[i] = s[i + 1 - 1]
  BY <1>3, <1>4 DEF IsPart
<1>6. f[1] = VAR
  <2>1. 1 \in 1..m /\ 1 + 1 - 1 = 1
    BY <1>1
  <2> QED
    BY <1>2, <1>5, <2>1
<1>7. ~validate(f)
  <2>1. CASE m < 9
    <3>1. ~(Len(f) >= 9)
      BY <1>1, <1>5, <2>1
    <3> QED
      BY <1>6, <3>1, ValidateVariable
  <2>2. CASE m >= 9
    <3>1. 2 \in 1..m /\ 2 + 1 - 1 = 2
      BY <1>1, <2>2
    <3>2. f[2] = k + 2
      BY <1>2, <1>5, <3>1
    <3>3. ~(Len(f) >= f[2] + 6)
      BY <1>1, <1>5, <3>2
    <3> QED
      BY <1>6, <3>3, ValidateVariable
  <2> QED
    BY <1>1, <2>1, <2>2
<1>8. tekon_resp_unpack(f, t) = Refused
  BY <1>7, InvalidIsRefused
<1> QED
  BY <1>8 DEF f

\* A reply that was damaged on its way is never read as another reply: one that is
\* cut off or has a byte changed behind its first is refused, and one whose first
\* byte is changed is refused or taken for a receipt (tekon_resp_unpack).
THEOREM DamageIsNoticed ==
  ASSUME NEW s, NEW n, NEW gateway, NEW data \in Seq(Byte), Carries(s, n, gateway, data),
         Len(s) = Len(data) + 8, NEW t \in Types
  PROVE  /\ \A m \in 1 .. Len(s) - 1 : tekon_resp_unpack(SubSeq(s, 1, m), t) = Refused
         /\ \A f \in Seq(Byte), i \in 2 .. Len(s) :
              DifferAt(s, f, i) => tekon_resp_unpack(f, t) = Refused
         /\ \A f \in Seq(Byte) :
              DifferAt(s, f, 1) => tekon_resp_unpack(f, t) \in {Refused, Confirmation(f)}
<1>1. ASSUME NEW m \in 1 .. Len(s) - 1
      PROVE  tekon_resp_unpack(SubSeq(s, 1, m), t) = Refused
  BY <1>1, CutIsRefused
<1>2. ASSUME NEW f \in Seq(Byte), NEW i \in 2 .. Len(s), DifferAt(s, f, i)
      PROVE  tekon_resp_unpack(f, t) = Refused
  BY <1>2, OtherByteChanged
<1>3. ASSUME NEW f \in Seq(Byte), DifferAt(s, f, 1)
      PROVE  tekon_resp_unpack(f, t) \in {Refused, Confirmation(f)}
  <2>1. s[1] = VAR /\ f[1] # s[1]
    BY <1>3 DEF Carries, DifferAt
  <2> QED
    BY <2>1, FirstByteChanged
<1> QED
  BY <1>1, <1>2, <1>3

\* r is a reply that was unpacked.
Result(r, n, type, elems) == r.ret > 0 /\ r.number = n /\ r.type = type /\ r.elems = elems

\* The fields of an unpacked reply.
LEMMA ReplyFields ==
  ASSUME NEW f, NEW ret, NEW type, NEW elems, NEW filled
  PROVE  LET r == Reply(f, ret, type, elems, filled) IN
         /\ r.ret = ret /\ r.number = f[5] % 16 /\ r.type = type /\ r.elems = elems
         /\ r.filled = filled
  BY DEF Reply

\* A number is kept in its four bits.
LEMMA SmallNumber ==
  ASSUME NEW n \in 0..15
  PROVE  n % 16 = n
  OBVIOUS

\* The parts of one size that a reply is cut into are those it was made of.
LEMMA SlicesAreBlocks ==
  ASSUME NEW f, NEW n, NEW gateway, NEW data \in Seq(Byte), Carries(f, n, gateway, data),
         NEW size \in Nat \ {0}, NEW seqs, Blocks(Byte, size, seqs),
         JoinedTo(data, Byte, size, seqs, Len(seqs))
  PROVE  Slices(f, 7, size, Len(seqs)) = seqs
<1> DEFINE k == Len(seqs)
<1>1. /\ seqs \in Seq(Seq(Byte)) /\ k \in Nat
      /\ \A i \in 1..k : seqs[i] \in Seq(Byte) /\ Len(seqs[i]) = size
  BY DEF Blocks
<1>2. /\ Len(data) = size * k
      /\ \A i \in 1..k, j \in 1..size : data[size * (i-1) + j] = seqs[i][j]
  BY DEF JoinedTo
<1>3. /\ f \in Seq(Byte) /\ Len(f) >= Len(data) + 8
      /\ \A i \in 1..Len(data) : f[6 + i] = data[i]
  BY DEF Carries
<1>4. seqs = [i \in 1..k |-> seqs[i]]
  BY <1>1
<1> HIDE DEF k
<1>5. ASSUME NEW i \in 1..k
      PROVE  SubSeq(f, 7 + (i-1) * size, 7 + i * size - 1) = seqs[i]
  <2> DEFINE x == size * (i-1)
             a == 7 + (i-1) * size
             b == 7 + i * size - 1
             p == seqs[i]
  <2>1. x \in Nat /\ a = 7 + x /\ b = 6 + x + size
    BY <1>1
  <2>2. x + size <= size * k
    <3>1. size \in 1..size
      OBVIOUS
    <3>2. size * (i-1) + size \in 1 .. size * k
      BY <1>1, <3>1, InBlock
    <3> QED
      BY <3>2
  <2>3. \A j \in 1..size : x + j \in 1 .. size * k
    <3>1. \A j \in 1..size : size * (i-1) + j \in 1 .. size * k
      BY <1>1, InBlock
    <3> QED
      BY <3>1
  <2>4. p \in Seq(Byte) /\ Len(p) = size /\ \A j \in 1..size : data[x + j] = p[j]
    BY <1>1, <1>2
  <2> HIDE DEF x, a, b, p
  <2> DEFINE y == size * k
  <2>5. y \in Nat /\ Len(data) = y /\ x + size <= y /\ \A j \in 1..size : x + j \in 1..y
    BY <1>1, <1>2, <2>2, <2>3
  <2> HIDE DEF y
  <2>6. a \in Nat /\ b \in Nat /\ 1 <= a /\ a <= b + 1 /\ b <= Len(f) /\ Len(p) = b - a + 1
    BY <1>3, <2>1, <2>4, <2>5
  <2>7. \A j \in 1..Len(p) : f[a - 1 + j] = p[j]
    <3>1. ASSUME NEW j \in 1..size
          PROVE  f[a - 1 + j] = p[j]
      <4>1. a - 1 + j = 6 + (x + j) /\ x + j \in 1..Len(data)
        BY <2>1, <2>5
      <4>2. f[6 + (x + j)] = data[x + j]
        BY <1>3, <4>1
      <4> QED
        BY <2>4, <4>1, <4>2
    <3> QED
      BY <2>4, <3>1
  <2>8. SubSeq(f, a, b) = p
    BY <1>3, <2>4, <2>6, <2>7, SamePart
  <2> QED
    BY <2>8 DEF a, b, p
<1>6. Slices(f, 7, size, k) = [i \in 1..k |-> seqs[i]]
  BY <1>5 DEF Slices
<1> QED
  BY <1>4, <1>6 DEF k

\* tekon_resp_unpack on a reply.
LEMMA ReplyIsRead ==
  ASSUME NEW f, NEW n, NEW gateway, NEW data \in Seq(Byte), Len(data) >= 1,
         Carries(f, n, gateway, data), NEW t
  PROVE  tekon_resp_unpack(f, t) = unpack_readem(f, t)
  BY CarriesValid DEF tekon_resp_unpack

\* The readers' test of a frame's length.
LEMMA HasVariable ==
  ASSUME NEW f, NEW n, NEW gateway, NEW data \in Seq(Byte), Carries(f, n, gateway, data), NEW least
  PROVE  IsVariable(f, least) <=> Len(data) + 2 >= least
  BY DEF Carries, IsVariable

\* The elements of a list.
Qualified(seqs) ==
  [i \in 1..Len(seqs) |-> [value |-> SubSeq(seqs[i], 1, 4), qual |-> seqs[i][5]]]

\* Function 0x1C: values with their quality.
LEMMA ListIsRead ==
  ASSUME NEW f, NEW n \in 0..15, NEW gateway, NEW data \in Seq(Byte), Carries(f, n, gateway, data),
         NEW seqs, Blocks(Byte, 5, seqs), JoinedTo(data, Byte, 5, seqs, Len(seqs)),
         Len(seqs) >= 1, Len(seqs) <= 40
  PROVE  /\ Result(tekon_resp_unpack(f, "1C"), n, "1C", Qualified(seqs))
         /\ tekon_resp_unpack(f, "1C").filled <=> gateway # 0
<1> DEFINE k == Len(seqs)
           five == 5
           values == Slices(f, 7, 5, k)
           elems == [i \in 1..k |-> [value |-> SubSeq(values[i], 1, 4), qual |-> values[i][5]]]
           filled == f[6] # 0 /\ k <= PLIST
           r == Reply(f, f[2] + 6, "1C", elems, filled)
<1>1. k \in Nat /\ k >= 1 /\ k <= 40
  BY DEF Blocks
<1>2. values = seqs
  <2>1. five \in Nat \ {0}
    OBVIOUS
  <2> HIDE DEF five
  <2>2. Slices(f, 7, five, k) = seqs
    BY <2>1, SlicesAreBlocks DEF five
  <2> QED
    BY <2>2 DEF five
<1>3. Len(data) = 5 * k
  BY DEF JoinedTo
<1>4. f[2] = Len(data) + 2 /\ f[5] = n /\ f[6] = gateway
  BY DEF Carries
<1> HIDE DEF k, values, elems, filled, r, five
<1>5. f[2] = 5 * k + 2 /\ (f[2] - 2) \div 5 = k /\ (f[2] - 2) % 5 = 0 /\ f[2] + 6 > 0
      /\ Len(data) >= 1 /\ Len(data) + 2 >= OneElement
  BY <1>1, <1>3, <1>4 DEF OneElement
<1>6. IsVariable(f, OneElement)
  BY <1>5, HasVariable
<1>7. unpack_readem_list_1C(f) = r
  BY <1>5, <1>6 DEF unpack_readem_list_1C, r, elems, values, filled
<1>8. tekon_resp_unpack(f, "1C") = r
  <2>1. tekon_resp_unpack(f, "1C") = unpack_readem(f, "1C")
    BY <1>5, ReplyIsRead
  <2>2. unpack_readem(f, "1C") = unpack_readem_list_1C(f)
    BY DEF unpack_readem
  <2> QED
    BY <1>7, <2>1, <2>2
<1>9. r.ret = f[2] + 6 /\ r.number = f[5] % 16 /\ r.type = "1C" /\ r.elems = elems
      /\ r.filled = filled
  BY ReplyFields DEF r
<1>10. r.ret > 0 /\ r.number = n
  BY <1>4, <1>5, <1>9, SmallNumber
<1>11. elems = Qualified(seqs)
  BY <1>2 DEF elems, Qualified, k
<1>12. Result(r, n, "1C", Qualified(seqs))
  BY <1>9, <1>10, <1>11 DEF Result
<1>13. r.filled <=> gateway # 0
  <2>1. filled <=> gateway # 0
    BY <1>1, <1>4 DEF filled, PLIST
  <2> QED
    BY <1>9, <2>1
<1> QED
  BY <1>8, <1>12, <1>13

\* The elements of consecutive indexes, without a mark of their quality.
Unqualified(seqs) == [i \in 1..Len(seqs) |-> [value |-> seqs[i], qual |-> 0]]

\* Function 0x19: values without; a single one is refused.
LEMMA RunIsRead ==
  ASSUME NEW f, NEW n \in 0..15, NEW gateway, NEW data \in Seq(Byte), Carries(f, n, gateway, data),
         NEW seqs, Blocks(Byte, 4, seqs), JoinedTo(data, Byte, 4, seqs, Len(seqs)),
         Len(seqs) >= 1, Len(seqs) <= 60
  PROVE  /\ Len(seqs) = 1 => tekon_resp_unpack(f, "19") = Refused
         /\ Len(seqs) >= 2 =>
              /\ Result(tekon_resp_unpack(f, "19"), n, "19", Unqualified(seqs))
              /\ tekon_resp_unpack(f, "19").filled <=> gateway # 0
<1> DEFINE k == Len(seqs)
           four == 4
           values == Slices(f, 7, 4, k)
           elems == [i \in 1..k |-> [value |-> values[i], qual |-> 0]]
           filled == f[6] # 0 /\ k <= ILIST
           r == Reply(f, f[2] + 6, "19", elems, filled)
<1>1. k \in Nat /\ k >= 1 /\ k <= 60
  BY DEF Blocks
<1>2. values = seqs
  <2>1. four \in Nat \ {0}
    OBVIOUS
  <2> HIDE DEF four
  <2>2. Slices(f, 7, four, k) = seqs
    BY <2>1, SlicesAreBlocks DEF four
  <2> QED
    BY <2>2 DEF four
<1>3. Len(data) = 4 * k
  BY DEF JoinedTo
<1>4. f[2] = Len(data) + 2 /\ f[5] = n /\ f[6] = gateway
  BY DEF Carries
<1> HIDE DEF k, values, elems, filled, r, four
<1>5. f[2] = 4 * k + 2 /\ (f[2] - 2) \div 4 = k /\ (f[2] - 2) % 4 = 0 /\ f[2] + 6 > 0
      /\ Len(data) >= 1
  BY <1>1, <1>3, <1>4
<1>6. tekon_resp_unpack(f, "19") = unpack_readem_19(f)
  <2>1. tekon_resp_unpack(f, "19") = unpack_readem(f, "19")
    BY <1>5, ReplyIsRead
  <2>2. unpack_readem(f, "19") = unpack_readem_19(f)
    BY DEF unpack_readem
  <2> QED
    BY <2>1, <2>2
<1>7. ASSUME k = 1
      PROVE  tekon_resp_unpack(f, "19") = Refused
  <2>1. ~(Len(data) + 2 >= 8)
    BY <1>3, <1>7
  <2>2. ~IsVariable(f, 8)
    BY <2>1, HasVariable
  <2> QED
    BY <1>6, <2>2 DEF unpack_readem_19
<1>8. ASSUME k >= 2
      PROVE  /\ Result(tekon_resp_unpack(f, "19"), n, "19", Unqualified(seqs))
             /\ tekon_resp_unpack(f, "19").filled <=> gateway # 0
  <2>1. Len(data) + 2 >= 8
    BY <1>1, <1>3, <1>8
  <2>2. IsVariable(f, 8)
    BY <2>1, HasVariable
  <2>3. unpack_readem_19(f) = r
    BY <1>5, <2>2 DEF unpack_readem_19, r, elems, values, filled
  <2>4. r.ret = f[2] + 6 /\ r.number = f[5] % 16 /\ r.type = "19" /\ r.elems = elems
        /\ r.filled = filled
    BY ReplyFields DEF r
  <2>5. r.ret > 0 /\ r.number = n
    BY <1>4, <1>5, <2>4, SmallNumber
  <2>6. elems = Unqualified(seqs)
    BY <1>2 DEF elems, Unqualified, k
  <2>7. Result(r, n, "19", Unqualified(seqs))
    BY <2>4, <2>5, <2>6 DEF Result
  <2>8. r.filled <=> gateway # 0
    <3>1. filled <=> gateway # 0
      BY <1>1, <1>4 DEF filled, ILIST
    <3> QED
      BY <2>4, <3>1
  <2> QED
    BY <1>6, <2>3, <2>7, <2>8
<1> QED
  BY <1>7, <1>8 DEF k

\* The data of a reply, by themselves.
LEMMA DataIsRead ==
  ASSUME NEW f, NEW n, NEW gateway, NEW data \in Seq(Byte), Carries(f, n, gateway, data)
  PROVE  SubSeq(f, 7, 6 + Len(data)) = data
<1> DEFINE k == Len(data)
           b == 6 + k
<1>1. /\ f \in Seq(Byte) /\ Len(f) >= k + 8 /\ k \in Nat
      /\ \A i \in 1..k : f[6 + i] = data[i]
  BY DEF Carries
<1>2. b \in Nat /\ 7 <= b + 1 /\ b <= Len(f) /\ k = b - 7 + 1
  BY <1>1
<1>3. \A i \in 1..k : f[7 - 1 + i] = data[i]
  BY <1>1
<1> HIDE DEF b
<1>4. SubSeq(f, 7, b) = data
  BY <1>1, <1>2, <1>3, SamePart
<1> QED
  BY <1>4 DEF b

\* The value of one parameter of two or four bytes.
Filled(data) == [value |-> data \o [i \in 1 .. 4 - Len(data) |-> 0], qual |-> 0]

\* Function 0x11: one value, filled up to four bytes.
LEMMA OneIsRead ==
  ASSUME NEW f, NEW n \in 0..15, NEW gateway, NEW data \in Seq(Byte), Carries(f, n, gateway, data),
         Len(data) >= 1, Len(data) <= 4
  PROVE  /\ Result(tekon_resp_unpack(f, "11"), n, "11", <<Filled(data)>>)
         /\ tekon_resp_unpack(f, "11").filled <=> gateway # 0
<1> DEFINE k == Len(data)
           m == f[2] - 2
           elems == <<[value |-> SubSeq(f, 7, 6 + m) \o [i \in 1 .. 4 - m |-> 0], qual |-> 0]>>
           filled == f[6] # 0
           r == Reply(f, m + 8, "11", elems, filled)
<1>1. k \in Nat /\ k >= 1 /\ k <= 4
  OBVIOUS
<1>2. f[2] = k + 2 /\ f[5] = n /\ f[6] = gateway
  BY DEF Carries
<1>3. SubSeq(f, 7, 6 + k) = data
  BY DataIsRead
<1>4. Len(data) + 2 >= 3 /\ k + 8 > 0 /\ m = k
  BY <1>1, <1>2
<1>5. IsVariable(f, 3)
  BY <1>4, HasVariable
<1>6. elems = <<Filled(data)>>
  BY <1>3, <1>4 DEF Filled
<1> HIDE DEF k, elems, filled
<1>7. unpack_readem_11(f) = r
  BY <1>1, <1>4, <1>5 DEF unpack_readem_11, elems, filled
<1> HIDE DEF r, m
<1>8. tekon_resp_unpack(f, "11") = r
  <2>1. tekon_resp_unpack(f, "11") = unpack_readem(f, "11")
    BY ReplyIsRead
  <2>2. unpack_readem(f, "11") = unpack_readem_11(f)
    BY DEF unpack_readem
  <2> QED
    BY <1>7, <2>1, <2>2
<1>9. r.ret = m + 8 /\ r.number = f[5] % 16 /\ r.type = "11" /\ r.elems = elems
      /\ r.filled = filled
  BY ReplyFields DEF r
<1>10. r.ret > 0 /\ r.number = n
  BY <1>1, <1>2, <1>4, <1>9, SmallNumber
<1>11. Result(r, n, "11", <<Filled(data)>>)
  BY <1>6, <1>9, <1>10 DEF Result
<1>12. r.filled <=> gateway # 0
  <2>1. filled <=> gateway # 0
    BY <1>2 DEF filled
  <2> QED
    BY <1>9, <2>1
<1> QED
  BY <1>8, <1>11, <1>12

\* The receipt of a write.
LEMMA ReceiptIsRead ==
  ASSUME NEW f, NEW n \in 0..15, NEW gateway, NEW data \in Seq(Byte), Carries(f, n, gateway, data),
         Len(data) = 1
  PROVE  /\ gateway = 0 => tekon_resp_unpack(f, "14") = Refused
         /\ gateway # 0 => /\ Result(tekon_resp_unpack(f, "14"), n, "14", <<data[1]>>)
                           /\ tekon_resp_unpack(f, "14").filled
<1> DEFINE elems == <<f[7]>>
           filled == TRUE
           r == Reply(f, 9, "14", elems, filled)
<1>1. f[2] = 3 /\ f[5] = n /\ f[6] = gateway /\ f[6 + 1] = data[1]
  BY DEF Carries
<1>2. Len(data) >= 1 /\ Len(data) + 2 >= 3
  OBVIOUS
<1>3. IsVariable(f, 3)
  BY <1>2, HasVariable
<1>4. tekon_resp_unpack(f, "14") = unpack_readem_14(f)
  <2>1. tekon_resp_unpack(f, "14") = unpack_readem(f, "14")
    BY <1>2, ReplyIsRead
  <2>2. unpack_readem(f, "14") = unpack_readem_14(f)
    BY DEF unpack_readem
  <2> QED
    BY <2>1, <2>2
<1>5. ASSUME gateway = 0
      PROVE  tekon_resp_unpack(f, "14") = Refused
  BY <1>1, <1>4, <1>5 DEF unpack_readem_14
<1>6. ASSUME gateway # 0
      PROVE  Result(tekon_resp_unpack(f, "14"), n, "14", <<data[1]>>)
             /\ tekon_resp_unpack(f, "14").filled
  <2>1. unpack_readem_14(f) = r
    BY <1>1, <1>3, <1>6 DEF unpack_readem_14
  <2>2. elems = <<data[1]>>
    BY <1>1
  <2> HIDE DEF elems, filled
  <2>3. r.ret = 9 /\ r.number = f[5] % 16 /\ r.type = "14" /\ r.elems = elems /\ r.filled = filled
    BY ReplyFields
  <2> HIDE DEF r
  <2>4. r.ret > 0 /\ r.number = n
    BY <1>1, <2>3, SmallNumber
  <2>5. Result(r, n, "14", <<data[1]>>)
    BY <2>2, <2>3, <2>4 DEF Result
  <2>6. r.filled
    BY <2>3 DEF filled
  <2> QED
    BY <1>4, <2>1, <2>5, <2>6
<1> QED
  BY <1>5, <1>6

-----------------------------------------------------------------------------
(* Texts                                                                   *)

\* Powers of a notation's base are positive.
LEMMA Multiplied ==
  ASSUME NEW b \in {10, 16}, NEW p \in Nat \ {0}
  PROVE  b * p \in Nat \ {0}
  OBVIOUS

\* So is what a field of some length stays below.
LEMMA PowerIsPositive ==
  ASSUME NEW f \in Field, NEW n \in Nat
  PROVE  Power(f, n) \in Nat \ {0}
<1> DEFINE b == Base(f)
           S == Nat \ {0}
           one == 1
           step == [k \in 1..n |-> [p \in S |-> b * p]]
           Raised(g) == g = [k \in 0..n |-> IF k = 0 THEN 1 ELSE b * g[k-1]]
<1>1. b \in {10, 16}
  BY DEF Base
<1> HIDE DEF b
<1>2. step \in [1..n -> [S -> S]]
  <2>1. \A p \in S : b * p \in S
    BY <1>1, Multiplied
  <2> HIDE DEF S
  <2> QED
    BY <2>1
<1>3. \A k \in 1..n, p \in S : step[k][p] = b * p
  OBVIOUS
<1>4. one \in S
  OBVIOUS
<1> HIDE DEF one, step
<1>5. PICK t : t \in [0..n -> S] /\ t[0] = one /\ \A k \in 1..n : t[k] = step[k][t[k-1]]
  <2> HIDE DEF S, Raised
  <2>1. PICK t : Turns(t, S, one, n, step)
    BY <1>2, <1>4, Loop
  <2> QED
    BY <2>1 DEF Turns
<1> HIDE DEF S
<1>6. ASSUME NEW k \in 1..n
      PROVE  t[k] = b * t[k-1]
  <2>1. t[k-1] \in S
    BY <1>5
  <2> QED
    BY <1>3, <1>5, <2>1
<1>7. Raised(t)
  <2> DEFINE c == [k \in 0..n |-> IF k = 0 THEN 1 ELSE b * t[k-1]]
  <2>1. ASSUME NEW k \in 0..n
        PROVE  t[k] = c[k]
    <3>1. CASE k = 0
      BY <1>5, <3>1 DEF one
    <3>2. CASE k # 0
      <4>1. k \in 1..n
        BY <3>2
      <4> QED
        BY <1>6, <3>2, <4>1
    <3> QED
      BY <3>1, <3>2
  <2>2. t = [k \in 0..n |-> t[k]] /\ c = [k \in 0..n |-> c[k]]
    BY <1>5
  <2>3. t = c
    <3> HIDE DEF c
    <3> QED
      BY <2>1, <2>2
  <2> QED
    BY <2>3
<1>8. PICK g : Raised(g) /\ Power(f, n) = g[n]
  <2>1. Power(f, n) = (CHOOSE g : Raised(g))[n]
    BY DEF Power, b
  <2>2. Raised(CHOOSE g : Raised(g))
    <3> HIDE DEF Raised
    <3> QED
      BY <1>7
  <2> HIDE DEF Raised
  <2> QED
    BY <2>1, <2>2
<1>9. g[0] = 1 /\ \A k \in 1..n : g[k] = b * g[k-1]
  <2>1. 0 \in 0..n /\ \A k \in 1..n : k \in 0..n /\ k # 0
    OBVIOUS
  <2>2. \A k \in 0..n : g[k] = IF k = 0 THEN 1 ELSE b * g[k-1]
    BY <1>8
  <2> HIDE DEF Raised
  <2> QED
    BY <2>1, <2>2
<1> DEFINE P == {k \in 0..n : g[k] \in S}
<1>10. 0 \in P
  BY <1>9 DEF S
<1>11. \A k \in 0 .. n-1 : k \in P => k + 1 \in P
  <2>1. ASSUME NEW k \in 0 .. n-1, k \in P
        PROVE  k + 1 \in P
    <3>1. k + 1 \in 1..n /\ (k + 1) - 1 = k
      OBVIOUS
    <3>2. g[k+1] = b * g[k]
      BY <1>9, <3>1
    <3>3. g[k] \in Nat \ {0}
      BY <2>1 DEF S
    <3>4. b * g[k] \in Nat \ {0}
      BY <1>1, <3>3, Multiplied
    <3> QED
      BY <3>1, <3>2, <3>4 DEF S
  <2> QED
    BY <2>1
<1>12. n \in P
  <2> HIDE DEF P
  <2> QED
    BY <1>10, <1>11, UpTo
<1> QED
  BY <1>8, <1>12 DEF S

-----------------------------------------------------------------------------
(* The loops of the parsers                                                *)

\* The field that a loop reads, and what it gets.
Foremost(acc) == IF acc.left = << >> THEN Empty ELSE Head(acc.left)
Gotten(acc, limit) ==
  IF Foremost(acc).len <= limit THEN Foremost(acc) ELSE Cut(Foremost(acc), limit)

Accs == [left : Seq(Field), got : Seq(Field)]

\* Fields stay fields: an empty one,
LEMMA EmptyIsField == Empty \in Field
  BY DEF Empty, Field, TypeLetters

\* the next one to read,
LEMMA ForemostIsField ==
  ASSUME NEW acc \in Accs
  PROVE  Foremost(acc) \in Field
<1>1. acc.left \in Seq(Field)
  BY DEF Accs
<1> QED
  BY <1>1, EmptyIsField DEF Foremost

\* A cut field is a field, of a number not above the one that was cut.
LEMMA QuotientAtMost ==
  ASSUME NEW n \in Nat, NEW p \in Nat \ {0}
  PROVE  n \div p \in Nat /\ n \div p <= n /\ n % p \in Nat
<1> DEFINE q == n \div p
<1>1. q \in Int /\ n = p * q + (n % p) /\ n % p \in 0 .. p-1
  BY DivMod, ModRange
<1> HIDE DEF q
<1>2. q >= 0
  <2>1. ASSUME q <= -1
        PROVE  FALSE
    <3>1. p * (q + 1) <= 0
      BY <1>1, <2>1, MultipleAtMost
    <3>2. p * (q + 1) = p * q + p
      BY <1>1
    <3> QED
      BY <1>1, <3>1, <3>2
  <2> QED
    BY <1>1, <2>1
<1>3. p * q >= q
  <2>1. (p - 1) * q >= 0
    BY <1>1, <1>2
  <2>2. (p - 1) * q = p * q - q
    BY <1>1
  <2> QED
    BY <1>1, <2>1, <2>2
<1> QED
  BY <1>1, <1>2, <1>3 DEF q

\* one that is cut,
LEMMA CutIsField ==
  ASSUME NEW f \in Field, NEW limit \in Nat, f.len > limit
  PROVE  /\ Cut(f, limit) \in Field /\ Cut(f, limit).num <= f.num
         /\ Cut(f, limit).hex = f.hex /\ Cut(f, limit).letter = f.letter
<1> DEFINE p == Power(f, f.len - limit)
<1>1. f.len \in Nat /\ f.num \in Nat
  BY DEF Field
<1>2. f.len - limit \in Nat
  BY <1>1
<1>3. p \in Nat \ {0}
  BY <1>2, PowerIsPositive
<1> HIDE DEF p
<1>4. f.num \div p \in Nat /\ f.num \div p <= f.num
  BY <1>1, <1>3, QuotientAtMost
<1>5. Cut(f, limit) = [f EXCEPT !.num = f.num \div p, !.len = limit]
  BY DEF Cut, p
<1> QED
  BY <1>1, <1>4, <1>5 DEF Field

\* and what is left of it.
LEMMA RestIsField ==
  ASSUME NEW f \in Field, NEW limit \in Nat, f.len > limit
  PROVE  \E g \in Field : Rest(f, limit) = <<g>> /\ g.letter \in {f.letter, "none"}
<1> DEFINE len == f.len - limit - 1
           p == Power(f, len)
           g == IF len = 0 THEN Empty
                ELSE [f EXCEPT !.num = f.num % p, !.len = len, !.hex = FALSE]
<1>1. f.len \in Nat /\ f.num \in Nat
  BY DEF Field
<1>2. len \in Nat
  BY <1>1
<1> HIDE DEF len
<1>3. p \in Nat \ {0}
  BY <1>2, PowerIsPositive
<1> HIDE DEF p
<1>4. f.num % p \in Nat
  BY <1>1, <1>3, QuotientAtMost
<1>5. g \in Field /\ g.letter \in {f.letter, "none"}
  <2>1. CASE len = 0
    BY <2>1, EmptyIsField DEF Empty
  <2>2. CASE len # 0
    BY <1>2, <1>4, <2>2 DEF Field
  <2> QED
    BY <2>1, <2>2
<1>6. Rest(f, limit) = <<g>>
  BY DEF Rest, len, p
<1> HIDE DEF g
<1> QED
  BY <1>5, <1>6

\* What is left after a loop, field by field.
IsLeft(left, acc, limit) ==
  IF Foremost(acc).len <= limit
  THEN \/ acc.left = << >> /\ left = << >>
       \/ acc.left # << >> /\ left = Tail(acc.left)
  ELSE \E g \in Field : /\ g.letter \in {Foremost(acc).letter, "none"}
                        /\ \/ acc.left = << >> /\ left = <<g>>
                           \/ acc.left # << >> /\ left = <<g>> \o Tail(acc.left)

\* One loop over a field takes the next field, whole or cut.
LEMMA ReadFieldIs ==
  ASSUME NEW acc \in Accs, NEW limit \in Nat
  PROVE  /\ ReadField(acc, limit) \in Accs
         /\ ReadField(acc, limit).got = Append(acc.got, Gotten(acc, limit))
         /\ Gotten(acc, limit) \in Field
         /\ IsLeft(ReadField(acc, limit).left, acc, limit)
<1> DEFINE f == Foremost(acc)
           others == IF acc.left = << >> THEN << >> ELSE Tail(acc.left)
           x == Gotten(acc, limit)
<1>1. f \in Field
  BY ForemostIsField
<1>2. acc.left \in Seq(Field) /\ acc.got \in Seq(Field)
  BY DEF Accs
<1>3. others \in Seq(Field)
  BY <1>2
<1>4. f.len \in Nat
  BY <1>1 DEF Field
<1>5. x \in Field
  BY <1>1, <1>4, CutIsField DEF Gotten
<1>6. Append(acc.got, x) \in Seq(Field)
  BY <1>2, <1>5
<1>7. CASE f.len <= limit
  <2>1. ReadField(acc, limit) = [left |-> others, got |-> Append(acc.got, x)]
    BY <1>7 DEF ReadField, Gotten, Foremost
  <2>2. IsLeft(others, acc, limit)
    BY <1>7 DEF IsLeft
  <2> HIDE DEF others, x
  <2> QED
    BY <1>3, <1>5, <1>6, <2>1, <2>2 DEF Accs, x
<1>8. CASE ~(f.len <= limit)
  <2>0. f.len > limit
    BY <1>4, <1>8
  <2>1. PICK g \in Field : Rest(f, limit) = <<g>> /\ g.letter \in {f.letter, "none"}
    BY <1>1, <2>0, RestIsField
  <2> DEFINE left == <<g>> \o others
  <2>2. ReadField(acc, limit) = [left |-> left, got |-> Append(acc.got, x)]
    BY <1>8, <2>1 DEF ReadField, Gotten, Foremost
  <2>3. left \in Seq(Field)
    BY <1>3
  <2>4. IsLeft(left, acc, limit)
    <3>1. acc.left = << >> => left = <<g>>
      OBVIOUS
    <3>2. acc.left # << >> => left = <<g>> \o Tail(acc.left)
      OBVIOUS
    <3> HIDE DEF left
    <3> QED
      BY <1>8, <2>1, <3>1, <3>2 DEF IsLeft
  <2> HIDE DEF left, x
  <2> QED
    BY <1>5, <1>6, <2>2, <2>3, <2>4 DEF Accs, x
<1> QED
  BY <1>7, <1>8

\* r is what Reading gives.
Reads(r, text, limits) ==
  /\ r \in [0..Len(limits) -> Accs]
  /\ r[0] = [left |-> text, got |-> << >>]
  /\ \A k \in 1..Len(limits) : r[k] = ReadField(r[k-1], limits[k])

\* The loops are run one after the other.
LEMMA ReadingReads ==
  ASSUME NEW text \in Seq(Field), NEW limits \in Seq(Nat)
  PROVE  Reads(Reading(text, limits), text, limits)
<1> DEFINE n == Len(limits)
           first == [left |-> text, got |-> << >>]
           step == [k \in 1..n |-> [acc \in Accs |-> ReadField(acc, limits[k])]]
           Read(g) == g = [k \in 0..n |-> IF k = 0 THEN [left |-> text, got |-> << >>]
                                          ELSE ReadField(g[k-1], limits[k])]
<1>1. n \in Nat /\ \A k \in 1..n : limits[k] \in Nat
  OBVIOUS
<1>2. step \in [1..n -> [Accs -> Accs]]
  <2>1. \A k \in 1..n, acc \in Accs : ReadField(acc, limits[k]) \in Accs
    BY <1>1, ReadFieldIs
  <2> HIDE DEF n
  <2> QED
    BY <2>1
<1>3. \A k \in 1..n, acc \in Accs : step[k][acc] = ReadField(acc, limits[k])
  OBVIOUS
<1>4. first \in Accs
  BY DEF Accs
<1> HIDE DEF first, step, n
<1>5. PICK t : t \in [0..n -> Accs] /\ t[0] = first /\ \A k \in 1..n : t[k] = step[k][t[k-1]]
  <2> HIDE DEF Read
  <2>1. PICK t : Turns(t, Accs, first, n, step)
    BY <1>1, <1>2, <1>4, Loop
  <2> QED
    BY <2>1 DEF Turns
<1>6. ASSUME NEW k \in 1..n
      PROVE  t[k] = ReadField(t[k-1], limits[k])
  <2>1. t[k-1] \in Accs
    BY <1>1, <1>5
  <2> QED
    BY <1>3, <1>5, <2>1
<1>7. Read(t)
  <2> DEFINE c == [k \in 0..n |-> IF k = 0 THEN [left |-> text, got |-> << >>]
                                  ELSE ReadField(t[k-1], limits[k])]
  <2>1. ASSUME NEW k \in 0..n
        PROVE  t[k] = c[k]
    <3>1. CASE k = 0
      BY <1>5, <3>1 DEF first
    <3>2. CASE k # 0
      <4>1. k \in 1..n
        BY <1>1, <3>2
      <4> QED
        BY <1>6, <3>2, <4>1
    <3> QED
      BY <3>1, <3>2
  <2>2. t = [k \in 0..n |-> t[k]] /\ c = [k \in 0..n |-> c[k]]
    BY <1>5
  <2>3. t = c
    <3> HIDE DEF c
    <3> QED
      BY <2>1, <2>2
  <2> QED
    BY <2>3
<1> DEFINE g == Reading(text, limits)
<1>8. Read(g)
  <2>1. g = CHOOSE h : Read(h)
    BY DEF Reading, n
  <2> HIDE DEF Read
  <2>2. Read(CHOOSE h : Read(h))
    BY <1>7
  <2> HIDE DEF g
  <2> QED
    BY <2>1, <2>2
<1> HIDE DEF g
<1>9. DOMAIN g = 0..n /\ g[0] = first /\ \A k \in 1..n : g[k] = ReadField(g[k-1], limits[k])
  <2>1. 0 \in 0..n /\ \A k \in 1..n : k \in 0..n /\ k # 0
    BY <1>1
  <2>2. \A k \in 0..n : g[k] = IF k = 0 THEN first ELSE ReadField(g[k-1], limits[k])
    BY <1>8 DEF first
  <2>3. DOMAIN g = 0..n
    BY <1>8
  <2> HIDE DEF Read
  <2> QED
    BY <2>1, <2>2, <2>3
<1>10. ASSUME NEW k \in 0..n
       PROVE  g[k] \in Accs
  <2> DEFINE P == {i \in 0..n : g[i] \in Accs}
  <2>1. 0 \in P
    BY <1>1, <1>4, <1>9
  <2>2. \A i \in 0 .. n-1 : i \in P => i + 1 \in P
    <3>1. ASSUME NEW i \in 0 .. n-1, i \in P
          PROVE  i + 1 \in P
      <4>1. i + 1 \in 1..n /\ i + 1 \in 0..n /\ (i + 1) - 1 = i
        BY <1>1
      <4>2. g[i+1] = ReadField(g[i], limits[i+1])
        BY <1>9, <4>1
      <4>3. limits[i+1] \in Nat /\ g[i] \in Accs
        BY <1>1, <3>1, <4>1
      <4>4. ReadField(g[i], limits[i+1]) \in Accs
        BY <4>3, ReadFieldIs
      <4> QED
        BY <4>1, <4>2, <4>4
    <3> QED
      BY <3>1
  <2> HIDE DEF P
  <2>3. \A i \in 0..n : i \in P
    BY <1>1, <2>1, <2>2, UpTo
  <2> QED
    BY <2>3 DEF P
<1>11. g \in [0..n -> Accs]
  <2>1. g = [k \in 0..n |-> g[k]]
    BY <1>8
  <2> QED
    BY <1>10, <2>1
<1> QED
  BY <1>9, <1>11 DEF Reads, first, n, g

\* f is what the loops got in all.
FieldsFrom(f, r, limits) ==
  /\ f \in Seq(Field) /\ Len(f) = Len(limits)
  /\ \A j \in 1..Len(limits) : f[j] = Gotten(r[j-1], limits[j])

\* Append puts an element behind the others.
LEMMA AppendIs ==
  ASSUME NEW S, NEW s \in Seq(S), NEW x \in S
  PROVE  /\ Append(s, x) \in Seq(S) /\ Len(Append(s, x)) = Len(s) + 1
         /\ Append(s, x)[Len(s) + 1] = x
         /\ \A j \in 1..Len(s) : Append(s, x)[j] = s[j]
  OBVIOUS

\* Each loop adds its field to those before, which stay.
LEMMA FieldsAreGot ==
  ASSUME NEW text, NEW limits \in Seq(Nat), NEW r, Reads(r, text, limits)
  PROVE  FieldsFrom(r[Len(limits)].got, r, limits)
<1> DEFINE n == Len(limits)
           Good(k) == /\ Len(r[k].got) = k
                      /\ \A j \in 1..k : r[k].got[j] = Gotten(r[j-1], limits[j])
           P == {k \in 0..n : Good(k)}
<1>1. n \in Nat /\ \A k \in 1..n : limits[k] \in Nat
  OBVIOUS
<1>2. /\ \A k \in 0..n : r[k] \in Accs
      /\ r[0].got = << >>
      /\ \A k \in 1..n : r[k] = ReadField(r[k-1], limits[k])
  BY DEF Reads
<1>3. Good(0)
  BY <1>2
<1>4. ASSUME NEW k \in 0 .. n-1, Good(k)
      PROVE  Good(k+1)
  <2> DEFINE s == r[k].got
             x == Gotten(r[k], limits[k+1])
             u == r[k+1].got
  <2>1. k + 1 \in 1..n /\ (k + 1) - 1 = k /\ k \in 0..n
    BY <1>1
  <2>2. r[k] \in Accs /\ limits[k+1] \in Nat /\ r[k+1] = ReadField(r[k], limits[k+1])
    BY <1>1, <1>2, <2>1
  <2>3. u = Append(s, x) /\ x \in Field /\ s \in Seq(Field)
    BY <2>2, ReadFieldIs DEF Accs
  <2>4. Len(s) = k /\ \A j \in 1..k : s[j] = Gotten(r[j-1], limits[j])
    BY <1>4
  <2>7. x = Gotten(r[(k+1) - 1], limits[k+1])
    BY <2>1
  <2> HIDE DEF Good, n, s, x, u
  <2>5. Len(u) = k + 1 /\ u[k+1] = x /\ \A j \in 1..k : u[j] = s[j]
    BY <2>3, <2>4, AppendIs
  <2>6. ASSUME NEW j \in 1 .. k+1
        PROVE  u[j] = Gotten(r[j-1], limits[j])
    <3>1. CASE j \in 1..k
      BY <2>4, <2>5, <3>1
    <3>2. CASE j = k + 1
      BY <2>5, <2>7, <3>2
    <3> QED
      BY <3>1, <3>2
  <2> QED
    BY <2>5, <2>6 DEF Good, u
<1>5. n \in P
  <2>1. 0 \in P
    BY <1>1, <1>3
  <2>2. \A k \in 0 .. n-1 : k \in P => k + 1 \in P
    <3> HIDE DEF Good, n
    <3> QED
      BY <1>1, <1>4
  <2> HIDE DEF P, n
  <2>3. \A k \in 0..n : k \in P
    BY <1>1, <2>1, <2>2, UpTo
  <2> QED
    BY <1>1, <2>3
<1>6. Good(n)
  <2> HIDE DEF Good
  <2> QED
    BY <1>5
<1>7. r[n].got \in Seq(Field)
  BY <1>1, <1>2 DEF Accs
<1> QED
  BY <1>6, <1>7 DEF FieldsFrom

\* left is what follows the first k fields of the text.
Follows(left, text, k) ==
  Len(left) = Len(text) - k /\ \A j \in 1 .. Len(text) - k : left[j] = text[k + j]

\* Tail takes the first element away.
LEMMA TailIs ==
  ASSUME NEW S, NEW s \in Seq(S), s # << >>
  PROVE  /\ Tail(s) \in Seq(S) /\ Len(Tail(s)) = Len(s) - 1 /\ Len(s) >= 1
         /\ Head(s) = s[1] /\ s[1] \in S
         /\ \A j \in 1 .. Len(s) - 1 : Tail(s)[j] = s[j + 1]
  OBVIOUS

\* The next field of a text, if all before it fit.
LEMMA NextField ==
  ASSUME NEW text \in Seq(Field), NEW acc \in Accs, NEW k \in 0 .. Len(text) - 1,
         Follows(acc.left, text, k)
  PROVE  acc.left # << >> /\ Foremost(acc) = text[k + 1] /\ acc.left \in Seq(Field)
<1>1. acc.left \in Seq(Field)
  BY DEF Accs
<1>2. Len(text) \in Nat
  OBVIOUS
<1>3. Len(acc.left) # 0 /\ acc.left[1] = text[k + 1]
  <2>1. 1 \in 1 .. Len(text) - k
    BY <1>2
  <2>2. acc.left[1] = text[k + 1] /\ Len(acc.left) = Len(text) - k
    BY <2>1 DEF Follows
  <2>3. Len(text) - k # 0
    BY <1>2
  <2> QED
    BY <2>2, <2>3
<1>4. acc.left # << >>
  <2>1. Len(<< >>) = 0
    OBVIOUS
  <2> QED
    BY <1>3, <2>1
<1> QED
  BY <1>1, <1>3, <1>4, TailIs DEF Foremost

\* What follows after one more field.
LEMMA FollowsOn ==
  ASSUME NEW text \in Seq(Field), NEW s \in Seq(Field), NEW k \in 0 .. Len(text) - 1,
         s # << >>, Follows(s, text, k)
  PROVE  Follows(Tail(s), text, k + 1)
<1>1. Len(text) \in Nat /\ Len(s) = Len(text) - k
  BY DEF Follows
<1>2. \A j \in 1 .. Len(text) - k : s[j] = text[k + j]
  BY DEF Follows
<1>3. Len(Tail(s)) = Len(s) - 1 /\ \A j \in 1 .. Len(s) - 1 : Tail(s)[j] = s[j + 1]
  BY TailIs
<1>4. Len(Tail(s)) = Len(text) - (k + 1)
  BY <1>1, <1>3
<1>5. ASSUME NEW j \in 1 .. Len(text) - (k + 1)
      PROVE  Tail(s)[j] = text[(k + 1) + j]
  <2>1. j \in 1 .. Len(s) - 1 /\ j + 1 \in 1 .. Len(text) - k /\ k + (j + 1) = (k + 1) + j
    BY <1>1
  <2> QED
    BY <1>2, <1>3, <2>1
<1> QED
  BY <1>4, <1>5 DEF Follows

\* The fields of a text up to the first that does not fit are read as they are.
FitUpTo(text, limits, m) == \A j \in 1..m : text[j].len <= limits[j]

\* As long as the fields fit, each loop reads its own.
LEMMA FittingIsRead ==
  ASSUME NEW text \in Seq(Field), NEW limits \in Seq(Nat), NEW r, Reads(r, text, limits),
         NEW m \in Nat, m <= Len(text), m <= Len(limits), FitUpTo(text, limits, m)
  PROVE  /\ \A k \in 0..m : Follows(r[k].left, text, k)
         /\ \A k \in 1..m : Gotten(r[k-1], limits[k]) = text[k]
<1> DEFINE n == Len(limits)
           l == Len(text)
           P == {k \in 0..m : Follows(r[k].left, text, k)}
<1>1. n \in Nat /\ l \in Nat /\ m <= l /\ m <= n /\ \A k \in 1..n : limits[k] \in Nat
  OBVIOUS
<1>2. /\ \A k \in 0..n : r[k] \in Accs
      /\ r[0].left = text
      /\ \A k \in 1..n : r[k] = ReadField(r[k-1], limits[k])
  BY DEF Reads
<1>3. 0 \in P
  BY <1>1, <1>2 DEF Follows
<1>4. ASSUME NEW k \in 0 .. m-1, Follows(r[k].left, text, k)
      PROVE  /\ Gotten(r[k], limits[k+1]) = text[k+1]
             /\ Follows(r[k+1].left, text, k + 1)
  <2>1. k \in 0..n /\ k + 1 \in 1..n /\ (k + 1) - 1 = k /\ k \in 0 .. l-1 /\ k + 1 \in 1..m
    BY <1>1
  <2>2. r[k] \in Accs /\ limits[k+1] \in Nat /\ r[k+1] = ReadField(r[k], limits[k+1])
    BY <1>1, <1>2, <2>1
  <2>3. r[k].left # << >> /\ Foremost(r[k]) = text[k+1] /\ r[k].left \in Seq(Field)
    BY <1>4, <2>1, <2>2, NextField
  <2>4. text[k+1].len <= limits[k+1]
    BY <2>1 DEF FitUpTo
  <2>5. IsLeft(r[k+1].left, r[k], limits[k+1])
    BY <2>2, ReadFieldIs
  <2>6. r[k+1].left = Tail(r[k].left)
    BY <2>3, <2>4, <2>5 DEF IsLeft
  <2> QED
    BY <1>4, <2>1, <2>3, <2>4, <2>6, FollowsOn DEF Gotten
<1>5. \A k \in 0..m : k \in P
  <2>1. \A k \in 0 .. m-1 : k \in P => k + 1 \in P
    BY <1>4
  <2> HIDE DEF P
  <2> QED
    BY <1>3, <2>1, UpTo
<1>6. \A k \in 0..m : Follows(r[k].left, text, k)
  BY <1>5
<1>7. ASSUME NEW k \in 1..m
      PROVE  Gotten(r[k-1], limits[k]) = text[k]
  <2>1. k - 1 \in 0 .. m-1 /\ k - 1 \in 0..m /\ (k - 1) + 1 = k
    OBVIOUS
  <2> HIDE DEF P
  <2>2. Follows(r[k-1].left, text, k - 1)
    BY <1>6, <2>1
  <2>3. Gotten(r[k-1], limits[(k-1) + 1]) = text[(k-1) + 1]
    BY <1>4, <2>1, <2>2
  <2> QED
    BY <2>1, <2>3
<1> QED
  BY <1>6, <1>7

-----------------------------------------------------------------------------
(* Texts that do not fit                                                   *)

NotLetter == {"digit", "none"}

\* More is left than the loops to come can read, and only its last is a letter.
Late(left, m) == Len(left) > m /\ \A j \in 1 .. Len(left) - 1 : left[j].letter \in NotLetter

\* A sequence behind one element.
LEMMA BehindOne ==
  ASSUME NEW S, NEW g \in S, NEW s \in Seq(S)
  PROVE  /\ <<g>> \o s \in Seq(S) /\ Len(<<g>> \o s) = Len(s) + 1
         /\ (<<g>> \o s)[1] = g
         /\ \A j \in 1..Len(s) : (<<g>> \o s)[j + 1] = s[j]
  OBVIOUS

\* A text that is late stays so when a field is read,
LEMMA LateTail ==
  ASSUME NEW s \in Seq(Field), s # << >>, NEW m \in Nat, Late(s, m + 1)
  PROVE  Late(Tail(s), m)
<1>1. Len(s) \in Nat /\ Len(s) > m + 1 /\ \A j \in 1 .. Len(s) - 1 : s[j].letter \in NotLetter
  BY DEF Late
<1>2. Len(Tail(s)) = Len(s) - 1 /\ \A j \in 1 .. Len(s) - 1 : Tail(s)[j] = s[j + 1]
  BY TailIs
<1>3. Len(Tail(s)) > m
  BY <1>1, <1>2
<1>4. ASSUME NEW j \in 1 .. Len(Tail(s)) - 1
      PROVE  Tail(s)[j].letter \in NotLetter
  <2>1. j \in 1 .. Len(s) - 1 /\ j + 1 \in 1 .. Len(s) - 1
    BY <1>1, <1>2
  <2> QED
    BY <1>1, <1>2, <2>1
<1> QED
  BY <1>3, <1>4 DEF Late

\* and when a field is cut.
LEMMA LateRest ==
  ASSUME NEW s \in Seq(Field), s # << >>, NEW m \in Nat, Len(s) > m,
         \A j \in 1 .. Len(s) - 1 : s[j].letter \in NotLetter,
         NEW g \in Field, g.letter \in NotLetter
  PROVE  Late(<<g>> \o Tail(s), m)
<1> DEFINE t == Tail(s)
           u == <<g>> \o t
<1>0. Len(s) \in Nat
  OBVIOUS
<1>1. t \in Seq(Field) /\ Len(t) = Len(s) - 1 /\ \A j \in 1 .. Len(s) - 1 : t[j] = s[j + 1]
  BY TailIs
<1> HIDE DEF t
<1>2. Len(u) = Len(t) + 1 /\ u[1] = g /\ \A j \in 1..Len(t) : u[j + 1] = t[j]
  BY <1>1, BehindOne
<1> HIDE DEF u
<1>3. Len(u) > m
  BY <1>0, <1>1, <1>2
<1>4. ASSUME NEW j \in 1 .. Len(u) - 1
      PROVE  u[j].letter \in NotLetter
  <2>1. CASE j = 1
    BY <1>2, <2>1
  <2>2. CASE j # 1
    <3> DEFINE i == j - 1
    <3>1. i \in 1..Len(t) /\ i \in 1 .. Len(s) - 1 /\ j = i + 1 /\ i + 1 \in 1 .. Len(s) - 1
      BY <1>0, <1>1, <1>2, <2>2
    <3> HIDE DEF i
    <3>2. u[i + 1] = s[i + 1]
      BY <1>1, <1>2, <3>1
    <3> QED
      BY <3>1, <3>2
  <2> QED
    BY <2>1, <2>2
<1>5. Late(u, m)
  BY <1>3, <1>4 DEF Late
<1> QED
  BY <1>5 DEF t, u

\* One loop before the last: what is left stays in step with the text, or runs late.
LEMMA InStepOrLate ==
  ASSUME NEW text \in Seq(Field), NEW n \in Nat, HasFields(text, n),
         NEW acc \in Accs, NEW limit \in Nat, NEW k \in 0 .. n-2, NEW left,
         IsLeft(left, acc, limit), Follows(acc.left, text, k) \/ Late(acc.left, n - k)
  PROVE  \/ Follows(acc.left, text, k) /\ text[k+1].len <= limit /\ Follows(left, text, k + 1)
         \/ Late(left, n - (k + 1))
<1> DEFINE s == acc.left
           m == n - (k + 1)
<1>1. s \in Seq(Field) /\ Len(text) = n /\ Len(text) \in Nat /\ m \in Nat /\ n - k = m + 1
      /\ k \in 0 .. Len(text) - 1 /\ k + 1 \in 1 .. n-1 /\ m >= 1
  BY DEF Accs, HasFields
<1>2. CASE Follows(s, text, k)
  <2>1. s # << >> /\ Foremost(acc) = text[k + 1]
    BY <1>1, <1>2, NextField
  <2>2. text[k + 1] \in Field /\ text[k + 1].letter \in NotLetter
    BY <1>1 DEF HasFields, NotLetter
  <2>3. CASE text[k + 1].len <= limit
    <3>1. left = Tail(s)
      BY <2>1, <2>3 DEF IsLeft
    <3>2. Follows(left, text, k + 1)
      BY <1>1, <1>2, <2>1, <3>1, FollowsOn
    <3> QED
      BY <1>2, <2>3, <3>2
  <2>4. CASE ~(text[k + 1].len <= limit)
    <3>1. PICK g \in Field : g.letter \in {text[k + 1].letter, "none"} /\ left = <<g>> \o Tail(s)
      BY <2>1, <2>4 DEF IsLeft
    <3>2. g.letter \in NotLetter
      BY <2>2, <3>1 DEF NotLetter
    <3>3. Len(s) = n - k /\ \A j \in 1 .. n-k : s[j] = text[k + j]
      BY <1>1, <1>2 DEF Follows
    <3>4. Len(s) > m
      BY <1>1, <3>3
    <3>5. ASSUME NEW j \in 1 .. Len(s) - 1
          PROVE  s[j].letter \in NotLetter
      <4>1. j \in 1 .. n-k /\ k + j \in 1 .. n-1
        BY <1>1, <3>3
      <4>2. text[k + j].letter \in NotLetter
        BY <4>1 DEF HasFields, NotLetter
      <4> QED
        BY <3>3, <4>1, <4>2
    <3>6. Late(<<g>> \o Tail(s), m)
      BY <1>1, <2>1, <3>2, <3>4, <3>5, LateRest
    <3> QED
      BY <3>1, <3>6
  <2> QED
    BY <2>3, <2>4
<1>3. CASE Late(s, n - k)
  <2>0. Late(s, m + 1)
    BY <1>1, <1>3
  <2>1. Len(s) \in Nat /\ Len(s) > m + 1 /\ \A j \in 1 .. Len(s) - 1 : s[j].letter \in NotLetter
    BY <1>1, <2>0 DEF Late
  <2>2. s # << >>
    <3>1. Len(s) # 0 /\ Len(<< >>) = 0
      BY <1>1, <2>1
    <3> QED
      BY <3>1
  <2>3. Foremost(acc) = s[1] /\ s[1].letter \in NotLetter
    <3>1. 1 \in 1 .. Len(s) - 1
      BY <1>1, <2>1
    <3>2. Foremost(acc) = Head(s) /\ Head(s) = s[1]
      BY <1>1, <2>2, TailIs DEF Foremost
    <3> QED
      BY <2>1, <3>1, <3>2
  <2>4. CASE s[1].len <= limit
    <3>1. left = Tail(s)
      BY <2>2, <2>3, <2>4 DEF IsLeft
    <3> QED
      BY <1>1, <2>0, <2>2, <3>1, LateTail
  <2>5. CASE ~(s[1].len <= limit)
    <3>1. PICK g \in Field : g.letter \in {s[1].letter, "none"} /\ left = <<g>> \o Tail(s)
      BY <2>2, <2>3, <2>5 DEF IsLeft
    <3>2. g.letter \in NotLetter
      BY <2>3, <3>1 DEF NotLetter
    <3>3. Len(s) > m
      BY <1>1, <2>1
    <3>4. Late(<<g>> \o Tail(s), m)
      BY <1>1, <2>1, <2>2, <3>2, <3>3, LateRest
    <3> QED
      BY <3>1, <3>4
  <2> QED
    BY <2>4, <2>5
<1> QED
  BY <1>2, <1>3

\* A text whose fields do not all fit is not read as a text with a letter in the
\* last place.
LEMMA LetterIsLast ==
  ASSUME NEW text \in Seq(Field), NEW limits \in Seq(Nat), NEW r, Reads(r, text, limits),
         NEW n \in Nat, n = Len(limits), n >= 1, HasFields(text, n)
  PROVE  \/ FitUpTo(text, limits, n - 1)
         \/ Gotten(r[n-1], limits[n]).letter \in NotLetter
<1> DEFINE Good(k) == \/ Follows(r[k].left, text, k) /\ FitUpTo(text, limits, k)
                      \/ Late(r[k].left, n - k)
           m == n - 1
           P == {k \in 0..m : Good(k)}
<1>1. m \in Nat /\ n \in Nat /\ \A k \in 1..n : limits[k] \in Nat
  OBVIOUS
<1>2. /\ \A k \in 0..n : r[k] \in Accs
      /\ r[0].left = text
      /\ \A k \in 1..n : r[k] = ReadField(r[k-1], limits[k])
  BY DEF Reads
<1>3. Good(0)
  <2>1. Follows(text, text, 0)
    BY DEF Follows
  <2>2. FitUpTo(text, limits, 0)
    BY DEF FitUpTo
  <2> QED
    BY <1>2, <2>1, <2>2
<1>4. ASSUME NEW k \in 0 .. m-1, Good(k)
      PROVE  Good(k+1)
  <2>1. k \in 0..n /\ k + 1 \in 1..n /\ (k + 1) - 1 = k /\ k \in 0 .. n-2
    BY <1>1
  <2>2. r[k] \in Accs /\ limits[k+1] \in Nat /\ r[k+1] = ReadField(r[k], limits[k+1])
    BY <1>1, <1>2, <2>1
  <2>3. IsLeft(r[k+1].left, r[k], limits[k+1])
    BY <2>2, ReadFieldIs
  <2>4. Follows(r[k].left, text, k) \/ Late(r[k].left, n - k)
    BY <1>4
  <2>5. \/ /\ Follows(r[k].left, text, k) /\ text[k+1].len <= limits[k+1]
           /\ Follows(r[k+1].left, text, k + 1)
        \/ Late(r[k+1].left, n - (k + 1))
    BY <2>1, <2>2, <2>3, <2>4, InStepOrLate
  <2>6. CASE Late(r[k].left, n - k)
    <3>1. ~Follows(r[k].left, text, k)
      <4>1. Len(text) = n
        BY DEF HasFields
      <4> QED
        BY <1>1, <2>6, <4>1 DEF Late, Follows
    <3> QED
      BY <2>5, <3>1
  <2>7. CASE FitUpTo(text, limits, k)
    <3>1. ASSUME text[k+1].len <= limits[k+1]
          PROVE  FitUpTo(text, limits, k + 1)
      <4>1. \A j \in 1 .. k+1 : j \in 1..k \/ j = k + 1
        OBVIOUS
      <4> QED
        BY <2>7, <3>1, <4>1 DEF FitUpTo
    <3> QED
      BY <2>5, <3>1
  <2> QED
    BY <1>4, <2>6, <2>7
<1>5. Good(m)
  <2>1. 0 \in P
    <3> HIDE DEF Good
    <3> QED
      BY <1>1, <1>3
  <2>2. \A k \in 0 .. m-1 : k \in P => k + 1 \in P
    <3> HIDE DEF Good, m
    <3> QED
      BY <1>1, <1>4
  <2> HIDE DEF P, m, Good
  <2>3. \A k \in 0..m : k \in P
    BY <1>1, <2>1, <2>2, UpTo
  <2> QED
    BY <1>1, <2>3 DEF P
<1>6. ASSUME Late(r[m].left, n - m)
      PROVE  Gotten(r[n-1], limits[n]).letter \in NotLetter
  <2> DEFINE s == r[m].left
  <2>1. r[m] \in Accs /\ s \in Seq(Field) /\ limits[n] \in Nat
    <3>1. m \in 0..n /\ n \in 1..n
      BY <1>1
    <3> QED
      BY <1>1, <1>2, <3>1 DEF Accs
  <2>2. n - m = 1
    BY <1>1
  <2>3. Len(s) > 1 /\ \A j \in 1 .. Len(s) - 1 : s[j].letter \in NotLetter
    BY <1>6, <2>2 DEF Late
  <2>4. s # << >>
    <3>1. Len(s) # 0 /\ Len(<< >>) = 0
      BY <2>1, <2>3
    <3> QED
      BY <3>1
  <2>5. Foremost(r[m]) = s[1] /\ Foremost(r[m]) \in Field
    BY <2>1, <2>4, TailIs, ForemostIsField DEF Foremost
  <2>6. 1 \in 1 .. Len(s) - 1
    BY <2>1, <2>3
  <2>7. Foremost(r[m]).letter \in NotLetter
    BY <2>3, <2>5, <2>6
  <2>8. CASE Foremost(r[m]).len <= limits[n]
    BY <2>7, <2>8 DEF Gotten
  <2>9. CASE ~(Foremost(r[m]).len <= limits[n])
    <3>1. Foremost(r[m]).len > limits[n]
      BY <2>1, <2>5, <2>9 DEF Field
    <3>2. Cut(Foremost(r[m]), limits[n]).letter = Foremost(r[m]).letter
      BY <2>1, <2>5, <3>1, CutIsField
    <3> QED
      BY <2>7, <2>9, <3>2 DEF Gotten
  <2> QED
    BY <2>8, <2>9
<1> QED
  BY <1>5, <1>6

\* The fields of a text are what its loops read;
LEMMA FieldsOf ==
  ASSUME NEW text \in Seq(Field), NEW limits \in Seq(Nat)
  PROVE  \E r : Reads(r, text, limits) /\ FieldsFrom(Fields(text, limits), r, limits)
<1> DEFINE r == Reading(text, limits)
<1>1. Reads(r, text, limits)
  BY ReadingReads
<1>2. Fields(text, limits) = r[Len(limits)].got
  BY DEF Fields
<1> HIDE DEF r
<1>3. FieldsFrom(r[Len(limits)].got, r, limits)
  BY <1>1, FieldsAreGot
<1> QED
  BY <1>1, <1>2, <1>3

\* there is one for each loop.
LEMMA FieldsAreFields ==
  ASSUME NEW text \in Seq(Field), NEW limits \in Seq(Nat)
  PROVE  Fields(text, limits) \in Seq(Field) /\ Len(Fields(text, limits)) = Len(limits)
  BY FieldsOf DEF FieldsFrom

\* f has the fields 1 to m of the text.
SameFields(f, text, m) == \A k \in 1..m : f[k] = text[k]

\* What fits is read as it is written.
LEMMA FieldsThatFit ==
  ASSUME NEW text \in Seq(Field), NEW limits \in Seq(Nat), Fits(text, limits)
  PROVE  SameFields(Fields(text, limits), text, Len(limits))
<1> DEFINE m == Len(limits)
<1>1. m \in Nat /\ m = Len(text) /\ DOMAIN limits = 1..m
  BY DEF Fits
<1>2. PICK r : Reads(r, text, limits) /\ FieldsFrom(Fields(text, limits), r, limits)
  BY FieldsOf
<1>3. FitUpTo(text, limits, m)
  BY <1>1 DEF Fits, FitUpTo
<1>4. m <= Len(text) /\ m <= Len(limits)
  BY <1>1
<1>5. \A k \in 1..m : Gotten(r[k-1], limits[k]) = text[k]
  <2> HIDE DEF m
  <2> QED
    BY <1>1, <1>2, <1>3, <1>4, FittingIsRead, ZenonT(60)
<1> QED
  BY <1>2, <1>5 DEF FieldsFrom, SameFields

\* So are the numbers of a text whose letter is found in its place.
LEMMA FieldsBeforeLetter ==
  ASSUME NEW text \in Seq(Field), NEW limits \in Seq(Nat), NEW n \in Nat, n = Len(limits), n >= 1,
         HasFields(text, n), Fields(text, limits)[n].letter \in TypeLetters
  PROVE  SameFields(Fields(text, limits), text, n - 1)
<1> DEFINE m == n - 1
<1>1. PICK r : Reads(r, text, limits) /\ FieldsFrom(Fields(text, limits), r, limits)
  BY FieldsOf
<1>2. m \in Nat /\ n \in 1..n /\ m <= Len(text) /\ m <= Len(limits) /\ \A k \in 1..m : k \in 1..n
  BY DEF HasFields
<1>3. \A k \in 1..n : Fields(text, limits)[k] = Gotten(r[k-1], limits[k])
  BY <1>1 DEF FieldsFrom
<1>4. Gotten(r[n-1], limits[n]).letter \notin NotLetter
  <2>1. \A x \in TypeLetters : x \notin NotLetter
    BY DEF TypeLetters, NotLetter
  <2> QED
    BY <1>2, <1>3, <2>1
<1>5. FitUpTo(text, limits, m)
  BY <1>1, <1>4, LetterIsLast
<1>6. \A k \in 1..m : Gotten(r[k-1], limits[k]) = text[k]
  <2> HIDE DEF m
  <2> QED
    BY <1>1, <1>2, <1>5, FittingIsRead
<1> QED
  BY <1>2, <1>3, <1>6 DEF SameFields

\* The first field is no greater than it is written.
LEMMA FirstField ==
  ASSUME NEW text \in Seq(Field), NEW limits \in Seq(Nat), Len(limits) >= 1
  PROVE  /\ text = << >> => Fields(text, limits)[1].num = 0
         /\ text # << >> => Fields(text, limits)[1].num <= text[1].num
<1>1. PICK r : Reads(r, text, limits) /\ FieldsFrom(Fields(text, limits), r, limits)
  BY FieldsOf
<1>2. 1 \in 1..Len(limits) /\ 1 - 1 = 0 /\ limits[1] \in Nat
  OBVIOUS
<1>3. Fields(text, limits)[1] = Gotten(r[0], limits[1])
  BY <1>1, <1>2 DEF FieldsFrom
<1>4. r[0] \in Accs /\ r[0].left = text
  BY <1>1, <1>2 DEF Reads
<1>5. Foremost(r[0]) \in Field /\ Foremost(r[0]).len \in Nat /\ Foremost(r[0]).num \in Nat
  BY <1>4, ForemostIsField DEF Field
<1>6. Gotten(r[0], limits[1]).num <= Foremost(r[0]).num
  <2>1. CASE Foremost(r[0]).len <= limits[1]
    BY <1>5, <2>1 DEF Gotten
  <2>2. CASE ~(Foremost(r[0]).len <= limits[1])
    <3>1. Foremost(r[0]).len > limits[1]
      BY <1>2, <1>5, <2>2
    <3>2. Cut(Foremost(r[0]), limits[1]).num <= Foremost(r[0]).num
      BY <1>2, <1>5, <3>1, CutIsField
    <3> QED
      BY <2>2, <3>2 DEF Gotten
  <2> QED
    BY <2>1, <2>2
<1>7. ASSUME text = << >>
      PROVE  Fields(text, limits)[1].num = 0
  <2>1. Foremost(r[0]) = Empty
    BY <1>4, <1>7 DEF Foremost
  <2>2. Empty.len = 0 /\ Empty.num = 0
    BY DEF Empty
  <2> QED
    BY <1>2, <1>3, <2>1, <2>2 DEF Gotten
<1>8. ASSUME text # << >>
      PROVE  Fields(text, limits)[1].num <= text[1].num
  <2>1. Foremost(r[0]) = text[1]
    BY <1>4, <1>8, TailIs DEF Foremost
  <2> QED
    BY <1>3, <1>6, <2>1
<1> QED
  BY <1>7, <1>8

\* The limits of the parsers.
LEMMA Limits ==
  /\ <<5, 4>> \in Seq(Nat) /\ Len(<<5, 4>>) = 2
  /\ <<4, 2>> \in Seq(Nat) /\ Len(<<4, 2>>) = 2
  /\ <<3, 6, 6>> \in Seq(Nat) /\ Len(<<3, 6, 6>>) = 3
  /\ <<3, 6, 5, 1>> \in Seq(Nat) /\ Len(<<3, 6, 5, 1>>) = 4
  /\ <<3, 6, 5, 5, 1>> \in Seq(Nat) /\ Len(<<3, 6, 5, 5, 1>>) = 5
  OBVIOUS

-----------------------------------------------------------------------------
(* Addresses                                                               *)

NetValues == [port : Ports, gateway : Gateways]

\* net is an address that the text may stand for.
NetIs(net, text) == net \in NetValues /\ (NetFits(text) => net.gateway = WrittenGateway(text))

\* What atol and strtol make of a field.
LEMMA Numbers10 ==
  ASSUME NEW f \in Field
  PROVE  /\ f.num \in Nat /\ atol(f) \in Nat /\ atol(f) <= f.num
         /\ atol(f) # 0 => atol(f) = f.num
         /\ ~f.hex => atol(f) = f.num
         /\ strtol(f) = f.num
<1>1. f.num \in Nat
  BY DEF Field
<1> QED
  BY <1>1 DEF atol, strtol

\* What a parser returns: a value, if the text is as it must be.
Parsed(holds, value) == IF holds THEN [ok |-> TRUE, value |-> value] ELSE Bad

\* What is accepted has been tested.
LEMMA ParsedValue ==
  ASSUME NEW holds \in BOOLEAN, NEW value, NEW p, p = Parsed(holds, value), p.ok
  PROVE  holds /\ p.value = value
<1>1. ~Bad.ok
  BY DEF Bad
<1>2. CASE holds
  BY <1>2 DEF Parsed
<1>3. CASE ~holds
  BY <1>1, <1>3 DEF Parsed
<1> QED
  BY <1>2, <1>3

NetHolds(text, port, gateway) ==
  text.type \in {"udp", "tcp"} /\ text.ip /\ port \in Ports /\ gateway \in Gateways

NetOf(port, gateway) == [port |-> port, gateway |-> gateway]

\* netaddr_from_string tests a port and a gateway,
LEMMA NetIsParsed ==
  ASSUME NEW text, NEW f, f = Fields(text.fields, <<5, 4>>)
  PROVE  netaddr_from_string(text)
           = Parsed(NetHolds(text, atol(f[1]), atol(f[2])), NetOf(atol(f[1]), atol(f[2])))
  BY DEF netaddr_from_string, Parsed, NetHolds, NetOf

\* makes an address of them,
LEMMA NetOfIs ==
  ASSUME NEW p \in Ports, NEW g \in Gateways
  PROVE  NetOf(p, g) \in NetValues /\ NetOf(p, g).gateway = g
  BY DEF NetOf, NetValues

\* and it is the one of the text.
LEMMA NetIsRead ==
  ASSUME NEW text, text.fields \in Seq(Field), netaddr_from_string(text).ok
  PROVE  NetIs(netaddr_from_string(text).value, text)
<1> DEFINE f == Fields(text.fields, <<5, 4>>)
           p == atol(f[1])
           g == atol(f[2])
           net == netaddr_from_string(text)
<1>1. f \in Seq(Field) /\ Len(f) = 2
  BY FieldsAreFields, Limits
<1>2. NetFits(text) => f[2] = text.fields[2]
  <2>1. ASSUME Fits(text.fields, <<5, 4>>)
        PROVE  SameFields(f, text.fields, 2)
    BY <2>1, FieldsThatFit, Limits
  <2> QED
    BY <2>1 DEF NetFits, SameFields
<1>3. f[2] \in Field
  BY <1>1
<1>4. g # 0 => g = f[2].num
  BY <1>3, Numbers10
<1>5. net = Parsed(NetHolds(text, p, g), NetOf(p, g))
  BY NetIsParsed
<1> HIDE DEF f, p, g, net
<1>6. NetHolds(text, p, g) \in BOOLEAN
  BY DEF NetHolds
<1>7. NetHolds(text, p, g) /\ net.value = NetOf(p, g)
  <2>1. net.ok
    BY DEF net
  <2> QED
    BY <1>5, <1>6, <2>1, ParsedValue
<1>8. p \in Ports /\ g \in Gateways
  BY <1>7 DEF NetHolds
<1>9. NetOf(p, g) \in NetValues /\ NetOf(p, g).gateway = g
  BY <1>8, NetOfIs
<1>10. NetFits(text) => g = WrittenGateway(text)
  <2>1. g # 0
    BY <1>8 DEF Gateways
  <2> QED
    BY <1>2, <1>4, <2>1 DEF WrittenGateway
<1>11. NetIs(net.value, text)
  BY <1>7, <1>9, <1>10 DEF NetIs
<1> QED
  BY <1>11 DEF net

Addrs == [dev : Gateways, par : Word, idx : Word, cnt : Word, type : TypeLetters]

\* addr is an address that the text of n fields may stand for.
AddrIs(addr, text, n) ==
  /\ addr \in Addrs
  /\ HasFields(text, n) => /\ addr.dev = text[1].num
                           /\ addr.par = Narrow(text[2].num)
                           /\ ~text[3].hex => addr.idx = text[3].num

\* The conversion to uint16_t changes no word and makes no number greater.
LEMMA NarrowIsWord ==
  ASSUME NEW n \in Nat
  PROVE  Narrow(n) \in Word /\ Narrow(n) <= n /\ (n \in Word => Narrow(n) = n)
<1> DEFINE w == 65536
<1>1. w \in Nat \ {0} /\ Word = 0 .. w-1
  BY SMT DEF Word
<1> HIDE DEF w
<1>2. n % w \in 0 .. w-1 /\ n % w <= n /\ (n \in 0 .. w-1 => n % w = n)
  BY <1>1
<1>3. Narrow(n) = n % w
  BY SMT DEF Narrow, w
<1> QED
  BY <1>1, <1>2, <1>3

\* The conversion to uint8_t.
LEMMA NarrowIsByte ==
  ASSUME NEW n \in Nat
  PROVE  Narrow8(n) \in Byte
  BY SMT DEF Narrow8, Byte

\* Zero is a word, and no gateway or device.
LEMMA ZeroIsWord == 0 \in Word /\ 0 \in Byte /\ 0 \notin Gateways
  BY SMT DEF Word, Byte, Gateways

\* The indexes that are accepted are the words.
LEMMA IndexesAreWords == Indexes = Word
  BY SMT DEF Indexes, Word

AddrHolds(dev, par, idx, cnt, type) ==
  dev \in Gateways /\ par > 0 /\ idx \in Word /\ cnt \in Word /\ type \in TypeLetters

AddrOf(dev, par, idx, cnt, type) ==
  [dev |-> dev, par |-> Narrow(par), idx |-> idx, cnt |-> cnt, type |-> type]

\* The address that is made of a device, a parameter, an index and a count.
LEMMA AddrOfIs ==
  ASSUME NEW d \in Gateways, NEW p \in Nat, NEW i \in Word, NEW c \in Word, NEW t \in TypeLetters
  PROVE  /\ AddrOf(d, p, i, c, t) \in Addrs
         /\ AddrOf(d, p, i, c, t).dev = d
         /\ AddrOf(d, p, i, c, t).par = Narrow(p)
         /\ AddrOf(d, p, i, c, t).idx = i
<1>1. Narrow(p) \in Word
  BY NarrowIsWord
<1>2. AddrOf(d, p, i, c, t) \in Addrs
  BY <1>1 DEF AddrOf, Addrs
<1> QED
  BY <1>2 DEF AddrOf

\* The fields that an address is made of are those of the text.
LEMMA AddrFields ==
  ASSUME NEW text \in Seq(Field), NEW limits \in Seq(Nat), NEW n \in Nat, n = Len(limits), n >= 4,
         NEW f, f = Fields(text, limits), NEW c, NEW p,
         p = Parsed(AddrHolds(atol(f[1]), strtol(f[2]), atol(f[3]), c, f[n].letter),
                    AddrOf(atol(f[1]), strtol(f[2]), atol(f[3]), c, f[n].letter)),
         p.ok
  PROVE  AddrIs(p.value, text, n)
<1> DEFINE d == atol(f[1])
           r == strtol(f[2])
           i == atol(f[3])
           t == f[n].letter
<1>1. f \in Seq(Field) /\ Len(f) = n
  BY FieldsAreFields
<1>2. f[1] \in Field /\ f[2] \in Field /\ f[3] \in Field
  BY <1>1
<1>3. /\ d # 0 => d = f[1].num
      /\ r = f[2].num /\ r \in Nat
      /\ ~f[3].hex => i = f[3].num
  BY <1>2, Numbers10
<1>4. p = Parsed(AddrHolds(d, r, i, c, t), AddrOf(d, r, i, c, t))
  OBVIOUS
<1>5. HasFields(text, n) /\ t \in TypeLetters
        => f[1] = text[1] /\ f[2] = text[2] /\ f[3] = text[3]
  <2>1. ASSUME HasFields(text, n), t \in TypeLetters
        PROVE  SameFields(f, text, n - 1)
    <3>1. n >= 1
      OBVIOUS
    <3> QED
      BY <2>1, <3>1, FieldsBeforeLetter
  <2>2. 1 \in 1 .. n-1 /\ 2 \in 1 .. n-1 /\ 3 \in 1 .. n-1
    OBVIOUS
  <2> QED
    BY <2>1, <2>2 DEF SameFields
<1> HIDE DEF d, r, i, t
<1>6. AddrHolds(d, r, i, c, t) \in BOOLEAN
  BY DEF AddrHolds
<1>7. AddrHolds(d, r, i, c, t) /\ p.value = AddrOf(d, r, i, c, t)
  BY <1>4, <1>6, ParsedValue
<1>8. d \in Gateways /\ i \in Word /\ c \in Word /\ t \in TypeLetters
  BY <1>7 DEF AddrHolds
<1>9. /\ p.value \in Addrs
      /\ p.value.dev = d /\ p.value.par = Narrow(r) /\ p.value.idx = i
  BY <1>3, <1>7, <1>8, AddrOfIs, SMTT(60)
<1>10. d # 0
  BY <1>8 DEF Gateways
<1>11. HasFields(text, n) => /\ d = text[1].num /\ r = text[2].num
                             /\ ~text[3].hex => i = text[3].num
  BY <1>3, <1>5, <1>8, <1>10
<1> QED
  BY <1>9, <1>11 DEF AddrIs

\* paraddr_from_string: the address is the one of the text.
LEMMA ParIsRead ==
  ASSUME NEW text \in Seq(Field), paraddr_from_string(text).ok
  PROVE  AddrIs(paraddr_from_string(text).value, text, 4)
<1> DEFINE limits == <<3, 6, 5, 1>>
           f == Fields(text, limits)
           p == paraddr_from_string(text)
           n == 4
           c == 0
<1>1. limits \in Seq(Nat) /\ n = Len(limits) /\ n \in Nat /\ n >= 4 /\ c \in Word
  BY Limits, ZeroIsWord
<1>2. p = Parsed(AddrHolds(atol(f[1]), strtol(f[2]), atol(f[3]), c, f[n].letter),
                 AddrOf(atol(f[1]), strtol(f[2]), atol(f[3]), c, f[n].letter))
  <2>1. 0 \in Word
    BY ZeroIsWord
  <2> QED
    BY <2>1, IndexesAreWords DEF paraddr_from_string, Parsed, AddrHolds, AddrOf
<1>3. p.ok
  OBVIOUS
<1> HIDE DEF f, p, limits, n, c
<1>4. f = Fields(text, limits)
  BY DEF f
<1>5. AddrIs(p.value, text, n)
  BY <1>1, <1>2, <1>3, <1>4, AddrFields
<1> QED
  BY <1>5 DEF p, n

\* archaddr_from_string: likewise.
LEMMA ArchIsRead ==
  ASSUME NEW text \in Seq(Field), archaddr_from_string(text).ok
  PROVE  AddrIs(archaddr_from_string(text).value, text, 5)
<1> DEFINE limits == <<3, 6, 5, 5, 1>>
           f == Fields(text, limits)
           p == archaddr_from_string(text)
           n == 5
           c == atol(f[4])
<1>1. limits \in Seq(Nat) /\ n = Len(limits) /\ n \in Nat /\ n >= 4
  BY Limits
<1>2. p = Parsed(AddrHolds(atol(f[1]), strtol(f[2]), atol(f[3]), c, f[n].letter),
                 AddrOf(atol(f[1]), strtol(f[2]), atol(f[3]), c, f[n].letter))
  BY IndexesAreWords DEF archaddr_from_string, Parsed, AddrHolds, AddrOf
<1>3. p.ok
  OBVIOUS
<1>4. f = Fields(text, limits)
  OBVIOUS
<1> HIDE DEF f, p, limits, n, c
<1>5. AddrIs(p.value, text, n)
  BY <1>1, <1>2, <1>3, <1>4, AddrFields
<1> QED
  BY <1>5 DEF p, n

ClockAddrs == [dev : Gateways, date : Word, time : Word]

\* dt holds the addresses of date and time that the text may stand for.
ClockIs(dt, text) ==
  /\ dt \in ClockAddrs
  /\ Fits(text, <<3, 6, 6>>) => /\ dt.dev = text[1].num
                                /\ dt.date = Narrow(text[2].num)
                                /\ dt.time = Narrow(text[3].num)

ClockHolds(dev, date, time) == dev \in Gateways /\ date > 0 /\ time > 0
ClockOf(dev, date, time) == [dev |-> dev, date |-> Narrow(date), time |-> Narrow(time)]

\* The addresses that are made of a device and two registers.
LEMMA ClockOfIs ==
  ASSUME NEW d \in Gateways, NEW r \in Nat, NEW t \in Nat
  PROVE  /\ ClockOf(d, r, t) \in ClockAddrs
         /\ ClockOf(d, r, t).dev = d
         /\ ClockOf(d, r, t).date = Narrow(r)
         /\ ClockOf(d, r, t).time = Narrow(t)
<1>1. Narrow(r) \in Word /\ Narrow(t) \in Word
  BY NarrowIsWord
<1>2. ClockOf(d, r, t) \in ClockAddrs
  BY <1>1 DEF ClockOf, ClockAddrs
<1> QED
  BY <1>2 DEF ClockOf

\* dtaddr_from_string: the addresses are those of the text.
LEMMA ClockIsRead ==
  ASSUME NEW text \in Seq(Field), dtaddr_from_string(text).ok
  PROVE  ClockIs(dtaddr_from_string(text).value, text)
<1> DEFINE limits == <<3, 6, 6>>
           f == Fields(text, limits)
           p == dtaddr_from_string(text)
           d == atol(f[1])
           r == strtol(f[2])
           t == strtol(f[3])
<1>1. limits \in Seq(Nat) /\ Len(limits) = 3 /\ f \in Seq(Field) /\ Len(f) = 3
  BY Limits, FieldsAreFields
<1>2. f[1] \in Field /\ f[2] \in Field /\ f[3] \in Field
  BY <1>1
<1>3. d # 0 => d = f[1].num
  BY <1>2, Numbers10
<1>4. r = f[2].num /\ r \in Nat /\ t = f[3].num /\ t \in Nat
  BY <1>2, Numbers10
<1>5. Fits(text, limits) => f[1] = text[1] /\ f[2] = text[2] /\ f[3] = text[3]
  <2>1. ASSUME Fits(text, limits)
        PROVE  SameFields(f, text, 3)
    BY <1>1, <2>1, FieldsThatFit
  <2> QED
    BY <2>1 DEF SameFields
<1>6. p = Parsed(ClockHolds(d, r, t), ClockOf(d, r, t))
  BY DEF dtaddr_from_string, Parsed, ClockHolds, ClockOf
<1> HIDE DEF f, p, d, r, t, limits
<1>7. ClockHolds(d, r, t) \in BOOLEAN
  BY DEF ClockHolds
<1>8. ClockHolds(d, r, t) /\ p.value = ClockOf(d, r, t)
  <2>1. p.ok
    BY DEF p
  <2> QED
    BY <1>6, <1>7, <2>1, ParsedValue
<1>9. d \in Gateways /\ d # 0
  BY <1>8 DEF ClockHolds, Gateways
<1>10. p.value \in ClockAddrs /\ p.value.dev = d /\ p.value.date = Narrow(r)
       /\ p.value.time = Narrow(t)
  BY <1>4, <1>8, <1>9, ClockOfIs, SMTT(60)
<1>11. Fits(text, limits) => d = text[1].num /\ r = text[2].num /\ t = text[3].num
  BY <1>3, <1>4, <1>5, <1>9
<1>12. ClockIs(p.value, text)
  BY <1>10, <1>11 DEF ClockIs, limits
<1> QED
  BY <1>12 DEF p

-----------------------------------------------------------------------------
(* Intervals                                                               *)

Intervals == [type : {"m", "d", "h", "i"}, depth : Word, interval : Byte]

\* int is a valid interval, and the ring it describes is no deeper than written.
IntervalIs(int, text) ==
  /\ int \in Intervals
  /\ int.type = text[1].letter
  /\ int.type # "d" => int.depth # 0 /\ text[2].num \in Nat /\ int.depth <= text[2].num

\* A valid interval has a ring, but for the days, whose ring may be left out.
LEMMA ValidIntervals ==
  ASSUME NEW type, NEW depth, NEW interval, intcfg_is_valid(type, depth, interval)
  PROVE  type \in {"m", "d", "h", "i"} /\ (type # "d" => depth # 0)
<1>1. CASE type = "m"
  BY <1>1 DEF intcfg_is_valid
<1>2. CASE type = "d"
  BY <1>2
<1>3. CASE type = "h"
  BY SMT, <1>3 DEF intcfg_is_valid
<1>4. CASE type = "i"
  <2>1. depth \in 1..8191
    BY SMT, <1>4 DEF intcfg_is_valid
  <2>2. depth # 0
    BY SMT, <2>1
  <2> QED
    BY <1>4, <2>2
<1>5. CASE type \notin {"m", "d", "h", "i"}
  BY <1>5 DEF intcfg_is_valid
<1> QED
  BY <1>1, <1>2, <1>3, <1>4, <1>5

IntervalOf(type, depth, interval) == [type |-> type, depth |-> depth, interval |-> interval]

\* The interval that is made of a type, a depth and a length.
LEMMA IntervalOfIs ==
  ASSUME NEW t \in {"m", "d", "h", "i"}, NEW d \in Word, NEW i \in Byte
  PROVE  /\ IntervalOf(t, d, i) \in Intervals
         /\ IntervalOf(t, d, i).type = t /\ IntervalOf(t, d, i).depth = d
<1>1. IntervalOf(t, d, i) \in Intervals
  BY DEF IntervalOf, Intervals
<1> QED
  BY <1>1 DEF IntervalOf

\* intcfg_from_string: the interval is the one of the text.
LEMMA IntervalIsRead ==
  ASSUME NEW text \in Seq(Field), text # << >>, intcfg_from_string(text).ok
  PROVE  IntervalIs(intcfg_from_string(text).value, text)
<1> DEFINE limits == <<4, 2>>
           rest == Tail(text)
           f == Fields(rest, limits)
           p == intcfg_from_string(text)
           d == Narrow(atol(f[1]))
           i == Narrow8(atol(f[2]))
           t == Head(text).letter
<1>1. /\ rest \in Seq(Field) /\ limits \in Seq(Nat) /\ Len(limits) = 2
      /\ t = text[1].letter
      /\ rest # << >> => rest[1] = text[2]
  BY Limits
<1>2. f \in Seq(Field) /\ Len(f) = 2
  BY <1>1, FieldsAreFields
<1>3. f[1] \in Field /\ f[2] \in Field
  BY <1>2
<1>4. atol(f[1]) \in Nat /\ atol(f[1]) <= f[1].num /\ f[1].num \in Nat /\ atol(f[2]) \in Nat
  BY <1>3, Numbers10
<1>5. d \in Word /\ d <= f[1].num /\ i \in Byte /\ d \in Nat
  <2>1. d \in Word /\ d <= atol(f[1]) /\ i \in Byte
    BY <1>4, NarrowIsWord, NarrowIsByte
  <2>2. d \in Nat
    BY <2>1, WordFits
  <2> QED
    BY <1>4, <2>1, <2>2
<1>6. /\ rest = << >> => f[1].num = 0
      /\ rest # << >> => f[1].num <= rest[1].num
  <2>1. Len(limits) >= 1
    BY <1>1
  <2> QED
    BY <1>1, <2>1, FirstField
<1>7. p = IF intcfg_is_valid(t, d, i) THEN [ok |-> TRUE, value |-> IntervalOf(t, d, i)] ELSE Bad
  BY DEF intcfg_from_string, IntervalOf
<1> HIDE DEF f, p, d, i, t, limits, rest
<1>8. intcfg_is_valid(t, d, i)
  <2>1. p.ok /\ ~Bad.ok
    BY DEF p, Bad
  <2>2. CASE ~intcfg_is_valid(t, d, i)
    BY <1>7, <2>1, <2>2
  <2> QED
    BY <2>2
<1>9. intcfg_is_valid(t, d, i) /\ p.value = IntervalOf(t, d, i)
  BY <1>7, <1>8
<1>10. t \in {"m", "d", "h", "i"} /\ (t # "d" => d # 0)
  BY <1>9, ValidIntervals
<1>11. p.value \in Intervals /\ p.value.type = t /\ p.value.depth = d
  BY <1>5, <1>9, <1>10, IntervalOfIs
<1>12. t # "d" => text[2].num \in Nat /\ d <= text[2].num
  <2>1. ASSUME t # "d"
        PROVE  text[2].num \in Nat /\ d <= text[2].num
    <3>1. d # 0
      BY <1>10, <2>1
    <3>2. rest # << >>
      BY <1>4, <1>5, <1>6, <3>1
    <3>3. rest[1].num \in Nat
      <4>1. rest[1] \in Field
        BY <1>1, <3>2
      <4> QED
        BY <4>1 DEF Field
    <3> QED
      BY <1>1, <1>4, <1>5, <1>6, <3>2, <3>3
  <2> QED
    BY <2>1
<1>13. IntervalIs(p.value, text)
  BY <1>1, <1>10, <1>11, <1>12 DEF IntervalIs
<1> QED
  BY <1>13 DEF p

-----------------------------------------------------------------------------
(* Checks                                                                  *)

CheckNames == {"difference", "minutes", "indexes"}
CheckToken == [name : STRING, value : Int]
CheckTokens == Seq(CheckToken)
Known == [ok : BOOLEAN, stop : BOOLEAN, avail : SUBSET CheckNames, diff : Int, minutes : Int]

\* The names of the first k tokens, and the number behind the last of one name.
Named(tokens, k) == {tokens[i].name : i \in 1..k}
LastIs(tokens, k, name, value) ==
  \A i \in 1..k : tokens[i].name = name /\ (\A j \in i+1 .. k : tokens[j].name # name)
                    => tokens[i].value = value

\* What is known after k tokens.
KnownAs(acc, tokens, k) ==
  /\ acc \in Known
  /\ acc.ok /\ acc.stop => acc.avail = {} /\ k >= 1 /\ tokens[1].name = "none"
  /\ acc.ok /\ ~acc.stop => /\ acc.avail = Named(tokens, k)
                            /\ LastIs(tokens, k, "difference", acc.diff)
                            /\ LastIs(tokens, k, "minutes", acc.minutes)

\* The names up to a token,
LEMMA OneMoreName ==
  ASSUME NEW tokens, NEW k \in Nat \ {0}
  PROVE  Named(tokens, k) = Named(tokens, k - 1) \cup {tokens[k].name}
<1>1. 1..k = (1 .. k-1) \cup {k}
  OBVIOUS
<1> QED
  BY <1>1 DEF Named

\* and the last value of a name, when the token has another,
LEMMA AnotherName ==
  ASSUME NEW tokens, NEW k \in Nat \ {0}, NEW name, NEW value, LastIs(tokens, k - 1, name, value),
         tokens[k].name # name
  PROVE  LastIs(tokens, k, name, value)
<1> SUFFICES ASSUME NEW i \in 1..k, tokens[i].name = name, \A j \in i+1 .. k : tokens[j].name # name
             PROVE  tokens[i].value = value
  BY DEF LastIs
<1>1. i \in 1 .. k-1
  OBVIOUS
<1>2. \A j \in i+1 .. k-1 : j \in i+1 .. k
  OBVIOUS
<1> QED
  BY <1>1, <1>2 DEF LastIs

\* and when it has this one.
LEMMA SameName ==
  ASSUME NEW tokens, NEW k \in Nat \ {0}, NEW name, tokens[k].name = name
  PROVE  LastIs(tokens, k, name, tokens[k].value)
<1> SUFFICES ASSUME NEW i \in 1..k, \A j \in i+1 .. k : tokens[j].name # name
             PROVE  tokens[i].value = tokens[k].value
  BY DEF LastIs
<1>1. i = k
  <2>1. CASE i # k
    <3>1. k \in i+1 .. k
      BY <2>1
    <3> QED
      BY <3>1
  <2> QED
    BY <2>1
<1> QED
  BY <1>1

\* Nothing is known in front of the tokens.
LEMMA NoneKnown ==
  ASSUME NEW tokens \in CheckTokens
  PROVE  KnownAs(NoChecks, tokens, 0)
<1>1. Named(tokens, 0) = {}
  BY DEF Named
<1>2. \A name, value : LastIs(tokens, 0, name, value)
  BY DEF LastIs
<1>3. NoChecks \in Known
  BY DEF NoChecks, Known
<1>4. NoChecks.avail = {} /\ ~NoChecks.stop
  BY DEF NoChecks
<1> QED
  BY <1>1, <1>2, <1>3, <1>4 DEF KnownAs

\* One turn of the loop over the tokens keeps the types.
LEMMA TokenKeepsTypes ==
  ASSUME NEW token \in CheckToken, NEW acc \in Known
  PROVE  ReadToken(acc, token) \in Known
<1> DEFINE next == ReadToken(acc, token)
           positive == token.value > 0
<1>1. token.value \in Int
  BY DEF CheckToken
<1>2. positive \in BOOLEAN
  BY <1>1
<1>3. next \in {acc, Stop(acc),
               [acc EXCEPT !.ok = positive, !.diff = token.value, !.avail = @ \cup {"difference"}],
               [acc EXCEPT !.ok = positive, !.minutes = token.value, !.avail = @ \cup {"minutes"}],
               [acc EXCEPT !.avail = @ \cup {"indexes"}],
               [acc EXCEPT !.ok = FALSE]}
  BY DEF ReadToken
<1> HIDE DEF positive, next
<1>4. [acc EXCEPT !.ok = positive, !.diff = token.value, !.avail = @ \cup {"difference"}] \in Known
  BY <1>1, <1>2 DEF Known, CheckNames
<1>5. [acc EXCEPT !.ok = positive, !.minutes = token.value, !.avail = @ \cup {"minutes"}] \in Known
  BY <1>1, <1>2 DEF Known, CheckNames
<1>6. [acc EXCEPT !.avail = @ \cup {"indexes"}] \in Known /\ [acc EXCEPT !.ok = FALSE] \in Known
  BY DEF Known, CheckNames
<1>7. Stop(acc) \in Known
  BY DEF Stop, Known
<1>8. next \in Known
  BY <1>3, <1>4, <1>5, <1>6, <1>7
<1> QED
  BY <1>8 DEF next

\* It keeps what is known, too.
LEMMA TokenIsRead ==
  ASSUME NEW tokens \in CheckTokens, NEW k \in 1..Len(tokens), NEW acc, KnownAs(acc, tokens, k - 1)
  PROVE  KnownAs(ReadToken(acc, tokens[k]), tokens, k)
<1> DEFINE token == tokens[k]
           next == ReadToken(acc, token)
<1>1. k \in Nat \ {0} /\ k - 1 \in Nat /\ token.value \in Int
  <2>1. k \in Nat \ {0} /\ k - 1 \in Nat /\ token \in CheckToken
    BY DEF CheckTokens
  <2> HIDE DEF token
  <2>2. token.value \in Int
    BY <2>1 DEF CheckToken
  <2> QED
    BY <2>1, <2>2
<1>2. acc \in Known
  BY DEF KnownAs
<1>3. Named(tokens, k) = Named(tokens, k - 1) \cup {token.name}
  BY <1>1, OneMoreName
<1>4. \A name, value : LastIs(tokens, k - 1, name, value) /\ token.name # name
                         => LastIs(tokens, k, name, value)
  BY <1>1, AnotherName
<1>5. \A name : token.name = name => LastIs(tokens, k, name, token.value)
  BY <1>1, SameName
<1>8. next \in Known
  <2>1. token \in CheckToken
    BY DEF CheckTokens
  <2> HIDE DEF token
  <2> QED
    BY <1>2, <2>1, TokenKeepsTypes
<1> HIDE DEF token
<1>6. CASE acc.stop \/ ~acc.ok
  <2>1. next = acc
    BY <1>6 DEF ReadToken
  <2>2. k - 1 >= 1 => k >= 1
    BY <1>1
  <2>3. acc.ok /\ acc.stop => acc.avail = {} /\ k - 1 >= 1 /\ tokens[1].name = "none"
    BY DEF KnownAs
  <2>4. acc.ok => acc.stop
    BY <1>6
  <2> HIDE DEF next
  <2> QED
    BY <1>2, <2>1, <2>2, <2>3, <2>4 DEF KnownAs, token, next
<1>7. CASE ~acc.stop /\ acc.ok
  <2>1. /\ acc.avail = Named(tokens, k - 1)
        /\ LastIs(tokens, k - 1, "difference", acc.diff)
        /\ LastIs(tokens, k - 1, "minutes", acc.minutes)
    BY <1>7 DEF KnownAs
  <2>2. CASE token.name = "none"
    <3>1. next = Stop(acc)
      BY <1>7, <2>2 DEF ReadToken
    <3>2. next \in Known /\ next.stop /\ next.avail = acc.avail /\ (next.ok <=> acc.avail = {})
      BY <1>2, <1>8, <3>1 DEF Stop, Known
    <3> HIDE DEF next
    <3>3. ASSUME next.ok
          PROVE  k >= 1 /\ tokens[1].name = "none"
      <4>1. Named(tokens, k - 1) = {}
        BY <2>1, <3>2, <3>3
      <4>2. k = 1
        <5>1. CASE k # 1
          <6>1. 1 \in 1 .. k-1
            BY <1>1, <5>1
          <6>2. tokens[1].name \in Named(tokens, k - 1)
            BY <6>1 DEF Named
          <6> QED
            BY <4>1, <6>2
        <5> QED
          BY <5>1
      <4> QED
        BY <2>2, <4>2 DEF token
    <3> QED
      BY <3>2, <3>3 DEF KnownAs, next, token
  <2>3. CASE token.name = "difference"
    <3>1. next = [acc EXCEPT !.ok = token.value > 0, !.diff = token.value,
                             !.avail = @ \cup {"difference"}]
      BY <1>7, <2>3 DEF ReadToken
    <3>2. /\ next \in Known /\ ~next.stop /\ next.avail = acc.avail \cup {token.name}
          /\ next.diff = token.value /\ next.minutes = acc.minutes
      <4> DEFINE positive == token.value > 0
      <4>1. positive \in BOOLEAN
        BY <1>1
      <4> HIDE DEF positive
      <4>2. next = [acc EXCEPT !.ok = positive, !.diff = token.value,
                               !.avail = @ \cup {"difference"}]
        BY <3>1 DEF positive
      <4> HIDE DEF next
      <4> QED
        BY <1>2, <1>7, <1>8, <2>3, <4>2 DEF Known
    <3> HIDE DEF next
    <3>3. LastIs(tokens, k, "difference", next.diff)
      BY <1>5, <2>3, <3>2
    <3>4. LastIs(tokens, k, "minutes", next.minutes)
      BY <1>4, <2>1, <2>3, <3>2
    <3> QED
      BY <1>3, <2>1, <3>2, <3>3, <3>4 DEF KnownAs, next, token
  <2>4. CASE token.name = "minutes"
    <3>1. next = [acc EXCEPT !.ok = token.value > 0, !.minutes = token.value,
                             !.avail = @ \cup {"minutes"}]
      BY <1>7, <2>4 DEF ReadToken
    <3>2. /\ next \in Known /\ ~next.stop /\ next.avail = acc.avail \cup {token.name}
          /\ next.minutes = token.value /\ next.diff = acc.diff
      <4> DEFINE positive == token.value > 0
      <4>1. positive \in BOOLEAN
        BY <1>1
      <4> HIDE DEF positive
      <4>2. next = [acc EXCEPT !.ok = positive, !.minutes = token.value,
                               !.avail = @ \cup {"minutes"}]
        BY <3>1 DEF positive
      <4> HIDE DEF next
      <4> QED
        BY <1>2, <1>7, <1>8, <2>4, <4>2 DEF Known
    <3> HIDE DEF next
    <3>3. LastIs(tokens, k, "minutes", next.minutes)
      BY <1>5, <2>4, <3>2
    <3>4. LastIs(tokens, k, "difference", next.diff)
      BY <1>4, <2>1, <2>4, <3>2
    <3> QED
      BY <1>3, <2>1, <3>2, <3>3, <3>4 DEF KnownAs, next, token
  <2>5. CASE token.name = "indexes"
    <3>1. next = [acc EXCEPT !.avail = @ \cup {"indexes"}]
      BY <1>7, <2>5 DEF ReadToken
    <3>2. /\ next \in Known /\ ~next.stop /\ next.avail = acc.avail \cup {token.name}
          /\ next.diff = acc.diff /\ next.minutes = acc.minutes
      BY <1>2, <1>7, <1>8, <2>5, <3>1 DEF Known
    <3> HIDE DEF next
    <3>3. LastIs(tokens, k, "difference", next.diff) /\ LastIs(tokens, k, "minutes", next.minutes)
      BY <1>4, <2>1, <2>5, <3>2
    <3> QED
      BY <1>3, <2>1, <3>2, <3>3 DEF KnownAs, next, token
  <2>6. CASE token.name \notin {"none", "difference", "minutes", "indexes"}
    <3>1. next = [acc EXCEPT !.ok = FALSE]
      BY <1>7, <2>6 DEF ReadToken
    <3>2. next \in Known /\ ~next.ok
      BY <1>2, <1>8, <3>1 DEF Known
    <3> HIDE DEF next
    <3> QED
      BY <3>2 DEF KnownAs, next, token
  <2> QED
    BY <2>2, <2>3, <2>4, <2>5, <2>6
<1> QED
  BY <1>2, <1>6, <1>7 DEF Known

\* The loop over the tokens of an option.
LEMMA ChecksAreRead ==
  ASSUME NEW tokens \in CheckTokens
  PROVE  KnownAs(ReadingChecks(tokens)[Len(tokens)], tokens, Len(tokens))
<1> DEFINE n == Len(tokens)
           step == [k \in 1..n |-> [acc \in Known |-> ReadToken(acc, tokens[k])]]
           Read(h) == h = [k \in 0..n |-> IF k = 0 THEN NoChecks ELSE ReadToken(h[k-1], tokens[k])]
<1>1. n \in Nat /\ \A k \in 1..n : tokens[k] \in CheckToken
  BY DEF CheckTokens
<1>2. step \in [1..n -> [Known -> Known]]
  <2>1. \A k \in 1..n, acc \in Known : ReadToken(acc, tokens[k]) \in Known
    BY <1>1, TokenKeepsTypes
  <2> HIDE DEF n
  <2> QED
    BY <2>1
<1>3. \A k \in 1..n, acc \in Known : step[k][acc] = ReadToken(acc, tokens[k])
  OBVIOUS
<1>4. NoChecks \in Known /\ KnownAs(NoChecks, tokens, 0)
  BY NoneKnown DEF KnownAs
<1> HIDE DEF step, n
<1>5. PICK t : t \in [0..n -> Known] /\ t[0] = NoChecks /\ \A k \in 1..n : t[k] = step[k][t[k-1]]
  <2> HIDE DEF Read
  <2>1. PICK t : Turns(t, Known, NoChecks, n, step)
    BY <1>1, <1>2, <1>4, Loop
  <2> QED
    BY <2>1 DEF Turns
<1>6. ASSUME NEW k \in 1..n
      PROVE  t[k] = ReadToken(t[k-1], tokens[k])
  <2>1. t[k-1] \in Known
    BY <1>1, <1>5
  <2> QED
    BY <1>3, <1>5, <2>1
<1>7. Read(t)
  <2> DEFINE c == [k \in 0..n |-> IF k = 0 THEN NoChecks ELSE ReadToken(t[k-1], tokens[k])]
  <2>1. ASSUME NEW k \in 0..n
        PROVE  t[k] = c[k]
    <3>1. CASE k = 0
      BY <1>5, <3>1
    <3>2. CASE k # 0
      <4>1. k \in 1..n
        BY <1>1, <3>2
      <4> QED
        BY <1>6, <3>2, <4>1
    <3> QED
      BY <3>1, <3>2
  <2>2. t = [k \in 0..n |-> t[k]] /\ c = [k \in 0..n |-> c[k]]
    BY <1>5
  <2>3. t = c
    <3> HIDE DEF c
    <3> QED
      BY <2>1, <2>2
  <2> QED
    BY <2>3
<1> DEFINE g == ReadingChecks(tokens)
<1>8. Read(g)
  <2>1. g = CHOOSE h : Read(h)
    BY DEF ReadingChecks, n
  <2> HIDE DEF Read
  <2>2. Read(CHOOSE h : Read(h))
    BY <1>7
  <2> HIDE DEF g
  <2> QED
    BY <2>1, <2>2
<1> HIDE DEF g
<1>9. g[0] = NoChecks /\ \A k \in 1..n : g[k] = ReadToken(g[k-1], tokens[k])
  <2>1. 0 \in 0..n /\ \A k \in 1..n : k \in 0..n /\ k # 0
    BY <1>1
  <2>2. \A k \in 0..n : g[k] = IF k = 0 THEN NoChecks ELSE ReadToken(g[k-1], tokens[k])
    BY <1>8
  <2> HIDE DEF Read
  <2> QED
    BY <2>1, <2>2
<1> DEFINE P == {k \in 0..n : KnownAs(g[k], tokens, k)}
<1>10. 0 \in P
  BY <1>1, <1>4, <1>9
<1>11. \A k \in 0 .. n-1 : k \in P => k + 1 \in P
  <2>1. ASSUME NEW k \in 0 .. n-1, k \in P
        PROVE  k + 1 \in P
    <3> DEFINE x == k + 1
    <3>1. x \in 1..n /\ x \in 0..n /\ x - 1 = k
      BY <1>1
    <3> HIDE DEF x
    <3>2. KnownAs(g[x - 1], tokens, x - 1) /\ g[x] = ReadToken(g[x - 1], tokens[x])
      BY <1>9, <2>1, <3>1
    <3>3. KnownAs(ReadToken(g[x - 1], tokens[x]), tokens, x)
      <4>1. x \in 1..Len(tokens)
        BY <3>1 DEF n
      <4> QED
        BY <3>2, <4>1, TokenIsRead
    <3>4. x \in P
      BY <3>1, <3>2, <3>3
    <3> QED
      BY <3>4 DEF x
  <2> QED
    BY <2>1
<1> HIDE DEF P
<1>12. \A k \in 0..n : k \in P
  BY <1>1, <1>10, <1>11, UpTo
<1>13. n \in P
  BY <1>1, <1>12
<1> QED
  BY <1>13 DEF P, n, g

\* What an option names is checked, with the numbers named last.
ChecksAre(checks, tokens) ==
  /\ checks \in [avail : SUBSET CheckNames, diff : Int, minutes : Int]
  /\ \/ checks.avail = {} /\ tokens # << >> /\ tokens[1].name = "none"
     \/ /\ checks.avail = Named(tokens, Len(tokens))
        /\ LastIs(tokens, Len(tokens), "difference", checks.diff)
        /\ LastIs(tokens, Len(tokens), "minutes", checks.minutes)

\* checks_from_string: the checks are those of the text.
LEMMA ChecksAreKnown ==
  ASSUME NEW tokens \in CheckTokens, checks_from_string(tokens).ok
  PROVE  ChecksAre(checks_from_string(tokens).value, tokens)
<1> DEFINE acc == ReadingChecks(tokens)[Len(tokens)]
           v == [avail |-> acc.avail, diff |-> acc.diff, minutes |-> acc.minutes]
           n == Len(tokens)
<1>1. KnownAs(acc, tokens, n) /\ n \in Nat /\ (n >= 1 => tokens # << >>)
  BY ChecksAreRead DEF CheckTokens
<1>2. checks_from_string(tokens) = IF acc.ok THEN [ok |-> TRUE, value |-> v] ELSE Bad
  BY DEF checks_from_string
<1>3. v.avail = acc.avail /\ v.diff = acc.diff /\ v.minutes = acc.minutes
  OBVIOUS
<1> HIDE DEF acc, n
<1>4. acc \in Known
  BY <1>1 DEF KnownAs
<1>5. v \in [avail : SUBSET CheckNames, diff : Int, minutes : Int]
  BY <1>4 DEF Known
<1> HIDE DEF v
<1>6. acc.ok
  <2>1. ~Bad.ok
    BY DEF Bad
  <2>2. CASE ~acc.ok
    BY <1>2, <2>1, <2>2
  <2> QED
    BY <2>2
<1>7. checks_from_string(tokens).value = v
  BY <1>2, <1>6
<1>8. \/ v.avail = {} /\ tokens # << >> /\ tokens[1].name = "none"
      \/ /\ v.avail = Named(tokens, n)
         /\ LastIs(tokens, n, "difference", v.diff)
         /\ LastIs(tokens, n, "minutes", v.minutes)
  BY <1>1, <1>3, <1>6 DEF KnownAs
<1> QED
  BY <1>5, <1>7, <1>8 DEF ChecksAre, n

-----------------------------------------------------------------------------
(* The command line                                                        *)

AtMostOne(S) == {<< >>} \cup {<<x>> : x \in S}

Rows == [gateway : Gateways, dev : Gateways, par : Word, idx : Word]
Checkings == [avail : SUBSET CheckNames, diff : Int, minutes : Int]
Digit8 == {d \in Seq(0..9) : Len(d) = 8}

\* What read_args makes of its options,
Apps ==
  [timeout : Waits,
   net : {App0.net} \cup NetValues,
   gateway : Byte,
   addr : {App0.addr} \cup Addrs,
   dt : {App0.dt} \cup ClockAddrs,
   int : {App0.int} \cup Intervals,
   table : Seq(Rows),
   checks : Checkings,
   password : {<< >>} \cup Digit8]

\* and their texts.
RowTexts(t) == [net : NetTexts[t], par : Seq(Field)]
Saids(t) ==
  [net : AtMostOne(NetTexts[t]), addr : AtMostOne(ArchTexts), dt : AtMostOne(DtTexts),
   int : AtMostOne(IntTexts), checks : AtMostOne(CheckTexts), table : Seq(RowTexts(t)),
   password : AtMostOne(Passwords)]

RowIs(row, s) ==
  /\ NetFits(s.net) => row.gateway = WrittenGateway(s.net)
  /\ HasFields(s.par, 4) => /\ row.dev = s.par[1].num
                            /\ row.par = Narrow(s.par[2].num)
                            /\ ~s.par[3].hex => row.idx = s.par[3].num

NetLink(net, gateway, texts) ==
  /\ gateway = net.gateway
  /\ IF texts = << >> THEN net = App0.net ELSE NetIs(net, texts[1])
AddrLink(addr, texts) == IF texts = << >> THEN addr = App0.addr ELSE AddrIs(addr, texts[1], 5)
ClockLink(dt, texts) == IF texts = << >> THEN dt = App0.dt ELSE ClockIs(dt, texts[1])
IntervalLink(int, texts) == IF texts = << >> THEN int = App0.int ELSE IntervalIs(int, texts[1])
ChecksLink(checks, texts) == texts = << >> \/ ChecksAre(checks, texts[1])
PasswordLink(password, texts) ==
  IF texts = << >> THEN password = << >> ELSE password = texts[1].digits /\ password \in Digit8
TableLink(table, texts) ==
  /\ Len(table) = Len(texts) /\ Len(table) <= TableMax
  /\ \A i \in 1..Len(table) : RowIs(table[i], texts[i])

\* Each option's value is the one its last text stands for.
Linked(a, s) ==
  /\ NetLink(a.net, a.gateway, s.net)
  /\ AddrLink(a.addr, s.addr)
  /\ ClockLink(a.dt, s.dt)
  /\ IntervalLink(a.int, s.int)
  /\ ChecksLink(a.checks, s.checks)
  /\ PasswordLink(a.password, s.password)
  /\ TableLink(a.table, s.table)

Pcs == {"args", "refused", "ready", "unasked", "asked", "answered", "arrived", "taken", "failed"}

-----------------------------------------------------------------------------
(* Options                                                                 *)

\* A sequence of one text.
LEMMA OneOf ==
  ASSUME NEW S, NEW x \in S
  PROVE  <<x>> \in AtMostOne(S) /\ <<x>> # << >> /\ <<x>>[1] = x
  BY DEF AtMostOne

\* The record a has the fields of b but for those named.
LEMMA NewTimeout ==
  ASSUME NEW a \in Apps, NEW s, Linked(a, s), NEW t \in Waits
  PROVE  [a EXCEPT !.timeout = t] \in Apps /\ Linked([a EXCEPT !.timeout = t], s)
<1> DEFINE b == [a EXCEPT !.timeout = t]
<1>1. b \in Apps
  BY DEF Apps
<1>2. /\ b.net = a.net /\ b.gateway = a.gateway /\ b.addr = a.addr /\ b.dt = a.dt
      /\ b.int = a.int /\ b.checks = a.checks /\ b.password = a.password /\ b.table = a.table
  BY DEF Apps
<1> HIDE DEF b
<1>3. Linked(b, s)
  BY <1>2 DEF Linked
<1> QED
  BY <1>1, <1>3 DEF b

\* The parts of a network address.
LEMMA NetsAreValues ==
  ASSUME NEW net \in NetValues
  PROVE  net.gateway \in Gateways /\ net.gateway \in Byte /\ net.port \in Ports
<1>1. net.gateway \in Gateways /\ net.port \in Ports
  BY DEF NetValues
<1>2. Gateways \subseteq Byte
  BY DEF Gateways, Byte
<1> QED
  BY <1>1, <1>2

\* Each option in turn: a new value, with its text, keeps the values linked.
LEMMA NewNet ==
  ASSUME NEW t, NEW a \in Apps, NEW s \in Saids(t), Linked(a, s),
         NEW text \in NetTexts[t], NEW net, NetIs(net, text)
  PROVE  /\ [a EXCEPT !.net = net, !.gateway = net.gateway] \in Apps
         /\ [s EXCEPT !.net = <<text>>] \in Saids(t)
         /\ Linked([a EXCEPT !.net = net, !.gateway = net.gateway], [s EXCEPT !.net = <<text>>])
<1> DEFINE g == net.gateway
           one == <<text>>
           b == [a EXCEPT !.net = net, !.gateway = g]
           c == [s EXCEPT !.net = one]
<1>1. net \in NetValues
  BY DEF NetIs
<1>2. g \in Byte
  BY <1>1, NetsAreValues
<1>3. one \in AtMostOne(NetTexts[t]) /\ one # << >> /\ one[1] = text
  BY OneOf
<1>4. NetLink(net, g, one)
  BY <1>3 DEF NetLink
<1> HIDE DEF g, one
<1>5. b \in Apps
  BY <1>1, <1>2 DEF Apps
<1>6. c \in Saids(t)
  BY <1>3 DEF Saids
<1>7. /\ b.net = net /\ b.gateway = g /\ b.addr = a.addr /\ b.dt = a.dt
      /\ b.int = a.int /\ b.checks = a.checks /\ b.password = a.password /\ b.table = a.table
  BY DEF Apps
<1>8. /\ c.net = one /\ c.addr = s.addr /\ c.dt = s.dt
      /\ c.int = s.int /\ c.checks = s.checks /\ c.password = s.password /\ c.table = s.table
  BY DEF Saids
<1> HIDE DEF b, c
<1>9. Linked(b, c)
  BY <1>4, <1>7, <1>8 DEF Linked
<1> QED
  BY <1>5, <1>6, <1>9 DEF b, c, g, one

\* The address of an archive.
LEMMA NewAddr ==
  ASSUME NEW t, NEW a \in Apps, NEW s \in Saids(t), Linked(a, s),
         NEW text \in ArchTexts, NEW addr, AddrIs(addr, text, 5)
  PROVE  /\ [a EXCEPT !.addr = addr] \in Apps /\ [s EXCEPT !.addr = <<text>>] \in Saids(t)
         /\ Linked([a EXCEPT !.addr = addr], [s EXCEPT !.addr = <<text>>])
<1> DEFINE one == <<text>>
           b == [a EXCEPT !.addr = addr]
           c == [s EXCEPT !.addr = one]
<1>1. addr \in Addrs
  BY DEF AddrIs
<1>2. one \in AtMostOne(ArchTexts) /\ one # << >> /\ one[1] = text
  BY OneOf
<1>3. AddrLink(addr, one)
  BY <1>2 DEF AddrLink
<1> HIDE DEF one
<1>4. b \in Apps
  BY <1>1 DEF Apps
<1>5. c \in Saids(t)
  BY <1>2 DEF Saids
<1>6. /\ b.net = a.net /\ b.gateway = a.gateway /\ b.addr = addr /\ b.dt = a.dt
      /\ b.int = a.int /\ b.checks = a.checks /\ b.password = a.password /\ b.table = a.table
  BY DEF Apps
<1>7. /\ c.net = s.net /\ c.addr = one /\ c.dt = s.dt
      /\ c.int = s.int /\ c.checks = s.checks /\ c.password = s.password /\ c.table = s.table
  BY DEF Saids
<1> HIDE DEF b, c
<1>8. Linked(b, c)
  BY <1>3, <1>6, <1>7 DEF Linked
<1> QED
  BY <1>4, <1>5, <1>8 DEF b, c, one

\* The registers of the clock; the gateway is that of the network again.
LEMMA NewClock ==
  ASSUME NEW t, NEW a \in Apps, NEW s \in Saids(t), Linked(a, s),
         NEW text \in DtTexts, NEW dt, ClockIs(dt, text)
  PROVE  /\ [a EXCEPT !.dt = dt, !.gateway = a.net.gateway] \in Apps
         /\ [s EXCEPT !.dt = <<text>>] \in Saids(t)
         /\ Linked([a EXCEPT !.dt = dt, !.gateway = a.net.gateway], [s EXCEPT !.dt = <<text>>])
<1> DEFINE one == <<text>>
           g == a.net.gateway
           b == [a EXCEPT !.dt = dt, !.gateway = g]
           c == [s EXCEPT !.dt = one]
<1>1. dt \in ClockAddrs
  BY DEF ClockIs
<1>2. one \in AtMostOne(DtTexts) /\ one # << >> /\ one[1] = text
  BY OneOf
<1>3. ClockLink(dt, one)
  BY <1>2 DEF ClockLink
<1>9. g = a.gateway /\ g \in Byte
  BY DEF Linked, NetLink, Apps
<1> HIDE DEF one, g
<1>4. b \in Apps
  BY <1>1, <1>9 DEF Apps
<1>5. c \in Saids(t)
  BY <1>2 DEF Saids
<1>6. /\ b.net = a.net /\ b.gateway = a.gateway /\ b.addr = a.addr /\ b.dt = dt
      /\ b.int = a.int /\ b.checks = a.checks /\ b.password = a.password /\ b.table = a.table
  BY <1>9 DEF Apps
<1>7. /\ c.net = s.net /\ c.addr = s.addr /\ c.dt = one
      /\ c.int = s.int /\ c.checks = s.checks /\ c.password = s.password /\ c.table = s.table
  BY DEF Saids
<1> HIDE DEF b, c
<1>8. Linked(b, c)
  BY <1>3, <1>6, <1>7 DEF Linked
<1> QED
  BY <1>4, <1>5, <1>8 DEF b, c, one, g

\* The interval of an archive.
LEMMA NewInterval ==
  ASSUME NEW t, NEW a \in Apps, NEW s \in Saids(t), Linked(a, s),
         NEW text \in IntTexts, NEW int, IntervalIs(int, text)
  PROVE  /\ [a EXCEPT !.int = int] \in Apps /\ [s EXCEPT !.int = <<text>>] \in Saids(t)
         /\ Linked([a EXCEPT !.int = int], [s EXCEPT !.int = <<text>>])
<1> DEFINE one == <<text>>
           b == [a EXCEPT !.int = int]
           c == [s EXCEPT !.int = one]
<1>1. int \in Intervals
  BY DEF IntervalIs
<1>2. one \in AtMostOne(IntTexts) /\ one # << >> /\ one[1] = text
  BY OneOf
<1>3. IntervalLink(int, one)
  BY <1>2 DEF IntervalLink
<1> HIDE DEF one
<1>4. b \in Apps
  BY <1>1 DEF Apps
<1>5. c \in Saids(t)
  BY <1>2 DEF Saids
<1>6. /\ b.net = a.net /\ b.gateway = a.gateway /\ b.addr = a.addr /\ b.dt = a.dt
      /\ b.int = int /\ b.checks = a.checks /\ b.password = a.password /\ b.table = a.table
  BY DEF Apps
<1>7. /\ c.net = s.net /\ c.addr = s.addr /\ c.dt = s.dt
      /\ c.int = one /\ c.checks = s.checks /\ c.password = s.password /\ c.table = s.table
  BY DEF Saids
<1> HIDE DEF b, c
<1>8. Linked(b, c)
  BY <1>3, <1>6, <1>7 DEF Linked
<1> QED
  BY <1>4, <1>5, <1>8 DEF b, c, one

\* The checks of tekon_sync.
LEMMA NewChecks ==
  ASSUME NEW t, NEW a \in Apps, NEW s \in Saids(t), Linked(a, s),
         NEW text \in CheckTexts, NEW checks, ChecksAre(checks, text)
  PROVE  /\ [a EXCEPT !.checks = checks] \in Apps /\ [s EXCEPT !.checks = <<text>>] \in Saids(t)
         /\ Linked([a EXCEPT !.checks = checks], [s EXCEPT !.checks = <<text>>])
<1> DEFINE one == <<text>>
           b == [a EXCEPT !.checks = checks]
           c == [s EXCEPT !.checks = one]
<1>1. checks \in Checkings
  BY DEF ChecksAre, Checkings
<1>2. one \in AtMostOne(CheckTexts) /\ one # << >> /\ one[1] = text
  BY OneOf
<1>3. ChecksLink(checks, one)
  BY <1>2 DEF ChecksLink
<1> HIDE DEF one
<1>4. b \in Apps
  BY <1>1 DEF Apps
<1>5. c \in Saids(t)
  BY <1>2 DEF Saids
<1>6. /\ b.net = a.net /\ b.gateway = a.gateway /\ b.addr = a.addr /\ b.dt = a.dt
      /\ b.int = a.int /\ b.checks = checks /\ b.password = a.password /\ b.table = a.table
  BY DEF Apps
<1>7. /\ c.net = s.net /\ c.addr = s.addr /\ c.dt = s.dt
      /\ c.int = s.int /\ c.checks = one /\ c.password = s.password /\ c.table = s.table
  BY DEF Saids
<1> HIDE DEF b, c
<1>8. Linked(b, c)
  BY <1>3, <1>6, <1>7 DEF Linked
<1> QED
  BY <1>4, <1>5, <1>8 DEF b, c, one

\* The password.
LEMMA NewPassword ==
  ASSUME NEW t, NEW a \in Apps, NEW s \in Saids(t), Linked(a, s),
         NEW text \in Passwords, NEW password \in Digit8, password = text.digits
  PROVE  /\ [a EXCEPT !.password = password] \in Apps
         /\ [s EXCEPT !.password = <<text>>] \in Saids(t)
         /\ Linked([a EXCEPT !.password = password], [s EXCEPT !.password = <<text>>])
<1> DEFINE one == <<text>>
           b == [a EXCEPT !.password = password]
           c == [s EXCEPT !.password = one]
<1>2. one \in AtMostOne(Passwords) /\ one # << >> /\ one[1] = text
  BY OneOf
<1>3. PasswordLink(password, one)
  BY <1>2 DEF PasswordLink
<1> HIDE DEF one
<1>4. b \in Apps
  BY DEF Apps
<1>5. c \in Saids(t)
  BY <1>2 DEF Saids
<1>6. /\ b.net = a.net /\ b.gateway = a.gateway /\ b.addr = a.addr /\ b.dt = a.dt
      /\ b.int = a.int /\ b.checks = a.checks /\ b.password = password /\ b.table = a.table
  BY DEF Apps
<1>7. /\ c.net = s.net /\ c.addr = s.addr /\ c.dt = s.dt
      /\ c.int = s.int /\ c.checks = s.checks /\ c.password = one /\ c.table = s.table
  BY DEF Saids
<1> HIDE DEF b, c
<1>8. Linked(b, c)
  BY <1>3, <1>6, <1>7 DEF Linked
<1> QED
  BY <1>4, <1>5, <1>8 DEF b, c, one

\* More rows of the table.
LEMMA NewRows ==
  ASSUME NEW t, NEW a \in Apps, NEW s \in Saids(t), Linked(a, s),
         NEW rows \in Seq(Rows), NEW texts \in Seq(RowTexts(t)), Len(rows) = Len(texts),
         \A i \in 1..Len(rows) : RowIs(rows[i], texts[i]),
         Len(a.table) + Len(rows) <= TableMax
  PROVE  /\ [a EXCEPT !.table = @ \o rows] \in Apps /\ [s EXCEPT !.table = @ \o texts] \in Saids(t)
         /\ Linked([a EXCEPT !.table = @ \o rows], [s EXCEPT !.table = @ \o texts])
<1> DEFINE table == a.table \o rows
           all == s.table \o texts
           b == [a EXCEPT !.table = table]
           c == [s EXCEPT !.table = all]
<1>1. a.table \in Seq(Rows)
  BY DEF Apps
<1>2. s.table \in Seq(RowTexts(t))
  BY DEF Saids
<1>3. TableLink(a.table, s.table)
  BY DEF Linked
<1>4. table \in Seq(Rows) /\ all \in Seq(RowTexts(t))
  BY <1>1, <1>2
<1>5. TableLink(table, all)
  <2> DEFINE m == Len(a.table)
             n == Len(rows)
  <2>1. /\ m \in Nat /\ n \in Nat /\ m = Len(s.table) /\ n = Len(texts) /\ m + n <= TableMax
        /\ \A i \in 1..m : RowIs(a.table[i], s.table[i])
        /\ \A i \in 1..n : RowIs(rows[i], texts[i])
    BY <1>1, <1>3 DEF TableLink
  <2>2. /\ Len(table) = m + n /\ Len(all) = m + n
        /\ \A i \in 1..m : table[i] = a.table[i] /\ all[i] = s.table[i]
        /\ \A i \in m+1 .. m+n : table[i] = rows[i - m] /\ all[i] = texts[i - m]
    <3>1. IsJoin(table, a.table, rows) /\ IsJoin(all, s.table, texts)
      BY <1>1, <1>2, Join
    <3> HIDE DEF table, all, m, n
    <3>2. /\ Len(table) = m + n /\ \A i \in 1..m : table[i] = a.table[i]
          /\ \A i \in 1..n : table[m + i] = rows[i]
      BY <3>1 DEF IsJoin, m, n
    <3>3. /\ Len(all) = m + n /\ \A i \in 1..m : all[i] = s.table[i]
          /\ \A i \in 1..n : all[m + i] = texts[i]
      BY <2>1, <3>1 DEF IsJoin
    <3>4. \A i \in m+1 .. m+n : i - m \in 1..n /\ m + (i - m) = i
      BY <2>1
    <3> QED
      BY <3>2, <3>3, <3>4
  <2> HIDE DEF table, all, m, n
  <2>3. ASSUME NEW i \in 1 .. m+n
        PROVE  RowIs(table[i], all[i])
    <3>1. CASE i \in 1..m
      BY <2>1, <2>2, <3>1
    <3>2. CASE i \notin 1..m
      <4>1. i \in m+1 .. m+n /\ i - m \in 1..n
        BY <2>1, <3>2
      <4> QED
        BY <2>1, <2>2, <4>1
    <3> QED
      BY <3>1, <3>2
  <2> QED
    BY <2>1, <2>2, <2>3 DEF TableLink
<1>6. b = [a EXCEPT !.table = @ \o rows] /\ c = [s EXCEPT !.table = @ \o texts]
  BY DEF Apps, Saids
<1> HIDE DEF table, all
<1>7. b \in Apps
  BY <1>4 DEF Apps
<1>8. c \in Saids(t)
  BY <1>4 DEF Saids
<1>9. /\ b.net = a.net /\ b.gateway = a.gateway /\ b.addr = a.addr /\ b.dt = a.dt
      /\ b.int = a.int /\ b.checks = a.checks /\ b.password = a.password /\ b.table = table
  BY DEF Apps
<1>10. /\ c.net = s.net /\ c.addr = s.addr /\ c.dt = s.dt
       /\ c.int = s.int /\ c.checks = s.checks /\ c.password = s.password /\ c.table = all
  BY DEF Saids
<1> HIDE DEF b, c
<1>11. Linked(b, c)
  BY <1>5, <1>9, <1>10 DEF Linked
<1> QED
  BY <1>6, <1>7, <1>8, <1>11

\* Each option has the value its last text stands for, and values and texts their types.
OptionsInv ==
  /\ tool \in Tools /\ new \in News
  /\ app \in Apps /\ said \in Saids(tool) /\ Linked(app, said)

\* A refusal sets nothing.
LEMMA RefuseKeeps ==
  ASSUME OptionsInv, Refuse
  PROVE  OptionsInv'
  BY DEF OptionsInv, Refuse

\* An option that was accepted.
LEMMA SetKeeps ==
  ASSUME OptionsInv, NEW ok \in BOOLEAN, NEW a, NEW s, Set(ok, a, s),
         ok => a \in Apps /\ s \in Saids(tool) /\ Linked(a, s)
  PROVE  OptionsInv'
<1>1. CASE ok
  BY <1>1 DEF OptionsInv, Set
<1>2. CASE ~ok
  <2>1. Refuse
    BY <1>2 DEF Set
  <2> QED
    BY <2>1, RefuseKeeps
<1> QED
  BY <1>1, <1>2

\* The timeout.
LEMMA OptionTKeeps ==
  ASSUME OptionsInv, OptionT
  PROVE  OptionsInv'
<1>1. PICK t : t \in Timeouts /\ Set(TimeoutIsValid(t), [app EXCEPT !.timeout = t], said)
  BY DEF OptionT
<1> DEFINE a == [app EXCEPT !.timeout = t]
           ok == TimeoutIsValid(t)
<1>2. ok => t \in Waits
  BY DEF TimeoutIsValid
<1>3. ok \in BOOLEAN
  BY DEF TimeoutIsValid
<1> HIDE DEF ok
<1>4. ok => a \in Apps /\ said \in Saids(tool) /\ Linked(a, said)
  BY <1>2, NewTimeout DEF OptionsInv
<1> HIDE DEF a
<1>5. Set(ok, a, said)
  BY <1>1 DEF a, ok
<1> QED
  BY <1>3, <1>4, <1>5, SetKeeps

\* The option -a.
LEMMA OptionAKeeps ==
  ASSUME OptionsInv, OptionA
  PROVE  OptionsInv'
<1> DEFINE net(text) == netaddr_from_string(text)
           a(n) == [app EXCEPT !.net = n, !.gateway = n.gateway]
           s(text) == [said EXCEPT !.net = <<text>>]
<1>1. PICK text \in NetTexts[tool] :
        IF net(text).ok THEN Set(TRUE, a(net(text).value), s(text)) ELSE Refuse
  BY DEF OptionA
<1>2. text.fields \in Seq(Field)
  BY TextsAssumption DEF OptionsInv
<1> DEFINE n == net(text).value
           b == a(n)
           c == s(text)
<1>3. CASE net(text).ok
  <2>1. NetIs(n, text)
    BY <1>2, <1>3, NetIsRead
  <2>2. Set(TRUE, b, c)
    BY <1>1, <1>3
  <2> HIDE DEF n
  <2>3. b \in Apps /\ c \in Saids(tool) /\ Linked(b, c)
    BY <2>1, NewNet DEF OptionsInv
  <2> HIDE DEF b, c
  <2> QED
    BY <2>2, <2>3, SetKeeps
<1>4. CASE ~net(text).ok
  BY <1>1, <1>4, RefuseKeeps
<1> QED
  BY <1>3, <1>4

\* The address of an archive.
LEMMA OptionArchiveKeeps ==
  ASSUME OptionsInv, OptionArchive
  PROVE  OptionsInv'
<1> DEFINE addr(text) == archaddr_from_string(text)
           a(n) == [app EXCEPT !.addr = n]
           s(text) == [said EXCEPT !.addr = <<text>>]
<1>1. PICK text \in ArchTexts :
        IF app.gateway # 0 /\ addr(text).ok
        THEN Set(TRUE, a(addr(text).value), s(text)) ELSE Refuse
  BY DEF OptionArchive
<1>2. text \in Seq(Field)
  BY TextsAssumption
<1> DEFINE n == addr(text).value
           b == a(n)
           c == s(text)
<1>3. CASE app.gateway # 0 /\ addr(text).ok
  <2>1. AddrIs(n, text, 5)
    BY <1>2, <1>3, ArchIsRead
  <2>2. Set(TRUE, b, c)
    BY <1>1, <1>3
  <2> HIDE DEF n
  <2>3. b \in Apps /\ c \in Saids(tool) /\ Linked(b, c)
    BY <2>1, NewAddr DEF OptionsInv
  <2> HIDE DEF b, c
  <2> QED
    BY <2>2, <2>3, SetKeeps
<1>4. CASE ~(app.gateway # 0 /\ addr(text).ok)
  BY <1>1, <1>4, RefuseKeeps
<1> QED
  BY <1>3, <1>4

\* The registers of the clock.
LEMMA OptionDKeeps ==
  ASSUME OptionsInv, OptionD
  PROVE  OptionsInv'
<1> DEFINE dt(text) == dtaddr_from_string(text)
           a(n) == [app EXCEPT !.dt = n, !.gateway = app.net.gateway]
           s(text) == [said EXCEPT !.dt = <<text>>]
<1>1. PICK text \in DtTexts :
        IF dt(text).ok THEN Set(TRUE, a(dt(text).value), s(text)) ELSE Refuse
  BY DEF OptionD
<1>2. text \in Seq(Field)
  BY TextsAssumption
<1> DEFINE n == dt(text).value
           b == a(n)
           c == s(text)
<1>3. CASE dt(text).ok
  <2>1. ClockIs(n, text)
    BY <1>2, <1>3, ClockIsRead
  <2>2. Set(TRUE, b, c)
    BY <1>1, <1>3
  <2> HIDE DEF n
  <2>3. b \in Apps /\ c \in Saids(tool) /\ Linked(b, c)
    BY <2>1, NewClock DEF OptionsInv
  <2> HIDE DEF b, c
  <2> QED
    BY <2>2, <2>3, SetKeeps
<1>4. CASE ~dt(text).ok
  BY <1>1, <1>4, RefuseKeeps
<1> QED
  BY <1>3, <1>4

\* The interval.
LEMMA OptionIKeeps ==
  ASSUME OptionsInv, OptionI
  PROVE  OptionsInv'
<1> DEFINE int(text) == intcfg_from_string(text)
           a(n) == [app EXCEPT !.int = n]
           s(text) == [said EXCEPT !.int = <<text>>]
<1>1. PICK text \in IntTexts :
        IF int(text).ok THEN Set(TRUE, a(int(text).value), s(text)) ELSE Refuse
  BY DEF OptionI
<1>2. text \in Seq(Field) /\ text # << >>
  BY TextsAssumption
<1> DEFINE n == int(text).value
           b == a(n)
           c == s(text)
<1>3. CASE int(text).ok
  <2>1. IntervalIs(n, text)
    BY <1>2, <1>3, IntervalIsRead
  <2>2. Set(TRUE, b, c)
    BY <1>1, <1>3
  <2> HIDE DEF n
  <2>3. b \in Apps /\ c \in Saids(tool) /\ Linked(b, c)
    BY <2>1, NewInterval DEF OptionsInv
  <2> HIDE DEF b, c
  <2> QED
    BY <2>2, <2>3, SetKeeps
<1>4. CASE ~int(text).ok
  BY <1>1, <1>4, RefuseKeeps
<1> QED
  BY <1>3, <1>4

\* The checks.
LEMMA OptionCKeeps ==
  ASSUME OptionsInv, OptionC
  PROVE  OptionsInv'
<1> DEFINE checks(text) == checks_from_string(text)
           a(n) == [app EXCEPT !.checks = n]
           s(text) == [said EXCEPT !.checks = <<text>>]
<1>1. PICK text \in CheckTexts :
        IF checks(text).ok THEN Set(TRUE, a(checks(text).value), s(text)) ELSE Refuse
  BY DEF OptionC
<1>2. text \in CheckTokens
  BY TextsAssumption DEF CheckTokens, CheckToken
<1> DEFINE n == checks(text).value
           b == a(n)
           c == s(text)
<1>3. CASE checks(text).ok
  <2>1. ChecksAre(n, text)
    BY <1>2, <1>3, ChecksAreKnown
  <2>2. Set(TRUE, b, c)
    BY <1>1, <1>3
  <2> HIDE DEF n
  <2>3. b \in Apps /\ c \in Saids(tool) /\ Linked(b, c)
    BY <2>1, NewChecks DEF OptionsInv
  <2> HIDE DEF b, c
  <2> QED
    BY <2>2, <2>3, SetKeeps
<1>4. CASE ~checks(text).ok
  BY <1>1, <1>4, RefuseKeeps
<1> QED
  BY <1>3, <1>4

\* The password.
LEMMA OptionPasswordKeeps ==
  ASSUME OptionsInv, OptionPassword
  PROVE  OptionsInv'
<1> DEFINE a(text) == [app EXCEPT !.password = text.digits]
           s(text) == [said EXCEPT !.password = <<text>>]
<1>1. PICK text \in Passwords : Set(text.len >= 8, a(text), s(text))
  BY DEF OptionPassword
<1> DEFINE d == text.digits
           ok == text.len >= 8
           b == a(text)
           c == s(text)
<1>2. text.len \in Nat /\ d \in Seq(0..9) /\ (text.len >= 8 => Len(d) = 8)
  BY TextsAssumption
<1>3. ok \in BOOLEAN
  BY <1>2
<1>4. Set(ok, b, c)
  BY <1>1
<1>6. ok => Len(d) = 8
  BY <1>2
<1> HIDE DEF ok
<1>5. ok => b \in Apps /\ c \in Saids(tool) /\ Linked(b, c)
  <2>1. ok => d \in Digit8
    BY <1>2, <1>6 DEF Digit8
  <2>2. b = [app EXCEPT !.password = d]
    OBVIOUS
  <2>3. d = text.digits
    OBVIOUS
  <2> HIDE DEF b, d
  <2> QED
    BY <2>1, <2>2, <2>3, NewPassword DEF OptionsInv
<1> HIDE DEF b, c
<1> QED
  BY <1>3, <1>4, <1>5, SetKeeps

\* With a gateway, there was an option -a.
LEMMA GatewayWasSaid ==
  ASSUME NEW t, NEW a \in Apps, NEW s \in Saids(t), Linked(a, s),
         a.gateway # 0 \/ a.net.port # 0
  PROVE  /\ s.net # << >> /\ s.net[1] \in NetTexts[t] /\ NetIs(a.net, s.net[1])
         /\ a.gateway = a.net.gateway /\ a.gateway \in Gateways
<1>1. NetLink(a.net, a.gateway, s.net)
  BY DEF Linked
<1>2. App0.net.gateway = 0 /\ App0.net.port = 0
  BY DEF App0
<1>3. s.net # << >>
  BY <1>1, <1>2 DEF NetLink
<1>4. NetIs(a.net, s.net[1]) /\ a.gateway = a.net.gateway
  BY <1>1, <1>3 DEF NetLink
<1>5. a.gateway \in Gateways
  BY <1>4, NetsAreValues DEF NetIs
<1>6. s.net \in AtMostOne(NetTexts[t])
  BY DEF Saids
<1>7. s.net[1] \in NetTexts[t]
  BY <1>3, <1>6 DEF AtMostOne
<1> QED
  BY <1>3, <1>4, <1>5, <1>7

\* A row of the table, and its texts.
RowOf(gateway, addr) == [gateway |-> gateway, dev |-> addr.dev, par |-> addr.par, idx |-> addr.idx]
TextsOf(net, par) == [net |-> net, par |-> par]

\* A row is the one of its texts.
LEMMA NewRow ==
  ASSUME NEW net, NEW text, NetIs(net, text), NEW par, NEW addr, AddrIs(addr, par, 4)
  PROVE  /\ RowOf(net.gateway, addr) \in Rows
         /\ RowIs(RowOf(net.gateway, addr), TextsOf(text, par))
<1> DEFINE row == RowOf(net.gateway, addr)
           s == TextsOf(text, par)
<1>1. net.gateway \in Gateways
  BY NetsAreValues DEF NetIs
<1>2. addr \in Addrs
  BY DEF AddrIs
<1>3. addr.dev \in Gateways /\ addr.par \in Word /\ addr.idx \in Word
  BY <1>2 DEF Addrs
<1>4. row \in Rows
  BY <1>1, <1>3 DEF RowOf, Rows
<1>5. row.gateway = net.gateway /\ row.dev = addr.dev /\ row.par = addr.par /\ row.idx = addr.idx
  BY DEF RowOf
<1>6. s.net = text /\ s.par = par
  BY DEF TextsOf
<1> HIDE DEF row, s
<1>7. RowIs(row, s)
  BY <1>5, <1>6 DEF RowIs, NetIs, AddrIs
<1> QED
  BY <1>4, <1>7 DEF row, s

\* The rows of the table.
LEMMA OptionParametersKeeps ==
  ASSUME OptionsInv, OptionParameters
  PROVE  OptionsInv'
<1> DEFINE P(tokens) == [i \in DOMAIN tokens |-> paraddr_from_string(tokens[i])]
           R(tokens) == [i \in DOMAIN tokens |->
                          [gateway |-> app.gateway, dev |-> P(tokens)[i].value.dev,
                           par |-> P(tokens)[i].value.par, idx |-> P(tokens)[i].value.idx]]
           T(tokens) == [i \in DOMAIN tokens |-> [net |-> said.net[1], par |-> tokens[i]]]
           ok(tokens) == /\ app.gateway # 0
                         /\ \A i \in DOMAIN P(tokens) : P(tokens)[i].ok
                         /\ Len(app.table) + Len(tokens) <= TableMax
           a(tokens) == [app EXCEPT !.table = @ \o R(tokens)]
           s(tokens) == [said EXCEPT !.table = @ \o T(tokens)]
<1>1. PICK tokens \in ParTexts : IF ok(tokens) THEN Set(TRUE, a(tokens), s(tokens)) ELSE Refuse
  BY DEF OptionParameters
<1>2. CASE ~ok(tokens)
  BY <1>1, <1>2, RefuseKeeps
<1>3. CASE ok(tokens)
  <2> DEFINE n == Len(tokens)
             rows == R(tokens)
             texts == T(tokens)
             b == a(tokens)
             c == s(tokens)
  <2>1. tokens \in Seq(Seq(Field)) /\ n \in Nat /\ DOMAIN tokens = 1..n
    BY TextsAssumption
  <2>2. \A i \in 1..n : tokens[i] \in Seq(Field)
    BY <2>1
  <2>3. /\ said.net[1] \in NetTexts[tool] /\ NetIs(app.net, said.net[1])
        /\ app.gateway = app.net.gateway
    BY <1>3, GatewayWasSaid DEF OptionsInv
  <2>4. ASSUME NEW i \in 1..n
        PROVE  AddrIs(paraddr_from_string(tokens[i]).value, tokens[i], 4)
    <3>1. paraddr_from_string(tokens[i]).ok
      BY <1>3, <2>1
    <3> QED
      BY <2>2, <3>1, ParIsRead
  <2>5. rows = [i \in 1..n |-> RowOf(app.net.gateway, paraddr_from_string(tokens[i]).value)]
    BY <2>1, <2>3 DEF RowOf
  <2>6. texts = [i \in 1..n |-> TextsOf(said.net[1], tokens[i])]
    BY <2>1 DEF TextsOf
  <2>7. Set(TRUE, b, c)
    BY <1>1, <1>3
  <2>8. Len(app.table) + n <= TableMax
    BY <1>3
  <2>9. b = [app EXCEPT !.table = @ \o rows] /\ c = [said EXCEPT !.table = @ \o texts]
    OBVIOUS
  <2> HIDE DEF rows, texts, n, b, c, P, R, T, ok, a, s
  <2>10. \A i \in 1..n : /\ rows[i] \in Rows
                         /\ RowIs(rows[i], texts[i])
    BY <2>3, <2>4, <2>5, <2>6, NewRow
  <2>11. rows \in Seq(Rows) /\ Len(rows) = n
    BY <2>1, <2>5, <2>10
  <2>12. \A i \in 1..n : texts[i] \in RowTexts(tool)
    BY <2>2, <2>3, <2>6 DEF TextsOf, RowTexts
  <2>13. texts \in Seq(RowTexts(tool)) /\ Len(texts) = n
    BY <2>1, <2>6, <2>12
  <2>14. b \in Apps /\ c \in Saids(tool) /\ Linked(b, c)
    BY <2>8, <2>9, <2>10, <2>11, <2>13, NewRows DEF OptionsInv
  <2> QED
    BY <2>7, <2>14, SetKeeps
<1> QED
  BY <1>2, <1>3

\* In front of the command line nothing is set.
LEMMA InitOptions ==
  ASSUME Init
  PROVE  OptionsInv
<1>1. tool \in Tools /\ app = App0 /\ said = Said0
  BY DEF Init
<1>2. new \in News
  <2>1. (CHOOSE n \in News : TRUE) \in News
    BY QueryAssumption
  <2> QED
    BY <2>1 DEF Init
<1>3. App0 \in Apps
  <2>1. 1000 \in Waits
    BY DEF Waits
  <2>2. 30 \in Int /\ 1 \in Int /\ 0 \in Byte
    BY DEF Byte
  <2> QED
    BY <2>1, <2>2 DEF App0, Apps, Checkings, CheckNames
<1>4. Said0 \in Saids(tool)
  BY DEF Said0, Saids, AtMostOne
<1>5. Linked(App0, Said0)
  <2>1. /\ Said0.net = << >> /\ Said0.addr = << >> /\ Said0.dt = << >> /\ Said0.int = << >>
        /\ Said0.checks = << >> /\ Said0.password = << >> /\ Said0.table = << >>
    BY DEF Said0
  <2>2. /\ App0.gateway = App0.net.gateway /\ App0.password = << >> /\ App0.table = << >>
    BY DEF App0
  <2>3. TableMax \in Nat
    BY QueryAssumption
  <2> QED
    BY <2>1, <2>2, <2>3 DEF Linked, NetLink, AddrLink, ClockLink, IntervalLink, ChecksLink,
                            PasswordLink, TableLink
<1> QED
  BY <1>1, <1>2, <1>3, <1>4, <1>5 DEF OptionsInv

\* The other steps leave the command line alone.
Steady == UNCHANGED <<tool, app, said, new>>

\* After the command line its values are constant,
LEMMA OthersAreSteady ==
  ASSUME Ask \/ Answer \/ ArriveWhole \/ ArriveChanged \/ ArriveShort \/ ArriveLong
         \/ Receive \/ ReceiveUnfilled \/ Done \/ UNCHANGED vars
  PROVE  Steady
<1>1. CASE Ask
  BY <1>1 DEF Ask, Steady
<1>2. CASE Answer
  BY <1>2 DEF Answer, Steady
<1>3. CASE ArriveWhole \/ ArriveChanged \/ ArriveShort \/ ArriveLong
  <2>1. \A f, h : Arrive(f, h) => Steady
    BY DEF Arrive, Steady
  <2> QED
    BY <1>3, <2>1 DEF ArriveWhole, ArriveChanged, ArriveShort, ArriveLong
<1>4. CASE Receive \/ ReceiveUnfilled
  <2>1. \A t, e : End(t, e) => Steady
    BY DEF End, Steady
  <2> QED
    BY <1>4, <2>1 DEF Receive, ReceiveUnfilled
<1>5. CASE Done \/ UNCHANGED vars
  BY <1>5 DEF Done, vars, Steady
<1> QED
  BY <1>1, <1>2, <1>3, <1>4, <1>5

\* and its end sets none.
LEMMA EndOfArgsIsSteady ==
  ASSUME EndOfArgs
  PROVE  Steady /\ pc = "args" /\ (pc' = "refused" \/ (pc' = "ready" /\ Complete))
  BY DEF EndOfArgs, Refuse, Steady

\* An option is read, or refused.
LEMMA OptionsAreArgs ==
  ASSUME OptionT \/ OptionA \/ OptionArchive \/ OptionParameters \/ OptionPassword
         \/ OptionD \/ OptionI \/ OptionC
  PROVE  pc = "args" /\ pc' \in {"args", "refused"} /\ tool' = tool
<1>1. \A tools : InArgs(tools) => pc = "args"
  BY DEF InArgs
<1>2. Refuse => pc' = "refused" /\ tool' = tool
  BY DEF Refuse
<1>3. \A ok, a, s : Set(ok, a, s) => (pc' = "refused" \/ pc' = pc) /\ tool' = tool
  BY <1>2 DEF Set
<1>4. CASE OptionT
  BY <1>1, <1>3, <1>4 DEF OptionT
<1>5. CASE OptionA
  BY <1>1, <1>2, <1>3, <1>5 DEF OptionA
<1>6. CASE OptionArchive
  BY <1>1, <1>2, <1>3, <1>6 DEF OptionArchive
<1>7. CASE OptionParameters
  BY <1>1, <1>2, <1>3, <1>7 DEF OptionParameters
<1>8. CASE OptionPassword
  BY <1>1, <1>3, <1>8 DEF OptionPassword
<1>9. CASE OptionD
  BY <1>1, <1>2, <1>3, <1>9 DEF OptionD
<1>10. CASE OptionI
  BY <1>1, <1>2, <1>3, <1>10 DEF OptionI
<1>11. CASE OptionC
  BY <1>1, <1>2, <1>3, <1>11 DEF OptionC
<1> QED
  BY <1>4, <1>5, <1>6, <1>7, <1>8, <1>9, <1>10, <1>11

\* Every step keeps the values linked to their texts.
LEMMA OptionsStay ==
  ASSUME OptionsInv, [Next]_vars
  PROVE  OptionsInv'
<1>1. CASE OptionT \/ OptionA \/ OptionArchive \/ OptionParameters \/ OptionPassword
           \/ OptionD \/ OptionI \/ OptionC
  BY <1>1, OptionTKeeps, OptionAKeeps, OptionArchiveKeeps, OptionParametersKeeps,
     OptionPasswordKeeps, OptionDKeeps, OptionIKeeps, OptionCKeeps
<1>2. Steady => OptionsInv'
  BY DEF Steady, OptionsInv
<1> QED
  BY <1>1, <1>2, OthersAreSteady, EndOfArgsIsSteady DEF Next

-----------------------------------------------------------------------------
(* Behind the loop of read_args                                            *)

BeforeReady == {"args", "refused"}

Completed ==
  /\ tool = "arch" => ArchComplete
  /\ tool = "msr" => MsrComplete
  /\ tool = "sync" => SyncComplete

\* Behind read_args its last tests hold.
ReadyInv == pc \in BeforeReady \/ tool = "lib" \/ Completed

\* What read_args tests at its end, for each tool,
LEMMA CompleteIs ==
  ASSUME Complete
  PROVE  Completed
<1>1. CASE tool = "arch"
  BY <1>1 DEF Complete, Completed
<1>2. CASE tool = "msr"
  BY <1>2 DEF Complete, Completed
<1>3. CASE tool = "sync"
  BY <1>3 DEF Complete, Completed
<1> QED
  BY <1>1, <1>2, <1>3 DEF Completed

\* stays true,
LEMMA CompleteStays ==
  ASSUME Steady, Completed
  PROVE  Completed'
<1>1. tool' = tool /\ app' = app
  BY DEF Steady
<1>2. ArchComplete => ArchComplete'
  BY <1>1 DEF ArchComplete, RangeFits, Limit
<1>3. MsrComplete => MsrComplete'
  BY <1>1 DEF MsrComplete
<1>4. SyncComplete => SyncComplete'
  BY <1>1 DEF SyncComplete
<1> QED
  BY <1>1, <1>2, <1>3, <1>4 DEF Completed

\* No step leads back into the loop.
LEMMA ReadyStays ==
  ASSUME ReadyInv, [Next]_vars
  PROVE  ReadyInv'
<1>1. CASE OptionT \/ OptionA \/ OptionArchive \/ OptionParameters \/ OptionPassword
           \/ OptionD \/ OptionI \/ OptionC
  <2>1. pc' \in {"args", "refused"}
    BY <1>1, OptionsAreArgs
  <2> QED
    BY <2>1 DEF ReadyInv, BeforeReady
<1>2. CASE EndOfArgs
  <2>1. Steady /\ (pc' = "refused" \/ (pc' = "ready" /\ Complete))
    BY <1>2, EndOfArgsIsSteady
  <2>2. CASE pc' = "refused"
    BY <2>2 DEF ReadyInv, BeforeReady
  <2>3. CASE Complete
    BY <2>1, <2>3, CompleteIs, CompleteStays DEF ReadyInv
  <2> QED
    BY <2>1, <2>2, <2>3
<1>3. CASE pc = "refused" /\ pc' = "refused"
  BY <1>3 DEF ReadyInv, BeforeReady
<1>4. CASE Done \/ UNCHANGED vars
  <2>1. Steady /\ pc' = pc
    BY <1>4, OthersAreSteady DEF Done, vars
  <2>2. CASE pc \in BeforeReady
    BY <2>1, <2>2 DEF ReadyInv, BeforeReady
  <2>3. CASE tool = "lib"
    BY <2>1, <2>3 DEF ReadyInv, Steady
  <2>4. CASE Completed
    BY <2>1, <2>4, CompleteStays DEF ReadyInv
  <2> QED
    BY <2>2, <2>3, <2>4 DEF ReadyInv
<1>5. CASE Ask \/ Answer \/ ArriveWhole \/ ArriveChanged \/ ArriveShort \/ ArriveLong
           \/ Receive \/ ReceiveUnfilled
  <2>1. Steady
    BY <1>5, OthersAreSteady
  <2>2. pc \notin BeforeReady
    <3>1. \A f, h : Arrive(f, h) => pc = "answered"
      BY DEF Arrive
    <3> QED
      BY <1>5, <3>1, ZenonT(60) DEF BeforeReady, Ask, Answer, ArriveWhole, ArriveChanged, ArriveShort,
                        ArriveLong, Receive, ReceiveUnfilled
  <2>3. CASE tool = "lib"
    BY <2>1, <2>3 DEF ReadyInv, Steady
  <2>4. CASE Completed
    BY <2>1, <2>4, CompleteStays DEF ReadyInv
  <2> QED
    BY <2>2, <2>3, <2>4 DEF ReadyInv
<1> QED
  BY <1>1, <1>2, <1>4, <1>5 DEF Next

\* and is asked for only when a tool is ready.
LEMMA InitReady ==
  ASSUME Init
  PROVE  ReadyInv
  BY DEF Init, ReadyInv, BeforeReady

-----------------------------------------------------------------------------
(* The messages of a session                                               *)

\* The message fits the kind of the request.
MessageFits(m, what) ==
  /\ m.gateway \in 1..255
  /\ what \in {"chunk", "clock", "admin", "date", "time", "user", "par11", "ind19"}
  /\ what \in {"chunk", "clock"} => IsList(m)
  /\ what \in {"admin", "date", "time", "user"} => IsWrite(m)
  /\ what = "par11" => IsOne(m)
  /\ what = "ind19" => IsRun(m)

\* A message of its kind can be packed.
LEMMA FittingIsWellFormed ==
  ASSUME NEW m, NEW what, MessageFits(m, what)
  PROVE  WellFormed(m) /\ m.type # "UNK"
<1>1. what \in {"chunk", "clock"} => IsList(m) /\ m.type = "1C"
  BY DEF MessageFits, IsList
<1>2. what \in {"admin", "date", "time", "user"} => IsWrite(m) /\ m.type = "14"
  BY DEF MessageFits, IsWrite
<1>3. what = "par11" => IsOne(m) /\ m.type = "11"
  BY DEF MessageFits, IsOne
<1>4. what = "ind19" => IsRun(m) /\ m.type = "19"
  BY DEF MessageFits, IsRun
<1> QED
  BY <1>1, <1>2, <1>3, <1>4 DEF MessageFits, WellFormed

\* The message m asks for the elements through the gateway g.
AsksList(m, g, elems) ==
  m.gateway = g /\ m.elems = elems /\ m.gateway \in 1..255 /\ IsList(m)

\* The message m gives the bytes through the gateway g.
Gives(m, g, data) ==
  m.gateway = g /\ m.elems = data /\ m.gateway \in 1..255 /\ IsWrite(m)

\* tekon_req_1c makes a message of up to 40 elements.
LEMMA ListMessage ==
  ASSUME NEW g \in Gateways, NEW elems \in Seq(Elements), Len(elems) >= 1, Len(elems) <= 40,
         \A i \in 1..Len(elems) : elems[i].dev # 0
  PROVE  AsksList(tekon_req_1c(g, elems), g, elems)
<1> DEFINE m == tekon_req_1c(g, elems)
<1>1. g # 0 /\ g \in 1..255
  BY DEF Gateways
<1>2. m = [type |-> "1C", gateway |-> g, elems |-> elems]
  BY <1>1 DEF tekon_req_1c, PLIST
<1>3. m.gateway = g /\ m.elems = elems /\ m.type = "1C"
  BY <1>2
<1> HIDE DEF m
<1>4. IsList(m)
  BY <1>3 DEF IsList
<1> QED
  BY <1>1, <1>3, <1>4 DEF m, AsksList

\* tekon_req_14 makes a message of a write or a login.
LEMMA WriteMessage ==
  ASSUME NEW g \in Gateways, NEW data \in Seq(Byte),
         (data[3] = 3 /\ Len(data) = 9) \/ (data[3] = 5 /\ Len(data) = 8)
  PROVE  Gives(tekon_req_14(g, data), g, data)
<1> DEFINE m == tekon_req_14(g, data)
<1>1. g # 0 /\ g \in 1..255
  BY DEF Gateways
<1>2. m = [type |-> "14", gateway |-> g, elems |-> data]
  BY <1>1 DEF tekon_req_14
<1>3. m.gateway = g /\ m.elems = data /\ m.type = "14"
  BY <1>2
<1> HIDE DEF m
<1>4. IsWrite(m)
  BY <1>3 DEF IsWrite
<1> QED
  BY <1>1, <1>3, <1>4 DEF m, Gives

\* tekon_req_11 makes a message, or refuses.
LEMMA OneMessage ==
  ASSUME NEW g \in Byte, NEW d \in Byte, NEW p \in Word
  PROVE  LET m == tekon_req_11(g, d, p) IN
         m = None \/ (m.gateway \in 1..255 /\ IsOne(m))
<1> DEFINE m == tekon_req_11(g, d, p)
           e == ElementOf(d, p, 0)
<1>1. e \in Elements /\ e.idx = 0
  <2>1. 0 \in Word
    BY ZeroIsWord
  <2> QED
    BY <2>1 DEF ElementOf, Elements
<1>2. CASE g = 0 \/ d = 0
  BY <1>2 DEF tekon_req_11
<1>3. CASE ~(g = 0 \/ d = 0)
  <2>1. m = [type |-> "11", gateway |-> g, elems |-> <<e>>]
    BY <1>3 DEF tekon_req_11, ElementOf
  <2>2. m.gateway = g /\ m.type = "11" /\ m.elems = <<e>>
    BY <2>1
  <2>3. g \in 1..255
    BY <1>3 DEF Byte
  <2> HIDE DEF m, e
  <2>4. IsOne(m)
    BY <1>1, <2>2 DEF IsOne
  <2> QED
    BY <2>2, <2>3, <2>4 DEF m
<1> QED
  BY <1>2, <1>3

\* A message without any index is not packed.
RunOrNone(m, n) ==
  m = None \/ (m.gateway \in 1..255 /\ IsRun(m)) \/ tekon_req_pack(m, n) = << >>

\* tekon_req_19 makes a message that can be packed or not, or refuses.
LEMMA RunMessage ==
  ASSUME NEW g \in Byte, NEW d \in Byte, NEW p \in Word, NEW x \in Word, NEW size \in Byte,
         NEW n \in 0..15
  PROVE  RunOrNone(tekon_req_19(g, d, p, x, size), n)
<1> DEFINE m == tekon_req_19(g, d, p, x, size)
           s == Consecutive(d, p, x, size)
<1>1. CASE g = 0 \/ size > 60
  BY <1>1 DEF tekon_req_19, ILIST, RunOrNone
<1>2. CASE ~(g = 0 \/ size > 60)
  <2>1. m = [type |-> "19", gateway |-> g, elems |-> s]
    BY <1>2 DEF tekon_req_19, ILIST, Consecutive
  <2>2. m.gateway = g /\ m.type = "19" /\ m.elems = s
    BY <2>1
  <2>3. g \in 1..255 /\ size \in 0..60
    BY <1>2 DEF Byte
  <2> HIDE DEF m
  <2>4. CASE size = 0
    <3>1. Len(m.elems) = 0
      BY <2>2, <2>4 DEF Consecutive
    <3>2. pack_readem_19(m, n) = << >>
      BY <3>1 DEF pack_readem_19, ILIST
    <3>3. tekon_req_pack(m, n) = << >>
      BY <2>2, <3>2 DEF tekon_req_pack
    <3> QED
      BY <3>3 DEF m, RunOrNone
  <2>5. CASE size # 0
    <3>1. size \in 1..60
      BY <2>3, <2>5
    <3> HIDE DEF s
    <3>2. IsRun(m)
      BY <2>2, <3>1 DEF IsRun, s
    <3> QED
      BY <2>2, <2>3, <3>2 DEF m, RunOrNone
  <2> QED
    BY <2>4, <2>5
<1> QED
  BY <1>1, <1>2

-----------------------------------------------------------------------------
(* Writes                                                                  *)

\* A number in BCD is a byte.
LEMMA BcdIsByte ==
  ASSUME NEW n \in Nat
  PROVE  ToBcd(n) \in Byte
  BY DEF ToBcd, Byte

\* A date is packed into four bytes,
LEMMA DatesArePacked ==
  ASSUME NEW d \in Dates
  PROVE  tekon_date_pack(d) \in Seq(Byte) /\ Len(tekon_date_pack(d)) = 4
<1>1. d.dow \in Nat /\ d.day \in Nat /\ d.month \in Nat /\ d.year \in Nat
  BY DEF Dates
<1>2. ToBcd(d.dow) \in Byte /\ ToBcd(d.day) \in Byte /\ ToBcd(d.month) \in Byte
      /\ ToBcd(d.year) \in Byte
  BY <1>1, BcdIsByte
<1> QED
  BY <1>2 DEF tekon_date_pack

\* and so is a time.
LEMMA TimesArePacked ==
  ASSUME NEW t \in Times
  PROVE  tekon_time_pack(t) \in Seq(Byte) /\ Len(tekon_time_pack(t)) = 4
<1>1. t.hour \in Nat /\ t.minute \in Nat /\ t.second \in Nat
  BY DEF Times
<1>2. ToBcd(t.hour) \in Byte /\ ToBcd(t.minute) \in Byte /\ ToBcd(t.second) \in Byte /\ 0 \in Byte
  BY <1>1, BcdIsByte, ZeroIsWord
<1> QED
  BY <1>2 DEF tekon_time_pack

\* An element of a sequence.
LEMMA InSequence ==
  ASSUME NEW S, NEW s \in Seq(S), NEW k \in 1..Len(s)
  PROVE  s[k] \in S
  OBVIOUS

\* A password is packed into four bytes.
LEMMA PairsAreBytes ==
  ASSUME NEW d \in Digit8
  PROVE  Pairs(d) \in Seq(Byte) /\ Len(Pairs(d)) = 4
<1>1. ASSUME NEW i \in 1..4
      PROVE  10 * d[2*i - 1] + d[2*i] \in Byte
  <2>1. d[2*i - 1] \in 0..9 /\ d[2*i] \in 0..9
    <3>1. 2*i - 1 \in 1..8 /\ 2*i \in 1..8
      OBVIOUS
    <3> DEFINE ten == 0..9
               u == 2*i - 1
               v == 2*i
    <3>2. d \in Seq(ten) /\ Len(d) = 8
      BY DEF Digit8
    <3> HIDE DEF ten, u, v
    <3>3. u \in 1..Len(d) /\ v \in 1..Len(d)
      BY <3>1, <3>2 DEF u, v
    <3>4. d[u] \in ten /\ d[v] \in ten
      BY <3>2, <3>3, InSequence
    <3>5. d[2*i - 1] \in ten /\ d[2*i] \in ten
      BY <3>4 DEF u, v
    <3> QED
      BY <3>5 DEF ten
  <2> DEFINE x == d[2*i - 1]
             y == d[2*i]
  <2> HIDE DEF x, y
  <2>2. x \in 0..9 /\ y \in 0..9
    BY <2>1 DEF x, y
  <2>3. 10 * x + y \in Byte
    BY <2>2 DEF Byte
  <2> QED
    BY <2>3 DEF x, y
<1> QED
  BY <1>1 DEF Pairs

\* The bytes of a write, and where they come from.
IsWritten(data, dev, register, value) ==
  /\ data \in Seq(Byte) /\ Len(data) = 9
  /\ data[2] = dev /\ data[3] = 3 /\ FromU16(data[4], data[5]) = register
  /\ SubSeq(data, 6, 9) = value

\* write_time: where the bytes of a write stand.
LEMMA WrittenBytes ==
  ASSUME NEW d \in Byte, NEW r \in Word, NEW v \in Seq(Byte), Len(v) = 4
  PROVE  IsWritten(<<8, d, 3>> \o U16(r) \o v, d, r, v)
<1> DEFINE h == <<8, d, 3>>
           w == U16(r)
           u == h \o w
           data == u \o v
<1>1. h \in Seq(Byte) /\ Len(h) = 3 /\ h[2] = d /\ h[3] = 3
  <2>1. 8 \in Byte /\ 3 \in Byte
    BY DEF Byte
  <2> QED
    BY <2>1
<1>2. w \in Seq(Byte) /\ Len(w) = 2 /\ FromU16(w[1], w[2]) = r
  BY WordIsWritten DEF IsWord
<1> HIDE DEF h, w
<1>3. u \in Seq(Byte) /\ IsJoin(u, h, w)
  BY <1>1, <1>2, Join
<1> HIDE DEF u
<1>4. Len(u) = 5 /\ u[2] = d /\ u[3] = 3 /\ u[4] = w[1] /\ u[5] = w[2]
  <2>1. /\ Len(u) = 5 /\ \A i \in 1..3 : u[i] = h[i]
        /\ \A i \in 1..2 : u[3 + i] = w[i]
    BY <1>1, <1>2, <1>3 DEF IsJoin
  <2> QED
    BY <1>1, <2>1
<1>5. data \in Seq(Byte) /\ IsJoin(data, u, v)
  BY <1>3, Join
<1> HIDE DEF data
<1>6. /\ Len(data) = 9 /\ \A i \in 1..5 : data[i] = u[i]
      /\ \A i \in 1..4 : data[5 + i] = v[i]
  BY <1>4, <1>5 DEF IsJoin
<1>7. data[2] = d /\ data[3] = 3 /\ FromU16(data[4], data[5]) = r
  BY <1>2, <1>4, <1>6
<1>8. SubSeq(data, 6, 9) = v
  <2> DEFINE x == 6
             y == 9
  <2>1. x \in Nat /\ y \in Nat /\ 1 <= x /\ x <= y + 1 /\ y <= Len(data) /\ Len(v) = y - x + 1
        /\ x - 1 = 5
    BY <1>6
  <2> HIDE DEF x, y
  <2>2. \A i \in 1..Len(v) : data[x - 1 + i] = v[i]
    BY <1>6, <2>1
  <2>3. SubSeq(data, x, y) = v
    BY <1>5, <2>1, <2>2, SamePart
  <2> QED
    BY <2>3 DEF x, y
<1>9. IsWritten(data, d, r, v)
  BY <1>5, <1>6, <1>7, <1>8 DEF IsWritten
<1> QED
  BY <1>9 DEF data, u, h, w

\* The bytes of a login.
IsLogin(data, dev, level, pairs) ==
  /\ data \in Seq(Byte) /\ Len(data) = 8
  /\ data[2] = dev /\ data[3] = 5 /\ data[4] = level
  /\ SubSeq(data, 5, 8) = pairs

\* login: where the bytes of a login stand.
LEMMA LoginBytes ==
  ASSUME NEW d \in Byte, NEW level \in 1..2, NEW v \in Seq(Byte), Len(v) = 4
  PROVE  IsLogin(<<7, d, 5, level>> \o v, d, level, v)
<1> DEFINE h == <<7, d, 5, level>>
           data == h \o v
<1>1. h \in Seq(Byte) /\ Len(h) = 4 /\ h[2] = d /\ h[3] = 5 /\ h[4] = level
  <2>1. 7 \in Byte /\ 5 \in Byte /\ level \in Byte
    BY DEF Byte
  <2> QED
    BY <2>1
<1> HIDE DEF h
<1>2. data \in Seq(Byte) /\ IsJoin(data, h, v)
  BY <1>1, Join
<1> HIDE DEF data
<1>3. /\ Len(data) = 8 /\ \A i \in 1..4 : data[i] = h[i]
      /\ \A i \in 1..4 : data[4 + i] = v[i]
  BY <1>1, <1>2 DEF IsJoin
<1>4. data[2] = d /\ data[3] = 5 /\ data[4] = level
  BY <1>1, <1>3
<1>5. SubSeq(data, 5, 8) = v
  <2> DEFINE x == 5
             y == 8
  <2>1. x \in Nat /\ y \in Nat /\ 1 <= x /\ x <= y + 1 /\ y <= Len(data) /\ Len(v) = y - x + 1
        /\ x - 1 = 4
    BY <1>3
  <2> HIDE DEF x, y
  <2>2. \A i \in 1..Len(v) : data[x - 1 + i] = v[i]
    BY <1>3, <2>1
  <2>3. SubSeq(data, x, y) = v
    BY <1>2, <2>1, <2>2, SamePart
  <2> QED
    BY <2>3 DEF x, y
<1>6. IsLogin(data, d, level, v)
  BY <1>2, <1>3, <1>4, <1>5 DEF IsLogin
<1> QED
  BY <1>6 DEF data, h

-----------------------------------------------------------------------------
(* Lists                                                                   *)

\* part is the list of up to 40 items that begins behind the first `from`.
IsChunk(part, items, from) ==
  /\ part \in Seq(Elements) /\ Len(part) >= 1 /\ Len(part) <= 40 /\ from + Len(part) <= Len(items)
  /\ \A i \in 1..Len(part) : part[i] = items[from + i]

\* read_chunk and read_multiple take the next 40 items, or what is left.
LEMMA ChunkOf ==
  ASSUME NEW items \in Seq(Elements), NEW from \in ChunkStarts(Len(items))
  PROVE  IsChunk(SubSeq(items, from + 1, Smaller(from + PLIST, Len(items))), items, from)
<1> DEFINE n == Len(items)
           a == from + 1
           b == Smaller(from + PLIST, n)
           p == SubSeq(items, a, b)
<1>1. from \in 0 .. n-1 /\ n \in Nat
  BY DEF ChunkStarts
<1>2. b <= n /\ b <= from + 40 /\ b >= from + 1 /\ b \in Nat
  BY <1>1 DEF Smaller, PLIST
<1> HIDE DEF b
<1>3. a \in 1 .. n+1 /\ b \in a-1 .. n /\ b - a + 1 = b - from
  BY <1>1, <1>2
<1>4. p \in Seq(Elements) /\ IsPart(p, items, a, b)
  BY <1>3, Part
<1> HIDE DEF p, n
<1>5. Len(p) = b - from /\ \A i \in 1 .. b-from : p[i] = items[i + a - 1]
  BY <1>3, <1>4 DEF IsPart
<1>6. \A i \in 1 .. b-from : i + a - 1 = from + i
  BY <1>1, <1>2
<1>7. Len(p) >= 1 /\ Len(p) <= 40 /\ from + Len(p) <= n
  BY <1>1, <1>2, <1>5
<1>8. IsChunk(p, items, from)
  BY <1>4, <1>5, <1>6, <1>7 DEF IsChunk, n
<1> QED
  BY <1>8 DEF p, b, n

\* The records of an archive.
LEMMA ArchItems ==
  ASSUME OptionsInv, tool = "arch", ArchComplete
  PROVE  /\ Items \in Seq(Elements) /\ Len(Items) = app.addr.cnt /\ app.addr \in Addrs
         /\ said.addr # << >> /\ AddrIs(app.addr, said.addr[1], 5)
         /\ \A i \in 1 .. app.addr.cnt :
              Items[i] = ElementOf(app.addr.dev, app.addr.par, Narrow(app.addr.idx + i - 1))
<1> DEFINE addr == app.addr
<1>1. AddrLink(app.addr, said.addr)
  BY DEF OptionsInv, Linked
<1>2. App0.addr.dev = 0 /\ addr.dev # 0
  BY DEF App0, ArchComplete
<1>3. said.addr # << >> /\ AddrIs(addr, said.addr[1], 5)
  BY <1>1, <1>2 DEF AddrLink
<1>4. addr \in Addrs
  BY <1>3 DEF AddrIs
<1>5. addr.dev \in Gateways /\ addr.par \in Word /\ addr.idx \in Word /\ addr.cnt \in Word
  BY <1>4 DEF Addrs
<1>6. addr.dev \in Byte /\ addr.idx \in Nat /\ addr.cnt \in Nat
  BY <1>5, WordFits DEF Gateways, Byte
<1> DEFINE n == addr.cnt
           x == addr.idx
           e(i) == ElementOf(addr.dev, addr.par, Narrow(x + i - 1))
<1>7. Items = [i \in 1..n |-> e(i)]
  BY DEF Items, ElementOf
<1> HIDE DEF n, x, addr
<1>8. ASSUME NEW i \in 1..n
      PROVE  e(i) \in Elements
  <2>1. x + i - 1 \in Nat
    BY <1>6 DEF n, x
  <2>2. Narrow(x + i - 1) \in Word
    BY <2>1, NarrowIsWord
  <2> QED
    BY <1>5, <1>6, <2>2 DEF Elements, ElementOf
<1>9. n \in Nat
  BY <1>6 DEF n
<1> HIDE DEF e
<1>10. Items \in Seq(Elements) /\ Len(Items) = n /\ \A i \in 1..n : Items[i] = e(i)
  BY <1>7, <1>8, <1>9
<1> QED
  BY <1>3, <1>4, <1>10 DEF n, e, x, addr

\* The parameters of a table.
LEMMA MsrItems ==
  ASSUME OptionsInv, tool = "msr"
  PROVE  /\ Items \in Seq(Elements) /\ Len(Items) = Len(app.table) /\ app.table \in Seq(Rows)
         /\ \A i \in 1 .. Len(app.table) :
              Items[i] = ElementOf(app.table[i].dev, app.table[i].par, app.table[i].idx)
<1> DEFINE n == Len(app.table)
           e(i) == ElementOf(app.table[i].dev, app.table[i].par, app.table[i].idx)
<1>1. app.table \in Seq(Rows)
  BY DEF OptionsInv, Apps
<1>2. n \in Nat /\ DOMAIN app.table = 1..n
  BY <1>1
<1>3. Items = [i \in 1..n |-> e(i)]
  BY <1>2 DEF Items, ElementOf
<1>4. ASSUME NEW i \in 1..n
      PROVE  e(i) \in Elements
  <2>1. app.table[i] \in Rows
    BY <1>1
  <2>2. app.table[i].dev \in Gateways /\ app.table[i].par \in Word /\ app.table[i].idx \in Word
    BY <2>1 DEF Rows
  <2>3. app.table[i].dev \in Byte
    BY <2>2 DEF Gateways, Byte
  <2> QED
    BY <2>2, <2>3 DEF Elements, ElementOf
<1> HIDE DEF n, e
<1>5. Items \in Seq(Elements) /\ Len(Items) = n /\ \A i \in 1..n : Items[i] = e(i)
  BY <1>2, <1>3, <1>4
<1> QED
  BY <1>1, <1>5 DEF n, e

Lists == [what : {"chunk"}, from : ChunkStarts(Len(Items))]
Clocks == [what : {"clock"}, from : {0}]

\* What tekon_arch asks for,
LEMMA ArchAsks ==
  ASSUME OptionsInv, tool = "arch", ArchComplete, NEW a \in Asks
  PROVE  \/ a.what = "chunk" /\ a.from \in ChunkStarts(Len(Items))
         \/ a.what = "clock" /\ UseTsc
<1>1. Len(Items) = app.addr.cnt
  BY ArchItems
<1>2. a \in Lists \/ (a \in Clocks /\ UseTsc)
  BY <1>1 DEF Asks, Lists, Clocks
<1>3. CASE a \in Lists
  BY <1>3 DEF Lists
<1>4. CASE a \in Clocks /\ UseTsc
  BY <1>4 DEF Clocks
<1> QED
  BY <1>2, <1>3, <1>4

\* tekon_msr,
LEMMA MsrAsks ==
  ASSUME OptionsInv, tool = "msr", NEW a \in Asks
  PROVE  a.what = "chunk" /\ a.from \in ChunkStarts(Len(Items))
<1>1. Len(Items) = Len(app.table)
  BY MsrItems
<1>2. a \in Lists
  BY <1>1 DEF Asks, Lists
<1> QED
  BY <1>2 DEF Lists

\* and tekon_sync.
LEMMA SyncAsks ==
  ASSUME tool = "sync", NEW a \in Asks
  PROVE  a.what \in {"clock", "admin", "date", "time", "user"}
<1>1. a \in [what : {"clock", "admin", "date", "time", "user"}, from : {0}]
  BY DEF Asks
<1> QED
  BY <1>1

\* tekon_arch asks for up to 40 records of its archive, through its gateway.
LEMMA ArchChunk ==
  ASSUME OptionsInv, tool = "arch", ArchComplete, NEW a, a.what = "chunk",
         a.from \in ChunkStarts(Len(Items))
  PROVE  /\ MessageFits(Message(a), a.what)
         /\ Message(a).gateway = app.gateway /\ IsChunk(Message(a).elems, Items, a.from)
<1> DEFINE part == SubSeq(Items, a.from + 1, Smaller(a.from + PLIST, Len(Items)))
           g == app.gateway
           m == tekon_req_1c(g, part)
<1>1. Message(a) = m
  BY DEF Message, Gateway
<1>2. Items \in Seq(Elements) /\ Len(Items) = app.addr.cnt /\ app.addr \in Addrs
      /\ \A i \in 1 .. Len(Items) :
           Items[i] = ElementOf(app.addr.dev, app.addr.par, Narrow(app.addr.idx + i - 1))
  BY ArchItems
<1>3. IsChunk(part, Items, a.from)
  BY <1>2, ChunkOf
<1>4. g \in Gateways
  BY GatewayWasSaid DEF OptionsInv, ArchComplete
<1>5. app.addr.dev # 0
  BY DEF ArchComplete
<1> HIDE DEF part
<1>6. part \in Seq(Elements) /\ Len(part) >= 1 /\ Len(part) <= 40
  BY <1>3 DEF IsChunk
<1>7. \A i \in 1..Len(part) : part[i].dev # 0
  <2>1. ASSUME NEW i \in 1..Len(part)
        PROVE  part[i].dev # 0
    <3>1. a.from \in Nat
      BY DEF ChunkStarts
    <3>2. a.from + i \in 1..Len(Items) /\ part[i] = Items[a.from + i]
      BY <1>2, <1>3, <3>1, SMTT(60) DEF IsChunk
    <3>3. \E x : part[i] = ElementOf(app.addr.dev, app.addr.par, x)
      BY <1>2, <3>2
    <3> QED
      BY <1>5, <3>3 DEF ElementOf
  <2> QED
    BY <2>1
<1> HIDE DEF g
<1>8. AsksList(m, g, part)
  BY <1>4, <1>6, <1>7, ListMessage
<1> HIDE DEF m
<1> QED
  BY <1>1, <1>3, <1>8 DEF MessageFits, AsksList, g

\* tekon_msr asks for up to 40 rows of its table, through the gateway of the first.
LEMMA MsrChunk ==
  ASSUME OptionsInv, tool = "msr", NEW a, a.what = "chunk", a.from \in ChunkStarts(Len(Items))
  PROVE  /\ MessageFits(Message(a), a.what)
         /\ Message(a).gateway = app.table[a.from + 1].gateway
         /\ IsChunk(Message(a).elems, Items, a.from)
<1> DEFINE part == SubSeq(Items, a.from + 1, Smaller(a.from + PLIST, Len(Items)))
           g == app.table[a.from + 1].gateway
           m == tekon_req_1c(g, part)
<1>1. Message(a) = m
  BY DEF Message, Gateway
<1>2. Items \in Seq(Elements) /\ Len(Items) = Len(app.table) /\ app.table \in Seq(Rows)
      /\ \A i \in 1 .. Len(Items) :
           Items[i] = ElementOf(app.table[i].dev, app.table[i].par, app.table[i].idx)
  BY MsrItems
<1>3. IsChunk(part, Items, a.from)
  BY <1>2, ChunkOf
<1>4. a.from \in Nat /\ a.from + 1 \in 1..Len(Items)
  BY <1>2 DEF ChunkStarts
<1>5. \A i \in 1..Len(Items) : app.table[i].gateway \in Gateways /\ app.table[i].dev # 0
  <2>1. ASSUME NEW i \in 1..Len(Items)
        PROVE  app.table[i].gateway \in Gateways /\ app.table[i].dev # 0
    <3> DEFINE row == app.table[i]
    <3>1. row \in Rows
      BY <1>2
    <3> HIDE DEF row
    <3>2. row.gateway \in Gateways /\ row.dev \in Gateways
      BY <3>1 DEF Rows
    <3>3. \A x \in Gateways : x # 0
      BY DEF Gateways
    <3> QED
      BY <3>2, <3>3 DEF row
  <2> QED
    BY <2>1
<1> HIDE DEF part
<1>6. part \in Seq(Elements) /\ Len(part) >= 1 /\ Len(part) <= 40
  BY <1>3 DEF IsChunk
<1>7. \A i \in 1..Len(part) : part[i].dev # 0
  <2>1. ASSUME NEW i \in 1..Len(part)
        PROVE  part[i].dev # 0
    <3>1. part[i] = Items[a.from + i]
      BY <1>3 DEF IsChunk
    <3>4. a.from + Len(part) <= Len(Items)
      BY <1>3 DEF IsChunk
    <3>5. a.from + i \in 1..Len(Items)
      BY <1>4, <1>6, <3>4
    <3>2. \E p, x : part[i] = ElementOf(app.table[a.from + i].dev, p, x)
      BY <1>2, <3>1, <3>5
    <3> QED
      BY <1>5, <3>5, <3>2 DEF ElementOf
  <2> QED
    BY <2>1
<1>8. g \in Gateways
  BY <1>4, <1>5
<1> HIDE DEF g
<1>9. AsksList(m, g, part)
  BY <1>6, <1>7, <1>8, ListMessage
<1> HIDE DEF m
<1> QED
  BY <1>1, <1>3, <1>9 DEF MessageFits, AsksList, g

\* The registers of date and time.
ClockElems(dt) == <<ElementOf(dt.dev, dt.date, 0), ElementOf(dt.dev, dt.time, 0)>>

\* read_time asks for the two registers of the clock.
LEMMA ClockMessage ==
  ASSUME NEW a, a.what = "clock", app.dt \in ClockAddrs, Gateway(a) \in Gateways
  PROVE  /\ MessageFits(Message(a), a.what)
         /\ Message(a).gateway = Gateway(a) /\ Message(a).elems = ClockElems(app.dt)
<1> DEFINE e == ClockElems(app.dt)
           m == tekon_req_1c(Gateway(a), e)
<1>1. Message(a) = m
  BY DEF Message, ClockElems, ElementOf
<1>2. app.dt.dev \in Gateways /\ app.dt.date \in Word /\ app.dt.time \in Word
  BY DEF ClockAddrs
<1>3. app.dt.dev \in Byte /\ app.dt.dev # 0 /\ 0 \in Word
  <2>1. app.dt.dev \in Byte /\ app.dt.dev # 0
    BY <1>2 DEF Gateways, Byte
  <2> QED
    BY <2>1, ZeroIsWord
<1>4. \A p \in Word :
        ElementOf(app.dt.dev, p, 0) \in Elements /\ ElementOf(app.dt.dev, p, 0).dev # 0
  BY <1>3 DEF ElementOf, Elements
<1>5. e \in Seq(Elements) /\ Len(e) = 2 /\ \A i \in 1..2 : e[i].dev # 0
  <2> DEFINE u == ElementOf(app.dt.dev, app.dt.date, 0)
             v == ElementOf(app.dt.dev, app.dt.time, 0)
  <2>1. u \in Elements /\ v \in Elements /\ u.dev # 0 /\ v.dev # 0
    BY <1>2, <1>4
  <2>2. e = <<u, v>>
    BY DEF ClockElems
  <2> HIDE DEF u, v, e
  <2> QED
    BY <2>1, <2>2
<1> HIDE DEF e
<1> DEFINE g == Gateway(a)
<1>6. g \in Gateways
  OBVIOUS
<1> HIDE DEF g
<1>7. AsksList(tekon_req_1c(g, e), g, e)
  <2>1. Len(e) >= 1 /\ Len(e) <= 40 /\ \A i \in 1..Len(e) : e[i].dev # 0
    BY <1>5
  <2> QED
    BY <1>5, <1>6, <2>1, ListMessage
<1>8. AsksList(Message(a), Gateway(a), ClockElems(app.dt))
  BY <1>1, <1>7 DEF g, e
<1> QED
  BY <1>8 DEF MessageFits, AsksList

\* What the requests of tekon_sync are made of.
SyncHas(a, s) ==
  /\ a.net.gateway \in Gateways
  /\ a.dt \in ClockAddrs /\ ClockIs(a.dt, s.dt[1])
  /\ a.password \in Digit8 /\ a.password = s.password[1].digits

\* tekon_sync has all of it when it is ready.
LEMMA SyncIsReady ==
  ASSUME OptionsInv, tool = "sync", SyncComplete
  PROVE  SyncHas(app, said)
<1>1. /\ ClockLink(app.dt, said.dt) /\ PasswordLink(app.password, said.password)
      /\ Linked(app, said) /\ app \in Apps /\ said \in Saids(tool)
  BY DEF OptionsInv, Linked
<1>2. App0.dt.date = 0 /\ app.dt.date # 0 /\ app.password # << >> /\ app.net.port # 0
  BY DEF App0, SyncComplete
<1>3. said.dt # << >> /\ ClockIs(app.dt, said.dt[1])
  BY <1>1, <1>2 DEF ClockLink
<1>4. app.dt \in ClockAddrs
  BY <1>3 DEF ClockIs
<1>5. app.password \in Digit8 /\ app.password = said.password[1].digits
  BY <1>1, <1>2 DEF PasswordLink
<1>6. app.net.gateway \in Gateways
  BY <1>1, <1>2, GatewayWasSaid
<1> QED
  BY <1>3, <1>4, <1>5, <1>6 DEF SyncHas

\* The clock's registers are read by tekon_arch, too.
LEMMA ArchHasClock ==
  ASSUME OptionsInv, tool = "arch", UseTsc
  PROVE  app.dt \in ClockAddrs /\ app.gateway \in Gateways
<1>1. ClockLink(app.dt, said.dt) /\ Linked(app, said) /\ app \in Apps /\ said \in Saids(tool)
  BY DEF OptionsInv, Linked
<1>2. App0.dt.dev = 0 /\ app.dt.dev # 0 /\ app.gateway # 0
  BY DEF App0, UseTsc
<1>3. said.dt # << >> /\ ClockIs(app.dt, said.dt[1])
  BY <1>1, <1>2 DEF ClockLink
<1>4. app.gateway \in Gateways
  BY <1>1, <1>2, GatewayWasSaid
<1> QED
  BY <1>3, <1>4 DEF ClockIs

\* A login gives the password to the device.
LEMMA LoginMessage ==
  ASSUME NEW a, NEW level \in 1..2, Message(a) = tekon_req_14(Gateway(a), Login(level)),
         a.what \in {"admin", "user"},
         Gateway(a) \in Gateways, app.dt \in ClockAddrs, app.password \in Digit8
  PROVE  /\ MessageFits(Message(a), a.what) /\ Message(a).gateway = Gateway(a)
         /\ IsLogin(Message(a).elems, app.dt.dev, level, Pairs(app.password))
<1> DEFINE data == Login(level)
           v == Pairs(app.password)
           d == app.dt.dev
           g == Gateway(a)
<1>1. d \in Byte
  BY DEF ClockAddrs, Gateways, Byte
<1>2. v \in Seq(Byte) /\ Len(v) = 4
  BY PairsAreBytes
<1>3. data = <<7, d, 5, level>> \o v
  BY DEF Login
<1>4. g \in Gateways
  OBVIOUS
<1> HIDE DEF v, d, data, g
<1>5. IsLogin(data, d, level, v)
  BY <1>1, <1>2, <1>3, LoginBytes
<1>6. data \in Seq(Byte) /\ data[3] = 5 /\ Len(data) = 8
  BY <1>5 DEF IsLogin
<1>7. Gives(tekon_req_14(g, data), g, data)
  BY <1>4, <1>6, WriteMessage
<1>8. Gives(Message(a), Gateway(a), data)
  BY <1>7 DEF g, data
<1> QED
  BY <1>5, <1>8 DEF MessageFits, Gives, v, d

\* A write gives a register its value.
LEMMA WriteOfClock ==
  ASSUME NEW a, NEW register \in Word, NEW value \in Seq(Byte), Len(value) = 4,
         Message(a) = tekon_req_14(Gateway(a), Write(register, value)),
         a.what \in {"date", "time"},
         Gateway(a) \in Gateways, app.dt \in ClockAddrs
  PROVE  /\ MessageFits(Message(a), a.what) /\ Message(a).gateway = Gateway(a)
         /\ IsWritten(Message(a).elems, app.dt.dev, register, value)
<1> DEFINE data == Write(register, value)
           d == app.dt.dev
           g == Gateway(a)
<1>1. d \in Byte
  BY DEF ClockAddrs, Gateways, Byte
<1>2. data = <<8, d, 3>> \o U16(register) \o value
  BY DEF Write
<1>3. g \in Gateways
  OBVIOUS
<1> HIDE DEF d, data, g
<1>4. IsWritten(data, d, register, value)
  BY <1>1, <1>2, WrittenBytes
<1>5. data \in Seq(Byte) /\ data[3] = 3 /\ Len(data) = 9
  BY <1>4 DEF IsWritten
<1>6. Gives(tekon_req_14(g, data), g, data)
  BY <1>3, <1>5, WriteMessage
<1>7. Gives(Message(a), Gateway(a), data)
  BY <1>6 DEF g, data
<1> QED
  BY <1>4, <1>7 DEF MessageFits, Gives, d

\* What each request of tekon_sync says.
SyncSays(a) ==
  /\ a.what \in {"clock", "admin", "date", "time", "user"}
  /\ MessageFits(Message(a), a.what)
  /\ Message(a).gateway = app.net.gateway
  /\ a.what = "clock" => Message(a).elems = ClockElems(app.dt)
  /\ a.what = "admin" => IsLogin(Message(a).elems, app.dt.dev, 2, Pairs(app.password))
  /\ a.what = "user" => IsLogin(Message(a).elems, app.dt.dev, 1, Pairs(app.password))
  /\ a.what = "date" =>
       IsWritten(Message(a).elems, app.dt.dev, app.dt.date, tekon_date_pack(new.date))
  /\ a.what = "time" =>
       IsWritten(Message(a).elems, app.dt.dev, app.dt.time, tekon_time_pack(new.time))

\* Every request of tekon_sync says what it is for.
LEMMA SyncMessage ==
  ASSUME OptionsInv, tool = "sync", SyncComplete, NEW a \in Asks
  PROVE  SyncSays(a)
<1>1. SyncHas(app, said)
  BY SyncIsReady
<1>2. /\ app.net.gateway \in Gateways /\ app.dt \in ClockAddrs /\ app.password \in Digit8
  BY <1>1 DEF SyncHas
<1>3. Gateway(a) = app.net.gateway
  BY DEF Gateway
<1>4. app.dt.date \in Word /\ app.dt.time \in Word
  BY <1>2 DEF ClockAddrs
<1>5. new.date \in Dates /\ new.time \in Times
  BY QueryAssumption DEF OptionsInv
<1>6. CASE a.what = "clock"
  BY <1>2, <1>3, <1>6, ClockMessage DEF SyncSays
<1>7. CASE a.what = "admin"
  <2>1. Message(a) = tekon_req_14(Gateway(a), Login(2))
    BY <1>7 DEF Message
  <2>2. /\ MessageFits(Message(a), a.what) /\ Message(a).gateway = Gateway(a)
        /\ IsLogin(Message(a).elems, app.dt.dev, 2, Pairs(app.password))
    BY <1>2, <1>3, <1>7, <2>1, LoginMessage
  <2> QED
    BY <1>3, <1>7, <2>2 DEF SyncSays
<1>8. CASE a.what = "user"
  <2>1. Message(a) = tekon_req_14(Gateway(a), Login(1))
    BY <1>8 DEF Message
  <2>2. /\ MessageFits(Message(a), a.what) /\ Message(a).gateway = Gateway(a)
        /\ IsLogin(Message(a).elems, app.dt.dev, 1, Pairs(app.password))
    BY <1>2, <1>3, <1>8, <2>1, LoginMessage
  <2> QED
    BY <1>3, <1>8, <2>2 DEF SyncSays
<1>9. CASE a.what = "date"
  <2> DEFINE v == tekon_date_pack(new.date)
  <2>1. Message(a) = tekon_req_14(Gateway(a), Write(app.dt.date, v))
    BY <1>9 DEF Message
  <2>2. v \in Seq(Byte) /\ Len(v) = 4
    BY <1>5, DatesArePacked
  <2> HIDE DEF v
  <2>3. /\ MessageFits(Message(a), a.what) /\ Message(a).gateway = Gateway(a)
        /\ IsWritten(Message(a).elems, app.dt.dev, app.dt.date, v)
    BY <1>2, <1>3, <1>4, <1>9, <2>1, <2>2, WriteOfClock
  <2> QED
    BY <1>3, <1>9, <2>3 DEF SyncSays, v
<1>10. CASE a.what = "time"
  <2> DEFINE v == tekon_time_pack(new.time)
  <2>1. Message(a) = tekon_req_14(Gateway(a), Write(app.dt.time, v))
    BY <1>10 DEF Message
  <2>2. v \in Seq(Byte) /\ Len(v) = 4
    BY <1>5, TimesArePacked
  <2> HIDE DEF v
  <2>3. /\ MessageFits(Message(a), a.what) /\ Message(a).gateway = Gateway(a)
        /\ IsWritten(Message(a).elems, app.dt.dev, app.dt.time, v)
    BY <1>2, <1>3, <1>4, <1>10, <2>1, <2>2, WriteOfClock
  <2> QED
    BY <1>3, <1>10, <2>3 DEF SyncSays, v
<1> QED
  BY <1>6, <1>7, <1>8, <1>9, <1>10, SyncAsks

\* A caller of the library may ask for what cannot be packed.
LEMMA ProbeFits ==
  ASSUME tool = "lib", NEW a \in Asks, NEW n \in Numbers
  PROVE  \/ Message(a) = None
         \/ MessageFits(Message(a), a.what)
         \/ tekon_req_pack(Message(a), n) = << >>
<1>1. a \in Probes
  BY DEF Asks
<1>2. /\ a.what \in {"par11", "ind19"} /\ a.gateway \in Byte /\ a.dev \in Byte
      /\ a.par \in Word /\ a.idx \in Word /\ a.size \in Byte /\ n \in 0..15
  BY <1>1, QueryAssumption
<1>3. Gateway(a) = a.gateway
  BY DEF Gateway
<1>4. CASE a.what = "par11"
  <2>1. Message(a) = tekon_req_11(a.gateway, a.dev, a.par)
    BY <1>3, <1>4 DEF Message
  <2>2. Message(a) = None \/ (Message(a).gateway \in 1..255 /\ IsOne(Message(a)))
    BY <1>2, <2>1, OneMessage
  <2> QED
    BY <1>4, <2>2 DEF MessageFits
<1>5. CASE a.what = "ind19"
  <2>1. Message(a) = tekon_req_19(a.gateway, a.dev, a.par, a.idx, a.size)
    BY <1>3, <1>5 DEF Message
  <2>2. \/ Message(a) = None \/ (Message(a).gateway \in 1..255 /\ IsRun(Message(a)))
        \/ tekon_req_pack(Message(a), n) = << >>
    <3>1. RunOrNone(Message(a), n)
      BY <1>2, <2>1, RunMessage
    <3> QED
      BY <3>1 DEF RunOrNone
  <2> QED
    BY <1>5, <2>2 DEF MessageFits
<1> QED
  BY <1>2, <1>4, <1>5

\* Every request that a tool may make fits its kind.
LEMMA AskFits ==
  ASSUME OptionsInv, tool # "lib", Completed, NEW a \in Asks
  PROVE  MessageFits(Message(a), a.what)
<1>1. CASE tool = "arch"
  <2>1. ArchComplete
    BY <1>1 DEF Completed
  <2>2. CASE a.what = "chunk" /\ a.from \in ChunkStarts(Len(Items))
    BY <1>1, <2>1, <2>2, ArchChunk
  <2>3. CASE a.what = "clock" /\ UseTsc
    <3>1. app.dt \in ClockAddrs /\ app.gateway \in Gateways
      BY <1>1, <2>3, ArchHasClock
    <3>2. Gateway(a) \in Gateways
      BY <1>1, <3>1 DEF Gateway
    <3> QED
      BY <2>3, <3>1, <3>2, ClockMessage
  <2> QED
    BY <1>1, <2>1, <2>2, <2>3, ArchAsks
<1>2. CASE tool = "msr"
  BY <1>2, MsrAsks, MsrChunk
<1>3. CASE tool = "sync"
  <2>1. SyncSays(a)
    BY <1>3, SyncMessage DEF Completed
  <2> QED
    BY <2>1 DEF SyncSays
<1> QED
  BY <1>1, <1>2, <1>3, QueryAssumption DEF OptionsInv

-----------------------------------------------------------------------------
(* What has been asked                                                     *)

\* What is to be read is constant in a session,
LEMMA ItemsStay ==
  ASSUME tool' = tool, app' = app
  PROVE  Items' = Items
  BY DEF Items, Narrow

\* and so is the message,
LEMMA MessageStays ==
  ASSUME Steady, NEW a, ask' = a
  PROVE  Message(ask)' = Message(a)
<1>1. tool' = tool /\ app' = app /\ new' = new
  BY DEF Steady
<1>2. Items' = Items
  BY <1>1, ItemsStay
<1>3. Gateway(ask)' = Gateway(a)
  BY <1>1 DEF Gateway
<1>4. Login(1)' = Login(1) /\ Login(2)' = Login(2)
  BY <1>1 DEF Login
<1> QED
  BY <1>1, <1>2, <1>3, <1>4 DEF Message, Write

\* and what may be asked for.
LEMMA AsksStay ==
  ASSUME Steady
  PROVE  Asks' = Asks
<1>1. tool' = tool /\ app' = app
  BY DEF Steady
<1>2. UseTsc' <=> UseTsc
  BY <1>1 DEF UseTsc
<1> QED
  BY <1>1, <1>2 DEF Asks

InSession == pc \in {"asked", "answered", "arrived", "taken", "failed"}

\* The request on its way fits its kind, and is heard as it was written.
AskInv ==
  /\ pc = "unasked" => tool = "lib"
  /\ InSession => ask \in Asks /\ number \in 0..15 /\ MessageFits(Message(ask), ask.what)
  /\ pc = "asked" => frame = tekon_req_pack(Message(ask), number)
  /\ HasBeenAsked => heard = [number |-> number, gateway |-> Message(ask).gateway,
                              elems |-> Message(ask).elems]

\* What a reply carries for the elements of a request of this kind.
Marked(elems) == [i \in 1..Len(elems) |-> Memory(elems[i]) \o <<Quality(elems[i])>>]
Plain(elems) == [i \in 1..Len(elems) |-> Memory(elems[i])]
ListKinds == {"chunk", "clock"}
WriteKinds == {"admin", "date", "time", "user"}

DataFor(elems, what) ==
  CASE what \in ListKinds -> FlattenSeq(Marked(elems))
    [] what \in WriteKinds -> <<elems[4]>>
    [] what = "par11" -> Stored(elems[1])
    [] what = "ind19" -> FlattenSeq(Plain(elems))

\* s is a reply to the message m.
CarriesFor(s, n, g, data) == Carries(s, n, g, data) /\ Len(s) = Len(data) + 8
Replied(s, n, m, what) ==
  \/ what \in WriteKinds /\ s \in {<<ACK>>, <<NAK>>}
  \/ \E g \in {0, m.gateway} : CarriesFor(s, n, g, DataFor(m.elems, what))

\* f is what may arrive of s.
Arrived(f, s, h) ==
  \/ h \in {"none", "long"} /\ Begins(f, s)
  \/ /\ h \in {"first", "byte"} /\ f \in Seq(Byte)
     /\ \E i \in 1..Len(s) : DifferAt(s, f, i) /\ (h = "first" <=> i = 1)
  \/ h = "short" /\ \E n \in 1 .. Len(s) - 1 : f = SubSeq(s, 1, n)

\* The device's reply answers what it heard, and what arrived comes of the reply.
ReplyInv ==
  /\ HasBeenAsked => Replied(sent, number, Message(ask), ask.what)
  /\ pc = "arrived" => Arrived(frame, sent, harm)

\* The parts of the invariant that speak of the request.
HeardAs(h, n, m) == h = [number |-> n, gateway |-> m.gateway, elems |-> m.elems]

\* At first nothing is asked.
LEMMA InitAsk ==
  ASSUME Init
  PROVE  AskInv
<1>1. pc \in {"ready", "args"}
  BY DEF Init
<1> QED
  BY <1>1 DEF AskInv, InSession, HasBeenAsked

\* A request that is made fits its kind.
LEMMA AskAsks ==
  ASSUME OptionsInv, ReadyInv, Ask
  PROVE  AskInv'
<1>1. PICK a \in Asks, n \in Numbers :
        LET f == IF Message(a) = None THEN << >> ELSE tekon_req_pack(Message(a), n) IN
        ask' = a /\ number' = n /\ frame' = f
        /\ pc' = IF f = << >> THEN "unasked" ELSE "asked"
  BY DEF Ask
<1>2. Steady /\ pc = "ready"
  BY OthersAreSteady DEF Ask
<1>3. Message(ask)' = Message(a) /\ Asks' = Asks
  BY <1>1, <1>2, MessageStays, AsksStay
<1> DEFINE m == Message(a)
           f == IF m = None THEN << >> ELSE tekon_req_pack(m, n)
<1>4. n \in 0..15
  BY QueryAssumption
<1>5. tool' = tool
  BY <1>2 DEF Steady
<1>6. ask' = a /\ number' = n /\ frame' = f /\ pc' = IF f = << >> THEN "unasked" ELSE "asked"
  BY <1>1
<1>7. Message(ask)' = m
  BY <1>3
<1>8. MessageFits(m, a.what) \/ (tool = "lib" /\ f = << >>)
  <2>1. CASE tool = "lib"
    BY <2>1, ProbeFits
  <2>2. CASE tool # "lib"
    <3>1. Completed
      BY <1>2, <2>2 DEF ReadyInv, BeforeReady
    <3> QED
      BY <2>2, <3>1, AskFits
  <2> QED
    BY <2>1, <2>2
<1> HIDE DEF m
<1>9. CASE MessageFits(m, a.what)
  <2>1. WellFormed(m) /\ m.type # "UNK"
    BY <1>9, FittingIsWellFormed
  <2>2. m # None
    BY <2>1 DEF None
  <2>3. HeardIs(tekon_req_pack(m, n), n, m.gateway, m.elems)
    BY <1>4, <2>1, RequestIsHeard
  <2>4. f = tekon_req_pack(m, n) /\ f # << >>
    BY <2>2, <2>3 DEF HeardIs
  <2>5. frame' = tekon_req_pack(m, n) /\ pc' = "asked"
    BY <1>6, <2>4
  <2>6. ~HasBeenAsked' /\ pc' # "unasked"
    BY <2>5 DEF HasBeenAsked
  <2>7. ask' \in Asks' /\ number' \in 0..15 /\ MessageFits(Message(ask)', ask'.what)
    BY <1>3, <1>4, <1>6, <1>7, <1>9
  <2>8. frame' = tekon_req_pack(Message(ask)', number')
    BY <1>6, <1>7, <2>5
  <2> QED
    BY <2>6, <2>7, <2>8 DEF AskInv
<1>10. CASE tool = "lib" /\ f = << >>
  <2>1. pc' = "unasked"
    BY <1>6, <1>10
  <2> QED
    BY <1>5, <1>10, <2>1 DEF AskInv, InSession, HasBeenAsked
<1> QED
  BY <1>8, <1>9, <1>10

\* The device hears it as it was meant.
LEMMA AnswerHears ==
  ASSUME AskInv, Answer
  PROVE  AskInv'
<1>1. Steady
  BY OthersAreSteady
<1>2. pc = "asked" /\ pc' = "answered" /\ heard' = Heard(frame) /\ ask' = ask /\ number' = number
  BY DEF Answer
<1>3. Message(ask)' = Message(ask) /\ Asks' = Asks
  BY <1>1, <1>2, MessageStays, AsksStay
<1> DEFINE m == Message(ask)
<1>4. /\ ask \in Asks /\ number \in 0..15 /\ MessageFits(m, ask.what)
      /\ frame = tekon_req_pack(m, number)
  BY <1>2 DEF AskInv, InSession
<1>5. Message(ask)' = m
  BY <1>3
<1> HIDE DEF m
<1>6. HeardIs(tekon_req_pack(m, number), number, m.gateway, m.elems)
  BY <1>4, FittingIsWellFormed, RequestIsHeard
<1>7. heard' = [number |-> number, gateway |-> m.gateway, elems |-> m.elems]
  BY <1>2, <1>4, <1>6 DEF HeardIs
<1>8. ask' \in Asks' /\ number' \in 0..15 /\ MessageFits(Message(ask)', ask'.what)
  BY <1>2, <1>3, <1>4, <1>5
<1>9. heard' = [number |-> number', gateway |-> Message(ask)'.gateway,
                elems |-> Message(ask)'.elems]
  BY <1>2, <1>5, <1>7
<1> QED
  BY <1>2, <1>8, <1>9 DEF AskInv

\* What leaves the request and what was heard alone.
LEMMA LaterKeeps ==
  ASSUME AskInv, Steady, ask' = ask, number' = number, heard' = heard,
         pc' = pc \/ (HasBeenAsked /\ HasBeenAsked'), pc' = "asked" => frame' = frame
  PROVE  AskInv'
<1>1. Message(ask)' = Message(ask) /\ Asks' = Asks
  BY MessageStays, AsksStay
<1>2. tool' = tool
  BY DEF Steady
<1>3. pc' = "unasked" => tool' = "lib"
  BY <1>2 DEF AskInv, HasBeenAsked
<1>4. InSession' => InSession
  BY DEF InSession, HasBeenAsked
<1>5. HasBeenAsked' => HasBeenAsked
  BY DEF HasBeenAsked
<1>6. pc' = "asked" => pc = "asked"
  BY DEF HasBeenAsked
<1>7. InSession' => ask' \in Asks' /\ number' \in 0..15 /\ MessageFits(Message(ask)', ask'.what)
  BY <1>1, <1>4 DEF AskInv
<1>8. pc' = "asked" => frame' = tekon_req_pack(Message(ask)', number')
  BY <1>1, <1>6 DEF AskInv
<1>9. HasBeenAsked' => heard' = [number |-> number', gateway |-> Message(ask)'.gateway,
                                 elems |-> Message(ask)'.elems]
  BY <1>1, <1>5 DEF AskInv
<1> QED
  BY <1>3, <1>7, <1>8, <1>9 DEF AskInv

\* Every step keeps the request and what was heard.
LEMMA AskStays ==
  ASSUME OptionsInv, ReadyInv, AskInv, [Next]_vars
  PROVE  AskInv'
<1>1. CASE OptionT \/ OptionA \/ OptionArchive \/ OptionParameters \/ OptionPassword
           \/ OptionD \/ OptionI \/ OptionC \/ EndOfArgs
  <2>1. pc' \in {"args", "refused", "ready"}
    BY <1>1, OptionsAreArgs, EndOfArgsIsSteady
  <2> QED
    BY <2>1 DEF AskInv, InSession, HasBeenAsked
<1>2. CASE Ask
  BY <1>2, AskAsks
<1>3. CASE Answer
  BY <1>3, AnswerHears
<1>4. CASE ArriveWhole \/ ArriveChanged \/ ArriveShort \/ ArriveLong
  <2>1. Steady
    BY <1>4, OthersAreSteady
  <2>2. \A f, h : Arrive(f, h) => pc = "answered" /\ pc' = "arrived" /\ ask' = ask
                                  /\ number' = number /\ heard' = heard
    BY DEF Arrive
  <2>3. pc = "answered" /\ pc' = "arrived" /\ ask' = ask /\ number' = number /\ heard' = heard
    BY <1>4, <2>2 DEF ArriveWhole, ArriveChanged, ArriveShort, ArriveLong
  <2> QED
    BY <2>1, <2>3, LaterKeeps DEF HasBeenAsked
<1>5. CASE Receive \/ ReceiveUnfilled
  <2>1. Steady
    BY <1>5, OthersAreSteady
  <2>2. \A t, e : End(t, e) => pc' \in {"taken", "failed"} /\ ask' = ask
                               /\ number' = number /\ heard' = heard
    BY DEF End
  <2>3. /\ pc = "arrived" /\ pc' \in {"taken", "failed"} /\ ask' = ask /\ number' = number
        /\ heard' = heard
    BY <1>5, <2>2 DEF Receive, ReceiveUnfilled
  <2> QED
    BY <2>1, <2>3, LaterKeeps DEF HasBeenAsked
<1>6. CASE Done \/ UNCHANGED vars
  <2>1. Steady /\ pc' = pc /\ ask' = ask /\ number' = number /\ heard' = heard /\ frame' = frame
    BY <1>6, OthersAreSteady DEF Done, vars
  <2> QED
    BY <2>1, LaterKeeps
<1> QED
  BY <1>1, <1>2, <1>3, <1>4, <1>5, <1>6 DEF Next

-----------------------------------------------------------------------------
(* Replies of the device                                                   *)

\* The four bytes that are stored for an element.
LEMMA MemoryBytes ==
  ASSUME NEW e \in Elements
  PROVE  Memory(e) \in Seq(Byte) /\ Len(Memory(e)) = 4
<1>1. e.dev \in Nat /\ e.idx \in Word /\ e.par \in Word
  BY DEF Elements, Byte
<1>2. e.idx \in Nat
  BY <1>1, WordFits
<1>3. (e.dev + e.idx) % 256 \in Byte
  BY <1>1, <1>2 DEF Byte
<1>4. e.idx \div 256 \in Byte /\ e.par % 256 \in Byte /\ e.par \div 256 \in Byte
  BY <1>1, WordBytes
<1> QED
  BY <1>3, <1>4 DEF Memory

\* The bytes under an address,
LEMMA StoredBytes ==
  ASSUME NEW e \in Elements
  PROVE  Stored(e) \in Seq(Byte) /\ Len(Stored(e)) = IF e.par % 2 = 1 THEN 2 ELSE 4
<1> DEFINE m == Memory(e)
           p == SubSeq(m, 1, 2)
<1>1. m \in Seq(Byte) /\ Len(m) = 4
  BY MemoryBytes
<1> HIDE DEF m
<1>2. p \in Seq(Byte) /\ Len(p) = 2
  BY <1>1
<1> HIDE DEF p
<1>3. Stored(e) = IF e.par % 2 = 1 THEN p ELSE m
  BY DEF Stored, p, m
<1> QED
  BY <1>1, <1>2, <1>3

\* their quality,
LEMMA QualityByte ==
  ASSUME NEW e
  PROVE  Quality(e) \in Byte
  BY DEF Quality, Byte

\* Value and quality of an element, in a row.
MarkedAs(b, e) ==
  b \in Seq(Byte) /\ Len(b) = 5 /\ SubSeq(b, 1, 4) = Memory(e) /\ b[5] = Quality(e)

\* and both.
LEMMA MarkedBytes ==
  ASSUME NEW e \in Elements
  PROVE  MarkedAs(Memory(e) \o <<Quality(e)>>, e)
<1> DEFINE m == Memory(e)
           q == Quality(e)
           o == <<q>>
           b == m \o o
<1>1. m \in Seq(Byte) /\ Len(m) = 4 /\ q \in Byte
  BY MemoryBytes, QualityByte
<1> HIDE DEF m, q
<1>2. o \in Seq(Byte) /\ Len(o) = 1 /\ o[1] = q
  BY <1>1
<1> HIDE DEF o
<1>3. b \in Seq(Byte) /\ IsJoin(b, m, o)
  BY <1>1, <1>2, Join
<1> HIDE DEF b
<1>4. Len(b) = 5 /\ (\A i \in 1..4 : b[i] = m[i]) /\ \A i \in 1..1 : b[4 + i] = o[i]
  BY <1>1, <1>2, <1>3 DEF IsJoin
<1>5. b[4 + 1] = q
  BY <1>2, <1>4
<1>6. SubSeq(b, 1, 4) = m
  <2> DEFINE x == 1
             y == 4
  <2>1. x \in Nat /\ y \in Nat /\ 1 <= x /\ x <= y + 1 /\ y <= Len(b) /\ Len(m) = y - x + 1
        /\ x - 1 = 0
    BY <1>1, <1>4
  <2>2. \A i \in 1..Len(m) : b[0 + i] = m[i]
    BY <1>1, <1>4
  <2> HIDE DEF x, y
  <2>3. \A i \in 1..Len(m) : b[x - 1 + i] = m[i]
    BY <2>1, <2>2
  <2>4. SubSeq(b, x, y) = m
    BY <1>1, <1>3, <2>1, <2>3, SamePart
  <2> QED
    BY <2>4 DEF x, y
<1>7. MarkedAs(b, e)
  BY <1>3, <1>4, <1>5, <1>6 DEF MarkedAs, m, q
<1> QED
  BY <1>7 DEF b, o, m, q

\* What a list is answered with has blocks of five bytes,
LEMMA MarkedBlocks ==
  ASSUME NEW elems \in Seq(Elements)
  PROVE  /\ Blocks(Byte, 5, Marked(elems)) /\ Len(Marked(elems)) = Len(elems)
         /\ \A i \in 1..Len(elems) : MarkedAs(Marked(elems)[i], elems[i])
<1> DEFINE n == Len(elems)
           b(i) == Memory(elems[i]) \o <<Quality(elems[i])>>
           s == Marked(elems)
<1>1. n \in Nat /\ \A i \in 1..n : elems[i] \in Elements
  OBVIOUS
<1>2. s = [i \in 1..n |-> b(i)]
  BY DEF Marked
<1>3. \A i \in 1..n : MarkedAs(b(i), elems[i])
  BY <1>1, MarkedBytes
<1> HIDE DEF n, b, s
<1>4. \A i \in 1..n : b(i) \in Seq(Byte) /\ Len(b(i)) = 5
  BY <1>3 DEF MarkedAs
<1>5. s \in Seq(Seq(Byte)) /\ Len(s) = n /\ \A i \in 1..n : s[i] = b(i)
  BY <1>1, <1>2, <1>4
<1>6. Blocks(Byte, 5, s)
  BY <1>4, <1>5 DEF Blocks
<1> QED
  BY <1>3, <1>5, <1>6 DEF n, s

\* and what a run is answered with blocks of four.
LEMMA PlainBlocks ==
  ASSUME NEW elems \in Seq(Elements)
  PROVE  /\ Blocks(Byte, 4, Plain(elems)) /\ Len(Plain(elems)) = Len(elems)
         /\ \A i \in 1..Len(elems) : Plain(elems)[i] = Memory(elems[i])
<1> DEFINE n == Len(elems)
           b(i) == Memory(elems[i])
           s == Plain(elems)
<1>1. n \in Nat /\ \A i \in 1..n : elems[i] \in Elements
  OBVIOUS
<1>2. s = [i \in 1..n |-> b(i)]
  BY DEF Plain
<1>3. \A i \in 1..n : b(i) \in Seq(Byte) /\ Len(b(i)) = 4
  BY <1>1, MemoryBytes
<1> HIDE DEF n, b, s
<1>4. s \in Seq(Seq(Byte)) /\ Len(s) = n /\ \A i \in 1..n : s[i] = b(i)
  BY <1>1, <1>2, <1>3
<1>5. Blocks(Byte, 4, s)
  BY <1>3, <1>4 DEF Blocks
<1> QED
  BY <1>4, <1>5 DEF n, s, b

\* The data of a reply to each kind of request.
DataFits(data, elems, what) ==
  /\ data \in Seq(Byte) /\ Len(data) >= 1 /\ Len(data) <= 253
  /\ what \in ListKinds => /\ elems \in Seq(Elements) /\ Len(elems) >= 1 /\ Len(elems) <= 40
                           /\ JoinedTo(data, Byte, 5, Marked(elems), Len(elems))
  /\ what = "ind19" => /\ elems \in Seq(Elements) /\ Len(elems) >= 1 /\ Len(elems) <= 60
                       /\ JoinedTo(data, Byte, 4, Plain(elems), Len(elems))
  /\ what = "par11" => /\ Len(elems) = 1 /\ elems[1] \in Elements /\ Len(data) <= 4
                       /\ data = Stored(elems[1])
  /\ what \in WriteKinds => elems \in Seq(Byte) /\ Len(elems) >= 8 /\ Len(data) = 1

Kinds == ListKinds \cup WriteKinds \cup {"par11", "ind19"}

\* The data of a reply fit a frame: of a list,
LEMMA ListData ==
  ASSUME NEW elems \in Seq(Elements), Len(elems) >= 1, Len(elems) <= 40, NEW what \in ListKinds
  PROVE  DataFits(DataFor(elems, what), elems, what)
<1> DEFINE s == Marked(elems)
           data == FlattenSeq(s)
           n == Len(elems)
<1>1. Blocks(Byte, 5, s) /\ Len(s) = n
  BY MarkedBlocks
<1>2. n \in Nat /\ n >= 1 /\ n <= 40
  OBVIOUS
<1> HIDE DEF s, n
<1>3. JoinedTo(data, Byte, 5, s, n)
  BY <1>1, Flattened
<1>4. DataFor(elems, what) = data
  BY DEF DataFor, s, ListKinds, WriteKinds
<1> HIDE DEF data
<1>5. data \in Seq(Byte) /\ Len(data) = 5 * n
  BY <1>3 DEF JoinedTo
<1>6. Len(data) >= 1 /\ Len(data) <= 253
  BY <1>2, <1>5
<1>7. what # "ind19" /\ what # "par11" /\ what \notin WriteKinds
  BY DEF ListKinds, WriteKinds
<1> QED
  BY <1>3, <1>4, <1>5, <1>6, <1>7 DEF DataFits, s, n

\* a run has 60 elements at most,
LEMMA RunElements ==
  ASSUME NEW m, IsRun(m)
  PROVE  m.elems \in Seq(Elements) /\ Len(m.elems) >= 1 /\ Len(m.elems) <= 60
<1>1. PICK dev \in Byte, par \in Word, idx \in Word, size \in 1..60 :
        m.elems = Consecutive(dev, par, idx, size)
  BY DEF IsRun
<1>2. idx \in Nat /\ size \in Nat
  BY WordFits
<1> DEFINE e(i) == ElementOf(dev, par, Narrow(idx + i - 1))
<1>3. m.elems = [i \in 1..size |-> e(i)]
  BY <1>1 DEF Consecutive, ElementOf, Narrow
<1>4. ASSUME NEW i \in 1..size
      PROVE  e(i) \in Elements
  <2>1. idx + i - 1 \in Nat
    BY <1>2
  <2>2. Narrow(idx + i - 1) \in Word
    BY <2>1, NarrowIsWord
  <2> QED
    BY <2>2 DEF ElementOf, Elements
<1> HIDE DEF e
<1> QED
  BY <1>2, <1>3, <1>4

\* of a run,
LEMMA RunData ==
  ASSUME NEW elems \in Seq(Elements), Len(elems) >= 1, Len(elems) <= 60
  PROVE  DataFits(DataFor(elems, "ind19"), elems, "ind19")
<1> DEFINE s == Plain(elems)
           data == FlattenSeq(s)
           n == Len(elems)
<1>1. Blocks(Byte, 4, s) /\ Len(s) = n
  BY PlainBlocks
<1>2. n \in Nat /\ n >= 1 /\ n <= 60
  OBVIOUS
<1> HIDE DEF s, n
<1>3. JoinedTo(data, Byte, 4, s, n)
  BY <1>1, Flattened
<1>4. DataFor(elems, "ind19") = data
  BY DEF DataFor, s, ListKinds, WriteKinds
<1> HIDE DEF data
<1>5. data \in Seq(Byte) /\ Len(data) = 4 * n
  BY <1>3 DEF JoinedTo
<1>6. Len(data) >= 1 /\ Len(data) <= 253
  BY <1>2, <1>5
<1> QED
  BY <1>3, <1>4, <1>5, <1>6 DEF DataFits, s, n, ListKinds, WriteKinds

\* of one parameter,
LEMMA OneData ==
  ASSUME NEW e \in Elements, NEW elems, elems = <<e>>
  PROVE  DataFits(DataFor(elems, "par11"), elems, "par11")
<1> DEFINE data == Stored(e)
<1>1. Len(elems) = 1 /\ elems[1] = e
  OBVIOUS
<1>2. data \in Seq(Byte) /\ Len(data) = IF e.par % 2 = 1 THEN 2 ELSE 4
  BY StoredBytes
<1>3. DataFor(elems, "par11") = data
  BY <1>1 DEF DataFor, ListKinds, WriteKinds
<1> HIDE DEF data
<1>4. Len(data) >= 1 /\ Len(data) <= 4 /\ Len(data) <= 253
  BY <1>2
<1> QED
  BY <1>1, <1>2, <1>3, <1>4 DEF DataFits, ListKinds, WriteKinds, data

\* and of a write.
LEMMA WriteData ==
  ASSUME NEW elems \in Seq(Byte), Len(elems) >= 8, NEW what \in WriteKinds
  PROVE  DataFits(DataFor(elems, what), elems, what)
<1> DEFINE x == elems[4]
           data == <<x>>
<1>1. x \in Byte
  OBVIOUS
<1> HIDE DEF x
<1>2. data \in Seq(Byte) /\ Len(data) = 1
  BY <1>1
<1>3. DataFor(elems, what) = data
  BY DEF DataFor, ListKinds, WriteKinds, x
<1> HIDE DEF data
<1>4. what # "ind19" /\ what # "par11" /\ what \notin ListKinds
  BY DEF ListKinds, WriteKinds
<1>5. Len(data) >= 1 /\ Len(data) <= 253
  BY <1>2
<1>6. DataFits(data, elems, what)
  BY <1>2, <1>4, <1>5 DEF DataFits
<1> QED
  BY <1>3, <1>6

\* The data of every reply fit a frame.
LEMMA DataIsFit ==
  ASSUME NEW m, NEW what, MessageFits(m, what)
  PROVE  DataFits(DataFor(m.elems, what), m.elems, what)
<1>1. CASE what \in ListKinds
  <2>1. IsList(m)
    BY <1>1 DEF MessageFits, ListKinds
  <2> QED
    BY <1>1, <2>1, ListData DEF IsList
<1>2. CASE what \in WriteKinds
  <2>1. IsWrite(m)
    BY <1>2 DEF MessageFits, WriteKinds
  <2>2. m.elems \in Seq(Byte) /\ (Len(m.elems) = 8 \/ Len(m.elems) = 9)
    BY <2>1 DEF IsWrite
  <2>3. Len(m.elems) >= 8
    <3>1. CASE Len(m.elems) = 8
      BY <3>1
    <3>2. CASE Len(m.elems) = 9
      BY <3>2
    <3> QED
      BY <2>2, <3>1, <3>2
  <2> QED
    BY <1>2, <2>2, <2>3, WriteData
<1>3. CASE what = "par11"
  <2>1. PICK e \in Elements : m.elems = <<e>>
    BY <1>3 DEF MessageFits, IsOne
  <2> QED
    BY <1>3, <2>1, OneData
<1>4. CASE what = "ind19"
  <2>1. IsRun(m)
    BY <1>4 DEF MessageFits
  <2> QED
    BY <1>4, <2>1, RunElements, RunData
<1> QED
  BY <1>1, <1>2, <1>3, <1>4 DEF MessageFits, ListKinds, WriteKinds

\* One block alone is joined to itself.
LEMMA OneBlock ==
  ASSUME NEW s \in Seq(Byte), Len(s) \in Nat \ {0}
  PROVE  FlattenSeq(<<s>>) = s
<1> DEFINE q == <<s>>
           n == Len(s)
           f == FlattenSeq(q)
<1>1. q \in Seq(Seq(Byte)) /\ Len(q) = 1 /\ q[1] = s
  OBVIOUS
<1>2. n \in Nat \ {0} /\ Len(s) = n
  OBVIOUS
<1> HIDE DEF q, n
<1>3. Blocks(Byte, n, q)
  <2>1. \A i \in 1..Len(q) : Len(q[i]) = n
    BY <1>1, <1>2
  <2> QED
    BY <1>1, <2>1 DEF Blocks
<1>4. JoinedTo(f, Byte, n, q, Len(q))
  BY <1>2, <1>3, Flattened
<1> HIDE DEF f
<1>5. /\ f \in Seq(Byte) /\ Len(f) = n * 1
      /\ \A i \in 1..1, k \in 1..n : f[n * (i-1) + k] = q[i][k]
  BY <1>1, <1>4 DEF JoinedTo
<1>6. Len(f) = n
  BY <1>2, <1>5
<1>7. \A k \in 1..n : f[k] = s[k]
  <2>1. ASSUME NEW k \in 1..n
        PROVE  f[k] = s[k]
    <3>1. f[n * (1-1) + k] = q[1][k]
      BY <1>5
    <3>2. n * (1-1) + k = k
      BY <1>2
    <3> QED
      BY <1>1, <3>1, <3>2
  <2> QED
    BY <2>1
<1>8. f = s
  BY <1>2, <1>5, <1>6, <1>7, SameSequence
<1> QED
  BY <1>8 DEF f, q

\* What the device puts into its reply to a read.
LEMMA DataOfReads ==
  ASSUME NEW m, MessageFits(m, ask.what), ~AskedWrite, NEW h, h.elems = m.elems
  PROVE  Data(h) = DataFor(m.elems, ask.what)
<1> DEFINE elems == m.elems
           n == Len(elems)
<1>1. DataFits(DataFor(elems, ask.what), elems, ask.what)
  BY DataIsFit
<1>2. ask.what \in ListKinds \/ ask.what = "ind19" \/ ask.what = "par11"
  BY DEF MessageFits, AskedWrite, ListKinds
<1>3. h.elems = elems
  OBVIOUS
<1> HIDE DEF elems
<1>4. CASE ask.what \in ListKinds
  <2>1. elems \in Seq(Elements)
    BY <1>1, <1>4 DEF DataFits
  <2>2. DOMAIN h.elems = 1..n
    BY <1>3, <2>1
  <2>3. AskedList
    BY <1>4 DEF AskedList, ListKinds
  <2>4. Data(h) = FlattenSeq(Marked(elems))
    BY <1>3, <2>2, <2>3 DEF Data, Marked
  <2> QED
    BY <1>4, <2>4 DEF DataFor, ListKinds, WriteKinds, elems
<1>5. CASE ask.what = "ind19"
  <2>1. elems \in Seq(Elements)
    BY <1>1, <1>5 DEF DataFits
  <2>2. DOMAIN h.elems = 1..n
    BY <1>3, <2>1
  <2>3. ~AskedList /\ ~Asked11
    BY <1>5 DEF AskedList, Asked11
  <2>4. Data(h) = FlattenSeq(Plain(elems))
    BY <1>3, <2>2, <2>3 DEF Data, Plain
  <2> QED
    BY <1>5, <2>4 DEF DataFor, ListKinds, WriteKinds, elems
<1>6. CASE ask.what = "par11"
  <2>1. PICK e \in Elements : elems = <<e>>
    BY <1>6 DEF MessageFits, IsOne, elems
  <2>2. ~AskedList /\ Asked11
    BY <1>6 DEF AskedList, Asked11
  <2> DEFINE s == Stored(e)
  <2>3. s \in Seq(Byte) /\ Len(s) \in Nat \ {0}
    BY StoredBytes
  <2>4. elems[1] = e /\ DOMAIN elems = {1}
    BY <2>1
  <2> HIDE DEF s
  <2>5. [i \in {1} |-> s] = <<s>>
    OBVIOUS
  <2>6. Data(h) = FlattenSeq([i \in {1} |-> s])
    BY <1>3, <2>2, <2>4 DEF Data, s
  <2>7. Data(h) = s
    BY <2>3, <2>5, <2>6, OneBlock
  <2> QED
    BY <1>6, <2>4, <2>7 DEF DataFor, ListKinds, WriteKinds, elems, s
<1> QED
  BY <1>2, <1>4, <1>5, <1>6

\* What the device sends is a reply to the request it heard.
LEMMA AnswerReplies ==
  ASSUME NEW m, MessageFits(m, ask.what), number \in 0..15, HeardAs(heard', number, m),
         NEW f \in Answers(heard')
  PROVE  Replied(f, number, m, ask.what)
<1> DEFINE data == DataFor(m.elems, ask.what)
           h == heard'
           G == {h.gateway} \cup (IF NoGateway THEN {0} ELSE {})
           d == IF AskedWrite THEN <<h.elems[4]>> ELSE Data(h)
<1>1. h.number = number /\ h.gateway = m.gateway /\ h.elems = m.elems
  BY DEF HeardAs
<1>2. DataFits(data, m.elems, ask.what)
  BY DataIsFit
<1>3. data \in Seq(Byte) /\ Len(data) <= 253
  BY <1>2 DEF DataFits
<1> HIDE DEF h
<1>4. d = data
  <2>1. CASE AskedWrite
    BY <1>1, <2>1 DEF DataFor, AskedWrite, WriteKinds, ListKinds
  <2>2. CASE ~AskedWrite
    BY <1>1, <2>2, DataOfReads
  <2> QED
    BY <2>1, <2>2
<1>5. \/ AskedWrite /\ f \in {<<ACK>>, <<NAK>>}
      \/ \E g \in G : f = ReplyFrame(h.number, g, d)
  BY DEF Answers, h
<1>6. CASE AskedWrite /\ f \in {<<ACK>>, <<NAK>>}
  BY <1>6 DEF Replied, AskedWrite, WriteKinds
<1>7. CASE \E g \in G : f = ReplyFrame(h.number, g, d)
  <2>1. PICK g \in G : f = ReplyFrame(number, g, data)
    BY <1>1, <1>4, <1>7
  <2>2. g \in {0, m.gateway}
    BY <1>1
  <2>3. m.gateway \in 1..255
    BY DEF MessageFits
  <2>4. g \in Byte /\ number \in Byte
    BY <2>2, <2>3 DEF Byte
  <2> HIDE DEF data
  <2>5. CarriesFor(f, number, g, data)
    BY <1>3, <2>1, <2>4, ReplyCarries DEF CarriesFor
  <2> QED
    BY <2>2, <2>5 DEF Replied, data
<1> QED
  BY <1>5, <1>6, <1>7

\* A reply is a sequence of bytes.
LEMMA RepliesAreBytes ==
  ASSUME NEW s, NEW n, NEW m, NEW what, Replied(s, n, m, what)
  PROVE  s \in Seq(Byte) /\ Len(s) >= 1
<1>1. CASE s \in {<<ACK>>, <<NAK>>}
  <2>1. ACK \in Byte /\ NAK \in Byte
    BY DEF ACK, NAK, Byte
  <2>2. \A x \in Byte : <<x>> \in Seq(Byte) /\ Len(<<x>>) >= 1
    OBVIOUS
  <2> QED
    BY <1>1, <2>1, <2>2
<1>2. CASE \E g \in {0, m.gateway} : CarriesFor(s, n, g, DataFor(m.elems, what))
  <2>1. PICK g : CarriesFor(s, n, g, DataFor(m.elems, what))
    BY <1>2
  <2>2. s \in Seq(Byte) /\ Len(s) = Len(DataFor(m.elems, what)) + 8 /\ s[1] = VAR
    BY <2>1 DEF CarriesFor, Carries
  <2> QED
    BY <2>2
<1> QED
  BY <1>1, <1>2 DEF Replied

\* What happens on the way.
LEMMA ChangedByte ==
  ASSUME NEW s \in Seq(Byte), NEW i \in 1..Len(s), NEW d \in 1..255
  PROVE  /\ [s EXCEPT ![i] = (@ + d) % 256] \in Seq(Byte)
         /\ DifferAt(s, [s EXCEPT ![i] = (@ + d) % 256], i)
<1> DEFINE x == s[i]
           y == (x + d) % 256
           f == [s EXCEPT ![i] = y]
<1>1. x \in Byte
  OBVIOUS
<1> HIDE DEF x
<1>2. y \in Byte /\ y # x
  <2> DEFINE z == x + d
  <2>1. x \in 0..255 /\ z \in Nat /\ z - x >= 1 /\ z - x <= 255
    BY <1>1 DEF Byte
  <2>2. y = z % 256
    OBVIOUS
  <2> HIDE DEF z, y
  <2>3. y \in 0..255 /\ y # x
    BY <2>1, <2>2
  <2> QED
    BY <2>3 DEF Byte
<1> HIDE DEF y
<1>3. f \in Seq(Byte) /\ Len(f) = Len(s) /\ f[i] = y /\ \A j \in 1..Len(s) : j # i => f[j] = s[j]
  BY <1>2
<1> HIDE DEF f
<1>4. DifferAt(s, f, i)
  BY <1>2, <1>3 DEF DifferAt, x
<1> QED
  BY <1>3, <1>4 DEF f, y, x

\* A reply with bytes behind it begins with the reply.
LEMMA LongerBegins ==
  ASSUME NEW s \in Seq(Byte), Len(s) >= 1, NEW n \in 1..2
  PROVE  Begins(s \o SubSeq(s, 1, Smaller(n, Len(s))), s)
<1> DEFINE k == Smaller(n, Len(s))
           t == SubSeq(s, 1, k)
           f == s \o t
<1>1. k \in 0..Len(s)
  BY DEF Smaller
<1> HIDE DEF k
<1>2. t \in Seq(Byte)
  BY <1>1, Part
<1> HIDE DEF t
<1>3. f \in Seq(Byte) /\ IsJoin(f, s, t)
  BY <1>2, Join
<1> HIDE DEF f
<1>4. Len(f) >= Len(s) /\ \A i \in 1..Len(s) : f[i] = s[i]
  BY <1>2, <1>3 DEF IsJoin
<1>5. Begins(f, s)
  BY <1>3, <1>4 DEF Begins
<1> QED
  BY <1>5 DEF f, t, k

\* What arrives is the reply, whole, longer, shorter or changed in one byte.
LEMMA ArrivalsAre ==
  ASSUME ReplyInv, ArriveWhole \/ ArriveChanged \/ ArriveShort \/ ArriveLong
  PROVE  /\ Arrived(frame', sent, harm') /\ sent' = sent /\ pc = "answered" /\ pc' = "arrived"
         /\ ask' = ask /\ number' = number
<1>1. \A f, h : Arrive(f, h) => /\ pc = "answered" /\ pc' = "arrived" /\ frame' = f /\ harm' = h
                                /\ sent' = sent /\ ask' = ask /\ number' = number
  BY DEF Arrive
<1>2. pc = "answered"
  BY <1>1, ZenonT(60) DEF ArriveWhole, ArriveChanged, ArriveShort, ArriveLong
<1>3. sent \in Seq(Byte) /\ Len(sent) >= 1
  BY <1>2, RepliesAreBytes DEF ReplyInv, HasBeenAsked
<1>4. CASE ArriveWhole
  <2>1. Begins(sent, sent)
    BY <1>3 DEF Begins
  <2> QED
    BY <1>1, <1>4, <2>1 DEF ArriveWhole, Arrived
<1>5. CASE ArriveChanged
  <2>1. PICK i \in DOMAIN sent, d \in Deltas :
          Arrive([sent EXCEPT ![i] = (@ + d) % 256], IF i = 1 THEN "first" ELSE "byte")
    BY <1>5 DEF ArriveChanged
  <2>2. i \in 1..Len(sent) /\ d \in 1..255
    BY <1>3, <2>1, QueryAssumption, SMTT(60)
  <2> DEFINE f == [sent EXCEPT ![i] = (@ + d) % 256]
             h == IF i = 1 THEN "first" ELSE "byte"
  <2>3. f \in Seq(Byte) /\ DifferAt(sent, f, i)
    BY <1>3, <2>2, ChangedByte, ZenonT(60)
  <2>4. h \in {"first", "byte"} /\ (h = "first" <=> i = 1)
    OBVIOUS
  <2>5. Arrive(f, h)
    BY <2>1
  <2> HIDE DEF f, h
  <2>6. Arrived(f, sent, h)
    BY <2>2, <2>3, <2>4 DEF Arrived
  <2> QED
    BY <1>1, <2>5, <2>6
<1>6. CASE ArriveShort
  BY <1>1, <1>6 DEF ArriveShort, Arrived
<1>7. CASE ArriveLong
  <2>1. PICK n \in 1..2 : Arrive(sent \o SubSeq(sent, 1, Smaller(n, Len(sent))), "long")
    BY <1>7 DEF ArriveLong
  <2>2. Begins(sent \o SubSeq(sent, 1, Smaller(n, Len(sent))), sent)
    BY <1>3, LongerBegins
  <2> QED
    BY <1>1, <2>1, <2>2 DEF Arrived
<1> QED
  BY <1>4, <1>5, <1>6, <1>7

\* At first there is no reply.
LEMMA InitReply ==
  ASSUME Init
  PROVE  ReplyInv
<1>1. pc \in {"ready", "args"}
  BY DEF Init
<1> QED
  BY <1>1 DEF ReplyInv, HasBeenAsked

\* The answer replies to the request.
LEMMA AnswerIsReply ==
  ASSUME AskInv, Answer
  PROVE  /\ Replied(sent', number, Message(ask), ask.what) /\ frame' = sent' /\ pc' = "answered"
         /\ ask' = ask /\ number' = number
<1>1. Steady
  BY OthersAreSteady
<1>2. /\ pc = "asked" /\ pc' = "answered" /\ ask' = ask /\ number' = number
      /\ frame' = sent' /\ sent' \in Answers(heard')
  BY DEF Answer
<1>3. Message(ask)' = Message(ask)
  BY <1>1, <1>2, MessageStays
<1>4. HasBeenAsked'
  BY <1>2 DEF HasBeenAsked
<1>5. AskInv'
  BY AnswerHears
<1>6. HeardAs(heard', number, Message(ask))
  BY <1>2, <1>3, <1>4, <1>5 DEF AskInv, HeardAs
<1>7. number \in 0..15 /\ MessageFits(Message(ask), ask.what)
  BY <1>2 DEF AskInv, InSession
<1> QED
  BY <1>2, <1>6, <1>7, AnswerReplies

\* Every step keeps the reply and what may arrive of it.
LEMMA ReplyStays ==
  ASSUME AskInv, ReplyInv, [Next]_vars
  PROVE  ReplyInv'
<1>1. CASE OptionT \/ OptionA \/ OptionArchive \/ OptionParameters \/ OptionPassword
           \/ OptionD \/ OptionI \/ OptionC \/ EndOfArgs
  <2>1. pc' \in {"args", "refused", "ready"}
    BY <1>1, OptionsAreArgs, EndOfArgsIsSteady
  <2> QED
    BY <2>1 DEF ReplyInv, HasBeenAsked
<1>2. CASE Ask
  <2>1. pc' \in {"unasked", "asked"}
    BY <1>2 DEF Ask
  <2> QED
    BY <2>1 DEF ReplyInv, HasBeenAsked
<1>3. CASE Answer
  <2>1. /\ Replied(sent', number, Message(ask), ask.what) /\ pc' = "answered"
        /\ ask' = ask /\ number' = number
    BY <1>3, AnswerIsReply
  <2>2. Message(ask)' = Message(ask)
    BY <1>3, <2>1, OthersAreSteady, MessageStays
  <2>3. Replied(sent', number', Message(ask)', ask'.what)
    BY <2>1, <2>2
  <2> QED
    BY <2>1, <2>3 DEF ReplyInv
<1>4. CASE ArriveWhole \/ ArriveChanged \/ ArriveShort \/ ArriveLong
  <2>1. /\ Arrived(frame', sent, harm') /\ sent' = sent /\ pc = "answered" /\ pc' = "arrived"
        /\ ask' = ask /\ number' = number
    BY <1>4, ArrivalsAre
  <2>2. Replied(sent, number, Message(ask), ask.what)
    BY <2>1 DEF ReplyInv, HasBeenAsked
  <2>3. Message(ask)' = Message(ask)
    BY <1>4, <2>1, OthersAreSteady, MessageStays
  <2>4. Replied(sent', number', Message(ask)', ask'.what)
    BY <2>1, <2>2, <2>3
  <2>5. Arrived(frame', sent', harm')
    BY <2>1
  <2> QED
    BY <2>4, <2>5 DEF ReplyInv
<1>5. CASE Receive \/ ReceiveUnfilled
  <2>1. \A t, e : End(t, e) => pc' \in {"taken", "failed"} /\ ask' = ask
                               /\ number' = number /\ sent' = sent
    BY DEF End
  <2>2. /\ pc = "arrived" /\ pc' \in {"taken", "failed"} /\ ask' = ask /\ number' = number
        /\ sent' = sent
    BY <1>5, <2>1 DEF Receive, ReceiveUnfilled
  <2>3. Replied(sent, number, Message(ask), ask.what)
    BY <2>2 DEF ReplyInv, HasBeenAsked
  <2>4. Message(ask)' = Message(ask)
    BY <1>5, <2>2, OthersAreSteady, MessageStays
  <2>5. Replied(sent', number', Message(ask)', ask'.what)
    BY <2>2, <2>3, <2>4
  <2> QED
    BY <2>2, <2>5 DEF ReplyInv
<1>6. CASE Done \/ UNCHANGED vars
  <2>1. /\ Steady /\ pc' = pc /\ ask' = ask /\ number' = number /\ sent' = sent /\ frame' = frame
        /\ harm' = harm
    BY <1>6, OthersAreSteady DEF Done, vars
  <2>2. Message(ask)' = Message(ask)
    BY <2>1, MessageStays
  <2>3. HasBeenAsked' <=> HasBeenAsked
    BY <2>1 DEF HasBeenAsked
  <2>4. HasBeenAsked' => Replied(sent', number', Message(ask)', ask'.what)
    BY <2>1, <2>2, <2>3 DEF ReplyInv
  <2>5. pc' = "arrived" => Arrived(frame', sent', harm')
    BY <2>1 DEF ReplyInv
  <2> QED
    BY <2>4, <2>5 DEF ReplyInv
<1> QED
  BY <1>1, <1>2, <1>3, <1>4, <1>5, <1>6 DEF Next

-----------------------------------------------------------------------------
(* Bytes                                                                   *)

Harms == {"none", "first", "byte", "short", "long"}

\* What is on the way are bytes.
BytesInv == number \in 0..15 /\ frame \in Seq(Byte) /\ sent \in Seq(Byte) /\ harm \in Harms

\* No bytes are bytes.
LEMMA NoBytes == << >> \in Seq(Byte)
  OBVIOUS

\* At first there are no bytes.
LEMMA InitBytes ==
  ASSUME Init
  PROVE  BytesInv
  BY NoBytes DEF Init, BytesInv, Harms

\* What arrives are bytes.
LEMMA ArrivedBytes ==
  ASSUME NEW f, NEW s \in Seq(Byte), NEW h, Arrived(f, s, h)
  PROVE  f \in Seq(Byte) /\ h \in Harms
<1>1. CASE h \in {"none", "long"} /\ Begins(f, s)
  BY <1>1 DEF Begins, Harms
<1>2. CASE h \in {"first", "byte"} /\ f \in Seq(Byte)
  BY <1>2 DEF Harms
<1>3. CASE h = "short" /\ \E n \in 1 .. Len(s) - 1 : f = SubSeq(s, 1, n)
  <2>1. PICK n \in 1 .. Len(s) - 1 : f = SubSeq(s, 1, n)
    BY <1>3
  <2>2. 1 \in 1 .. Len(s) + 1 /\ n \in 1-1 .. Len(s)
    OBVIOUS
  <2>3. SubSeq(s, 1, n) \in Seq(Byte)
    BY <2>2, Part
  <2> QED
    BY <1>3, <2>1, <2>3 DEF Harms
<1> QED
  BY <1>1, <1>2, <1>3 DEF Arrived

\* Every step keeps frames sequences of bytes.
LEMMA BytesStay ==
  ASSUME OptionsInv, ReadyInv, AskInv, ReplyInv, BytesInv, [Next]_vars
  PROVE  BytesInv'
<1>1. CASE UNCHANGED later
  BY <1>1 DEF later, BytesInv
<1>2. CASE Ask
  <2>1. AskInv'
    BY <1>2, AskAsks
  <2>2. /\ pc' = IF frame' = << >> THEN "unasked" ELSE "asked"
        /\ number' \in Numbers /\ sent' = sent /\ harm' = harm
    BY <1>2 DEF Ask
  <2>3. CASE frame' = << >>
    BY <2>2, <2>3, NoBytes, QueryAssumption DEF BytesInv
  <2>4. CASE frame' # << >>
    <3>1. pc' = "asked" /\ InSession'
      BY <2>2, <2>4 DEF InSession
    <3> DEFINE m == Message(ask)'
               what == ask'.what
    <3>2. number' \in 0..15 /\ MessageFits(m, what) /\ frame' = tekon_req_pack(m, number')
      BY <2>1, <3>1 DEF AskInv
    <3> HIDE DEF m, what
    <3>3. HeardIs(tekon_req_pack(m, number'), number', m.gateway, m.elems)
      BY <3>2, FittingIsWellFormed, RequestIsHeard
    <3>4. frame' \in Seq(Byte)
      BY <3>2, <3>3 DEF HeardIs
    <3> QED
      BY <2>2, <3>2, <3>4 DEF BytesInv
  <2> QED
    BY <2>3, <2>4
<1>3. CASE Answer
  <2>1. Replied(sent', number, Message(ask), ask.what) /\ frame' = sent' /\ number' = number
    BY <1>3, AnswerIsReply
  <2>2. sent' \in Seq(Byte)
    BY <2>1, RepliesAreBytes
  <2>3. harm' = harm
    BY <1>3 DEF Answer
  <2> QED
    BY <2>1, <2>2, <2>3 DEF BytesInv
<1>4. CASE ArriveWhole \/ ArriveChanged \/ ArriveShort \/ ArriveLong
  <2>1. Arrived(frame', sent, harm') /\ sent' = sent /\ number' = number
    BY <1>4, ArrivalsAre
  <2>2. frame' \in Seq(Byte) /\ harm' \in Harms
    BY <2>1, ArrivedBytes DEF BytesInv
  <2> QED
    BY <2>1, <2>2 DEF BytesInv
<1>5. CASE Receive \/ ReceiveUnfilled
  <2>1. \A t, e : End(t, e) => frame' = << >> /\ number' = number /\ sent' = sent /\ harm' = harm
    BY DEF End
  <2>2. frame' = << >> /\ number' = number /\ sent' = sent /\ harm' = harm
    BY <1>5, <2>1 DEF Receive, ReceiveUnfilled
  <2> QED
    BY <2>2, NoBytes DEF BytesInv
<1>6. CASE Done \/ UNCHANGED vars
  BY <1>1, <1>6 DEF Done, vars, later
<1>7. CASE OptionT \/ OptionA \/ OptionArchive \/ OptionParameters \/ OptionPassword
           \/ OptionD \/ OptionI \/ OptionC \/ EndOfArgs
  <2>1. Refuse => UNCHANGED later
    BY DEF Refuse
  <2>2. \A ok, a, s : Set(ok, a, s) => UNCHANGED later
    BY <2>1, SMTT(60) DEF Set
  <2>3. UNCHANGED later
    BY <1>7, <2>1, <2>2 DEF OptionT, OptionA, OptionArchive, OptionParameters, OptionPassword,
                            OptionD, OptionI, OptionC, EndOfArgs
  <2> QED
    BY <1>1, <2>3
<1> QED
  BY <1>2, <1>3, <1>4, <1>5, <1>6, <1>7 DEF Next

-----------------------------------------------------------------------------
(* What a reply is read as                                                 *)

\* The values are those that the device holds for the elements.
TrueFor(g, elems, what) ==
  \A i \in DOMAIN g :
    /\ what \in ListKinds => g[i] = [value |-> Memory(elems[i]), qual |-> Quality(elems[i])]
    /\ what = "ind19" => g[i].value = Memory(elems[i])
    /\ what = "par11" => g[i].value = IF elems[i].par % 2 = 1 THEN Stored(elems[i]) \o <<0, 0>>
                                      ELSE Memory(elems[i])

\* The values of a list are those of the device's memory,
LEMMA QualifiedAreTrue ==
  ASSUME NEW elems \in Seq(Elements), NEW what \in ListKinds
  PROVE  /\ Len(Qualified(Marked(elems))) = Len(elems)
         /\ TrueFor(Qualified(Marked(elems)), elems, what)
<1> DEFINE s == Marked(elems)
           q == Qualified(s)
           n == Len(elems)
<1>1. Len(s) = n /\ \A i \in 1..n : MarkedAs(s[i], elems[i])
  BY MarkedBlocks
<1>2. n \in Nat
  OBVIOUS
<1> HIDE DEF s, n
<1>3. q = [i \in 1..n |-> [value |-> SubSeq(s[i], 1, 4), qual |-> s[i][5]]]
  BY <1>1 DEF Qualified
<1> HIDE DEF q
<1>4. \A i \in 1..n : q[i] = [value |-> Memory(elems[i]), qual |-> Quality(elems[i])]
  BY <1>1, <1>3 DEF MarkedAs
<1>5. DOMAIN q = 1..n /\ Len(q) = n
  BY <1>2, <1>3
<1>6. what # "ind19" /\ what # "par11"
  BY DEF ListKinds
<1> QED
  BY <1>4, <1>5, <1>6 DEF TrueFor, q, s, n

\* and so are those of a run,
LEMMA UnqualifiedAreTrue ==
  ASSUME NEW elems \in Seq(Elements)
  PROVE  /\ Len(Unqualified(Plain(elems))) = Len(elems)
         /\ TrueFor(Unqualified(Plain(elems)), elems, "ind19")
<1> DEFINE s == Plain(elems)
           q == Unqualified(s)
           n == Len(elems)
<1>1. Len(s) = n /\ \A i \in 1..n : s[i] = Memory(elems[i])
  BY PlainBlocks
<1>2. n \in Nat
  OBVIOUS
<1> HIDE DEF s, n
<1>3. q = [i \in 1..n |-> [value |-> s[i], qual |-> 0]]
  BY <1>1 DEF Unqualified
<1> HIDE DEF q
<1>4. \A i \in 1..n : q[i].value = Memory(elems[i])
  BY <1>1, <1>3
<1>5. DOMAIN q = 1..n /\ Len(q) = n
  BY <1>2, <1>3
<1> QED
  BY <1>4, <1>5 DEF TrueFor, q, s, n, ListKinds

\* and the one of a parameter.
LEMMA FilledIsTrue ==
  ASSUME NEW e \in Elements, NEW elems, elems[1] = e
  PROVE  /\ Len(<<Filled(Stored(e))>>) = 1
         /\ TrueFor(<<Filled(Stored(e))>>, elems, "par11")
<1> DEFINE s == Stored(e)
           z == [i \in 1 .. 4 - Len(s) |-> 0]
           v == s \o z
           q == <<Filled(s)>>
<1>1. s \in Seq(Byte) /\ Len(s) = (IF e.par % 2 = 1 THEN 2 ELSE 4)
      /\ (e.par % 2 # 1 => s = Memory(e))
  BY StoredBytes DEF Stored
<1>2. q[1].value = v
  BY DEF Filled
<1>3. DOMAIN q = {1} /\ Len(q) = 1
  OBVIOUS
<1> HIDE DEF s, q
<1>4. CASE e.par % 2 = 1
  <2>1. Len(s) = 2
    BY <1>1, <1>4
  <2>2. z = [i \in 1..2 |-> 0]
    BY <2>1
  <2>3. [i \in 1..2 |-> 0] = <<0, 0>>
    OBVIOUS
  <2>4. v = s \o <<0, 0>>
    BY <2>2, <2>3
  <2> QED
    BY <1>2, <1>3, <1>4, <2>4 DEF TrueFor, ListKinds, q, s
<1>5. CASE e.par % 2 # 1
  <2>1. Len(s) = 4 /\ s = Memory(e)
    BY <1>1, <1>5
  <2>2. z = [i \in 1..0 |-> 0]
    BY <2>1
  <2>3. z \in Seq(Byte) /\ Len(z) = 0
    <3>1. [i \in 1..0 |-> 0] = << >>
      OBVIOUS
    <3>2. z = << >>
      BY <2>2, <3>1
    <3> HIDE DEF z
    <3> QED
      BY <3>2
  <2> HIDE DEF z
  <2>4. v \in Seq(Byte) /\ IsJoin(v, s, z)
    BY <1>1, <2>3, Join
  <2> HIDE DEF v
  <2>5. Len(v) = Len(s) /\ \A i \in 1..Len(v) : v[i] = s[i]
    BY <1>1, <2>1, <2>3, <2>4 DEF IsJoin
  <2>6. v = s
    BY <1>1, <2>4, <2>5, SameSequence
  <2> QED
    BY <1>2, <1>3, <1>5, <2>1, <2>6 DEF TrueFor, ListKinds, q, s
<1> QED
  BY <1>4, <1>5

\* r is a message of the kind that was asked for, with true values.
ReadFor(r, n, g, m, what) ==
  /\ r.ret > 0 /\ r.number = n /\ r.type = m.type /\ (r.filled <=> g # 0)
  /\ what \notin WriteKinds => Len(r.elems) = Len(m.elems) /\ TrueFor(r.elems, m.elems, what)

\* What is read of a reply, for each function: a list,
LEMMA ReplyOfList ==
  ASSUME NEW m, NEW what \in ListKinds, IsList(m), NEW f, NEW n \in 0..15, NEW g,
         NEW data \in Seq(Byte), Carries(f, n, g, data),
         JoinedTo(data, Byte, 5, Marked(m.elems), Len(m.elems))
  PROVE  ReadFor(tekon_resp_unpack(f, m.type), n, g, m, what)
<1> DEFINE elems == m.elems
           s == Marked(elems)
           r == tekon_resp_unpack(f, "1C")
           q == Qualified(s)
<1>1. elems \in Seq(Elements) /\ Len(elems) >= 1 /\ Len(elems) <= 40 /\ m.type = "1C"
  BY DEF IsList
<1> HIDE DEF elems
<1>2. Blocks(Byte, 5, s) /\ Len(s) = Len(elems)
  BY <1>1, MarkedBlocks
<1>3. Len(q) = Len(elems) /\ TrueFor(q, elems, what)
  BY <1>1, QualifiedAreTrue
<1>4. JoinedTo(data, Byte, 5, s, Len(s))
  BY <1>2 DEF elems
<1>5. Len(s) >= 1 /\ Len(s) <= 40
  BY <1>1, <1>2
<1> HIDE DEF s
<1>6. Result(r, n, "1C", Qualified(s)) /\ (r.filled <=> g # 0)
  BY <1>2, <1>4, <1>5, ListIsRead
<1> HIDE DEF r, q
<1>7. ReadFor(r, n, g, m, what)
  BY <1>1, <1>3, <1>6 DEF ReadFor, Result, q, elems
<1> QED
  BY <1>1, <1>7 DEF r

\* a run, which is refused if it has one index,
LEMMA ReplyOfRun ==
  ASSUME NEW m, IsRun(m), NEW f, NEW n \in 0..15, NEW g,
         NEW data \in Seq(Byte), Carries(f, n, g, data),
         JoinedTo(data, Byte, 4, Plain(m.elems), Len(m.elems))
  PROVE  /\ Len(m.elems) = 1 => tekon_resp_unpack(f, m.type) = Refused
         /\ Len(m.elems) # 1 => ReadFor(tekon_resp_unpack(f, m.type), n, g, m, "ind19")
<1> DEFINE elems == m.elems
           s == Plain(elems)
           r == tekon_resp_unpack(f, "19")
           q == Unqualified(s)
<1>1. elems \in Seq(Elements) /\ Len(elems) >= 1 /\ Len(elems) <= 60 /\ m.type = "19"
  BY RunElements DEF IsRun
<1> HIDE DEF elems
<1>2. Blocks(Byte, 4, s) /\ Len(s) = Len(elems)
  BY <1>1, PlainBlocks
<1>3. Len(q) = Len(elems) /\ TrueFor(q, elems, "ind19")
  BY <1>1, UnqualifiedAreTrue
<1>4. JoinedTo(data, Byte, 4, s, Len(s))
  BY <1>2 DEF elems
<1>5. Len(s) >= 1 /\ Len(s) <= 60
  BY <1>1, <1>2
<1> HIDE DEF s
<1>6. /\ Len(s) = 1 => r = Refused
      /\ Len(s) >= 2 => Result(r, n, "19", Unqualified(s)) /\ (r.filled <=> g # 0)
  BY <1>2, <1>4, <1>5, RunIsRead
<1> HIDE DEF r, q
<1>7. CASE Len(s) = 1
  BY <1>1, <1>2, <1>6, <1>7 DEF r, elems
<1>8. CASE Len(s) >= 2
  <2>1. Result(r, n, "19", q) /\ (r.filled <=> g # 0)
    BY <1>6, <1>8 DEF q
  <2>2. ReadFor(r, n, g, m, "ind19")
    BY <1>1, <1>3, <2>1 DEF ReadFor, Result, elems
  <2>3. Len(elems) # 1
    BY <1>1, <1>2, <1>8
  <2> QED
    BY <1>1, <2>2, <2>3 DEF r, elems
<1>9. Len(s) = 1 \/ Len(s) >= 2
  BY <1>1, <1>2
<1> QED
  BY <1>7, <1>8, <1>9

\* one parameter,
LEMMA ReplyOfOne ==
  ASSUME NEW m, IsOne(m), NEW f, NEW n \in 0..15, NEW g,
         NEW data \in Seq(Byte), Carries(f, n, g, data), data = Stored(m.elems[1])
  PROVE  ReadFor(tekon_resp_unpack(f, m.type), n, g, m, "par11")
<1>1. PICK e \in Elements : m.elems = <<e>>
  BY DEF IsOne
<1> DEFINE elems == m.elems
           r == tekon_resp_unpack(f, "11")
           q == <<Filled(Stored(e))>>
<1>2. m.type = "11" /\ elems[1] = e /\ Len(elems) = 1
  BY <1>1 DEF IsOne
<1>3. data = Stored(e)
  BY <1>2
<1>4. Len(data) >= 1 /\ Len(data) <= 4
  <2>1. Len(data) = IF e.par % 2 = 1 THEN 2 ELSE 4
    BY <1>3, StoredBytes
  <2>2. CASE Len(data) = 2
    BY <2>2
  <2>3. CASE Len(data) = 4
    BY <2>3
  <2> QED
    BY <2>1, <2>2, <2>3
<1> HIDE DEF elems
<1>5. Len(q) = 1 /\ TrueFor(q, elems, "par11")
  BY <1>2, FilledIsTrue
<1> HIDE DEF q
<1>6. Result(r, n, "11", <<Filled(data)>>) /\ (r.filled <=> g # 0)
  BY <1>4, OneIsRead
<1>7. Result(r, n, "11", q)
  BY <1>3, <1>6 DEF q
<1> HIDE DEF r
<1>8. ReadFor(r, n, g, m, "par11")
  BY <1>2, <1>5, <1>6, <1>7 DEF ReadFor, Result, elems
<1> QED
  BY <1>2, <1>8 DEF r

\* and a write, which is refused if the device left its address out.
LEMMA ReplyOfWrite ==
  ASSUME NEW m, NEW what \in WriteKinds, IsWrite(m), NEW f, NEW n \in 0..15, NEW g,
         NEW data \in Seq(Byte), Carries(f, n, g, data), Len(data) = 1
  PROVE  /\ g = 0 => tekon_resp_unpack(f, m.type) = Refused
         /\ g # 0 => ReadFor(tekon_resp_unpack(f, m.type), n, g, m, what)
<1> DEFINE r == tekon_resp_unpack(f, "14")
<1>1. m.type = "14"
  BY DEF IsWrite
<1>2. /\ g = 0 => r = Refused
      /\ g # 0 => Result(r, n, "14", <<data[1]>>) /\ r.filled
  BY ReceiptIsRead
<1> HIDE DEF r
<1>3. g # 0 => ReadFor(r, n, g, m, what)
  BY <1>1, <1>2 DEF ReadFor, Result
<1> QED
  BY <1>1, <1>2, <1>3 DEF r

\* A reply that arrives whole is read, except for a list of one index and for a
\* receipt without a gateway.
Unread(g, m, what) == (what = "ind19" /\ Len(m.elems) = 1) \/ (what \in WriteKinds /\ g = 0)

\* A reply that arrives is read as what it answers, but for what no reader takes
\* (tekon_resp_unpack).
LEMMA ReplyIsReadFor ==
  ASSUME NEW m, NEW what, MessageFits(m, what), NEW f, NEW n \in 0..15, NEW g,
         Carries(f, n, g, DataFor(m.elems, what))
  PROVE  /\ Unread(g, m, what) => tekon_resp_unpack(f, m.type) = Refused
         /\ ~Unread(g, m, what) => ReadFor(tekon_resp_unpack(f, m.type), n, g, m, what)
<1> DEFINE data == DataFor(m.elems, what)
<1>1. DataFits(data, m.elems, what)
  BY DataIsFit
<1>2. Carries(f, n, g, data)
  OBVIOUS
<1> HIDE DEF data
<1>3. data \in Seq(Byte)
  BY <1>1 DEF DataFits
<1>4. CASE what \in ListKinds
  <2>1. IsList(m)
    BY <1>4 DEF MessageFits, ListKinds
  <2>2. JoinedTo(data, Byte, 5, Marked(m.elems), Len(m.elems))
    BY <1>1, <1>4 DEF DataFits
  <2>3. ~Unread(g, m, what)
    BY <1>4 DEF Unread, ListKinds, WriteKinds
  <2> QED
    BY <1>2, <1>3, <1>4, <2>1, <2>2, <2>3, ReplyOfList
<1>5. CASE what \in WriteKinds
  <2>1. IsWrite(m)
    BY <1>5 DEF MessageFits, WriteKinds
  <2>2. Len(data) = 1
    BY <1>1, <1>5 DEF DataFits
  <2>3. Unread(g, m, what) <=> g = 0
    BY <1>5 DEF Unread, WriteKinds
  <2> QED
    BY <1>2, <1>3, <1>5, <2>1, <2>2, <2>3, ReplyOfWrite
<1>6. CASE what = "par11"
  <2>1. IsOne(m)
    BY <1>6 DEF MessageFits
  <2>2. data = Stored(m.elems[1])
    BY <1>1, <1>6 DEF DataFits
  <2>3. ~Unread(g, m, what)
    BY <1>6 DEF Unread, WriteKinds
  <2> QED
    BY <1>2, <1>3, <1>6, <2>1, <2>2, <2>3, ReplyOfOne
<1>7. CASE what = "ind19"
  <2>1. IsRun(m)
    BY <1>7 DEF MessageFits
  <2>2. JoinedTo(data, Byte, 4, Plain(m.elems), Len(m.elems))
    BY <1>1, <1>7 DEF DataFits
  <2>3. Unread(g, m, what) <=> Len(m.elems) = 1
    BY <1>7 DEF Unread, WriteKinds
  <2> QED
    BY <1>2, <1>3, <1>7, <2>1, <2>2, <2>3, ReplyOfRun
<1> QED
  BY <1>4, <1>5, <1>6, <1>7 DEF MessageFits, ListKinds, WriteKinds

-----------------------------------------------------------------------------
(* What becomes of a reply                                                 *)

\* What may come of a reply s to m that arrives as f.
Receipt(s) == s \in {<<ACK>>, <<NAK>>}
Framed(s) == ~Receipt(s) /\ s[1] = VAR

Outcome(r, f, s, h, n, m, what) ==
  \/ r = Refused /\ (h \in {"none", "long"} => Framed(s) /\ Unread(s[6], m, what))
  \/ r = Confirmation(f) /\ h = "first"
  \/ r = Confirmation(s) /\ what \in WriteKinds /\ Receipt(s)
  \/ Framed(s) /\ ReadFor(r, n, s[6], m, what)

\* The type of a message tells whether it writes.
LEMMA TypesFit ==
  ASSUME NEW m, NEW what, MessageFits(m, what)
  PROVE  m.type \in Types /\ (what \in WriteKinds <=> m.type = "14")
<1>1. what \in ListKinds => m.type = "1C"
  BY DEF MessageFits, IsList, ListKinds
<1>2. what \in WriteKinds => m.type = "14"
  BY DEF MessageFits, IsWrite, WriteKinds
<1>3. (what = "par11" => m.type = "11") /\ (what = "ind19" => m.type = "19")
  BY DEF MessageFits, IsOne, IsRun
<1>4. what \in ListKinds \/ what \in WriteKinds \/ what = "par11" \/ what = "ind19"
  BY DEF MessageFits, ListKinds, WriteKinds
<1> QED
  BY <1>1, <1>2, <1>3, <1>4 DEF Types

\* A frame is no receipt.
LEMMA CarriedIsFramed ==
  ASSUME NEW s, NEW n, NEW g, NEW data \in Seq(Byte), CarriesFor(s, n, g, data)
  PROVE  Framed(s) /\ s[6] = g /\ Len(s) > 1
<1>1. s[1] = VAR /\ s[6] = g /\ Len(s) = Len(data) + 8
  BY DEF CarriesFor, Carries
<1>2. Len(s) > 1
  BY <1>1
<1>3. s # <<ACK>> /\ s # <<NAK>>
  BY <1>1, FirstBytes
<1> QED
  BY <1>1, <1>2, <1>3 DEF Framed, Receipt

\* A receipt has one byte.
LEMMA ReceiptBytes ==
  ASSUME NEW s, Receipt(s)
  PROVE  Len(s) = 1 /\ s[1] \in {ACK, NAK} /\ s # << >>
  BY DEF Receipt

\* What is made of a whole reply, and of one with bytes behind it,
LEMMA WholeOutcome ==
  ASSUME NEW m, NEW what, MessageFits(m, what), NEW n \in 0..15, NEW s, Replied(s, n, m, what),
         NEW f, Begins(f, s), NEW h
  PROVE  Outcome(tekon_resp_unpack(f, m.type), f, s, h, n, m, what)
<1> DEFINE r == tekon_resp_unpack(f, m.type)
<1>1. CASE what \in WriteKinds /\ Receipt(s)
  <2>1. f[1] = s[1] /\ f[1] \in {ACK, NAK} /\ f # << >>
    BY <1>1, ReceiptBytes DEF Begins
  <2>2. validate(f)
    BY <2>1, FirstBytes DEF validate
  <2>3. r = Confirmation(f)
    BY <2>1, <2>2 DEF tekon_resp_unpack
  <2>4. Confirmation(f) = Confirmation(s)
    BY <2>1 DEF Confirmation
  <2> QED
    BY <1>1, <2>3, <2>4 DEF Outcome
<1>2. CASE \E g \in {0, m.gateway} : CarriesFor(s, n, g, DataFor(m.elems, what))
  <2>1. PICK g : CarriesFor(s, n, g, DataFor(m.elems, what))
    BY <1>2
  <2> DEFINE data == DataFor(m.elems, what)
  <2>2. data \in Seq(Byte)
    BY DataIsFit DEF DataFits
  <2>3. CarriesFor(s, n, g, data)
    BY <2>1
  <2> HIDE DEF data
  <2>4. Framed(s) /\ s[6] = g
    BY <2>2, <2>3, CarriedIsFramed
  <2>5. Carries(f, n, g, data)
    BY <2>2, <2>3, LongCarries DEF CarriesFor
  <2>6. /\ Unread(g, m, what) => r = Refused
        /\ ~Unread(g, m, what) => ReadFor(r, n, g, m, what)
    BY <2>5, ReplyIsReadFor DEF data
  <2>7. CASE Unread(g, m, what)
    BY <2>4, <2>6, <2>7 DEF Outcome
  <2>8. CASE ~Unread(g, m, what)
    BY <2>4, <2>6, <2>8 DEF Outcome
  <2> QED
    BY <2>7, <2>8 DEF Unread
<1> QED
  BY <1>1, <1>2 DEF Replied, Receipt

\* of one with a byte changed,
LEMMA ChangedOutcome ==
  ASSUME NEW m, NEW what, MessageFits(m, what), NEW n \in 0..15, NEW s, Replied(s, n, m, what),
         NEW f \in Seq(Byte), NEW i \in 1..Len(s), DifferAt(s, f, i),
         NEW h \in {"first", "byte"}, h = "first" <=> i = 1
  PROVE  Outcome(tekon_resp_unpack(f, m.type), f, s, h, n, m, what)
<1> DEFINE r == tekon_resp_unpack(f, m.type)
<1>1. m.type \in Types /\ s \in Seq(Byte)
  BY TypesFit, RepliesAreBytes
<1>2. r = Refused => Outcome(r, f, s, h, n, m, what)
  BY DEF Outcome
<1>3. CASE i = 1 /\ f[1] # VAR
  <2>1. r = Refused \/ r = Confirmation(f)
    BY <1>1, <1>3, FirstByteChanged
  <2> QED
    BY <1>2, <1>3, <2>1 DEF Outcome
<1>4. CASE i = 1 /\ f[1] = VAR
  <2>1. s[1] # VAR /\ Len(f) = Len(s)
    BY <1>4 DEF DifferAt
  <2>2. Receipt(s)
    <3>1. ASSUME NEW g, CarriesFor(s, n, g, DataFor(m.elems, what))
          PROVE  FALSE
      BY <2>1, <3>1 DEF CarriesFor, Carries
    <3> QED
      BY <3>1 DEF Replied, Receipt
  <2>3. Len(f) = 1
    BY <2>1, <2>2, ReceiptBytes
  <2>4. ~validate(f)
    BY <1>4, <2>3, ValidateVariable
  <2> QED
    BY <1>2, <2>4, InvalidIsRefused
<1>5. CASE i # 1
  <2>1. Len(s) # 1
    <3>1. Len(s) = 1 => i = 1
      BY <1>1
    <3> QED
      BY <1>5, <3>1
  <2>2. ~Receipt(s)
    BY <2>1, ReceiptBytes
  <2>3. PICK g : CarriesFor(s, n, g, DataFor(m.elems, what))
    BY <2>2 DEF Replied, Receipt
  <2> DEFINE data == DataFor(m.elems, what)
  <2>4. data \in Seq(Byte)
    BY DataIsFit DEF DataFits
  <2>5. Carries(s, n, g, data) /\ Len(s) = Len(data) + 8
    BY <2>3 DEF CarriesFor
  <2> HIDE DEF data
  <2>6. i \in 2 .. Len(s)
    BY <1>1, <1>5
  <2>7. r = Refused
    BY <1>1, <2>4, <2>5, <2>6, OtherByteChanged
  <2> QED
    BY <1>2, <2>7
<1> QED
  BY <1>3, <1>4, <1>5

\* of one cut off,
LEMMA ShortOutcome ==
  ASSUME NEW m, NEW what, MessageFits(m, what), NEW n \in 0..15, NEW s, Replied(s, n, m, what),
         NEW k \in 1 .. Len(s) - 1
  PROVE  Outcome(tekon_resp_unpack(SubSeq(s, 1, k), m.type),
                 SubSeq(s, 1, k), s, "short", n, m, what)
<1> DEFINE f == SubSeq(s, 1, k)
           r == tekon_resp_unpack(f, m.type)
<1>1. m.type \in Types /\ s \in Seq(Byte)
  BY TypesFit, RepliesAreBytes
<1>2. Len(s) # 1
  <2> DEFINE l == Len(s)
  <2>1. l \in Nat /\ 1 <= l - 1
    BY <1>1
  <2> HIDE DEF l
  <2>2. l # 1
    BY <2>1
  <2> QED
    BY <2>2 DEF l
<1>3. ~Receipt(s)
  BY <1>2, ReceiptBytes
<1>4. PICK g : CarriesFor(s, n, g, DataFor(m.elems, what))
  BY <1>3 DEF Replied, Receipt
<1> DEFINE data == DataFor(m.elems, what)
<1>5. data \in Seq(Byte)
  BY DataIsFit DEF DataFits
<1>6. Carries(s, n, g, data) /\ Len(s) = Len(data) + 8
  BY <1>4 DEF CarriesFor
<1> HIDE DEF data
<1>7. r = Refused
  BY <1>1, <1>5, <1>6, CutIsRefused
<1> HIDE DEF f, r
<1>8. Outcome(r, f, s, "short", n, m, what)
  BY <1>7 DEF Outcome
<1> QED
  BY <1>8 DEF r, f

\* and of any that may arrive.
LEMMA OutcomeOf ==
  ASSUME NEW m, NEW what, MessageFits(m, what), NEW n \in 0..15, NEW s, Replied(s, n, m, what),
         NEW f, NEW h, Arrived(f, s, h)
  PROVE  Outcome(tekon_resp_unpack(f, m.type), f, s, h, n, m, what)
<1>1. CASE h \in {"none", "long"} /\ Begins(f, s)
  BY <1>1, WholeOutcome
<1>2. CASE /\ h \in {"first", "byte"} /\ f \in Seq(Byte)
           /\ \E i \in 1..Len(s) : DifferAt(s, f, i) /\ (h = "first" <=> i = 1)
  BY <1>2, ChangedOutcome
<1>3. CASE h = "short" /\ \E k \in 1 .. Len(s) - 1 : f = SubSeq(s, 1, k)
  BY <1>3, ShortOutcome
<1> QED
  BY <1>1, <1>2, <1>3 DEF Arrived

-----------------------------------------------------------------------------
(* The end of a request                                                    *)

\* Only tekon_sync writes.
LEMMA WritesAreSync ==
  ASSUME tool \in Tools, NEW a \in Asks, a.what \in WriteKinds
  PROVE  tool = "sync"
<1>1. tool \in {"arch", "msr", "sync", "lib"}
  BY QueryAssumption
<1>2. tool = "arch" => a.what \in {"chunk", "clock"}
  BY DEF Asks
<1>3. tool = "msr" => a.what = "chunk"
  BY DEF Asks
<1>4. tool = "lib" => a.what \in {"par11", "ind19"}
  BY QueryAssumption DEF Asks
<1> QED
  BY <1>1, <1>2, <1>3, <1>4 DEF WriteKinds

\* Only a caller of the library asks for a run,
LEMMA RunsAreProbes ==
  ASSUME tool \in Tools, NEW a \in Asks, a.what = "ind19"
  PROVE  tool = "lib" /\ a \in Probes
<1>1. tool \in {"arch", "msr", "sync", "lib"}
  BY QueryAssumption
<1>2. tool = "arch" => a.what \in {"chunk", "clock"}
  BY DEF Asks
<1>3. tool = "msr" => a.what = "chunk"
  BY DEF Asks
<1>4. tool = "sync" => a.what \in {"clock", "admin", "date", "time", "user"}
  BY DEF Asks
<1>5. tool = "lib"
  BY <1>1, <1>2, <1>3, <1>4
<1> QED
  BY <1>5 DEF Asks

\* of the size it wants.
LEMMA RunSize ==
  ASSUME tool \in Tools, NEW a \in Asks, a.what = "ind19", MessageFits(Message(a), "ind19")
  PROVE  Len(Message(a).elems) = a.size
<1>1. tool = "lib" /\ a \in Probes
  BY RunsAreProbes
<1>2. a.size \in Byte
  BY <1>1, QueryAssumption
<1> DEFINE m == Message(a)
           g == Gateway(a)
<1>3. m = tekon_req_19(g, a.dev, a.par, a.idx, a.size)
  BY DEF Message
<1>4. m.type = "19"
  BY DEF MessageFits, IsRun
<1> HIDE DEF m, g
<1>5. m # None
  BY <1>4 DEF None
<1>6. m = [type |-> "19", gateway |-> g, elems |-> Consecutive(a.dev, a.par, a.idx, a.size)]
  BY <1>3, <1>5 DEF tekon_req_19, Consecutive
<1>7. m.elems = Consecutive(a.dev, a.par, a.idx, a.size)
  BY <1>6
<1>8. a.size \in Nat
  BY <1>2 DEF Byte
<1>9. Len(Consecutive(a.dev, a.par, a.idx, a.size)) = a.size
  BY <1>8 DEF Consecutive
<1> QED
  BY <1>7, <1>9 DEF m

\* A message has elements; a confirmation has none.
LEMMA SomeElements ==
  ASSUME NEW m, NEW what, MessageFits(m, what)
  PROVE  Len(m.elems) # 0
<1>1. DataFits(DataFor(m.elems, what), m.elems, what)
  BY DataIsFit
<1>2. what \in Kinds
  BY DEF MessageFits, Kinds, ListKinds, WriteKinds
<1> DEFINE n == Len(m.elems)
<1>3. n >= 1 \/ n = 1 \/ n >= 8
  BY <1>1, <1>2 DEF DataFits, Kinds
<1> HIDE DEF n
<1>4. n # 0
  BY <1>3
<1> QED
  BY <1>4 DEF n

\* What a receipt is read as.
LEMMA Confirmed ==
  ASSUME NEW f
  PROVE  /\ Confirmation(f).ret = 1 /\ Confirmation(f).elems = << >> /\ Confirmation(f).filled
         /\ Confirmation(f).type \in {"ACK", "NAK"}
         /\ (Confirmation(f).type = "ACK" <=> f[1] = ACK)
  BY DEF Confirmation

\* A refusal returns 0.
LEMMA RefusedIs == Refused.ret = 0
  BY DEF Refused

\* What the three properties ask of the end of a request.
Fate(taken, elems, s, h, m, what, a) ==
  /\ taken /\ what \notin WriteKinds /\ s[6] # 0 => TrueFor(elems, m.elems, what)
  /\ taken /\ what \in WriteKinds /\ h # "first" => s # <<NAK>>
  /\ ~taken /\ h \in {"none", "long"} =>
       s = <<NAK>> \/ (s # <<ACK>> /\ s[6] = 0) \/ (what = "ind19" /\ a.size = 1)

\* A message that was filled is taken or refused by what it says.
LEMMA FilledFate ==
  ASSUME tool \in Tools, ask \in Asks, NEW m, m = Message(ask), MessageFits(m, ask.what),
         number \in 0..15, NEW r, NEW f, NEW s, NEW h,
         Outcome(r, f, s, h, number, m, ask.what),
         r.ret > 0 => r.filled
  PROVE  /\ r.ret > 0 /\ Accepted(r) => Fate(TRUE, r.elems, s, h, m, ask.what, ask)
         /\ ~(r.ret > 0 /\ Accepted(r)) => Fate(FALSE, << >>, s, h, m, ask.what, ask)
<1>1. Len(m.elems) # 0 /\ Len(<< >>) = 0
  BY SomeElements
<1>2. ask.what \in WriteKinds <=> AskedWrite
  BY DEF AskedWrite, WriteKinds
<1>3. ask.what \in WriteKinds => tool = "sync"
  BY WritesAreSync
<1>4. m.type \in Types /\ (ask.what \in WriteKinds <=> m.type = "14")
  BY TypesFit
<1>5. CASE r = Refused /\ (h \in {"none", "long"} => Framed(s) /\ Unread(s[6], m, ask.what))
  <2>1. ~(r.ret > 0)
    BY <1>5, RefusedIs
  <2>2. ASSUME h \in {"none", "long"}
        PROVE  (s # <<ACK>> /\ s[6] = 0) \/ (ask.what = "ind19" /\ ask.size = 1)
    <3>1. Framed(s) /\ Unread(s[6], m, ask.what)
      BY <1>5, <2>2
    <3>2. CASE ask.what = "ind19" /\ Len(m.elems) = 1
      BY <3>2, RunSize
    <3>3. CASE s[6] = 0
      BY <3>1, <3>3 DEF Framed, Receipt
    <3> QED
      BY <3>1, <3>2, <3>3 DEF Unread
  <2> QED
    BY <2>1, <2>2 DEF Fate
<1>6. CASE r = Confirmation(f) /\ h = "first"
  <2>1. r.elems = << >> /\ r.type \in {"ACK", "NAK"}
    BY <1>6, Confirmed
  <2>2. ask.what \notin WriteKinds => ~Accepted(r)
    BY <1>1, <1>2, <2>1 DEF Accepted
  <2> QED
    BY <1>6, <2>2 DEF Fate
<1>7. CASE r = Confirmation(s) /\ ask.what \in WriteKinds /\ Receipt(s)
  <2>1. r.ret = 1 /\ r.elems = << >> /\ r.type \in {"ACK", "NAK"} /\ (r.type = "ACK" <=> s[1] = ACK)
    BY <1>7, Confirmed
  <2>2. CASE s = <<ACK>>
    <3>1. r.type = "ACK" /\ s # <<NAK>>
      BY <2>1, <2>2, FirstBytes
    <3>2. r.ret > 0 /\ Accepted(r)
      BY <1>2, <1>3, <1>7, <2>1, <3>1 DEF Accepted
    <3> QED
      BY <1>7, <3>1, <3>2 DEF Fate
  <2>3. CASE s = <<NAK>>
    <3>1. r.type # "ACK"
      BY <2>1, <2>3, FirstBytes
    <3>2. ~Accepted(r)
      BY <1>1, <2>1, <3>1 DEF Accepted
    <3> QED
      BY <2>3, <3>2 DEF Fate
  <2> QED
    BY <1>7, <2>2, <2>3 DEF Receipt
<1>8. CASE Framed(s) /\ ReadFor(r, number, s[6], m, ask.what)
  <2>1. s # <<ACK>> /\ s # <<NAK>>
    BY <1>8 DEF Framed, Receipt
  <2>2. r.ret > 0 /\ r.number = number /\ r.type = m.type /\ (r.filled <=> s[6] # 0)
    BY <1>8 DEF ReadFor
  <2>3. ask.what \notin WriteKinds =>
          Len(r.elems) = Len(m.elems) /\ TrueFor(r.elems, m.elems, ask.what)
    BY <1>8 DEF ReadFor
  <2>4. Accepted(r)
    <3>1. CASE ask.what \in WriteKinds
      BY <1>3, <1>4, <2>2, <3>1 DEF Accepted
    <3>2. CASE ask.what \notin WriteKinds
      <4>1. r.type \notin {"ACK", "14"}
        BY <1>4, <2>2, <3>2 DEF Types
      <4> QED
        BY <2>2, <2>3, <3>2, <4>1 DEF Accepted
    <3> QED
      BY <3>1, <3>2
  <2> QED
    BY <2>1, <2>2, <2>3, <2>4 DEF Fate
<1> QED
  BY <1>5, <1>6, <1>7, <1>8 DEF Outcome

\* A message that was not filled came without a gateway.
LEMMA UnfilledFate ==
  ASSUME NEW m, NEW what, NEW n, NEW r, NEW f, NEW s, NEW h,
         Outcome(r, f, s, h, n, m, what), r.ret > 0, ~r.filled, NEW taken \in BOOLEAN,
         NEW elems, NEW a
  PROVE  Fate(taken, elems, s, h, m, what, a)
<1>1. r # Refused
  BY RefusedIs
<1>2. r # Confirmation(f) /\ r # Confirmation(s)
  BY Confirmed
<1>3. Framed(s) /\ ReadFor(r, n, s[6], m, what)
  BY <1>1, <1>2 DEF Outcome
<1>4. s # <<ACK>> /\ s # <<NAK>> /\ s[6] = 0
  BY <1>3 DEF Framed, Receipt, ReadFor
<1> QED
  BY <1>4 DEF Fate

\* The end is what the reply that arrived leads to.
EndInv == pc \in {"taken", "failed"} =>
            Fate(pc = "taken", got, sent, harm, Message(ask), ask.what, ask)

\* At first nothing has ended.
LEMMA InitEnd ==
  ASSUME Init
  PROVE  EndInv
<1>1. pc \in {"ready", "args"}
  BY DEF Init
<1> QED
  BY <1>1 DEF EndInv

\* An end is what Receive made of the reply.
LEMMA FateStays ==
  ASSUME NEW taken \in BOOLEAN, NEW elems, NEW m, NEW what,
         Fate(taken, elems, sent, harm, m, what, ask),
         End(taken, elems), Message(ask) = m, ask.what = what, Message(ask)' = m
  PROVE  EndInv'
<1>1. /\ pc' = IF taken THEN "taken" ELSE "failed"
      /\ got' = elems /\ sent' = sent /\ harm' = harm /\ ask' = ask
  BY DEF End
<1>2. CASE taken
  <2>1. pc' = "taken"
    BY <1>1, <1>2
  <2>2. Fate(TRUE, got', sent', harm', Message(ask)', ask'.what, ask')
    BY <1>1, <1>2
  <2> QED
    BY <2>1, <2>2 DEF EndInv
<1>3. CASE ~taken
  <2>1. pc' = "failed"
    BY <1>1, <1>3
  <2>2. Fate(FALSE, got', sent', harm', Message(ask)', ask'.what, ask')
    BY <1>1, <1>3
  <2> QED
    BY <2>1, <2>2 DEF EndInv
<1> QED
  BY <1>2, <1>3

\* Every step keeps what an end says of the reply.
LEMMA EndStays ==
  ASSUME OptionsInv, AskInv, ReplyInv, EndInv, [Next]_vars
  PROVE  EndInv'
<1> DEFINE m == Message(ask)
           what == ask.what
           r == tekon_resp_unpack(frame, m.type)
<1>1. CASE OptionT \/ OptionA \/ OptionArchive \/ OptionParameters \/ OptionPassword
           \/ OptionD \/ OptionI \/ OptionC \/ EndOfArgs
  <2>1. pc' \in {"args", "refused", "ready"}
    BY <1>1, OptionsAreArgs, EndOfArgsIsSteady
  <2> QED
    BY <2>1 DEF EndInv
<1>2. CASE Ask \/ Answer \/ ArriveWhole \/ ArriveChanged \/ ArriveShort \/ ArriveLong
  <2>1. \A f, h : Arrive(f, h) => pc' = "arrived"
    BY DEF Arrive
  <2>2. pc' \in {"unasked", "asked", "answered", "arrived"}
    BY <1>2, <2>1 DEF Ask, Answer, ArriveWhole, ArriveChanged, ArriveShort, ArriveLong
  <2> QED
    BY <2>2 DEF EndInv
<1>3. ASSUME pc = "arrived"
      PROVE  /\ tool \in Tools /\ ask \in Asks /\ number \in 0..15 /\ MessageFits(m, what)
             /\ Outcome(r, frame, sent, harm, number, m, what)
  <2>1. /\ ask \in Asks /\ number \in 0..15 /\ MessageFits(m, what)
        /\ Replied(sent, number, m, what) /\ Arrived(frame, sent, harm)
    BY <1>3 DEF AskInv, ReplyInv, InSession, HasBeenAsked
  <2> HIDE DEF m, what
  <2>2. Outcome(r, frame, sent, harm, number, m, what)
    BY <2>1, OutcomeOf
  <2> QED
    BY <2>1, <2>2 DEF OptionsInv
<1>4. CASE Receive
  <2>1. pc = "arrived" /\ (r.ret > 0 => r.filled)
        /\ IF r.ret > 0 /\ Accepted(r) THEN End(TRUE, r.elems) ELSE End(FALSE, << >>)
    BY <1>4 DEF Receive
  <2>2. Message(ask)' = m
    <3>1. \A t, e : End(t, e) => ask' = ask
      BY DEF End
    <3> QED
      BY <1>4, <2>1, <3>1, OthersAreSteady, MessageStays
  <2>3. /\ r.ret > 0 /\ Accepted(r) => Fate(TRUE, r.elems, sent, harm, m, what, ask)
        /\ ~(r.ret > 0 /\ Accepted(r)) => Fate(FALSE, << >>, sent, harm, m, what, ask)
    BY <1>3, <2>1, FilledFate
  <2>4. Message(ask) = m /\ ask.what = what
    OBVIOUS
  <2> HIDE DEF m, what, r
  <2>5. CASE r.ret > 0 /\ Accepted(r)
    BY <2>1, <2>2, <2>3, <2>4, <2>5, FateStays
  <2>6. CASE ~(r.ret > 0 /\ Accepted(r))
    BY <2>1, <2>2, <2>3, <2>4, <2>6, FateStays
  <2> QED
    BY <2>5, <2>6
<1>5. CASE ReceiveUnfilled
  <2>1. PICK taken \in BOOLEAN :
          pc = "arrived" /\ r.ret > 0 /\ ~r.filled /\ \E e : End(taken, e)
    <3>1. pc = "arrived" /\ r.ret > 0 /\ ~r.filled /\ (End(FALSE, << >>) \/ \E e : End(TRUE, e))
      BY <1>5 DEF ReceiveUnfilled
    <3> QED
      BY <3>1
  <2>5. PICK elems : End(taken, elems)
    BY <2>1
  <2>2. Message(ask)' = m
    <3>1. ask' = ask
      BY <2>5 DEF End
    <3> QED
      BY <1>5, <3>1, OthersAreSteady, MessageStays
  <2>3. Fate(taken, elems, sent, harm, m, what, ask)
    BY <1>3, <2>1, UnfilledFate
  <2>4. Message(ask) = m /\ ask.what = what
    OBVIOUS
  <2> HIDE DEF m, what
  <2> QED
    BY <2>1, <2>2, <2>3, <2>4, <2>5, FateStays
<1>6. CASE Done \/ UNCHANGED vars
  <2>1. /\ pc' = pc /\ ask' = ask /\ got' = got /\ sent' = sent /\ harm' = harm /\ Steady
    BY <1>6, OthersAreSteady DEF Done, vars
  <2>2. Message(ask)' = Message(ask)
    BY <2>1, MessageStays
  <2> QED
    BY <2>1, <2>2 DEF EndInv
<1> QED
  BY <1>1, <1>2, <1>4, <1>5, <1>6 DEF Next

-----------------------------------------------------------------------------
(* The inductive invariant                                                 *)

QueryInv == OptionsInv /\ ReadyInv /\ AskInv /\ ReplyInv /\ BytesInv /\ EndInv

\* The invariant holds at first,
LEMMA QueryInvInit ==
  ASSUME Init
  PROVE  QueryInv
  BY InitOptions, InitReady, InitAsk, InitReply, InitBytes, InitEnd DEF QueryInv

\* and every step keeps it.
LEMMA QueryInvStep ==
  ASSUME QueryInv, [Next]_vars
  PROVE  QueryInv'
  BY OptionsStay, ReadyStays, AskStays, ReplyStays, BytesStay, EndStays DEF QueryInv

\* The inductive invariant of a request's life.
THEOREM QueryInvHolds == Spec => []QueryInv
<1>1. Init => QueryInv
  BY QueryInvInit
<1>2. QueryInv /\ [Next]_vars => QueryInv'
  BY QueryInvStep
<1> QED
  BY <1>1, <1>2, PTL DEF Spec

-----------------------------------------------------------------------------
(* What holds of every request                                             *)

\* A request is always somewhere on its way.
LEMMA PcStays ==
  ASSUME pc \in Pcs, [Next]_vars
  PROVE  pc' \in Pcs
<1>1. CASE OptionT \/ OptionA \/ OptionArchive \/ OptionParameters \/ OptionPassword
           \/ OptionD \/ OptionI \/ OptionC \/ EndOfArgs
  <2>1. pc' \in {"args", "refused", "ready"}
    BY <1>1, OptionsAreArgs, EndOfArgsIsSteady
  <2> QED
    BY <2>1 DEF Pcs
<1>2. CASE Ask \/ Answer \/ ArriveWhole \/ ArriveChanged \/ ArriveShort \/ ArriveLong
  <2>1. \A f, h : Arrive(f, h) => pc' = "arrived"
    BY DEF Arrive
  <2>2. pc' \in {"unasked", "asked", "answered", "arrived"}
    BY <1>2, <2>1 DEF Ask, Answer, ArriveWhole, ArriveChanged, ArriveShort, ArriveLong
  <2> QED
    BY <2>2 DEF Pcs
<1>3. CASE Receive \/ ReceiveUnfilled
  <2>1. \A t, e : End(t, e) => pc' \in {"taken", "failed"}
    BY DEF End
  <2>2. pc' \in {"taken", "failed"}
    BY <1>3, <2>1 DEF Receive, ReceiveUnfilled
  <2> QED
    BY <2>2 DEF Pcs
<1>4. CASE Done \/ UNCHANGED vars
  BY <1>4 DEF Done, vars
<1> QED
  BY <1>1, <1>2, <1>3, <1>4 DEF Next

\* The sets of accepted numbers lie within their types.
LEMMA Widths == Waits \subseteq Nat /\ Ports \subseteq Word /\ Gateways \subseteq Byte
<1>1. Waits \subseteq Nat
  BY SMT DEF Waits
<1>2. Ports \subseteq Word
  <2> DEFINE w == 65536
  <2>1. Ports = 1 .. w - 1 /\ Word = 0 .. w - 1 /\ w \in Nat
    BY SMT DEF Ports, Word
  <2> HIDE DEF w
  <2> QED
    BY <2>1
<1>3. Gateways \subseteq Byte
  BY SMT DEF Gateways, Byte
<1> QED
  BY <1>1, <1>2, <1>3

\* The values of the options keep to the width of their fields.
LEMMA AppsHaveTypes ==
  ASSUME NEW a \in Apps
  PROVE  /\ a.timeout \in Nat
         /\ a.net \in [port : Word, gateway : Byte]
         /\ a.gateway \in Byte
         /\ a.addr \in [dev : Byte, par : Word, idx : Word, cnt : Word,
                        type : {"r", "b", "u", "h", "f", "t", "d"}]
         /\ a.dt \in [dev : Byte, date : Word, time : Word]
         /\ a.int \in [type : {"none", "m", "d", "h", "i"}, depth : Word, interval : Byte]
         /\ a.checks.avail \subseteq {"difference", "minutes", "indexes"}
<1>1. 0 \in Byte /\ 0 \in Word
  BY ZeroIsWord
<1>2. a.timeout \in Waits /\ a.net \in {App0.net} \cup NetValues /\ a.gateway \in Byte
      /\ a.addr \in {App0.addr} \cup Addrs /\ a.dt \in {App0.dt} \cup ClockAddrs
      /\ a.int \in {App0.int} \cup Intervals /\ a.checks \in Checkings
  BY DEF Apps
<1>3. a.timeout \in Nat /\ a.gateway \in Byte
  BY <1>2, Widths
<1>4. a.net \in [port : Word, gateway : Byte]
  <2>1. App0.net \in [port : Word, gateway : Byte]
    BY <1>1 DEF App0
  <2>2. NetValues \subseteq [port : Word, gateway : Byte]
    BY Widths DEF NetValues
  <2> QED
    BY <1>2, <2>1, <2>2
<1>5. a.addr \in [dev : Byte, par : Word, idx : Word, cnt : Word, type : TypeLetters]
  <2>1. App0.addr \in [dev : Byte, par : Word, idx : Word, cnt : Word, type : TypeLetters]
    BY <1>1 DEF App0, TypeLetters
  <2>2. Addrs \subseteq [dev : Byte, par : Word, idx : Word, cnt : Word, type : TypeLetters]
    BY Widths DEF Addrs
  <2> QED
    BY <1>2, <2>1, <2>2
<1>6. a.dt \in [dev : Byte, date : Word, time : Word]
  <2>1. App0.dt \in [dev : Byte, date : Word, time : Word]
    BY <1>1 DEF App0
  <2>2. ClockAddrs \subseteq [dev : Byte, date : Word, time : Word]
    BY Widths DEF ClockAddrs
  <2> QED
    BY <1>2, <2>1, <2>2
<1>7. a.int \in [type : {"none", "m", "d", "h", "i"}, depth : Word, interval : Byte]
  <2>1. App0.int \in [type : {"none", "m", "d", "h", "i"}, depth : Word, interval : Byte]
    BY <1>1 DEF App0
  <2>2. Intervals \subseteq [type : {"none", "m", "d", "h", "i"}, depth : Word, interval : Byte]
    BY DEF Intervals
  <2> QED
    BY <1>2, <2>1, <2>2
<1>8. a.checks.avail \subseteq {"difference", "minutes", "indexes"}
  BY <1>2 DEF Checkings, CheckNames
<1> QED
  BY <1>3, <1>4, <1>5, <1>6, <1>7, <1>8 DEF TypeLetters

\* The invariant has the types.
LEMMA HasTypes ==
  ASSUME QueryInv, pc \in Pcs
  PROVE  TypeOK
<1>1. tool \in Tools /\ app \in Apps /\ TableLink(app.table, said.table)
  BY DEF QueryInv, OptionsInv, Linked
<1>2. Len(app.table) <= TableMax
  BY <1>1 DEF TableLink
<1>3. BytesInv
  BY DEF QueryInv
<1> QED
  BY <1>1, <1>2, <1>3, AppsHaveTypes DEF TypeOK, BytesInv, Harms, Pcs

PcInv == pc \in Pcs

\* Every variable has its type, for all texts, devices and tables: numbers keep to
\* their fields, the table to its size, and frames are bytes.
THEOREM TypeCorrect == Spec => []TypeOK
<1>1. Init => PcInv
  BY DEF Init, Pcs, PcInv
<1>2. PcInv /\ [Next]_vars => PcInv'
  BY PcStays DEF PcInv
<1>3. QueryInv /\ PcInv => TypeOK
  BY HasTypes DEF PcInv
<1>4. Spec => []PcInv
  BY <1>1, <1>2, PTL DEF Spec
<1> QED
  BY <1>3, <1>4, QueryInvHolds, PTL

\* Whatever options read_args lets pass, the request can be packed and the wait is
\* bounded.
THEOREM AcceptedIsAsked == Spec => []AcceptedCanAsk
<1>1. QueryInv => AcceptedCanAsk
  BY DEF QueryInv, OptionsInv, AskInv, Apps, AcceptedCanAsk
<1> QED
  BY <1>1, QueryInvHolds, PTL

\* All the names of a text.
LEMMA AllNames ==
  ASSUME NEW S, NEW tokens \in Seq(S)
  PROVE  Named(tokens, Len(tokens)) = {tokens[i].name : i \in DOMAIN tokens}
  BY DEF Named

\* The checks that are made are those of the last text.
LEMMA LinkedChecks ==
  ASSUME OptionsInv
  PROVE  ChecksAreNamed
<1>1. ChecksLink(app.checks, said.checks) /\ said.checks \in AtMostOne(CheckTexts)
  BY DEF OptionsInv, Linked, Saids
<1>2. ASSUME said.checks # << >>
      PROVE  LET text == said.checks[1]
                 names == {text[i].name : i \in DOMAIN text}
             IN \/ text = << >> /\ app.checks.avail = {}
                \/ text # << >> /\ text[1].name = "none" /\ app.checks.avail = {}
                \/ text # << >> /\ app.checks.avail = names
                     /\ \A i \in DOMAIN text :
                          (\A j \in i+1 .. Len(text) : text[j].name # text[i].name) =>
                            /\ text[i].name = "difference" => app.checks.diff = text[i].value
                            /\ text[i].name = "minutes" => app.checks.minutes = text[i].value
  <2> DEFINE text == said.checks[1]
             c == app.checks
             n == Len(text)
  <2>1. text \in CheckTexts
    BY <1>1, <1>2 DEF AtMostOne
  <2>2. text \in Seq(CheckToken)
    BY <2>1, TextsAssumption DEF CheckToken
  <2>3. ChecksAre(c, text)
    BY <1>1, <1>2 DEF ChecksLink
  <2> HIDE DEF text, c
  <2>4. Named(text, n) = {text[i].name : i \in DOMAIN text} /\ DOMAIN text = 1..n
    BY <2>2, AllNames
  <2>5. CASE c.avail = {} /\ text # << >> /\ text[1].name = "none"
    BY <2>5 DEF text, c
  <2>6. CASE /\ c.avail = Named(text, n)
             /\ LastIs(text, n, "difference", c.diff) /\ LastIs(text, n, "minutes", c.minutes)
    <3>1. CASE text = << >>
      <4>1. DOMAIN text = {}
        BY <3>1
      <4>2. {text[i].name : i \in DOMAIN text} = {}
        BY <4>1
      <4>3. c.avail = {}
        BY <2>4, <2>6, <4>2
      <4> QED
        BY <3>1, <4>3 DEF text, c
    <3>2. CASE text # << >>
      <4>1. \A i \in DOMAIN text :
              (\A j \in i+1 .. n : text[j].name # text[i].name) =>
                /\ text[i].name = "difference" => c.diff = text[i].value
                /\ text[i].name = "minutes" => c.minutes = text[i].value
        BY <2>4, <2>6 DEF LastIs
      <4> QED
        BY <2>4, <2>6, <3>2, <4>1 DEF text, c
    <3> QED
      BY <3>1, <3>2
  <2> QED
    BY <2>3, <2>5, <2>6 DEF ChecksAre
<1> QED
  BY <1>2 DEF ChecksAreNamed

\* A check that is named is made, with the value named last (checks_from_string).
THEOREM NamedChecksAreMade == Spec => []ChecksAreNamed
<1>1. QueryInv => ChecksAreNamed
  BY LinkedChecks DEF QueryInv
<1> QED
  BY <1>1, QueryInvHolds, PTL

\* What the end of a request says of the device.
LEMMA EndsAreTrue ==
  ASSUME QueryInv
  PROVE  ValuesAreTrue /\ ConfirmedIsTrue /\ GoodAnswerIsTaken
<1> DEFINE m == Message(ask)
           what == ask.what
<1>1. pc = "taken" => Fate(TRUE, got, sent, harm, m, what, ask)
  BY DEF QueryInv, EndInv
<1>2. pc = "failed" => Fate(FALSE, got, sent, harm, m, what, ask)
  BY DEF QueryInv, EndInv
<1>3. /\ AskedWrite <=> what \in WriteKinds
      /\ AskedList <=> what \in ListKinds
      /\ Asked11 <=> what = "par11"
  BY DEF AskedWrite, AskedList, Asked11, WriteKinds, ListKinds
<1> HIDE DEF m
<1>4. ValuesAreTrue
  <2>1. ASSUME pc = "taken", ~AskedWrite, sent[6] # 0, NEW i \in DOMAIN got
        PROVE  LET item == m.elems[i] IN
               /\ AskedList => got[i] = [value |-> Memory(item), qual |-> Quality(item)]
               /\ ask.what = "ind19" => got[i].value = Memory(item)
               /\ Asked11 => got[i].value = IF item.par % 2 = 1 THEN Stored(item) \o <<0, 0>>
                                            ELSE Memory(item)
    <3>1. TrueFor(got, m.elems, what)
      BY <1>1, <1>3, <2>1 DEF Fate
    <3> QED
      BY <1>3, <2>1, <3>1 DEF TrueFor
  <2> QED
    BY <2>1 DEF ValuesAreTrue, m
<1>5. ConfirmedIsTrue
  BY <1>1, <1>3 DEF Fate, ConfirmedIsTrue
<1>6. GoodAnswerIsTaken
  BY <1>2 DEF Fate, GoodAnswerIsTaken
<1> QED
  BY <1>4, <1>5, <1>6

\* A value that is shown is the device's, under the address shown with it, for
\* every request, reply and damage.
THEOREM ShownValuesAreTrue == Spec => []ValuesAreTrue
<1>1. QueryInv => ValuesAreTrue
  BY EndsAreTrue
<1> QED
  BY <1>1, QueryInvHolds, PTL

\* What counts as written was confirmed by the device.
THEOREM ConfirmedWasDone == Spec => []ConfirmedIsTrue
<1>1. QueryInv => ConfirmedIsTrue
  BY EndsAreTrue
<1> QED
  BY <1>1, QueryInvHolds, PTL

\* A reply that arrives whole, or with bytes behind it, is taken.
THEOREM GoodAnswersAreTaken == Spec => []GoodAnswerIsTaken
<1>1. QueryInv => GoodAnswerIsTaken
  BY EndsAreTrue
<1> QED
  BY <1>1, QueryInvHolds, PTL

-----------------------------------------------------------------------------
(* What the device is asked for                                            *)

\* A small number is a word.
LEMMA SmallIsWord ==
  ASSUME NEW n \in Nat, n <= 65535
  PROVE  n \in Word /\ Narrow(n) = n
<1>1. n \in Word
  <2> DEFINE w == 65535
  <2>1. Word = 0..w /\ n <= w /\ w \in Nat
    BY DEF Word
  <2> HIDE DEF w
  <2> QED
    BY <2>1
<1> QED
  BY <1>1, NarrowIsWord

\* Where an element of a chunk comes from.
LEMMA InChunk ==
  ASSUME NEW items \in Seq(Elements), NEW from \in Nat, NEW elems, IsChunk(elems, items, from),
         NEW i \in DOMAIN elems
  PROVE  i \in 1..Len(elems) /\ from + i \in 1..Len(items) /\ elems[i] = items[from + i]
<1>1. elems \in Seq(Elements) /\ from + Len(elems) <= Len(items)
      /\ \A j \in 1..Len(elems) : elems[j] = items[from + j]
  BY DEF IsChunk
<1>2. i \in 1..Len(elems) /\ Len(elems) \in Nat /\ Len(items) \in Nat
  BY <1>1
<1> QED
  BY <1>1, <1>2

\* A part of the records or rows is asked for by tekon_arch and tekon_msr only.
LEMMA ChunkIsHeard ==
  ASSUME OptionsInv, ReadyInv, AskInv, HasBeenAsked, ask.what = "chunk"
  PROVE  /\ heard.number = number /\ ask.from \in Nat
         /\ IsChunk(heard.elems, Items, ask.from)
         /\ \/ tool = "arch" /\ ArchComplete /\ heard.gateway = app.gateway
            \/ tool = "msr" /\ heard.gateway = app.table[ask.from + 1].gateway
<1>1. heard = [number |-> number, gateway |-> Message(ask).gateway, elems |-> Message(ask).elems]
  BY DEF AskInv
<1>2. heard.number = number /\ heard.gateway = Message(ask).gateway
      /\ heard.elems = Message(ask).elems
  BY <1>1
<1>3. ask \in Asks /\ pc \notin BeforeReady
  BY DEF AskInv, HasBeenAsked, InSession, BeforeReady
<1>4. tool = "lib" \/ Completed
  BY <1>3 DEF ReadyInv
<1>5. tool \in {"arch", "msr", "sync", "lib"}
  BY QueryAssumption DEF OptionsInv
<1>6. CASE tool = "arch"
  <2>1. ArchComplete
    BY <1>4, <1>6 DEF Completed
  <2>2. ask.from \in ChunkStarts(Len(Items))
    BY <1>3, <1>6, <2>1, ArchAsks
  <2>3. Message(ask).gateway = app.gateway /\ IsChunk(Message(ask).elems, Items, ask.from)
    BY <1>6, <2>1, <2>2, ArchChunk
  <2> QED
    BY <1>2, <1>6, <2>1, <2>2, <2>3 DEF ChunkStarts
<1>7. CASE tool = "msr"
  <2>1. ask.from \in ChunkStarts(Len(Items))
    BY <1>3, <1>7, MsrAsks
  <2>2. Message(ask).gateway = app.table[ask.from + 1].gateway
        /\ IsChunk(Message(ask).elems, Items, ask.from)
    BY <1>7, <2>1, MsrChunk
  <2> QED
    BY <1>2, <1>7, <2>1, <2>2 DEF ChunkStarts
<1>8. CASE tool = "sync"
  BY <1>3, <1>8, SyncAsks
<1>9. CASE tool = "lib"
  <2>1. ask \in Probes
    BY <1>3, <1>9 DEF Asks
  <2>2. ask.what \in {"par11", "ind19"}
    BY <2>1, QueryAssumption
  <2> QED
    BY <2>2
<1> QED
  BY <1>5, <1>6, <1>7, <1>8, <1>9

\* An element that the device can be asked for is the one that was written.
LEMMA ItemAsWritten ==
  ASSUME NEW text \in Seq(Field), NEW k \in Nat, NEW n \in {4, 5},
         HasFields(text, n), CanBeAsked(WrittenItem(text, k), text),
         NEW dev, NEW par, NEW idx,
         dev = text[1].num, par = Narrow(text[2].num), ~text[3].hex => idx = text[3].num
  PROVE  ElementOf(dev, par, Narrow(idx + k)) = WrittenItem(text, k)
<1> DEFINE w == WrittenItem(text, k)
<1>1. w = [dev |-> text[1].num, par |-> text[2].num, idx |-> text[3].num + k]
  BY DEF WrittenItem
<1>2. w.par = text[2].num /\ w.idx = text[3].num + k
  BY <1>1
<1>3. text[2].num <= 65535 /\ text[3].num + k < 65535 /\ ~text[3].hex
  BY <1>2 DEF CanBeAsked
<1>4. text[2].num \in Nat /\ text[3].num \in Nat
  <2>1. text[2] \in Field /\ text[3] \in Field
    BY DEF HasFields
  <2> QED
    BY <2>1 DEF Field
<1>5. Narrow(text[2].num) = text[2].num
  BY <1>3, <1>4, SmallIsWord
<1>6. Narrow(text[3].num + k) = text[3].num + k
  <2>1. text[3].num + k \in Nat /\ text[3].num + k <= 65535
    BY <1>3, <1>4
  <2> QED
    BY <2>1, SmallIsWord
<1> QED
  BY <1>1, <1>3, <1>5, <1>6 DEF ElementOf

\* A chunk of an archive has the records of the address that was written,
LEMMA RecordsAreAsked ==
  ASSUME OptionsInv, tool = "arch", ArchComplete, NEW from \in Nat, NEW elems,
         IsChunk(elems, Items, from), NEW i \in DOMAIN elems,
         HasFields(said.addr[1], 5),
         CanBeAsked(WrittenItem(said.addr[1], from + i - 1), said.addr[1])
  PROVE  elems[i] = WrittenItem(said.addr[1], from + i - 1)
<1> DEFINE text == said.addr[1]
           addr == app.addr
           k == from + i - 1
<1>1. /\ Items \in Seq(Elements) /\ Len(Items) = addr.cnt /\ addr \in Addrs
      /\ said.addr # << >> /\ AddrIs(addr, text, 5)
      /\ \A j \in 1 .. addr.cnt :
           Items[j] = ElementOf(addr.dev, addr.par, Narrow(addr.idx + j - 1))
  BY ArchItems
<1>2. text \in Seq(Field)
  <2>1. said.addr \in AtMostOne(ArchTexts)
    BY DEF OptionsInv, Saids
  <2>2. text \in ArchTexts
    BY <1>1, <2>1 DEF AtMostOne
  <2> QED
    BY <2>2, TextsAssumption
<1>3. i \in 1..Len(elems) /\ from + i \in 1..Len(Items) /\ elems[i] = Items[from + i]
  BY <1>1, InChunk
<1>4. addr.dev = text[1].num /\ addr.par = Narrow(text[2].num)
      /\ (~text[3].hex => addr.idx = text[3].num)
  BY <1>1 DEF AddrIs
<1>5. addr.idx \in Nat
  BY <1>1, WordFits DEF Addrs
<1>6. k \in Nat /\ addr.idx + (from + i) - 1 = addr.idx + k
  BY <1>3, <1>5
<1>7. elems[i] = ElementOf(addr.dev, addr.par, Narrow(addr.idx + (from + i) - 1))
  BY <1>1, <1>3
<1>8. HasFields(text, 5) /\ CanBeAsked(WrittenItem(text, k), text)
  OBVIOUS
<1>9. elems[i] = ElementOf(addr.dev, addr.par, Narrow(addr.idx + k))
  BY <1>6, <1>7
<1> HIDE DEF text, addr, k
<1>10. elems[i] = WrittenItem(text, k)
  BY <1>2, <1>4, <1>6, <1>8, <1>9, ItemAsWritten
<1> QED
  BY <1>10 DEF text, k

\* and one of a table the rows that were written.
LEMMA RowsAreAsked ==
  ASSUME OptionsInv, tool = "msr", NEW from \in Nat, NEW elems,
         IsChunk(elems, Items, from), NEW i \in DOMAIN elems,
         HasFields(said.table[from + i].par, 4),
         CanBeAsked(WrittenItem(said.table[from + i].par, 0), said.table[from + i].par)
  PROVE  elems[i] = WrittenItem(said.table[from + i].par, 0)
<1> DEFINE j == from + i
           row == app.table[j]
           text == said.table[j].par
           k == 0
<1>1. /\ Items \in Seq(Elements) /\ Len(Items) = Len(app.table) /\ app.table \in Seq(Rows)
      /\ \A l \in 1 .. Len(app.table) :
           Items[l] = ElementOf(app.table[l].dev, app.table[l].par, app.table[l].idx)
  BY MsrItems
<1>2. i \in 1..Len(elems) /\ j \in 1..Len(app.table) /\ elems[i] = Items[j]
  BY <1>1, InChunk
<1>3. TableLink(app.table, said.table) /\ said.table \in Seq(RowTexts(tool))
  BY DEF OptionsInv, Linked, Saids
<1>4. j \in 1..Len(said.table) /\ RowIs(row, said.table[j])
  BY <1>2, <1>3 DEF TableLink
<1>5. said.table[j] \in RowTexts(tool)
  BY <1>3, <1>4
<1>6. text \in Seq(Field)
  BY <1>5 DEF RowTexts
<1>7. row \in Rows
  BY <1>1, <1>2
<1>8. row.idx \in Word /\ row.idx \in Nat
  BY <1>7, WordFits DEF Rows
<1>9. row.dev = text[1].num /\ row.par = Narrow(text[2].num)
      /\ (~text[3].hex => row.idx = text[3].num)
  BY <1>4 DEF RowIs
<1>10. Narrow(row.idx + k) = row.idx
  BY <1>8, NarrowIsWord
<1>11. elems[i] = ElementOf(row.dev, row.par, row.idx)
  BY <1>1, <1>2
<1>12. HasFields(text, 4) /\ CanBeAsked(WrittenItem(text, k), text) /\ k \in Nat
  OBVIOUS
<1> HIDE DEF text, row, k, j
<1>13. elems[i] = WrittenItem(text, k)
  BY <1>6, <1>9, <1>10, <1>11, <1>12, ItemAsWritten
<1> QED
  BY <1>13 DEF text, k, j

\* What the device takes the request for is what was written.
LEMMA HeardAsWritten ==
  ASSUME OptionsInv, ReadyInv, AskInv
  PROVE  AskedAsWritten
<1>1. ASSUME HasBeenAsked, ask.what = "chunk", tool = "arch"
      PROVE  AskedAsWritten
  <2>1. heard.number = number /\ ask.from \in Nat /\ IsChunk(heard.elems, Items, ask.from)
        /\ ArchComplete /\ heard.gateway = app.gateway
    BY <1>1, ChunkIsHeard
  <2>2. ASSUME NEW i \in DOMAIN heard.elems, HasFields(said.addr[1], 5),
               CanBeAsked(WrittenItem(said.addr[1], ask.from + i - 1), said.addr[1])
        PROVE  heard.elems[i] = WrittenItem(said.addr[1], ask.from + i - 1)
    BY <1>1, <2>1, <2>2, RecordsAreAsked
  <2>3. NetFits(said.net[1]) => heard.gateway = WrittenGateway(said.net[1])
    <3>1. NetIs(app.net, said.net[1]) /\ app.gateway = app.net.gateway
      BY <2>1, GatewayWasSaid DEF OptionsInv, ArchComplete
    <3> QED
      BY <2>1, <3>1 DEF NetIs
  <2> QED
    BY <1>1, <2>1, <2>2, <2>3 DEF AskedAsWritten
<1>2. ASSUME HasBeenAsked, ask.what = "chunk", tool = "msr"
      PROVE  AskedAsWritten
  <2>1. heard.number = number /\ ask.from \in Nat /\ IsChunk(heard.elems, Items, ask.from)
        /\ heard.gateway = app.table[ask.from + 1].gateway
    BY <1>2, ChunkIsHeard
  <2>2. ASSUME NEW i \in DOMAIN heard.elems, HasFields(said.table[ask.from + i].par, 4),
               CanBeAsked(WrittenItem(said.table[ask.from + i].par, 0),
                          said.table[ask.from + i].par)
        PROVE  heard.elems[i] = WrittenItem(said.table[ask.from + i].par, 0)
    BY <1>2, <2>1, <2>2, RowsAreAsked
  <2>3. NetFits(said.table[ask.from + 1].net)
        => heard.gateway = WrittenGateway(said.table[ask.from + 1].net)
    <3>1. Len(Items) = Len(app.table)
      BY <1>2, MsrItems
    <3>2. ask.from + 1 \in 1..Len(app.table)
      <4>1. Len(heard.elems) >= 1 /\ ask.from + Len(heard.elems) <= Len(Items)
            /\ Len(heard.elems) \in Nat /\ Len(Items) \in Nat
        BY <1>2, <2>1, MsrItems DEF IsChunk
      <4> QED
        BY <2>1, <3>1, <4>1
    <3>3. RowIs(app.table[ask.from + 1], said.table[ask.from + 1])
      BY <3>2 DEF OptionsInv, Linked, TableLink
    <3> QED
      BY <2>1, <3>3 DEF RowIs
  <2> QED
    BY <1>2, <2>1, <2>2, <2>3 DEF AskedAsWritten
<1>3. ASSUME HasBeenAsked, ask.what = "chunk"
      PROVE  tool \in {"arch", "msr"}
  BY <1>3, ChunkIsHeard
<1> QED
  BY <1>1, <1>2, <1>3 DEF AskedAsWritten

\* The device is asked for what the command line says, for every text the parsers
\* may meet: archaddr_from_string, paraddr_from_string, read_chunk, tekon_req_1c.
THEOREM AskedIsWritten == Spec => []AskedAsWritten
<1>1. QueryInv => AskedAsWritten
  BY HeardAsWritten DEF QueryInv
<1> QED
  BY <1>1, QueryInvHolds, PTL

-----------------------------------------------------------------------------
(* The ring of an archive                                                  *)

\* The range of an archive ends within the ring that was written.
LEMMA RingLimit ==
  ASSUME OptionsInv, ArchComplete, said.int # << >>
  PROVE  LET int == said.int[1]
             depth == IF int[1].letter = "d" THEN 366 ELSE int[2].num
         IN app.addr.idx + app.addr.cnt <= Limit /\ Limit \in Nat /\ Limit <= 65535
            /\ Limit <= depth /\ depth \in Nat
<1> DEFINE text == said.int[1]
           int == app.int
           r == app.addr.idx + app.addr.cnt
<1>1. IntervalIs(int, text) /\ text \in IntTexts
  <2>1. IntervalLink(app.int, said.int) /\ said.int \in AtMostOne(IntTexts)
    BY DEF OptionsInv, Linked, Saids
  <2> QED
    BY <2>1 DEF IntervalLink, AtMostOne
<1>2. text \in Seq(Field) /\ text # << >>
  BY <1>1, TextsAssumption
<1>3. int \in Intervals /\ int.type = text[1].letter
      /\ (int.type # "d" => int.depth # 0 /\ text[2].num \in Nat /\ int.depth <= text[2].num)
  BY <1>1 DEF IntervalIs
<1>4. int.depth \in Word
  BY <1>3 DEF Intervals
<1>5. int.depth \in Nat /\ int.depth <= 65535
  <2> DEFINE w == 65535
  <2>1. Word = 0..w /\ w \in Nat
    BY DEF Word
  <2> HIDE DEF w
  <2>2. int.depth \in Nat /\ int.depth <= w
    BY <1>4, <2>1
  <2> QED
    BY <2>2 DEF w
<1>6. Limit = (IF int.type = "d" THEN 366 ELSE int.depth) /\ (Limit # 0 => r <= Limit)
  BY DEF Limit, ArchComplete, RangeFits
<1> HIDE DEF text, int, r
<1>7. CASE int.type = "d"
  <2>1. Limit = 366 /\ r <= Limit
    BY <1>6, <1>7
  <2> QED
    BY <1>3, <1>7, <2>1 DEF text, r
<1>8. CASE int.type # "d"
  <2>1. Limit = int.depth /\ r <= Limit
    BY <1>3, <1>6, <1>8
  <2> QED
    BY <1>3, <1>5, <1>8, <2>1 DEF text, r
<1> QED
  BY <1>7, <1>8

\* No record lies beyond its ring, and none is asked for twice.
LEMMA HeardInsideRing ==
  ASSUME OptionsInv, ReadyInv, AskInv
  PROVE  AskedInsideRing
<1> SUFFICES ASSUME HasBeenAsked, tool = "arch", ask.what = "chunk", said.int # << >>
             PROVE  LET int == said.int[1]
                        depth == IF int[1].letter = "d" THEN 366 ELSE int[2].num
                    IN /\ \A i \in DOMAIN heard.elems : heard.elems[i].idx < depth
                       /\ \A i, j \in DOMAIN heard.elems :
                            i # j => heard.elems[i].idx # heard.elems[j].idx
  BY DEF AskedInsideRing
<1> DEFINE int == said.int[1]
           depth == IF int[1].letter = "d" THEN 366 ELSE int[2].num
           elems == heard.elems
           from == ask.from
           addr == app.addr
           x(i) == addr.idx + from + i - 1
<1>1. from \in Nat /\ IsChunk(elems, Items, from) /\ ArchComplete
  BY ChunkIsHeard
<1>2. addr.idx + addr.cnt <= Limit /\ Limit \in Nat /\ Limit <= 65535
      /\ Limit <= depth /\ depth \in Nat
  BY <1>1, RingLimit
<1>3. /\ Items \in Seq(Elements) /\ Len(Items) = addr.cnt /\ addr \in Addrs
      /\ \A j \in 1 .. addr.cnt :
           Items[j] = ElementOf(addr.dev, addr.par, Narrow(addr.idx + j - 1))
  BY <1>1, ArchItems
<1>4. addr.idx \in Nat /\ addr.cnt \in Nat
  BY <1>3, WordFits DEF Addrs
<1> HIDE DEF depth, elems, from, addr, int
<1> DEFINE w == 65535
           top == Limit
<1>5. top <= w /\ w \in Nat /\ top \in Nat /\ top <= depth /\ addr.idx + addr.cnt <= top
  BY <1>2
<1> HIDE DEF w, top
<1>6. ASSUME NEW i \in DOMAIN elems
      PROVE  i \in Nat /\ x(i) \in Nat /\ x(i) < top /\ elems[i].idx = x(i)
  <2>1. i \in 1..Len(elems) /\ from + i \in 1..Len(Items) /\ elems[i] = Items[from + i]
    BY <1>1, <1>3, <1>6, InChunk
  <2>2. i \in Nat /\ from + i <= addr.cnt /\ from + i >= 1
    BY <1>1, <1>3, <1>4, <2>1
  <2>3. x(i) \in Nat /\ x(i) < top /\ x(i) = addr.idx + (from + i) - 1
    BY <1>1, <1>4, <1>5, <2>2
  <2>4. elems[i] = ElementOf(addr.dev, addr.par, Narrow(x(i)))
    BY <1>3, <2>1, <2>3
  <2>5. x(i) <= w
    BY <1>5, <2>3
  <2> HIDE DEF x
  <2>6. Narrow(x(i)) = x(i)
    BY <2>3, <2>5, SmallIsWord DEF w
  <2> QED
    BY <2>2, <2>3, <2>4, <2>6 DEF ElementOf
<1>7. \A i \in DOMAIN elems : elems[i].idx < depth
  BY <1>2, <1>5, <1>6
<1>8. \A i, j \in DOMAIN elems : i # j => elems[i].idx # elems[j].idx
  <2>1. ASSUME NEW i \in DOMAIN elems, NEW j \in DOMAIN elems, i # j
        PROVE  elems[i].idx # elems[j].idx
    <3>1. i \in Nat /\ j \in Nat /\ elems[i].idx = x(i) /\ elems[j].idx = x(j)
      BY <1>6
    <3>2. x(i) # x(j)
      BY <1>1, <1>4, <2>1, <3>1
    <3> QED
      BY <3>1, <3>2
  <2> QED
    BY <2>1
<1> QED
  BY <1>7, <1>8 DEF elems, depth, int

\* The requests for an archive stay inside its ring and name every slot once, for
\* every address and interval.
THEOREM AskedIsInsideRing == Spec => []AskedInsideRing
<1>1. QueryInv => AskedInsideRing
  BY HeardInsideRing DEF QueryInv
<1> QED
  BY <1>1, QueryInvHolds, PTL

-----------------------------------------------------------------------------
(* The clock that is set                                                   *)

\* BCD is read as it was written,
LEMMA BcdIsRead ==
  ASSUME NEW n \in 0..99
  PROVE  FromBcd(ToBcd(n)) = n
<1> DEFINE q == n \div 10
           r == n % 10
           b == 16 * q + r
<1>1. q \in 0..9 /\ r \in 0..9 /\ n = 10 * q + r
  OBVIOUS
<1> HIDE DEF q, r
<1>2. b \in 0..255 /\ b \div 16 = q /\ b % 16 = r
  BY <1>1
<1>3. ToBcd(n) = b % 256
  BY DEF ToBcd, b, q, r
<1> HIDE DEF b
<1>4. b % 256 = b
  BY <1>2
<1>5. FromBcd(b) = 10 * q + r
  BY <1>2 DEF FromBcd
<1> QED
  BY <1>1, <1>3, <1>4, <1>5

\* and so are dates
LEMMA DatesAreRead ==
  ASSUME NEW d \in Dates
  PROVE  tekon_date_unpack(tekon_date_pack(d)) = d
<1>1. d = [dow |-> d.dow, day |-> d.day, month |-> d.month, year |-> d.year]
      /\ d.dow \in 0..99 /\ d.day \in 0..99 /\ d.month \in 0..99 /\ d.year \in 0..99
  BY DEF Dates
<1>2. FromBcd(ToBcd(d.dow)) = d.dow /\ FromBcd(ToBcd(d.day)) = d.day
      /\ FromBcd(ToBcd(d.month)) = d.month /\ FromBcd(ToBcd(d.year)) = d.year
  BY <1>1, BcdIsRead
<1> QED
  BY <1>1, <1>2 DEF tekon_date_pack, tekon_date_unpack

\* and times.
LEMMA TimesAreRead ==
  ASSUME NEW t \in Times
  PROVE  tekon_time_unpack(tekon_time_pack(t)) = t
<1>1. t = [hour |-> t.hour, minute |-> t.minute, second |-> t.second]
      /\ t.hour \in 0..99 /\ t.minute \in 0..99 /\ t.second \in 0..99
  BY DEF Times
<1>2. FromBcd(ToBcd(t.hour)) = t.hour /\ FromBcd(ToBcd(t.minute)) = t.minute
      /\ FromBcd(ToBcd(t.second)) = t.second
  BY <1>1, BcdIsRead
<1> QED
  BY <1>1, <1>2 DEF tekon_time_pack, tekon_time_unpack

\* What the device is told is what tekon_sync was to set.
LEMMA SetIsHeard ==
  ASSUME OptionsInv, ReadyInv, AskInv
  PROVE  SetAsWritten
<1> SUFFICES ASSUME HasBeenAsked, tool = "sync", Fits(said.dt[1], <<3, 6, 6>>),
                    said.dt[1][2].num <= 65535, said.dt[1][3].num <= 65535
             PROVE  LET text == said.dt[1]
                        bytes == heard.elems
                        register == FromU16(bytes[4], bytes[5])
                        value == SubSeq(bytes, 6, 9)
                    IN
     /\ ask.what = "clock" => bytes = <<[dev |-> text[1].num, par |-> text[2].num, idx |-> 0],
                                       [dev |-> text[1].num, par |-> text[3].num, idx |-> 0]>>
     /\ ask.what = "date" => /\ bytes[2] = text[1].num /\ bytes[3] = 3
                             /\ register = text[2].num
                             /\ tekon_date_unpack(value) = new.date
     /\ ask.what = "time" => /\ bytes[2] = text[1].num /\ bytes[3] = 3
                             /\ register = text[3].num
                             /\ tekon_time_unpack(value) = new.time
     /\ ask.what \in {"admin", "user"} =>
          /\ bytes[2] = text[1].num /\ bytes[3] = 5
          /\ bytes[4] = IF ask.what = "admin" THEN 2 ELSE 1
          /\ SubSeq(bytes, 5, 8) = Pairs(said.password[1].digits)
  BY DEF SetAsWritten
<1> DEFINE text == said.dt[1]
           bytes == heard.elems
<1>1. SyncComplete /\ ask \in Asks
  <2>1. ask \in Asks /\ pc \notin BeforeReady
    BY DEF AskInv, HasBeenAsked, InSession, BeforeReady
  <2> QED
    BY <2>1 DEF ReadyInv, Completed
<1>2. SyncSays(ask) /\ SyncHas(app, said)
  BY <1>1, SyncMessage, SyncIsReady
<1>3. bytes = Message(ask).elems
  BY DEF AskInv
<1>4. text \in Seq(Field) /\ Len(text) = 3
  <2>1. ClockLink(app.dt, said.dt) /\ said.dt \in AtMostOne(DtTexts)
    BY DEF OptionsInv, Linked, Saids
  <2>2. said.dt # << >>
    BY <1>1, <2>1 DEF ClockLink, SyncComplete, App0
  <2>3. text \in DtTexts
    BY <2>1, <2>2 DEF AtMostOne
  <2>4. Len(text) = 3
    BY Limits DEF Fits
  <2> QED
    BY <2>3, <2>4, TextsAssumption
<1>5. text[2].num \in Nat /\ text[3].num \in Nat
  <2>1. text[2] \in Field /\ text[3] \in Field
    BY <1>4
  <2> QED
    BY <2>1 DEF Field
<1>6. Narrow(text[2].num) = text[2].num /\ Narrow(text[3].num) = text[3].num
  BY <1>5, SmallIsWord
<1>7. app.dt.dev = text[1].num /\ app.dt.date = text[2].num /\ app.dt.time = text[3].num
  BY <1>2, <1>6 DEF SyncHas, ClockIs
<1>8. app.password = said.password[1].digits
  BY <1>2 DEF SyncHas
<1>9. new.date \in Dates /\ new.time \in Times
  BY QueryAssumption DEF OptionsInv
<1> HIDE DEF bytes, text
<1>10. ask.what = "clock" => bytes = <<[dev |-> text[1].num, par |-> text[2].num, idx |-> 0],
                                       [dev |-> text[1].num, par |-> text[3].num, idx |-> 0]>>
  BY <1>2, <1>3, <1>7 DEF SyncSays, ClockElems, ElementOf
<1>11. ask.what = "date" =>
         IsWritten(bytes, text[1].num, text[2].num, tekon_date_pack(new.date))
  BY <1>2, <1>3, <1>7 DEF SyncSays
<1>12. ask.what = "time" =>
         IsWritten(bytes, text[1].num, text[3].num, tekon_time_pack(new.time))
  BY <1>2, <1>3, <1>7 DEF SyncSays
<1>13. ask.what \in {"admin", "user"} =>
         IsLogin(bytes, text[1].num, IF ask.what = "admin" THEN 2 ELSE 1,
                 Pairs(said.password[1].digits))
  BY <1>2, <1>3, <1>7, <1>8 DEF SyncSays
<1>14. ask.what = "date" =>
         /\ bytes[2] = text[1].num /\ bytes[3] = 3 /\ FromU16(bytes[4], bytes[5]) = text[2].num
         /\ tekon_date_unpack(SubSeq(bytes, 6, 9)) = new.date
  <2> DEFINE packed == tekon_date_pack(new.date)
             value == SubSeq(bytes, 6, 9)
  <2>1. tekon_date_unpack(packed) = new.date
    BY <1>9, DatesAreRead
  <2>2. ask.what = "date" => value = packed
    BY <1>11 DEF IsWritten
  <2> HIDE DEF packed, value
  <2>3. ask.what = "date" => tekon_date_unpack(value) = new.date
    BY <2>1, <2>2
  <2>4. ask.what = "date" =>
          bytes[2] = text[1].num /\ bytes[3] = 3 /\ FromU16(bytes[4], bytes[5]) = text[2].num
    BY <1>11 DEF IsWritten
  <2> QED
    BY <2>3, <2>4 DEF value
<1>15. ask.what = "time" =>
         /\ bytes[2] = text[1].num /\ bytes[3] = 3 /\ FromU16(bytes[4], bytes[5]) = text[3].num
         /\ tekon_time_unpack(SubSeq(bytes, 6, 9)) = new.time
  <2> DEFINE packed == tekon_time_pack(new.time)
             value == SubSeq(bytes, 6, 9)
  <2>1. tekon_time_unpack(packed) = new.time
    BY <1>9, TimesAreRead
  <2>2. ask.what = "time" => value = packed
    BY <1>12 DEF IsWritten
  <2> HIDE DEF packed, value
  <2>3. ask.what = "time" => tekon_time_unpack(value) = new.time
    BY <2>1, <2>2
  <2>4. ask.what = "time" =>
          bytes[2] = text[1].num /\ bytes[3] = 3 /\ FromU16(bytes[4], bytes[5]) = text[3].num
    BY <1>12 DEF IsWritten
  <2> QED
    BY <2>3, <2>4 DEF value
<1>16. ask.what \in {"admin", "user"} =>
         /\ bytes[2] = text[1].num /\ bytes[3] = 5
         /\ bytes[4] = IF ask.what = "admin" THEN 2 ELSE 1
         /\ SubSeq(bytes, 5, 8) = Pairs(said.password[1].digits)
  BY <1>13 DEF IsLogin
<1> QED
  BY <1>10, <1>14, <1>15, <1>16 DEF bytes, text

\* tekon_sync reads and writes the registers of the command line, sets the very
\* date and time it was to set, and gives the password as written.
THEOREM SetIsAsWritten == Spec => []SetAsWritten
<1>1. QueryInv => SetAsWritten
  BY SetIsHeard DEF QueryInv
<1> QED
  BY <1>1, QueryInvHolds, PTL
=============================================================================
