----------------------------- MODULE Remainders -----------------------------
(***************************************************************************)
(* Facts about quotients and remainders: of request numbers modulo 16, of  *)
(* archive indexes modulo the size of their ring, of times and their days. *)
(***************************************************************************)
EXTENDS Integers, WellFoundedInduction, TLAPS

-----------------------------------------------------------------------------
(* Remainders                                                              *)

\* The remainder lies below the modulus.
LEMMA ModRange ==
  ASSUME NEW a \in Int, NEW m \in Nat \ {0}
  PROVE  a % m \in 0 .. m-1
  OBVIOUS

LEMMA RemainderIsNumber ==
  ASSUME NEW a \in Int, NEW m \in Nat \ {0}
  PROVE  a % m \in Nat
  BY ModRange

\* Quotient and remainder make up the dividend.
LEMMA DivMod ==
  ASSUME NEW a \in Int, NEW m \in Nat \ {0}
  PROVE  a \div m \in Int /\ a = m * (a \div m) + (a % m)
  BY ModRange

\* A multiple of m by at least 1 is at least m.
LEMMA MultipleAtLeast ==
  ASSUME NEW q \in Int, NEW m \in Nat \ {0}, q >= 1
  PROVE  m * q >= m
  OBVIOUS

\* A multiple of m by at most 0 is at most 0.
LEMMA MultipleAtMost ==
  ASSUME NEW q \in Int, NEW m \in Nat \ {0}, q <= 0
  PROVE  m * q <= 0
  OBVIOUS

\* Two numbers with the same remainder and less than the modulus apart are
\* equal: what makes a request number modulo SeqMod, or an index modulo Depth,
\* stand for one request, or for one period.
LEMMA SameRemainder ==
  ASSUME NEW a \in Int, NEW b \in Int, NEW m \in Nat \ {0},
         a % m = b % m, a <= b, b - a < m
  PROVE  a = b
<1> DEFINE p == a \div m
           q == b \div m
<1>1. a = m * p + (a % m) /\ b = m * q + (b % m) /\ p \in Int /\ q \in Int
  BY DivMod
<1> HIDE DEF p, q
<1>2. b - a = m * (q - p)
  BY <1>1
<1>3. q - p >= 1 => b - a >= m
  BY <1>1, <1>2, MultipleAtLeast
<1>4. q - p <= 0 => b - a <= 0
  BY <1>1, <1>2, MultipleAtMost
<1> QED
  BY <1>1, <1>3, <1>4

\* Adding a multiple of the modulus does not change the remainder.
LEMMA RemainderShift ==
  ASSUME NEW x \in Int, NEW y \in Int, NEW q \in Int, NEW m \in Nat \ {0},
         x = m * q + y
  PROVE  x % m = y % m
<1> DEFINE a == x \div m
           b == y \div m
           r == x % m
           t == y % m
<1>1. /\ a \in Int /\ b \in Int /\ r \in 0 .. m-1 /\ t \in 0 .. m-1
      /\ x = m * a + r /\ y = m * b + t
  BY DivMod, ModRange
<1> HIDE DEF a, b, r, t
<1>2. r - t = m * (q + b - a) /\ t - r = m * (a - q - b)
  BY <1>1
<1>3. ~(q + b - a >= 1)
  BY <1>1, <1>2, MultipleAtLeast
<1>4. ~(a - q - b >= 1)
  BY <1>1, <1>2, MultipleAtLeast
<1>5. q + b - a = 0
  BY <1>1, <1>3, <1>4
<1>6. r = t
  BY <1>1, <1>2, <1>5
<1> QED
  BY <1>6 DEF r, t

\* Counting modulo m keeps step with counting: (nout + 1) % 16 numbers the
\* requests by their ordinals.
LEMMA NextNumber ==
  ASSUME NEW a \in Nat, NEW m \in Nat \ {0}
  PROVE  ((a % m) + 1) % m = (a + 1) % m
<1> DEFINE q == a \div m
           r == a % m
           x == a + 1
           y == r + 1
<1>1. q \in Int /\ r \in Int /\ a = m * q + r
  BY DivMod, ModRange
<1> HIDE DEF q, r
<1>2. x = m * q + y /\ x \in Int /\ y \in Int
  BY <1>1
<1> HIDE DEF x, y
<1>3. x % m = y % m
  BY <1>1, <1>2, RemainderShift
<1> QED
  BY <1>3 DEF x, y, r

-----------------------------------------------------------------------------
(* Quotients                                                               *)

\* The quotient of a natural number is one.
LEMMA Quotient ==
  ASSUME NEW a \in Nat, NEW m \in Nat \ {0}
  PROVE  a \div m \in Nat
<1> DEFINE q == a \div m
           r == a % m
           p == 0 - q
<1>1. q \in Int /\ r \in 0 .. m-1 /\ a = m * q + r
  BY DivMod, ModRange
<1> HIDE DEF q, r
<1>2. p >= 1 => m * p >= m
  BY <1>1, MultipleAtLeast
<1>3. m * p = 0 - m * q
  BY <1>1
<1>4. ~(p >= 1)
  BY <1>1, <1>2, <1>3
<1>5. q \in Nat
  BY <1>1, <1>4
<1> QED
  BY <1>5 DEF q

\* A whole number of steps more or less is as many quotients more or less:
\* times are counted alike in every zone that is a multiple of what is counted.
LEMMA QuotientShift ==
  ASSUME NEW a \in Int, NEW z \in Int, NEW m \in Nat \ {0}
  PROVE  (a + z * m) \div m = a \div m + z
<1> DEFINE q == a \div m
           r == a % m
           x == a + z * m
           p == x \div m
           s == x % m
<1>1. q \in Int /\ a = m * q + r /\ r \in 0 .. m-1
  BY DivMod, ModRange
<1>2. x \in Int
  OBVIOUS
<1>3. p \in Int /\ x = m * p + s /\ s \in 0 .. m-1
  BY <1>2, DivMod, ModRange
<1>4. m * ((q + z) - p) = s - r
  BY <1>1, <1>3
<1>5. (q + z) - p >= 1 => FALSE
  BY <1>1, <1>3, <1>4, MultipleAtLeast
<1>6. p - (q + z) >= 1 => FALSE
  <2>1. m * (p - (q + z)) = r - s
    BY <1>1, <1>3, <1>4
  <2> QED
    BY <1>1, <1>3, <2>1, MultipleAtLeast
<1> QED
  BY <1>1, <1>3, <1>5, <1>6

\* A product of natural numbers is one.
LEMMA Product ==
  ASSUME NEW a \in Nat, NEW b \in Nat
  PROVE  a * b \in Nat
  OBVIOUS
\* A quotient reaches c when the dividend reaches c times the divisor.
LEMMA Reaches ==
  ASSUME NEW a \in Nat, NEW m \in Nat \ {0}, NEW c \in Int
  PROVE  a \div m >= c <=> a >= m * c
<1> DEFINE q == a \div m
           r == a % m
           d == q - c
           e == c - q
<1>1. q \in Int /\ r \in 0 .. m-1 /\ a = m * q + r
  BY DivMod, ModRange
<1> HIDE DEF q, r
<1>2. m * d = m * q - m * c /\ m * e = m * c - m * q /\ d \in Int /\ e \in Int
  BY <1>1
<1>3. e <= 0 => m * e <= 0
  BY <1>2, MultipleAtMost
<1>4. e >= 1 => m * e >= m
  BY <1>2, MultipleAtLeast
<1>5. m * c \in Int /\ m * q \in Int /\ m * e \in Int
  BY <1>1, <1>2
<1>6. q >= c <=> ~(e >= 1)
  BY <1>1
<1>7. e <= 0 \/ e >= 1
  BY <1>2
<1>8. q >= c <=> a >= m * c
  BY <1>1, <1>2, <1>3, <1>4, <1>5, <1>6, <1>7
<1> QED
  BY <1>8 DEF q

\* Quotients are in the order of their dividends.
LEMMA InOrder ==
  ASSUME NEW a \in Nat, NEW b \in Nat, NEW m \in Nat \ {0}, a <= b
  PROVE  a \div m <= b \div m
<1> DEFINE q == a \div m
           p == b \div m
<1>1. q \in Int /\ p \in Int
  BY DivMod
<1>2. a >= m * q
  <2>1. a \div m >= q
    BY <1>1
  <2> HIDE DEF q
  <2> QED
    BY <2>1, <1>1, Reaches
<1>3. m * q \in Int
  BY <1>1
<1>4. b >= m * q
  BY <1>2, <1>3
<1> HIDE DEF q
<1>5. b \div m >= q
  BY <1>1, <1>4, Reaches
<1> QED
  BY <1>1, <1>5 DEF q

\* What lies between two times of one day (or period) is of that day.
LEMMA Between ==
  ASSUME NEW a \in Nat, NEW b \in Nat, NEW x \in a .. b, NEW m \in Nat \ {0},
         a \div m = b \div m
  PROVE  x \div m = a \div m
<1>1. x \in Nat /\ a <= x /\ x <= b
  OBVIOUS
<1>2. a \div m <= x \div m /\ x \div m <= b \div m
  BY <1>1, InOrder
<1>3. a \div m \in Int /\ x \div m \in Int
  BY <1>1, DivMod
<1> QED
  BY <1>2, <1>3

\* Two times lie in the same of the stretches of m units.
Same(a, b, m) == a \div m = b \div m

\* Times of one minute, or of one period, are of one day.
LEMMA Coarser ==
  ASSUME NEW a \in Nat, NEW b \in Nat, NEW m \in Nat \ {0}, NEW d \in Nat \ {0},
         d % m = 0, Same(a, b, m)
  PROVE  Same(a, b, d)
<1>0. a \div m = b \div m
  BY DEF Same
<1> DEFINE k == d \div m
<1>1. k \in Int /\ d = m * k
  BY DivMod
<1> HIDE DEF k
<1>2. ASSUME NEW c \in Int
      PROVE  a \div d >= c <=> b \div d >= c
  <2> DEFINE n == k * c
  <2>1. n \in Int /\ d * c = m * n
    BY <1>1
  <2> HIDE DEF n
  <2>2. a \div d >= c <=> a >= m * n
    BY <2>1, Reaches
  <2>3. b \div d >= c <=> b >= m * n
    BY <2>1, Reaches
  <2>4. (a \div m >= n <=> a >= m * n) /\ (b \div m >= n <=> b >= m * n)
    BY <2>1, Reaches
  <2> QED
    BY <1>0, <2>2, <2>3, <2>4
<1>3. a \div d \in Int /\ b \div d \in Int
  BY DivMod
<1> DEFINE p == a \div d
           q == b \div d
<1>4. p \in Int /\ q \in Int /\ \A c \in Int : p >= c <=> q >= c
  BY <1>2, <1>3
<1> HIDE DEF p, q
<1>5. p = q
  BY <1>4
<1> QED
  BY <1>5 DEF p, q, Same

\* The next moment is of the same day (or period), unless it begins one.
LEMMA NextMoment ==
  ASSUME NEW a \in Nat, NEW m \in Nat \ {0}, (a + 1) % m # 0
  PROVE  (a + 1) \div m = a \div m
<1> DEFINE b == a + 1
           q == b \div m
           r == b % m
<1>1. q \in Int /\ r \in 1 .. m-1 /\ b = m * q + r /\ b \in Nat
  BY DivMod, ModRange
<1> HIDE DEF q, r
<1>2. a >= m * q
  BY <1>1
<1>3. a \div m >= q
  BY <1>1, <1>2, Reaches
<1>4. a \div m <= b \div m
  BY <1>1, InOrder
<1>5. a \div m \in Int
  BY DivMod
<1> QED
  BY <1>1, <1>3, <1>4, <1>5 DEF q

\* A day begins with a period.
LEMMA MultipleOf ==
  ASSUME NEW a \in Nat, NEW m \in Nat \ {0}, NEW d \in Nat \ {0},
         d % m = 0, a % d = 0
  PROVE  a % m = 0
<1> DEFINE k == d \div m
           q == a \div d
           n == k * q
<1>1. k \in Int /\ d = m * k /\ q \in Int /\ a = d * q
  BY DivMod
<1> HIDE DEF k, q
<1>2. PICK z \in Int : z = 0
  OBVIOUS
<1>3. n \in Int /\ a = m * n + z
  BY <1>1, <1>2
<1> HIDE DEF n
<1>4. a % m = z % m
  BY <1>3, RemainderShift
<1>5. 0 % m = 0
  OBVIOUS
<1> QED
  BY <1>2, <1>4, <1>5

\* Day and time of day make up the time.
LEMMA DayAndTime ==
  ASSUME NEW a \in Nat, NEW d \in Nat \ {0}
  PROVE  (a \div d) * d + (a % d) = a
<1> DEFINE q == a \div d
           r == a % d
<1>1. q \in Int /\ r \in Int /\ a = d * q + r
  BY DivMod, ModRange
<1> HIDE DEF q, r
<1>2. q * d + r = a
  BY <1>1
<1> QED
  BY <1>2 DEF q, r

\* What lies below the modulus is its own remainder.
LEMMA SmallRemainder ==
  ASSUME NEW m \in Nat \ {0}, NEW a \in 0 .. m-1
  PROVE  a % m = a
  OBVIOUS

\* The k-th period of day a has the same slot in a ring of d days with p periods
\* each as in a ring of d * p periods.
SameSlot(a, d, p, k) == (a % d) * p + k = (a * p + k) % (d * p)

\* A ring of days is a ring of their periods.
LEMMA RingOfDays ==
  ASSUME NEW a \in Nat, NEW d \in Nat \ {0}, NEW p \in Nat \ {0}, NEW k \in 0 .. p-1
  PROVE  SameSlot(a, d, p, k)
<1> DEFINE q == a \div d
           r == a % d
           m == d * p
           x == a * p + k
           y == r * p + k
           e == (d - 1) - r
<1>1. q \in Int /\ r \in 0 .. d-1 /\ a = d * q + r
  BY DivMod, ModRange
<1> HIDE DEF q, r
<1>2. m \in Nat \ {0} /\ x \in Int /\ y \in Int
  BY <1>1
<1>3. x = m * q + y
  BY <1>1
<1>4. y \in 0 .. m-1
  <2>1. p * e >= 0
    BY <1>1
  <2>2. p * e = m - p - r * p
    BY <1>1
  <2>3. r * p >= 0 /\ r * p <= m - p
    BY <1>1, <1>2, <2>1, <2>2
  <2>4. \A z, n \in Int : z >= 0 /\ z <= n - p => z + k \in 0 .. n-1
    OBVIOUS
  <2>5. r * p \in Int /\ m \in Int
    BY <1>1, <1>2
  <2> QED
    BY <2>3, <2>4, <2>5
<1> HIDE DEF m, x, y
<1>5. x % m = y % m
  BY <1>2, <1>3, <1>1, RemainderShift
<1>6. y % m = y
  BY <1>2, <1>4, SmallRemainder
<1>7. y = x % m
  BY <1>5, <1>6
<1> QED
  BY <1>7 DEF m, x, y, r, SameSlot

-----------------------------------------------------------------------------
(* Induction, over sets of numbers                                         *)

\* A set of natural numbers has a least element.
LEMMA LeastNumber ==
  ASSUME NEW T, T \subseteq Nat, T # {}
  PROVE  \E x \in T : \A y \in T : x <= y
<1> DEFINE R == OpToRel(<, Nat)
<1>1. IsWellFoundedOn(R, Nat)
  BY NatLessThanWellFounded
<1>2. \A x, y \in Nat : y < x => <<y, x>> \in R
  BY DEF OpToRel
<1> HIDE DEF R
<1>3. PICK x \in T : \A y \in T : ~(<<y, x>> \in R)
  BY <1>1, WFMin
<1>4. \A y \in T : ~(y < x)
  BY <1>2, <1>3
<1>5. x \in Nat /\ \A y \in T : y \in Nat
  BY <1>3
<1> QED
  BY <1>3, <1>4, <1>5

\* What holds at 0 and passes from each number to the next holds up to m.
LEMMA UpTo ==
  ASSUME NEW m \in Nat, NEW P, 0 \in P, \A k \in 0 .. m-1 : k \in P => k + 1 \in P
  PROVE  \A k \in 0 .. m : k \in P
<1> DEFINE T == {k \in 0 .. m : k \notin P}
<1> SUFFICES ASSUME T # {} PROVE FALSE
  OBVIOUS
<1>1. PICK x \in T : \A y \in T : x <= y
  <2>1. T \subseteq Nat
    OBVIOUS
  <2> HIDE DEF T
  <2> QED
    BY <2>1, LeastNumber
<1>2. x \in 0 .. m /\ x \notin P
  BY <1>1
<1>3. x # 0
  BY <1>2
<1>4. x - 1 \in 0 .. m-1
  BY <1>2, <1>3
<1>5. ~(x - 1 \in T)
  BY <1>1, <1>2
<1>6. x - 1 \in P
  BY <1>4, <1>5
<1>7. (x - 1) + 1 \in P
  BY <1>4, <1>6
<1> QED
  BY <1>2, <1>7

\* f[k] is what a loop has made of b after k of its m turns.
Turns(f, S, b, m, step) ==
  /\ f \in [0..m -> S]
  /\ f[0] = b
  /\ \A k \in 1..m : f[k] = step[k][f[k-1]]

\* There is such a function: what a recursive definition over 0..m needs.
LEMMA Loop ==
  ASSUME NEW S, NEW b \in S, NEW m \in Nat, NEW step \in [1..m -> [S -> S]]
  PROVE  \E f : Turns(f, S, b, m, step)
<1> DEFINE Runs(n) == {f \in [0..n -> S] : /\ f[0] = b
                                          /\ \A k \in 1..n : f[k] = step[k][f[k-1]]}
           P == {n \in 0..m : Runs(n) # {}}
<1>1. 0 \in P
  <2>1. [k \in 0..0 |-> b] \in Runs(0)
    OBVIOUS
  <2> QED
    BY <2>1
<1>2. ASSUME NEW n \in 0 .. m-1, n \in P
      PROVE  n + 1 \in P
  <2>1. PICK f : f \in Runs(n)
    BY <1>2
  <2>2. /\ f \in [0..n -> S] /\ f[0] = b
        /\ \A k \in 1..n : f[k] = step[k][f[k-1]]
    BY <2>1
  <2> DEFINE c == step[n+1][f[n]]
             g == [k \in 0 .. n+1 |-> IF k = n + 1 THEN c ELSE f[k]]
  <2>3. c \in S
    <3>1. step[n+1] \in [S -> S] /\ f[n] \in S
      BY <2>2
    <3> QED
      BY <3>1
  <2>4. g \in [0 .. n+1 -> S]
    <3> HIDE DEF c
    <3> QED
      BY <2>2, <2>3
  <2>5. g[0] = b
    BY <2>2
  <2>6. ASSUME NEW k \in 1 .. n+1
        PROVE  g[k] = step[k][g[k-1]]
    <3>1. CASE k = n + 1
      BY <3>1
    <3>2. CASE k \in 1..n
      BY <3>2, <2>2
    <3> QED
      BY <3>1, <3>2
  <2> HIDE DEF g
  <2>7. g \in Runs(n+1)
    BY <2>4, <2>5, <2>6
  <2> QED
    BY <2>7
<1>3. m \in P
  <2> HIDE DEF P
  <2>1. \A k \in 0 .. m-1 : k \in P => k + 1 \in P
    BY <1>2
  <2>2. \A k \in 0 .. m : k \in P
    BY <1>1, <2>1, UpTo
  <2> QED
    BY <2>2
<1>4. PICK f : f \in Runs(m)
  BY <1>3
<1>5. /\ f \in [0..m -> S] /\ f[0] = b
      /\ \A k \in 1..m : f[k] = step[k][f[k-1]]
  BY <1>4
<1> QED
  BY <1>5 DEF Turns
=============================================================================
