---------------------------- MODULE IntervalLemmas ----------------------------
(***************************************************************************)
(* The interval arithmetic of the counterexample search encloses: a sum, a *)
(* product, a quotient, a magnitude and Horner's rule, and from them the   *)
(* three criteria find_counterexample evaluates, for every scale of the    *)
(* fixed point, every precision, all coefficients and every point.         *)
(***************************************************************************)
EXTENDS WitnessSearch, RankLemmas, SequenceTheorems

-----------------------------------------------------------------------------
(* Interval arithmetic (counterexamples.py, mpmath).  A quantity n/d in      *)
(* units of 1/Unit is enclosed when n <= d * hi and d * lo <= n.             *)

\* x is an interval that contains n/d.
Encloses(x, n, d) == x.lo \in Int /\ x.hi \in Int /\ x.lo * d <= n /\ n <= x.hi * d

\* The distance of consecutive floats.
LEMMA SpacingPositive ==
  ASSUME NEW n \in Nat
  PROVE  Spacing(n) \in Nat \ {0}
<1>1. CASE n < 2^Digits
  BY <1>1 DEF Spacing
<1>2. CASE ~(n < 2^Digits)
  <2> DEFINE s == 2^Digits
             Fits(k) == n < s * 2^k
             T == {k \in Nat : Fits(k)}
  <2>1. s \in Nat \ {0} /\ s <= n
    BY <1>2, WitnessAssumption, PowersOfTwo
  <2>2. \A k \in Nat : 2^k \in Nat \ {0} /\ k < 2^k
    BY PowersOfTwo, PowerExceeds
  <2>3. n \in T
    <3>1. 2^n \in Nat /\ n < 2^n
      BY <2>2
    <3>2. ASSUME NEW a \in Nat, NEW b \in Nat \ {0}, n < a PROVE n < b * a
      BY <3>2
    <3> HIDE DEF s
    <3>3. n < s * 2^n
      BY <2>1, <3>1, <3>2
    <3> QED BY <3>3
  <2>4. PICK m \in T : \A k \in T : m <= k
    <3>1. T \in SUBSET Nat
      OBVIOUS
    <3> HIDE DEF T
    <3> QED BY <2>3, <3>1, LeastNatural
  <2>5. m \in Nat /\ Fits(m) /\ m <= n
    BY <2>3, <2>4
  <2>6. m # 0
    <3>1. 2^0 = 1
      OBVIOUS
    <3> HIDE DEF s
    <3>2. ~Fits(0)
      BY <2>1, <3>1
    <3> QED BY <2>5, <3>2
  <2>7. m - 1 \in Nat /\ ~Fits(m - 1)
    <3>1. m - 1 \in Nat /\ ~(m <= m - 1)
      BY <2>5, <2>6
    <3>2. m - 1 \notin T
      <4> HIDE DEF T
      <4> QED BY <2>4, <3>1
    <3> QED BY <3>1, <3>2
  <2>8. m \in 1..n /\ s * 2^(m - 1) <= n /\ n < s * 2^m
    <3>1. 2^(m - 1) \in Nat
      BY <2>2, <2>7
    <3> HIDE DEF s
    <3>2. s * 2^(m - 1) \in Nat
      BY <2>1, <3>1
    <3> QED BY <2>5, <2>6, <2>7, <3>2
  <2> DEFINE c == CHOOSE k \in 1..n : s * 2^(k - 1) <= n /\ n < s * 2^k
  <2>9. c \in 1..n
    BY <2>8
  <2>10. Spacing(n) = 2^c
    BY <1>2 DEF Spacing
  <2> HIDE DEF c
  <2> QED BY <2>2, <2>9, <2>10
<1> QED BY <1>1, <1>2

\* Quotients are rounded down and up.
LEMMA Quotients ==
  ASSUME NEW a \in Int, NEW b \in Int, b # 0
  PROVE  /\ FloorDiv(a, b) \in Int /\ CeilDiv(a, b) \in Int
         /\ b > 0 => FloorDiv(a, b) * b <= a /\ a <= CeilDiv(a, b) * b
         /\ b < 0 => FloorDiv(a, b) * b >= a /\ a >= CeilDiv(a, b) * b
<1>1. ASSUME NEW n \in Int, NEW d \in Nat \ {0}
      PROVE  n \div d \in Int /\ (n \div d) * d <= n
  OBVIOUS
<1>2. CASE b > 0
  <2> DEFINE f == a \div b
             g == (-a) \div b
  <2>1. f \in Int /\ f * b <= a /\ g \in Int /\ g * b <= -a
    BY <1>1, <1>2
  <2>2. FloorDiv(a, b) = f /\ CeilDiv(a, b) = -g
    BY <1>2 DEF FloorDiv, CeilDiv
  <2> HIDE DEF f, g
  <2>3. (-g) * b = -(g * b)
    BY <2>1
  <2>4. g * b \in Int
    BY <2>1
  <2> QED BY <1>2, <2>1, <2>2, <2>3, <2>4
<1>3. CASE b < 0
  <2> DEFINE d == -b
             f == (-a) \div d
             g == a \div d
  <2>1. d \in Nat \ {0}
    BY <1>3
  <2>2. f \in Int /\ f * d <= -a /\ g \in Int /\ g * d <= a
    <3> HIDE DEF d
    <3> QED BY <1>1, <2>1
  <2>3. FloorDiv(a, b) = f /\ CeilDiv(a, b) = -g
    BY <1>3 DEF FloorDiv, CeilDiv
  <2> HIDE DEF f, g
  <2>4. f * d = -(f * b) /\ (-g) * b = g * d /\ f * b \in Int
    BY <2>2
  <2>5. g * d \in Int
    BY <2>1, <2>2
  <2> HIDE DEF d
  <2> QED BY <1>3, <2>2, <2>3, <2>4, <2>5
<1> QED BY <1>2, <1>3

\* Rounding outwards.
LEMMA Rounds ==
  ASSUME NEW n \in Int
  PROVE  Down(n) \in Int /\ Up(n) \in Int /\ Down(n) <= n /\ n <= Up(n)
<1>1. ASSUME NEW m \in Int PROVE Down(m) \in Int /\ Down(m) <= m
  <2> DEFINE s == Spacing(Abs(m))
  <2>1. s \in Nat \ {0}
    <3>1. Abs(m) \in Nat
      BY DEF Abs
    <3> QED BY <3>1, SpacingPositive
  <2> HIDE DEF s
  <2>2. FloorDiv(m, s) \in Int /\ FloorDiv(m, s) * s <= m
    BY <2>1, Quotients
  <2>3. FloorDiv(m, s) * s \in Int
    BY <2>1, <2>2
  <2> QED BY <2>2, <2>3 DEF Down, s
<1>2. Down(-n) \in Int /\ Down(-n) <= -n
  BY <1>1
<1> QED BY <1>1, <1>2 DEF Up

\* Products with factors of known sign keep an order.
LEMMA Monotone ==
  ASSUME NEW a \in Int, NEW b \in Int, NEW c \in Int, a <= b
  PROVE  c >= 0 => a * c <= b * c
OBVIOUS

\* A product is at least the least product of the ends.
LEMMA ProductAbove ==
  ASSUME NEW a \in Int, NEW b \in Int, NEW c \in Int, NEW e \in Int,
         NEW n \in Int, NEW m \in Int, NEW d \in Nat \ {0}, NEW k \in Nat \ {0},
         a * d <= n, n <= b * d, c * k <= m, m <= e * k,
         NEW l \in Int, l <= a * c, l <= a * e, l <= b * c, l <= b * e
  PROVE  l * (d * k) <= n * m
<1>1. ASSUME NEW u \in Int, NEW v \in Int, l <= u * v PROVE l * (d * k) <= (u * d) * (v * k)
  <2>1. (u * d) * (v * k) = (u * v) * (d * k)
    OBVIOUS
  <2>2. u * v \in Int /\ d * k \in Int /\ d * k >= 0
    OBVIOUS
  <2> QED BY <1>1, <2>1, <2>2, Monotone
<1>2. ASSUME NEW u \in Int, NEW v \in Int, NEW w \in Int, NEW x \in Int, u <= v, w <= x
      PROVE  /\ x >= 0 => u * x <= v * x
             /\ x <= 0 => v * x <= u * x
  BY <1>2
<1> DEFINE A == a * d
           B == b * d
           C == c * k
           E == e * k
<1>3. A \in Int /\ B \in Int /\ C \in Int /\ E \in Int /\ A <= n /\ n <= B /\ C <= m /\ m <= E
  OBVIOUS
<1>4. l * (d * k) <= A * C /\ l * (d * k) <= A * E /\ l * (d * k) <= B * C /\ l * (d * k) <= B * E
  BY <1>1
<1>5. l * (d * k) \in Int
  OBVIOUS
<1>6. ASSUME NEW L \in Int, NEW AA \in Int, NEW BB \in Int, NEW CC \in Int, NEW EE \in Int,
             AA <= n, n <= BB, CC <= m, m <= EE,
             L <= AA * CC, L <= AA * EE, L <= BB * CC, L <= BB * EE
      PROVE  L <= n * m
  <2>1. CASE m >= 0
    <3>1. AA * m <= n * m
      BY <1>6, <2>1, Monotone
    <3>2. CASE AA >= 0
      <4>1. CC * AA <= m * AA
        BY <1>6, <3>2, Monotone
      <4>2. CC * AA = AA * CC /\ m * AA = AA * m /\ AA * CC \in Int /\ AA * m \in Int /\ n * m \in Int
        OBVIOUS
      <4> QED BY <1>6, <3>1, <4>1, <4>2
    <3>3. CASE AA < 0
      <4>1. m * (-AA) <= EE * (-AA)
        BY <1>6, <3>3, Monotone
      <4>2. /\ m * (-AA) = -(AA * m) /\ EE * (-AA) = -(AA * EE)
            /\ AA * EE \in Int /\ AA * m \in Int /\ n * m \in Int
        OBVIOUS
      <4> QED BY <1>6, <3>1, <4>1, <4>2
    <3> QED BY <3>2, <3>3
  <2>2. CASE m < 0
    <3>1. n * (-m) <= BB * (-m)
      BY <1>6, <2>2, Monotone
    <3>2. /\ n * (-m) = -(n * m) /\ BB * (-m) = -(BB * m) /\ n * m \in Int /\ BB * m \in Int
      OBVIOUS
    <3>3. CASE BB >= 0
      <4>1. CC * BB <= m * BB
        BY <1>6, <3>3, Monotone
      <4>2. CC * BB = BB * CC /\ m * BB = BB * m /\ BB * CC \in Int
        OBVIOUS
      <4> QED BY <1>6, <3>1, <3>2, <4>1, <4>2
    <3>4. CASE BB < 0
      <4>1. m * (-BB) <= EE * (-BB)
        BY <1>6, <3>4, Monotone
      <4>2. m * (-BB) = -(BB * m) /\ EE * (-BB) = -(BB * EE) /\ BB * EE \in Int
        OBVIOUS
      <4> QED BY <1>6, <3>1, <3>2, <4>1, <4>2
    <3> QED BY <3>3, <3>4
  <2> QED BY <2>1, <2>2
<1> HIDE DEF A, B, C, E
<1> QED BY <1>3, <1>4, <1>5, <1>6

\* The least and the largest of four numbers.
LEMMA FourExtremes ==
  ASSUME NEW a \in Int, NEW b \in Int, NEW c \in Int, NEW d \in Int
  PROVE  /\ Min({a, b, c, d}) \in Int /\ Max({a, b, c, d}) \in Int
         /\ \A y \in {a, b, c, d} : Min({a, b, c, d}) <= y /\ y <= Max({a, b, c, d})
<1> DEFINE S == {a, b, c, d}
<1>1. \E x \in S : \A y \in S : x <= y
  <2>1. \A u, v \in Int : \E w \in {u, v} : w <= u /\ w <= v
    OBVIOUS
  <2>2. PICK u \in {a, b} : u <= a /\ u <= b
    BY <2>1
  <2>3. PICK v \in {c, d} : v <= c /\ v <= d
    BY <2>1
  <2>4. PICK w \in {u, v} : w <= u /\ w <= v
    BY <2>1, <2>2, <2>3
  <2>5. w \in S /\ w <= a /\ w <= b /\ w <= c /\ w <= d
    BY <2>2, <2>3, <2>4
  <2> QED BY <2>5
<1>2. \E x \in S : \A y \in S : x >= y
  <2>1. \A u, v \in Int : \E w \in {u, v} : w >= u /\ w >= v
    OBVIOUS
  <2>2. PICK u \in {a, b} : u >= a /\ u >= b
    BY <2>1
  <2>3. PICK v \in {c, d} : v >= c /\ v >= d
    BY <2>1
  <2>4. PICK w \in {u, v} : w >= u /\ w >= v
    BY <2>1, <2>2, <2>3
  <2>5. w \in S /\ w >= a /\ w >= b /\ w >= c /\ w >= d
    BY <2>2, <2>3, <2>4
  <2> QED BY <2>5
<1>3. Min(S) \in S /\ \A y \in S : Min(S) <= y
  <2> HIDE DEF S
  <2> QED BY <1>1 DEF Min
<1>4. Max(S) \in S /\ \A y \in S : y <= Max(S)
  <2>1. Max(S) \in S /\ \A y \in S : Max(S) >= y
    <3> HIDE DEF S
    <3> QED BY <1>2 DEF Max
  <2> QED BY <2>1
<1> QED BY <1>3, <1>4

\* An interval around sets of numbers.
LEMMA BetweenEncloses ==
  ASSUME NEW lows, NEW highs, Min(lows) \in Int, Max(highs) \in Int,
         NEW x, x = Between(lows, highs)
  PROVE  x.lo \in Int /\ x.lo <= Min(lows) /\ x.hi \in Int /\ Max(highs) <= x.hi
<1>1. x.lo = Down(Min(lows)) /\ x.hi = Up(Max(highs))
  BY DEF Between
<1> QED BY <1>1, Rounds

\* An interval around four products or quotients.
LEMMA BetweenFour ==
  ASSUME NEW f, NEW g, \A i \in 1..4 : f[i] \in Int /\ g[i] \in Int,
         NEW p, p = Between({f[1], f[2], f[3], f[4]}, {g[1], g[2], g[3], g[4]})
  PROVE  /\ p.lo \in Int /\ \A i \in 1..4 : p.lo <= f[i]
         /\ p.hi \in Int /\ \A i \in 1..4 : g[i] <= p.hi
<1> DEFINE lows == {f[1], f[2], f[3], f[4]}
           highs == {g[1], g[2], g[3], g[4]}
<1>0. /\ f[1] \in Int /\ f[2] \in Int /\ f[3] \in Int /\ f[4] \in Int
      /\ g[1] \in Int /\ g[2] \in Int /\ g[3] \in Int /\ g[4] \in Int
  OBVIOUS
<1>1. Min(lows) \in Int /\ \A q \in lows : Min(lows) <= q /\ q <= Max(lows)
  BY <1>0, FourExtremes
<1>2. Max(highs) \in Int /\ \A q \in highs : Min(highs) <= q /\ q <= Max(highs)
  BY <1>0, FourExtremes
<1>3. \A i \in 1..4 : f[i] \in lows /\ g[i] \in highs
  OBVIOUS
<1>4. p = Between(lows, highs)
  OBVIOUS
<1> HIDE DEF lows, highs
<1>5. p.lo \in Int /\ p.lo <= Min(lows) /\ p.hi \in Int /\ Max(highs) <= p.hi
  BY <1>1, <1>2, <1>4, BetweenEncloses
<1> QED BY <1>1, <1>2, <1>3, <1>5

\* A thin interval contains its number.
LEMMA ThinEncloses ==
  ASSUME NEW n \in Int
  PROVE  Encloses(Thin(n), n, 1)
BY DEF Thin, Encloses

\* A common factor cancels.
LEMMA Cancelled ==
  ASSUME NEW x, NEW n \in Int, NEW d \in Nat \ {0}, NEW c \in Nat \ {0},
         Encloses(x, n * c, d * c)
  PROVE  Encloses(x, n, d)
<1>1. ASSUME NEW u \in Int, NEW v \in Int, u * c <= v * c PROVE u <= v
  <2> SUFFICES ASSUME u >= v + 1 PROVE FALSE
    OBVIOUS
  <2>1. (v + 1) * c <= u * c
    BY Monotone
  <2>2. (v + 1) * c = v * c + c
    OBVIOUS
  <2>3. v * c \in Int /\ u * c \in Int
    OBVIOUS
  <2> QED BY <1>1, <2>1, <2>2, <2>3
<1>2. x.lo \in Int /\ x.hi \in Int /\ x.lo * (d * c) <= n * c /\ n * c <= x.hi * (d * c)
  BY DEF Encloses
<1>3. x.lo * (d * c) = (x.lo * d) * c /\ x.hi * (d * c) = (x.hi * d) * c
  BY <1>2
<1>4. x.lo * d \in Int /\ x.hi * d \in Int
  BY <1>2
<1>5. x.lo * d <= n
  BY <1>1, <1>2, <1>3, <1>4
<1>6. n <= x.hi * d
  BY <1>1, <1>2, <1>3, <1>4
<1> QED BY <1>2, <1>5, <1>6 DEF Encloses

\* Sums and differences.
LEMMA PlusEncloses ==
  ASSUME NEW x, NEW n \in Int, NEW d \in Nat \ {0}, Encloses(x, n, d),
         NEW y, NEW m \in Int, NEW k \in Nat \ {0}, Encloses(y, m, k)
  PROVE  /\ Encloses(Plus(x, y), n * k + m * d, d * k)
         /\ Encloses(Minus(x, y), n * k - m * d, d * k)
<1>1. /\ x.lo \in Int /\ x.hi \in Int /\ x.lo * d <= n /\ n <= x.hi * d
      /\ y.lo \in Int /\ y.hi \in Int /\ y.lo * k <= m /\ m <= y.hi * k
  BY DEF Encloses
<1>2. ASSUME NEW a \in Int, NEW b \in Int, NEW l \in Int, NEW u \in Int, NEW v \in Int,
             l <= a + b, a * d <= u, b * k <= v
      PROVE  l * (d * k) <= u * k + v * d
  <2>1. l * (d * k) <= (a + b) * (d * k)
    <3>1. d * k \in Int /\ d * k >= 0
      OBVIOUS
    <3> QED BY <1>2, <3>1, Monotone
  <2>2. (a + b) * (d * k) = (a * d) * k + (b * k) * d
    OBVIOUS
  <2>3. (a * d) * k <= u * k /\ (b * k) * d <= v * d
    <3>1. a * d \in Int /\ b * k \in Int
      OBVIOUS
    <3> QED BY <1>2, <3>1, Monotone
  <2>4. /\ l * (d * k) \in Int /\ (a * d) * k \in Int /\ (b * k) * d \in Int
        /\ u * k \in Int /\ v * d \in Int
    OBVIOUS
  <2> QED BY <2>1, <2>2, <2>3, <2>4
<1>3. ASSUME NEW a \in Int, NEW b \in Int, NEW h \in Int, NEW u \in Int, NEW v \in Int,
             a + b <= h, u <= a * d, v <= b * k
      PROVE  u * k + v * d <= h * (d * k)
  <2>1. (-h) * (d * k) <= (-u) * k + (-v) * d
    <3>1. /\ (-a) * d = -(a * d) /\ (-b) * k = -(b * k) /\ a * d \in Int /\ b * k \in Int
          /\ -a \in Int /\ -b \in Int /\ -h \in Int /\ -u \in Int /\ -v \in Int
      OBVIOUS
    <3>2. -h <= (-a) + (-b) /\ (-a) * d <= -u /\ (-b) * k <= -v
      BY <1>3, <3>1
    <3> QED BY <1>2, <3>1, <3>2
  <2>2. /\ (-h) * (d * k) = -(h * (d * k)) /\ (-u) * k = -(u * k) /\ (-v) * d = -(v * d)
        /\ h * (d * k) \in Int /\ u * k \in Int /\ v * d \in Int
    OBVIOUS
  <2> QED BY <2>1, <2>2
<1>4. Encloses(Plus(x, y), n * k + m * d, d * k)
  <2> DEFINE p == Plus(x, y)
  <2>1. p.lo \in Int /\ p.lo <= x.lo + y.lo /\ p.hi \in Int /\ x.hi + y.hi <= p.hi
    BY <1>1, Rounds DEF Plus
  <2> HIDE DEF p
  <2>2. p.lo * (d * k) <= n * k + m * d
    BY <1>1, <1>2, <2>1
  <2>3. n * k + m * d <= p.hi * (d * k)
    BY <1>1, <1>3, <2>1
  <2> QED BY <2>1, <2>2, <2>3 DEF Encloses, p
<1>5. Encloses(Minus(x, y), n * k - m * d, d * k)
  <2> DEFINE p == Minus(x, y)
  <2>1. p.lo \in Int /\ p.lo <= x.lo + (-y.hi) /\ p.hi \in Int /\ x.hi + (-y.lo) <= p.hi
    BY <1>1, Rounds DEF Minus
  <2>2. /\ -y.lo \in Int /\ -y.hi \in Int /\ (-y.hi) * k <= -m /\ -m <= (-y.lo) * k
    <3>1. (-y.hi) * k = -(y.hi * k) /\ (-y.lo) * k = -(y.lo * k) /\ y.hi * k \in Int /\ y.lo * k \in Int
      BY <1>1
    <3> QED BY <1>1, <3>1
  <2>3. n * k - m * d = n * k + (-m) * d /\ -m \in Int
    OBVIOUS
  <2> HIDE DEF p
  <2>4. p.lo * (d * k) <= n * k + (-m) * d
    <3> DEFINE b == -y.hi
               v == -m
    <3>1. b \in Int /\ v \in Int /\ p.lo <= x.lo + b /\ b * k <= v
      BY <2>1, <2>2, <2>3
    <3> HIDE DEF b, v
    <3>2. p.lo * (d * k) <= n * k + v * d
      BY <1>1, <1>2, <2>1, <3>1
    <3> QED BY <3>2 DEF v
  <2>5. n * k + (-m) * d <= p.hi * (d * k)
    <3> DEFINE b == -y.lo
               v == -m
    <3>1. b \in Int /\ v \in Int /\ x.hi + b <= p.hi /\ v <= b * k
      BY <2>1, <2>2, <2>3
    <3> HIDE DEF b, v
    <3>2. n * k + v * d <= p.hi * (d * k)
      BY <1>1, <1>3, <2>1, <3>1
    <3> QED BY <3>2 DEF v
  <2> QED BY <2>1, <2>3, <2>4, <2>5 DEF Encloses, p
<1> QED BY <1>4, <1>5

\* The unit.
LEMMA UnitPositive == Unit \in Nat \ {0} /\ Unit \in Int /\ Unit # 0 /\ Unit > 0
<1>1. \A q \in Nat \ {0} : q * q \in Nat \ {0}
  OBVIOUS
<1>2. Unit \in Nat \ {0}
  BY <1>1, WitnessAssumption DEF Unit
<1> QED BY <1>2

\* Products.
LEMMA TimesEncloses ==
  ASSUME NEW x, NEW n \in Int, NEW d \in Nat \ {0}, Encloses(x, n, d),
         NEW y, NEW m \in Int, NEW k \in Nat \ {0}, Encloses(y, m, k)
  PROVE  Encloses(Times(x, y), n * m, Unit * (d * k))
<1>0. Unit \in Nat \ {0} /\ Unit \in Int /\ Unit # 0 /\ Unit > 0
  BY UnitPositive
<1> DEFINE a == x.lo
           b == x.hi
           c == y.lo
           e == y.hi
           p == Times(x, y)
<1>1. /\ a \in Int /\ b \in Int /\ a * d <= n /\ n <= b * d
      /\ c \in Int /\ e \in Int /\ c * k <= m /\ m <= e * k
  BY DEF Encloses
<1>2. p = Between({FloorDiv(a * c, Unit), FloorDiv(a * e, Unit), FloorDiv(b * c, Unit), FloorDiv(b * e, Unit)},
                  {CeilDiv(a * c, Unit), CeilDiv(a * e, Unit), CeilDiv(b * c, Unit), CeilDiv(b * e, Unit)})
  <2> DEFINE products == {u * v : u \in Ends(x), v \in Ends(y)}
  <2>1. products = {a * c, a * e, b * c, b * e}
    BY DEF Ends
  <2>2. p = Between({FloorDiv(q, Unit) : q \in products}, {CeilDiv(q, Unit) : q \in products})
    BY DEF Times
  <2> HIDE DEF products, a, b, c, e, p
  <2>3. /\ {FloorDiv(q, Unit) : q \in products} =
             {FloorDiv(a * c, Unit), FloorDiv(a * e, Unit), FloorDiv(b * c, Unit), FloorDiv(b * e, Unit)}
        /\ {CeilDiv(q, Unit) : q \in products} =
             {CeilDiv(a * c, Unit), CeilDiv(a * e, Unit), CeilDiv(b * c, Unit), CeilDiv(b * e, Unit)}
    BY <2>1
  <2> QED BY <2>2, <2>3
<1> HIDE DEF a, b, c, e, p
<1>3. ASSUME NEW q \in Int
      PROVE  /\ FloorDiv(q, Unit) \in Int /\ CeilDiv(q, Unit) \in Int
             /\ FloorDiv(q, Unit) * Unit <= q /\ q <= CeilDiv(q, Unit) * Unit
  <2> DEFINE u == Unit
  <2>1. u \in Int /\ u # 0 /\ u > 0
    BY <1>0
  <2> HIDE DEF u
  <2>2. /\ FloorDiv(q, u) \in Int /\ CeilDiv(q, u) \in Int
        /\ FloorDiv(q, u) * u <= q /\ q <= CeilDiv(q, u) * u
    BY <2>1, Quotients
  <2> QED BY <2>2 DEF u
<1>4. a * c \in Int /\ a * e \in Int /\ b * c \in Int /\ b * e \in Int
  BY <1>1
<1>5. /\ p.lo \in Int
      /\ p.lo <= FloorDiv(a * c, Unit) /\ p.lo <= FloorDiv(a * e, Unit)
      /\ p.lo <= FloorDiv(b * c, Unit) /\ p.lo <= FloorDiv(b * e, Unit)
      /\ p.hi \in Int
      /\ CeilDiv(a * c, Unit) <= p.hi /\ CeilDiv(a * e, Unit) <= p.hi
      /\ CeilDiv(b * c, Unit) <= p.hi /\ CeilDiv(b * e, Unit) <= p.hi
  <2> DEFINE f == <<FloorDiv(a * c, Unit), FloorDiv(a * e, Unit), FloorDiv(b * c, Unit), FloorDiv(b * e, Unit)>>
             g == <<CeilDiv(a * c, Unit), CeilDiv(a * e, Unit), CeilDiv(b * c, Unit), CeilDiv(b * e, Unit)>>
  <2>1. \A i \in 1..4 : f[i] \in Int /\ g[i] \in Int
    BY <1>3, <1>4
  <2>2. p = Between({f[1], f[2], f[3], f[4]}, {g[1], g[2], g[3], g[4]})
    BY <1>2
  <2>3. /\ p.lo \in Int /\ \A i \in 1..4 : p.lo <= f[i]
        /\ p.hi \in Int /\ \A i \in 1..4 : g[i] <= p.hi
    <3> HIDE DEF f, g
    <3> QED BY <2>1, <2>2, BetweenFour
  <2> QED BY <2>3
<1>6. ASSUME NEW q \in Int
      PROVE  /\ p.lo <= FloorDiv(q, Unit) => p.lo * Unit <= q
             /\ CeilDiv(q, Unit) <= p.hi => q <= p.hi * Unit
  <2> DEFINE f == FloorDiv(q, Unit)
             g == CeilDiv(q, Unit)
  <2>1. f \in Int /\ g \in Int /\ f * Unit <= q /\ q <= g * Unit
    BY <1>3
  <2> HIDE DEF f, g
  <2>2. p.lo <= f => p.lo * Unit <= f * Unit
    BY <1>0, <1>5, <2>1, Monotone
  <2>3. g <= p.hi => g * Unit <= p.hi * Unit
    BY <1>0, <1>5, <2>1, Monotone
  <2>4. /\ p.lo * Unit \in Int /\ f * Unit \in Int /\ g * Unit \in Int /\ p.hi * Unit \in Int
    BY <1>0, <1>5, <2>1
  <2>5. /\ p.lo <= f => p.lo * Unit <= q
        /\ g <= p.hi => q <= p.hi * Unit
    BY <2>1, <2>2, <2>3, <2>4
  <2> QED BY <2>5 DEF f, g
<1> DEFINE l == p.lo * Unit
           h == p.hi * Unit
<1>7. l \in Int /\ l <= a * c /\ l <= a * e /\ l <= b * c /\ l <= b * e
  BY <1>0, <1>4, <1>5, <1>6
<1>8. h \in Int /\ a * c <= h /\ a * e <= h /\ b * c <= h /\ b * e <= h
  BY <1>0, <1>4, <1>5, <1>6
<1> HIDE DEF l, h
<1>9. l * (d * k) <= n * m
  BY <1>1, <1>7, ProductAbove
<1>10. (-h) * (d * k) <= (-n) * m
  <2> DEFINE a1 == -b
             b1 == -a
             n1 == -n
             l1 == -h
  <2>1. /\ a1 \in Int /\ b1 \in Int /\ n1 \in Int /\ l1 \in Int
        /\ a1 * d <= n1 /\ n1 <= b1 * d
    <3>1. a1 * d = -(b * d) /\ b1 * d = -(a * d) /\ a * d \in Int /\ b * d \in Int
      BY <1>1
    <3> QED BY <1>1, <1>8, <3>1
  <2>2. l1 <= a1 * c /\ l1 <= a1 * e /\ l1 <= b1 * c /\ l1 <= b1 * e
    <3>1. a1 * c = -(b * c) /\ a1 * e = -(b * e) /\ b1 * c = -(a * c) /\ b1 * e = -(a * e)
      BY <1>1
    <3> QED BY <1>4, <1>8, <3>1
  <2> HIDE DEF a1, b1, n1, l1
  <2>3. l1 * (d * k) <= n1 * m
    BY <1>1, <2>1, <2>2, ProductAbove
  <2> QED BY <2>3 DEF l1, n1
<1>11. n * m <= h * (d * k)
  <2>1. /\ (-h) * (d * k) = -(h * (d * k)) /\ (-n) * m = -(n * m)
        /\ h * (d * k) \in Int /\ n * m \in Int
    BY <1>8
  <2> QED BY <1>10, <2>1
<1>12. l * (d * k) = p.lo * (Unit * (d * k)) /\ h * (d * k) = p.hi * (Unit * (d * k))
  <2>1. ASSUME NEW u \in Int, NEW v \in Int, NEW w \in Int PROVE (u * v) * w = u * (v * w)
    OBVIOUS
  <2>2. d * k \in Int
    OBVIOUS
  <2> QED BY <1>0, <1>5, <2>1, <2>2 DEF l, h
<1>13. p.lo * (Unit * (d * k)) <= n * m /\ n * m <= p.hi * (Unit * (d * k))
  BY <1>9, <1>11, <1>12
<1> QED BY <1>5, <1>13 DEF Encloses, p

\* A quotient by a positive quantity is at least the least quotient of the ends.
LEMMA QuotientAbove ==
  ASSUME NEW a \in Int, NEW c \in Nat \ {0}, NEW e \in Int,
         NEW n \in Int, NEW m \in Int, NEW d \in Nat \ {0}, NEW k \in Nat \ {0},
         a * d <= n, c * k <= m, m <= e * k,
         NEW l \in Int, l * c <= a, l * e <= a
  PROVE  l * (d * m) <= n * k
<1>1. (a * d) * k <= n * k
  <2>1. a * d \in Int
    OBVIOUS
  <2> QED BY <2>1, Monotone
<1>2. CASE l >= 0
  <2>1. m * (l * d) <= (e * k) * (l * d)
    <3>1. l * d \in Int /\ l * d >= 0 /\ e * k \in Int
      BY <1>2
    <3> QED BY <3>1, Monotone
  <2>2. (l * e) * (d * k) <= a * (d * k)
    <3>1. l * e \in Int /\ d * k \in Int /\ d * k >= 0
      OBVIOUS
    <3> QED BY <3>1, Monotone
  <2>3. /\ m * (l * d) = l * (d * m) /\ (e * k) * (l * d) = (l * e) * (d * k)
        /\ a * (d * k) = (a * d) * k
    OBVIOUS
  <2>4. l * (d * m) \in Int /\ (l * e) * (d * k) \in Int /\ (a * d) * k \in Int /\ n * k \in Int
    OBVIOUS
  <2> QED BY <1>1, <2>1, <2>2, <2>3, <2>4
<1>3. CASE l < 0
  <2>1. (c * k) * ((-l) * d) <= m * ((-l) * d)
    <3>1. (-l) * d \in Int /\ (-l) * d >= 0 /\ c * k \in Int
      BY <1>3
    <3> QED BY <3>1, Monotone
  <2>2. (l * c) * (d * k) <= a * (d * k)
    <3>1. l * c \in Int /\ d * k \in Int /\ d * k >= 0
      OBVIOUS
    <3> QED BY <3>1, Monotone
  <2>3. /\ m * ((-l) * d) = -(l * (d * m)) /\ (c * k) * ((-l) * d) = -((l * c) * (d * k))
        /\ a * (d * k) = (a * d) * k
    OBVIOUS
  <2>4. l * (d * m) \in Int /\ (l * c) * (d * k) \in Int /\ (a * d) * k \in Int /\ n * k \in Int
    OBVIOUS
  <2> QED BY <1>1, <2>1, <2>2, <2>3, <2>4
<1> QED BY <1>2, <1>3

\* What a number below the rounded quotient is, times the divisor.
LEMMA BelowQuotient ==
  ASSUME NEW q \in Int, NEW s \in Int, s # 0, NEW v \in Int
  PROVE  /\ v <= FloorDiv(q, s) => (s > 0 => v * s <= q) /\ (s < 0 => q <= v * s)
         /\ CeilDiv(q, s) <= v => (s > 0 => q <= v * s) /\ (s < 0 => v * s <= q)
<1> DEFINE f == FloorDiv(q, s)
           g == CeilDiv(q, s)
<1>1. /\ f \in Int /\ g \in Int
      /\ s > 0 => f * s <= q /\ q <= g * s
      /\ s < 0 => f * s >= q /\ q >= g * s
  BY Quotients
<1> HIDE DEF f, g
<1>2. CASE s > 0
  <2>1. (v <= f => v * s <= f * s) /\ (g <= v => g * s <= v * s)
    BY <1>1, <1>2, Monotone
  <2>2. v * s \in Int /\ f * s \in Int /\ g * s \in Int
    BY <1>1
  <2>3. (v <= f => v * s <= q) /\ (g <= v => q <= v * s)
    BY <1>1, <1>2, <2>1, <2>2
  <2> QED BY <1>2, <2>3 DEF f, g
<1>3. CASE s < 0
  <2>1. (v <= f => v * (-s) <= f * (-s)) /\ (g <= v => g * (-s) <= v * (-s))
    BY <1>1, <1>3, Monotone
  <2>2. /\ v * s \in Int /\ f * s \in Int /\ g * s \in Int
        /\ v * (-s) = -(v * s) /\ f * (-s) = -(f * s) /\ g * (-s) = -(g * s)
    BY <1>1
  <2>3. (v <= f => q <= v * s) /\ (g <= v => v * s <= q)
    BY <1>1, <1>3, <2>1, <2>2
  <2> QED BY <1>3, <2>3 DEF f, g
<1> QED BY <1>2, <1>3

\* Negative numbers as factors.
LEMMA Negated ==
  ASSUME NEW u \in Int, NEW v \in Int
  PROVE  /\ u * v \in Int
         /\ (-u) * v = -(u * v) /\ u * (-v) = -(u * v) /\ (-u) * (-v) = u * v
OBVIOUS

\* Quotients: what is divided by is not 0.
LEMMA OverEncloses ==
  ASSUME NEW x, NEW n \in Int, NEW d \in Nat \ {0}, Encloses(x, n, d),
         NEW y, NEW m \in Int, NEW k \in Nat \ {0}, Encloses(y, m, k), ~ContainsZero(y)
  PROVE  /\ m # 0
         /\ m > 0 => Encloses(Over(x, y), (n * Unit) * k, d * m)
         /\ m < 0 => Encloses(Over(x, y), (-(n * Unit)) * k, d * (-m))
<1>0. Unit \in Nat \ {0} /\ Unit \in Int /\ Unit # 0 /\ Unit > 0
  BY UnitPositive
<1> DEFINE c == y.lo
           e == y.hi
           A == x.lo * Unit
           B == x.hi * Unit
           nn == n * Unit
           p == Over(x, y)
<1>1. /\ x.lo \in Int /\ x.hi \in Int /\ x.lo * d <= n /\ n <= x.hi * d
      /\ c \in Int /\ e \in Int /\ c * k <= m /\ m <= e * k
  BY DEF Encloses
<1>2. A \in Int /\ B \in Int /\ nn \in Int /\ A * d <= nn /\ nn <= B * d
  <2>1. (x.lo * d) * Unit <= n * Unit /\ n * Unit <= (x.hi * d) * Unit
    <3>1. x.lo * d \in Int /\ x.hi * d \in Int
      BY <1>1
    <3> QED BY <1>0, <1>1, <3>1, Monotone
  <2>2. (x.lo * d) * Unit = A * d /\ (x.hi * d) * Unit = B * d
    <3>1. ASSUME NEW u \in Int, NEW v \in Int, NEW w \in Int PROVE (u * v) * w = (u * w) * v
      OBVIOUS
    <3> QED BY <1>0, <1>1, <3>1
  <2> QED BY <1>0, <1>1, <2>1, <2>2
<1>3. (c > 0 /\ e > 0 /\ m > 0) \/ (c < 0 /\ e < 0 /\ m < 0)
  <2>1. c > 0 \/ e < 0
    BY <1>1 DEF ContainsZero
  <2>2. ASSUME NEW u \in Int PROVE /\ u > 0 => u * k > 0
                                   /\ u <= 0 => u * k <= 0
                                   /\ u < 0 => u * k < 0
                                   /\ u >= 0 => u * k >= 0
    OBVIOUS
  <2>3. c * k \in Int /\ e * k \in Int
    BY <1>1
  <2> HIDE DEF c, e
  <2>4. CASE c > 0
    <3>1. c * k > 0 /\ m > 0 /\ e * k > 0
      BY <1>1, <2>2, <2>3, <2>4
    <3>2. e > 0
      BY <1>1, <2>2, <2>3, <3>1
    <3> QED BY <1>1, <2>4, <3>1, <3>2
  <2>5. CASE e < 0
    <3>1. e * k < 0 /\ m < 0 /\ c * k < 0
      BY <1>1, <2>2, <2>3, <2>5
    <3>2. c < 0
      BY <1>1, <2>2, <2>3, <3>1
    <3> QED BY <1>1, <2>5, <3>1, <3>2
  <2> QED BY <2>1, <2>4, <2>5
<1>4. p = Between({FloorDiv(A, c), FloorDiv(A, e), FloorDiv(B, c), FloorDiv(B, e)},
                  {CeilDiv(A, c), CeilDiv(A, e), CeilDiv(B, c), CeilDiv(B, e)})
  <2> DEFINE lows == {FloorDiv(u * Unit, v) : u \in Ends(x), v \in Ends(y)}
             highs == {CeilDiv(u * Unit, v) : u \in Ends(x), v \in Ends(y)}
  <2>1. p = Between(lows, highs)
    BY DEF Over
  <2>2. Ends(x) = {x.lo, x.hi} /\ Ends(y) = {c, e}
    BY DEF Ends
  <2> HIDE DEF c, e, p
  <2>3. lows = {FloorDiv(A, c), FloorDiv(A, e), FloorDiv(B, c), FloorDiv(B, e)}
    BY <2>2
  <2>4. highs = {CeilDiv(A, c), CeilDiv(A, e), CeilDiv(B, c), CeilDiv(B, e)}
    BY <2>2
  <2> HIDE DEF lows, highs, A, B
  <2> QED BY <2>1, <2>3, <2>4
<1> HIDE DEF c, e, A, B, nn, p
<1>5. ASSUME NEW q \in Int, NEW s \in Int, s # 0
      PROVE  FloorDiv(q, s) \in Int /\ CeilDiv(q, s) \in Int
  BY <1>5, Quotients
<1>6. c # 0 /\ e # 0
  BY <1>3
<1>7. /\ p.lo \in Int
      /\ p.lo <= FloorDiv(A, c) /\ p.lo <= FloorDiv(A, e)
      /\ p.lo <= FloorDiv(B, c) /\ p.lo <= FloorDiv(B, e)
      /\ p.hi \in Int
      /\ CeilDiv(A, c) <= p.hi /\ CeilDiv(A, e) <= p.hi
      /\ CeilDiv(B, c) <= p.hi /\ CeilDiv(B, e) <= p.hi
  <2> DEFINE f == <<FloorDiv(A, c), FloorDiv(A, e), FloorDiv(B, c), FloorDiv(B, e)>>
             g == <<CeilDiv(A, c), CeilDiv(A, e), CeilDiv(B, c), CeilDiv(B, e)>>
  <2>1. \A i \in 1..4 : f[i] \in Int /\ g[i] \in Int
    <3>1. /\ FloorDiv(A, c) \in Int /\ FloorDiv(A, e) \in Int
          /\ FloorDiv(B, c) \in Int /\ FloorDiv(B, e) \in Int
      BY <1>1, <1>2, <1>5, <1>6
    <3>2. /\ CeilDiv(A, c) \in Int /\ CeilDiv(A, e) \in Int
          /\ CeilDiv(B, c) \in Int /\ CeilDiv(B, e) \in Int
      BY <1>1, <1>2, <1>5, <1>6
    <3> QED BY <3>1, <3>2
  <2>2. p = Between({f[1], f[2], f[3], f[4]}, {g[1], g[2], g[3], g[4]})
    BY <1>4
  <2>3. /\ p.lo \in Int /\ \A i \in 1..4 : p.lo <= f[i]
        /\ p.hi \in Int /\ \A i \in 1..4 : g[i] <= p.hi
    <3> HIDE DEF f, g
    <3> QED BY <2>1, <2>2, BetweenFour
  <2> QED BY <2>3
<1> DEFINE lo == p.lo
           hi == p.hi
<1>8. lo \in Int /\ hi \in Int
  BY <1>7
<1>9. ASSUME NEW q \in {A, B}, NEW s \in {c, e}
      PROVE  /\ s > 0 => lo * s <= q /\ q <= hi * s
             /\ s < 0 => q <= lo * s /\ hi * s <= q
  <2>1. q \in Int /\ s \in Int /\ s # 0
    BY <1>1, <1>2, <1>6
  <2>2. lo <= FloorDiv(q, s) /\ CeilDiv(q, s) <= hi
    BY <1>7
  <2> HIDE DEF lo, hi
  <2> QED BY <1>8, <2>1, <2>2, BelowQuotient
<1> HIDE DEF lo, hi
<1>10. CASE c > 0 /\ e > 0 /\ m > 0
  <2>1. lo * c <= A /\ lo * e <= A /\ B <= hi * c /\ B <= hi * e
    BY <1>9, <1>10
  <2>2. lo * (d * m) <= nn * k
    BY <1>1, <1>2, <1>8, <1>10, <2>1, QuotientAbove
  <2>3. (-hi) * (d * m) <= (-nn) * k
    <3> DEFINE a1 == -B
               n1 == -nn
               l1 == -hi
    <3>1. a1 \in Int /\ n1 \in Int /\ l1 \in Int /\ a1 * d <= n1 /\ l1 * c <= a1 /\ l1 * e <= a1
      <4>1. a1 * d = -(B * d) /\ l1 * c = -(hi * c) /\ l1 * e = -(hi * e)
        BY <1>1, <1>2, <1>8, Negated
      <4>2. B * d \in Int /\ hi * c \in Int /\ hi * e \in Int
        BY <1>1, <1>2, <1>8
      <4> QED BY <1>2, <1>8, <2>1, <4>1, <4>2
    <3> HIDE DEF a1, n1, l1
    <3>2. l1 * (d * m) <= n1 * k
      BY <1>1, <1>10, <3>1, QuotientAbove
    <3> QED BY <3>2 DEF l1, n1
  <2>4. nn * k <= hi * (d * m)
    <3>1. d * m \in Int
      OBVIOUS
    <3>2. /\ (-hi) * (d * m) = -(hi * (d * m)) /\ (-nn) * k = -(nn * k)
          /\ hi * (d * m) \in Int /\ nn * k \in Int
      BY <1>2, <1>8, <3>1, Negated
    <3> QED BY <2>3, <3>2
  <2>5. Encloses(p, nn * k, d * m)
    BY <1>8, <2>2, <2>4 DEF Encloses, lo, hi
  <2> QED BY <1>10, <2>5 DEF p, nn
<1>11. CASE c < 0 /\ e < 0 /\ m < 0
  <2> DEFINE c1 == -e
             e1 == -c
             m1 == -m
  <2>1. B <= lo * c /\ B <= lo * e /\ hi * c <= A /\ hi * e <= A
    BY <1>9, <1>11
  <2>2. c1 \in Nat \ {0} /\ e1 \in Int /\ m1 \in Int /\ c1 * k <= m1 /\ m1 <= e1 * k
    <3>1. c1 * k = -(e * k) /\ e1 * k = -(c * k) /\ e * k \in Int /\ c * k \in Int
      BY <1>1, Negated
    <3> QED BY <1>1, <1>11, <3>1
  <2>3. lo * c1 = -(lo * e) /\ lo * e1 = -(lo * c) /\ (-hi) * c1 = hi * e /\ (-hi) * e1 = hi * c
    BY <1>1, <1>8, Negated
  <2>4. lo * e \in Int /\ lo * c \in Int /\ hi * e \in Int /\ hi * c \in Int
    BY <1>1, <1>8
  <2> HIDE DEF c1, e1, m1
  <2>5. lo * (d * m1) <= (-nn) * k
    <3> DEFINE a1 == -B
               n1 == -nn
    <3>1. a1 \in Int /\ n1 \in Int /\ a1 * d <= n1 /\ lo * c1 <= a1 /\ lo * e1 <= a1
      <4>1. a1 * d = -(B * d) /\ B * d \in Int
        BY <1>2, Negated
      <4> QED BY <1>2, <2>1, <2>3, <2>4, <4>1
    <3> HIDE DEF a1, n1
    <3>2. lo * (d * m1) <= n1 * k
      BY <1>8, <2>2, <3>1, QuotientAbove
    <3> QED BY <3>2 DEF n1
  <2>6. (-hi) * (d * m1) <= nn * k
    <3> DEFINE l1 == -hi
    <3>1. l1 \in Int /\ l1 * c1 <= A /\ l1 * e1 <= A
      BY <1>8, <2>1, <2>3
    <3> HIDE DEF l1
    <3>2. l1 * (d * m1) <= nn * k
      BY <1>2, <2>2, <3>1, QuotientAbove
    <3> QED BY <3>2 DEF l1
  <2>7. (-nn) * k <= hi * (d * m1)
    <3>1. d * m1 \in Int
      BY <2>2
    <3>2. /\ (-hi) * (d * m1) = -(hi * (d * m1)) /\ (-nn) * k = -(nn * k)
          /\ hi * (d * m1) \in Int /\ nn * k \in Int
      BY <1>2, <1>8, <3>1, Negated
    <3> QED BY <2>6, <3>2
  <2>8. Encloses(p, (-nn) * k, d * m1)
    BY <1>8, <2>5, <2>7 DEF Encloses, lo, hi
  <2> QED BY <1>11, <2>8 DEF p, nn, m1
<1> QED BY <1>3, <1>10, <1>11

\* Absolute values.
LEMMA MagnitudeEncloses ==
  ASSUME NEW x, NEW n \in Int, NEW d \in Nat \ {0}, Encloses(x, n, d)
  PROVE  Encloses(Magnitude(x), Abs(n), d)
<1>1. x.lo \in Int /\ x.hi \in Int /\ x.lo * d <= n /\ n <= x.hi * d
  BY DEF Encloses
<1>2. /\ (-x.lo) * d = -(x.lo * d) /\ (-x.hi) * d = -(x.hi * d)
      /\ x.lo * d \in Int /\ x.hi * d \in Int /\ 0 * d = 0
  BY <1>1, Negated
<1>3. CASE ContainsZero(x)
  <2> DEFINE a == -x.lo
             b == x.hi
             h == Max({a, b})
  <2>1. \E u \in {a, b} : \A v \in {a, b} : u >= v
    BY <1>1
  <2>2. h \in {a, b} /\ h >= a /\ h >= b
    <3>1. h \in {a, b} /\ \A v \in {a, b} : h >= v
      <4> DEFINE S == {a, b}
      <4> HIDE DEF S
      <4>1. Max(S) \in S /\ \A v \in S : Max(S) >= v
        BY <2>1 DEF Max, S
      <4> QED BY <4>1 DEF S
    <3> HIDE DEF h
    <3> QED BY <3>1
  <2>3. Magnitude(x) = [lo |-> 0, hi |-> h]
    BY <1>3 DEF Magnitude
  <2> HIDE DEF h
  <2>4. h \in Int
    BY <1>1, <2>2
  <2>5. a * d <= h * d /\ b * d <= h * d /\ h * d \in Int
    <3>1. a \in Int /\ b \in Int
      BY <1>1
    <3> HIDE DEF a, b
    <3> QED BY <2>2, <2>4, <3>1, Monotone
  <2>6. Abs(n) \in Nat /\ Abs(n) <= h * d
    BY <1>1, <1>2, <2>5 DEF Abs
  <2> QED BY <1>2, <2>3, <2>4, <2>6 DEF Encloses
<1>4. CASE ~ContainsZero(x)
  <2>1. CASE x.lo > 0
    <3>1. x.lo * d >= 0
      BY <1>1, <2>1
    <3>2. Abs(n) = n
      BY <1>1, <1>2, <3>1 DEF Abs
    <3> QED BY <1>4, <2>1, <3>2 DEF Magnitude
  <2>2. CASE ~(x.lo > 0)
    <3>1. x.hi < 0
      BY <1>1, <1>4, <2>2 DEF ContainsZero
    <3>2. x.hi * d <= 0
      BY <1>1, <3>1
    <3>3. Abs(n) = -n
      BY <1>1, <1>2, <3>2 DEF Abs
    <3>4. Magnitude(x) = [lo |-> -x.hi, hi |-> -x.lo]
      BY <1>4, <2>2 DEF Magnitude
    <3> QED BY <1>1, <1>2, <3>3, <3>4 DEF Encloses
  <2> QED BY <2>1, <2>2
<1> QED BY <1>3, <1>4

-----------------------------------------------------------------------------
(* Horner's rule, and the polynomial and its derivatives. *)
\* The values of Horner's rule.
LEMMA HornerRuns ==
  ASSUME NEW n \in 1..4, NEW cs, NEW factors, NEW z, Len(cs) = n
  PROVE  \E h : /\ PolyInterval(cs, factors, z) = h[n]
                /\ h[1] = Scaled(factors[n], cs[n])
                /\ \A k \in 2..n :
                     h[k] = Plus(Times(h[k - 1], z), Scaled(factors[n - k + 1], cs[n - k + 1]))
<1> DEFINE first == Scaled(factors[n], cs[n])
           rest(u, k) == Plus(Times(u, z), Scaled(factors[n - k + 1], cs[n - k + 1]))
           Body(h) == [k \in 1..n |-> IF k = 1 THEN first ELSE rest(h[k - 1], k)]
           run == CHOOSE h : h = Body(h)
<1>1. PolyInterval(cs, factors, z) = run[n]
  BY DEF PolyInterval
<1> HIDE DEF first, rest
<1>2. \E h : h = Body(h)
  <2> DEFINE v2 == rest(first, 2)
             v3 == rest(v2, 3)
             v4 == rest(v3, 4)
             g == [k \in 1..n |-> IF k = 1 THEN first ELSE IF k = 2 THEN v2
                                  ELSE IF k = 3 THEN v3 ELSE v4]
  <2>1. ASSUME NEW k \in 1..n
        PROVE  g[k] = IF k = 1 THEN first ELSE rest(g[k - 1], k)
    <3>1. CASE k = 1
      BY <3>1
    <3>2. CASE k = 2
      <4>1. g[1] = first /\ g[2] = v2 /\ 2 - 1 = 1
        BY <3>2
      <4> HIDE DEF g
      <4> QED BY <3>2, <4>1
    <3>3. CASE k = 3
      <4>1. g[2] = v2 /\ g[3] = v3 /\ 3 - 1 = 2
        BY <3>3
      <4> HIDE DEF g, v2
      <4> QED BY <3>3, <4>1
    <3>4. CASE k = 4
      <4>1. g[3] = v3 /\ g[4] = v4 /\ 4 - 1 = 3
        BY <3>4
      <4> HIDE DEF g, v2, v3
      <4> QED BY <3>4, <4>1
    <3> QED BY <3>1, <3>2, <3>3, <3>4
  <2>2. g = Body(g)
    <3> HIDE DEF v2, v3, v4
    <3>1. g = [k \in 1..n |-> g[k]]
      OBVIOUS
    <3> HIDE DEF g
    <3> QED BY <2>1, <3>1
  <2> QED BY <2>2
<1>3. run = Body(run)
  <2> HIDE DEF Body
  <2> QED BY <1>2
<1>4. run[1] = first /\ \A k \in 2..n : run[k] = rest(run[k - 1], k)
  <2> HIDE DEF run
  <2> QED BY <1>3
<1> HIDE DEF run
<1> QED BY <1>1, <1>4 DEF first, rest

\* A coefficient times the factor of a derivative.
LEMMA ScaledEncloses ==
  ASSUME NEW factor \in Int, NEW a \in Int
  PROVE  Encloses(Scaled(factor, a), factor * a, 1)
<1>1. Unit \in Nat \ {0} /\ Unit \in Int
  BY UnitPositive
<1>2. factor * Unit \in Int
  BY <1>1
<1>3. Encloses(Thin(factor * Unit), factor * Unit, 1) /\ Encloses(Thin(a), a, 1)
  BY <1>2, ThinEncloses
<1>4. Encloses(Scaled(factor, a), (factor * Unit) * a, Unit * (1 * 1))
  BY <1>2, <1>3, TimesEncloses DEF Scaled
<1>5. (factor * Unit) * a = (factor * a) * Unit /\ Unit * (1 * 1) = 1 * Unit /\ factor * a \in Int
  BY <1>1
<1>6. Encloses(Scaled(factor, a), (factor * a) * Unit, 1 * Unit)
  BY <1>4, <1>5
<1> QED BY <1>1, <1>5, <1>6, Cancelled

\* The scale of coefficients and points.
LEMMA ScalePositive == Q \in Nat \ {0} /\ Q \in Int /\ Unit = Q * Q
BY WitnessAssumption DEF Unit

\* A step of Horner's rule at the point p/Q.
LEMMA HornerStep ==
  ASSUME NEW h, NEW n \in Int, NEW d \in Nat \ {0}, Encloses(h, n, d),
         NEW p \in Int, NEW factor \in Int, NEW a \in Int,
         NEW r, r = n * p + (factor * a) * (Q * d), NEW e, e = Q * d
  PROVE  Encloses(Plus(Times(h, Thin(Float(p))), Scaled(factor, a)), r, e)
<1>1. Q \in Nat \ {0} /\ Q \in Int /\ Unit = Q * Q
  BY ScalePositive
<1> DEFINE t == Times(h, Thin(Float(p)))
<1>2. p * Q \in Int /\ Encloses(Thin(Float(p)), p * Q, 1)
  BY <1>1, ThinEncloses DEF Float
<1>3. Encloses(t, n * (p * Q), Unit * (d * 1))
  BY <1>2, TimesEncloses
<1>4. n * (p * Q) = (n * p) * Q /\ Unit * (d * 1) = (Q * d) * Q /\ n * p \in Int
  BY <1>1
<1>5. Q * d \in Nat \ {0}
  BY <1>1
<1> HIDE DEF t
<1>6. Encloses(t, n * p, Q * d)
  <2>1. Encloses(t, (n * p) * Q, (Q * d) * Q)
    BY <1>3, <1>4
  <2> QED BY <1>1, <1>4, <1>5, <2>1, Cancelled
<1>7. factor * a \in Int /\ Encloses(Scaled(factor, a), factor * a, 1)
  BY ScaledEncloses
<1> DEFINE s == Scaled(factor, a)
           u == n * p
           v == factor * a
           w == Q * d
<1>8. u \in Int /\ v \in Int /\ w \in Nat \ {0} /\ Encloses(t, u, w) /\ Encloses(s, v, 1)
  BY <1>4, <1>5, <1>6, <1>7
<1> HIDE DEF s, u, v, w
<1>9. Encloses(Plus(t, s), u * 1 + v * w, w * 1)
  BY <1>8, PlusEncloses
<1>10. u * 1 = u /\ w * 1 = w
  BY <1>8
<1>11. Encloses(Plus(t, s), u + v * w, w)
  BY <1>9, <1>10
<1> QED BY <1>11 DEF t, s, u, v, w

\* The first two steps of Horner's rule.
LEMMA HornerTwo ==
  ASSUME NEW a \in Int, NEW b \in Int, NEW u \in Int, NEW v \in Int, NEW p \in Int
  PROVE  Encloses(Plus(Times(Scaled(v, Float(b)), Thin(Float(p))), Scaled(u, Float(a))),
                  (v * b) * p + (u * a) * Q, 1)
<1>1. Q \in Nat \ {0} /\ Q \in Int
  BY ScalePositive
<1> DEFINE B == Float(b)
           A == Float(a)
           s == Scaled(v, B)
           h == Plus(Times(s, Thin(Float(p))), Scaled(u, A))
           n == v * B
           N == (v * b) * p + (u * a) * Q
<1>2. A \in Int /\ B \in Int /\ n \in Int /\ N \in Int
  BY <1>1 DEF Float
<1>3. n * p + (u * A) * (Q * 1) = N * Q /\ Q * 1 = 1 * Q
  <2>1. n * p = ((v * b) * p) * Q /\ (u * A) * (Q * 1) = ((u * a) * Q) * Q
    BY <1>1 DEF Float
  <2>2. ((v * b) * p) * Q + ((u * a) * Q) * Q = N * Q
    BY <1>1
  <2> QED BY <1>1, <2>1, <2>2
<1> HIDE DEF A, B, n, N, s
<1>4. Encloses(s, n, 1)
  BY <1>2, ScaledEncloses DEF s, n
<1>5. Encloses(h, n * p + (u * A) * (Q * 1), Q * 1)
  BY <1>2, <1>4, HornerStep
<1> HIDE DEF h
<1>6. Encloses(h, N * Q, 1 * Q)
  BY <1>3, <1>5
<1>7. Encloses(h, N, 1)
  BY <1>1, <1>2, <1>6, Cancelled
<1> QED BY <1>7 DEF h, s, A, B, N

\* The polynomial, at p/Q: F0 * p in units of 1/Unit^2.
LEMMA FunctionEnclosed ==
  ASSUME NEW as \in Int \X Int, NEW p \in Int
  PROVE  /\ F0(as, p) \in Int
         /\ Encloses(PolyInterval(<<0, Unit, Float(as[1]), Float(as[2])>>, <<1, 1, 1, 1>>,
                                  Thin(Float(p))), F0(as, p) * p, Unit)
<1>1. Q \in Nat \ {0} /\ Q \in Int /\ Unit = Q * Q /\ Unit \in Nat \ {0} /\ Unit \in Int
  BY ScalePositive, UnitPositive
<1> DEFINE a == as[1]
           b == as[2]
           cs == <<0, Unit, Float(a), Float(b)>>
           fs == <<1, 1, 1, 1>>
           z == Thin(Float(p))
           N == b * p + a * Q
<1>2. a \in Int /\ b \in Int
  OBVIOUS
<1> HIDE DEF a, b
<1>3. PICK h : /\ PolyInterval(cs, fs, z) = h[4]
               /\ h[1] = Scaled(fs[4], cs[4])
               /\ \A k \in 2..4 : h[k] = Plus(Times(h[k - 1], z), Scaled(fs[4 - k + 1], cs[4 - k + 1]))
  <2>1. Len(cs) = 4 /\ 4 \in 1..4
    OBVIOUS
  <2> HIDE DEF cs, fs, z
  <2> QED BY <2>1, HornerRuns
<1>4. /\ h[1] = Scaled(1, Float(b))
      /\ h[2] = Plus(Times(h[1], z), Scaled(1, Float(a)))
      /\ h[3] = Plus(Times(h[2], z), Scaled(1, Unit))
      /\ h[4] = Plus(Times(h[3], z), Scaled(1, 0))
  <2>1. /\ fs[4] = 1 /\ fs[3] = 1 /\ fs[2] = 1 /\ fs[1] = 1
        /\ cs[4] = Float(b) /\ cs[3] = Float(a) /\ cs[2] = Unit /\ cs[1] = 0
    OBVIOUS
  <2> HIDE DEF cs, fs, z
  <2>2. /\ 4 - 2 + 1 = 3 /\ 4 - 3 + 1 = 2 /\ 4 - 4 + 1 = 1 /\ 2 - 1 = 1 /\ 3 - 1 = 2 /\ 4 - 1 = 3
        /\ 2 \in 2..4 /\ 3 \in 2..4 /\ 4 \in 2..4
    OBVIOUS
  <2> QED BY <1>3, <2>1, <2>2
<1> HIDE DEF cs, fs
<1>5. Encloses(h[2], (1 * b) * p + (1 * a) * Q, 1)
  <2> QED BY <1>2, <1>4, HornerTwo
<1>6. N \in Int /\ Encloses(h[2], N, 1)
  <2>1. N = (1 * b) * p + (1 * a) * Q /\ N \in Int
    BY <1>1, <1>2
  <2> HIDE DEF N
  <2> QED BY <1>5, <2>1
<1> HIDE DEF N
<1>7. F0(as, p) \in Int /\ F0(as, p) = N * p + (1 * Unit) * (Q * 1) /\ Q = Q * 1
  <2>1. F0(as, p) = Q * Unit + a * p * Q + b * p * p
    BY DEF F0, a, b
  <2>2. N * p = a * p * Q + b * p * p
    BY <1>1, <1>2 DEF N
  <2>3. Q * Unit \in Int /\ a * p * Q \in Int /\ b * p * p \in Int /\ (1 * Unit) * (Q * 1) = Q * Unit
    BY <1>1, <1>2
  <2> QED BY <1>1, <2>1, <2>2, <2>3
<1> DEFINE M == F0(as, p)
<1> HIDE DEF M, z
<1>8. M \in Int /\ Encloses(h[3], M, Q)
  <2>1. 1 \in Nat \ {0} /\ 1 \in Int
    OBVIOUS
  <2> QED BY <1>1, <1>4, <1>6, <1>7, <2>1, HornerStep DEF M, z
<1>9. M * p = M * p + (1 * 0) * (Q * Q)
  BY <1>1, <1>8
<1>10. Encloses(h[4], M * p, Unit)
  BY <1>1, <1>4, <1>8, <1>9, HornerStep DEF z
<1> QED BY <1>3, <1>7, <1>10 DEF z, M, cs, fs, a, b

\* Its first derivative: F1 in units of 1/(Q*Unit).
LEMMA FirstDerivativeEnclosed ==
  ASSUME NEW as \in Int \X Int, NEW p \in Int
  PROVE  /\ F1(as, p) \in Int
         /\ Encloses(PolyInterval(<<Unit, Float(as[1]), Float(as[2])>>, <<1, 2, 3>>,
                                  Thin(Float(p))), F1(as, p), Q)
<1>1. Q \in Nat \ {0} /\ Q \in Int /\ Unit = Q * Q /\ Unit \in Nat \ {0} /\ Unit \in Int
  BY ScalePositive, UnitPositive
<1> DEFINE a == as[1]
           b == as[2]
           cs == <<Unit, Float(a), Float(b)>>
           fs == <<1, 2, 3>>
           z == Thin(Float(p))
           N == (3 * b) * p + (2 * a) * Q
<1>2. a \in Int /\ b \in Int
  OBVIOUS
<1> HIDE DEF a, b
<1>3. PICK h : /\ PolyInterval(cs, fs, z) = h[3]
               /\ h[1] = Scaled(fs[3], cs[3])
               /\ \A k \in 2..3 : h[k] = Plus(Times(h[k - 1], z), Scaled(fs[3 - k + 1], cs[3 - k + 1]))
  <2>1. Len(cs) = 3 /\ 3 \in 1..4
    OBVIOUS
  <2> HIDE DEF cs, fs, z
  <2> QED BY <2>1, HornerRuns
<1>4. /\ h[1] = Scaled(3, Float(b))
      /\ h[2] = Plus(Times(h[1], z), Scaled(2, Float(a)))
      /\ h[3] = Plus(Times(h[2], z), Scaled(1, Unit))
  <2>1. /\ fs[3] = 3 /\ fs[2] = 2 /\ fs[1] = 1
        /\ cs[3] = Float(b) /\ cs[2] = Float(a) /\ cs[1] = Unit
    OBVIOUS
  <2> HIDE DEF cs, fs, z
  <2>2. 3 - 2 + 1 = 2 /\ 3 - 3 + 1 = 1 /\ 2 - 1 = 1 /\ 3 - 1 = 2 /\ 2 \in 2..3 /\ 3 \in 2..3
    OBVIOUS
  <2> QED BY <1>3, <2>1, <2>2
<1> HIDE DEF cs, fs
<1>5. N \in Int /\ Encloses(h[2], N, 1)
  <2>1. N \in Int
    BY <1>1, <1>2
  <2> QED BY <1>2, <1>4, <2>1, HornerTwo
<1> HIDE DEF N
<1>6. F1(as, p) \in Int /\ F1(as, p) = N * p + (1 * Unit) * (Q * 1) /\ Q = Q * 1
  <2>1. F1(as, p) = Q * Unit + 2 * a * p * Q + 3 * b * p * p
    BY DEF F1, a, b
  <2>2. N * p = 2 * a * p * Q + 3 * b * p * p
    BY <1>1, <1>2 DEF N
  <2>3. Q * Unit \in Int /\ 2 * a * p * Q \in Int /\ 3 * b * p * p \in Int /\ (1 * Unit) * (Q * 1) = Q * Unit
    BY <1>1, <1>2
  <2> QED BY <1>1, <2>1, <2>2, <2>3
<1>7. Encloses(h[3], F1(as, p), Q)
  <2>1. 1 \in Nat \ {0} /\ 1 \in Int
    OBVIOUS
  <2> QED BY <1>1, <1>4, <1>5, <1>6, <2>1, HornerStep
<1> QED BY <1>3, <1>6, <1>7 DEF cs, fs, a, b

\* Its second derivative: F2 in units of 1/Unit.
LEMMA SecondDerivativeEnclosed ==
  ASSUME NEW as \in Int \X Int, NEW p \in Int
  PROVE  /\ F2(as, p) \in Int
         /\ Encloses(PolyInterval(<<Float(as[1]), Float(as[2])>>, <<2, 6>>,
                                  Thin(Float(p))), F2(as, p), 1)
<1>1. Q \in Nat \ {0} /\ Q \in Int
  BY ScalePositive
<1> DEFINE a == as[1]
           b == as[2]
           cs == <<Float(a), Float(b)>>
           fs == <<2, 6>>
           z == Thin(Float(p))
           N == (6 * b) * p + (2 * a) * Q
<1>2. a \in Int /\ b \in Int
  OBVIOUS
<1> HIDE DEF a, b
<1>3. PICK h : /\ PolyInterval(cs, fs, z) = h[2]
               /\ h[1] = Scaled(fs[2], cs[2])
               /\ \A k \in 2..2 : h[k] = Plus(Times(h[k - 1], z), Scaled(fs[2 - k + 1], cs[2 - k + 1]))
  <2>1. Len(cs) = 2 /\ 2 \in 1..4
    OBVIOUS
  <2> HIDE DEF cs, fs, z
  <2> QED BY <2>1, HornerRuns
<1>4. /\ h[1] = Scaled(6, Float(b))
      /\ h[2] = Plus(Times(h[1], z), Scaled(2, Float(a)))
  <2>1. fs[2] = 6 /\ fs[1] = 2 /\ cs[2] = Float(b) /\ cs[1] = Float(a)
    OBVIOUS
  <2> HIDE DEF cs, fs, z
  <2>2. 2 - 2 + 1 = 1 /\ 2 - 1 = 1 /\ 2 \in 2..2
    OBVIOUS
  <2> QED BY <1>3, <2>1, <2>2
<1> HIDE DEF cs, fs
<1>5. N \in Int /\ Encloses(h[2], N, 1)
  <2>1. N \in Int
    BY <1>1, <1>2
  <2> QED BY <1>2, <1>4, <2>1, HornerTwo
<1>6. N = F2(as, p)
  <2>1. F2(as, p) = 2 * a * Q + 6 * b * p
    BY DEF F2, a, b
  <2> QED BY <1>1, <1>2, <2>1 DEF N
<1> HIDE DEF N
<1> QED BY <1>3, <1>5, <1>6 DEF cs, fs, a, b

\* Its third derivative.
LEMMA ThirdDerivativeEnclosed ==
  ASSUME NEW b \in Int, NEW z
  PROVE  Float(b) \in Int /\ Encloses(PolyInterval(<<Float(b)>>, <<6>>, z), 6 * Float(b), 1)
<1>1. Float(b) \in Int
  BY ScalePositive DEF Float
<1> DEFINE B == Float(b)
           cs == <<B>>
           fs == <<6>>
<1>2. Len(cs) = 1 /\ 1 \in 1..4 /\ fs[1] = 6 /\ cs[1] = B
  OBVIOUS
<1> HIDE DEF cs, fs
<1>3. PolyInterval(cs, fs, z) = Scaled(6, B)
  BY <1>2, HornerRuns
<1> HIDE DEF B
<1>4. Encloses(Scaled(6, B), 6 * B, 1)
  BY <1>1, ScaledEncloses DEF B
<1> QED BY <1>1, <1>3, <1>4 DEF B, cs, fs

-----------------------------------------------------------------------------
(* The intervals of each criterion. *)
\* A concatenation, entry by entry.
LEMMA Joined ==
  ASSUME NEW X, NEW s \in Seq(X), NEW t \in Seq(X), NEW u \in Seq(X),
         Len(u) = Len(s) + Len(t),
         \A i \in 1..Len(s) : u[i] = s[i],
         \A i \in 1..Len(t) : u[Len(s) + i] = t[i]
  PROVE  s \o t = u
<1>1. /\ s \o t \in Seq(X) /\ Len(s \o t) = Len(s) + Len(t)
      /\ \A i \in 1..Len(s) + Len(t) :
           (s \o t)[i] = IF i <= Len(s) THEN s[i] ELSE t[i - Len(s)]
  BY ConcatProperties
<1>2. Len(s) \in Nat /\ Len(t) \in Nat
  OBVIOUS
<1>3. ASSUME NEW i \in 1..Len(u) PROVE (s \o t)[i] = u[i]
  <2>1. CASE i <= Len(s)
    BY <1>1, <1>2, <2>1
  <2>2. CASE ~(i <= Len(s))
    <3>1. i - Len(s) \in 1..Len(t) /\ Len(s) + (i - Len(s)) = i
      BY <1>2, <2>2
    <3> QED BY <1>1, <1>2, <2>2, <3>1
  <2> QED BY <2>1, <2>2
<1> QED BY <1>1, <1>3, SeqEqual

\* Coefficients before the two of the polynomial.
LEMMA BeforeTwo ==
  ASSUME NEW C, NEW D, NEW A, NEW B
  PROVE  <<C, D>> \o <<A, B>> = <<C, D, A, B>> /\ <<C>> \o <<A, B>> = <<C, A, B>>
<1> DEFINE X == {A, B, C, D}
           t == <<A, B>>
<1>1. (\A i \in 1..2 : i = 1 \/ i = 2) /\ (\A i \in 1..1 : i = 1) /\ 1 + 1 = 2 /\ 1 + 2 = 3 /\ 2 + 1 = 3 /\ 2 + 2 = 4
  OBVIOUS
<1>2. t \in Seq(X) /\ Len(t) = 2 /\ t[1] = A /\ t[2] = B
  OBVIOUS
<1>3. <<C, D>> \o t = <<C, D, A, B>>
  <2> DEFINE s == <<C, D>>
             u == <<C, D, A, B>>
  <2>1. s \in Seq(X) /\ u \in Seq(X) /\ Len(s) = 2 /\ Len(u) = 4
    OBVIOUS
  <2>2. s[1] = C /\ s[2] = D /\ u[1] = C /\ u[2] = D /\ u[3] = A /\ u[4] = B
    OBVIOUS
  <2> HIDE DEF s, t, u, X
  <2>3. /\ \A i \in 1..Len(s) : u[i] = s[i]
        /\ \A i \in 1..Len(t) : u[Len(s) + i] = t[i]
        /\ Len(u) = Len(s) + Len(t)
    BY <1>1, <1>2, <2>1, <2>2
  <2> QED BY <1>2, <2>1, <2>3, Joined DEF s, u
<1>4. <<C>> \o t = <<C, A, B>>
  <2> DEFINE s == <<C>>
             u == <<C, A, B>>
  <2>1. s \in Seq(X) /\ u \in Seq(X) /\ Len(s) = 1 /\ Len(u) = 3
    OBVIOUS
  <2>2. s[1] = C /\ u[1] = C /\ u[2] = A /\ u[3] = B
    OBVIOUS
  <2> HIDE DEF s, t, u, X
  <2>3. /\ \A i \in 1..Len(s) : u[i] = s[i]
        /\ \A i \in 1..Len(t) : u[Len(s) + i] = t[i]
        /\ Len(u) = Len(s) + Len(t)
    BY <1>1, <1>2, <2>1, <2>2
  <2> QED BY <1>2, <2>1, <2>3, Joined DEF s, u
<1> QED BY <1>3, <1>4

\* A common factor may be added.
LEMMA Expanded ==
  ASSUME NEW x, NEW n \in Int, NEW d \in Nat \ {0}, NEW c \in Nat \ {0}, Encloses(x, n, d),
         NEW r, r = n * c, NEW e, e = d * c
  PROVE  Encloses(x, r, e)
<1>1. x.lo \in Int /\ x.hi \in Int /\ x.lo * d <= n /\ n <= x.hi * d
  BY DEF Encloses
<1>2. (x.lo * d) * c <= n * c /\ n * c <= (x.hi * d) * c
  <2>1. x.lo * d \in Int /\ x.hi * d \in Int
    BY <1>1
  <2> QED BY <1>1, <2>1, Monotone
<1>3. (x.lo * d) * c = x.lo * (d * c) /\ (x.hi * d) * c = x.hi * (d * c)
  BY <1>1
<1>4. x.lo * e <= r /\ r <= x.hi * e
  BY <1>2, <1>3
<1> QED BY <1>1, <1>4 DEF Encloses

\* A common factor of any sign is removed, the denominator becoming positive.
LEMMA Reduced ==
  ASSUME NEW x, NEW n \in Int, NEW d \in Int, NEW c \in Int,
         NEW r \in Int, r = n * c, NEW e \in Int, e = d * c, e > 0, Encloses(x, r, e),
         NEW q, q = Fraction(n, d)
  PROVE  q.num \in Int /\ q.den \in Nat \ {0} /\ Encloses(x, q.num, q.den)
<1>1. (d > 0 /\ c > 0) \/ (d < 0 /\ c < 0)
  <2>1. d # 0 /\ c # 0
    OBVIOUS
  <2>2. d > 0 => c > 0
    <3> SUFFICES ASSUME d > 0, c < 0 PROVE FALSE
      BY <2>1
    <3>1. d * (-c) > 0 /\ d * (-c) = -e
      OBVIOUS
    <3> QED BY <3>1
  <2>3. d < 0 => c < 0
    <3> SUFFICES ASSUME d < 0, c > 0 PROVE FALSE
      BY <2>1
    <3>1. (-d) * c > 0 /\ (-d) * c = -e
      OBVIOUS
    <3> QED BY <3>1
  <2> QED BY <2>1, <2>2, <2>3
<1>2. CASE d > 0 /\ c > 0
  <2>1. q.num = n /\ q.den = d
    BY <1>2 DEF Fraction
  <2>2. Encloses(x, n, d)
    BY <1>2, Cancelled
  <2> QED BY <1>2, <2>1, <2>2
<1>3. CASE d < 0 /\ c < 0
  <2>1. q.num = -n /\ q.den = -d
    BY <1>3 DEF Fraction
  <2>2. r = (-n) * (-c) /\ e = (-d) * (-c)
    BY Negated
  <2>3. Encloses(x, (-n) * (-c), (-d) * (-c))
    BY <2>2
  <2>4. Encloses(x, -n, -d)
    <3> DEFINE n1 == -n
               d1 == -d
               c1 == -c
    <3>1. n1 \in Int /\ d1 \in Nat \ {0} /\ c1 \in Nat \ {0} /\ Encloses(x, n1 * c1, d1 * c1)
      BY <1>3, <2>3
    <3> HIDE DEF n1, d1, c1
    <3>2. Encloses(x, n1, d1)
      BY <3>1, Cancelled
    <3> QED BY <3>2 DEF n1, d1
  <2> QED BY <1>3, <2>1, <2>4
<1> QED BY <1>1, <1>2, <1>3

\* The ends of the enclosure of a fraction, against the fraction rounded.
LEMMA EnclosureRounded ==
  ASSUME NEW x, NEW n \in Int, NEW d \in Nat \ {0}, Encloses(x, n, d)
  PROVE  x.lo <= FloorDiv(n, d) /\ CeilDiv(n, d) <= x.hi
<1>1. x.lo \in Int /\ x.hi \in Int /\ x.lo * d <= n /\ n <= x.hi * d
  BY DEF Encloses
<1>2. ASSUME NEW a \in Int, NEW l \in Int, l * d <= a PROVE l <= a \div d
  <2> DEFINE f == a \div d
  <2>1. f \in Int /\ a < f * d + d
    OBVIOUS
  <2> HIDE DEF f
  <2>2. SUFFICES ASSUME f + 1 <= l PROVE FALSE
    BY <2>1 DEF f
  <2>3. (f + 1) * d <= l * d
    BY <2>1, <2>2, Monotone
  <2>4. (f + 1) * d = f * d + d /\ f * d \in Int /\ l * d \in Int
    BY <2>1
  <2> QED BY <1>2, <2>1, <2>3, <2>4
<1>3. x.lo <= n \div d
  BY <1>1, <1>2
<1>4. -x.hi <= (-n) \div d
  <2> DEFINE l == -x.hi
             a == -n
  <2>1. l \in Int /\ a \in Int /\ l * d <= a
    <3>1. l * d = -(x.hi * d) /\ x.hi * d \in Int
      BY <1>1, Negated
    <3> QED BY <1>1, <3>1
  <2> HIDE DEF l, a
  <2>2. l <= a \div d
    BY <1>2, <2>1
  <2> QED BY <2>2 DEF l, a
<1>5. FloorDiv(n, d) = n \div d /\ CeilDiv(n, d) = -((-n) \div d)
  BY DEF FloorDiv, CeilDiv
<1>6. (-n) \div d \in Int
  OBVIOUS
<1> QED BY <1>1, <1>3, <1>4, <1>5, <1>6

\* The intervals of the polynomial and its derivatives.
ValueInterval(as, p) ==
  PolyInterval(<<0, Unit, Float(as[1]), Float(as[2])>>, <<1, 1, 1, 1>>, Thin(Float(p)))
FirstInterval(as, p) ==
  PolyInterval(<<Unit, Float(as[1]), Float(as[2])>>, <<1, 2, 3>>, Thin(Float(p)))
SecondInterval(as, p) == PolyInterval(<<Float(as[1]), Float(as[2])>>, <<2, 6>>, Thin(Float(p)))
ThirdInterval(as, p) == PolyInterval(<<Float(as[2])>>, <<6>>, Thin(Float(p)))

\* The intervals of the criteria.
WeightInterval(p) == Minus(Thin(Unit), Times(Thin(Float(p)), Thin(Float(p))))
RatioInterval(as, p) == Over(SecondInterval(as, p), FirstInterval(as, p))
SchwarzianInterval(as, p) ==
  Minus(Over(ThirdInterval(as, p), FirstInterval(as, p)),
        Times(Times(Thin((3 * Unit) \div 2), RatioInterval(as, p)), RatioInterval(as, p)))
StarlikeInterval(as, p) ==
  Over(Times(Thin(Float(p)), FirstInterval(as, p)), ValueInterval(as, p))
BeckerInterval(as, p) == Times(WeightInterval(p), Magnitude(RatioInterval(as, p)))
NehariInterval(as, p) ==
  Times(Times(WeightInterval(p), WeightInterval(p)), Magnitude(SchwarzianInterval(as, p)))

\* The evaluation, written with them.
LEMMA Evaluated ==
  ASSUME NEW as \in Int \X Int, NEW p \in Int
  PROVE  /\ Evaluate(as, p, "starlike") =
              IF p = 0 THEN Enclosed(Thin(Unit), 0, FALSE)
              ELSE IF ContainsZero(ValueInterval(as, p)) THEN Unresolved
              ELSE Enclosed(StarlikeInterval(as, p), 0, AtMost(StarlikeInterval(as, p), 0))
         /\ Evaluate(as, p, "becker_univalent") =
              IF ContainsZero(FirstInterval(as, p)) THEN Unresolved
              ELSE Enclosed(BeckerInterval(as, p), Unit, Exceeds(BeckerInterval(as, p), Unit))
         /\ Evaluate(as, p, "nehari_univalent") =
              IF ContainsZero(FirstInterval(as, p)) THEN Unresolved
              ELSE Enclosed(NehariInterval(as, p), 2 * Unit,
                            Exceeds(NehariInterval(as, p), 2 * Unit))
<1> DEFINE A == Float(as[1])
           B == Float(as[2])
           fl == [i \in DOMAIN as |-> Float(as[i])]
           z == Thin(Float(p))
           f == PolyInterval(<<0, Unit>> \o fl, <<1, 1, 1, 1>>, z)
           fp == PolyInterval(<<Unit>> \o fl, <<1, 2, 3>>, z)
           fpp == PolyInterval(fl, <<2, 6>>, z)
           fppp == PolyInterval(Tail(fl), <<6>>, z)
<1>1. fl = <<A, B>>
  <2>1. DOMAIN as = 1..2
    OBVIOUS
  <2>2. DOMAIN fl = 1..2 /\ fl[1] = A /\ fl[2] = B
    BY <2>1
  <2>3. fl = [i \in 1..2 |-> fl[i]]
    BY <2>1
  <2> HIDE DEF A, B, fl
  <2> QED BY <2>2, <2>3
<1> HIDE DEF fl
<1>2. /\ <<0, Unit>> \o fl = <<0, Unit, A, B>>
      /\ <<Unit>> \o fl = <<Unit, A, B>>
      /\ Tail(fl) = <<B>>
  <2> HIDE DEF A, B
  <2>1. Tail(<<A, B>>) = <<B>>
    OBVIOUS
  <2> QED BY <1>1, <2>1, BeforeTwo
<1>3. /\ f = ValueInterval(as, p) /\ fp = FirstInterval(as, p)
      /\ fpp = SecondInterval(as, p) /\ fppp = ThirdInterval(as, p)
  BY <1>1, <1>2 DEF ValueInterval, FirstInterval, SecondInterval, ThirdInterval
<1> DEFINE weight == Minus(Thin(Unit), Times(z, z))
           ratio == Over(fpp, fp)
           schwarzian ==
             Minus(Over(fppp, fp), Times(Times(Thin((3 * Unit) \div 2), ratio), ratio))
           star == Over(Times(z, fp), f)
           beck == Times(weight, Magnitude(ratio))
           neha == Times(Times(weight, weight), Magnitude(schwarzian))
<1>4. star = StarlikeInterval(as, p)
  <2> HIDE DEF f, fp, fpp, fppp
  <2> QED BY <1>3 DEF StarlikeInterval
<1>5. beck = BeckerInterval(as, p)
  <2> HIDE DEF f, fp, fpp, fppp
  <2> QED BY <1>3 DEF BeckerInterval, WeightInterval, RatioInterval
<1>6. neha = NehariInterval(as, p)
  <2> HIDE DEF f, fp, fpp, fppp
  <2> QED BY <1>3 DEF NehariInterval, SchwarzianInterval, WeightInterval, RatioInterval
<1>7. Evaluate(as, p, "starlike") =
        IF p = 0 THEN Enclosed(Thin(Unit), 0, FALSE)
        ELSE IF ContainsZero(f) THEN Unresolved ELSE Enclosed(star, 0, AtMost(star, 0))
  BY DEF Evaluate, fl
<1>8. Evaluate(as, p, "becker_univalent") =
        IF ContainsZero(fp) THEN Unresolved ELSE Enclosed(beck, Unit, Exceeds(beck, Unit))
  BY DEF Evaluate, fl
<1>9. Evaluate(as, p, "nehari_univalent") =
        IF ContainsZero(fp) THEN Unresolved
        ELSE Enclosed(neha, 2 * Unit, Exceeds(neha, 2 * Unit))
  BY DEF Evaluate, fl
<1> HIDE DEF f, fp, star, beck, neha
<1> QED BY <1>3, <1>4, <1>5, <1>6, <1>7, <1>8, <1>9

-----------------------------------------------------------------------------
(* The three criteria are enclosed. *)
\* starlike: z f'(z) / f(z).
LEMMA StarlikeEnclosed ==
  ASSUME NEW as \in Int \X Int, NEW p \in Int, ~ContainsZero(ValueInterval(as, p)),
         NEW q, q = Quantity(as, p, "starlike")
  PROVE  q.num \in Int /\ q.den \in Nat \ {0} /\ Encloses(StarlikeInterval(as, p), q.num, q.den)
<1> DEFINE M0 == F0(as, p)
           M1 == F1(as, p)
           U == Unit
           z == Thin(Float(p))
           V == ValueInterval(as, p)
           F == FirstInterval(as, p)
           t == Times(z, F)
           x == Over(t, V)
           m == M0 * p
           n == p * M1
<1>1. Q \in Nat \ {0} /\ Q \in Int /\ U \in Nat \ {0} /\ U \in Int
  BY ScalePositive, UnitPositive
<1>2. M0 \in Int /\ M1 \in Int /\ Encloses(V, M0 * p, U) /\ Encloses(F, M1, Q)
  BY FunctionEnclosed, FirstDerivativeEnclosed DEF ValueInterval, FirstInterval
<1>3. q = Fraction(M1 * U, M0)
  BY DEF Quantity
<1>4. Float(p) \in Int /\ Float(p) = p * Q /\ Encloses(z, Float(p), 1)
  BY <1>1, ThinEncloses DEF Float
<1>5. x = StarlikeInterval(as, p)
  BY DEF StarlikeInterval
<1> HIDE DEF M0, M1, U, V, F, z, x
<1>6. Encloses(t, Float(p) * M1, U * (1 * Q))
  BY <1>1, <1>2, <1>4, TimesEncloses DEF U
<1> HIDE DEF t
<1>7. m \in Int /\ n \in Int /\ Encloses(t, n, U)
  <2>1. Float(p) * M1 = n * Q /\ U * (1 * Q) = U * Q /\ n \in Int /\ m \in Int
    BY <1>1, <1>2, <1>4
  <2> HIDE DEF n
  <2>2. Encloses(t, n * Q, U * Q)
    BY <1>6, <2>1
  <2> QED BY <1>1, <2>1, <2>2, Cancelled
<1> HIDE DEF m, n
<1>8. /\ m # 0
      /\ m > 0 => Encloses(x, (n * U) * U, U * m)
      /\ m < 0 => Encloses(x, (-(n * U)) * U, U * (-m))
  <2>1. Encloses(V, m, U)
    BY <1>2 DEF m
  <2> QED BY <1>1, <1>7, <2>1, OverEncloses DEF U, x, V
<1> DEFINE N == M1 * U
<1>9. N \in Int /\ U * p \in Int /\ -(U * p) \in Int /\ U * m \in Int
  BY <1>1, <1>2, <1>7
<1>10. CASE m > 0
  <2> DEFINE c == U * p
             r == (n * U) * U
             e == U * m
  <2>1. r = N * c /\ e = M0 * c
    BY <1>1, <1>2 DEF n, m
  <2>2. c \in Int /\ r \in Int /\ e \in Int /\ e > 0
    BY <1>1, <1>7, <1>10
  <2>3. Encloses(x, r, e)
    BY <1>8, <1>10
  <2> HIDE DEF c, r, e, N
  <2>4. q.num \in Int /\ q.den \in Nat \ {0} /\ Encloses(x, q.num, q.den)
    BY <1>2, <1>3, <1>9, <2>1, <2>2, <2>3, Reduced DEF N
  <2> QED BY <1>5, <2>4
<1>11. CASE m < 0
  <2> DEFINE c == -(U * p)
             r == (-(n * U)) * U
             e == U * (-m)
  <2>1. r = N * c /\ e = M0 * c
    BY <1>1, <1>2 DEF n, m
  <2>2. c \in Int /\ r \in Int /\ e \in Int /\ e > 0
    BY <1>1, <1>7, <1>11
  <2>3. Encloses(x, r, e)
    BY <1>8, <1>11
  <2> HIDE DEF c, r, e, N
  <2>4. q.num \in Int /\ q.den \in Nat \ {0} /\ Encloses(x, q.num, q.den)
    BY <1>2, <1>3, <1>9, <2>1, <2>2, <2>3, Reduced DEF N
  <2> QED BY <1>5, <2>4
<1>12. m > 0 \/ m < 0
  BY <1>7, <1>8
<1> QED BY <1>10, <1>11, <1>12

\* Absolute values of products.
LEMMA AbsoluteProduct ==
  ASSUME NEW u \in Int, NEW c \in Nat
  PROVE  Abs(u) \in Nat /\ Abs(u * c) = Abs(u) * c
<1>1. u * c \in Int /\ (-u) * c = -(u * c)
  BY Negated
<1>2. u >= 0 => u * c >= 0
  OBVIOUS
<1>3. u < 0 => u * c <= 0
  OBVIOUS
<1> QED BY <1>1, <1>2, <1>3 DEF Abs

\* A unit factor changes no magnitude.
LEMMA AbsoluteSign ==
  ASSUME NEW u \in Int
  PROVE  /\ Abs(1 * u) = Abs(u) /\ Abs((-1) * u) = Abs(u)
         /\ 1 * u \in Int /\ (-1) * u \in Int
BY DEF Abs

\* 1 - |z|^2.
LEMMA WeightEnclosed ==
  ASSUME NEW p \in Int
  PROVE  Encloses(WeightInterval(p), Unit - p * p, 1)
<1> DEFINE U == Unit
           z == Thin(Float(p))
           t == Times(z, z)
           s == p * p
<1>1. Q \in Nat \ {0} /\ Q \in Int /\ U \in Nat \ {0} /\ U \in Int /\ U = Q * Q
  BY ScalePositive, UnitPositive
<1>2. Float(p) \in Int /\ Float(p) = p * Q /\ Encloses(z, Float(p), 1)
  BY <1>1, ThinEncloses DEF Float
<1>3. Encloses(Thin(U), U, 1)
  BY <1>1, ThinEncloses
<1>4. WeightInterval(p) = Minus(Thin(U), t)
  BY DEF WeightInterval
<1> HIDE DEF U, z
<1>5. Encloses(t, Float(p) * Float(p), U * (1 * 1))
  <2>1. 1 \in Nat \ {0}
    OBVIOUS
  <2> QED BY <1>2, <2>1, TimesEncloses DEF U
<1> HIDE DEF t
<1>6. s \in Int /\ Encloses(t, s, 1)
  <2>1. Float(p) * Float(p) = s * U /\ U * (1 * 1) = 1 * U /\ s \in Int
    BY <1>1, <1>2
  <2> HIDE DEF s
  <2>2. Encloses(t, s * U, 1 * U)
    BY <1>5, <2>1
  <2> QED BY <1>1, <2>1, <2>2, Cancelled
<1> HIDE DEF s
<1>7. Encloses(Minus(Thin(U), t), U * 1 - s * 1, 1 * 1)
  <2> DEFINE one == 1
  <2>1. one \in Nat \ {0} /\ Encloses(Thin(U), U, one) /\ Encloses(t, s, one)
    BY <1>3, <1>6
  <2> HIDE DEF one
  <2>2. Encloses(Minus(Thin(U), t), U * one - s * one, one * one)
    BY <1>1, <1>6, <2>1, PlusEncloses
  <2> QED BY <2>2 DEF one
<1>8. U * 1 - s * 1 = U - s /\ 1 * 1 = 1
  BY <1>1, <1>6
<1>9. Encloses(Minus(Thin(U), t), U - s, 1)
  BY <1>7, <1>8
<1> QED BY <1>4, <1>9 DEF U, s

\* The sign a denominator loses.
Sign(n) == IF n > 0 THEN 1 ELSE -1

\* Quotients by the first derivative, which is not 0.
LEMMA OverFirst ==
  ASSUME NEW as \in Int \X Int, NEW p \in Int, ~ContainsZero(FirstInterval(as, p)),
         NEW x, NEW n \in Int, Encloses(x, n, 1)
  PROVE  /\ Sign(F1(as, p)) \in {1, -1}
         /\ Abs(F1(as, p)) \in Nat \ {0}
         /\ F1(as, p) \in Int /\ Sign(F1(as, p)) * Abs(F1(as, p)) = F1(as, p)
         /\ Encloses(Over(x, FirstInterval(as, p)),
                     Sign(F1(as, p)) * (n * (Unit * Q)), Abs(F1(as, p)))
<1> DEFINE M == F1(as, p)
           U == Unit
           F == FirstInterval(as, p)
           o == Over(x, F)
<1>1. Q \in Nat \ {0} /\ Q \in Int /\ U \in Nat \ {0} /\ U \in Int
  BY ScalePositive, UnitPositive
<1>2. M \in Int /\ Encloses(F, M, Q)
  BY FirstDerivativeEnclosed DEF FirstInterval
<1> HIDE DEF M, U, F, o
<1>3. /\ M # 0
      /\ M > 0 => Encloses(o, (n * U) * Q, 1 * M)
      /\ M < 0 => Encloses(o, (-(n * U)) * Q, 1 * (-M))
  <2> DEFINE one == 1
  <2>1. one \in Nat \ {0} /\ Encloses(x, n, one)
    OBVIOUS
  <2>2. ~ContainsZero(F)
    BY DEF F
  <2> HIDE DEF one
  <2>3. /\ M # 0
        /\ M > 0 => Encloses(o, (n * U) * Q, one * M)
        /\ M < 0 => Encloses(o, (-(n * U)) * Q, one * (-M))
    BY <1>1, <1>2, <2>1, <2>2, OverEncloses DEF U, o
  <2> QED BY <2>3 DEF one
<1>4. Sign(M) \in {1, -1} /\ Abs(M) \in Nat \ {0} /\ Sign(M) * Abs(M) = M
  BY <1>2, <1>3 DEF Sign, Abs
<1>5. Encloses(o, Sign(M) * (n * (U * Q)), Abs(M))
  <2>1. CASE M > 0
    <3>1. Sign(M) = 1 /\ Abs(M) = M
      BY <1>2, <2>1 DEF Sign, Abs
    <3>2. 1 * (n * (U * Q)) = (n * U) * Q /\ 1 * M = M
      BY <1>1, <1>2
    <3> QED BY <1>3, <2>1, <3>1, <3>2
  <2>2. CASE ~(M > 0)
    <3>1. Sign(M) = -1 /\ Abs(M) = -M /\ M < 0
      BY <1>2, <1>3, <2>2 DEF Sign, Abs
    <3>2. (-1) * (n * (U * Q)) = (-(n * U)) * Q /\ 1 * (-M) = -M
      BY <1>1, <1>2
    <3> QED BY <1>3, <3>1, <3>2
  <2> QED BY <2>1, <2>2
<1> QED BY <1>2, <1>4, <1>5 DEF M, U, F, o

\* becker_univalent: (1 - |z|^2) |f''(z) / f'(z)|.
LEMMA BeckerEnclosed ==
  ASSUME NEW as \in Int \X Int, NEW p \in Int, ~ContainsZero(FirstInterval(as, p)),
         NEW q, q = Quantity(as, p, "becker_univalent")
  PROVE  q.num \in Int /\ q.den \in Nat \ {0} /\ Encloses(BeckerInterval(as, p), q.num, q.den)
<1> DEFINE T == Abs(F1(as, p))
           s == Sign(F1(as, p))
           M2 == F2(as, p)
           U == Unit
           W == WeightInterval(p)
           w == U - p * p
           R == RatioInterval(as, p)
           G == Magnitude(R)
           n == s * (M2 * (U * Q))
<1>1. Q \in Nat \ {0} /\ Q \in Int /\ U \in Nat \ {0} /\ U \in Int
  BY ScalePositive, UnitPositive
<1>2. M2 \in Int /\ Encloses(SecondInterval(as, p), M2, 1)
  BY SecondDerivativeEnclosed DEF SecondInterval
<1>3. s \in {1, -1} /\ T \in Nat \ {0} /\ Encloses(R, n, T)
  BY <1>2, OverFirst DEF RatioInterval
<1>4. w \in Int /\ Encloses(W, w, 1)
  BY <1>1, WeightEnclosed
<1>5. q = Fraction(w * Abs(M2) * Q, T)
  BY DEF Quantity
<1> HIDE DEF T, s, M2, U, W, w, R
<1>6. Abs(M2) \in Nat /\ n \in Int /\ Abs(n) = Abs(M2) * (U * Q)
  <2>1. U * Q \in Nat /\ M2 * (U * Q) \in Int
    BY <1>1, <1>2
  <2>2. Abs(M2) \in Nat /\ Abs(M2 * (U * Q)) = Abs(M2) * (U * Q)
    BY <1>2, <2>1, AbsoluteProduct
  <2> DEFINE u == M2 * (U * Q)
  <2> HIDE DEF u
  <2>3. Abs(1 * u) = Abs(u) /\ Abs((-1) * u) = Abs(u) /\ 1 * u \in Int /\ (-1) * u \in Int
    BY <2>1, AbsoluteSign DEF u
  <2>4. n = s * u
    BY DEF u
  <2>5. n \in Int /\ Abs(n) = Abs(u)
    BY <1>3, <2>3, <2>4
  <2> QED BY <2>2, <2>5 DEF u
<1> HIDE DEF n
<1>7. Encloses(G, Abs(n), T)
  BY <1>3, <1>6, MagnitudeEncloses
<1> HIDE DEF G
<1> DEFINE k == Abs(n)
           x == Times(W, G)
<1>8. Encloses(x, w * k, U * (1 * T))
  <2> DEFINE one == 1
  <2>1. one \in Nat \ {0} /\ Encloses(W, w, one)
    BY <1>4
  <2>2. k \in Int
    BY <1>1, <1>6
  <2> HIDE DEF one, k
  <2>3. Encloses(G, k, T)
    BY <1>7 DEF k
  <2>4. Encloses(x, w * k, U * (one * T))
    BY <1>3, <1>4, <2>1, <2>2, <2>3, TimesEncloses DEF U
  <2> QED BY <2>4 DEF one
<1> DEFINE N == w * Abs(M2) * Q
           r == w * k
           e == U * (1 * T)
<1>9. N \in Int /\ r \in Int /\ e \in Int /\ e > 0 /\ e = T * U /\ r = N * U
  <2>1. N \in Int /\ r \in Int /\ e = T * U /\ e \in Nat \ {0}
    BY <1>1, <1>3, <1>4, <1>6
  <2>2. r = w * (Abs(M2) * (U * Q))
    BY <1>6
  <2>3. \A v \in Int : w * (v * (U * Q)) = (w * v * Q) * U
    BY <1>1, <1>4
  <2> QED BY <1>6, <2>1, <2>2, <2>3
<1>10. T \in Int /\ Encloses(x, r, e) /\ q = Fraction(N, T)
  <2>1. Encloses(x, r, e)
    BY <1>8
  <2>2. q = Fraction(N, T)
    BY <1>5
  <2>3. T \in Int
    BY <1>3
  <2> HIDE DEF N, r, e, x
  <2> QED BY <2>1, <2>2, <2>3
<1>11. x = BeckerInterval(as, p)
  BY DEF x, W, G, R, BeckerInterval
<1> HIDE DEF N, r, e, x
<1>12. q.num \in Int /\ q.den \in Nat \ {0} /\ Encloses(x, q.num, q.den)
  BY <1>1, <1>9, <1>10, Reduced
<1> QED BY <1>11, <1>12

\* Products of what is known: the fraction given by equations.
LEMMA ProductGiven ==
  ASSUME NEW x, NEW n \in Int, NEW d \in Nat \ {0}, Encloses(x, n, d),
         NEW y, NEW m \in Int, NEW k \in Nat \ {0}, Encloses(y, m, k),
         NEW r \in Int, r * Unit = n * m, NEW e \in Nat \ {0}, e = d * k
  PROVE  Encloses(Times(x, y), r, e)
<1>1. Unit \in Nat \ {0} /\ Unit \in Int
  BY UnitPositive
<1>2. Encloses(Times(x, y), n * m, Unit * (d * k))
  BY TimesEncloses
<1>3. Unit * (d * k) = e * Unit
  BY <1>1
<1>4. Encloses(Times(x, y), r * Unit, e * Unit)
  BY <1>2, <1>3
<1> QED BY <1>1, <1>4, Cancelled

\* 3/2 is a multiple of 1/Unit.
LEMMA ThreeHalves == (3 * Unit) \div 2 \in Int /\ 2 * ((3 * Unit) \div 2) = 3 * Unit
<1> DEFINE k == Q \div 2
           U == Unit
<1>1. Q \in Nat \ {0} /\ Q % 2 = 0 /\ U = Q * Q
  BY WitnessAssumption DEF Unit
<1>2. k \in Int /\ Q = 2 * k
  BY <1>1
<1> HIDE DEF k
<1> DEFINE j == 3 * (k * Q)
<1>3. j \in Int /\ 3 * U = 2 * j
  BY <1>1, <1>2
<1> HIDE DEF U, j
<1>4. (2 * j) \div 2 = j
  BY <1>3
<1> QED BY <1>3, <1>4 DEF U

\* The Schwarzian derivative, from the quotients f'''/f' and f''/f'.
LEMMA SchwarzianEnclosed ==
  ASSUME NEW as \in Int \X Int, NEW p \in Int, ~ContainsZero(FirstInterval(as, p))
  PROVE  /\ 2 * F1(as, p) * F1(as, p) \in Nat \ {0}
         /\ 12 * as[2] * F1(as, p) - 3 * F2(as, p) * F2(as, p) \in Int
         /\ Encloses(SchwarzianInterval(as, p),
                     (12 * as[2] * F1(as, p) - 3 * F2(as, p) * F2(as, p)) * (Unit * Unit),
                     2 * F1(as, p) * F1(as, p))
<1> DEFINE T == Abs(F1(as, p))
           s == Sign(F1(as, p))
           M1 == F1(as, p)
           M2 == F2(as, p)
           b == as[2]
           U == Unit
           h == (3 * U) \div 2
           R == RatioInterval(as, p)
           O == Over(ThirdInterval(as, p), FirstInterval(as, p))
           A == Times(Thin(h), R)
           C == Times(A, R)
           x == Minus(O, C)
<1>1. Q \in Nat \ {0} /\ Q \in Int /\ U \in Nat \ {0} /\ U \in Int /\ U = Q * Q
  BY ScalePositive, UnitPositive
<1>2. M2 \in Int /\ Encloses(SecondInterval(as, p), M2, 1)
  BY SecondDerivativeEnclosed DEF SecondInterval
<1>3. b \in Int /\ b * Q \in Int /\ 6 * (b * Q) \in Int /\ Encloses(ThirdInterval(as, p), 6 * (b * Q), 1)
  <2>1. b \in Int /\ Float(b) = b * Q
    BY DEF Float
  <2> HIDE DEF b
  <2>2. b * Q \in Int /\ 6 * (b * Q) \in Int
    BY <1>1, <2>1
  <2>3. Encloses(PolyInterval(<<Float(b)>>, <<6>>, Thin(Float(p))), 6 * Float(b), 1)
    BY <2>1, ThirdDerivativeEnclosed
  <2>4. Encloses(ThirdInterval(as, p), 6 * Float(b), 1)
    BY <2>3 DEF ThirdInterval, b
  <2> QED BY <2>1, <2>2, <2>4
<1>4. /\ s \in {1, -1} /\ T \in Nat \ {0} /\ M1 \in Int /\ s * T = M1
      /\ Encloses(R, s * (M2 * (U * Q)), T)
  BY <1>2, OverFirst DEF RatioInterval
<1>5. Encloses(O, s * ((6 * (b * Q)) * (U * Q)), T)
  BY <1>3, OverFirst
<1>6. h \in Int /\ 2 * h = 3 * U /\ Encloses(Thin(h), h, 1)
  BY ThreeHalves, ThinEncloses
<1>7. SchwarzianInterval(as, p) = x
  BY DEF SchwarzianInterval
<1> HIDE DEF T, s, M1, M2, b, U, h, R, O
<1> DEFINE nR == s * (M2 * (U * Q))
           nA == h * (s * (M2 * Q))
           nC == (h * (M2 * M2)) * U
           nO == s * ((6 * b) * (U * U))
           dC == T * T
<1>8. s \in Int /\ T \in Int /\ s * s = 1 /\ dC \in Nat \ {0} /\ dC = M1 * M1
  <2>1. s * s = 1 /\ s \in Int
    BY <1>4
  <2>2. (s * T) * (s * T) = (s * s) * (T * T)
    BY <1>4, <2>1
  <2>3. T * T \in Nat \ {0}
    BY <1>4
  <2> QED BY <1>4, <2>1, <2>2, <2>3
<1>9. nR \in Int /\ nA \in Int /\ nC \in Int /\ nO \in Int
  BY <1>1, <1>2, <1>3, <1>6, <1>8
<1>10. nA * U = h * nR
  BY <1>1, <1>2, <1>6, <1>8
<1>11. nC * U = nA * nR
  <2>1. nA * nR = (s * s) * ((h * (M2 * M2)) * (U * (Q * Q)))
    BY <1>1, <1>2, <1>6, <1>8
  <2>2. (h * (M2 * M2)) * (U * (Q * Q)) = nC * U
    BY <1>1, <1>2, <1>6
  <2>3. (h * (M2 * M2)) * (U * (Q * Q)) \in Int
    BY <1>1, <1>2, <1>6
  <2> QED BY <1>8, <2>1, <2>2, <2>3
<1>12. s * ((6 * (b * Q)) * (U * Q)) = nO
  BY <1>1, <1>3, <1>8
<1> DEFINE S == 12 * b * M1 - 3 * M2 * M2
           N == S * (U * U)
           D == 2 * M1 * M1
           nx == nO * dC - nC * T
           dx == T * dC
           k == 2
<1>13. S \in Int /\ N \in Int /\ D \in Nat \ {0} /\ nx \in Int /\ dx \in Nat \ {0} /\ D = k * dC
  BY <1>1, <1>2, <1>3, <1>4, <1>8, <1>9
<1>14. N * T = nx * k /\ D * T = dx * k
  <2>1. nO * dC = ((s * T) * ((6 * b) * (U * U))) * T
    BY <1>1, <1>3, <1>8
  <2>2. (nO * dC) * 2 = (M1 * ((12 * b) * (U * U))) * T
    BY <1>1, <1>3, <1>4, <2>1
  <2>3. (nC * T) * 2 = (((2 * h) * (M2 * M2)) * U) * T
    BY <1>1, <1>2, <1>6, <1>8
  <2>4. (nC * T) * 2 = ((3 * M2 * M2) * (U * U)) * T
    BY <1>1, <1>2, <1>6, <1>8, <2>3
  <2>5. nO * dC \in Int /\ nC * T \in Int
    BY <1>8, <1>9
  <2>6. N * T = (M1 * ((12 * b) * (U * U))) * T - ((3 * M2 * M2) * (U * U)) * T
    BY <1>1, <1>2, <1>3, <1>4, <1>8
  <2>7. (nO * dC - nC * T) * 2 = (nO * dC) * 2 - (nC * T) * 2
    BY <2>5
  <2>8. D * T = dx * k
    BY <1>4, <1>8
  <2> QED BY <2>2, <2>4, <2>6, <2>7, <2>8
<1> HIDE DEF A
<1>15. Encloses(A, nA, T)
  <2> DEFINE one == 1
  <2>1. one \in Nat \ {0} /\ Encloses(Thin(h), h, one) /\ T = one * T
    BY <1>6, <1>8
  <2>2. Encloses(R, nR, T)
    BY <1>4
  <2> HIDE DEF one, nR, nA
  <2> QED BY <1>4, <1>6, <1>9, <1>10, <2>1, <2>2, ProductGiven DEF A, U
<1> HIDE DEF C
<1>16. Encloses(C, nC, dC)
  <2>1. Encloses(R, nR, T)
    BY <1>4
  <2>2. dC = T * T
    OBVIOUS
  <2> HIDE DEF nR, nA, nC, dC
  <2> QED BY <1>4, <1>8, <1>9, <1>11, <1>15, <2>1, <2>2, ProductGiven DEF C, U
<1>17. Encloses(O, nO, T)
  BY <1>5, <1>12
<1>18. Encloses(x, nx, dx)
  <2> HIDE DEF nO, nC, dC
  <2> QED BY <1>4, <1>8, <1>9, <1>16, <1>17, PlusEncloses
<1>19. Encloses(x, N, D)
  <2> HIDE DEF x, N, D, nx, dx
  <2>1. k \in Nat \ {0} /\ T \in Nat \ {0}
    BY <1>4
  <2>2. Encloses(x, N * T, D * T)
    BY <1>13, <1>14, <1>18, <2>1, Expanded
  <2> QED BY <1>13, <2>1, <2>2, Cancelled
<1> QED BY <1>7, <1>13, <1>19 DEF M1, M2, b, U

\* nehari_univalent: (1 - |z|^2)^2 |S f(z)|.
LEMMA NehariEnclosed ==
  ASSUME NEW as \in Int \X Int, NEW p \in Int, ~ContainsZero(FirstInterval(as, p)),
         NEW q, q = Quantity(as, p, "nehari_univalent")
  PROVE  q.num \in Int /\ q.den \in Nat \ {0} /\ Encloses(NehariInterval(as, p), q.num, q.den)
<1> DEFINE U == Unit
           W == WeightInterval(p)
           w == U - p * p
           S == 12 * as[2] * F1(as, p) - 3 * F2(as, p) * F2(as, p)
           D == 2 * F1(as, p) * F1(as, p)
           X == SchwarzianInterval(as, p)
           G == Magnitude(X)
           V == Times(W, W)
           x == Times(V, G)
           k == Abs(S)
           N == w * w * k
<1>1. U \in Nat \ {0} /\ U \in Int
  BY UnitPositive
<1>2. D \in Nat \ {0} /\ S \in Int /\ Encloses(X, S * (U * U), D)
  BY SchwarzianEnclosed
<1>3. p * p \in Int /\ w \in Int /\ Encloses(W, w, 1)
  BY <1>1, WeightEnclosed
<1>4. q = Fraction(N, D)
  BY DEF Quantity
<1>5. x = NehariInterval(as, p)
  BY DEF NehariInterval
<1> HIDE DEF U, W, w, S, D, X
<1>6. U * U \in Nat \ {0} /\ S * (U * U) \in Int /\ k \in Nat /\ Abs(S * (U * U)) = k * (U * U)
  <2>1. U * U \in Nat \ {0} /\ U * U \in Nat
    BY <1>1
  <2> DEFINE c == U * U
  <2>2. c \in Nat /\ c \in Int
    BY <2>1
  <2> HIDE DEF c
  <2>3. k \in Nat /\ Abs(S * c) = k * c
    BY <1>2, <2>2, AbsoluteProduct
  <2>4. S * c \in Int
    BY <1>2, <2>2
  <2> QED BY <2>1, <2>3, <2>4 DEF c
<1>7. Encloses(G, k * (U * U), D)
  <2> DEFINE n == S * (U * U)
  <2>1. n \in Int /\ Encloses(X, n, D) /\ Abs(n) = k * (U * U)
    BY <1>2, <1>6
  <2> HIDE DEF n
  <2>2. Encloses(G, Abs(n), D)
    BY <1>2, <2>1, MagnitudeEncloses
  <2> QED BY <2>1, <2>2
<1> HIDE DEF G, k
<1>8. w * w \in Int /\ Encloses(V, w * w, U)
  <2> DEFINE one == 1
             v == w * w
  <2>1. one \in Nat \ {0} /\ Encloses(W, w, one) /\ v \in Int
    BY <1>3
  <2> HIDE DEF one
  <2>2. Encloses(V, v, U * (one * one))
    BY <1>3, <2>1, TimesEncloses DEF U
  <2>3. U * (one * one) = U
    BY <1>1 DEF one
  <2> QED BY <2>1, <2>2, <2>3
<1> HIDE DEF V
<1>9. Encloses(x, (w * w) * (k * (U * U)), U * (U * D))
  <2> DEFINE v == w * w
             m == k * (U * U)
  <2>1. v \in Int /\ m \in Int /\ Encloses(V, v, U) /\ Encloses(G, m, D)
    BY <1>6, <1>7, <1>8
  <2> HIDE DEF v, m
  <2>2. Encloses(x, v * m, U * (U * D))
    BY <1>1, <1>2, <2>1, TimesEncloses DEF U
  <2> QED BY <2>2 DEF v, m
<1> DEFINE c == U * U
<1>10. N \in Int /\ c \in Nat \ {0} /\ (w * w) * (k * (U * U)) = N * c /\ U * (U * D) = D * c
  <2>1. k \in Int /\ D \in Int
    BY <1>2, <1>6
  <2> QED BY <1>1, <1>3, <1>6, <2>1
<1> DEFINE r == (w * w) * (k * (U * U))
           e == U * (U * D)
<1>11. r \in Int /\ e \in Int /\ e > 0 /\ r = N * c /\ e = D * c /\ c \in Int /\ D \in Int
  <2>1. D * c \in Nat \ {0} /\ N * c \in Int
    <3> HIDE DEF N, c
    <3> QED BY <1>2, <1>10
  <2> QED BY <1>2, <1>10, <2>1
<1> HIDE DEF x, N, c, r, e
<1>12. Encloses(x, r, e)
  BY <1>9 DEF r, e
<1>13. q.num \in Int /\ q.den \in Nat \ {0} /\ Encloses(x, q.num, q.den)
  BY <1>4, <1>10, <1>11, <1>12, Reduced
<1> QED BY <1>5, <1>13

-----------------------------------------------------------------------------
(* _evaluate_certified: the enclosure of a criterion and what it certifies. *)

Criteria == {"starlike", "becker_univalent", "nehari_univalent"}
Enclosure == [resolved : BOOLEAN, lower : Int, upper : Int, threshold : Int, certified : BOOLEAN]
Threshold(c) ==
  IF c = "starlike" THEN 0 ELSE IF c = "becker_univalent" THEN Unit ELSE 2 * Unit

\* At the centre z f'(z) / f(z) is 1.
LEMMA CentreEnclosed ==
  ASSUME NEW as \in Int \X Int, NEW q, q = Quantity(as, 0, "starlike")
  PROVE  q.num \in Int /\ q.den \in Nat \ {0} /\ Encloses(Thin(Unit), q.num, q.den)
<1> DEFINE U == Unit
           d == Q * U
           n == d * U
           x == Thin(U)
<1>1. Q \in Nat \ {0} /\ U \in Nat \ {0} /\ U \in Int /\ Encloses(x, U, 1)
  BY ScalePositive, UnitPositive, ThinEncloses
<1>2. F0(as, 0) = d /\ F1(as, 0) = d
  <2> DEFINE a == as[1]
             b == as[2]
  <2>1. a \in Int /\ b \in Int
    OBVIOUS
  <2>2. F0(as, 0) = d + a * 0 * Q + b * 0 * 0 /\ F1(as, 0) = d + 2 * a * 0 * Q + 3 * b * 0 * 0
    BY DEF F0, F1
  <2> HIDE DEF U, a, b
  <2>3. a * 0 * Q = 0 /\ b * 0 * 0 = 0 /\ 2 * a * 0 * Q = 0 /\ 3 * b * 0 * 0 = 0
    BY <1>1, <2>1
  <2>4. d \in Int /\ d + 0 + 0 = d
    BY <1>1
  <2> QED BY <2>2, <2>3, <2>4
<1>3. q = Fraction(n, d)
  BY <1>2 DEF Quantity
<1> HIDE DEF U, x
<1>4. d \in Nat \ {0} /\ n \in Int /\ n = U * d /\ d = 1 * d
  BY <1>1
<1> HIDE DEF d, n
<1>5. Encloses(x, n, d)
  <2> DEFINE one == 1
  <2>1. one \in Nat \ {0} /\ Encloses(x, U, one) /\ d = one * d
    BY <1>1, <1>4
  <2> HIDE DEF one
  <2> QED BY <1>1, <1>4, <2>1, Expanded
<1> DEFINE c == 1
<1>6. c \in Int /\ n = n * c /\ d = d * c /\ d > 0 /\ d \in Int
  BY <1>4
<1> HIDE DEF c
<1>7. q.num \in Int /\ q.den \in Nat \ {0} /\ Encloses(x, q.num, q.den)
  BY <1>3, <1>4, <1>5, <1>6, Reduced
<1> QED BY <1>7 DEF x, U

\* An evaluation that resolves is one of the enclosures.
LEMMA NotUnresolved ==
  ASSUME NEW zero, NEW e, NEW x, e = IF zero THEN Unresolved ELSE x, e.resolved
  PROVE  ~zero /\ e = x
<1>1. Unresolved.resolved = FALSE
  BY DEF Unresolved
<1>2. ~zero
  <2> SUFFICES ASSUME zero PROVE FALSE
    OBVIOUS
  <2>1. e = Unresolved
    OBVIOUS
  <2> QED BY <1>1, <2>1
<1> QED BY <1>2

\* An evaluation that resolves is an enclosure of the exact value, and it
\* certifies only what that value is.
LEMMA EvaluationTrue ==
  ASSUME NEW as \in Int \X Int, NEW p \in Int, NEW c \in Criteria,
         NEW e, e = Evaluate(as, p, c), e.resolved,
         NEW q, q = Quantity(as, p, c)
  PROVE  /\ e \in Enclosure
         /\ e.lower <= FloorDiv(q.num, q.den) /\ CeilDiv(q.num, q.den) <= e.upper
         /\ e.certified => IF c = "starlike" THEN q.num <= 0 ELSE q.num > Threshold(c) * q.den
<1>0. Unit \in Nat \ {0} /\ Unit \in Int /\ 2 * Unit \in Int /\ Threshold(c) \in Int
  BY UnitPositive DEF Threshold
<1>1. ASSUME NEW x, q.num \in Int, q.den \in Nat \ {0}, Encloses(x, q.num, q.den),
             NEW sure \in BOOLEAN, e = Enclosed(x, Threshold(c), sure),
             sure => IF c = "starlike" THEN x.hi <= 0 ELSE x.lo > Threshold(c)
      PROVE  /\ e \in Enclosure
             /\ e.lower <= FloorDiv(q.num, q.den) /\ CeilDiv(q.num, q.den) <= e.upper
             /\ e.certified => IF c = "starlike" THEN q.num <= 0 ELSE q.num > Threshold(c) * q.den
  <2> DEFINE n == q.num
             d == q.den
             T == Threshold(c)
  <2>0. n \in Int /\ d \in Nat \ {0}
    BY <1>1
  <2>1. n \in Int /\ d \in Nat \ {0} /\ d \in Int /\ d > 0 /\ T \in Int
    <3> HIDE DEF n, d
    <3> QED BY <1>0, <2>0
  <2>2. x.lo \in Int /\ x.hi \in Int /\ x.lo * d <= n /\ n <= x.hi * d
    BY <1>1 DEF Encloses
  <2>3. x.lo <= FloorDiv(n, d) /\ CeilDiv(n, d) <= x.hi
    BY <1>1, <2>1, EnclosureRounded
  <2>4. e = [resolved |-> TRUE, lower |-> x.lo, upper |-> x.hi, threshold |-> T, certified |-> sure]
    BY <1>1 DEF Enclosed
  <2> HIDE DEF n, d, T
  <2>5. e \in Enclosure /\ e.lower = x.lo /\ e.upper = x.hi /\ e.certified = sure
    BY <1>1, <2>1, <2>2, <2>4 DEF Enclosure
  <2>6. x.hi <= 0 => n <= 0
    <3>1. x.hi <= 0 => x.hi * d <= 0 * d
      BY <2>1, <2>2, Monotone
    <3>2. 0 * d = 0 /\ x.hi * d \in Int
      BY <2>1, <2>2
    <3> QED BY <2>1, <2>2, <3>1, <3>2
  <2>7. x.lo > T => n > T * d
    <3>1. x.lo > T => (T + 1) * d <= x.lo * d
      BY <2>1, <2>2, Monotone
    <3>2. (T + 1) * d = T * d + d /\ T * d \in Int /\ x.lo * d \in Int
      BY <2>1, <2>2
    <3> QED BY <2>1, <2>2, <3>1, <3>2
  <2>8. e.certified => IF c = "starlike" THEN n <= 0 ELSE n > T * d
    BY <1>1, <2>5, <2>6, <2>7 DEF T
  <2> QED BY <2>3, <2>5, <2>8 DEF n, d, T
<1>2. CASE c = "starlike"
  <2>1. CASE p = 0
    <3>1. e = Enclosed(Thin(Unit), 0, FALSE)
      BY <1>2, <2>1, Evaluated
    <3>2. q.num \in Int /\ q.den \in Nat \ {0} /\ Encloses(Thin(Unit), q.num, q.den)
      BY <1>2, <2>1, CentreEnclosed
    <3>3. Threshold(c) = 0
      BY <1>2 DEF Threshold
    <3> QED BY <1>1, <3>1, <3>2, <3>3
  <2>2. CASE p # 0
    <3> DEFINE x == StarlikeInterval(as, p)
               sure == AtMost(x, 0)
    <3> DEFINE zero == ContainsZero(ValueInterval(as, p))
    <3>1. e = IF zero THEN Unresolved ELSE Enclosed(x, 0, sure)
      BY <1>2, <2>2, Evaluated
    <3>2. ~zero /\ e = Enclosed(x, 0, sure)
      <4> HIDE DEF zero, x, sure
      <4> QED BY <3>1, NotUnresolved
    <3>3. q.num \in Int /\ q.den \in Nat \ {0} /\ Encloses(x, q.num, q.den)
      BY <1>2, <3>2, StarlikeEnclosed
    <3>4. Threshold(c) = 0
      BY <1>2 DEF Threshold
    <3> HIDE DEF x
    <3>5. sure \in BOOLEAN /\ (sure => x.hi <= 0)
      BY <3>3 DEF AtMost, Encloses
    <3> HIDE DEF sure
    <3> QED BY <1>1, <1>2, <3>2, <3>3, <3>4, <3>5
  <2> QED BY <2>1, <2>2
<1>3. CASE c = "becker_univalent"
  <2> DEFINE x == BeckerInterval(as, p)
             T == Unit
             sure == Exceeds(x, T)
             zero == ContainsZero(FirstInterval(as, p))
  <2>1. e = IF zero THEN Unresolved ELSE Enclosed(x, T, sure)
    BY <1>3, Evaluated
  <2>2. ~zero /\ e = Enclosed(x, T, sure)
    <3> HIDE DEF zero, x, sure, T
    <3> QED BY <2>1, NotUnresolved
  <2>3. q.num \in Int /\ q.den \in Nat \ {0} /\ Encloses(x, q.num, q.den)
    BY <1>3, <2>2, BeckerEnclosed
  <2>4. Threshold(c) = T /\ T \in Int /\ c # "starlike"
    BY <1>0, <1>3 DEF Threshold
  <2> HIDE DEF x, T
  <2>5. sure \in BOOLEAN /\ (sure => x.lo > T)
    BY <2>3, <2>4 DEF Exceeds, Encloses
  <2> HIDE DEF sure
  <2> QED BY <1>1, <2>2, <2>3, <2>4, <2>5
<1>4. CASE c = "nehari_univalent"
  <2> DEFINE x == NehariInterval(as, p)
             T == 2 * Unit
             sure == Exceeds(x, T)
             zero == ContainsZero(FirstInterval(as, p))
  <2>1. e = IF zero THEN Unresolved ELSE Enclosed(x, T, sure)
    BY <1>4, Evaluated
  <2>2. ~zero /\ e = Enclosed(x, T, sure)
    <3> HIDE DEF zero, x, sure, T
    <3> QED BY <2>1, NotUnresolved
  <2>3. q.num \in Int /\ q.den \in Nat \ {0} /\ Encloses(x, q.num, q.den)
    BY <1>4, <2>2, NehariEnclosed
  <2>4. Threshold(c) = T /\ T \in Int /\ c # "starlike"
    BY <1>0, <1>4 DEF Threshold
  <2> HIDE DEF x, T
  <2>5. sure \in BOOLEAN /\ (sure => x.lo > T)
    BY <2>3, <2>4 DEF Exceeds, Encloses
  <2> HIDE DEF sure
  <2> QED BY <1>1, <2>2, <2>3, <2>4, <2>5
<1> QED BY <1>2, <1>3, <1>4 DEF Criteria

=============================================================================
