---------------------------- MODULE WeightProofs ----------------------------
(***************************************************************************)
(* Facts about the weights that hold for every sum of milli-nats and every *)
(* pool: the likelihood never decreases with the evidence, and neither     *)
(* integer division nor the largest-remainder rule puts a color with less  *)
(* of it ahead of one with more.                                           *)
(***************************************************************************)
EXTENDS WeightsProps, VoteDecision, SumTheorems

(* The table as arithmetic facts.                                          *)
LEMMA Points ==
  /\ Tbl[1] = 0 /\ Tbl[2] = 1 /\ Tbl[3] = 2 /\ Tbl[4] = 7 /\ Tbl[5] = 18
  /\ Tbl[6] = 47 /\ Tbl[7] = 119 /\ Tbl[8] = 269 /\ Tbl[9] = 500
  /\ Tbl[10] = 731 /\ Tbl[11] = 881 /\ Tbl[12] = 953 /\ Tbl[13] = 982
  /\ Tbl[14] = 993 /\ Tbl[15] = 998 /\ Tbl[16] = 999 /\ Tbl[17] = 1000
BY DEF Tbl

Cells15(i) == i \in Int /\ 0 <= i /\ i <= 15
Thousandths(f) == f \in Int /\ 0 <= f /\ f < 1000

LEMMA SixteenCells ==
  ASSUME NEW i, Cells15(i)
  PROVE  \/ i = 0 \/ i = 1 \/ i = 2 \/ i = 3 \/ i = 4 \/ i = 5 \/ i = 6 \/ i = 7
         \/ i = 8 \/ i = 9 \/ i = 10 \/ i = 11 \/ i = 12 \/ i = 13 \/ i = 14
         \/ i = 15
BY DEF Cells15

LEMMA PointsOrdered ==
  ASSUME NEW i, Cells15(i)
  PROVE  /\ Tbl[i + 1] \in Int /\ 0 <= Tbl[i + 1]
         /\ Tbl[i + 1] <= Tbl[i + 2]
         /\ Tbl[i + 2] \in Int /\ Tbl[i + 2] <= 1000
BY SixteenCells, Points

LEMMA TableGrows ==
  ASSUME NEW i, Cells15(i), NEW j, Cells15(j), i + 1 <= j
  PROVE  Tbl[i + 2] <= Tbl[j + 1]
BY SixteenCells, Points

(* Interpolation stays between its two points and does not decrease.       *)
LEMMA Products ==
  ASSUME NEW d \in Int, 0 <= d, NEW f \in Int, NEW g \in Int, f <= g
  PROVE  d * f \in Int /\ d * g \in Int /\ d * f <= d * g
OBVIOUS
LEMMA Quotients ==
  ASSUME NEW p \in Int, NEW q \in Int, p <= q
  PROVE  p \div 1000 \in Int /\ q \div 1000 \in Int /\ p \div 1000 <= q \div 1000
OBVIOUS
LEMMA WholeQuotient ==
  ASSUME NEW d \in Int
  PROVE  (d * 0) \div 1000 = 0 /\ (d * 1000) \div 1000 = d
OBVIOUS

LEMMA Interpolates ==
  ASSUME NEW i, Cells15(i), NEW f, Thousandths(f)
  PROVE  /\ Between(i, f) \in Int
         /\ Tbl[i + 1] <= Between(i, f) /\ Between(i, f) <= Tbl[i + 2]
<1> DEFINE lo == Tbl[i + 1]  hi == Tbl[i + 2]  d == hi - lo
<1>1. lo \in Int /\ hi \in Int /\ d \in Int /\ 0 <= d /\ lo + d = hi
  BY PointsOrdered
<1>2. Between(i, f) = lo + (d * f) \div 1000
  BY DEF Between, Whole
<1> HIDE DEF lo, hi, d
<1>3. f \in Int /\ 0 <= f /\ f <= 1000
  BY DEF Thousandths
<1>4. /\ d * f \in Int /\ d * 0 \in Int /\ d * 1000 \in Int
      /\ d * 0 <= d * f /\ d * f <= d * 1000
  BY <1>1, <1>3, Products
<1>5. /\ (d * f) \div 1000 \in Int
      /\ 0 <= (d * f) \div 1000 /\ (d * f) \div 1000 <= d
  BY <1>1, <1>4, Quotients, WholeQuotient
<1>6. /\ Between(i, f) \in Int
      /\ lo <= Between(i, f) /\ Between(i, f) <= hi
  BY <1>1, <1>2, <1>5
<1> QED BY <1>6 DEF lo, hi

LEMMA InterpolationGrows ==
  ASSUME NEW i, Cells15(i), NEW f, Thousandths(f), NEW g, Thousandths(g), f <= g
  PROVE  Between(i, f) <= Between(i, g)
<1> DEFINE lo == Tbl[i + 1]  hi == Tbl[i + 2]  d == hi - lo
<1>1. lo \in Int /\ d \in Int /\ 0 <= d
  BY PointsOrdered
<1>2. /\ Between(i, f) = lo + (d * f) \div 1000
      /\ Between(i, g) = lo + (d * g) \div 1000
  BY DEF Between, Whole
<1> HIDE DEF lo, hi, d
<1>3. d * f \in Int /\ d * g \in Int /\ d * f <= d * g
  BY <1>1, Products DEF Thousandths
<1>4. /\ (d * f) \div 1000 \in Int /\ (d * g) \div 1000 \in Int
      /\ (d * f) \div 1000 <= (d * g) \div 1000
  BY <1>3, Quotients
<1> QED BY <1>1, <1>2, <1>4

(* Where a sum falls in the table.                                         *)
Cell(x) == (Clamped(x) + Bound) \div Whole
Frac(x) == (Clamped(x) + Bound) % Whole

LEMMA Cells ==
  ASSUME NEW x \in Int
  PROVE  /\ Cell(x) \in Int /\ 0 <= Cell(x) /\ Cell(x) <= 16
         /\ Thousandths(Frac(x))
         /\ Clamped(x) \in Int
         /\ Clamped(x) + Bound = 1000 * Cell(x) + Frac(x)
         /\ Logistic(x) = IF Cell(x) >= 16 THEN 1000 ELSE Between(Cell(x), Frac(x))
<1>1. Clamped(x) \in Int /\ -8000 <= Clamped(x) /\ Clamped(x) <= 8000
  BY DEF Clamped, Bound
<1> DEFINE s == Clamped(x) + Bound
<1>2. s \in Int /\ 0 <= s /\ s <= 16000
  BY <1>1 DEF Bound
<1>3. /\ Logistic(x) = IF s \div 1000 >= 16 THEN Tbl[17]
                       ELSE Between(s \div 1000, s % 1000)
      /\ Cell(x) = s \div 1000 /\ Frac(x) = s % 1000
  BY DEF Logistic, Whole, Cell, Frac
<1>4. s = Clamped(x) + Bound
  OBVIOUS
<1> HIDE DEF s
<1>5. /\ s \div 1000 \in Int /\ 0 <= s \div 1000 /\ s \div 1000 <= 16
      /\ s % 1000 \in Int /\ 0 <= s % 1000 /\ s % 1000 < 1000
      /\ s = 1000 * (s \div 1000) + (s % 1000)
  BY <1>2
<1>6. s = 1000 * Cell(x) + Frac(x) /\ Thousandths(Frac(x))
  BY <1>3, <1>5 DEF Thousandths
<1>7. Logistic(x) = IF Cell(x) >= 16 THEN 1000 ELSE Between(Cell(x), Frac(x))
  <2>1. Tbl[17] = 1000
    BY Points
  <2> QED BY <1>3, <2>1
<1>8. Cell(x) \in Int /\ 0 <= Cell(x) /\ Cell(x) <= 16
  BY <1>3, <1>5
<1>9. Clamped(x) + Bound = 1000 * Cell(x) + Frac(x)
  BY <1>4, <1>6
<1> QED BY <1>1, <1>6, <1>7, <1>8, <1>9

(* A likelihood is a per mille.                                            *)
THEOREM LogisticInRange ==
  ASSUME NEW x \in Int
  PROVE  Logistic(x) \in Int /\ 0 <= Logistic(x) /\ Logistic(x) <= Whole
<1>1. CASE Cell(x) >= 16
  BY <1>1, Cells DEF Whole
<1>2. CASE ~ (Cell(x) >= 16)
  <2>1. Cells15(Cell(x)) /\ Thousandths(Frac(x))
    BY <1>2, Cells DEF Cells15
  <2>2. /\ Between(Cell(x), Frac(x)) \in Int
        /\ Tbl[Cell(x) + 1] <= Between(Cell(x), Frac(x))
        /\ Between(Cell(x), Frac(x)) <= Tbl[Cell(x) + 2]
    BY <2>1, Interpolates
  <2>3. /\ Tbl[Cell(x) + 1] \in Int /\ 0 <= Tbl[Cell(x) + 1]
        /\ Tbl[Cell(x) + 2] \in Int /\ Tbl[Cell(x) + 2] <= 1000
    BY <2>1, PointsOrdered
  <2> QED BY <1>2, <2>2, <2>3, Cells DEF Whole
<1> QED BY <1>1, <1>2

(* More evidence, at least as much likelihood.                             *)
THEOREM LogisticMonotone ==
  ASSUME NEW x \in Int, NEW y \in Int, x <= y
  PROVE  Logistic(x) <= Logistic(y)
<1>1. Clamped(x) <= Clamped(y)
  BY DEF Clamped, Bound
<1>2. /\ Cell(x) \in Int /\ 0 <= Cell(x) /\ Cell(y) \in Int /\ 0 <= Cell(y)
      /\ Frac(x) \in Int /\ 0 <= Frac(x) /\ Frac(x) < 1000
      /\ Frac(y) \in Int /\ 0 <= Frac(y) /\ Frac(y) < 1000
      /\ 1000 * Cell(x) + Frac(x) <= 1000 * Cell(y) + Frac(y)
  BY <1>1, Cells DEF Bound, Thousandths
<1>3. CASE Cell(y) >= 16
  BY <1>3, Cells, LogisticInRange DEF Whole
<1>4. CASE Cell(y) < 16 /\ Cell(x) = Cell(y)
  <2>1. Frac(x) <= Frac(y) /\ Cells15(Cell(x))
    BY <1>2, <1>4 DEF Cells15
  <2>2. Between(Cell(x), Frac(x)) <= Between(Cell(x), Frac(y))
    BY <1>2, <2>1, InterpolationGrows DEF Thousandths
  <2> QED BY <1>2, <1>4, <2>2, Cells
<1>5. CASE Cell(y) < 16 /\ Cell(x) < Cell(y)
  <2>1. /\ Cells15(Cell(x)) /\ Cells15(Cell(y)) /\ Cell(x) + 1 <= Cell(y)
        /\ Thousandths(Frac(x)) /\ Thousandths(Frac(y))
    BY <1>2, <1>5 DEF Cells15, Thousandths
  <2>2. /\ Between(Cell(x), Frac(x)) \in Int
        /\ Between(Cell(x), Frac(x)) <= Tbl[Cell(x) + 2]
    BY <2>1, Interpolates
  <2>3. /\ Between(Cell(y), Frac(y)) \in Int
        /\ Tbl[Cell(y) + 1] <= Between(Cell(y), Frac(y))
    BY <2>1, Interpolates
  <2>4. /\ Tbl[Cell(x) + 2] <= Tbl[Cell(y) + 1]
        /\ Tbl[Cell(x) + 2] \in Int /\ Tbl[Cell(y) + 1] \in Int
    BY <2>1, TableGrows, PointsOrdered
  <2>5. Between(Cell(x), Frac(x)) <= Between(Cell(y), Frac(y))
    BY <2>2, <2>3, <2>4
  <2> QED BY <1>2, <1>5, <2>5, Cells
<1>6. Cell(x) <= Cell(y)
  BY <1>2
<1> QED BY <1>2, <1>3, <1>4, <1>5, <1>6

(***************************************************************************)
(* The shares.                                                             *)
(***************************************************************************)
LEMMA DivMod ==
  ASSUME NEW p \in Nat, NEW t \in Nat, t > 0
  PROVE  /\ p \div t \in Int /\ p % t \in Int /\ 0 <= p % t /\ p % t < t
         /\ p = t * (p \div t) + (p % t)
OBVIOUS

LEMMA LargerDividend ==
  ASSUME NEW t \in Nat, t > 0, NEW a \in Int, NEW b \in Int,
         NEW r \in Int, 0 <= r, r < t, NEW s \in Int, 0 <= s, s < t,
         t * a + r > t * b + s
  PROVE  a >= b /\ (a = b => r > s)
<1>1. CASE a < b
  <2>1. a + 1 <= b
    BY <1>1
  <2>2. t * (a + 1) <= t * b
    BY <2>1
  <2>3. t * (a + 1) = t * a + t
    OBVIOUS
  <2> QED BY <2>2, <2>3
<1>2. CASE a >= b
  BY <1>2
<1> QED BY <1>1, <1>2

(* Whoever is ahead of a served color is served.                           *)
LEMMA ServedInOrder ==
  ASSUME NEW P \in SUBSET Nat, IsFiniteSet(P), NEW rem \in [P -> Int],
         NEW left \in Int, NEW c \in P, NEW d \in P,
         Before(rem, c, d), d \in Served(rem, left)
  PROVE  c \in Served(rem, left)
<1> DEFINE Ahead(x) == {e \in P : Before(rem, e, x)}
<1>1. DOMAIN rem = P
  OBVIOUS
<1>2. Ahead(c) \subseteq Ahead(d)
  <2> SUFFICES ASSUME NEW e \in P, Before(rem, e, c)
               PROVE  Before(rem, e, d)
    OBVIOUS
  <2>1. rem[e] \in Int /\ rem[c] \in Int /\ rem[d] \in Int
    OBVIOUS
  <2>2. e \in Nat /\ c \in Nat /\ d \in Nat
    OBVIOUS
  <2> QED BY <2>1, <2>2 DEF Before
<1>3. IsFiniteSet(Ahead(d))
  BY FS_Subset
<1>4. /\ Cardinality(Ahead(c)) \in Nat /\ Cardinality(Ahead(d)) \in Nat
      /\ Cardinality(Ahead(c)) <= Cardinality(Ahead(d))
  BY <1>2, <1>3, FS_Subset, FS_CardinalityType
<1>5. Cardinality(Ahead(d)) < left
  BY <1>1 DEF Served
<1>6. Cardinality(Ahead(c)) < left
  BY <1>4, <1>5
<1> QED BY <1>1, <1>6 DEF Served

(* A pool of ranks and their likelihoods.                                  *)
Pooled(P, lik) == P \in SUBSET Nat /\ IsFiniteSet(P) /\ lik \in [P -> Nat]

LEMMA Totals ==
  ASSUME NEW P, IsFiniteSet(P), NEW f, f \in [P -> Nat]
  PROVE  /\ Total(f) = SumFunctionOnSet(f, P) /\ Total(f) \in Nat
         /\ Integral(f, P) /\ \A c \in P : f[c] <= Total(f)
<1>1. Total(f) = SumFunctionOnSet(f, P)
  BY DEF Total, SumFunction
<1>2. \A c \in P : f[c] \in Nat
  OBVIOUS
<1> QED
  BY <1>1, <1>2, SumNatural DEF Integral

(* Integer division, color by color.                                       *)
LEMMA Divided ==
  ASSUME NEW P, NEW lik, Pooled(P, lik), Total(lik) > 0
  PROVE  /\ Unrounded(lik) \in [P -> Nat] /\ Remainder(lik) \in [P -> Nat]
         /\ \A c \in P : /\ Remainder(lik)[c] < Total(lik)
                         /\ Whole * lik[c]
                              = Total(lik) * Unrounded(lik)[c] + Remainder(lik)[c]
<1> DEFINE t == Total(lik)
<1>1. t \in Nat /\ t > 0
  BY Totals DEF Pooled
<1>2. ASSUME NEW c \in P
      PROVE  /\ (lik[c] * Whole) \div t \in Nat /\ (lik[c] * Whole) % t \in Nat
             /\ (lik[c] * Whole) % t < t
             /\ Whole * lik[c] = t * ((lik[c] * Whole) \div t) + ((lik[c] * Whole) % t)
  <2> DEFINE p == lik[c] * Whole
  <2>1. p \in Nat /\ Whole * lik[c] = p
    BY DEF Pooled, Whole
  <2> HIDE DEF p, t
  <2>2. /\ p \div t \in Int /\ p % t \in Int /\ 0 <= p % t /\ p % t < t
        /\ p = t * (p \div t) + (p % t)
    BY <1>1, <2>1, DivMod
  <2>3. p \div t \in Nat
    BY <1>1, <2>1
  <2>4. /\ p \div t \in Nat /\ p % t \in Nat /\ p % t < t
        /\ Whole * lik[c] = t * (p \div t) + (p % t)
    BY <2>1, <2>2, <2>3
  <2> QED BY <2>4 DEF p
<1>3. DOMAIN lik = P
  BY DEF Pooled
<1>4. /\ Unrounded(lik) = [c \in P |-> (lik[c] * Whole) \div t]
      /\ Remainder(lik) = [c \in P |-> (lik[c] * Whole) % t]
  BY <1>3 DEF Unrounded, Remainder
<1> HIDE DEF t
<1>5. \A c \in P : /\ Unrounded(lik)[c] = (lik[c] * Whole) \div t
                   /\ Remainder(lik)[c] = (lik[c] * Whole) % t
  BY <1>4
<1>6. Unrounded(lik) \in [P -> Nat] /\ Remainder(lik) \in [P -> Nat]
  BY <1>2, <1>4
<1>7. \A c \in P : /\ Remainder(lik)[c] < t
                   /\ Whole * lik[c] = t * Unrounded(lik)[c] + Remainder(lik)[c]
  BY <1>2, <1>5
<1> QED
  BY <1>6, <1>7 DEF t

LEMMA LeastFactor ==
  ASSUME NEW t \in Nat, t > 0, NEW a \in Int, NEW b \in Int, t * a <= t * b
  PROVE  a <= b
<1>1. CASE b < a
  <2>1. b + 1 <= a /\ a - (b + 1) \in Nat
    BY <1>1
  <2>2. t * (a - (b + 1)) >= 0
    BY <2>1
  <2>3. t * a = t * (a - (b + 1)) + t * b + t
    OBVIOUS
  <2>4. t * a \in Int /\ t * b \in Int /\ t * (a - (b + 1)) \in Int
    OBVIOUS
  <2> QED BY <2>2, <2>3, <2>4
<1> QED
  BY <1>1

(* What the division leaves: fewer units than there are colors with a      *)
(* remainder.                                                              *)
LeftOver(lik) == Whole - Total(Unrounded(lik))

LEMMA UnitsLeft ==
  ASSUME NEW P, NEW lik, Pooled(P, lik), Total(lik) > 0
  PROVE  /\ LeftOver(lik) \in Nat
         /\ LeftOver(lik) <= Cardinality({c \in P : Remainder(lik)[c] > 0})
         /\ LeftOver(lik) <= Cardinality(P)
<1> DEFINE t == Total(lik)
           base == Unrounded(lik)
           rem == Remainder(lik)
           left == LeftOver(lik)
           some == {c \in P : rem[c] > 0}
           sums == SumFunctionOnSet(rem, P)
           whole == [c \in P |-> Whole * lik[c] + 0]
           zero == [c \in P |-> 0]
           one == [c \in P |-> IF c \in some THEN 1 ELSE 0]
           full == [c \in P |-> t * one[c] + zero[c]]
<1>1. IsFiniteSet(P) /\ t \in Nat /\ t > 0 /\ Integral(lik, P)
      /\ t = SumFunctionOnSet(lik, P)
  BY Totals DEF Pooled
<1>2. /\ base \in [P -> Nat] /\ rem \in [P -> Nat]
      /\ \A c \in P : rem[c] < t /\ Whole * lik[c] = t * base[c] + rem[c]
  BY Divided
<1>3. Total(base) = SumFunctionOnSet(base, P) /\ Total(base) \in Nat /\ Integral(base, P)
  BY <1>1, <1>2, Totals
<1>4. sums \in Nat /\ Integral(rem, P)
  BY <1>1, <1>2, Totals
<1>5. left = Whole - Total(base)
  BY DEF LeftOver
<1>6. Integral(zero, P) /\ SumFunctionOnSet(zero, P) = 0
  <2>1. \A c \in P : zero[c] = 0
    OBVIOUS
  <2>2. Cardinality(P) \in Nat
    BY <1>1, FS_CardinalityType
  <2> HIDE DEF zero
  <2>3. SumFunctionOnSet(zero, P) = 0 * Cardinality(P)
    BY <1>1, <2>1, SumConstant
  <2> QED BY <2>1, <2>2, <2>3 DEF Integral
<1>7. Integral(one, P) /\ SumFunctionOnSet(one, P) = Cardinality(some)
  <2>1. some \in SUBSET P /\ \A c \in P : one[c] = IF c \in some THEN 1 ELSE 0
    OBVIOUS
  <2> HIDE DEF one, some
  <2>2. SumFunctionOnSet(one, P) = Cardinality(some)
    BY <1>1, <2>1, SumCounts
  <2> QED BY <2>1, <2>2 DEF Integral
<1>8. /\ Cardinality(some) \in Nat /\ Cardinality(P) \in Nat
      /\ Cardinality(some) <= Cardinality(P)
  <2>1. some \in SUBSET P
    OBVIOUS
  <2> HIDE DEF some
  <2> QED BY <1>1, <2>1, FS_Subset, FS_CardinalityType
<1>9. \A c \in P : one[c] = IF rem[c] > 0 THEN 1 ELSE 0
  OBVIOUS
<1>10. /\ \A c \in P : whole[c] = Whole * lik[c] + zero[c]
       /\ \A c \in P : whole[c] = t * base[c] + rem[c]
       /\ \A c \in P : full[c] = t * one[c] + zero[c]
  <2> HIDE DEF t, base, rem, one
  <2>1. \A c \in P : Whole * lik[c] \in Int
    BY DEF Pooled, Whole
  <2> QED BY <1>2, <2>1
<1> HIDE DEF t, base, rem, left, some, sums, whole, zero, one, full
<1>11. SumFunctionOnSet(whole, P) = Whole * t
  <2>1. Whole \in Int
    BY DEF Whole
  <2>2. SumFunctionOnSet(whole, P)
          = Whole * SumFunctionOnSet(lik, P) + SumFunctionOnSet(zero, P)
    BY <1>1, <1>6, <1>10, <2>1, SumLinear
  <2> QED BY <1>1, <1>6, <2>1, <2>2
<1>12. SumFunctionOnSet(whole, P) = t * Total(base) + sums
  <2>1. \A c \in P : whole[c] = t * base[c] + rem[c]
    BY <1>10
  <2>2. SumFunctionOnSet(whole, P)
          = t * SumFunctionOnSet(base, P) + SumFunctionOnSet(rem, P)
    BY <1>1, <1>3, <1>4, <2>1, SumLinear
  <2> QED BY <1>3, <2>2 DEF sums
<1>13. sums = t * left
  <2>1. Whole \in Int
    BY DEF Whole
  <2> DEFINE tb == t * Total(base)  tl == t * left
  <2>2. Whole * t = tb + tl /\ tb \in Int /\ tl \in Int
    BY <1>1, <1>3, <1>5, <2>1
  <2> HIDE DEF tb, tl
  <2>3. tb + sums = tb + tl
    BY <1>11, <1>12, <2>2 DEF tb
  <2>4. sums = tl
    BY <1>4, <2>2, <2>3
  <2> QED BY <2>4 DEF tl
<1>14. sums <= t * Cardinality(some)
  <2>1. Integral(full, P) /\ SumFunctionOnSet(full, P) = t * Cardinality(some) + 0
    BY <1>1, <1>6, <1>7, <1>10, SumLinear
  <2>2. \A c \in P : rem[c] <= full[c]
    <3> SUFFICES ASSUME NEW c \in P PROVE rem[c] <= full[c]
      OBVIOUS
    <3>1. rem[c] \in Nat /\ rem[c] < t /\ zero[c] = 0
      BY <1>2 DEF zero
    <3>2. one[c] = (IF rem[c] > 0 THEN 1 ELSE 0) /\ full[c] = t * one[c] + zero[c]
      BY <1>9, <1>10
    <3>3. CASE rem[c] > 0
      BY <1>1, <3>1, <3>2, <3>3
    <3>4. CASE rem[c] = 0
      BY <1>1, <3>1, <3>2, <3>4
    <3> QED BY <3>1, <3>3, <3>4
  <2>3. sums <= SumFunctionOnSet(full, P)
    BY <1>1, <1>4, <2>1, <2>2, SumMonotone DEF sums
  <2>4. t * Cardinality(some) \in Int
    BY <1>1, <1>8
  <2> QED BY <2>1, <2>3, <2>4
<1>15. left \in Int
  BY <1>3, <1>5 DEF Whole
<1>16. left <= Cardinality(some)
  BY <1>1, <1>8, <1>13, <1>14, <1>15, LeastFactor
<1>17. 0 <= left
  <2>1. t * 0 <= t * left
    BY <1>1, <1>4, <1>13
  <2> QED BY <1>1, <1>15, <2>1, LeastFactor
<1> QED
  BY <1>8, <1>15, <1>16, <1>17 DEF some, left, rem

(* Before orders the pool, so as many are served as units are left.        *)
LEMMA ServedCount ==
  ASSUME NEW P \in SUBSET Nat, IsFiniteSet(P), NEW rem \in [P -> Nat],
         NEW left \in Nat, left <= Cardinality(P)
  PROVE  Cardinality(Served(rem, left)) = left
<1> DEFINE R == {e \in P \X P : Before(rem, e[1], e[2])}
<1>1. \A c, d \in P : <<c, d>> \in R <=> Before(rem, c, d)
  OBVIOUS
<1>2. \A c \in P : c \in Nat /\ rem[c] \in Nat
  OBVIOUS
<1>3. /\ \A c \in P : ~ Before(rem, c, c)
      /\ \A a, b, c \in P : Before(rem, a, b) /\ Before(rem, b, c) => Before(rem, a, c)
      /\ \A a, b \in P : a # b => Before(rem, a, b) \/ Before(rem, b, a)
  BY <1>2 DEF Before
<1> HIDE DEF R
<1>4. Cardinality({c \in P : Cardinality({d \in P : <<d, c>> \in R}) < left}) = left
  <2>1. \A c \in P : <<c, c>> \notin R
    BY <1>1, <1>3
  <2>2. \A a, b, c \in P : <<a, b>> \in R /\ <<b, c>> \in R => <<a, c>> \in R
    BY <1>1, <1>3
  <2>3. \A a, b \in P : a # b => <<a, b>> \in R \/ <<b, a>> \in R
    BY <1>1, <1>3
  <2>4. Orders(R, P)
    BY <2>1, <2>2, <2>3 DEF Orders
  <2> QED BY <2>4, RankCount
<1>5. \A c \in P : {d \in P : <<d, c>> \in R} = {d \in P : Before(rem, d, c)}
  BY <1>1
<1>6. Served(rem, left) = {c \in P : Cardinality({d \in P : <<d, c>> \in R}) < left}
  <2>1. Served(rem, left) = {c \in P : Cardinality({d \in P : Before(rem, d, c)}) < left}
    BY DEF Served
  <2> QED BY <1>5, <2>1
<1> QED
  BY <1>4, <1>6

LEMMA LowestCount ==
  ASSUME NEW P \in SUBSET Nat, IsFiniteSet(P), NEW left \in Nat, left <= Cardinality(P)
  PROVE  Cardinality({c \in P : Cardinality({d \in P : d < c}) < left}) = left
<1> DEFINE R == {e \in P \X P : e[1] < e[2]}
<1>1. \A c, d \in P : <<c, d>> \in R <=> c < d
  OBVIOUS
<1> HIDE DEF R
<1>2. /\ \A c \in P : <<c, c>> \notin R
      /\ \A a, b \in P : a # b => <<a, b>> \in R \/ <<b, a>> \in R
  BY <1>1
<1>3. \A a, b, c \in P : <<a, b>> \in R /\ <<b, c>> \in R => <<a, c>> \in R
  BY <1>1
<1>4. Cardinality({c \in P : Cardinality({d \in P : <<d, c>> \in R}) < left}) = left
  <2>1. Orders(R, P)
    BY <1>2, <1>3 DEF Orders
  <2> QED BY <2>1, RankCount
<1>5. \A c \in P : {d \in P : <<d, c>> \in R} = {d \in P : d < c}
  BY <1>1
<1> QED
  BY <1>4, <1>5

(* Who gets what.                                                          *)
LEMMA ProportionalShape ==
  ASSUME NEW P, NEW lik, Pooled(P, lik), Total(lik) > 0
  PROVE  /\ DOMAIN ProportionalShares(lik) = P
         /\ OneMore(ProportionalShares(lik), Unrounded(lik),
                    Served(Remainder(lik), LeftOver(lik)), P)
         /\ Served(Remainder(lik), LeftOver(lik))
              = {c \in P : Cardinality({d \in P : Before(Remainder(lik), d, c)})
                             < LeftOver(lik)}
<1>1. Unrounded(lik) \in [P -> Nat] /\ Remainder(lik) \in [P -> Nat]
  BY Divided
<1>2. ProportionalShares(lik)
        = [c \in P |-> IF c \in Served(Remainder(lik), LeftOver(lik))
                       THEN Unrounded(lik)[c] + 1 ELSE Unrounded(lik)[c]]
  BY <1>1 DEF ProportionalShares, Topped, LeftOver
<1>3. DOMAIN Remainder(lik) = P
  BY <1>1
<1> QED
  BY <1>1, <1>2, <1>3 DEF Served, OneMore

LEMMA EqualShape ==
  ASSUME NEW P \in SUBSET Nat, IsFiniteSet(P), P # {}
  PROVE  /\ Cardinality(P) \in Nat /\ Cardinality(P) > 0
         /\ Whole \div Cardinality(P) \in Nat /\ Whole % Cardinality(P) \in Nat
         /\ Whole % Cardinality(P) < Cardinality(P)
         /\ Whole = Cardinality(P) * (Whole \div Cardinality(P))
                      + (Whole % Cardinality(P))
         /\ DOMAIN EqualShares(P) = P
         /\ OneMore(EqualShares(P), [c \in P |-> Whole \div Cardinality(P)],
                    {c \in P : Cardinality({d \in P : d < c}) < Whole % Cardinality(P)},
                    P)
<1> DEFINE n == Cardinality(P)
<1>1. n \in Nat /\ n > 0
  BY FS_EmptySet, FS_CardinalityType
<1>2. /\ Whole \div n \in Int /\ Whole % n \in Int /\ 0 <= Whole % n /\ Whole % n < n
      /\ Whole = n * (Whole \div n) + (Whole % n)
  <2>1. Whole \in Nat
    BY DEF Whole
  <2> HIDE DEF n
  <2> QED BY <1>1, <2>1, DivMod
<1>3. Whole \div n \in Nat
  <2> HIDE DEF n
  <2> QED BY <1>1 DEF Whole
<1>4. EqualShares(P)
        = [c \in P |-> Whole \div n
                      + (IF Cardinality({d \in P : d < c}) < Whole % n THEN 1 ELSE 0)]
  BY DEF EqualShares
<1>5. \A c \in P : EqualShares(P)[c]
        = (Whole \div n) + (IF Cardinality({d \in P : d < c}) < Whole % n THEN 1 ELSE 0)
  BY <1>4
<1>6. OneMore(EqualShares(P), [c \in P |-> Whole \div n],
              {c \in P : Cardinality({d \in P : d < c}) < Whole % n}, P)
  <2> HIDE DEF n
  <2> QED BY <1>5 DEF OneMore
<1> QED
  BY <1>1, <1>2, <1>3, <1>4, <1>6

(* Nothing is lost in the rounding: the shares of a pool add up to 1000,   *)
(* whatever the likelihoods are and even if all of them are 0.             *)
THEOREM SharesSumToWhole ==
  ASSUME NEW P, NEW lik, Pooled(P, lik), P # {}
  PROVE  /\ DOMAIN Shares(lik) = P /\ Shares(lik) \in [P -> Nat]
         /\ SumFunctionOnSet(Shares(lik), P) = Whole
<1>1. Total(lik) \in Nat /\ P \in SUBSET Nat /\ IsFiniteSet(P) /\ DOMAIN lik = P
  BY Totals DEF Pooled
<1>2. CASE Total(lik) > 0
  <2> DEFINE base == Unrounded(lik)
             A == Served(Remainder(lik), LeftOver(lik))
             f == ProportionalShares(lik)
  <2>1. base \in [P -> Nat] /\ Remainder(lik) \in [P -> Nat]
    BY <1>2, Divided
  <2>2. DOMAIN f = P /\ OneMore(f, base, A, P)
    BY <1>2, ProportionalShape
  <2>3. LeftOver(lik) \in Nat /\ LeftOver(lik) <= Cardinality(P)
    BY <1>2, UnitsLeft
  <2>4. Cardinality(A) = LeftOver(lik)
    BY <1>1, <2>1, <2>3, ServedCount
  <2>5. /\ Total(base) = SumFunctionOnSet(base, P) /\ Total(base) \in Nat
        /\ Integral(base, P)
    BY <1>1, <2>1, Totals
  <2>6. LeftOver(lik) = Whole - Total(base)
    BY DEF LeftOver
  <2>7. Shares(lik) = f
    BY <1>2 DEF Shares
  <2>8. f = [c \in P |-> f[c]]
    BY <2>2 DEF ProportionalShares, Topped
  <2> HIDE DEF base, A, f
  <2>9. SumFunctionOnSet(f, P) = SumFunctionOnSet(base, P) + Cardinality(A)
    BY <1>1, <2>2, <2>5, SumOneMore
  <2>10. SumFunctionOnSet(f, P) = Whole
    BY <2>3, <2>4, <2>5, <2>6, <2>9 DEF Whole
  <2>11. \A c \in P : f[c] \in Nat
    BY <2>1, <2>2 DEF OneMore
  <2> QED BY <2>2, <2>7, <2>8, <2>10, <2>11
<1>3. CASE ~ (Total(lik) > 0)
  <2> DEFINE n == Cardinality(P)
             A == {x \in P : Cardinality({d \in P : d < x}) < Whole % n}
             f == EqualShares(P)
             q == Whole \div n
             base == [c \in P |-> q]
  <2>1. /\ n \in Nat /\ n > 0 /\ q \in Nat /\ Whole % n \in Nat /\ Whole % n < n
        /\ Whole = n * q + (Whole % n)
        /\ DOMAIN f = P /\ OneMore(f, base, A, P)
    BY <1>1, EqualShape
  <2>2. Cardinality(A) = Whole % n
    <3> DEFINE left == Whole % n
    <3>1. left \in Nat /\ left <= Cardinality(P)
      BY <2>1
    <3> HIDE DEF left
    <3>2. Cardinality({c \in P : Cardinality({d \in P : d < c}) < left}) = left
      BY <1>1, <3>1, LowestCount
    <3> QED BY <3>2 DEF left
  <2>3. \A c \in P : base[c] = q
    OBVIOUS
  <2>4. Shares(lik) = f
    BY <1>1, <1>3 DEF Shares
  <2>5. f = [c \in P |-> f[c]]
    BY <1>1 DEF EqualShares
  <2> HIDE DEF n, A, f, q, base
  <2>6. Integral(base, P) /\ SumFunctionOnSet(base, P) = q * n
    <3>1. Integral(base, P) /\ q \in Int
      BY <2>1, <2>3 DEF Integral
    <3>2. SumFunctionOnSet(base, P) = q * Cardinality(P)
      BY <1>1, <2>3, <3>1, SumConstant
    <3> QED BY <3>1, <3>2 DEF n
  <2>8. SumFunctionOnSet(f, P) = q * n + (Whole % n)
    BY <1>1, <2>1, <2>2, <2>6, SumOneMore
  <2>9. q * n = n * q
    BY <2>1
  <2>10. \A c \in P : f[c] \in Nat
    BY <2>1, <2>3 DEF OneMore
  <2> QED BY <2>1, <2>4, <2>5, <2>8, <2>9, <2>10
<1> QED
  BY <1>2, <1>3

(* ... and nobody is moved by a whole unit.                                *)
THEOREM SharesWithinOne ==
  ASSUME NEW P, NEW lik, Pooled(P, lik), Total(lik) > 0, NEW c \in P
  PROVE  LET gap == Shares(lik)[c] * Total(lik) - lik[c] * Whole
         IN  -Total(lik) < gap /\ gap < Total(lik)
<1> DEFINE t == Total(lik)
           b == Unrounded(lik)[c]
           r == Remainder(lik)[c]
           s == Shares(lik)[c]
           rem == Remainder(lik)
           left == LeftOver(lik)
           some == {d \in P : rem[d] > 0}
           ahead == {d \in P : Before(rem, d, c)}
<1>1. /\ t \in Nat /\ t > 0 /\ b \in Nat /\ r \in Nat /\ r < t
      /\ Whole * lik[c] = t * b + r /\ lik[c] \in Nat
      /\ IsFiniteSet(P) /\ P \in SUBSET Nat /\ rem \in [P -> Nat]
  <2>1. /\ rem \in [P -> Nat] /\ Unrounded(lik) \in [P -> Nat] /\ r < t
        /\ Whole * lik[c] = t * b + r
    BY Divided
  <2>2. IsFiniteSet(P) /\ P \in SUBSET Nat /\ lik \in [P -> Nat]
    BY DEF Pooled
  <2>3. t \in Nat
    BY <2>2, Totals
  <2>4. b \in Nat /\ r \in Nat /\ lik[c] \in Nat
    BY <2>1, <2>2
  <2>5. t > 0
    OBVIOUS
  <2> HIDE DEF t, b, r, rem
  <2> QED BY <2>1, <2>2, <2>3, <2>4, <2>5
<1>2. left \in Nat /\ left <= Cardinality(some)
  BY UnitsLeft
<1>3. s = b + (IF c \in Served(rem, left) THEN 1 ELSE 0)
  BY ProportionalShape DEF Shares, OneMore
<1>4. c \in Served(rem, left) <=> Cardinality(ahead) < left
  BY ProportionalShape
<1>5. c \in Served(rem, left) => r > 0
  <2> SUFFICES ASSUME c \in Served(rem, left), r = 0 PROVE FALSE
    BY <1>1
  <2>1. some \subseteq ahead
    BY <1>1 DEF Before
  <2>2. ahead \in SUBSET P
    OBVIOUS
  <2> HIDE DEF some, ahead
  <2>3. Cardinality(some) <= Cardinality(ahead)
    BY <1>1, <2>1, <2>2, FS_Subset
  <2>4. Cardinality(some) \in Nat /\ Cardinality(ahead) \in Nat
    BY <1>1, <2>1, <2>2, FS_Subset, FS_CardinalityType
  <2> QED BY <1>2, <1>4, <2>3, <2>4
<1> HIDE DEF t, b, r, s, rem, left, some, ahead
<1>6. lik[c] * Whole = Whole * lik[c]
  BY <1>1 DEF Whole
<1>7. CASE c \in Served(rem, left)
  <2> DEFINE tb == t * b
  <2>1. tb \in Int /\ s * t = tb + t /\ lik[c] * Whole = tb + r
    BY <1>1, <1>3, <1>6, <1>7
  <2> HIDE DEF tb
  <2>2. s * t - lik[c] * Whole = t - r
    BY <1>1, <2>1
  <2>3. -t < t - r /\ t - r < t
    BY <1>1, <1>5, <1>7
  <2> QED BY <2>2, <2>3 DEF s, t
<1>8. CASE c \notin Served(rem, left)
  <2> DEFINE tb == t * b
  <2>1. tb \in Int /\ s * t = tb /\ lik[c] * Whole = tb + r
    BY <1>1, <1>3, <1>6, <1>8
  <2> HIDE DEF tb
  <2>2. s * t - lik[c] * Whole = -r
    BY <1>1, <2>1
  <2>3. -t < -r /\ -r < t
    BY <1>1
  <2> QED BY <2>2, <2>3 DEF s, t
<1> QED
  BY <1>7, <1>8

(***************************************************************************)
(* More likelihood for one color and the same for the others.              *)
(***************************************************************************)
Rises(P, lik, more, c) ==
  /\ Pooled(P, lik) /\ Pooled(P, more) /\ c \in P /\ lik[c] <= more[c]
  /\ \A d \in P : d # c => more[d] = lik[d]

LEMMA LesserFactor ==
  ASSUME NEW t \in Nat, t > 0, NEW a \in Int, NEW b \in Int, t * a < t * b
  PROVE  a < b
<1>1. CASE b <= a
  <2>1. a - b \in Nat
    BY <1>1
  <2>2. t * (a - b) >= 0 /\ t * (a - b) \in Int
    BY <2>1
  <2>3. t * a = t * (a - b) + t * b /\ t * b \in Int /\ t * a \in Int
    OBVIOUS
  <2> QED BY <2>2, <2>3
<1> QED
  BY <1>1

LEMMA RisenTotal ==
  ASSUME NEW P, NEW lik, NEW more, NEW c, Rises(P, lik, more, c)
  PROVE  /\ Total(lik) \in Nat /\ Total(more) \in Nat
         /\ Total(more) = Total(lik) + (more[c] - lik[c])
         /\ lik[c] \in Nat /\ more[c] \in Nat /\ lik[c] <= Total(lik)
<1>1. IsFiniteSet(P) /\ lik \in [P -> Nat] /\ more \in [P -> Nat] /\ c \in P
  BY DEF Rises, Pooled
<1>2. /\ Total(lik) = SumFunctionOnSet(lik, P) /\ Total(lik) \in Nat
      /\ Integral(lik, P) /\ lik[c] <= Total(lik)
  BY <1>1, Totals
<1>3. /\ Total(more) = SumFunctionOnSet(more, P) /\ Total(more) \in Nat
      /\ Integral(more, P)
  BY <1>1, Totals
<1> DEFINE U == P \ {c}
<1>4. /\ SumFunctionOnSet(lik, P) = lik[c] + SumFunctionOnSet(lik, U)
      /\ SumFunctionOnSet(lik, U) \in Int
  BY <1>1, <1>2, SumRemove
<1>5. SumFunctionOnSet(more, P) = more[c] + SumFunctionOnSet(more, U)
  BY <1>1, <1>3, SumRemove
<1>6. IsFiniteSet(U) /\ Integral(lik, U) /\ \A d \in U : more[d] = lik[d]
  BY <1>1, <1>2, FS_Subset DEF Integral, Rises
<1> HIDE DEF U
<1>7. SumFunctionOnSet(more, U) = SumFunctionOnSet(lik, U)
  BY <1>6, SumLocal
<1>8. lik[c] \in Nat /\ more[c] \in Nat
  BY <1>1
<1> QED
  BY <1>2, <1>3, <1>4, <1>5, <1>7, <1>8

(* Its quotient does not fall, those of the others do not rise; where the  *)
(* quotient stays, the remainder moves the same way.                       *)
LEMMA RisenQuotients ==
  ASSUME NEW P, NEW lik, NEW more, NEW c, Rises(P, lik, more, c), Total(lik) > 0
  PROVE  /\ Unrounded(lik)[c] <= Unrounded(more)[c]
         /\ Unrounded(lik)[c] = Unrounded(more)[c]
              => Remainder(lik)[c] <= Remainder(more)[c]
         /\ \A d \in P : d # c =>
              /\ Unrounded(more)[d] <= Unrounded(lik)[d]
              /\ Unrounded(more)[d] = Unrounded(lik)[d]
                   => Remainder(more)[d] <= Remainder(lik)[d]
<1> DEFINE t == Total(lik)  u == Total(more)  g == more[c] - lik[c]
           b == Unrounded(lik)  r == Remainder(lik)
           bb == Unrounded(more)  rr == Remainder(more)
<1>1. /\ t \in Nat /\ t > 0 /\ u \in Nat /\ g \in Nat /\ u = t + g
      /\ lik[c] \in Nat /\ lik[c] <= t /\ more[c] = lik[c] + g
  BY RisenTotal DEF Rises
<1>2. /\ Pooled(P, lik) /\ Pooled(P, more) /\ c \in P
      /\ \A d \in P : d # c => more[d] = lik[d]
  BY DEF Rises
<1>3. u > 0
  BY <1>1
<1>4. /\ b \in [P -> Nat] /\ r \in [P -> Nat]
      /\ \A d \in P : r[d] < t /\ Whole * lik[d] = t * b[d] + r[d]
  BY <1>2, Divided
<1>5. /\ bb \in [P -> Nat] /\ rr \in [P -> Nat]
      /\ \A d \in P : rr[d] < u /\ Whole * more[d] = u * bb[d] + rr[d]
  BY <1>2, <1>3, Divided
<1> HIDE DEF t, u, g, b, r, bb, rr
<1>6. \A d \in P : b[d] \in Nat /\ r[d] \in Nat /\ bb[d] \in Nat /\ rr[d] \in Nat
  BY <1>4, <1>5
<1>7. ASSUME NEW d \in P, d # c
      PROVE  bb[d] <= b[d] /\ (bb[d] = b[d] => rr[d] <= r[d])
  <2> DEFINE tb == t * b[d]  gb == g * b[d]  ub == u * bb[d]
             x == Whole * lik[d]
  <2>1. /\ tb \in Nat /\ gb \in Nat /\ ub \in Nat /\ u * b[d] = tb + gb
        /\ x = tb + r[d] /\ x = ub + rr[d] /\ r[d] < t /\ t <= u
        /\ u * (b[d] + 1) = tb + gb + u
    BY <1>1, <1>2, <1>4, <1>5, <1>6, <1>7
  <2>2. bb[d] = b[d] => ub = u * b[d]
    OBVIOUS
  <2> HIDE DEF tb, gb, x
  <2>3. ub < u * (b[d] + 1)
    BY <1>1, <1>6, <2>1
  <2>4. bb[d] < b[d] + 1
    BY <1>1, <1>3, <1>6, <2>3, LesserFactor
  <2> HIDE DEF ub
  <2>5. bb[d] = b[d] => rr[d] <= r[d]
    BY <1>6, <2>1, <2>2
  <2> QED BY <1>6, <2>4, <2>5
<1>8. b[c] <= bb[c] /\ (b[c] = bb[c] => r[c] <= rr[c])
  <2> DEFINE tb == t * b[c]  gb == g * b[c]  ub == u * bb[c]
             x == Whole * lik[c]  y == Whole * g
  <2>0. b[c] \in Nat /\ bb[c] \in Nat /\ r[c] \in Nat /\ rr[c] \in Nat
    BY <1>2, <1>6
  <2>1. /\ tb \in Nat /\ gb \in Nat /\ ub \in Nat /\ u * b[c] = tb + gb
        /\ x = tb + r[c] /\ x \in Nat /\ y \in Nat
        /\ u * (bb[c] + 1) = ub + u
    <3>1. tb \in Nat /\ gb \in Nat /\ ub \in Nat
      BY <1>1, <2>0
    <3>2. u * b[c] = tb + gb
      BY <1>1, <2>0
    <3>3. u * (bb[c] + 1) = ub + u
      BY <1>1, <2>0
    <3>4. x \in Nat /\ y \in Nat
      BY <1>1 DEF Whole
    <3>5. x = tb + r[c]
      BY <1>2, <1>4
    <3> HIDE DEF tb, gb, ub, x, y
    <3> QED BY <3>1, <3>2, <3>3, <3>4, <3>5
  <2>2. x + y = ub + rr[c] /\ rr[c] < u
    <3>1. Whole * more[c] = x + y
      BY <1>1 DEF Whole
    <3> QED BY <1>2, <1>5, <3>1
  <2>3. b[c] <= Whole
    <3>1. x <= Whole * t /\ Whole * t = t * Whole
      BY <1>1 DEF Whole
    <3>2. t * b[c] <= t * Whole
      <4> HIDE DEF x
      <4>1. Whole * t \in Int
        BY <1>1 DEF Whole
      <4> QED BY <1>2, <1>6, <2>1, <3>1, <4>1
    <3>3. Whole \in Int
      BY DEF Whole
    <3> QED BY <1>1, <1>2, <1>6, <3>2, <3>3, LeastFactor
  <2>4. gb <= y
    <3>1. b[c] \in Nat /\ Whole \in Nat /\ Whole - b[c] \in Nat
      BY <1>2, <1>6, <2>3 DEF Whole
    <3>2. g * (Whole - b[c]) >= 0 /\ g * (Whole - b[c]) \in Int
      BY <1>1, <3>1
    <3>3. y = g * (Whole - b[c]) + gb
      BY <1>1, <3>1
    <3> QED BY <2>1, <3>2, <3>3
  <2>5. bb[c] = b[c] => ub = u * b[c]
    OBVIOUS
  <2> HIDE DEF tb, gb, x, y
  <2>6. u * b[c] < u * (bb[c] + 1)
    BY <1>1, <1>2, <1>6, <2>1, <2>2, <2>4
  <2>7. b[c] < bb[c] + 1
    <3>1. b[c] \in Int /\ bb[c] + 1 \in Int
      BY <2>0
    <3> QED BY <1>1, <1>3, <2>6, <3>1, LesserFactor
  <2> HIDE DEF ub
  <2>8. b[c] = bb[c] => r[c] <= rr[c]
    BY <1>2, <1>6, <2>1, <2>2, <2>4, <2>5
  <2> QED BY <1>2, <1>6, <2>7, <2>8
<1> QED
  BY <1>7, <1>8 DEF b, r, bb, rr

(* A color that gains likelihood while the others keep theirs gains share: *)
(* whatever units the others lose in the division, they cannot all be      *)
(* handed to colors ahead of it.                                           *)
THEOREM SharesFollowGain ==
  ASSUME NEW P, NEW lik, NEW more, NEW c, Rises(P, lik, more, c)
  PROVE  Shares(lik)[c] <= Shares(more)[c]
<1> DEFINE b == Unrounded(lik)  bb == Unrounded(more)
           r == Remainder(lik)  rr == Remainder(more)
           ahead == {d \in P : Before(r, d, c)}
           ahead2 == {d \in P : Before(rr, d, c)}
           lost == {d \in P : bb[d] < b[d]}
           left == LeftOver(lik)  left2 == LeftOver(more)
<1>1. /\ Pooled(P, lik) /\ Pooled(P, more) /\ c \in P /\ P # {}
      /\ IsFiniteSet(P) /\ P \in SUBSET Nat
      /\ lik \in [P -> Nat] /\ more \in [P -> Nat] /\ lik[c] <= more[c]
  BY DEF Rises, Pooled
<1>2. /\ Total(lik) \in Nat /\ Total(more) \in Nat
      /\ Total(more) = Total(lik) + (more[c] - lik[c])
      /\ lik[c] \in Nat /\ more[c] \in Nat /\ lik[c] <= Total(lik)
  BY RisenTotal
<1>3. /\ Shares(lik) \in [P -> Nat] /\ Shares(more) \in [P -> Nat]
      /\ SumFunctionOnSet(Shares(lik), P) = Whole
  BY <1>1, SharesSumToWhole
<1>4. Shares(lik)[c] \in Nat /\ Shares(more)[c] \in Nat /\ Shares(lik)[c] <= Whole
  <2>1. \A d \in P : Shares(lik)[d] \in Nat
    BY <1>3
  <2>2. Shares(lik)[c] <= SumFunctionOnSet(Shares(lik), P)
    BY <1>1, <2>1, SumNatural
  <2> QED BY <1>1, <1>3, <2>2
<1>5. CASE Total(lik) = 0 /\ Total(more) = 0
  <2>1. \A d \in P : lik[d] = 0 /\ more[d] = 0
    <3>1. \A d \in P : lik[d] <= Total(lik) /\ more[d] <= Total(more)
      BY <1>1, Totals
    <3>2. \A d \in P : lik[d] \in Nat /\ more[d] \in Nat
      BY <1>1
    <3> QED BY <1>5, <3>1, <3>2
  <2>2. lik = [d \in P |-> 0] /\ more = [d \in P |-> 0]
    <3>1. lik = [d \in P |-> lik[d]] /\ more = [d \in P |-> more[d]]
      BY <1>1
    <3> QED BY <2>1, <3>1
  <2> QED BY <1>4, <2>2
<1>6. CASE Total(lik) = 0 /\ Total(more) > 0
  <2> DEFINE t == Total(more)  s == Shares(more)[c]
  <2>1. more[c] = t /\ t \in Nat /\ t > 0 /\ s \in Nat
    BY <1>2, <1>4, <1>6
  <2>2. -t < s * t - more[c] * Whole
    BY <1>1, <1>6, SharesWithinOne
  <2> HIDE DEF t, s
  <2>3. s * t = t * s /\ t * Whole = t * (Whole - 1) + t /\ Whole \in Nat
        /\ t * (Whole - 1) \in Int /\ t * s \in Int /\ t * Whole \in Int
    BY <2>1 DEF Whole
  <2>4. t * (Whole - 1) < t * s
    BY <2>1, <2>2, <2>3
  <2>5. Whole - 1 < s
    <3>1. Whole - 1 \in Int
      BY <2>3
    <3> QED BY <2>1, <2>4, <3>1, LesserFactor
  <2>6. Whole <= s
    BY <2>1, <2>3, <2>5
  <2> QED BY <1>4, <2>3, <2>6 DEF s
<1>7. CASE Total(lik) > 0
  <2>1. Total(more) > 0
    BY <1>1, <1>2, <1>7
  <2>2. /\ b \in [P -> Nat] /\ r \in [P -> Nat]
        /\ bb \in [P -> Nat] /\ rr \in [P -> Nat]
    BY <1>1, <1>7, <2>1, Divided
  <2>3. left \in Nat /\ left2 \in Nat
    BY <1>1, <1>7, <2>1, UnitsLeft
  <2>4. /\ Shares(lik)[c] = b[c] + (IF Cardinality(ahead) < left THEN 1 ELSE 0)
        /\ Shares(more)[c] = bb[c] + (IF Cardinality(ahead2) < left2 THEN 1 ELSE 0)
    BY <1>1, <1>7, <2>1, ProportionalShape DEF Shares, OneMore
  <2>5. /\ b[c] <= bb[c] /\ (b[c] = bb[c] => r[c] <= rr[c])
        /\ \A d \in P : d # c =>
             bb[d] <= b[d] /\ (bb[d] = b[d] => rr[d] <= r[d])
    BY <1>7, RisenQuotients
  <2>6. /\ Total(b) = SumFunctionOnSet(b, P) /\ Total(b) \in Nat /\ Integral(b, P)
        /\ Total(bb) = SumFunctionOnSet(bb, P) /\ Total(bb) \in Nat /\ Integral(bb, P)
    BY <1>1, <2>2, Totals
  <2>7. left = Whole - Total(b) /\ left2 = Whole - Total(bb)
    BY DEF LeftOver
  <2>8. /\ lost \in SUBSET P /\ ahead \in SUBSET P /\ ahead2 \in SUBSET P
        /\ \A d \in P : d \in lost <=> bb[d] < b[d]
        /\ \A d \in P : d \in ahead <=> Before(r, d, c)
        /\ \A d \in P : d \in ahead2 <=> Before(rr, d, c)
    OBVIOUS
  <2> HIDE DEF b, bb, r, rr, ahead, ahead2, lost, left, left2
  <2>9. /\ IsFiniteSet(lost) /\ Cardinality(lost) \in Nat
        /\ IsFiniteSet(ahead) /\ Cardinality(ahead) \in Nat
        /\ IsFiniteSet(ahead2) /\ Cardinality(ahead2) \in Nat
    BY <1>1, <2>8, FS_Subset, FS_CardinalityType
  <2>10. b[c] \in Nat /\ bb[c] \in Nat
    BY <1>1, <2>2
  <2>11. CASE b[c] < bb[c]
    BY <1>4, <2>4, <2>10, <2>11
  <2>12. CASE b[c] = bb[c]
    <3> DEFINE f == [d \in P |-> bb[d] + (IF d \in lost THEN 1 ELSE 0)]
    <3>1. OneMore(f, bb, lost, P) /\ \A d \in P : f[d] \in Int /\ f[d] <= b[d]
      <4>1. \A d \in P : b[d] \in Nat /\ bb[d] \in Nat /\ bb[d] <= b[d]
        BY <2>2, <2>5, <2>12
      <4> QED BY <2>8, <4>1 DEF OneMore
    <3> HIDE DEF f
    <3>2. Integral(f, P)
      BY <3>1 DEF Integral
    <3>3. SumFunctionOnSet(f, P) = SumFunctionOnSet(bb, P) + Cardinality(lost)
      BY <1>1, <2>6, <3>1, SumOneMore
    <3>4. SumFunctionOnSet(f, P) <= SumFunctionOnSet(b, P)
      BY <1>1, <2>6, <3>1, <3>2, SumMonotone
    <3>5. left + Cardinality(lost) <= left2
      BY <2>6, <2>7, <2>9, <3>3, <3>4 DEF Whole
    <3>6. ahead2 \subseteq ahead \cup lost
      <4> SUFFICES ASSUME NEW d \in P, d \in ahead2, d \notin lost PROVE d \in ahead
        BY <2>8
      <4>1. /\ c \in Nat /\ d \in Nat /\ r[c] \in Nat /\ r[d] \in Nat
            /\ rr[c] \in Nat /\ rr[d] \in Nat /\ b[d] \in Nat /\ bb[d] \in Nat
        BY <1>1, <2>2
      <4>2. Before(rr, d, c)
        BY <2>8
      <4>3. d # c
        BY <4>1, <4>2 DEF Before
      <4>4. bb[d] = b[d]
        BY <2>5, <2>8, <4>1, <4>3
      <4>5. rr[d] <= r[d] /\ r[c] <= rr[c]
        BY <2>5, <2>12, <4>3, <4>4
      <4>6. Before(r, d, c)
        BY <4>1, <4>2, <4>5 DEF Before
      <4> QED BY <2>8, <4>6
    <3>7. Cardinality(ahead2) <= Cardinality(ahead) + Cardinality(lost)
      <4>1. /\ IsFiniteSet(ahead \cup lost)
            /\ Cardinality(ahead \cup lost)
                 = Cardinality(ahead) + Cardinality(lost) - Cardinality(ahead \cap lost)
        BY <2>9, FS_Union
      <4>2. Cardinality(ahead \cap lost) \in Nat
        BY <2>9, FS_Intersection, FS_CardinalityType
      <4>3. Cardinality(ahead2) <= Cardinality(ahead \cup lost)
        BY <3>6, <4>1, FS_Subset
      <4> QED BY <2>9, <4>1, <4>2, <4>3
    <3>8. Cardinality(ahead) < left => Cardinality(ahead2) < left2
      BY <2>3, <2>9, <3>5, <3>7
    <3> QED BY <1>4, <2>4, <2>10, <2>12, <3>8
  <2> QED BY <2>5, <2>10, <2>11, <2>12
<1> QED
  BY <1>2, <1>5, <1>6, <1>7

(* Rounding never ranks a color with less likelihood above one with more,  *)
(* and equals differ by the rounding unit at most: the ranking and the     *)
(* vote of fd_query.c may rely on the weights alone.                       *)
THEOREM SharesFollowLikelihood ==
  ASSUME NEW P, NEW lik, Pooled(P, lik), NEW c \in P, NEW d \in P
  PROVE  /\ lik[c] > lik[d] => Shares(lik)[c] >= Shares(lik)[d]
         /\ lik[c] = lik[d] => Shares(lik)[c] <= Shares(lik)[d] + 1
<1> DEFINE t == Total(lik)  base == Unrounded(lik)  rem == Remainder(lik)
           left == LeftOver(lik)
<1>1. /\ P \in SUBSET Nat /\ IsFiniteSet(P) /\ P # {} /\ lik \in [P -> Nat]
      /\ t \in Nat /\ lik[c] \in Nat /\ lik[d] \in Nat /\ lik[c] <= t
  BY Totals DEF Pooled
<1>2. CASE t > 0
  <2>1. /\ base \in [P -> Nat] /\ rem \in [P -> Nat]
        /\ \A e \in P : rem[e] < t /\ Whole * lik[e] = t * base[e] + rem[e]
    BY <1>2, Divided
  <2>2. left \in Nat
    BY <1>2, UnitsLeft
  <2>3. \A e \in P : Shares(lik)[e] = base[e] + (IF e \in Served(rem, left) THEN 1 ELSE 0)
    BY <1>2, ProportionalShape DEF Shares, OneMore
  <2> HIDE DEF t, base, rem, left
  <2>4. /\ base[c] \in Nat /\ rem[c] \in Nat /\ rem[c] < t
        /\ base[d] \in Nat /\ rem[d] \in Nat /\ rem[d] < t
        /\ Whole * lik[c] = t * base[c] + rem[c]
        /\ Whole * lik[d] = t * base[d] + rem[d]
    BY <2>1
  <2>5. CASE lik[c] > lik[d]
    <3>1. Whole * lik[c] > Whole * lik[d]
      BY <1>1, <2>5 DEF Whole
    <3>2. t * base[c] + rem[c] > t * base[d] + rem[d]
      BY <2>4, <3>1
    <3>3. base[c] >= base[d] /\ (base[c] = base[d] => rem[c] > rem[d])
      <4> DEFINE bc == base[c]  bd == base[d]  rc == rem[c]  rd == rem[d]
      <4>1. /\ bc \in Int /\ rc \in Int /\ 0 <= rc /\ rc < t
            /\ bd \in Int /\ rd \in Int /\ 0 <= rd /\ rd < t
            /\ t * bc + rc > t * bd + rd
        BY <2>4, <3>2
      <4> HIDE DEF bc, bd, rc, rd
      <4>2. bc >= bd /\ (bc = bd => rc > rd)
        BY <1>1, <1>2, <4>1, LargerDividend
      <4> QED BY <4>2 DEF bc, bd, rc, rd
    <3>4. base[c] = base[d] /\ d \in Served(rem, left) => c \in Served(rem, left)
      <4>1. SUFFICES ASSUME base[c] = base[d], d \in Served(rem, left)
                     PROVE  c \in Served(rem, left)
        OBVIOUS
      <4>2. Before(rem, c, d)
        BY <3>3, <4>1 DEF Before
      <4>3. rem \in [P -> Int]
        BY <2>1
      <4> QED BY <1>1, <2>2, <4>1, <4>2, <4>3, ServedInOrder
    <3>5. /\ Shares(lik)[c] = base[c] + (IF c \in Served(rem, left) THEN 1 ELSE 0)
          /\ Shares(lik)[d] = base[d] + (IF d \in Served(rem, left) THEN 1 ELSE 0)
      BY <2>3
    <3>6. Shares(lik)[c] >= Shares(lik)[d]
      BY <2>4, <3>3, <3>4, <3>5
    <3>7. lik[c] # lik[d]
      BY <1>1, <2>5
    <3> QED BY <3>6, <3>7
  <2>6. CASE lik[c] = lik[d]
    <3>1. base[c] = base[d]
      <4>1. DOMAIN lik = P
        BY <1>1
      <4>2. \A e \in P : base[e] = (lik[e] * Whole) \div t
        BY <4>1 DEF base, t, Unrounded
      <4> QED BY <2>6, <4>2
    <3>2. /\ Shares(lik)[c] = base[c] + (IF c \in Served(rem, left) THEN 1 ELSE 0)
          /\ Shares(lik)[d] = base[d] + (IF d \in Served(rem, left) THEN 1 ELSE 0)
      BY <2>3
    <3> QED BY <1>1, <2>4, <2>6, <3>1, <3>2
  <2> QED BY <2>5, <2>6
<1>3. CASE ~ (t > 0)
  <2>1. lik[c] = 0 /\ lik[d] = 0
    <3>1. lik[d] <= t
      BY <1>1, Totals
    <3> QED BY <1>1, <1>3, <3>1
  <2>2. Shares(lik) = EqualShares(P)
    BY <1>1, <1>3 DEF Shares
  <2> DEFINE q == Whole \div Cardinality(P)
             A == {x \in P : Cardinality({y \in P : y < x}) < Whole % Cardinality(P)}
  <2>3. q \in Nat /\ OneMore(EqualShares(P), [x \in P |-> q], A, P)
    BY <1>1, EqualShape
  <2> HIDE DEF q, A
  <2>4. \A x \in P : Shares(lik)[x] = q + (IF x \in A THEN 1 ELSE 0)
    BY <2>2, <2>3 DEF OneMore
  <2>5. /\ Shares(lik)[c] = q + (IF c \in A THEN 1 ELSE 0)
        /\ Shares(lik)[d] = q + (IF d \in A THEN 1 ELSE 0)
    BY <2>4
  <2> QED BY <2>1, <2>3, <2>5
<1> QED
  BY <1>2, <1>3

(***************************************************************************)
(* The state.                                                              *)
(***************************************************************************)
Ranks(pool) == {EnumOrder[c] : c \in pool}
WeightsTyped == terms \in SUBSET Evidence /\ Pool \in SUBSET Players

LEMMA SumOfType ==
  ASSUME NEW ts \in SUBSET Evidence, NEW c
  PROVE  SumOf(ts, c) \in Int
<1> DEFINE own == {x \in ts : x.color = c}
           f == [t \in own |-> Amount[t.source]]
<1>1. IsFiniteSet(own) /\ own \in SUBSET Evidence
  BY FS_Subset, EvidenceIsWeighed
<1>2. SumOf(ts, c) = SumFunctionOnSet(f, own)
  BY DEF SumOf, SumFunction
<1>3. \A x \in DOMAIN Amount : Amount[x] \in Int
  BY DEF Amount
<1>4. \A t \in own : t.source \in DOMAIN Amount
  BY <1>1, EvidenceIsWeighed
<1> HIDE DEF own
<1>5. \A t \in own : f[t] \in Int
  BY <1>3, <1>4
<1> HIDE DEF f
<1> QED
  BY <1>1, <1>2, <1>5, SumType DEF Integral

LEMMA LikelihoodShape ==
  ASSUME NEW ts \in SUBSET Evidence, NEW pool \in SUBSET Players
  PROVE  /\ IsFiniteSet(pool)
         /\ Pooled(Ranks(pool), LikelihoodOf(ts, pool))
         /\ \A c \in pool :
              LikelihoodOf(ts, pool)[EnumOrder[c]] = Logistic(SumOf(ts, c))
<1>1. IsFiniteSet(pool)
  BY FS_Subset, EvidenceIsWeighed
<1>2. Ranks(pool) \in SUBSET Nat /\ IsFiniteSet(Ranks(pool))
  <2> DEFINE f == [c \in pool |-> EnumOrder[c]]
  <2>1. f \in Surjection(pool, Ranks(pool))
    BY DEF Surjection, Ranks
  <2>2. IsFiniteSet(Ranks(pool))
    BY <1>1, <2>1, FS_Surjection
  <2> QED BY <2>2, EnumOrderIsInjective DEF Ranks
<1>3. \A c \in pool : (CHOOSE d \in pool : EnumOrder[d] = EnumOrder[c]) = c
  BY EnumOrderIsInjective
<1>4. LikelihoodOf(ts, pool)
        = [r \in Ranks(pool) |->
             Logistic(SumOf(ts, CHOOSE c \in pool : EnumOrder[c] = r))]
  BY DEF LikelihoodOf, Ranks
<1>5. \A c \in pool : EnumOrder[c] \in Ranks(pool)
  BY DEF Ranks
<1>6. \A c \in pool : LikelihoodOf(ts, pool)[EnumOrder[c]] = Logistic(SumOf(ts, c))
  BY <1>3, <1>4, <1>5
<1>7. \A c \in pool : Logistic(SumOf(ts, c)) \in Nat
  BY SumOfType, LogisticInRange DEF Whole
<1>8. \A r \in Ranks(pool) : LikelihoodOf(ts, pool)[r] \in Nat
  BY <1>6, <1>7 DEF Ranks
<1>9. LikelihoodOf(ts, pool) \in [Ranks(pool) -> Nat]
  BY <1>4, <1>8
<1> QED
  BY <1>1, <1>2, <1>6, <1>9 DEF Pooled

LEMMA WeighedShape ==
  ASSUME NEW ts, NEW pool, NEW c \in pool
  PROVE  WeightAfter(ts, pool, c) = Shares(LikelihoodOf(ts, pool))[EnumOrder[c]]
<1> DEFINE share == Shares(LikelihoodOf(ts, pool))
           F(d) == [color |-> d, logodds |-> SumOf(ts, d), weight |-> share[EnumOrder[d]]]
<1>1. Weighed(ts, pool) = {F(d) : d \in pool}
  BY DEF Weighed
<1>2. \A d : F(d).color = d /\ F(d).weight = share[EnumOrder[d]]
  OBVIOUS
<1> HIDE DEF F
<1>3. (CHOOSE s \in Weighed(ts, pool) : s.color = c) = F(c)
  <2>1. F(c) \in Weighed(ts, pool) /\ F(c).color = c
    BY <1>1, <1>2
  <2>2. \A s \in Weighed(ts, pool) : s.color = c => s = F(c)
    BY <1>1, <1>2
  <2> QED BY <2>1, <2>2
<1> QED
  BY <1>2, <1>3 DEF WeightAfter

LEMMA CurrentWeight ==
  ASSUME Current, NEW c \in Pool
  PROVE  Weight(c) = WeightAfter(terms, Pool, c)
BY DEF Current, Weight, WeightAfter

LEMMA TypedStep == WeightsTyped /\ [WeightsNext]_weightVars => WeightsTyped'
<1> SUFFICES ASSUME WeightsTyped, [WeightsNext]_weightVars PROVE WeightsTyped'
  OBVIOUS
<1> USE DEF WeightsTyped
<1>1. CASE TermsAsserted
  BY <1>1 DEF TermsAsserted, Pool
<1>2. CASE TermsWithdrawn
  BY <1>2 DEF TermsWithdrawn, Pool
<1>3. CASE SuspicionEnsure
  <2>1. PICK c \in Players \ Pool : suspicions' = suspicions \cup {NewSuspicion(c)}
    BY <1>3 DEF SuspicionEnsure
  <2>2. NewSuspicion(c).color = c
    BY DEF NewSuspicion
  <2> QED BY <1>3, <2>1, <2>2 DEF SuspicionEnsure, Pool
<1>4. CASE RetractSuspicion
  BY <1>4 DEF RetractSuspicion, Pool
<1>5. CASE Normalize
  <2>1. \A s \in Weighed(terms, Pool) : s.color \in Pool
    <3> DEFINE F(d) == [color |-> d, logodds |-> SumOf(terms, d),
                        weight |-> Shares(LikelihoodOf(terms, Pool))[EnumOrder[d]]]
    <3>1. Weighed(terms, Pool) = {F(d) : d \in Pool} /\ \A d : F(d).color = d
      BY DEF Weighed
    <3> HIDE DEF F
    <3> QED BY <3>1
  <2>2. \A s \in suspicions' : s.color \in Pool
    BY <1>5, <2>1 DEF Normalize
  <2>3. Pool' = {s.color : s \in suspicions'}
    BY DEF Pool
  <2> QED BY <1>5, <2>2, <2>3 DEF Normalize
<1>6. CASE UNCHANGED weightVars
  BY <1>6 DEF weightVars, Pool
<1> QED
  BY <1>1, <1>2, <1>3, <1>4, <1>5, <1>6 DEF WeightsNext

LEMMA AlwaysTyped == WeightsSpec => []WeightsTyped
<1>1. WeightsInit => WeightsTyped
  BY DEF WeightsInit, WeightsTyped, Pool
<1> QED
  BY <1>1, TypedStep, PTL DEF WeightsSpec

LEMMA FairState ==
  ASSUME WeightsTyped, Current, Pool # {}
  PROVE  LET total == SumFunction([c \in Pool |-> Lik(c)])
         IN  /\ SumFunction([c \in Pool |-> Weight(c)]) = Whole
             /\ total > 0 =>
                  \A c \in Pool : LET gap == Weight(c) * total - Lik(c) * Whole
                                  IN  -total < gap /\ gap < total
<1> DEFINE P == Ranks(Pool)  lik == LikelihoodOf(terms, Pool)
           liks == [c \in Pool |-> Lik(c)]  ws == [c \in Pool |-> Weight(c)]
<1>1. /\ IsFiniteSet(Pool) /\ Pooled(P, lik)
      /\ \A c \in Pool : lik[EnumOrder[c]] = Lik(c)
  BY LikelihoodShape DEF WeightsTyped, Lik
<1>2. /\ P = {EnumOrder[c] : c \in Pool} /\ P # {}
      /\ \A c \in Pool : EnumOrder[c] \in P
      /\ \A c, d \in Pool : EnumOrder[c] = EnumOrder[d] => c = d
  BY EnumOrderIsInjective DEF Ranks, WeightsTyped
<1>3. \A c \in Pool : Weight(c) = Shares(lik)[EnumOrder[c]]
  BY CurrentWeight, WeighedShape
<1>4. /\ Shares(lik) \in [P -> Nat] /\ SumFunctionOnSet(Shares(lik), P) = Whole
  BY <1>1, <1>2, SharesSumToWhole
<1>5. /\ lik \in [P -> Nat] /\ IsFiniteSet(P)
      /\ Total(lik) = SumFunctionOnSet(lik, P)
  BY <1>1, Totals DEF Pooled
<1>6. /\ SumFunction(liks) = SumFunctionOnSet(liks, Pool)
      /\ SumFunction(ws) = SumFunctionOnSet(ws, Pool)
      /\ \A c \in Pool : liks[c] = lik[EnumOrder[c]]
      /\ \A c \in Pool : ws[c] = Shares(lik)[EnumOrder[c]]
  BY <1>1, <1>3 DEF SumFunction
<1> HIDE DEF P, lik, liks, ws
<1>7. \A c \in Pool : lik[EnumOrder[c]] \in Int /\ Shares(lik)[EnumOrder[c]] \in Int
  BY <1>2, <1>4, <1>5
<1>8. SumFunctionOnSet(liks, Pool) = SumFunctionOnSet(lik, P)
  <2>1. SumFunctionOnSet(liks, Pool)
          = SumFunctionOnSet(lik, {EnumOrder[c] : c \in Pool})
    BY <1>1, <1>2, <1>6, <1>7, SumImage
  <2> QED BY <1>2, <2>1
<1>9. SumFunctionOnSet(ws, Pool) = SumFunctionOnSet(Shares(lik), P)
  <2>1. SumFunctionOnSet(ws, Pool)
          = SumFunctionOnSet(Shares(lik), {EnumOrder[c] : c \in Pool})
    BY <1>1, <1>2, <1>6, <1>7, SumImage
  <2> QED BY <1>2, <2>1
<1>10. SumFunction(ws) = Whole /\ SumFunction(liks) = Total(lik)
  BY <1>4, <1>5, <1>6, <1>8, <1>9
<1>11. ASSUME Total(lik) > 0, NEW c \in Pool
       PROVE  LET gap == Weight(c) * Total(lik) - Lik(c) * Whole
              IN  -Total(lik) < gap /\ gap < Total(lik)
  <2> DEFINE k == EnumOrder[c]
  <2>1. k \in P /\ lik[k] = Lik(c) /\ Shares(lik)[k] = Weight(c)
    BY <1>1, <1>2, <1>3
  <2> HIDE DEF k
  <2> QED BY <1>1, <1>11, <2>1, SharesWithinOne
<1> QED
  BY <1>10, <1>11 DEF liks, ws

(* The weights of every pool sum to exactly 1000, and rounding moves       *)
(* nobody by a whole unit (fd_clips.c: fd_normalize_suspicion), whatever   *)
(* the evidence and however many players there are.                        *)
THEOREM SharesAlwaysFair == WeightsSpec => []SharesAreFair
<1>1. WeightsTyped => SharesAreFair
  BY FairState DEF SharesAreFair
<1> QED
  BY <1>1, AlwaysTyped, PTL

LEMMA SumOfAdded ==
  ASSUME NEW ts \in SUBSET Evidence, NEW t \in Evidence \ ts, NEW c
  PROVE  /\ c = t.color => SumOf(ts \cup {t}, c) = SumOf(ts, c) + Amount[t.source]
         /\ c # t.color => SumOf(ts \cup {t}, c) = SumOf(ts, c)
<1> DEFINE own == {x \in ts : x.color = c}
           more == {x \in ts \cup {t} : x.color = c}
           f == [x \in own |-> Amount[x.source]]
           g == [x \in more |-> Amount[x.source]]
<1>1. /\ SumOf(ts, c) = SumFunctionOnSet(f, own)
      /\ SumOf(ts \cup {t}, c) = SumFunctionOnSet(g, more)
  BY DEF SumOf, SumFunction
<1>2. CASE c # t.color
  <2>1. own = more
    BY <1>2
  <2> QED BY <1>1, <1>2, <2>1
<1>3. CASE c = t.color
  <2>1. /\ more \in SUBSET Evidence /\ t \in more /\ own = more \ {t}
        /\ \A x \in own : g[x] = f[x]
    BY <1>3
  <2>2. IsFiniteSet(more) /\ IsFiniteSet(own)
    BY <2>1, FS_Subset, EvidenceIsWeighed
  <2>3. \A x \in more : g[x] = Amount[x.source]
    OBVIOUS
  <2> HIDE DEF own, more, f, g
  <2>4. \A x \in Evidence : Amount[x.source] \in Int
    <3>1. \A x \in DOMAIN Amount : Amount[x] \in Int
      BY DEF Amount
    <3> QED BY <3>1, EvidenceIsWeighed
  <2>5. Integral(g, more)
    BY <2>1, <2>3, <2>4 DEF Integral
  <2>6. SumFunctionOnSet(g, more) = g[t] + SumFunctionOnSet(g, own)
    BY <2>1, <2>2, <2>5, SumRemove
  <2>7. Integral(f, own)
    BY <2>1, <2>5 DEF Integral
  <2>8. SumFunctionOnSet(g, own) = SumFunctionOnSet(f, own)
    BY <2>1, <2>2, <2>7, SumLocal
  <2>9. SumFunctionOnSet(f, own) \in Int /\ g[t] \in Int /\ g[t] = Amount[t.source]
    BY <2>1, <2>2, <2>3, <2>5, <2>7, SumType DEF Integral
  <2> QED BY <1>1, <1>3, <2>6, <2>8, <2>9
<1> QED
  BY <1>2, <1>3

LEMMA MovesState ==
  ASSUME WeightsTyped, NEW t \in Evidence \ terms, t.color \in Pool
  PROVE  LET before == WeightAfter(terms, Pool, t.color)
             after == WeightAfter(terms \cup {t}, Pool, t.color)
         IN  /\ Amount[t.source] >= 0 => after >= before
             /\ Amount[t.source] <= 0 => after <= before
<1> DEFINE P == Ranks(Pool)  c == t.color  k == EnumOrder[c]
           lik == LikelihoodOf(terms, Pool)
           moved == LikelihoodOf(terms \cup {t}, Pool)
           x == SumOf(terms, c)  y == SumOf(terms \cup {t}, c)  a == Amount[t.source]
<1>1. /\ Pool \in SUBSET Players /\ terms \in SUBSET Evidence
      /\ terms \cup {t} \in SUBSET Evidence
  BY DEF WeightsTyped
<1>2. /\ Pooled(P, lik)
      /\ \A d \in Pool : lik[EnumOrder[d]] = Logistic(SumOf(terms, d))
  BY <1>1, LikelihoodShape
<1>3. /\ Pooled(P, moved)
      /\ \A d \in Pool : moved[EnumOrder[d]] = Logistic(SumOf(terms \cup {t}, d))
  BY <1>1, LikelihoodShape
<1>4. /\ WeightAfter(terms, Pool, c) = Shares(lik)[k]
      /\ WeightAfter(terms \cup {t}, Pool, c) = Shares(moved)[k]
  BY WeighedShape
<1>5. k \in P /\ P = {EnumOrder[d] : d \in Pool}
  BY DEF Ranks
<1>6. \A d \in P : d # k => moved[d] = lik[d]
  <2> SUFFICES ASSUME NEW e \in Pool, EnumOrder[e] # k
               PROVE  moved[EnumOrder[e]] = lik[EnumOrder[e]]
    BY <1>5
  <2>1. e # c
    OBVIOUS
  <2>2. SumOf(terms \cup {t}, e) = SumOf(terms, e)
    BY <1>1, <2>1, SumOfAdded
  <2> QED BY <1>2, <1>3, <2>2
<1>7. x \in Int /\ y \in Int /\ a \in Int /\ y = x + a
  <2>1. y = x + a
    BY <1>1, SumOfAdded
  <2>2. \A z \in DOMAIN Amount : Amount[z] \in Int
    BY DEF Amount
  <2>3. a \in Int
    BY <2>2, EvidenceIsWeighed
  <2>4. x \in Int /\ y \in Int
    BY <1>1, SumOfType
  <2> QED BY <2>1, <2>3, <2>4
<1>8. lik[k] = Logistic(x) /\ moved[k] = Logistic(y)
  BY <1>2, <1>3
<1> HIDE DEF P, k, lik, moved, x, y, a
<1>9. a >= 0 => Shares(lik)[k] <= Shares(moved)[k]
  <2> SUFFICES ASSUME a >= 0 PROVE Shares(lik)[k] <= Shares(moved)[k]
    OBVIOUS
  <2>1. x <= y
    BY <1>7
  <2>2. lik[k] <= moved[k]
    BY <1>7, <1>8, <2>1, LogisticMonotone
  <2>3. Rises(P, lik, moved, k)
    BY <1>2, <1>3, <1>5, <1>6, <2>2 DEF Rises
  <2> QED BY <2>3, SharesFollowGain
<1>10. a <= 0 => Shares(moved)[k] <= Shares(lik)[k]
  <2> SUFFICES ASSUME a <= 0 PROVE Shares(moved)[k] <= Shares(lik)[k]
    OBVIOUS
  <2>1. y <= x
    BY <1>7
  <2>2. moved[k] <= lik[k]
    BY <1>7, <1>8, <2>1, LogisticMonotone
  <2>3. Rises(P, moved, lik, k)
    BY <1>2, <1>3, <1>5, <1>6, <2>2 DEF Rises
  <2> QED BY <2>3, SharesFollowGain
<1>11. Shares(lik)[k] \in Nat /\ Shares(moved)[k] \in Nat
  <2>1. P # {}
    BY <1>5
  <2>2. Shares(lik) \in [P -> Nat] /\ Shares(moved) \in [P -> Nat]
    BY <1>2, <1>3, <2>1, SharesSumToWhole
  <2> QED BY <1>5, <2>2
<1> QED
  BY <1>4, <1>9, <1>10, <1>11 DEF a

LEMMA RanksState ==
  ASSUME WeightsTyped, Current, NEW c \in Pool, NEW d \in Pool
  PROVE  /\ Lik(c) > Lik(d) => Weight(c) >= Weight(d)
         /\ Lik(c) = Lik(d) => Weight(c) <= Weight(d) + 1
<1> DEFINE P == Ranks(Pool)  lik == LikelihoodOf(terms, Pool)
           i == EnumOrder[c]  j == EnumOrder[d]
<1>1. Pooled(P, lik) /\ lik[i] = Lik(c) /\ lik[j] = Lik(d)
  BY LikelihoodShape DEF WeightsTyped, Lik
<1>2. i \in P /\ j \in P
  BY DEF Ranks
<1>3. Weight(c) = Shares(lik)[i] /\ Weight(d) = Shares(lik)[j]
  BY CurrentWeight, WeighedShape
<1> HIDE DEF P, lik, i, j
<1>4. /\ lik[i] > lik[j] => Shares(lik)[i] >= Shares(lik)[j]
      /\ lik[i] = lik[j] => Shares(lik)[i] <= Shares(lik)[j] + 1
  BY <1>1, <1>2, SharesFollowLikelihood
<1> QED
  BY <1>1, <1>3, <1>4

(* The heavier the evidence the higher the rank, equals within a unit, and *)
(* one more term moves its color the way it points: what fd_query.c ranks  *)
(* and votes by means what docs/model.md says of it, for every evidence.   *)
THEOREM WeightsAlwaysFollowEvidence == WeightsSpec => []WeightsFollowEvidence
<1>1. WeightsTyped => RanksByEvidence
  BY RanksState DEF RanksByEvidence
<1>2. WeightsTyped => EvidenceMovesItsColor
  <2> SUFFICES ASSUME WeightsTyped, Current, NEW t \in Evidence \ terms, t.color \in Pool
               PROVE  LET w == WeightAfter(terms \cup {t}, Pool, t.color)
                      IN  /\ Amount[t.source] >= 0 => w >= Weight(t.color)
                          /\ Amount[t.source] <= 0 => w <= Weight(t.color)
    BY DEF EvidenceMovesItsColor
  <2>1. Weight(t.color) = WeightAfter(terms, Pool, t.color)
    BY CurrentWeight
  <2> QED BY <2>1, MovesState
<1> QED
  BY <1>1, <1>2, AlwaysTyped, PTL DEF WeightsFollowEvidence

(***************************************************************************)
(* The vote advice.                                                        *)
(***************************************************************************)
Weights1000 == \A c \in Pool : Weight(c) \in Nat /\ Weight(c) <= Whole

LEMMA WeightsInRange ==
  ASSUME WeightsTyped, Current, Pool # {}
  PROVE  Weights1000
<1> DEFINE P == Ranks(Pool)  lik == LikelihoodOf(terms, Pool)
<1>2. \A c \in Pool : EnumOrder[c] \in P
  BY DEF Ranks
<1>1. Pooled(P, lik) /\ P # {} /\ IsFiniteSet(P)
  <2>1. Pooled(P, lik)
    BY LikelihoodShape DEF WeightsTyped
  <2> HIDE DEF P, lik
  <2> QED BY <1>2, <2>1 DEF Pooled
<1>3. \A c \in Pool : Weight(c) = Shares(lik)[EnumOrder[c]]
  BY CurrentWeight, WeighedShape
<1> HIDE DEF P, lik
<1>4. /\ Shares(lik) \in [P -> Nat] /\ SumFunctionOnSet(Shares(lik), P) = Whole
  BY <1>1, SharesSumToWhole
<1>5. \A r \in P : Shares(lik)[r] \in Nat
  BY <1>4
<1>6. \A r \in P : Shares(lik)[r] <= SumFunctionOnSet(Shares(lik), P)
  BY <1>1, <1>5, SumNatural
<1> QED
  BY <1>2, <1>3, <1>4, <1>5, <1>6 DEF Weights1000

(* The pool in the order of the enum, each color once.                     *)
LEMMA EnumOrdered ==
  ASSUME Pool \in SUBSET Players
  PROVE  /\ IsFiniteSet(Pool) /\ Cardinality(Pool) \in Nat
         /\ InEnumOrder \in [1..Cardinality(Pool) -> Pool]
         /\ \A c \in Pool : \E i \in 1..Cardinality(Pool) : InEnumOrder[i] = c
<1> DEFINE n == Cardinality(Pool)
           R == {e \in Pool \X Pool : EnumOrder[e[1]] < EnumOrder[e[2]]}
<1>1. IsFiniteSet(Pool) /\ n \in Nat
  BY EvidenceIsWeighed, FS_Subset, FS_CardinalityType
<1>2. \A c, d \in Pool : <<c, d>> \in R <=> EnumOrder[c] < EnumOrder[d]
  OBVIOUS
<1>3. \A c \in Pool : EnumOrder[c] \in Nat
  BY EnumOrderIsInjective
<1>4. \A c, d \in Pool : EnumOrder[c] = EnumOrder[d] => c = d
  BY EnumOrderIsInjective
<1> HIDE DEF R
<1>5. Orders(R, Pool)
  <2>1. /\ \A c \in Pool : <<c, c>> \notin R
        /\ \A a, b \in Pool : a # b => <<a, b>> \in R \/ <<b, a>> \in R
    BY <1>2, <1>3, <1>4
  <2>2. \A a, b, c \in Pool : <<a, b>> \in R /\ <<b, c>> \in R => <<a, c>> \in R
    BY <1>2, <1>3
  <2> QED BY <2>1, <2>2 DEF Orders
<1>6. \A c \in Pool : RankOf(R, Pool, c) = Cardinality(Earlier(c))
  <2>1. \A c \in Pool : {d \in Pool : <<d, c>> \in R} = Earlier(c)
    BY <1>2 DEF Earlier
  <2> QED BY <2>1 DEF RankOf
<1>7. ASSUME NEW i \in 1..n
      PROVE  \E c \in Pool : /\ Cardinality(Earlier(c)) = i - 1
                             /\ \A e \in Pool : Cardinality(Earlier(e)) = i - 1 => e = c
  <2>1. \E c \in Pool : /\ RankOf(R, Pool, c) = i - 1
                        /\ \A e \in Pool : RankOf(R, Pool, e) = i - 1 => e = c
    BY <1>1, <1>5, RankBijection
  <2> QED BY <1>6, <2>1
<1>8. \A i \in 1..n : InEnumOrder[i] = CHOOSE c \in Pool : Cardinality(Earlier(c)) = i - 1
  BY DEF InEnumOrder
<1>9. \A i \in 1..n : /\ InEnumOrder[i] \in Pool
                      /\ Cardinality(Earlier(InEnumOrder[i])) = i - 1
                      /\ \A e \in Pool : Cardinality(Earlier(e)) = i - 1
                                            => e = InEnumOrder[i]
  <2> SUFFICES ASSUME NEW i \in 1..n
               PROVE  /\ InEnumOrder[i] \in Pool
                      /\ Cardinality(Earlier(InEnumOrder[i])) = i - 1
                      /\ \A e \in Pool : Cardinality(Earlier(e)) = i - 1
                                            => e = InEnumOrder[i]
    OBVIOUS
  <2>1. InEnumOrder[i] \in Pool /\ Cardinality(Earlier(InEnumOrder[i])) = i - 1
    BY <1>7, <1>8
  <2> QED BY <1>7, <2>1
<1>10. InEnumOrder \in [1..n -> Pool]
  BY <1>9 DEF InEnumOrder
<1>11. ASSUME NEW c \in Pool PROVE \E i \in 1..n : InEnumOrder[i] = c
  <2> DEFINE a == Cardinality(Earlier(c))
  <2>1. Earlier(c) \in SUBSET (Pool \ {c}) /\ IsFiniteSet(Pool \ {c})
        /\ Cardinality(Pool \ {c}) = n - 1
    BY <1>1, <1>3, FS_RemoveElement DEF Earlier
  <2>2. a \in Nat /\ a <= n - 1
    BY <2>1, FS_Subset, FS_CardinalityType
  <2> HIDE DEF a, n
  <2>3. a + 1 \in 1..n /\ (a + 1) - 1 = a
    BY <1>1, <2>2
  <2> QED BY <1>9, <2>3 DEF a
<1> QED
  BY <1>1, <1>10, <1>11

(* The two folds, prefix by prefix.                                        *)
NoScan == [best |-> Nothing, second |-> Nothing, target |-> Nothing]
Scanned == [best : Int, second : Int, target : Pool \cup {Nothing}]
ScanSteps(a) ==
  /\ a[1..0] = NoScan
  /\ \A k \in 1..Cardinality(Pool) : a[1..k] = Overtaken(a[1..(k - 1)], InEnumOrder[k])
  /\ Scan = a[1..Cardinality(Pool)]

LEMMA ScanUnfolds ==
  ASSUME Pool \in SUBSET Players, Weights1000
  PROVE  \E a : ScanSteps(a)
<1> DEFINE n == Cardinality(Pool)
           F == [i \in 1..n |-> [v \in Scanned |-> Overtaken(v, InEnumOrder[i])]]
<1>1. n \in Nat /\ InEnumOrder \in [1..n -> Pool]
  BY EnumOrdered
<1>2. NoScan \in Scanned
  BY DEF NoScan, Scanned, Nothing
<1>3. \A v \in Scanned, c \in Pool : Overtaken(v, c) \in Scanned
  BY DEF Scanned, Overtaken, Weights1000
<1>4. F \in [1..n -> [Scanned -> Scanned]]
  BY <1>1, <1>3
<1>5. \A i \in 1..n : \A v \in Scanned : F[i][v] = Overtaken(v, InEnumOrder[i])
  OBVIOUS
<1> HIDE DEF F, n
<1>6. PICK g : IsLeftFolds(F, NoScan, n, g) /\ g \in [SUBSET (1..n) -> Scanned]
  BY <1>1, <1>2, <1>4, LeftFoldsExist
<1> DEFINE Eq(h) == h = [s \in SUBSET (1..n) |->
                           IF s = {} THEN NoScan
                           ELSE Overtaken(h[s \ {Max(s)}], InEnumOrder[Max(s)])]
<1>7. Eq(g)
  <2>1. g = [s \in SUBSET (1..n) |-> LeftStep(F, NoScan, g, s)]
    BY <1>6 DEF IsLeftFolds
  <2>2. ASSUME NEW s \in SUBSET (1..n), s # {}
        PROVE  LeftStep(F, NoScan, g, s)
                 = Overtaken(g[s \ {Max(s)}], InEnumOrder[Max(s)])
    <3>1. Max(s) \in 1..n
      BY <1>1, <2>2, GreatestOf
    <3>2. g[s \ {Max(s)}] \in Scanned
      BY <1>6
    <3> QED BY <1>5, <2>2, <3>1, <3>2 DEF LeftStep
  <2>3. \A s \in SUBSET (1..n) :
          LeftStep(F, NoScan, g, s)
            = IF s = {} THEN NoScan ELSE Overtaken(g[s \ {Max(s)}], InEnumOrder[Max(s)])
    BY <2>2 DEF LeftStep
  <2> QED BY <2>1, <2>3, Zenon
<1> DEFINE a == CHOOSE h : Eq(h)
<1>8. Eq(a)
  BY <1>7, Zenon
<1>9. Scan = a[1..n]
  <2>1. DOMAIN InEnumOrder = 1..n
    BY <1>1
  <2> QED BY <2>1, Zenon DEF Scan, FoldLeft, MapThenFoldSet, NoScan
<1> HIDE DEF a
<1>10. \A s \in SUBSET (1..n) :
         a[s] = IF s = {} THEN NoScan ELSE Overtaken(a[s \ {Max(s)}], InEnumOrder[Max(s)])
  BY <1>8, Zenon
<1>11. a[1..0] = NoScan
  <2>1. 1..0 = {} /\ {} \in SUBSET (1..n)
    OBVIOUS
  <2> QED BY <1>10, <2>1
<1>12. ASSUME NEW k \in 1..n PROVE a[1..k] = Overtaken(a[1..(k - 1)], InEnumOrder[k])
  <2>1. 1..k # {} /\ 1..k \in SUBSET (1..n) /\ k \in Nat /\ k > 0
    BY <1>1
  <2>2. Max(1..k) = k /\ (1..k) \ {k} = 1..(k - 1)
    BY <2>1, LastOf
  <2> QED BY <1>10, <2>1, <2>2
<1> QED
  BY <1>9, <1>11, <1>12 DEF ScanSteps, n

SortSteps(b) ==
  /\ b[1..0] = <<>>
  /\ \A k \in 1..Cardinality(Pool) : b[1..k] = Insert(b[1..(k - 1)], InEnumOrder[k])
  /\ Ranking = b[1..Cardinality(Pool)]

(* Insertion as a function of the positions.                               *)
LEMMA InsertedAt ==
  ASSUME NEW S, NEW s \in Seq(S), NEW c \in S, NEW p \in 0..Len(s)
  PROVE  /\ InsertAt(s, p + 1, c) \in Seq(S)
         /\ Len(InsertAt(s, p + 1, c)) = Len(s) + 1
         /\ \A i \in 1..(Len(s) + 1) :
              InsertAt(s, p + 1, c)[i]
                = IF i <= p THEN s[i] ELSE IF i = p + 1 THEN c ELSE s[i - 1]
<1> DEFINE u == SubSeq(s, 1, p)  v == SubSeq(s, p + 1, Len(s))
<1>1. Len(s) \in Nat /\ p \in Nat /\ p <= Len(s)
  OBVIOUS
<1>2. u \in Seq(S) /\ Len(u) = p /\ \A i \in 1..p : u[i] = s[i]
  BY <1>1
<1>3. v \in Seq(S) /\ Len(v) = Len(s) - p /\ \A i \in 1..(Len(s) - p) : v[i] = s[p + i]
  BY <1>1
<1>4. InsertAt(s, p + 1, c) = u \o <<c>> \o v
  <2>1. (p + 1) - 1 = p
    BY <1>1
  <2> QED BY <2>1 DEF InsertAt
<1> HIDE DEF u, v
<1> DEFINE w == u \o <<c>>
<1>5. w \in Seq(S) /\ Len(w) = p + 1 /\ \A i \in 1..(p + 1) : w[i] = IF i <= p THEN u[i] ELSE c
  BY <1>1, <1>2
<1> HIDE DEF w
<1>6. /\ w \o v \in Seq(S) /\ Len(w \o v) = Len(s) + 1
      /\ \A i \in 1..(Len(s) + 1) :
           (w \o v)[i] = IF i <= p + 1 THEN w[i] ELSE v[i - (p + 1)]
  <2>1. w \in Seq(S) /\ v \in Seq(S)
    BY <1>3, <1>5
  <2>2. /\ w \o v \in Seq(S) /\ Len(w \o v) = Len(w) + Len(v)
        /\ \A i \in 1..(Len(w) + Len(v)) :
             (w \o v)[i] = IF i <= Len(w) THEN w[i] ELSE v[i - Len(w)]
    BY <2>1
  <2>3. Len(w) + Len(v) = Len(s) + 1 /\ Len(w) = p + 1
    BY <1>1, <1>3, <1>5
  <2> QED BY <2>2, <2>3
<1>7. ASSUME NEW i \in 1..(Len(s) + 1)
      PROVE  (w \o v)[i] = IF i <= p THEN s[i] ELSE IF i = p + 1 THEN c ELSE s[i - 1]
  <2>1. CASE i <= p + 1
    <3>1. i \in 1..(p + 1) /\ (w \o v)[i] = w[i]
      BY <1>1, <1>6, <2>1
    <3>2. w[i] = IF i <= p THEN u[i] ELSE c
      BY <1>5, <3>1
    <3>3. i <= p => u[i] = s[i]
      BY <1>2, <3>1
    <3> QED BY <1>1, <2>1, <3>1, <3>2, <3>3
  <2>2. CASE i > p + 1
    <3>1. i - (p + 1) \in 1..(Len(s) - p) /\ p + (i - (p + 1)) = i - 1
      BY <1>1, <2>2
    <3>2. (w \o v)[i] = v[i - (p + 1)]
      BY <1>1, <1>6, <2>2
    <3>3. v[i - (p + 1)] = s[i - 1]
      BY <1>3, <3>1
    <3> QED BY <1>1, <2>2, <3>2, <3>3
  <2>3. i <= p + 1 \/ i > p + 1
    BY <1>1
  <2> QED BY <2>1, <2>2, <2>3, Zenon
<1> DEFINE r == w \o v  q == InsertAt(s, p + 1, c)  m == Len(s) + 1
<1>8. q = r
  BY <1>4 DEF w
<1>9. /\ r \in Seq(S) /\ Len(r) = m
      /\ \A i \in 1..m :
           r[i] = IF i <= p THEN s[i] ELSE IF i = p + 1 THEN c ELSE s[i - 1]
  BY <1>6, <1>7, Zenon
<1> HIDE DEF r, q
<1>10. /\ q \in Seq(S) /\ Len(q) = m
       /\ \A i \in 1..m :
            q[i] = IF i <= p THEN s[i] ELSE IF i = p + 1 THEN c ELSE s[i - 1]
  BY <1>8, <1>9, Zenon
<1> QED
  BY <1>10, Zenon DEF q

(* Where an insertion happens: among the lighter ones.                     *)
LEMMA BehindType ==
  ASSUME NEW s \in Seq(Pool), NEW c \in Pool
  PROVE  /\ BehindNoLighter(s, c) \in 0..Len(s)
         /\ Insert(s, c) \in Seq(Pool) /\ Len(Insert(s, c)) = Len(s) + 1
<1> DEFINE B == {i \in DOMAIN s : Weight(s[i]) >= Weight(c)}
<1>1. DOMAIN s = 1..Len(s) /\ Len(s) \in Nat
  OBVIOUS
<1>2. B \in SUBSET (1..Len(s)) /\ IsFiniteSet(1..Len(s)) /\ Cardinality(1..Len(s)) = Len(s)
  BY <1>1, FS_Interval
<1>3. BehindNoLighter(s, c) = Cardinality(B)
  BY DEF BehindNoLighter
<1> HIDE DEF B
<1>4. Cardinality(B) \in Nat /\ Cardinality(B) <= Len(s)
  BY <1>2, FS_Subset, FS_CardinalityType
<1>5. BehindNoLighter(s, c) \in 0..Len(s)
  BY <1>1, <1>3, <1>4
<1> QED
  BY <1>5, InsertedAt DEF Insert

Descends(r) == \A i, j \in 1..Len(r) : i <= j => Weight(r[j]) <= Weight(r[i])
Leads(r, c, q) ==
  /\ Len(r) = 0 => q[1] = c
  /\ Len(r) > 0 => /\ Weight(c) > Weight(r[1]) => q[1] = c /\ q[2] = r[1]
                   /\ ~ (Weight(c) > Weight(r[1])) =>
                        /\ q[1] = r[1]
                        /\ Len(r) = 1 => q[2] = c
                        /\ Len(r) > 1 =>
                             q[2] = IF Weight(c) > Weight(r[2]) THEN c ELSE r[2]

LEMMA InsertSorts ==
  ASSUME Weights1000, NEW r \in Seq(Pool), Descends(r), NEW c \in Pool
  PROVE  /\ Descends(Insert(r, c)) /\ Leads(r, c, Insert(r, c))
         /\ Range(Insert(r, c)) = Range(r) \cup {c}
<1> DEFINE n == Len(r)  p == BehindNoLighter(r, c)  q == Insert(r, c)
           B == {i \in 1..n : Weight(r[i]) >= Weight(c)}
<1>1. n \in Nat /\ DOMAIN r = 1..n /\ \A i \in 1..n : r[i] \in Pool
  OBVIOUS
<1>2. \A d \in Pool : Weight(d) \in Nat
  BY DEF Weights1000
<1>3. p \in 0..n /\ q \in Seq(Pool) /\ Len(q) = n + 1 /\ DOMAIN q = 1..(n + 1)
  BY BehindType
<1>4. p = Cardinality(B)
  BY <1>1 DEF BehindNoLighter
<1>5. \A i, j \in 1..n : i <= j => Weight(r[j]) <= Weight(r[i])
  BY DEF Descends
<1>6. \A i \in 1..(n + 1) : q[i] = IF i <= p THEN r[i] ELSE IF i = p + 1 THEN c ELSE r[i - 1]
  <2> DEFINE z == InsertAt(r, p + 1, c)
  <2>1. q = z
    BY DEF Insert
  <2> HIDE DEF p
  <2>2. \A i \in 1..(Len(r) + 1) :
          z[i] = IF i <= p THEN r[i] ELSE IF i = p + 1 THEN c ELSE r[i - 1]
    BY <1>3, InsertedAt
  <2> HIDE DEF q, z
  <2> QED BY <2>1, <2>2, Zenon
<1> HIDE DEF n, p, q
<1>7. B = 1..p
  <2>1. B \in SUBSET (1..n)
    OBVIOUS
  <2>2. \A i, j \in 1..n : i <= j /\ j \in B => i \in B
    BY <1>1, <1>2, <1>5
  <2> HIDE DEF B
  <2> QED BY <1>1, <1>4, <2>1, <2>2, InitialSegment
<1>8. /\ p \in Nat /\ p <= n
      /\ \A i \in 1..n : (Weight(r[i]) >= Weight(c)) <=> i <= p
  <2>1. p \in Nat /\ p <= n
    BY <1>1, <1>3
  <2>2. \A i \in 1..n : i \in B <=> i <= p
    BY <1>1, <1>7, <2>1
  <2> QED BY <2>1, <2>2
<1> HIDE DEF B
<1>9. ASSUME NEW i \in 1..(n + 1), NEW j \in 1..(n + 1), i <= j
      PROVE  Weight(q[j]) <= Weight(q[i])
  <2>1. CASE j <= p
    <3>1. i <= p /\ i \in 1..n /\ j \in 1..n
      BY <1>1, <1>8, <1>9, <2>1
    <3>2. q[i] = r[i] /\ q[j] = r[j]
      BY <1>6, <2>1, <3>1
    <3> QED BY <1>5, <1>9, <3>1, <3>2
  <2>2. CASE j = p + 1
    <3>1. q[j] = c
      BY <1>6, <1>8, <2>2
    <3>2. CASE i = j
      BY <1>2, <3>1, <3>2
    <3>3. CASE i # j
      <4>1. i <= p /\ i \in 1..n
        BY <1>1, <1>8, <1>9, <2>2, <3>3
      <4>2. q[i] = r[i] /\ Weight(r[i]) >= Weight(c)
        BY <1>6, <1>8, <4>1
      <4> QED BY <1>1, <1>2, <3>1, <4>1, <4>2
    <3> QED BY <3>2, <3>3
  <2>3. CASE j > p + 1
    <3>1. j - 1 \in 1..n /\ ~ (j - 1 <= p) /\ ~ (j <= p) /\ j # p + 1
      BY <1>1, <1>8, <2>3
    <3>2. q[j] = r[j - 1] /\ ~ (Weight(r[j - 1]) >= Weight(c))
      BY <1>6, <1>8, <3>1
    <3>3. Weight(r[j - 1]) \in Nat /\ Weight(c) \in Nat
      BY <1>1, <1>2, <3>1
    <3>4. CASE i <= p
      <4>1. i \in 1..n /\ i <= j - 1
        BY <1>1, <1>8, <2>3, <3>4
      <4>2. q[i] = r[i]
        BY <1>6, <3>4
      <4> QED BY <1>5, <3>1, <3>2, <4>1, <4>2
    <3>5. CASE i = p + 1
      <4>1. q[i] = c
        BY <1>6, <1>8, <3>5
      <4> QED BY <3>2, <3>3, <4>1
    <3>6. CASE i > p + 1
      <4>1. i - 1 \in 1..n /\ i - 1 <= j - 1 /\ ~ (i <= p) /\ i # p + 1
        BY <1>1, <1>8, <1>9, <3>6
      <4>2. q[i] = r[i - 1]
        BY <1>6, <4>1
      <4> QED BY <1>5, <3>1, <3>2, <4>1, <4>2
    <3>7. i <= p \/ i = p + 1 \/ i > p + 1
      BY <1>8
    <3> QED BY <3>4, <3>5, <3>6, <3>7, Zenon
  <2>4. j <= p \/ j = p + 1 \/ j > p + 1
    BY <1>8
  <2> QED BY <2>1, <2>2, <2>3, <2>4, Zenon
<1>10. Descends(q)
  BY <1>3, <1>9 DEF Descends
<1>11. Range(q) = Range(r) \cup {c}
  <2>1. Range(q) = {q[i] : i \in 1..(n + 1)} /\ Range(r) = {r[i] : i \in 1..n}
    BY <1>1, <1>3 DEF Range
  <2>2. ASSUME NEW i \in 1..(n + 1) PROVE q[i] \in {r[k] : k \in 1..n} \cup {c}
    <3>1. CASE i <= p
      BY <1>1, <1>6, <1>8, <3>1
    <3>2. CASE i = p + 1
      BY <1>6, <1>8, <3>2
    <3>3. CASE i > p + 1
      <4>1. i - 1 \in 1..n /\ ~ (i <= p) /\ i # p + 1
        BY <1>1, <1>8, <3>3
      <4> QED BY <1>6, <4>1
    <3>4. i <= p \/ i = p + 1 \/ i > p + 1
      BY <1>8
    <3> QED BY <3>1, <3>2, <3>3, <3>4, Zenon
  <2>3. ASSUME NEW k \in 1..n PROVE \E i \in 1..(n + 1) : q[i] = r[k]
    <3>1. CASE k <= p
      <4>1. k \in 1..(n + 1) /\ q[k] = r[k]
        BY <1>1, <1>6, <3>1
      <4> QED BY <4>1
    <3>2. CASE ~ (k <= p)
      <4>1. k + 1 \in 1..(n + 1) /\ ~ (k + 1 <= p) /\ k + 1 # p + 1 /\ (k + 1) - 1 = k
        BY <1>1, <1>8, <3>2
      <4> QED BY <1>6, <4>1
    <3> QED BY <3>1, <3>2
  <2>4. p + 1 \in 1..(n + 1) /\ q[p + 1] = c
    <3>1. p + 1 \in 1..(n + 1) /\ ~ (p + 1 <= p)
      BY <1>1, <1>8
    <3> QED BY <1>6, <3>1
  <2> QED BY <2>1, <2>2, <2>3, <2>4
<1>12. Leads(r, c, q)
  <2>1. CASE n = 0
    <3>1. p = 0 /\ 1 \in 1..(n + 1)
      BY <1>1, <1>8, <2>1
    <3>2. q[1] = c
      BY <1>6, <3>1
    <3> QED BY <2>1, <3>2 DEF Leads, n
  <2>2. CASE n > 0
    <3>1. 1 \in 1..n /\ 1 \in 1..(n + 1) /\ 2 \in 1..(n + 1) /\ 2 - 1 = 1
      BY <1>1, <2>2
    <3>2. Weight(c) \in Nat /\ Weight(r[1]) \in Nat
      BY <1>1, <1>2, <3>1
    <3>3. ASSUME Weight(c) > Weight(r[1]) PROVE q[1] = c /\ q[2] = r[1]
      <4>1. ~ (1 <= p)
        BY <1>8, <3>1, <3>2, <3>3
      <4>2. ~ (1 <= p) /\ 1 = p + 1 /\ ~ (2 <= p) /\ 2 # p + 1
        BY <1>8, <4>1
      <4> QED BY <1>6, <3>1, <4>2
    <3>4. ASSUME ~ (Weight(c) > Weight(r[1]))
          PROVE  /\ q[1] = r[1]
                 /\ n = 1 => q[2] = c
                 /\ n > 1 => q[2] = IF Weight(c) > Weight(r[2]) THEN c ELSE r[2]
      <4>1. 1 <= p
        BY <1>8, <3>1, <3>2, <3>4
      <4>2. q[1] = r[1]
        BY <1>6, <3>1, <4>1
      <4>3. ASSUME n = 1 PROVE q[2] = c
        <5>1. p = 1 /\ ~ (2 <= p) /\ 2 = p + 1
          BY <1>8, <4>1, <4>3
        <5> QED BY <1>6, <3>1, <5>1
      <4>4. ASSUME n > 1 PROVE q[2] = IF Weight(c) > Weight(r[2]) THEN c ELSE r[2]
        <5>1. 2 \in 1..n
          BY <1>1, <4>4
        <5>2. Weight(r[2]) \in Nat
          BY <1>1, <1>2, <5>1
        <5>3. CASE 2 <= p
          <6>1. q[2] = r[2]
            BY <1>6, <3>1, <5>3
          <6>2. ~ (Weight(c) > Weight(r[2]))
            BY <1>8, <3>2, <5>1, <5>2, <5>3
          <6> QED BY <6>1, <6>2
        <5>4. CASE ~ (2 <= p)
          <6>1. 2 = p + 1
            BY <1>8, <4>1, <5>4
          <6>2. q[2] = c
            BY <1>6, <3>1, <5>4, <6>1
          <6>3. Weight(c) > Weight(r[2])
            BY <1>8, <3>2, <5>1, <5>2, <5>4
          <6> QED BY <6>2, <6>3
        <5> QED BY <5>3, <5>4
      <4> QED BY <4>2, <4>3, <4>4
    <3> QED BY <1>1, <2>2, <3>3, <3>4 DEF Leads, n
  <2>3. n = 0 \/ n > 0
    BY <1>1
  <2> QED BY <2>1, <2>2, <2>3
<1> QED
  BY <1>10, <1>11, <1>12 DEF q

LEMMA SortUnfolds ==
  ASSUME Pool \in SUBSET Players
  PROVE  \E b : SortSteps(b)
<1> DEFINE n == Cardinality(Pool)  V == Seq(Pool)
           F == [i \in 1..n |-> [v \in V |-> Insert(v, InEnumOrder[i])]]
<1>1. n \in Nat /\ InEnumOrder \in [1..n -> Pool]
  BY EnumOrdered
<1>2. <<>> \in V
  OBVIOUS
<1>3. \A v \in V, c \in Pool : Insert(v, c) \in V
  BY BehindType
<1> HIDE DEF V
<1>4. F \in [1..n -> [V -> V]]
  BY <1>1, <1>3
<1>5. \A i \in 1..n : \A v \in V : F[i][v] = Insert(v, InEnumOrder[i])
  OBVIOUS
<1> HIDE DEF F, n
<1>6. PICK g : IsLeftFolds(F, <<>>, n, g) /\ g \in [SUBSET (1..n) -> V]
  BY <1>1, <1>2, <1>4, LeftFoldsExist
<1> DEFINE Eq(h) == h = [s \in SUBSET (1..n) |->
                           IF s = {} THEN <<>>
                           ELSE Insert(h[s \ {Max(s)}], InEnumOrder[Max(s)])]
<1>7. Eq(g)
  <2>1. g = [s \in SUBSET (1..n) |-> LeftStep(F, <<>>, g, s)]
    BY <1>6 DEF IsLeftFolds
  <2>2. ASSUME NEW s \in SUBSET (1..n), s # {}
        PROVE  LeftStep(F, <<>>, g, s)
                 = Insert(g[s \ {Max(s)}], InEnumOrder[Max(s)])
    <3>1. Max(s) \in 1..n
      BY <1>1, <2>2, GreatestOf
    <3>2. g[s \ {Max(s)}] \in V
      BY <1>6
    <3> QED BY <1>5, <2>2, <3>1, <3>2 DEF LeftStep
  <2>3. \A s \in SUBSET (1..n) :
          LeftStep(F, <<>>, g, s)
            = IF s = {} THEN <<>> ELSE Insert(g[s \ {Max(s)}], InEnumOrder[Max(s)])
    BY <2>2 DEF LeftStep
  <2> QED BY <2>1, <2>3, Zenon
<1> DEFINE b == CHOOSE h : Eq(h)
<1>8. Eq(b)
  BY <1>7, Zenon
<1>9. Ranking = b[1..n]
  <2>1. DOMAIN InEnumOrder = 1..n
    BY <1>1
  <2> QED BY <2>1, Zenon DEF Ranking, FoldLeft, MapThenFoldSet
<1> HIDE DEF b
<1>10. \A s \in SUBSET (1..n) :
         b[s] = IF s = {} THEN <<>> ELSE Insert(b[s \ {Max(s)}], InEnumOrder[Max(s)])
  BY <1>8, Zenon
<1>11. b[1..0] = <<>>
  <2>1. 1..0 = {} /\ {} \in SUBSET (1..n)
    OBVIOUS
  <2> QED BY <1>10, <2>1
<1>12. ASSUME NEW k \in 1..n PROVE b[1..k] = Insert(b[1..(k - 1)], InEnumOrder[k])
  <2>1. 1..k # {} /\ 1..k \in SUBSET (1..n) /\ k \in Nat /\ k > 0
    <3>1. k \in Nat /\ k > 0 /\ k <= n /\ k \in 1..k
      BY <1>1
    <3>2. \A x \in 1..k : x \in 1..n
      BY <1>1, <3>1
    <3> QED BY <3>1, <3>2
  <2>2. Max(1..k) = k /\ (1..k) \ {k} = 1..(k - 1)
    BY <2>1, LastOf
  <2> QED BY <1>10, <2>1, <2>2
<1> QED
  BY <1>9, <1>11, <1>12 DEF SortSteps, n

(* After k colors the scan holds the head of the ranking so far and the    *)
(* weight of the one behind it.                                            *)
Agrees(v, r, k) ==
  /\ r \in Seq(Pool) /\ Len(r) = k /\ Descends(r)
  /\ Range(r) = {InEnumOrder[i] : i \in 1..k}
  /\ v = IF k = 0 THEN NoScan
         ELSE [best |-> Weight(r[1]), target |-> r[1],
               second |-> IF k = 1 THEN Nothing ELSE Weight(r[2])]

LEMMA AgreesStep ==
  ASSUME Pool \in SUBSET Players, Weights1000,
         NEW k \in 1..Cardinality(Pool), NEW v, NEW r, Agrees(v, r, k - 1)
  PROVE  Agrees(Overtaken(v, InEnumOrder[k]), Insert(r, InEnumOrder[k]), k)
<1> DEFINE c == InEnumOrder[k]  q == Insert(r, c)
<1>1. c \in Pool /\ k \in Nat /\ k > 0 /\ Cardinality(Pool) \in Nat
  BY EnumOrdered
<1>2. /\ r \in Seq(Pool) /\ Len(r) = k - 1 /\ Descends(r)
      /\ Range(r) = {InEnumOrder[i] : i \in 1..(k - 1)}
  BY DEF Agrees
<1>3. /\ q \in Seq(Pool) /\ Len(q) = (k - 1) + 1
      /\ Descends(q) /\ Leads(r, c, q) /\ Range(q) = Range(r) \cup {c}
  BY <1>1, <1>2, BehindType, InsertSorts
<1>4. {InEnumOrder[i] : i \in 1..k} = {InEnumOrder[i] : i \in 1..(k - 1)} \cup {c}
  BY <1>1
<1>5. \A d \in Pool : Weight(d) \in Nat
  BY DEF Weights1000
<1> HIDE DEF q, c
<1>6. Overtaken(v, c) = [best |-> Weight(q[1]), target |-> q[1],
                         second |-> IF k = 1 THEN Nothing ELSE Weight(q[2])]
  <2>1. CASE k = 1
    <3>1. v = NoScan /\ Len(r) = 0
      BY <1>2, <2>1 DEF Agrees
    <3>2. q[1] = c
      BY <1>3, <3>1 DEF Leads
    <3>3. Weight(c) \in Nat /\ Weight(c) > Nothing
      BY <1>1, <1>5 DEF Nothing
    <3> QED BY <2>1, <3>1, <3>2, <3>3 DEF Overtaken, NoScan
  <2>2. CASE k > 1
    <3>1. k - 1 > 0 /\ k - 1 # 0 /\ Len(r) > 0 /\ k # 1
      BY <1>1, <1>2, <2>2
    <3>2. v = [best |-> Weight(r[1]), target |-> r[1],
               second |-> IF k - 1 = 1 THEN Nothing ELSE Weight(r[2])]
      BY <3>1 DEF Agrees
    <3>3. r[1] \in Pool /\ Weight(r[1]) \in Nat /\ Weight(c) \in Nat
      BY <1>1, <1>2, <1>5, <3>1
    <3>4. CASE Weight(c) > Weight(r[1])
      <4>1. q[1] = c /\ q[2] = r[1]
        BY <1>3, <3>1, <3>4 DEF Leads
      <4> QED BY <3>1, <3>2, <3>4, <4>1 DEF Overtaken
    <3>5. CASE ~ (Weight(c) > Weight(r[1]))
      <4>1. q[1] = r[1]
        BY <1>3, <3>1, <3>5 DEF Leads
      <4>2. CASE k - 1 = 1
        <5>1. q[2] = c /\ Weight(c) > Nothing
          BY <1>2, <1>3, <3>1, <3>3, <3>5, <4>2 DEF Leads, Nothing
        <5> QED BY <3>1, <3>2, <3>5, <4>1, <4>2, <5>1 DEF Overtaken
      <4>3. CASE k - 1 # 1
        <5>1. q[2] = IF Weight(c) > Weight(r[2]) THEN c ELSE r[2]
          <6>1. Len(r) > 1
            BY <1>1, <1>2, <2>2, <4>3
          <6> QED BY <1>3, <3>1, <3>5, <6>1 DEF Leads
        <5> QED BY <3>1, <3>2, <3>5, <4>1, <4>3, <5>1 DEF Overtaken
      <4> QED BY <4>2, <4>3
    <3> QED BY <3>4, <3>5
  <2>3. k = 1 \/ k > 1
    BY <1>1
  <2> QED BY <2>1, <2>2, <2>3
<1>7. (k - 1) + 1 = k /\ k # 0
  BY <1>1
<1> QED
  BY <1>2, <1>3, <1>4, <1>6, <1>7 DEF Agrees, c, q

LEMMA ScanAgrees ==
  ASSUME Pool \in SUBSET Players, Weights1000
  PROVE  Agrees(Scan, Ranking, Cardinality(Pool))
<1> DEFINE n == Cardinality(Pool)
<1>1. n \in Nat
  BY EnumOrdered
<1>2. PICK a : ScanSteps(a)
  BY ScanUnfolds
<1>3. PICK b : SortSteps(b)
  BY SortUnfolds
<1> DEFINE G == {k \in 0..n : Agrees(a[1..k], b[1..k], k)}
<1>4. 0 \in G
  <2>1. a[1..0] = NoScan /\ b[1..0] = <<>>
    BY <1>2, <1>3 DEF ScanSteps, SortSteps
  <2>2. Agrees(NoScan, <<>>, 0)
    BY DEF Agrees, Descends, Range
  <2>3. 0 \in 0..n
    BY <1>1
  <2> QED BY <2>1, <2>2, <2>3
<1>5. ASSUME NEW k \in 1..n, k - 1 \in G PROVE k \in G
  <2>1. Agrees(a[1..(k - 1)], b[1..(k - 1)], k - 1)
    BY <1>5
  <2>2. /\ a[1..k] = Overtaken(a[1..(k - 1)], InEnumOrder[k])
        /\ b[1..k] = Insert(b[1..(k - 1)], InEnumOrder[k])
    BY <1>2, <1>3 DEF ScanSteps, SortSteps
  <2>3. k \in 0..n
    BY <1>1
  <2> QED BY <2>1, <2>2, <2>3, AgreesStep
<1> HIDE DEF G
<1>6. n \in G
  BY <1>1, <1>4, <1>5, NatInductionOn
<1>7. Scan = a[1..n] /\ Ranking = b[1..n]
  BY <1>2, <1>3 DEF ScanSteps, SortSteps
<1> QED
  BY <1>6, <1>7 DEF G

LEMMA DecisionState ==
  ASSUME WeightsTyped, Current, Pool # {}
  PROVE  LET r == Ranking  d == Decision(Scan, 1, "low")
         IN  /\ Range(r) = Pool /\ Len(r) = Cardinality(Pool)
             /\ d.target = r[1] /\ d.suspicion = Weight(r[1])
             /\ d.confidence = Weight(r[1]) - (IF Len(r) = 1 THEN 0 ELSE Weight(r[2]))
<1> DEFINE n == Cardinality(Pool)  r == Ranking  s == Scan
<1>1. Weights1000 /\ Pool \in SUBSET Players
  BY WeightsInRange DEF WeightsTyped
<1>2. Agrees(s, r, n)
  BY <1>1, ScanAgrees
<1>3. n \in Nat /\ n # 0 /\ {InEnumOrder[i] : i \in 1..n} = Pool
  <2>1. /\ IsFiniteSet(Pool) /\ n \in Nat /\ InEnumOrder \in [1..n -> Pool]
        /\ \A c \in Pool : \E i \in 1..n : InEnumOrder[i] = c
    BY <1>1, EnumOrdered
  <2>2. n # 0
    BY <2>1, FS_EmptySet
  <2> QED BY <2>1, <2>2
<1> HIDE DEF n, r, s
<1>4. /\ r \in Seq(Pool) /\ Len(r) = n /\ Range(r) = Pool
      /\ s = [best |-> Weight(r[1]), target |-> r[1],
              second |-> IF n = 1 THEN Nothing ELSE Weight(r[2])]
  BY <1>2, <1>3 DEF Agrees
<1>5. n # 1 => Weight(r[2]) \in Nat
  <2>1. n # 1 => r[2] \in Pool
    BY <1>3, <1>4
  <2> QED BY <1>1, <2>1 DEF Weights1000
<1>6. (IF s.second < 0 THEN 0 ELSE s.second) = IF n = 1 THEN 0 ELSE Weight(r[2])
  BY <1>4, <1>5 DEF Nothing
<1>7. s.target = r[1] /\ s.best = Weight(r[1])
  BY <1>4
<1> QED
  BY <1>4, <1>6, <1>7 DEF Decision, n, r, s

(* The scan of fd_vote_decision and the sort of fd_rank_suspects agree on  *)
(* the head and on its margin, for every pool and all weights.             *)
THEOREM DecisionAlwaysMatches == WeightsSpec => []DecisionMatchesRanking
<1>1. WeightsTyped => DecisionMatchesRanking
  BY DecisionState DEF DecisionMatchesRanking
<1> QED
  BY <1>1, AlwaysTyped, PTL

(* A vote decision under rising pressure.                                  *)
LossMults(l) == LossMult[Levels[l]]

LEMMA PressureRises ==
  ASSUME NEW i \in DOMAIN Levels, NEW j \in DOMAIN Levels
  PROVE  /\ LossMults(i) \in Nat /\ LossMults(i) >= 1
         /\ j > i => LossMults(j) <= LossMults(i)
<1>1. DOMAIN Levels = 1..4
  BY DEF Levels
<1>2. LossMults(1) = 4 /\ LossMults(2) = 3 /\ LossMults(3) = 2 /\ LossMults(4) = 1
  BY DEF LossMults, LossMult, Levels
<1>3. (i = 1 \/ i = 2 \/ i = 3 \/ i = 4) /\ (j = 1 \/ j = 2 \/ j = 3 \/ j = 4)
  BY <1>1
<1> QED
  BY <1>2, <1>3

LEMMA Majority ==
  ASSUME NEW w \in Nat, w <= Whole, NEW x \in Nat, x >= 1, NEW y \in Nat, y <= x,
         w - (Whole - w) * x > 0
  PROVE  w > Whole - w /\ w - (Whole - w) * y > 0
<1> DEFINE u == Whole - w
<1>1. u \in Nat /\ u = 1000 - w
  BY DEF Whole
<1> HIDE DEF u
<1>2. u * y <= u * x /\ u * 1 <= u * x /\ u * x \in Int /\ u * y \in Int
  <2>1. \A a, b \in Nat : a <= b => u * a <= u * b
    BY <1>1
  <2> QED BY <1>1, <2>1
<1> DEFINE ux == u * x  uy == u * y
<1>3. w - ux > 0 /\ uy <= ux /\ u <= ux /\ ux \in Int /\ uy \in Int
  BY <1>1, <1>2 DEF u
<1> HIDE DEF ux, uy
<1>4. w > u /\ w - uy > 0
  BY <1>1, <1>3
<1> QED
  BY <1>4 DEF u, uy

LEMMA CastState ==
  ASSUME WeightsTyped, Current, Pool # {}, NEW m, NEW i \in DOMAIN Levels,
         Decision(Scan, m, Levels[i]).recommendation = "cast"
  PROVE  /\ Weight(Scan.target)
              > SumFunction([c \in Pool \ {Scan.target} |-> Weight(c)])
         /\ \A j \in DOMAIN Levels :
              j > i => Decision(Scan, m, Levels[j]) = Decision(Scan, m, Levels[i])
<1> DEFINE s == Scan  w == s.best
           conf == s.best - (IF s.second < 0 THEN 0 ELSE s.second)
<1>1. s.target \in Pool /\ w = Weight(s.target) /\ w \in Nat /\ w <= Whole
  <2> DEFINE r == Ranking  n == Cardinality(Pool)
  <2>1. Weights1000 /\ Agrees(s, r, n) /\ n \in Nat /\ n # 0
    <3>1. Weights1000 /\ Pool \in SUBSET Players /\ IsFiniteSet(Pool) /\ n \in Nat
      BY WeightsInRange, EnumOrdered DEF WeightsTyped
    <3> QED BY <3>1, ScanAgrees, FS_EmptySet
  <2> HIDE DEF s, r, n
  <2>2. /\ r \in Seq(Pool) /\ Len(r) = n
        /\ s = [best |-> Weight(r[1]), target |-> r[1],
                second |-> IF n = 1 THEN Nothing ELSE Weight(r[2])]
    BY <2>1 DEF Agrees
  <2>3. r[1] \in Pool /\ s.target = r[1] /\ s.best = Weight(r[1])
    BY <2>1, <2>2
  <2> QED BY <2>1, <2>3 DEF Weights1000
<1>2. \A l \in DOMAIN Levels :
        Decision(s, m, Levels[l])
          = [target |-> s.target, suspicion |-> w, confidence |-> conf,
             recommendation |-> Recommended(w, conf, m, Levels[l])]
  BY DEF Decision
<1>3. SumFunction([c \in Pool \ {s.target} |-> Weight(c)]) = Whole - w
  <2> DEFINE t == s.target  R == Pool \ {t}
             ws == [c \in Pool |-> Weight(c)]  wr == [c \in R |-> Weight(c)]
  <2>1. SumFunction(ws) = Whole /\ IsFiniteSet(Pool) /\ Weights1000
    BY FairState, WeightsInRange, EnumOrdered DEF WeightsTyped
  <2>2. /\ SumFunction(ws) = SumFunctionOnSet(ws, Pool)
        /\ SumFunction(wr) = SumFunctionOnSet(wr, R)
    BY DEF SumFunction
  <2>3. Integral(ws, Pool) /\ Integral(ws, R) /\ \A x \in R : wr[x] = ws[x]
    BY <2>1 DEF Integral, Weights1000
  <2>4. ws[t] = w /\ t \in Pool /\ IsFiniteSet(R)
    BY <1>1, <2>1, FS_Subset
  <2> HIDE DEF t, ws, wr, s
  <2>5. SumFunctionOnSet(wr, R) = SumFunctionOnSet(ws, R)
    <3> HIDE DEF R
    <3> QED BY <2>3, <2>4, SumLocal
  <2>6. /\ SumFunctionOnSet(ws, Pool) = ws[t] + SumFunctionOnSet(ws, Pool \ {t})
        /\ SumFunctionOnSet(ws, Pool \ {t}) \in Int
    BY <2>1, <2>3, <2>4, SumRemove
  <2>7. SumFunctionOnSet(wr, R) = Whole - w
    BY <1>1, <2>1, <2>2, <2>4, <2>5, <2>6 DEF Whole
  <2> QED BY <2>2, <2>7 DEF t, wr
<1>4. Recommended(w, conf, m, Levels[i]) = "cast"
  BY <1>2
<1> HIDE DEF s, conf
<1> DEFINE Gains(l) == w - (Whole - w) * LossMults(l) > 0
<1>5. \A l \in DOMAIN Levels :
        Recommended(w, conf, m, Levels[l]) =
          IF w <= Prior(m) THEN "skip"
          ELSE IF Gains(l) /\ conf >= MarginBar THEN "cast" ELSE "abstain"
  BY DEF Recommended, Value, LossMults
<1>6. ~ (w <= Prior(m)) /\ Gains(i) /\ conf >= MarginBar
  BY <1>4, <1>5
<1>7. /\ w > Whole - w
      /\ \A j \in DOMAIN Levels : j > i => Gains(j)
  <2>1. LossMults(i) \in Nat /\ LossMults(i) >= 1
    BY PressureRises
  <2>2. w > Whole - w
    BY <1>1, <1>6, <2>1, Majority
  <2>3. ASSUME NEW j \in DOMAIN Levels, j > i PROVE Gains(j)
    <3>1. LossMults(j) \in Nat /\ LossMults(j) <= LossMults(i)
      BY <2>3, PressureRises
    <3> QED BY <1>1, <1>6, <2>1, <3>1, Majority
  <2> QED BY <2>2, <2>3
<1> HIDE DEF Gains
<1>8. \A j \in DOMAIN Levels :
        j > i => Recommended(w, conf, m, Levels[j]) = Recommended(w, conf, m, Levels[i])
  BY <1>5, <1>6, <1>7
<1>9. \A j \in DOMAIN Levels :
        j > i => Decision(s, m, Levels[j]) = Decision(s, m, Levels[i])
  BY <1>2, <1>8
<1> QED
  BY <1>1, <1>3, <1>7, <1>9 DEF s

(* A color the decision casts on has a majority of the suspicion, and what *)
(* is worth a vote at one level of pressure is at every higher one         *)
(* (fd_query.c: fd_vote_decision), for every pool and all weights.         *)
THEOREM CastsAlwaysMajorities == WeightsSpec => []CastsAreMajorities
<1>1. WeightsTyped => CastsAreMajorities
  <2> SUFFICES ASSUME WeightsTyped, Current, Pool # {},
                      NEW m \in 1..Cardinality(Pool), NEW i \in DOMAIN Levels,
                      Decision(Scan, m, Levels[i]).recommendation = "cast"
               PROVE  LET d == Decision(Scan, m, Levels[i])
                      IN  /\ Weight(d.target) >
                               SumFunction([c \in Pool \ {d.target} |-> Weight(c)])
                          /\ \A j \in DOMAIN Levels :
                               j > i => Decision(Scan, m, Levels[j]) = d
    BY Zenon DEF CastsAreMajorities
  <2>1. Decision(Scan, m, Levels[i]).target = Scan.target
    BY DEF Decision
  <2> QED BY <2>1, CastState
<1> QED
  BY <1>1, AlwaysTyped, PTL
============================================================================
