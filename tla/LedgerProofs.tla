---------------------------- MODULE LedgerProofs ----------------------------
(* Arithmetic and ledgers.  What the fixed-point libraries guarantee for every *)
(* scale: results are naturals, rounding keeps order, and what an index turns  *)
(* into an amount it turns back into the same scaled balance.  What the token  *)
(* ledgers keep through every call: they stay ledgers of naturals, stable      *)
(* timestamps stay in order, a balance is zero exactly when what is stored for *)
(* it is zero, and the supply of a scaled ledger is the sum of its balances.   *)
EXTENDS StableDebt, FiniteSetTheorems, TLAPS

-----------------------------------------------------------------------------
(* The fixed-point libraries.                                                *)

\* The scale of rates and indexes is positive.
LEMMA RayPositive == RAY \in Nat \ {0}
BY MathConstants DEF RAY

\* Integer division by d leaves a remainder smaller than d.
LEMMA DivBounds ==
    ASSUME NEW n \in Nat, NEW d \in Nat \ {0}
    PROVE  n \div d \in Nat /\ d * (n \div d) <= n /\ n < d * (n \div d) + d
OBVIOUS

\* Integer division keeps order.
LEMMA DivMono ==
    ASSUME NEW m \in Nat, NEW n \in Nat, NEW d \in Nat \ {0}, m <= n
    PROVE  m \div d <= n \div d
OBVIOUS

\* The quotient is the only number that satisfies the division bounds.
LEMMA DivUnique ==
    ASSUME NEW n \in Nat, NEW d \in Nat \ {0}, NEW q \in Nat, d * q <= n, n < d * q + d
    PROVE  n \div d = q
OBVIOUS

\* A product of naturals is a natural.
LEMMA MulNat == ASSUME NEW a \in Nat, NEW b \in Nat PROVE a * b \in Nat
OBVIOUS

\* Multiplication keeps order, in both factors.
LEMMA MulMono ==
    ASSUME NEW a \in Nat, NEW b \in Nat, NEW c \in Nat, NEW d \in Nat, a <= b, c <= d
    PROVE  a * c <= b * d
<1>1. a * c <= b * c OBVIOUS
<1>2. b * c <= b * d OBVIOUS
<1>3. a * c \in Nat /\ b * c \in Nat /\ b * d \in Nat OBVIOUS
<1> QED BY <1>1, <1>2, <1>3

\* A product of positive numbers is positive.
LEMMA ProductPositive ==
    ASSUME NEW a \in Nat \ {0}, NEW b \in Nat \ {0}
    PROVE  a * b \in Nat \ {0}
OBVIOUS

\* A quotient is bounded by the factor its dividend is bounded with.
LEMMA DivAtMost ==
    ASSUME NEW n \in Nat, NEW d \in Nat \ {0}, NEW q \in Nat, n <= q * d
    PROVE  n \div d <= q
<1>1. n \div d \in Nat /\ d * (n \div d) <= n BY DivBounds
<1>2. SUFFICES ASSUME q + 1 <= n \div d PROVE FALSE BY <1>1
<1>3. d * (q + 1) <= d * (n \div d) BY <1>1, <1>2, MulMono
<1>4. d * (q + 1) = q * d + d OBVIOUS
<1>5. d * (n \div d) \in Nat /\ q * d \in Nat BY <1>1, MulNat
<1> QED BY <1>1, <1>3, <1>4, <1>5

\* Rounded division is defined for every divisor but zero.
LEMMA HalfUpNat == ASSUME NEW n \in Nat, NEW d \in Nat \ {0} PROVE HalfUp(n, d) \in Nat
<1>1. d \div 2 \in Nat BY DivBounds
<1> QED BY <1>1, DivBounds DEF HalfUp

\* Rounded division keeps order.
LEMMA HalfUpMono ==
    ASSUME NEW m \in Nat, NEW n \in Nat, NEW d \in Nat \ {0}, m <= n
    PROVE  HalfUp(m, d) <= HalfUp(n, d)
<1>1. d \div 2 \in Nat BY DivBounds
<1>2. m + d \div 2 \in Nat /\ n + d \div 2 \in Nat /\ m + d \div 2 <= n + d \div 2 BY <1>1
<1> QED BY <1>2, DivMono DEF HalfUp

\* Rounding leaves an exact quotient alone.
LEMMA HalfUpExact ==
    ASSUME NEW q \in Nat, NEW d \in Nat \ {0}
    PROVE  HalfUp(d * q, d) = q
<1>1. d \div 2 \in Nat /\ d \div 2 < d BY DivBounds
<1>2. d * q \in Nat BY MulNat
<1>3. d * q <= d * q + d \div 2 /\ d * q + d \div 2 < d * q + d BY <1>1, <1>2
<1>4. d * q + d \div 2 \in Nat BY <1>1, <1>2
<1> QED BY <1>3, <1>4, DivUnique DEF HalfUp

\* rayMul, rayDiv and the percentages return naturals.
LEMMA RayMulNat == ASSUME NEW a \in Nat, NEW b \in Nat PROVE rayMul(a, b) \in Nat
BY MulNat, RayPositive, HalfUpNat DEF rayMul

\* rayDiv returns a natural number.
LEMMA RayDivNat == ASSUME NEW a \in Nat, NEW b \in Nat \ {0} PROVE rayDiv(a, b) \in Nat
<1>1. RAY \in Nat BY RayPositive
<1>2. a * RAY \in Nat BY <1>1, MulNat
<1> QED BY <1>2, HalfUpNat DEF rayDiv

\* wadToRay returns a natural number.
LEMMA WadToRayNat == ASSUME NEW a \in Nat PROVE wadToRay(a) \in Nat
BY MathConstants, MulNat DEF wadToRay

\* wadToRay of a positive amount is positive: a divisor in stableMint.
LEMMA WadToRayPositive == ASSUME NEW a \in Nat \ {0} PROVE wadToRay(a) \in Nat \ {0}
BY MathConstants DEF wadToRay

\* percentMul returns a natural number.
LEMMA PercentMulNat == ASSUME NEW v \in Nat, NEW p \in Nat PROVE percentMul(v, p) \in Nat
BY MulNat, MathConstants, HalfUpNat DEF percentMul

\* percentDiv returns a natural number.
LEMMA PercentDivNat == ASSUME NEW v \in Nat, NEW p \in Nat \ {0} PROVE percentDiv(v, p) \in Nat
<1>1. v * PERCENTAGE_FACTOR \in Nat BY MathConstants, MulNat
<1> QED BY <1>1, HalfUpNat DEF percentDiv

\* A larger balance or a larger index is never worth less.
LEMMA RayMulMono ==
    ASSUME NEW a \in Nat, NEW b \in Nat, NEW i \in Nat, NEW j \in Nat, a <= b, i <= j
    PROVE  rayMul(a, i) <= rayMul(b, j)
<1>1. a * i \in Nat /\ b * j \in Nat BY MulNat
<1>2. a * i <= b * j BY MulMono
<1> QED BY <1>1, <1>2, HalfUpMono, RayPositive DEF rayMul

\* A larger amount never costs fewer scaled units.
LEMMA RayDivMono ==
    ASSUME NEW a \in Nat, NEW b \in Nat, NEW i \in Nat \ {0}, a <= b
    PROVE  rayDiv(a, i) <= rayDiv(b, i)
<1>0. RAY \in Nat BY RayPositive
<1>1. a * RAY \in Nat /\ b * RAY \in Nat BY <1>0, MulNat
<1>2. a * RAY <= b * RAY BY <1>0, MulMono
<1> QED BY <1>1, <1>2, HalfUpMono DEF rayDiv

\* One ray is neutral.
LEMMA RayMulRay == ASSUME NEW a \in Nat PROVE rayMul(RAY, a) = a /\ rayMul(a, RAY) = a
<1>0. RAY \in Nat \ {0} BY RayPositive
<1>1. a * RAY = RAY * a BY <1>0
<1> QED BY <1>0, <1>1, HalfUpExact DEF rayMul

\* Interest compounds upwards: a factor of one ray or more never shrinks an index.
LEMMA RayMulGrows ==
    ASSUME NEW f \in Nat, NEW a \in Nat, RAY <= f
    PROVE  rayMul(f, a) \in Nat /\ a <= rayMul(f, a)
<1>1. RAY \in Nat BY RayPositive
<1>2. rayMul(RAY, a) <= rayMul(f, a) BY <1>1, RayMulMono
<1> QED BY <1>2, RayMulRay, RayMulNat

\* From the scaled balance to the amount a token reports and back: for an index
\* of one ray or more the two half-up roundings cancel out.
LEMMA RoundTrip ==
    ASSUME NEW s \in Nat, NEW i \in Nat, RAY <= i
    PROVE  rayDiv(rayMul(s, i), i) = s
<1>0. RAY \in Nat \ {0} /\ i \in Nat \ {0} BY RayPositive
<1>1. CASE i = RAY BY <1>0, <1>1, RayMulRay, HalfUpExact DEF rayDiv
<1>2. CASE RAY < i
  <2> DEFINE h == RAY \div 2
             k == i \div 2
             p == rayMul(s, i)
             x == s * i
             y == p * RAY
  <2>1. x \in Nat /\ p \in Nat /\ y \in Nat BY <1>0, MulNat, RayMulNat
  <2>2. h \in Nat /\ 2 * h <= RAY /\ RAY < 2 * h + 2 BY <1>0
  <2>3. k \in Nat /\ 2 * k <= i /\ i < 2 * k + 2 BY <1>0
  <2>4. y <= x + h /\ x + h < y + RAY
    <3>1. x + h \in Nat BY <2>1, <2>2
    <3>2. p = (x + h) \div RAY BY DEF rayMul, HalfUp
    <3>3. RAY * p = y BY <2>1, <1>0
    <3>. HIDE DEF p, x, y, h
    <3> QED BY <1>0, <3>1, <3>2, <3>3, DivBounds
  <2>5. i * s = x BY <1>0
  <2>. HIDE DEF x, y, h, k
  <2>6. x <= y + k /\ y + k < x + i BY <1>0, <1>2, <2>1, <2>2, <2>3, <2>4
  <2>7. (y + k) \div i = s
    <3>1. y + k \in Nat BY <2>1, <2>3
    <3> QED BY <1>0, <2>5, <2>6, <3>1, DivUnique
  <2> QED BY <2>7 DEF rayDiv, HalfUp, y, k
<1> QED BY <1>0, <1>1, <1>2

\* A repayment computed at an index that has grown since covers the whole
\* scaled debt.
LEMMA RoundTripAbove ==
    ASSUME NEW s \in Nat, NEW i \in Nat, NEW j \in Nat, RAY <= i, i <= j
    PROVE  s <= rayDiv(rayMul(s, j), i)
<1>0. i \in Nat \ {0} BY RayPositive
<1>1. rayMul(s, i) \in Nat /\ rayMul(s, j) \in Nat BY RayMulNat
<1>2. rayMul(s, i) <= rayMul(s, j) BY RayMulMono
<1>3. rayDiv(rayMul(s, i), i) <= rayDiv(rayMul(s, j), i) BY <1>0, <1>1, <1>2, RayDivMono
<1> QED BY <1>3, RoundTrip

\* Quotients of naturals are naturals.
LEMMA DivNat == ASSUME NEW n \in Nat, NEW d \in Nat \ {0} PROVE n \div d \in Nat
BY DivBounds

\* Linear interest never shrinks, and a rate of zero earns nothing.
LEMMA LinearFactor ==
    ASSUME NEW rate \in Nat, NEW since \in Nat, NEW t \in Nat, since <= t
    PROVE  /\ calculateLinearInterest(rate, since, t) \in Nat
           /\ RAY <= calculateLinearInterest(rate, since, t)
           /\ rate = 0 => calculateLinearInterest(rate, since, t) = RAY
<1>1. t - since \in Nat OBVIOUS
<1>2. rate * (t - since) \in Nat BY <1>1, MulNat
<1>3. (rate * (t - since)) \div SECONDS_PER_YEAR \in Nat BY <1>2, MathConstants, DivNat
<1>4. rate = 0 => (rate * (t - since)) \div SECONDS_PER_YEAR = 0
  <2>1. rate = 0 => rate * (t - since) = 0 BY <1>1
  <2>2. 0 \div SECONDS_PER_YEAR = 0 BY MathConstants
  <2> QED BY <2>1, <2>2
<1> QED BY <1>3, <1>4, RayPositive DEF calculateLinearInterest

\* The three terms of the binomial that follow one ray.
BinomialTerms(rate, e) ==
    LET ratePerSecond  == rate \div SECONDS_PER_YEAR
        basePowerTwo   == rayMul(ratePerSecond, ratePerSecond)
        basePowerThree == rayMul(basePowerTwo, ratePerSecond)
    IN  ratePerSecond * e
          + (e * (e - 1) * basePowerTwo) \div 2
          + (e * (e - 1) * (IF e > 2 THEN e - 2 ELSE 0) * basePowerThree) \div 6

\* Elapsed time never lowers the terms of the binomial.
LEMMA BinomialTermsMono ==
    ASSUME NEW rate \in Nat, NEW e \in Nat \ {0}, NEW f \in Nat, e <= f
    PROVE  /\ BinomialTerms(rate, e) \in Nat
           /\ BinomialTerms(rate, f) \in Nat
           /\ BinomialTerms(rate, e) <= BinomialTerms(rate, f)
<1> DEFINE r  == rate \div SECONDS_PER_YEAR
           b  == rayMul(r, r)
           c  == rayMul(b, r)
           e2 == IF e > 2 THEN e - 2 ELSE 0
           f2 == IF f > 2 THEN f - 2 ELSE 0
<1>1. r \in Nat /\ b \in Nat /\ c \in Nat BY MathConstants, DivNat, RayMulNat
<1>2. e - 1 \in Nat /\ f - 1 \in Nat /\ e2 \in Nat /\ f2 \in Nat OBVIOUS
<1>3. e - 1 <= f - 1 /\ e2 <= f2 OBVIOUS
<1>4. e \in Nat /\ f \in Nat \ {0} OBVIOUS
<1>. HIDE DEF r, b, c, e2, f2
<1>5. r * e \in Nat /\ r * f \in Nat /\ r * e <= r * f BY <1>1, <1>4, MulNat, MulMono
<1>6. /\ e * (e - 1) \in Nat /\ f * (f - 1) \in Nat
      /\ e * (e - 1) <= f * (f - 1)
  BY <1>2, <1>3, <1>4, MulNat, MulMono
<1>7. /\ e * (e - 1) * b \in Nat /\ f * (f - 1) * b \in Nat
      /\ e * (e - 1) * b <= f * (f - 1) * b
  BY <1>1, <1>6, MulNat, MulMono
<1>8. /\ e * (e - 1) * e2 \in Nat /\ f * (f - 1) * f2 \in Nat
      /\ e * (e - 1) * e2 <= f * (f - 1) * f2
  BY <1>2, <1>3, <1>6, MulNat, MulMono
<1>9. /\ e * (e - 1) * e2 * c \in Nat /\ f * (f - 1) * f2 * c \in Nat
      /\ e * (e - 1) * e2 * c <= f * (f - 1) * f2 * c
  BY <1>1, <1>8, MulNat, MulMono
<1>10. /\ (e * (e - 1) * b) \div 2 \in Nat /\ (f * (f - 1) * b) \div 2 \in Nat
       /\ (e * (e - 1) * b) \div 2 <= (f * (f - 1) * b) \div 2
  <2>. DEFINE x == e * (e - 1) * b
              y == f * (f - 1) * b
  <2>1. x \in Nat /\ y \in Nat /\ x <= y BY <1>7
  <2>. HIDE DEF x, y
  <2>2. x \div 2 \in Nat /\ y \div 2 \in Nat /\ x \div 2 <= y \div 2 BY <2>1, DivNat, DivMono
  <2> QED BY <2>2 DEF x, y
<1>11. /\ (e * (e - 1) * e2 * c) \div 6 \in Nat /\ (f * (f - 1) * f2 * c) \div 6 \in Nat
       /\ (e * (e - 1) * e2 * c) \div 6 <= (f * (f - 1) * f2 * c) \div 6
  <2>. DEFINE x == e * (e - 1) * e2 * c
              y == f * (f - 1) * f2 * c
  <2>1. x \in Nat /\ y \in Nat /\ x <= y BY <1>9
  <2>. HIDE DEF x, y
  <2>2. x \div 6 \in Nat /\ y \div 6 \in Nat /\ x \div 6 <= y \div 6 BY <2>1, DivNat, DivMono
  <2> QED BY <2>2 DEF x, y
<1>. DEFINE Te == r * e + (e * (e - 1) * b) \div 2 + (e * (e - 1) * e2 * c) \div 6
            Tf == r * f + (f * (f - 1) * b) \div 2 + (f * (f - 1) * f2 * c) \div 6
<1>12. BinomialTerms(rate, e) = Te /\ BinomialTerms(rate, f) = Tf
  BY DEF BinomialTerms, r, b, c, e2, f2
<1>13. Te \in Nat /\ Tf \in Nat /\ Te <= Tf
  <2>. DEFINE x == (e * (e - 1) * b) \div 2
              y == (f * (f - 1) * b) \div 2
              u == (e * (e - 1) * e2 * c) \div 6
              v == (f * (f - 1) * f2 * c) \div 6
              m == r * e
              n == r * f
  <2>1. /\ x \in Nat /\ y \in Nat /\ u \in Nat /\ v \in Nat /\ m \in Nat /\ n \in Nat
        /\ x <= y /\ u <= v /\ m <= n
    BY <1>5, <1>10, <1>11
  <2>2. Te = m + x + u /\ Tf = n + y + v OBVIOUS
  <2>. HIDE DEF x, y, u, v, m, n, Te, Tf
  <2> QED BY <2>1, <2>2
<1> QED BY <1>12, <1>13

\* The compounded factor is one ray and the terms of the binomial.
LEMMA CompoundedIsBinomial ==
    ASSUME NEW rate \in Nat, NEW since \in Nat, NEW t \in Nat, since < t
    PROVE  calculateCompoundedInterest(rate, since, t) = RAY + BinomialTerms(rate, t - since)
<1> DEFINE e == t - since
           x == (rate \div SECONDS_PER_YEAR) * e
           b == rayMul(rate \div SECONDS_PER_YEAR, rate \div SECONDS_PER_YEAR)
           y == (e * (e - 1) * b) \div 2
           z == (e * (e - 1) * (IF e > 2 THEN e - 2 ELSE 0)
                   * rayMul(b, rate \div SECONDS_PER_YEAR)) \div 6
<1>1. e \in Nat \ {0} OBVIOUS
<1>2. x \in Int /\ y \in Int /\ z \in Int
  <2>1. rate \div SECONDS_PER_YEAR \in Nat BY MathConstants, DivNat
  <2>2. b \in Nat /\ rayMul(b, rate \div SECONDS_PER_YEAR) \in Nat BY <2>1, RayMulNat
  <2>3. e - 1 \in Nat /\ (IF e > 2 THEN e - 2 ELSE 0) \in Nat BY <1>1
  <2>. HIDE DEF e, b
  <2>4. e * (e - 1) \in Nat BY <1>1, <2>3, MulNat
  <2>5. e * (e - 1) * b \in Nat BY <2>2, <2>4, MulNat
  <2>6. e * (e - 1) * (IF e > 2 THEN e - 2 ELSE 0) \in Nat BY <2>3, <2>4, MulNat
  <2>7. e * (e - 1) * (IF e > 2 THEN e - 2 ELSE 0)
          * rayMul(b, rate \div SECONDS_PER_YEAR) \in Nat BY <2>2, <2>6, MulNat
  <2> QED BY <1>1, <2>1, <2>5, <2>7, DivNat, MulNat
<1>3. calculateCompoundedInterest(rate, since, t) = RAY + x + y + z
  BY <1>1 DEF calculateCompoundedInterest
<1>4. BinomialTerms(rate, t - since) = x + y + z BY DEF BinomialTerms
<1>. HIDE DEF x, y, z
<1> QED BY <1>2, <1>3, <1>4, RayPositive

\* Compound interest never shrinks a debt, and more time never shrinks it either.
LEMMA CompoundedFactor ==
    ASSUME NEW rate \in Nat, NEW since \in Nat, NEW t \in Nat, since <= t
    PROVE  /\ calculateCompoundedInterest(rate, since, t) \in Nat
           /\ RAY <= calculateCompoundedInterest(rate, since, t)
<1>1. CASE t = since BY <1>1, RayPositive DEF calculateCompoundedInterest
<1>2. CASE t # since
  <2>1. t - since \in Nat \ {0} BY <1>2
  <2>2. BinomialTerms(rate, t - since) \in Nat BY <2>1, BinomialTermsMono
  <2>3. calculateCompoundedInterest(rate, since, t) = RAY + BinomialTerms(rate, t - since)
    BY <2>1, <2>2, RayPositive, CompoundedIsBinomial
  <2> QED BY <2>2, <2>3, RayPositive
<1> QED BY <1>1, <1>2

\* The compounded factor grows with time.
LEMMA CompoundedMono ==
    ASSUME NEW rate \in Nat, NEW since \in Nat, NEW t \in Nat, NEW u \in Nat,
           since <= t, t <= u
    PROVE  calculateCompoundedInterest(rate, since, t)
             <= calculateCompoundedInterest(rate, since, u)
<1>1. CASE t = since
  <2>1. calculateCompoundedInterest(rate, since, t) = RAY
    BY <1>1 DEF calculateCompoundedInterest
  <2> QED BY <2>1, CompoundedFactor
<1>2. CASE t # since
  <2>1. t - since \in Nat \ {0} /\ u - since \in Nat \ {0} /\ t - since <= u - since
    BY <1>2
  <2>2. /\ BinomialTerms(rate, t - since) \in Nat
        /\ BinomialTerms(rate, u - since) \in Nat
        /\ BinomialTerms(rate, t - since) <= BinomialTerms(rate, u - since)
    BY <2>1, BinomialTermsMono
  <2>3. /\ calculateCompoundedInterest(rate, since, t) = RAY + BinomialTerms(rate, t - since)
        /\ calculateCompoundedInterest(rate, since, u) = RAY + BinomialTerms(rate, u - since)
    BY <1>2, <2>1, CompoundedIsBinomial
  <2> QED BY <2>2, <2>3, RayPositive
<1> QED BY <1>1, <1>2

-----------------------------------------------------------------------------
(* Sums over finite sets.  SumFunction folds a recursive function over the     *)
(* subsets of its domain; that such a function exists, and what it adds up to, *)
(* follows by induction stated in terms of sets: a set of naturals, or a       *)
(* family of subsets, that is closed under the next step holds everything.     *)

\* A set of naturals that holds 0 and every successor holds them all.
LEMMA EveryNat ==
    ASSUME NEW G \in SUBSET Nat, 0 \in G, \A n \in G : n + 1 \in G
    PROVE  G = Nat
<1> DEFINE less == OpToRel(<, Nat)
           rest == Nat \ G
<1>1. IsWellFoundedOn(less, Nat) BY NatLessThanWellFounded
<1>2. \A x, y \in Nat : y < x => <<y, x>> \in less BY DEF OpToRel
<1> HIDE DEF less
<1>3. ASSUME rest # {} PROVE FALSE
  <2>1. PICK x \in rest : \A y \in rest : <<y, x>> \notin less
    BY <1>1, <1>3, WFMin, Zenon
  <2>2. x \in Nat \ {0} OBVIOUS
  <2>3. x - 1 \in Nat /\ x - 1 < x /\ x - 1 + 1 = x BY <2>2
  <2>4. x - 1 \notin rest BY <1>2, <2>1, <2>2, <2>3
  <2> QED BY <2>3, <2>4
<1> QED BY <1>3

\* The member a fold takes next.
pick(s) == CHOOSE x \in s : TRUE

\* F adds up g over every set of S.
Adds(F, g, S) ==
    F = [s \in SUBSET S |-> IF s = {} THEN 0 ELSE g[pick(s)] + F[s \ {pick(s)}]]


\* What a set loses to pick.
LEMMA PickOut ==
    ASSUME NEW S, IsFiniteSet(S), NEW s \in SUBSET S, s # {}
    PROVE  /\ pick(s) \in s
           /\ pick(s) \in S
           /\ s \ {pick(s)} \in SUBSET S
           /\ IsFiniteSet(s)
           /\ Cardinality(s) \in Nat \ {0}
           /\ Cardinality(s \ {pick(s)}) = Cardinality(s) - 1
<1>1. pick(s) \in s BY DEF pick
<1>2. IsFiniteSet(s) BY FS_Subset
<1>3. Cardinality(s) \in Nat /\ Cardinality(s) # 0 BY <1>2, FS_CardinalityType, FS_EmptySet
<1>4. Cardinality(s \ {pick(s)}) = Cardinality(s) - 1 BY <1>1, <1>2, FS_RemoveElement
<1> QED BY <1>1, <1>2, <1>3, <1>4

\* A family that holds the empty set, and a set when it holds what pick leaves
\* of it, holds every subset.
LEMMA EverySubset ==
    ASSUME NEW S, IsFiniteSet(S), NEW H, {} \in H,
           \A s \in SUBSET S : s # {} /\ s \ {pick(s)} \in H => s \in H
    PROVE  SUBSET S \subseteq H
<1> DEFINE G == {n \in Nat : \A s \in SUBSET S : Cardinality(s) = n => s \in H}
<1>1. 0 \in G
  <2>1. ASSUME NEW s \in SUBSET S, Cardinality(s) = 0 PROVE s \in H
    <3>1. IsFiniteSet(s) BY FS_Subset
    <3>2. s = {} BY <2>1, <3>1, FS_EmptySet
    <3> QED BY <3>2
  <2> QED BY <2>1
<1>2. ASSUME NEW n \in G PROVE n + 1 \in G
  <2>1. ASSUME NEW s \in SUBSET S, Cardinality(s) = n + 1 PROVE s \in H
    <3>1. s # {} BY <2>1, FS_EmptySet
    <3>2. s \ {pick(s)} \in SUBSET S /\ Cardinality(s \ {pick(s)}) = n
      BY <2>1, <3>1, PickOut
    <3> QED BY <3>1, <3>2
  <2> QED BY <2>1
<1>3. G = Nat
  <2>1. G \in SUBSET Nat OBVIOUS
  <2> HIDE DEF G
  <2> QED BY <1>1, <1>2, <2>1, EveryNat
<1>4. ASSUME NEW s \in SUBSET S PROVE s \in H
  <2>1. Cardinality(s) \in Nat BY FS_Subset, FS_CardinalityType
  <2>2. Cardinality(s) \in G BY <1>3, <2>1, Zenon
  <2> QED BY <2>2
<1> QED BY <1>4

\* Such sums exist.
LEMMA SumsExist ==
    ASSUME NEW S, IsFiniteSet(S), NEW g \in [S -> Int]
    PROVE  \E F \in [SUBSET S -> Int] : Adds(F, g, S)
<1> DEFINE next(F, s) == IF s = {} THEN 0 ELSE g[pick(s)] + F[s \ {pick(s)}]
           upTo(F, n) == \A s \in SUBSET S : Cardinality(s) <= n => F[s] = next(F, s)
           G == {n \in Nat : \E F \in [SUBSET S -> Int] : upTo(F, n)}
<1>1. 0 \in G
  <2> DEFINE F == [s \in SUBSET S |-> 0]
  <2>1. ASSUME NEW s \in SUBSET S, Cardinality(s) <= 0 PROVE F[s] = next(F, s)
    <3>1. IsFiniteSet(s) BY FS_Subset
    <3>2. Cardinality(s) \in Nat BY <3>1, FS_CardinalityType
    <3>3. s = {} BY <2>1, <3>1, <3>2, FS_EmptySet
    <3> QED BY <3>3
  <2>2. F \in [SUBSET S -> Int] OBVIOUS
  <2> QED BY <2>1, <2>2
<1>2. ASSUME NEW n \in G PROVE n + 1 \in G
  <2>1. PICK F \in [SUBSET S -> Int] : upTo(F, n) OBVIOUS
  <2> DEFINE E == [s \in SUBSET S |-> next(F, s)]
  <2>2. E \in [SUBSET S -> Int]
    <3>1. ASSUME NEW s \in SUBSET S PROVE next(F, s) \in Int
      <4>1. s # {} => pick(s) \in S /\ s \ {pick(s)} \in SUBSET S BY PickOut
      <4>2. s # {} => g[pick(s)] \in Int /\ F[s \ {pick(s)}] \in Int BY <4>1
      <4> QED BY <4>2
    <3> QED BY <3>1
  <2>3. ASSUME NEW s \in SUBSET S, Cardinality(s) <= n + 1 PROVE E[s] = next(E, s)
    <3>1. CASE s = {} BY <3>1
    <3>2. CASE s # {}
      <4> DEFINE rest == s \ {pick(s)}
      <4>1. rest \in SUBSET S /\ Cardinality(rest) <= n BY <2>3, <3>2, PickOut
      <4> HIDE DEF rest
      <4>2. E[rest] = F[rest] BY <2>1, <4>1
      <4> QED BY <3>2, <4>2 DEF rest
    <3> QED BY <3>1, <3>2
  <2> HIDE DEF E
  <2>4. upTo(E, n + 1) BY <2>3
  <2> HIDE DEF upTo
  <2> QED BY <2>2, <2>4
<1>3. G = Nat
  <2>1. G \in SUBSET Nat OBVIOUS
  <2> HIDE DEF G
  <2> QED BY <1>1, <1>2, <2>1, EveryNat
<1>4. Cardinality(S) \in G
  <2>1. Cardinality(S) \in Nat BY FS_CardinalityType
  <2> HIDE DEF G
  <2> QED BY <1>3, <2>1
<1>5. PICK F \in [SUBSET S -> Int] : upTo(F, Cardinality(S)) BY <1>4
<1>6. \A s \in SUBSET S : F[s] = next(F, s)
  <2>1. \A s \in SUBSET S : Cardinality(s) <= Cardinality(S) BY FS_Subset
  <2> QED BY <1>5, <2>1
<1>7. F = [s \in SUBSET S |-> next(F, s)] BY <1>6
<1> QED BY <1>7 DEF Adds

\* SumFunction is such a sum.
LEMMA SumUnfolds ==
    ASSUME NEW S, IsFiniteSet(S), NEW g \in [S -> Int]
    PROVE  \E F : Adds(F, g, S) /\ SumFunction(g) = F[S]
<1> DEFINE A == CHOOSE F : Adds(F, g, S)
<1>1. DOMAIN g = S OBVIOUS
<1>2. SumFunction(g) = A[S]
  BY <1>1 DEF SumFunction, SumFunctionOnSet, FoldFunctionOnSet, MapThenFoldSet, Adds, pick
<1>3. Adds(A, g, S) BY SumsExist, Zenon
<1> QED BY <1>2, <1>3

\* Two functions that differ at most at u have sums that differ by as much.
LEMMA SumChanged ==
    ASSUME NEW S, IsFiniteSet(S), NEW g \in [S -> Int], NEW h \in [S -> Int],
           NEW u \in S, \A v \in S \ {u} : h[v] = g[v]
    PROVE  SumFunction(h) = SumFunction(g) + (h[u] - g[u])
<1>1. PICK F : Adds(F, g, S) /\ SumFunction(g) = F[S] BY SumUnfolds
<1>2. PICK E : Adds(E, h, S) /\ SumFunction(h) = E[S] BY SumUnfolds
<1> DEFINE H == {s \in SUBSET S : /\ F[s] \in Int
                                  /\ E[s] = IF u \in s THEN F[s] + (h[u] - g[u]) ELSE F[s]}
<1>3. {} \in H BY <1>1, <1>2 DEF Adds
<1>4. ASSUME NEW s \in SUBSET S, s # {}, s \ {pick(s)} \in H PROVE s \in H
  <2> DEFINE x == pick(s)
             rest == s \ {x}
  <2>1. x \in s /\ x \in S BY <1>4, PickOut
  <2>2. F[s] = g[x] + F[rest] /\ E[s] = h[x] + E[rest] BY <1>1, <1>2, <1>4 DEF Adds
  <2>3. g[x] \in Int /\ h[x] \in Int /\ g[u] \in Int /\ h[u] \in Int BY <2>1
  <2>4. F[rest] \in Int /\ E[rest] = IF u \in rest THEN F[rest] + (h[u] - g[u]) ELSE F[rest]
    BY <1>4
  <2> HIDE DEF x
  <2>5. CASE x = u BY <2>1, <2>2, <2>3, <2>4, <2>5
  <2>6. CASE x # u
    <3>1. h[x] = g[x] /\ (u \in rest <=> u \in s) BY <2>1, <2>6
    <3> QED BY <2>2, <2>3, <2>4, <3>1
  <2> QED BY <2>5, <2>6
<1>5. S \in H
  <2>1. SUBSET S \subseteq H
    <3> HIDE DEF H
    <3> QED BY <1>3, <1>4, EverySubset
  <2> QED BY <2>1
<1> QED BY <1>1, <1>2, <1>5

\* A sum of naturals is a natural that no part of it exceeds.
LEMMA SumNat ==
    ASSUME NEW S, IsFiniteSet(S), NEW g \in [S -> Nat]
    PROVE  SumFunction(g) \in Nat /\ \A u \in S : g[u] <= SumFunction(g)
<1>0. g \in [S -> Int] OBVIOUS
<1>1. PICK F : Adds(F, g, S) /\ SumFunction(g) = F[S] BY <1>0, SumUnfolds
<1> DEFINE H == {s \in SUBSET S : F[s] \in Nat /\ \A u \in s : g[u] <= F[s]}
<1>3. {} \in H BY <1>1 DEF Adds
<1>4. ASSUME NEW s \in SUBSET S, s # {}, s \ {pick(s)} \in H PROVE s \in H
  <2> DEFINE x == pick(s)
             rest == s \ {x}
  <2>1. x \in s /\ x \in S BY <1>4, PickOut
  <2>2. F[s] = g[x] + F[rest] BY <1>1, <1>4 DEF Adds
  <2>3. \A v \in S : g[v] \in Nat OBVIOUS
  <2>4. F[rest] \in Nat /\ \A v \in rest : g[v] <= F[rest] BY <1>4
  <2> HIDE DEF x
  <2>5. ASSUME NEW v \in s PROVE g[v] <= F[s]
    <3>1. CASE v = x BY <2>1, <2>2, <2>3, <2>4, <3>1
    <3>2. CASE v # x
      <4>1. v \in rest /\ g[v] \in Nat /\ g[x] \in Nat BY <2>1, <3>2
      <4>2. g[v] <= F[rest] /\ F[rest] \in Nat BY <2>4, <4>1
      <4> HIDE DEF rest
      <4> QED BY <2>2, <4>1, <4>2
    <3> QED BY <3>1, <3>2
  <2> QED BY <2>1, <2>2, <2>3, <2>4, <2>5
<1>5. S \in H
  <2>1. SUBSET S \subseteq H
    <3> HIDE DEF H
    <3> QED BY <1>3, <1>4, EverySubset
  <2> QED BY <2>1
<1> QED BY <1>1, <1>5

\* The sum of sums.
LEMMA SumPlus ==
    ASSUME NEW S, IsFiniteSet(S), NEW g \in [S -> Int], NEW h \in [S -> Int], NEW k \in [S -> Int],
           \A u \in S : k[u] = g[u] + h[u]
    PROVE  SumFunction(k) = SumFunction(g) + SumFunction(h)
<1>1. PICK F : Adds(F, g, S) /\ SumFunction(g) = F[S] BY SumUnfolds
<1>2. PICK E : Adds(E, h, S) /\ SumFunction(h) = E[S] BY SumUnfolds
<1>3. PICK D : Adds(D, k, S) /\ SumFunction(k) = D[S] BY SumUnfolds
<1> DEFINE H == {s \in SUBSET S : F[s] \in Int /\ E[s] \in Int /\ D[s] = F[s] + E[s]}
<1>4. {} \in H BY <1>1, <1>2, <1>3 DEF Adds
<1>5. ASSUME NEW s \in SUBSET S, s # {}, s \ {pick(s)} \in H PROVE s \in H
  <2> DEFINE x == pick(s)
             rest == s \ {x}
  <2>1. x \in s /\ x \in S BY <1>5, PickOut
  <2>2. F[s] = g[x] + F[rest] /\ E[s] = h[x] + E[rest] /\ D[s] = k[x] + D[rest]
    BY <1>1, <1>2, <1>3, <1>5 DEF Adds
  <2>3. g[x] \in Int /\ h[x] \in Int /\ k[x] = g[x] + h[x] BY <2>1
  <2>4. F[rest] \in Int /\ E[rest] \in Int /\ D[rest] = F[rest] + E[rest] BY <1>5
  <2> HIDE DEF x
  <2> QED BY <2>2, <2>3, <2>4
<1>6. S \in H
  <2>1. SUBSET S \subseteq H
    <3> HIDE DEF H
    <3> QED BY <1>4, <1>5, EverySubset
  <2> QED BY <2>1
<1> QED BY <1>1, <1>2, <1>3, <1>6

\* Nothing adds up to nothing.
LEMMA SumZero ==
    ASSUME NEW S, IsFiniteSet(S), NEW g \in [S -> Int], \A u \in S : g[u] = 0
    PROVE  SumFunction(g) = 0
<1>1. \A u \in S : g[u] = g[u] + g[u] BY SMT
<1>2. SumFunction(g) = SumFunction(g) + SumFunction(g) BY <1>1, SumPlus
<1>3. SumFunction(g) \in Nat
  <2>1. g \in [S -> Nat] OBVIOUS
  <2> QED BY <2>1, SumNat
<1> DEFINE n == SumFunction(g)
<1>4. n = n + n /\ n \in Nat BY <1>2, <1>3
<1>. HIDE DEF n
<1>5. n = 0 BY <1>4
<1> QED BY <1>5 DEF n

-----------------------------------------------------------------------------
(* The scaled ledgers.                                                       *)

\* A call that passes its checks leaves a scaled ledger.
LEMMA ScaledMintOK ==
    ASSUME NEW l \in ScaledLedger, NEW user \in Users, NEW amount \in Nat,
           NEW index \in Nat \ {0}
    PROVE  LET m == scaledMint(l, user, amount, index)
           IN  /\ m \in ScaledLedger
               /\ \A u \in Users \ {user} : m.balances[u] = l.balances[u]
<1> DEFINE scaled == rayDiv(amount, index)
<1>1. scaled \in Nat BY RayDivNat
<1>2. scaledMint(l, user, amount, index)
        = [l EXCEPT !.balances[user] = @ + scaled, !.totalSupply = @ + scaled]
  BY DEF scaledMint
<1>. HIDE DEF scaled
<1>3. l.balances[user] + scaled \in Nat /\ l.totalSupply + scaled \in Nat
  BY <1>1 DEF ScaledLedger
<1> QED BY <1>2, <1>3 DEF ScaledLedger

\* A guarded burn keeps the types and raises no balance.
LEMMA ScaledBurnOK ==
    ASSUME NEW l \in ScaledLedger, NEW user \in Users, NEW amount \in Nat,
           NEW index \in Nat \ {0}, scaledBurnAllowed(l, user, amount, index)
    PROVE  /\ scaledBurn(l, user, amount, index) \in ScaledLedger
           /\ \A u \in Users :
                 scaledBurn(l, user, amount, index).balances[u] <= l.balances[u]
<1> DEFINE scaled == rayDiv(amount, index)
<1>1. scaled \in Nat BY RayDivNat
<1>2. scaled <= l.balances[user] /\ scaled <= l.totalSupply BY DEF scaledBurnAllowed
<1>3. scaledBurn(l, user, amount, index)
        = [l EXCEPT !.balances[user] = @ - scaled, !.totalSupply = @ - scaled]
  BY DEF scaledBurn
<1>. HIDE DEF scaled
<1>4. /\ l.balances[user] - scaled \in Nat /\ l.totalSupply - scaled \in Nat
      /\ l.balances[user] - scaled <= l.balances[user]
  BY <1>1, <1>2 DEF ScaledLedger
<1>5. scaledBurn(l, user, amount, index) \in ScaledLedger BY <1>3, <1>4 DEF ScaledLedger
<1>6. ASSUME NEW u \in Users
      PROVE  scaledBurn(l, user, amount, index).balances[u] <= l.balances[u]
  <2>1. l.balances[u] \in Nat BY DEF ScaledLedger
  <2>2. scaledBurn(l, user, amount, index).balances[u]
          = IF u = user THEN l.balances[user] - scaled ELSE l.balances[u]
    BY <1>3 DEF ScaledLedger
  <2> QED BY <1>4, <2>1, <2>2
<1> QED BY <1>5, <1>6

\* A guarded transfer keeps the types, also one to oneself.
LEMMA ScaledTransferOK ==
    ASSUME NEW l \in ScaledLedger, NEW from \in Users, NEW to \in Users,
           NEW amount \in Nat, NEW index \in Nat \ {0},
           scaledTransferAllowed(l, from, amount, index)
    PROVE  scaledTransfer(l, from, to, amount, index) \in ScaledLedger
<1> DEFINE scaled == rayDiv(amount, index)
           debited == [l EXCEPT !.balances[from] = @ - scaled]
<1>1. scaled \in Nat BY RayDivNat
<1>2. scaled <= l.balances[from] BY DEF scaledTransferAllowed
<1>3. scaledTransfer(l, from, to, amount, index)
        = [debited EXCEPT !.balances[to] = @ + scaled]
  BY DEF scaledTransfer
<1>. HIDE DEF scaled
<1>4. l.balances[from] - scaled \in Nat BY <1>1, <1>2 DEF ScaledLedger
<1>5. debited \in ScaledLedger BY <1>4 DEF ScaledLedger
<1>. HIDE DEF debited
<1>6. debited.balances[to] + scaled \in Nat BY <1>1, <1>5 DEF ScaledLedger
<1> QED BY <1>3, <1>5, <1>6 DEF ScaledLedger

\* A scaled balance is worth at least itself, and nothing only if it is nothing.
LEMMA ScaledBalance ==
    ASSUME NEW l \in ScaledLedger, NEW user \in Users, NEW index \in Nat, RAY <= index
    PROVE  /\ scaledBalanceOf(l, user, index) \in Nat
           /\ l.balances[user] <= scaledBalanceOf(l, user, index)
           /\ l.balances[user] = 0 <=> scaledBalanceOf(l, user, index) = 0
<1>1. l.balances[user] \in Nat BY DEF ScaledLedger
<1>2. rayMul(l.balances[user], index) = rayMul(index, l.balances[user])
  <2>1. l.balances[user] * index = index * l.balances[user] BY <1>1
  <2> QED BY <2>1 DEF rayMul
<1>3. /\ rayMul(index, l.balances[user]) \in Nat
      /\ l.balances[user] <= rayMul(index, l.balances[user])
  BY <1>1, RayMulGrows
<1>4. rayMul(0, index) = 0
  <2>1. RAY \in Nat \ {0} /\ 0 * index = 0 /\ RAY * 0 = 0 BY RayPositive
  <2>2. HalfUp(RAY * 0, RAY) = 0 BY <2>1, HalfUpExact
  <2> QED BY <2>1, <2>2 DEF rayMul
<1> QED BY <1>1, <1>2, <1>3, <1>4 DEF scaledBalanceOf

\* Burning at the stored index the balance reported at an index that is not
\* lower leaves no scaled debt behind.
LEMMA FullScaledBurn ==
    ASSUME NEW l \in ScaledLedger, NEW user \in Users,
           NEW index \in Nat, NEW reported \in Nat, RAY <= index, index <= reported,
           scaledBurnAllowed(l, user, scaledBalanceOf(l, user, reported), index)
    PROVE  scaledBurn(l, user, scaledBalanceOf(l, user, reported), index).balances[user] = 0
<1> DEFINE burnt == rayDiv(scaledBalanceOf(l, user, reported), index)
<1>1. l.balances[user] \in Nat BY DEF ScaledLedger
<1>2. l.balances[user] <= burnt BY <1>1, RoundTripAbove DEF scaledBalanceOf
<1>3. burnt <= l.balances[user] BY DEF scaledBurnAllowed
<1>4. burnt \in Nat
  <2>1. index \in Nat \ {0} BY RayPositive
  <2>2. scaledBalanceOf(l, user, reported) \in Nat BY <1>1, RayMulNat DEF scaledBalanceOf
  <2> QED BY <2>1, <2>2, RayDivNat
<1>5. scaledBurn(l, user, scaledBalanceOf(l, user, reported), index).balances[user]
        = l.balances[user] - burnt
  BY DEF scaledBurn, ScaledLedger
<1>. HIDE DEF burnt
<1> QED BY <1>1, <1>2, <1>3, <1>4, <1>5

\* The stored supply of a scaled ledger is the sum of its balances.
Balanced(l) == l.totalSupply = SumFunction(l.balances)

\* A mint keeps a ledger balanced.
LEMMA ScaledMintBalanced ==
    ASSUME NEW l \in ScaledLedger, Balanced(l), NEW user \in Users, NEW amount \in Nat,
           NEW index \in Nat \ {0}
    PROVE  Balanced(scaledMint(l, user, amount, index))
<1> DEFINE scaled == rayDiv(amount, index)
           m == scaledMint(l, user, amount, index)
<1>1. scaled \in Nat BY RayDivNat
<1>2. m = [l EXCEPT !.balances[user] = @ + scaled, !.totalSupply = @ + scaled]
  BY DEF scaledMint
<1>. HIDE DEF scaled, m
<1>3. /\ m.balances = [l.balances EXCEPT ![user] = @ + scaled]
      /\ m.totalSupply = l.totalSupply + scaled
  BY <1>2 DEF ScaledLedger
<1>4. /\ l.balances \in [Users -> Int] /\ m.balances \in [Users -> Int]
      /\ l.balances[user] \in Nat
  BY <1>1, <1>3 DEF ScaledLedger
<1>5. SumFunction(m.balances)
        = SumFunction(l.balances) + (m.balances[user] - l.balances[user])
  BY <1>3, <1>4, UsersFinite, SumChanged
<1>6. m.balances[user] - l.balances[user] = scaled BY <1>1, <1>3, <1>4
<1> QED BY <1>3, <1>5, <1>6 DEF Balanced, m

\* A guarded burn keeps a ledger balanced.
LEMMA ScaledBurnBalanced ==
    ASSUME NEW l \in ScaledLedger, Balanced(l), NEW user \in Users, NEW amount \in Nat,
           NEW index \in Nat \ {0}
    PROVE  Balanced(scaledBurn(l, user, amount, index))
<1> DEFINE scaled == rayDiv(amount, index)
           m == scaledBurn(l, user, amount, index)
<1>1. scaled \in Nat BY RayDivNat
<1>2. m = [l EXCEPT !.balances[user] = @ - scaled, !.totalSupply = @ - scaled]
  BY DEF scaledBurn
<1>. HIDE DEF scaled, m
<1>3. /\ m.balances = [l.balances EXCEPT ![user] = @ - scaled]
      /\ m.totalSupply = l.totalSupply - scaled
  BY <1>2 DEF ScaledLedger
<1>4. /\ l.balances \in [Users -> Int] /\ m.balances \in [Users -> Int]
      /\ l.balances[user] \in Nat /\ l.totalSupply \in Nat
  BY <1>1, <1>3 DEF ScaledLedger
<1>5. SumFunction(m.balances)
        = SumFunction(l.balances) + (m.balances[user] - l.balances[user])
  BY <1>3, <1>4, UsersFinite, SumChanged
<1>6. m.balances[user] - l.balances[user] = 0 - scaled BY <1>1, <1>3, <1>4
<1>7. SumFunction(l.balances) = l.totalSupply BY DEF Balanced
<1> QED BY <1>1, <1>3, <1>4, <1>5, <1>6, <1>7 DEF Balanced, m

\* A transfer keeps a ledger balanced, also one to oneself.
LEMMA ScaledTransferBalanced ==
    ASSUME NEW l \in ScaledLedger, Balanced(l), NEW from \in Users, NEW to \in Users,
           NEW amount \in Nat, NEW index \in Nat \ {0}
    PROVE  LET m == scaledTransfer(l, from, to, amount, index)
           IN  Balanced(m) /\ m.totalSupply = l.totalSupply
<1> DEFINE scaled == rayDiv(amount, index)
           debited == [l.balances EXCEPT ![from] = @ - scaled]
           credited == [debited EXCEPT ![to] = @ + scaled]
           m == scaledTransfer(l, from, to, amount, index)
<1>1. scaled \in Nat BY RayDivNat
<1>2. m = [[l EXCEPT !.balances[from] = @ - scaled] EXCEPT !.balances[to] = @ + scaled]
  BY DEF scaledTransfer
<1>. HIDE DEF scaled, m
<1>3. m.balances = credited /\ m.totalSupply = l.totalSupply BY <1>2 DEF ScaledLedger
<1>4. l.balances \in [Users -> Int] /\ l.balances[from] \in Nat /\ l.totalSupply \in Nat
  BY DEF ScaledLedger
<1>5. debited \in [Users -> Int] BY <1>1, <1>4
<1>6. credited \in [Users -> Int] BY <1>1, <1>5
<1>7. SumFunction(debited) = SumFunction(l.balances) + (debited[from] - l.balances[from])
  <2>1. \A v \in Users \ {from} : debited[v] = l.balances[v] BY <1>4
  <2>. HIDE DEF debited
  <2> QED BY <1>4, <1>5, <2>1, UsersFinite, SumChanged
<1>8. debited[from] - l.balances[from] = 0 - scaled BY <1>1, <1>4
<1>. HIDE DEF debited
<1>9. SumFunction(credited) = SumFunction(debited) + (credited[to] - debited[to])
  <2>1. \A v \in Users \ {to} : credited[v] = debited[v] BY <1>5
  <2>. HIDE DEF credited
  <2> QED BY <1>5, <1>6, <2>1, UsersFinite, SumChanged
<1>10. credited[to] - debited[to] = scaled
  <2>1. debited[to] \in Int BY <1>5
  <2>2. credited[to] = debited[to] + scaled BY <1>5
  <2> QED BY <1>1, <2>1, <2>2
<1>11. SumFunction(l.balances) = l.totalSupply BY DEF Balanced
<1>. HIDE DEF credited
<1>12. SumFunction(credited) = l.totalSupply BY <1>1, <1>4, <1>7, <1>8, <1>9, <1>10, <1>11
<1> QED BY <1>3, <1>12 DEF Balanced, m

-----------------------------------------------------------------------------
(* The stable ledger.                                                        *)

\* A stable balance is worth at least its principal, and nothing only if the
\* principal is nothing.
LEMMA StableBalance ==
    ASSUME NEW l \in StableLedger, NEW user \in Users, NEW t \in Nat, StableClocks(l, t)
    PROVE  /\ stableBalanceOf(l, user, t) \in Nat
           /\ l.balances[user] <= stableBalanceOf(l, user, t)
           /\ l.balances[user] = 0 <=> stableBalanceOf(l, user, t) = 0
<1> DEFINE factor == calculateCompoundedInterest(l.usersStableRate[user], l.timestamps[user], t)
<1>1. /\ l.balances[user] \in Nat /\ l.usersStableRate[user] \in Nat
      /\ l.timestamps[user] \in Nat /\ l.totalSupplyTimestamp \in Nat
  BY DEF StableLedger
<1>2. l.timestamps[user] <= t BY <1>1 DEF StableClocks
<1>3. factor \in Nat /\ RAY <= factor BY <1>1, <1>2, CompoundedFactor
<1>. HIDE DEF factor
<1>4. rayMul(l.balances[user], factor) = rayMul(factor, l.balances[user])
  <2>1. l.balances[user] * factor = factor * l.balances[user] BY <1>1, <1>3
  <2> QED BY <2>1 DEF rayMul
<1>5. /\ rayMul(factor, l.balances[user]) \in Nat
      /\ l.balances[user] <= rayMul(factor, l.balances[user])
  BY <1>1, <1>3, RayMulGrows
<1>6. stableBalanceOf(l, user, t)
        = IF l.balances[user] = 0 THEN 0 ELSE rayMul(l.balances[user], factor)
  BY DEF stableBalanceOf, factor
<1> QED BY <1>1, <1>4, <1>5, <1>6

\* The total supply of stable debt is defined at every time from its clock on.
LEMMA StableSupplyNat ==
    ASSUME NEW l \in StableLedger, NEW t \in Nat, StableClocks(l, t)
    PROVE  stableTotalSupply(l, t) \in Nat
<1>1. /\ l.totalSupply \in Nat /\ l.avgStableRate \in Nat
      /\ l.totalSupplyTimestamp \in Nat /\ l.totalSupplyTimestamp <= t
  BY DEF StableLedger, StableClocks
<1>2. calculateCompoundedInterest(l.avgStableRate, l.totalSupplyTimestamp, t) \in Nat
  BY <1>1, CompoundedFactor
<1> QED BY <1>1, <1>2, RayMulNat DEF stableTotalSupply

\* Re-weighting a rate by balances that are not both nothing gives a rate.
LEMMA WeightedRateNat ==
    ASSUME NEW r \in Nat, NEW b \in Nat, NEW q \in Nat, NEW a \in Nat \ {0}
    PROVE  /\ rayDiv(rayMul(r, wadToRay(b)) + rayMul(wadToRay(a), q), wadToRay(b + a)) \in Nat
           /\ rayDiv(rayMul(r, wadToRay(b)) + rayMul(q, wadToRay(a)), wadToRay(b + a)) \in Nat
<1>1. /\ wadToRay(b) \in Nat /\ wadToRay(a) \in Nat /\ b + a \in Nat \ {0}
      /\ wadToRay(b + a) \in Nat \ {0}
  BY WadToRayNat, WadToRayPositive
<1>2. /\ rayMul(r, wadToRay(b)) \in Nat /\ rayMul(wadToRay(a), q) \in Nat
      /\ rayMul(q, wadToRay(a)) \in Nat
  BY <1>1, RayMulNat
<1>3. /\ rayMul(r, wadToRay(b)) + rayMul(wadToRay(a), q) \in Nat
      /\ rayMul(r, wadToRay(b)) + rayMul(q, wadToRay(a)) \in Nat
  BY <1>2
<1> QED BY <1>1, <1>3, RayDivNat

\* Minting stable debt leaves a ledger whose clocks agree, with a supply.
LEMMA StableMintOK ==
    ASSUME NEW l \in StableLedger, NEW user \in Users, NEW t \in Nat, StableClocks(l, t),
           NEW amount \in Nat \ {0}, NEW rate \in Nat
    PROVE  LET m == stableMint(l, user, amount, rate, t)
           IN  /\ m \in StableLedger
               /\ StableClocks(m, t)
               /\ m.totalSupplyTimestamp = t
               /\ m.totalSupply # 0
               /\ \A u \in Users \ {user} : m.balances[u] = l.balances[u]
<1> DEFINE balance == stableBalanceOf(l, user, t)
           supply  == stableTotalSupply(l, t)
           newRate == rayDiv(rayMul(l.usersStableRate[user], wadToRay(balance))
                               + rayMul(wadToRay(amount), rate), wadToRay(balance + amount))
           newAvg  == rayDiv(rayMul(l.avgStableRate, wadToRay(supply))
                               + rayMul(rate, wadToRay(amount)), wadToRay(supply + amount))
           m == stableMint(l, user, amount, rate, t)
<1>1. balance \in Nat /\ supply \in Nat BY StableBalance, StableSupplyNat
<1>2. l.usersStableRate[user] \in Nat /\ l.avgStableRate \in Nat BY DEF StableLedger
<1>. HIDE DEF balance, supply
<1>3. newRate \in Nat /\ newAvg \in Nat BY <1>1, <1>2, WeightedRateNat
<1>. HIDE DEF newRate, newAvg
<1>4. m = [l EXCEPT !.balances[user] = balance + amount,
                    !.usersStableRate[user] = newRate,
                    !.timestamps[user] = t,
                    !.totalSupply = supply + amount,
                    !.avgStableRate = newAvg,
                    !.totalSupplyTimestamp = t]
  BY DEF stableMint, balance, supply, newRate, newAvg
<1>5. balance + amount \in Nat /\ supply + amount \in Nat \ {0} BY <1>1
<1>. HIDE DEF m
<1>6. m \in StableLedger BY <1>3, <1>4, <1>5 DEF StableLedger
<1>7. StableClocks(m, t)
  <2>1. \A u \in Users : l.timestamps[u] \in Nat BY DEF StableLedger
  <2>2. l.totalSupplyTimestamp \in Nat BY DEF StableLedger
  <2>3. \A u \in Users : l.timestamps[u] <= t BY <2>1, <2>2 DEF StableClocks
  <2>4. m.totalSupplyTimestamp = t BY <1>4 DEF StableLedger
  <2>5. \A u \in Users : m.timestamps[u] = IF u = user THEN t ELSE l.timestamps[u]
    BY <1>4 DEF StableLedger
  <2> QED BY <2>3, <2>4, <2>5 DEF StableClocks
<1>8. /\ m.totalSupplyTimestamp = t /\ m.totalSupply = supply + amount
      /\ \A u \in Users \ {user} : m.balances[u] = l.balances[u]
  BY <1>4 DEF StableLedger
<1> QED BY <1>5, <1>6, <1>7, <1>8 DEF m

\* What a burn leaves of the supply: naturals, and no rate without a supply
\* unless there already was one.
LEMMA SupplyAfterBurnOK ==
    ASSUME NEW l \in StableLedger, NEW user \in Users, NEW t \in Nat, StableClocks(l, t),
           NEW amount \in Nat
    PROVE  LET s == supplyAfterBurn(l, user, amount, t)
           IN  /\ s.totalSupply \in Nat
               /\ s.avgStableRate \in Nat
               /\ s.totalSupply = 0 => s.avgStableRate = 0
<1> DEFINE previous == stableTotalSupply(l, t)
           first    == rayMul(l.avgStableRate, wadToRay(previous))
           second   == rayMul(l.usersStableRate[user], wadToRay(amount))
           rate     == rayDiv(first - second, wadToRay(previous - amount))
           reset    == previous <= amount \/ second >= first
<1>1. previous \in Nat BY StableSupplyNat
<1>2. l.usersStableRate[user] \in Nat /\ l.avgStableRate \in Nat BY DEF StableLedger
<1>. HIDE DEF previous
<1>3. first \in Nat /\ second \in Nat BY <1>1, <1>2, WadToRayNat, RayMulNat
<1>4. supplyAfterBurn(l, user, amount, t)
        = IF reset
          THEN [totalSupply |-> 0, avgStableRate |-> 0]
          ELSE [totalSupply |-> previous - amount, avgStableRate |-> rate]
  BY DEF supplyAfterBurn, previous
<1>. HIDE DEF first, second
<1>5. CASE reset BY <1>4, <1>5
<1>6. CASE ~reset
  <2>1. first - second \in Nat /\ previous - amount \in Nat \ {0} BY <1>1, <1>3, <1>6
  <2>2. rate \in Nat BY <2>1, WadToRayPositive, RayDivNat
  <2>. HIDE DEF rate
  <2> QED BY <1>4, <1>6, <2>1, <2>2
<1>. HIDE DEF reset
<1> QED BY <1>5, <1>6

\* Burning stable debt leaves a ledger whose clocks agree, and no rate without
\* a supply; burning the whole balance leaves no principal.
LEMMA StableBurnOK ==
    ASSUME NEW l \in StableLedger, NEW user \in Users, NEW t \in Nat, StableClocks(l, t),
           NEW amount \in Nat, stableBurnAllowed(l, user, amount, t)
    PROVE  LET b == stableBurn(l, user, amount, t)
           IN  /\ b \in StableLedger
               /\ StableClocks(b, t)
               /\ b.totalSupplyTimestamp = t
               /\ b.totalSupply = 0 => b.avgStableRate = 0
               /\ b.balances[user] = stableBalanceOf(l, user, t) - amount
               /\ \A u \in Users \ {user} : b.balances[u] = l.balances[u]
<1> DEFINE balance == stableBalanceOf(l, user, t)
           supply  == supplyAfterBurn(l, user, amount, t)
           whole   == amount = balance
           b == stableBurn(l, user, amount, t)
<1>1. balance \in Nat /\ amount <= balance BY StableBalance DEF stableBurnAllowed
<1>2. /\ supply.totalSupply \in Nat /\ supply.avgStableRate \in Nat
      /\ supply.totalSupply = 0 => supply.avgStableRate = 0
  BY SupplyAfterBurnOK
<1>3. b = [l EXCEPT !.balances[user] = balance - amount,
                    !.usersStableRate[user] = IF whole THEN 0 ELSE @,
                    !.timestamps[user] = IF whole THEN 0 ELSE t,
                    !.totalSupply = supply.totalSupply,
                    !.avgStableRate = supply.avgStableRate,
                    !.totalSupplyTimestamp = t]
  BY DEF stableBurn
<1>. HIDE DEF balance, supply, whole, b
<1>4. balance - amount \in Nat BY <1>1
<1>5. b \in StableLedger BY <1>2, <1>3, <1>4 DEF StableLedger
<1>6. /\ b.totalSupplyTimestamp = t
      /\ b.totalSupply = supply.totalSupply
      /\ b.avgStableRate = supply.avgStableRate
      /\ b.balances[user] = balance - amount
      /\ \A u \in Users \ {user} : b.balances[u] = l.balances[u]
  BY <1>3 DEF StableLedger
<1>7. StableClocks(b, t)
  <2>1. \A u \in Users : l.timestamps[u] \in Nat BY DEF StableLedger
  <2>2. l.totalSupplyTimestamp \in Nat BY DEF StableLedger
  <2>3. \A u \in Users : l.timestamps[u] <= t BY <2>1, <2>2 DEF StableClocks
  <2>4. \A u \in Users : b.timestamps[u] = IF u = user THEN IF whole THEN 0 ELSE t
                                                       ELSE l.timestamps[u]
    BY <1>3 DEF StableLedger
  <2> QED BY <2>3, <2>4, <1>6 DEF StableClocks
<1> QED BY <1>2, <1>5, <1>6, <1>7 DEF b, balance

\* At the moment of a borrower's last operation his balance is his principal.
LEMMA PrincipalNow ==
    ASSUME NEW l \in StableLedger, NEW u \in Users, NEW t, l.timestamps[u] = t
    PROVE  stableBalanceOf(l, u, t) = l.balances[u]
<1>1. calculateCompoundedInterest(l.usersStableRate[u], t, t) = RAY
  <2>1. t \in Nat BY DEF StableLedger
  <2>2. t - t = 0 BY <2>1
  <2> QED BY <2>2 DEF calculateCompoundedInterest
<1>2. l.balances[u] \in Nat BY DEF StableLedger
<1> QED BY <1>1, <1>2, RayMulRay DEF stableBalanceOf

\* A mint raises the borrower's balance by the amount and nobody else's.
LEMMA StableMintBalances ==
    ASSUME NEW l \in StableLedger, NEW user \in Users, NEW t \in Nat, StableClocks(l, t),
           NEW amount \in Nat \ {0}, NEW rate \in Nat
    PROVE  LET m == stableMint(l, user, amount, rate, t)
           IN  /\ stableBalanceOf(m, user, t) = stableBalanceOf(l, user, t) + amount
               /\ m.balances[user] = stableBalanceOf(l, user, t) + amount
               /\ \A u \in Users \ {user} :
                     stableBalanceOf(m, u, t) = stableBalanceOf(l, u, t)
<1> DEFINE m == stableMint(l, user, amount, rate, t)
           balance == stableBalanceOf(l, user, t)
<1>1. m \in StableLedger BY StableMintOK
<1>2. /\ m.balances[user] = balance + amount /\ m.timestamps[user] = t
      /\ \A u \in Users \ {user} : /\ m.balances[u] = l.balances[u]
                                  /\ m.usersStableRate[u] = l.usersStableRate[u]
                                  /\ m.timestamps[u] = l.timestamps[u]
  BY DEF stableMint, StableLedger
<1>. HIDE DEF m, balance
<1>3. stableBalanceOf(m, user, t) = balance + amount BY <1>1, <1>2, PrincipalNow
<1>4. \A u \in Users \ {user} : stableBalanceOf(m, u, t) = stableBalanceOf(l, u, t)
  BY <1>2 DEF stableBalanceOf
<1> QED BY <1>2, <1>3, <1>4 DEF m, balance

\* A guarded burn lowers the borrower's balance by the amount and nobody else's.
LEMMA StableBurnBalances ==
    ASSUME NEW l \in StableLedger, NEW user \in Users, NEW t \in Nat, StableClocks(l, t),
           NEW amount \in Nat, stableBurnAllowed(l, user, amount, t)
    PROVE  LET b == stableBurn(l, user, amount, t)
           IN  /\ stableBalanceOf(b, user, t) = stableBalanceOf(l, user, t) - amount
               /\ \A u \in Users \ {user} :
                     stableBalanceOf(b, u, t) = stableBalanceOf(l, u, t)
<1> DEFINE b == stableBurn(l, user, amount, t)
           balance == stableBalanceOf(l, user, t)
<1>1. b \in StableLedger BY StableBurnOK
<1>2. balance \in Nat /\ amount <= balance BY StableBalance DEF stableBurnAllowed
<1>3. /\ b.balances[user] = balance - amount
      /\ amount # balance => b.timestamps[user] = t
      /\ \A u \in Users \ {user} : /\ b.balances[u] = l.balances[u]
                                  /\ b.usersStableRate[u] = l.usersStableRate[u]
                                  /\ b.timestamps[u] = l.timestamps[u]
  BY DEF stableBurn, StableLedger
<1>. HIDE DEF b, balance
<1>4. CASE amount = balance
  <2>1. b.balances[user] = 0 BY <1>2, <1>3, <1>4
  <2>2. stableBalanceOf(b, user, t) = 0 BY <2>1 DEF stableBalanceOf
  <2>3. balance - amount = 0 BY <1>2, <1>4
  <2>4. \A u \in Users \ {user} : stableBalanceOf(b, u, t) = stableBalanceOf(l, u, t)
    BY <1>3 DEF stableBalanceOf
  <2> QED BY <2>2, <2>3, <2>4 DEF b, balance
<1>5. CASE amount # balance
  <2>1. stableBalanceOf(b, user, t) = balance - amount BY <1>1, <1>3, <1>5, PrincipalNow
  <2>2. \A u \in Users \ {user} : stableBalanceOf(b, u, t) = stableBalanceOf(l, u, t)
    BY <1>3 DEF stableBalanceOf
  <2> QED BY <2>1, <2>2 DEF b, balance
<1> QED BY <1>4, <1>5
=============================================================================
