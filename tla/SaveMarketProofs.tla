-------------------------- MODULE SaveMarketProofs --------------------------
(***************************************************************************)
(* What the Save market guarantees for every set of reserves and owners,   *)
(* every validated configuration, oracle answer, amount and sequence of    *)
(* instructions: its books match its tokens, liquidations are bounded, and *)
(* it uses its outflow limiter as the limiter allows, so that what the     *)
(* limiter remembers of the outflow, and its bound on it, are the          *)
(* market's.                                                               *)
(*                                                                         *)
(* The invariant MarketInv says that every stored reserve and obligation   *)
(* is sound and that the books balance.  Sections 1 to 7 show that the     *)
(* SDK's calculations keep natural numbers natural and what they book,     *)
(* section 8 is the limiter alone, 9 to 12 take the instructions one by    *)
(* one, and 13 puts them together.                                         *)
(***************************************************************************)
EXTENDS SaveMarket, SumLemmas, SequenceTheorems, TLAPS

-----------------------------------------------------------------------------
(* 1. Arithmetic.                                                          *)

(* Division by a positive divisor keeps natural numbers natural            *)
(* (Decimal::try_div).                                                     *)
LEMMA DivNat ==
  ASSUME NEW a \in Nat, NEW b \in Nat \ {0}
  PROVE  a \div b \in Nat
  OBVIOUS

(* Products of natural numbers (Decimal::try_mul).                         *)
LEMMA MulNat ==
  ASSUME NEW a \in Nat, NEW b \in Nat
  PROVE  a * b \in Nat
  OBVIOUS

(* Multiplication keeps the order.                                         *)
LEMMA MulMonotone ==
  ASSUME NEW a \in Nat, NEW b \in Nat, NEW c \in Nat, a <= b
  PROVE  a * c <= b * c /\ c * a <= c * b
<1>1. PICK d \in Nat : b = a + d
  <2>1. b - a \in Nat
    OBVIOUS
  <2> QED
    BY <2>1
<1>2. b * c = a * c + d * c /\ c * b = c * a + c * d
  BY <1>1
<1>3. a * c \in Nat /\ d * c \in Nat /\ c * a \in Nat /\ c * d \in Nat
  BY <1>1, MulNat
<1> QED
  BY <1>2, <1>3

(* What a division that rounds down leaves.                                *)
LEMMA DivRemainder ==
  ASSUME NEW a \in Nat, NEW b \in Nat \ {0}
  PROVE  /\ (a \div b) * b <= a
         /\ a < (a \div b) * b + b
<1> DEFINE q == a \div b
<1>1. /\ q \in Nat
      /\ a = b * q + (a % b)
      /\ a % b \in 0 .. b - 1
  OBVIOUS
<1>2. b * q = q * b /\ q * b \in Nat
  BY <1>1
<1> HIDE DEF q
<1>3. q * b <= a /\ a < q * b + b
  BY <1>1, <1>2
<1> QED
  BY <1>3 DEF q

(* A quotient is at most k when the dividend is at most k divisors.        *)
LEMMA DivAtMost ==
  ASSUME NEW a \in Nat, NEW b \in Nat \ {0}, NEW k \in Nat, a <= k * b
  PROVE  a \div b <= k
<1> DEFINE q == a \div b
<1>1. q \in Nat /\ q * b <= a
  BY DivNat, DivRemainder
<1> HIDE DEF q
<1>2. ASSUME k + 1 <= q PROVE FALSE
  <2>1. (k + 1) * b <= q * b
    BY <1>1, <1>2, MulMonotone
  <2>2. (k + 1) * b = k * b + b /\ k * b \in Nat /\ q * b \in Nat
    BY <1>1
  <2> QED
    BY <1>1, <2>1, <2>2
<1>3. q <= k
  BY <1>1, <1>2
<1> QED
  BY <1>3 DEF q

(* A quotient is at least k when the dividend is at least k divisors.      *)
LEMMA DivAtLeast ==
  ASSUME NEW a \in Nat, NEW b \in Nat \ {0}, NEW k \in Nat, k * b <= a
  PROVE  k <= a \div b
<1> DEFINE q == a \div b
<1>1. q \in Nat /\ a < q * b + b
  BY DivNat, DivRemainder
<1> HIDE DEF q
<1>2. ASSUME q + 1 <= k PROVE FALSE
  <2>1. (q + 1) * b <= k * b
    BY <1>1, <1>2, MulMonotone
  <2>2. (q + 1) * b = q * b + b /\ k * b \in Nat /\ q * b \in Nat
    BY <1>1
  <2> QED
    BY <1>1, <2>1, <2>2
<1>3. k <= q
  BY <1>1, <1>2
<1> QED
  BY <1>3 DEF q

(* Decimals are natural numbers, and so are their products, quotients,     *)
(* floors and ceilings (math/decimal.rs, math/rate.rs).                    *)
LEMMA WadNat == Wad \in Nat \ {0} /\ PercentScaler \in Nat \ {0} /\ 100 * PercentScaler = Wad
<1>1. Wad \in Nat \ {0} /\ 100 * PercentScaler = Wad
  BY WadAssumption DEF PercentScaler
<1>2. PercentScaler \in Nat
  BY <1>1, DivNat DEF PercentScaler
<1> QED
  BY <1>1, <1>2

(* Decimals made of natural numbers are natural numbers, and so are their  *)
(* products, quotients, floors, ceilings and roundings.                    *)
LEMMA DecimalNat ==
  ASSUME NEW a \in Nat, NEW b \in Nat
  PROVE  /\ FromU64(a) \in Nat /\ FromPercent(a) \in Nat
         /\ FromBps(a) \in Nat /\ FromDecaBps(a) \in Nat
         /\ TryMul(a, b) \in Nat /\ TryMulInt(a, b) \in Nat
         /\ TryFloorU64(a) \in Nat /\ TryCeilU64(a) \in Nat /\ TryRoundU64(a) \in Nat
         /\ b # 0 => TryDiv(a, b) \in Nat /\ TryDivInt(a, b) \in Nat
<1>1. Wad \in Nat \ {0} /\ PercentScaler \in Nat
  BY WadNat
<1>2. FromU64(a) \in Nat /\ FromPercent(a) \in Nat /\ TryMulInt(a, b) \in Nat
  BY <1>1, MulNat DEF FromU64, FromPercent, TryMulInt
<1>3. FromBps(a) \in Nat /\ FromDecaBps(a) \in Nat
  <2> DEFINE x == FromU64(a)
  <2>1. x \in Nat
    BY <1>2
  <2> HIDE DEF x
  <2>2. x \div 1000 \in Nat /\ x \div 10000 \in Nat
    BY <2>1
  <2> QED
    BY <2>2 DEF x, FromBps, FromDecaBps
<1>4. TryMul(a, b) \in Nat
  <2>1. a * b \in Nat
    BY MulNat
  <2> QED
    BY <1>1, <2>1, DivNat DEF TryMul
<1>5. TryFloorU64(a) \in Nat
  BY <1>1, DivNat DEF TryFloorU64
<1>6. TryCeilU64(a) \in Nat
  <2>1. a + Wad - 1 \in Nat
    BY <1>1
  <2> QED
    BY <1>1, <2>1, DivNat DEF TryCeilU64
<1>7. TryRoundU64(a) \in Nat
  <2>1. Wad \div 2 \in Nat
    BY <1>1
  <2>2. a + Wad \div 2 \in Nat
    BY <2>1
  <2> QED
    BY <1>1, <2>2, DivNat DEF TryRoundU64
<1>8. ASSUME b # 0 PROVE TryDiv(a, b) \in Nat /\ TryDivInt(a, b) \in Nat
  <2>1. a * Wad \in Nat
    BY <1>1, MulNat
  <2> QED
    BY <1>8, <2>1, DivNat DEF TryDiv, TryDivInt
<1> QED
  BY <1>2, <1>3, <1>4, <1>5, <1>6, <1>7, <1>8

(* Whole tokens survive the way into Decimal and back.                     *)
LEMMA FloorOfWhole ==
  ASSUME NEW n \in Nat
  PROVE  TryFloorU64(FromU64(n)) = n
<1> DEFINE a == n * Wad
<1>1. Wad \in Nat \ {0} /\ a \in Nat
  BY WadNat, MulNat
<1>2. a <= n * Wad /\ n * Wad <= a
  BY <1>1
<1> HIDE DEF a
<1>3. a \div Wad <= n /\ n <= a \div Wad /\ a \div Wad \in Nat
  BY <1>1, <1>2, DivAtMost, DivAtLeast, DivNat
<1>4. a \div Wad = n
  BY <1>3
<1> QED
  BY <1>4 DEF a, TryFloorU64, FromU64

(* A ceiling is at least what it rounds (Decimal::try_ceil_u64).           *)
LEMMA CeilCovers ==
  ASSUME NEW a \in Nat
  PROVE  a <= FromU64(TryCeilU64(a))
<1> DEFINE n == a + Wad - 1
           q == n \div Wad
<1>1. Wad \in Nat \ {0} /\ n \in Nat
  BY WadNat
<1>2. q \in Nat /\ n < q * Wad + Wad /\ q * Wad \in Nat
  BY <1>1, DivNat, DivRemainder, MulNat
<1> HIDE DEF q
<1>3. a <= q * Wad
  BY <1>1, <1>2
<1> QED
  BY <1>3 DEF q, FromU64, TryCeilU64

(* A factor of at most one does not increase, one of at least one does not *)
(* decrease.                                                               *)
LEMMA MulByFraction ==
  ASSUME NEW a \in Nat, NEW b \in Nat
  PROVE  /\ b <= Wad => TryMul(a, b) <= a /\ TryMul(b, a) <= a
         /\ b >= Wad => TryMul(a, b) >= a /\ TryMul(b, a) >= a
<1>1. Wad \in Nat \ {0} /\ a * b \in Nat /\ b * a = a * b
  BY WadNat, MulNat
<1>2. ASSUME b <= Wad PROVE (a * b) \div Wad <= a
  <2>1. a * b <= a * Wad
    BY <1>1, <1>2, MulMonotone
  <2> QED
    BY <1>1, <2>1, DivAtMost
<1>3. ASSUME b >= Wad PROVE (a * b) \div Wad >= a
  <2>1. a * Wad <= a * b
    BY <1>1, <1>3, MulMonotone
  <2>2. a <= (a * b) \div Wad
    BY <1>1, <2>1, DivAtLeast
  <2>3. (a * b) \div Wad \in Nat
    BY <1>1, DivNat
  <2> QED
    BY <2>2, <2>3
<1> QED
  BY <1>1, <1>2, <1>3 DEF TryMul

(* The quotient of two Decimals is at most one when the first is at most   *)
(* the second, and at least one when it is at least the second.            *)
LEMMA DivToFraction ==
  ASSUME NEW a \in Nat, NEW b \in Nat \ {0}
  PROVE  /\ a <= b => TryDiv(a, b) <= Wad
         /\ a >= b => TryDiv(a, b) >= Wad
<1>1. Wad \in Nat \ {0} /\ a * Wad \in Nat /\ b * Wad = Wad * b
  BY WadNat, MulNat
<1>2. ASSUME a <= b PROVE (a * Wad) \div b <= Wad
  <2>1. a * Wad <= Wad * b
    BY <1>1, <1>2, MulMonotone
  <2> QED
    BY <1>1, <2>1, DivAtMost
<1>3. ASSUME a >= b PROVE (a * Wad) \div b >= Wad
  <2>1. Wad * b <= a * Wad
    BY <1>1, <1>3, MulMonotone
  <2>2. Wad <= (a * Wad) \div b
    BY <1>1, <2>1, DivAtLeast
  <2>3. (a * Wad) \div b \in Nat
    BY <1>1, DivNat
  <2> QED
    BY <1>1, <2>2, <2>3
<1> QED
  BY <1>2, <1>3 DEF TryDiv

(* The least and the largest of up to three numbers.                       *)
LEMMA OfThree ==
  ASSUME NEW a \in Int, NEW b \in Int, NEW c \in Int, NEW S,
         \A x : x \in S <=> x = a \/ x = b \/ x = c
  PROVE  /\ Min(S) \in S /\ \A x \in S : Min(S) <= x
         /\ Max(S) \in S /\ \A x \in S : x <= Max(S)
<1>1. \E x \in S : \A y \in S : x <= y
  <2>1. \/ a <= b /\ a <= c
        \/ b <= a /\ b <= c
        \/ c <= a /\ c <= b
    OBVIOUS
  <2> QED
    BY <2>1
<1>2. \E x \in S : \A y \in S : x >= y
  <2>1. \/ a >= b /\ a >= c
        \/ b >= a /\ b >= c
        \/ c >= a /\ c >= b
    OBVIOUS
  <2> QED
    BY <2>1
<1>3. Min(S) \in S /\ \A x \in S : Min(S) <= x
  BY <1>1 DEF Min
<1>4. Max(S) \in S /\ \A x \in S : Max(S) >= x
  BY <1>2 DEF Max
<1>5. Max(S) \in Int /\ \A x \in S : x \in Int
  BY <1>4
<1> QED
  BY <1>3, <1>4, <1>5

(* The least and the greatest of two integers.                             *)
LEMMA OfTwo ==
  ASSUME NEW a \in Int, NEW b \in Int
  PROVE  /\ Min({a, b}) \in {a, b} /\ Min({a, b}) <= a /\ Min({a, b}) <= b
         /\ Max({a, b}) \in {a, b} /\ a <= Max({a, b}) /\ b <= Max({a, b})
<1> DEFINE S == {a, b}
<1>1. /\ a \in S /\ b \in S /\ b \in Int
      /\ \A x : x \in S <=> x = a \/ x = b \/ x = b
  OBVIOUS
<1> HIDE DEF S
<1>2. /\ Min(S) \in S /\ \A x \in S : Min(S) <= x
      /\ Max(S) \in S /\ \A x \in S : x <= Max(S)
  BY <1>1, OfThree
<1>3. /\ Min(S) \in S /\ Min(S) <= a /\ Min(S) <= b
      /\ Max(S) \in S /\ a <= Max(S) /\ b <= Max(S)
  BY <1>1, <1>2
<1> QED
  BY <1>3 DEF S

-----------------------------------------------------------------------------
(* 2. Recursive functions: try_pow, by squaring, stays at least one.       *)

(* Induction over the natural numbers, with the set of the numbers that    *)
(* have the property for a parameter.                                      *)
LEMMA SetInduction ==
  ASSUME NEW Good, 0 \in Good, \A n \in Nat : n \in Good => n + 1 \in Good
  PROVE  \A n \in Nat : n \in Good
<1> DEFINE Bad == Nat \ Good
<1> SUFFICES ASSUME Bad # {} PROVE FALSE
  OBVIOUS
<1>1. PICK n \in Bad : \A m \in Bad : ~(<<m, n>> \in OpToRel(<, Nat))
  <2>1. Bad \subseteq Nat
    OBVIOUS
  <2> HIDE DEF Bad
  <2> QED
    BY <2>1, NatLessThanWellFounded, WFMin
<1>2. n \in Nat /\ n # 0 /\ n - 1 \in Nat
  OBVIOUS
<1>3. n - 1 \notin Bad
  <2>1. <<n - 1, n>> \in OpToRel(<, Nat)
    BY <1>2 DEF OpToRel
  <2> QED
    BY <1>1, <2>1
<1>4. n - 1 + 1 = n
  BY <1>2
<1> QED
  BY <1>2, <1>3, <1>4

\* f is defined by recursion over the natural numbers, from a, by step.
Iterates(f, V, a, step) ==
  f \in [Nat -> V] /\ f[0] = a /\ \A k \in Nat : k # 0 => f[k] = step[k][f[k-1]]

(* Functions defined by recursion over the natural numbers exist.          *)
LEMMA RecursionExists ==
  ASSUME NEW V, NEW a \in V, NEW step \in [Nat -> [V -> V]]
  PROVE  \E f : Iterates(f, V, a, step)
<1> DEFINE Rec(g, n) == /\ g[0] = a
                        /\ \A k \in 1 .. n : g[k] = step[k][g[k-1]]
           Upto(n) == CHOOSE g \in [0 .. n -> V] : Rec(g, n)
           f == [n \in Nat |-> Upto(n)[n]]
<1>1. \A n \in Nat : \E g \in [0 .. n -> V] : Rec(g, n)
  <2> DEFINE Good == {n \in Nat : \E g \in [0 .. n -> V] : Rec(g, n)}
  <2>1. 0 \in Good
    <3> DEFINE g == [k \in 0 .. 0 |-> a]
    <3>1. g \in [0 .. 0 -> V] /\ Rec(g, 0)
      OBVIOUS
    <3> QED
      BY <3>1
  <2>2. ASSUME NEW n \in Nat, n \in Good PROVE n + 1 \in Good
    <3>1. PICK g \in [0 .. n -> V] : Rec(g, n)
      BY <2>2
    <3> DEFINE h == [k \in 0 .. n + 1 |-> IF k = n + 1 THEN step[n + 1][g[n]] ELSE g[k]]
    <3>2. step[n + 1][g[n]] \in V
      OBVIOUS
    <3>3. h \in [0 .. n + 1 -> V]
      BY <3>2
    <3>4. h[0] = a
      BY <3>1
    <3>5. ASSUME NEW k \in 1 .. n + 1 PROVE h[k] = step[k][h[k-1]]
      <4>1. k - 1 \in 0 .. n /\ h[k-1] = g[k-1]
        OBVIOUS
      <4>2. CASE k = n + 1
        <5>1. k - 1 = n
          BY <4>2
        <5> QED
          BY <4>1, <4>2, <5>1
      <4>3. CASE k # n + 1
        <5>1. k \in 1 .. n /\ h[k] = g[k]
          BY <4>3
        <5> QED
          BY <3>1, <4>1, <5>1
      <4> QED
        BY <4>2, <4>3
    <3>6. Rec(h, n + 1)
      BY <3>4, <3>5
    <3> HIDE DEF h
    <3> QED
      BY <3>3, <3>6
  <2> HIDE DEF Good
  <2>3. \A n \in Nat : n \in Good
    BY <2>1, <2>2, SetInduction
  <2> QED
    BY <2>3 DEF Good
<1>2. ASSUME NEW n \in Nat PROVE Upto(n) \in [0 .. n -> V] /\ Rec(Upto(n), n)
  BY <1>1
<1>3. ASSUME NEW n \in Nat PROVE f[n] \in V
  BY <1>2
<1>4. ASSUME NEW n \in Nat, n # 0 PROVE f[n] = step[n][f[n-1]]
  <2> DEFINE g == Upto(n)
             h == Upto(n - 1)
             Good == {k \in Nat : k <= n - 1 => g[k] = h[k]}
  <2>0. n - 1 \in Nat
    BY <1>4
  <2>1. Rec(g, n) /\ Rec(h, n - 1)
    BY <1>2, <2>0
  <2>7. f[n] = g[n] /\ f[n-1] = h[n-1]
    BY <2>0
  <2> HIDE DEF g, h, f
  <2>2. 0 \in Good
    BY <2>1
  <2>3. ASSUME NEW k \in Nat, k \in Good PROVE k + 1 \in Good
    <3> SUFFICES ASSUME k + 1 <= n - 1 PROVE g[k+1] = h[k+1]
      OBVIOUS
    <3>1. k + 1 \in 1 .. n /\ k + 1 \in 1 .. n - 1 /\ k + 1 - 1 = k /\ k <= n - 1
      BY <2>0
    <3>2. g[k] = h[k]
      BY <2>3, <3>1
    <3>3. g[k+1] = step[k+1][g[k]] /\ h[k+1] = step[k+1][h[k]]
      BY <2>1, <3>1
    <3> QED
      BY <3>2, <3>3
  <2> HIDE DEF Good
  <2>4. \A k \in Nat : k \in Good
    BY <2>2, <2>3, SetInduction
  <2>5. g[n-1] = h[n-1]
    BY <2>0, <2>4 DEF Good
  <2>6. g[n] = step[n][g[n-1]]
    BY <1>4, <2>1
  <2> QED
    BY <2>5, <2>6, <2>7
<1>5. f[0] = a
  BY <1>2
<1>6. f \in [Nat -> V]
  BY <1>3
<1> HIDE DEF f
<1>7. Iterates(f, V, a, step)
  BY <1>4, <1>5, <1>6 DEF Iterates
<1> QED
  BY <1>7

\* The functions of the loop of Rate::try_pow; odd tells the bits of the exponent.
Squares(base) ==
  CHOOSE g : g = [k \in Nat |-> IF k = 0 THEN base ELSE TryMul(g[k-1], g[k-1])]
Powers(base, one, square, odd) ==
  CHOOSE g : g = [k \in Nat |->
    IF k = 0 THEN IF odd[k] THEN base ELSE one
    ELSE IF odd[k] THEN TryMul(g[k-1], square[k]) ELSE g[k-1]]

(* Squaring stays in any set of rates that is closed under multiplication. *)
LEMMA SquaresIn ==
  ASSUME NEW V, NEW base \in V, \A u, v \in V : TryMul(u, v) \in V
  PROVE  Squares(base) \in [Nat -> V]
<1> DEFINE square == Squares(base)
           step == [k \in Nat |-> [v \in V |-> TryMul(v, v)]]
<1>1. /\ step \in [Nat -> [V -> V]]
      /\ \A v \in V, k \in Nat : step[k][v] = TryMul(v, v)
  OBVIOUS
<1> HIDE DEF step
<1>0. PICK f : Iterates(f, V, base, step)
  BY <1>1, RecursionExists
<1>2. f \in [Nat -> V] /\ f[0] = base /\ \A k \in Nat : k # 0 => f[k] = step[k][f[k-1]]
  BY <1>0 DEF Iterates
<1>3. \A k \in Nat : f[k] = IF k = 0 THEN base ELSE TryMul(f[k-1], f[k-1])
  BY <1>1, <1>2
<1>4. f = [k \in Nat |-> IF k = 0 THEN base ELSE TryMul(f[k-1], f[k-1])]
  BY <1>2, <1>3
<1>5. square = [k \in Nat |-> IF k = 0 THEN base ELSE TryMul(square[k-1], square[k-1])]
  BY <1>4, Zenon DEF Squares
<1> HIDE DEF square
<1>6. square[0] = base /\ \A k \in Nat : k # 0 => square[k] = TryMul(square[k-1], square[k-1])
  BY <1>5
<1> DEFINE Good == {k \in Nat : square[k] \in V}
<1>7. 0 \in Good
  BY <1>6
<1>8. ASSUME NEW k \in Nat, k \in Good PROVE k + 1 \in Good
  <2>1. square[k+1] = TryMul(square[k], square[k])
    BY <1>6
  <2> QED
    BY <1>8, <2>1
<1> HIDE DEF Good
<1>9. \A k \in Nat : k \in Good
  BY <1>7, <1>8, SetInduction
<1>10. \A k \in Nat : square[k] \in V
  BY <1>9 DEF Good
<1>11. square \in [Nat -> V]
  BY <1>5, <1>10
<1> QED
  BY <1>11 DEF square

(* So does the accumulator.                                                *)
LEMMA PowerIn ==
  ASSUME NEW V, NEW base \in V, NEW one \in V, \A u, v \in V : TryMul(u, v) \in V,
         NEW square \in [Nat -> V], NEW odd \in [Nat -> BOOLEAN]
  PROVE  \A k \in Nat : Powers(base, one, square, odd)[k] \in V
<1> DEFINE ret == Powers(base, one, square, odd)
           first == IF odd[0] THEN base ELSE one
           step == [k \in Nat |-> [v \in V |-> IF odd[k] THEN TryMul(v, square[k]) ELSE v]]
<1>1. /\ first \in V
      /\ step \in [Nat -> [V -> V]]
      /\ \A v \in V, k \in Nat : step[k][v] = IF odd[k] THEN TryMul(v, square[k]) ELSE v
  OBVIOUS
<1> HIDE DEF step, first
<1>0. PICK f : Iterates(f, V, first, step)
  BY <1>1, RecursionExists
<1>2. f \in [Nat -> V] /\ f[0] = first /\ \A k \in Nat : k # 0 => f[k] = step[k][f[k-1]]
  BY <1>0 DEF Iterates
<1>3. \A k \in Nat : f[k] = IF k = 0 THEN IF odd[k] THEN base ELSE one
                            ELSE IF odd[k] THEN TryMul(f[k-1], square[k]) ELSE f[k-1]
  BY <1>1, <1>2 DEF first
<1>4. f = [k \in Nat |-> IF k = 0 THEN IF odd[k] THEN base ELSE one
                         ELSE IF odd[k] THEN TryMul(f[k-1], square[k]) ELSE f[k-1]]
  BY <1>2, <1>3
<1>5. ret = [k \in Nat |-> IF k = 0 THEN IF odd[k] THEN base ELSE one
                           ELSE IF odd[k] THEN TryMul(ret[k-1], square[k]) ELSE ret[k-1]]
  BY <1>4, Zenon DEF Powers
<1> HIDE DEF ret
<1>6. /\ ret[0] = first
      /\ \A k \in Nat : k # 0 =>
            ret[k] = IF odd[k] THEN TryMul(ret[k-1], square[k]) ELSE ret[k-1]
  BY <1>5 DEF first
<1> DEFINE Good == {k \in Nat : ret[k] \in V}
<1>7. 0 \in Good
  BY <1>1, <1>6
<1>8. ASSUME NEW k \in Nat, k \in Good PROVE k + 1 \in Good
  <2>1. ret[k+1] = IF odd[k+1] THEN TryMul(ret[k], square[k+1]) ELSE ret[k]
    BY <1>6
  <2> QED
    BY <1>8, <2>1
<1> HIDE DEF Good
<1>9. \A k \in Nat : k \in Good
  BY <1>7, <1>8, SetInduction
<1> QED
  BY <1>9 DEF Good, ret

(* Compounding at a rate of at least one never shrinks a debt              *)
(* (Rate::try_pow).                                                        *)
LEMMA PowGrows ==
  ASSUME NEW base \in Nat, base >= Wad, NEW exp \in Nat
  PROVE  TryPow(base, exp) \in Nat /\ TryPow(base, exp) >= Wad
<1> DEFINE V == {v \in Nat : v >= Wad}
           left == CHOOSE g : g = [k \in Nat |-> IF k = 0 THEN exp ELSE g[k-1] \div 2]
           odd == [k \in Nat |-> left[k] % 2 # 0]
<1>1. base \in V /\ Wad \in V
  BY WadNat
<1>2. \A u, v \in V : TryMul(u, v) \in V
  <2> SUFFICES ASSUME NEW u \in V, NEW v \in V PROVE TryMul(u, v) \in V
    OBVIOUS
  <2>1. u \in Nat /\ v \in Nat /\ u >= Wad /\ v >= Wad
    OBVIOUS
  <2>2. TryMul(u, v) \in Nat /\ TryMul(u, v) >= u
    BY <2>1, DecimalNat, MulByFraction
  <2> QED
    BY <2>1, <2>2, WadNat
<1>3. odd \in [Nat -> BOOLEAN]
  OBVIOUS
<1>4. TryPow(base, exp) = Powers(base, Wad, Squares(base), odd)[exp]
  BY DEF TryPow, Powers, Squares
<1> HIDE DEF V, odd
<1>5. Squares(base) \in [Nat -> V]
  BY <1>1, <1>2, SquaresIn
<1>6. \A k \in Nat : Powers(base, Wad, Squares(base), odd)[k] \in V
  BY <1>1, <1>2, <1>3, <1>5, PowerIn
<1> QED
  BY <1>4, <1>6 DEF V

-----------------------------------------------------------------------------
(* 3. A reserve: its prices, rates and interest.                           *)

(* A reserve as the market stores it: its fields have their types, its     *)
(* configuration was validated, its cumulative rate only grew, and it was  *)
(* not updated in the future.                                              *)
ReserveRecord ==
  [last : [slot : Nat, stale : BOOLEAN], available : Nat, borrowed : Nat, cumRate : Nat,
   fees : Nat, price : Nat, smoothed : Nat, extra : SUBSET Nat, mintSupply : Nat,
   config : ReserveConfig]

SoundRecord(x) ==
  /\ x \in ReserveRecord
  /\ x.cumRate >= Wad
  /\ ValidateReserveConfig(x.config)
  /\ \A a, b \in x.extra : a = b

ReserveSound(x, s) ==
  /\ SoundRecord(x)
  /\ x.last.slot <= s

(* The fields of a reserve.                                                *)
LEMMA ReserveFields ==
  ASSUME NEW x \in ReserveRecord
  PROVE  /\ x.last \in [slot : Nat, stale : BOOLEAN]
         /\ x.last.slot \in Nat /\ x.last.stale \in BOOLEAN
         /\ x.available \in Nat /\ x.borrowed \in Nat /\ x.cumRate \in Nat /\ x.fees \in Nat
         /\ x.price \in Nat /\ x.smoothed \in Nat /\ x.extra \in SUBSET Nat
         /\ x.mintSupply \in Nat /\ x.config \in ReserveConfig
  BY DEF ReserveRecord

(* The bounds on a price (Reserve::price_upper_bound, price_lower_bound).  *)
LEMMA PriceBounds ==
  ASSUME NEW x, SoundRecord(x)
  PROVE  PriceUpperBound(x) \in Nat /\ PriceLowerBound(x) \in Nat
<1> DEFINE S == {x.price, x.smoothed} \cup x.extra
<1>1. /\ x.price \in Nat /\ x.smoothed \in Nat /\ x.extra \in SUBSET Nat
      /\ \A a, b \in x.extra : a = b
  BY ReserveFields DEF SoundRecord
<1>2. \E c \in Nat : \A y : y \in S <=> y = x.price \/ y = x.smoothed \/ y = c
  <2>1. CASE x.extra = {}
    <3>1. \A y : y \in S <=> y = x.price \/ y = x.smoothed \/ y = x.price
      BY <2>1
    <3> HIDE DEF S
    <3> QED
      BY <1>1, <3>1
  <2>2. CASE x.extra # {}
    <3>1. PICK c \in x.extra : TRUE
      BY <2>2
    <3>2. \A y : y \in S <=> y = x.price \/ y = x.smoothed \/ y = c
      BY <1>1, <3>1
    <3> HIDE DEF S
    <3> QED
      BY <1>1, <3>1, <3>2
  <2> QED
    BY <2>1, <2>2
<1>3. S \subseteq Nat
  BY <1>1
<1> HIDE DEF S
<1>4. PICK c \in Nat : \A y : y \in S <=> y = x.price \/ y = x.smoothed \/ y = c
  BY <1>2
<1> DEFINE p == x.price
           q == x.smoothed
<1>5. p \in Int /\ q \in Int /\ c \in Int /\ \A y : y \in S <=> y = p \/ y = q \/ y = c
  BY <1>1, <1>4
<1> HIDE DEF p, q
<1>6. Min(S) \in S /\ Max(S) \in S
  BY <1>5, OfThree
<1> QED
  BY <1>3, <1>6 DEF S, PriceUpperBound, PriceLowerBound

(* The value of an amount at a price (Reserve::market_value).              *)
LEMMA ValueNat ==
  ASSUME NEW p \in Nat, NEW a \in Nat
  PROVE  ValueAt(p, a) \in Nat
<1>1. FromU64(MintUnit) \in Nat /\ FromU64(MintUnit) # 0
  <2>1. MintUnit \in Nat \ {0} /\ Wad \in Nat \ {0}
    BY YearAssumption, WadNat
  <2>2. 1 * Wad <= MintUnit * Wad /\ MintUnit * Wad \in Nat
    BY <2>1, MulMonotone, MulNat
  <2> QED
    BY <2>1, <2>2 DEF FromU64
<1>2. TryMul(p, a) \in Nat
  BY DecimalNat
<1> QED
  BY <1>1, <1>2, DecimalNat DEF ValueAt

(* The market value of an amount, at the price and at its bounds           *)
(* (Reserve::market_value and its bounds).                                 *)
LEMMA MarketValueNat ==
  ASSUME NEW x, SoundRecord(x), NEW a \in Nat
  PROVE  /\ MarketValue(x, a) \in Nat
         /\ MarketValueUpperBound(x, a) \in Nat
         /\ MarketValueLowerBound(x, a) \in Nat
<1>1. x.price \in Nat
  BY ReserveFields DEF SoundRecord
<1>2. PriceUpperBound(x) \in Nat /\ PriceLowerBound(x) \in Nat
  BY PriceBounds
<1> QED
  BY <1>1, <1>2, ValueNat DEF MarketValue, MarketValueUpperBound, MarketValueLowerBound

(* The total supply is an integer, and what is supplied counts in full.    *)
LEMMA SupplyInt ==
  ASSUME NEW x \in ReserveRecord
  PROVE  TotalSupply(x) \in Int
<1>1. FromU64(x.available) \in Nat
  BY ReserveFields, DecimalNat
<1> QED
  BY <1>1, ReserveFields DEF TotalSupply

(* The exchange rate and the conversions by it, on a reserve whose total   *)
(* supply could be computed (ReserveCollateral::exchange_rate).            *)
LEMMA ExchangeNat ==
  ASSUME NEW x \in ReserveRecord, TotalSupply(x) >= 0
  PROVE  /\ ExchangeRate(x) \in Nat
         /\ \A n \in Nat : CollateralFor(x, n) \in Nat /\ LiquidityToCollateral(x, n) \in Nat
         /\ ExchangeRate(x) > 0 =>
              \A n \in Nat : LiquidityFor(x, n) \in Nat /\ CollateralToLiquidity(x, n) \in Nat
<1> DEFINE rate == ExchangeRate(x)
<1>1. rate \in Nat
  <2> DEFINE supply == TotalSupply(x)
             mint == FromU64(x.mintSupply)
  <2>1. supply \in Nat
    BY SupplyInt
  <2>2. mint \in Nat
    BY ReserveFields, DecimalNat
  <2> HIDE DEF supply, mint
  <2>3. supply # 0 => TryDiv(mint, supply) \in Nat
    BY <2>1, <2>2, DecimalNat
  <2> QED
    BY <2>3, WadNat DEF ExchangeRate, supply, mint
<1> HIDE DEF rate
<1>2. ASSUME NEW n \in Nat PROVE TryMul(n, rate) \in Nat /\ FromU64(n) \in Nat
  BY <1>1, DecimalNat
<1>3. ASSUME NEW n \in Nat PROVE TryFloorU64(TryMul(FromU64(n), rate)) \in Nat
  BY <1>2, DecimalNat
<1>4. ASSUME rate > 0, NEW n \in Nat
      PROVE  TryDiv(n, rate) \in Nat /\ TryFloorU64(TryDiv(FromU64(n), rate)) \in Nat
  <2>1. rate # 0
    BY <1>1, <1>4
  <2>2. TryDiv(n, rate) \in Nat /\ TryDiv(FromU64(n), rate) \in Nat
    BY <1>1, <1>2, <2>1, DecimalNat
  <2> QED
    BY <2>2, DecimalNat
<1> QED
  BY <1>1, <1>2, <1>3, <1>4
  DEF rate, CollateralFor, LiquidityFor, LiquidityToCollateral, CollateralToLiquidity

(* The share of the liquidity that is lent (utilization_rate).             *)
LEMMA UtilizationFraction ==
  ASSUME NEW x \in ReserveRecord
  PROVE  UtilizationRate(x) \in Nat /\ UtilizationRate(x) <= Wad
<1> DEFINE b == x.borrowed
           all == b + FromU64(x.available)
<1>1. b \in Nat /\ FromU64(x.available) \in Nat /\ Wad \in Nat
  BY ReserveFields, DecimalNat, WadNat
<1>2. CASE b = 0
  BY <1>1, <1>2 DEF UtilizationRate
<1>3. CASE b # 0
  <2>1. all \in Nat /\ all # 0 /\ b <= all
    BY <1>1, <1>3
  <2> HIDE DEF all, b
  <2>2. TryDiv(b, all) \in Nat /\ TryDiv(b, all) <= Wad
    BY <1>1, <2>1, DecimalNat, DivToFraction
  <2> QED
    BY <1>1, <2>2 DEF UtilizationRate, all, b
<1> QED
  BY <1>2, <1>3

(* Interpolation between two rates in order.                               *)
LEMMA BetweenNat ==
  ASSUME NEW w \in Nat, NEW low \in Nat, NEW high \in Nat, low <= high
  PROVE  Between(w, low, high) \in Nat
<1>1. high - low \in Nat
  OBVIOUS
<1>2. TryMul(w, high - low) \in Nat
  BY <1>1, DecimalNat
<1> QED
  BY <1>2 DEF Between

(* The fields of a configuration, and what validate_reserve_config adds.   *)
LEMMA ConfigFields ==
  ASSUME NEW c \in ReserveConfig, ValidateReserveConfig(c)
  PROVE  /\ c.optUtil \in Nat /\ c.maxUtil \in Nat /\ c.optUtil <= c.maxUtil /\ c.maxUtil <= 100
         /\ c.minRate \in Nat /\ c.optRate \in Nat /\ c.maxRate \in Nat /\ c.superMaxRate \in Nat
         /\ c.minRate <= c.optRate /\ c.optRate <= c.maxRate /\ c.maxRate <= c.superMaxRate
         /\ c.takeRate \in Nat /\ c.takeRate <= 100
         /\ c.bonus \in Nat /\ c.maxBonus \in Nat /\ c.bonus <= c.maxBonus
         /\ c.ltv \in Nat /\ c.threshold \in Nat /\ c.maxThreshold \in Nat
         /\ c.borrowFee \in Nat /\ c.flashFee \in Nat /\ c.hostPct \in Nat
         /\ c.depositLimit \in Nat /\ c.borrowLimit \in Nat /\ c.protocolLiqFee \in Nat
         /\ c.addedWeightBps \in Nat /\ c.priceOffsetBps \in Int
         /\ c.isolated \in BOOLEAN
<1>1. /\ c.optUtil \in Nat /\ c.maxUtil \in Nat /\ c.minRate \in Nat /\ c.optRate \in Nat
      /\ c.maxRate \in Nat /\ c.superMaxRate \in Nat /\ c.takeRate \in Nat
      /\ c.bonus \in Nat /\ c.maxBonus \in Nat
      /\ c.ltv \in Nat /\ c.threshold \in Nat /\ c.maxThreshold \in Nat
      /\ c.borrowFee \in Nat /\ c.flashFee \in Nat /\ c.hostPct \in Nat
      /\ c.depositLimit \in Nat /\ c.borrowLimit \in Nat /\ c.protocolLiqFee \in Nat
      /\ c.addedWeightBps \in Nat /\ c.priceOffsetBps \in Int
      /\ c.isolated \in BOOLEAN
  BY DEF ReserveConfig
<1>2. /\ c.maxUtil \in c.optUtil .. 100 /\ c.maxBonus \in c.bonus .. 100
      /\ c.minRate <= c.optRate /\ c.optRate <= c.maxRate /\ c.maxRate <= c.superMaxRate
      /\ c.takeRate <= 100
  BY DEF ValidateReserveConfig
<1>3. c.optUtil <= c.maxUtil /\ c.maxUtil <= 100 /\ c.bonus <= c.maxBonus
  BY <1>1, <1>2
<1> QED
  BY <1>1, <1>2, <1>3

(* Percentages keep their order, and 100 is one.                           *)
LEMMA PercentOrdered ==
  ASSUME NEW p \in Nat, NEW q \in Nat, p <= q
  PROVE  /\ FromPercent(p) \in Nat /\ FromPercent(q) \in Nat
         /\ FromPercent(p) <= FromPercent(q)
         /\ q <= 100 => FromPercent(q) <= Wad
<1>1. PercentScaler \in Nat /\ 100 * PercentScaler = Wad
  BY WadNat
<1>2. p * PercentScaler <= q * PercentScaler
  BY <1>1, MulMonotone
<1>3. q <= 100 => q * PercentScaler <= 100 * PercentScaler
  BY <1>1, MulMonotone
<1> QED
  BY <1>1, <1>2, <1>3, DecimalNat DEF FromPercent

(* The borrow rate is never negative, and no division of it is by zero,    *)
(* even when the configured maximum utilization is 100%                    *)
(* (Reserve::current_borrow_rate).                                         *)
LEMMA BorrowRateNat ==
  ASSUME NEW x, SoundRecord(x)
  PROVE  CurrentBorrowRate(x) \in Nat
<1> DEFINE c == x.config
           u == UtilizationRate(x)
           opt == FromPercent(c.optUtil)
           max == FromPercent(c.maxUtil)
           min0 == FromPercent(c.minRate)
           min1 == FromPercent(c.optRate)
           min2 == FromPercent(c.maxRate)
           min3 == FromPercent(c.superMaxRate)
           rest == FromPercent(100 - c.maxUtil)
<1>1. x \in ReserveRecord /\ c \in ReserveConfig /\ ValidateReserveConfig(c)
  BY ReserveFields DEF SoundRecord
<1>2. u \in Nat /\ u <= Wad /\ Wad \in Nat
  BY <1>1, UtilizationFraction, WadNat
<1>3. opt \in Nat /\ max \in Nat /\ opt <= max
  BY <1>1, ConfigFields, PercentOrdered
<1>4. /\ min0 \in Nat /\ min1 \in Nat /\ min2 \in Nat /\ min3 \in Nat
      /\ min0 <= min1 /\ min1 <= min2 /\ min2 <= min3
  BY <1>1, ConfigFields, PercentOrdered
<1>5. rest \in Nat /\ (u > max => rest # 0)
  <2>1. c.maxUtil \in Nat /\ c.maxUtil <= 100 /\ 100 - c.maxUtil \in Nat
    BY <1>1, ConfigFields
  <2>2. rest \in Nat
    BY <2>1, DecimalNat
  <2>3. ASSUME c.maxUtil = 100 PROVE max = Wad
    BY <2>3, WadNat DEF FromPercent
  <2>4. ASSUME 1 <= 100 - c.maxUtil PROVE rest # 0
    <3>1. 1 * PercentScaler <= (100 - c.maxUtil) * PercentScaler
      BY <2>1, <2>4, WadNat, MulMonotone
    <3>2. PercentScaler \in Nat \ {0} /\ (100 - c.maxUtil) * PercentScaler \in Nat
      BY <2>1, WadNat, MulNat
    <3> QED
      BY <3>1, <3>2 DEF FromPercent
  <2> HIDE DEF rest, max, u
  <2> QED
    BY <1>2, <1>3, <2>1, <2>2, <2>3, <2>4
<1>6. CurrentBorrowRate(x) =
        IF u <= opt
        THEN IF opt = 0 THEN min0 ELSE Between(TryDiv(u, opt), min0, min1)
        ELSE IF u <= max THEN Between(TryDiv(u - opt, max - opt), min1, min2)
        ELSE Between(TryDiv(u - max, rest), min2, min3)
  BY DEF CurrentBorrowRate
<1> HIDE DEF c, u, opt, max, min0, min1, min2, min3, rest
<1>7. CASE u <= opt /\ opt = 0
  BY <1>4, <1>6, <1>7
<1>8. CASE u <= opt /\ opt # 0
  <2>1. TryDiv(u, opt) \in Nat
    BY <1>2, <1>3, <1>8, DecimalNat
  <2>2. Between(TryDiv(u, opt), min0, min1) \in Nat
    BY <1>4, <2>1, BetweenNat
  <2> QED
    BY <1>6, <1>8, <2>2
<1>9. CASE ~(u <= opt) /\ u <= max
  <2>1. u - opt \in Nat /\ max - opt \in Nat /\ max - opt # 0
    BY <1>2, <1>3, <1>9
  <2>2. TryDiv(u - opt, max - opt) \in Nat
    BY <2>1, DecimalNat
  <2>3. Between(TryDiv(u - opt, max - opt), min1, min2) \in Nat
    BY <1>4, <2>2, BetweenNat
  <2> QED
    BY <1>6, <1>9, <2>3
<1>10. CASE ~(u <= opt) /\ ~(u <= max)
  <2>1. u - max \in Nat /\ u > max
    BY <1>2, <1>3, <1>10
  <2>2. TryDiv(u - max, rest) \in Nat
    BY <1>5, <2>1, DecimalNat
  <2>3. Between(TryDiv(u - max, rest), min2, min3) \in Nat
    BY <1>4, <2>2, BetweenNat
  <2> QED
    BY <1>6, <1>10, <2>3
<1> QED
  BY <1>7, <1>8, <1>9, <1>10

(* Accruing interest never lowers a debt or the cumulative rate, and the   *)
(* protocol takes at most what the lenders earn: a total supply that could *)
(* be computed still can (Reserve::accrue_interest, compound_interest).    *)
LEMMA AccrualSound ==
  ASSUME NEW x, SoundRecord(x), NEW s \in Nat, x.last.slot <= s
  PROVE  /\ SoundRecord(AccrueInterest(x, s))
         /\ AccrueInterest(x, s).available = x.available
         /\ AccrueInterest(x, s).mintSupply = x.mintSupply
         /\ AccrueInterest(x, s).config = x.config
         /\ TotalSupply(x) >= 0 => TotalSupply(AccrueInterest(x, s)) >= 0
<1>1. x \in ReserveRecord /\ x.cumRate >= Wad
  BY DEF SoundRecord
<1>2. CASE s = x.last.slot
  BY <1>2 DEF AccrueInterest
<1>3. CASE s # x.last.slot
  <2> DEFINE rate == CurrentBorrowRate(x)
             slots == s - x.last.slot
             take == FromPercent(x.config.takeRate)
             comp == TryPow(Wad + TryDivInt(rate, SlotsPerYear), slots)
             debt == TryMul(x.borrowed, comp)
             new == debt - x.borrowed
             cut == TryMul(new, take)
             y == [x EXCEPT !.cumRate = TryMul(x.cumRate, comp),
                            !.fees = cut + x.fees,
                            !.borrowed = x.borrowed + new]
  <2>1. AccrueInterest(x, s) = y
    BY <1>3 DEF AccrueInterest, CompoundInterest
  <2>2. slots \in Nat
    BY <1>1, ReserveFields
  <2>3. comp \in Nat /\ comp >= Wad
    <3>1. TryDivInt(rate, SlotsPerYear) \in Nat
      BY BorrowRateNat, YearAssumption, DecimalNat
    <3>2. Wad + TryDivInt(rate, SlotsPerYear) \in Nat /\ Wad + TryDivInt(rate, SlotsPerYear) >= Wad
      BY <3>1, WadNat
    <3> QED
      BY <2>2, <3>2, PowGrows
  <2> HIDE DEF comp
  <2>4. debt \in Nat /\ debt >= x.borrowed /\ x.borrowed \in Nat
    BY <1>1, <2>3, ReserveFields, DecimalNat, MulByFraction
  <2>5. TryMul(x.cumRate, comp) \in Nat /\ TryMul(x.cumRate, comp) >= Wad
    <3>1. TryMul(x.cumRate, comp) \in Nat /\ TryMul(x.cumRate, comp) >= x.cumRate
      BY <1>1, <2>3, ReserveFields, DecimalNat, MulByFraction
    <3> QED
      BY <1>1, <3>1, WadNat, ReserveFields
  <2>6. new \in Nat
    BY <2>4
  <2>7. take \in Nat /\ take <= Wad
    <3>1. x.config \in ReserveConfig /\ ValidateReserveConfig(x.config)
      BY <1>1, ReserveFields DEF SoundRecord
    <3>2. x.config.takeRate \in Nat /\ x.config.takeRate <= 100
      BY <3>1, ConfigFields
    <3> QED
      BY <3>2, PercentOrdered
  <2> HIDE DEF take, new, debt
  <2>8. cut \in Nat /\ cut <= new
    BY <2>6, <2>7, DecimalNat, MulByFraction
  <2> HIDE DEF cut
  <2>9. /\ y \in ReserveRecord
        /\ y.available = x.available /\ y.mintSupply = x.mintSupply /\ y.config = x.config
        /\ y.extra = x.extra /\ y.cumRate = TryMul(x.cumRate, comp)
        /\ y.fees = cut + x.fees /\ y.borrowed = x.borrowed + new
    <3>1. cut + x.fees \in Nat /\ x.borrowed + new \in Nat
      BY <1>1, <2>6, <2>8, ReserveFields
    <3> QED
      BY <1>1, <2>5, <3>1 DEF ReserveRecord
  <2> HIDE DEF y
  <2>10. SoundRecord(y)
    BY <2>5, <2>9 DEF SoundRecord
  <2>11. ASSUME TotalSupply(x) >= 0 PROVE TotalSupply(y) >= 0
    <3>1. FromU64(x.available) \in Nat /\ x.fees \in Nat
      BY <1>1, ReserveFields, DecimalNat
    <3> QED
      BY <2>4, <2>6, <2>8, <2>9, <2>11, <3>1 DEF TotalSupply
  <2> QED
    BY <2>1, <2>9, <2>10, <2>11
<1> QED
  BY <1>2, <1>3

-----------------------------------------------------------------------------
(* 4. What each operation on a reserve books.                              *)

(* y is x with other amounts: what the operations on a reserve return      *)
(* before the checks of its unsigned fields.                               *)
BookedRecord ==
  [last : [slot : Nat, stale : BOOLEAN], available : Int, borrowed : Int, cumRate : Nat,
   fees : Int, price : Nat, smoothed : Nat, extra : SUBSET Nat, mintSupply : Int,
   config : ReserveConfig]
Rebooked(x, y) ==
  /\ y \in BookedRecord
  /\ y.last = x.last /\ y.cumRate = x.cumRate /\ y.extra = x.extra /\ y.config = x.config

(* An operation whose checks succeed stores a sound reserve, which is      *)
(* stale until its next refresh.                                           *)
LEMMA StoredSound ==
  ASSUME NEW x, NEW s \in Nat, ReserveSound(x, s), NEW y, Rebooked(x, y), WellFormed(y)
  PROVE  /\ ReserveSound(MarkStale(y), s)
         /\ MarkStale(y).available = y.available
         /\ MarkStale(y).mintSupply = y.mintSupply
<1> DEFINE z == MarkStale(y)
<1>1. /\ x \in ReserveRecord /\ x.last.slot <= s /\ x.cumRate >= Wad
      /\ ValidateReserveConfig(x.config)
      /\ \A a, b \in x.extra : a = b
  BY DEF ReserveSound, SoundRecord
<1>2. y.available \in Nat /\ y.mintSupply \in Nat /\ y.borrowed \in Nat /\ y.fees \in Nat
  <2>1. y.borrowed \in Int /\ y.fees \in Int
    BY DEF Rebooked, BookedRecord
  <2> QED
    BY <2>1, U64MaxAssumption DEF WellFormed, Fits, FitsU64
<1>3. y \in ReserveRecord
  BY <1>2 DEF Rebooked, ReserveRecord, BookedRecord
<1>4. /\ z \in ReserveRecord /\ z.last = [y.last EXCEPT !.stale = TRUE]
      /\ z.cumRate = y.cumRate /\ z.extra = y.extra /\ z.config = y.config
      /\ z.available = y.available /\ z.mintSupply = y.mintSupply
  BY <1>3 DEF MarkStale, ReserveRecord
<1>5. y.last \in [slot : Nat, stale : BOOLEAN]
  BY <1>3, ReserveFields
<1>6. z.last.slot = x.last.slot /\ z.last.stale
  BY <1>4, <1>5 DEF Rebooked
<1> HIDE DEF z
<1>7. ReserveSound(z, s)
  BY <1>1, <1>4, <1>6 DEF ReserveSound, SoundRecord, IsStale, Rebooked
<1> QED
  BY <1>4, <1>7 DEF z

(* The operations on a reserve change only amounts, by the tokens that     *)
(* their instruction moves (state/reserve.rs): deposit_liquidity.          *)
LEMMA DepositRebooks ==
  ASSUME NEW x \in ReserveRecord, TotalSupply(x) >= 0, NEW n \in Nat
  PROVE  /\ Rebooked(x, DepositLiquidity(x, n))
         /\ DepositLiquidity(x, n).available = x.available + n
         /\ DepositLiquidity(x, n).mintSupply = x.mintSupply + CollateralFor(x, n)
         /\ CollateralFor(x, n) \in Nat
<1> DEFINE y == DepositLiquidity(x, n)
<1>1. CollateralFor(x, n) \in Nat
  BY ExchangeNat
<1>2. y = [x EXCEPT !.mintSupply = x.mintSupply + CollateralFor(x, n),
                    !.available = x.available + n]
  BY DEF DepositLiquidity, ReserveRecord
<1>3. x \in BookedRecord
  BY DEF BookedRecord, ReserveRecord
<1>4. x.mintSupply + CollateralFor(x, n) \in Int /\ x.available + n \in Int
  BY <1>1, ReserveFields
<1> HIDE DEF y
<1>5. y \in BookedRecord
  BY <1>2, <1>3, <1>4 DEF BookedRecord
<1>6. y.last = x.last /\ y.cumRate = x.cumRate /\ y.extra = x.extra /\ y.config = x.config
  BY <1>2, <1>3 DEF BookedRecord
<1>7. y.available = x.available + n /\ y.mintSupply = x.mintSupply + CollateralFor(x, n)
  BY <1>2, <1>3 DEF BookedRecord
<1> QED
  BY <1>1, <1>5, <1>6, <1>7 DEF Rebooked, y

(* redeem_collateral.                                                      *)
LEMMA RedeemRebooks ==
  ASSUME NEW x \in ReserveRecord, TotalSupply(x) >= 0, ExchangeRate(x) > 0, NEW c \in Nat
  PROVE  /\ Rebooked(x, RedeemCollateral(x, c))
         /\ RedeemCollateral(x, c).available = x.available - LiquidityFor(x, c)
         /\ RedeemCollateral(x, c).mintSupply = x.mintSupply - c
         /\ LiquidityFor(x, c) \in Nat
<1> DEFINE y == RedeemCollateral(x, c)
<1>1. LiquidityFor(x, c) \in Nat
  BY ExchangeNat
<1>2. y = [x EXCEPT !.available = x.available - LiquidityFor(x, c), !.mintSupply = x.mintSupply - c]
  BY DEF RedeemCollateral, ReserveRecord
<1>3. x \in BookedRecord
  BY DEF BookedRecord, ReserveRecord
<1>4. x.available - LiquidityFor(x, c) \in Int /\ x.mintSupply - c \in Int
  BY <1>1, ReserveFields
<1> HIDE DEF y
<1>5. y \in BookedRecord
  BY <1>2, <1>3, <1>4 DEF BookedRecord
<1>6. y.last = x.last /\ y.cumRate = x.cumRate /\ y.extra = x.extra /\ y.config = x.config
  BY <1>2, <1>3 DEF BookedRecord
<1>7. y.available = x.available - LiquidityFor(x, c) /\ y.mintSupply = x.mintSupply - c
  BY <1>2, <1>3 DEF BookedRecord
<1> QED
  BY <1>1, <1>5, <1>6, <1>7 DEF Rebooked, y

(* ReserveLiquidity::borrow.                                               *)
LEMMA BorrowRebooks ==
  ASSUME NEW x \in ReserveRecord, NEW a \in Nat
  PROVE  /\ Rebooked(x, LiquidityBorrow(x, a))
         /\ LiquidityBorrow(x, a).available = x.available - TryFloorU64(a)
         /\ LiquidityBorrow(x, a).mintSupply = x.mintSupply
<1> DEFINE y == LiquidityBorrow(x, a)
<1>1. TryFloorU64(a) \in Nat
  BY DecimalNat
<1>2. y = [x EXCEPT !.available = x.available - TryFloorU64(a), !.borrowed = x.borrowed + a]
  BY DEF LiquidityBorrow, ReserveRecord
<1>3. x \in BookedRecord
  BY DEF BookedRecord, ReserveRecord
<1>4. x.available - TryFloorU64(a) \in Int /\ x.borrowed + a \in Int
  BY <1>1, ReserveFields
<1> HIDE DEF y
<1>5. y \in BookedRecord
  BY <1>2, <1>3, <1>4 DEF BookedRecord
<1>6. y.last = x.last /\ y.cumRate = x.cumRate /\ y.extra = x.extra /\ y.config = x.config
  BY <1>2, <1>3 DEF BookedRecord
<1>7. y.available = x.available - TryFloorU64(a) /\ y.mintSupply = x.mintSupply
  BY <1>2, <1>3 DEF BookedRecord
<1> QED
  BY <1>5, <1>6, <1>7 DEF Rebooked, y

(* ReserveLiquidity::repay, which caps what it settles by what is lent.    *)
LEMMA RepayRebooks ==
  ASSUME NEW x \in ReserveRecord, NEW n \in Nat, NEW settle \in Nat
  PROVE  /\ Rebooked(x, LiquidityRepay(x, n, settle))
         /\ LiquidityRepay(x, n, settle).available = x.available + n
         /\ LiquidityRepay(x, n, settle).mintSupply = x.mintSupply
         /\ LiquidityRepay(x, n, settle).borrowed \in Nat
<1> DEFINE y == LiquidityRepay(x, n, settle)
           m == Min({settle, x.borrowed})
<1>0. settle \in Int /\ x.borrowed \in Int /\ x.borrowed \in Nat
  BY ReserveFields
<1>1. m \in Nat /\ m <= x.borrowed
  BY <1>0, OfTwo
<1>2. y = [x EXCEPT !.available = x.available + n, !.borrowed = x.borrowed - m]
  BY DEF LiquidityRepay, ReserveRecord
<1>3. x \in BookedRecord
  BY DEF BookedRecord, ReserveRecord
<1>4. x.available + n \in Int /\ x.borrowed - m \in Int
  BY <1>1, ReserveFields
<1> HIDE DEF y, m
<1>5. y \in BookedRecord
  BY <1>2, <1>3, <1>4 DEF BookedRecord
<1>6. y.last = x.last /\ y.cumRate = x.cumRate /\ y.extra = x.extra /\ y.config = x.config
  BY <1>2, <1>3 DEF BookedRecord
<1>7. y.available = x.available + n /\ y.mintSupply = x.mintSupply
  BY <1>2, <1>3 DEF BookedRecord
<1>8. y.borrowed = x.borrowed - m
  BY <1>2, <1>3 DEF BookedRecord
<1>9. y.borrowed \in Nat
  BY <1>0, <1>1, <1>8
<1> QED
  BY <1>9, <1>5, <1>6, <1>7 DEF Rebooked, y

(* forgive_debt.                                                           *)
LEMMA ForgiveRebooks ==
  ASSUME NEW x \in ReserveRecord, NEW a \in Nat
  PROVE  /\ Rebooked(x, ForgiveDebt(x, a))
         /\ ForgiveDebt(x, a).available = x.available
         /\ ForgiveDebt(x, a).mintSupply = x.mintSupply
<1> DEFINE y == ForgiveDebt(x, a)
<1>1. a \in Int
  OBVIOUS
<1>2. y = [x EXCEPT !.borrowed = x.borrowed - a]
  BY DEF ForgiveDebt, ReserveRecord
<1>3. x \in BookedRecord
  BY DEF BookedRecord, ReserveRecord
<1>4. x.borrowed - a \in Int
  BY <1>1, ReserveFields
<1> HIDE DEF y
<1>5. y \in BookedRecord
  BY <1>2, <1>3, <1>4 DEF BookedRecord
<1>6. y.last = x.last /\ y.cumRate = x.cumRate /\ y.extra = x.extra /\ y.config = x.config
  BY <1>2, <1>3 DEF BookedRecord
<1>7. y.available = x.available /\ y.mintSupply = x.mintSupply
  BY <1>2, <1>3 DEF BookedRecord
<1> QED
  BY <1>5, <1>6, <1>7 DEF Rebooked, y

(* ReserveLiquidity::donate.                                               *)
LEMMA DonateRebooks ==
  ASSUME NEW x \in ReserveRecord, NEW n \in Nat
  PROVE  /\ Rebooked(x, Donate(x, n))
         /\ Donate(x, n).available = x.available + n
         /\ Donate(x, n).mintSupply = x.mintSupply
<1> DEFINE y == Donate(x, n)
<1>1. n \in Int
  OBVIOUS
<1>2. y = [x EXCEPT !.available = x.available + n]
  BY DEF Donate, ReserveRecord
<1>3. x \in BookedRecord
  BY DEF BookedRecord, ReserveRecord
<1>4. x.available + n \in Int
  BY <1>1, ReserveFields
<1> HIDE DEF y
<1>5. y \in BookedRecord
  BY <1>2, <1>3, <1>4 DEF BookedRecord
<1>6. y.last = x.last /\ y.cumRate = x.cumRate /\ y.extra = x.extra /\ y.config = x.config
  BY <1>2, <1>3 DEF BookedRecord
<1>7. y.available = x.available + n /\ y.mintSupply = x.mintSupply
  BY <1>2, <1>3 DEF BookedRecord
<1> QED
  BY <1>5, <1>6, <1>7 DEF Rebooked, y

(* redeem_fees.                                                            *)
LEMMA RedeemFeesRebooks ==
  ASSUME NEW x \in ReserveRecord, NEW n \in Nat
  PROVE  /\ Rebooked(x, RedeemFees(x, n))
         /\ RedeemFees(x, n).available = x.available - n
         /\ RedeemFees(x, n).mintSupply = x.mintSupply
<1> DEFINE y == RedeemFees(x, n)
<1>1. FromU64(n) \in Nat
  BY DecimalNat
<1>2. y = [x EXCEPT !.available = x.available - n, !.fees = x.fees - FromU64(n)]
  BY DEF RedeemFees, ReserveRecord
<1>3. x \in BookedRecord
  BY DEF BookedRecord, ReserveRecord
<1>4. x.available - n \in Int /\ x.fees - FromU64(n) \in Int
  BY <1>1, ReserveFields
<1> HIDE DEF y
<1>5. y \in BookedRecord
  BY <1>2, <1>3, <1>4 DEF BookedRecord
<1>6. y.last = x.last /\ y.cumRate = x.cumRate /\ y.extra = x.extra /\ y.config = x.config
  BY <1>2, <1>3 DEF BookedRecord
<1>7. y.available = x.available - n /\ y.mintSupply = x.mintSupply
  BY <1>2, <1>3 DEF BookedRecord
<1> QED
  BY <1>5, <1>6, <1>7 DEF Rebooked, y

(* The factor that the price offset stands for (price_scale).              *)
LEMMA ScaleNat ==
  ASSUME NEW c \in ReserveConfig, ValidateReserveConfig(c)
  PROVE  PriceScale(c) \in Nat
<1> DEFINE p == c.priceOffsetBps
           m == Max({MinPriceOffsetBps, p})
           k == Min({MaxPriceOffsetBps, m})
<1>1. p \in Int /\ MinPriceOffsetBps = -2000 /\ MaxPriceOffsetBps = 5000
  BY DEF ReserveConfig, MinPriceOffsetBps, MaxPriceOffsetBps
<1>2. MinPriceOffsetBps \in Int /\ MaxPriceOffsetBps \in Int
  BY <1>1
<1> HIDE DEF p
<1>3. m \in {MinPriceOffsetBps, p} /\ MinPriceOffsetBps <= m
  BY <1>1, <1>2, OfTwo
<1>4. m \in Int /\ -2000 <= m
  BY <1>1, <1>3
<1> HIDE DEF m
<1>5. k \in {MaxPriceOffsetBps, m}
  BY <1>2, <1>4, OfTwo
<1>6. 10000 + k \in Nat
  BY <1>1, <1>4, <1>5
<1> HIDE DEF k
<1>7. FromBps(10000 + k) \in Nat
  BY <1>6, DecimalNat
<1> QED
  BY <1>7 DEF PriceScale, k, m, p

(* A refresh stores a sound reserve (Reserve::accrue_interest, and the     *)
(* oracle prices scaled by the offset).                                    *)
LEMMA RefreshSound ==
  ASSUME NEW x, NEW s \in Nat, ReserveSound(x, s),
         NEW q \in Quote, \A a, b \in q.extra : a = b
  PROVE  LET scale == PriceScale(x.config)
             y == [AccrueInterest(x, s) EXCEPT
                     !.price = TryMul(q.price, scale), !.smoothed = TryMul(q.smoothed, scale),
                     !.extra = q.extra, !.last = Fresh(s)]
         IN  /\ ReserveSound(y, s)
             /\ y.available = x.available
             /\ y.mintSupply = x.mintSupply
<1> DEFINE scale == PriceScale(x.config)
           a == AccrueInterest(x, s)
           p1 == TryMul(q.price, scale)
           p2 == TryMul(q.smoothed, scale)
           y == [a EXCEPT !.price = p1, !.smoothed = p2, !.extra = q.extra, !.last = Fresh(s)]
<1>1. /\ x \in ReserveRecord /\ x.config \in ReserveConfig
      /\ x.last.slot <= s /\ ValidateReserveConfig(x.config) /\ SoundRecord(x)
  BY ReserveFields DEF ReserveSound, SoundRecord
<1>2. /\ SoundRecord(a) /\ a.available = x.available /\ a.mintSupply = x.mintSupply
      /\ a.config = x.config
  BY <1>1, AccrualSound
<1>3. q.price \in Nat /\ q.smoothed \in Nat /\ q.extra \in SUBSET Nat
  BY DEF Quote
<1>4. scale \in Nat
  BY <1>1, ScaleNat
<1> HIDE DEF scale
<1>5. p1 \in Nat /\ p2 \in Nat
  BY <1>3, <1>4, DecimalNat
<1> HIDE DEF a, p1, p2
<1>6. a \in ReserveRecord
  BY <1>2 DEF SoundRecord
<1>7. Fresh(s) \in [slot : Nat, stale : BOOLEAN] /\ Fresh(s).slot = s
  BY DEF Fresh
<1>8. /\ y \in ReserveRecord
      /\ y.available = a.available /\ y.mintSupply = a.mintSupply /\ y.config = a.config
      /\ y.cumRate = a.cumRate /\ y.extra = q.extra /\ y.last = Fresh(s)
      /\ y.borrowed = a.borrowed /\ y.fees = a.fees
  BY <1>3, <1>5, <1>6, <1>7 DEF ReserveRecord
<1> HIDE DEF y
<1>9. ReserveSound(y, s)
  BY <1>2, <1>7, <1>8 DEF ReserveSound, SoundRecord
<1> QED
  BY <1>2, <1>8, <1>9 DEF y, p1, p2, a, scale

(* So does accruing interest alone (Reserve::accrue_interest, and          *)
(* LastUpdate::update_slot).                                               *)
LEMMA AccruedSound ==
  ASSUME NEW x, NEW s \in Nat, ReserveSound(x, s)
  PROVE  LET y == [AccrueInterest(x, s) EXCEPT !.last = Fresh(s)]
         IN  /\ ReserveSound(y, s)
             /\ y.available = x.available
             /\ y.mintSupply = x.mintSupply
<1> DEFINE a == AccrueInterest(x, s)
           y == [a EXCEPT !.last = Fresh(s)]
<1>1. SoundRecord(x) /\ x.last.slot <= s
  BY DEF ReserveSound
<1>2. SoundRecord(a) /\ a.available = x.available /\ a.mintSupply = x.mintSupply
  BY <1>1, AccrualSound
<1> HIDE DEF a
<1>3. a \in ReserveRecord
  BY <1>2 DEF SoundRecord
<1>4. Fresh(s) \in [slot : Nat, stale : BOOLEAN] /\ Fresh(s).slot = s
  BY DEF Fresh
<1>5. /\ y \in ReserveRecord
      /\ y.available = a.available /\ y.mintSupply = a.mintSupply /\ y.config = a.config
      /\ y.cumRate = a.cumRate /\ y.extra = a.extra /\ y.last = Fresh(s)
  BY <1>3, <1>4 DEF ReserveRecord
<1> HIDE DEF y
<1>6. ReserveSound(y, s)
  BY <1>2, <1>4, <1>5 DEF ReserveSound, SoundRecord
<1> QED
  BY <1>2, <1>5, <1>6 DEF y, a

-----------------------------------------------------------------------------
(* 5. Obligations, and the amounts of a borrow, a repayment, a liquidation *)
(* and a withdrawal.                                                       *)

(* An entry of an obligation: a positive amount, and for a loan the        *)
(* cumulative rate up to which its interest has been added.                *)
Entry == [reserve : Reserve, amount : Nat \ {0}, value : Nat]
Rates == {k \in Nat : k >= Wad}
Loan  == [reserve : Reserve, cumRate : Rates, amount : Nat \ {0}, value : Nat]

ObligationRecord ==
  [last : [slot : Nat, stale : BOOLEAN], deposits : Seq(Entry), borrows : Seq(Loan),
   depositedValue : Nat, borrowedValue : Nat, upperBound : Nat,
   allowed : Nat, unhealthy : Nat, superUnhealthy : Nat, closeable : BOOLEAN]

(* The fields of an obligation and of its entries.                         *)
LEMMA ObligationFields ==
  ASSUME NEW o \in ObligationRecord
  PROVE  /\ o.last \in [slot : Nat, stale : BOOLEAN]
         /\ o.deposits \in Seq(Entry) /\ o.borrows \in Seq(Loan)
         /\ o.depositedValue \in Nat /\ o.borrowedValue \in Nat /\ o.upperBound \in Nat
         /\ o.allowed \in Nat /\ o.unhealthy \in Nat /\ o.superUnhealthy \in Nat
         /\ o.closeable \in BOOLEAN
  BY DEF ObligationRecord

(* The fields of a deposit.                                                *)
LEMMA EntryFields ==
  ASSUME NEW d \in Entry
  PROVE  d.reserve \in Reserve /\ d.amount \in Nat \ {0} /\ d.value \in Nat
  BY DEF Entry

(* The fields of a loan.                                                   *)
LEMMA LoanFields ==
  ASSUME NEW b \in Loan
  PROVE  /\ b.reserve \in Reserve /\ b.amount \in Nat \ {0} /\ b.value \in Nat
         /\ b.cumRate \in Nat \ {0} /\ b.cumRate >= Wad
<1>1. b.reserve \in Reserve /\ b.amount \in Nat \ {0} /\ b.value \in Nat /\ b.cumRate \in Rates
  BY DEF Loan
<1> QED
  BY <1>1, WadNat DEF Rates

(* Fees are amounts of tokens (ReserveFees::calculate_fees).               *)
LEMMA FeesNat ==
  ASSUME NEW c, NEW a \in Nat, NEW w \in Nat, NEW incl \in BOOLEAN,
         NEW f \in CalculateFees(c, a, w, incl)
  PROVE  f.fee \in Nat
<1>1. CASE w = 0 \/ a = 0
  BY <1>1 DEF CalculateFees
<1>2. CASE ~(w = 0 \/ a = 0)
  <2> DEFINE rate == IF incl THEN TryDiv(w, w + Wad) ELSE w
             least == FromU64(IF c.hostPct > 0 THEN 2 ELSE 1)
             x == TryMul(a, rate)
             fee == Max({x, least})
  <2>1. rate \in Nat
    <3>1. w + Wad \in Nat /\ w + Wad # 0
      BY WadNat
    <3>2. TryDiv(w, w + Wad) \in Nat
      BY <3>1, DecimalNat
    <3> QED
      BY <3>2
  <2>2. least \in Nat
    <3>1. (IF c.hostPct > 0 THEN 2 ELSE 1) \in Nat
      OBVIOUS
    <3> QED
      BY <3>1, DecimalNat
  <2> HIDE DEF rate, least
  <2>3. x \in Nat
    BY <2>1, DecimalNat
  <2> HIDE DEF x
  <2>4. fee \in {x, least}
    BY <2>2, <2>3, OfTwo
  <2>5. fee \in Nat
    BY <2>2, <2>3, <2>4
  <2>6. f.fee = TryRoundU64(fee)
    BY <1>2 DEF CalculateFees, fee, x, least, rate
  <2> HIDE DEF fee
  <2> QED
    BY <2>5, <2>6, DecimalNat
<1> QED
  BY <1>1, <1>2

(* The weight of a loan is at least one (Reserve::borrow_weight).          *)
LEMMA WeightNat ==
  ASSUME NEW x \in ReserveRecord
  PROVE  BorrowWeight(x) \in Nat /\ BorrowWeight(x) # 0
<1>1. x.config \in ReserveConfig
  BY ReserveFields
<1>2. x.config.addedWeightBps \in Nat
  BY <1>1 DEF ReserveConfig
<1> DEFINE k == FromBps(x.config.addedWeightBps)
<1>3. k \in Nat
  BY <1>2, DecimalNat
<1> HIDE DEF k
<1>4. Wad + k \in Nat /\ Wad + k # 0
  BY <1>3, WadNat
<1> QED
  BY <1>4 DEF BorrowWeight, k

(* What a borrow books is a Decimal whose floor is what leaves the supply  *)
(* account, fee included (Reserve::calculate_borrow).                      *)
LEMMA BorrowBooked ==
  ASSUME NEW x, SoundRecord(x), NEW n \in Nat, NEW most \in Nat, NEW remaining \in Nat,
         n = U64Max => PriceUpperBound(x) > 0,
         NEW b \in CalculateBorrow(x, n, most, remaining)
  PROVE  /\ b.borrow \in Nat /\ b.fee \in Nat
         /\ TryFloorU64(b.borrow) = b.receive + b.fee
         /\ b.receive > 0 => b.borrow > 0
<1>1. x \in ReserveRecord /\ x.config \in ReserveConfig /\ x.available \in Nat
  BY ReserveFields DEF SoundRecord
<1>2. x.config.borrowFee \in Nat /\ x.config.addedWeightBps \in Nat
  BY <1>1 DEF ReserveConfig
<1>3. CASE n = U64Max
  <2> DEFINE p == PriceUpperBound(x)
             w == BorrowWeight(x)
             v == TryMulInt(most, MintUnit)
             byValue == TryDiv(TryDiv(v, p), w)
             avail == FromU64(x.available)
             a == Min({byValue, remaining, avail})
             F == CalculateFees(x.config, a, x.config.borrowFee, TRUE)
  <2>1. p \in Nat /\ p # 0
    BY <1>3, PriceBounds
  <2>2. w \in Nat /\ w # 0
    BY <1>1, WeightNat
  <2>3. v \in Nat /\ avail \in Nat
    BY <1>1, YearAssumption, DecimalNat
  <2> HIDE DEF p, w, v, avail
  <2>4. TryDiv(v, p) \in Nat
    BY <2>1, <2>3, DecimalNat
  <2>5. byValue \in Nat
    BY <2>2, <2>4, DecimalNat
  <2> HIDE DEF byValue
  <2>6. a \in {byValue, remaining, avail}
    <3> DEFINE S == {byValue, remaining, avail}
    <3>1. \A y : y \in S <=> y = byValue \/ y = remaining \/ y = avail
      OBVIOUS
    <3>2. byValue \in Int /\ remaining \in Int /\ avail \in Int
      BY <2>3, <2>5
    <3> HIDE DEF S
    <3>3. Min(S) \in S
      BY <3>1, <3>2, OfThree
    <3> QED
      BY <3>3 DEF S
  <2>7. a \in Nat
    BY <2>3, <2>5, <2>6
  <2> HIDE DEF a
  <2>8. PICK f \in F : b = [borrow |-> a, receive |-> TryFloorU64(a) - f.fee,
                            fee |-> f.fee, host |-> f.host]
    <3>1. b \in {[borrow |-> a, receive |-> TryFloorU64(a) - f.fee,
                  fee |-> f.fee, host |-> f.host] :
                     f \in {g \in F : Fits(TryFloorU64(a) - g.fee)}}
      BY <1>3, Zenon DEF CalculateBorrow, a, byValue, v, p, w, avail
    <3> HIDE DEF F
    <3> QED
      BY <3>1
  <2>9. f.fee \in Nat
    BY <1>2, <2>7, FeesNat
  <2>10. TryFloorU64(a) \in Nat
    BY <2>7, DecimalNat
  <2>11. b.borrow = a /\ b.receive = TryFloorU64(a) - f.fee /\ b.fee = f.fee
    BY <2>8
  <2>12. TryFloorU64(a) = b.receive + b.fee
    BY <2>9, <2>10, <2>11
  <2>13. ASSUME b.receive > 0, a = 0 PROVE FALSE
    <3>1. TryFloorU64(a) = 0
      BY <2>13, FloorOfWhole, WadNat DEF FromU64
    <3> QED
      BY <2>9, <2>11, <2>13, <3>1
  <2> QED
    BY <2>7, <2>9, <2>11, <2>12, <2>13
<1>4. CASE n # U64Max
  <2> DEFINE F == CalculateFees(x.config, FromU64(n), x.config.borrowFee, FALSE)
  <2>1. PICK f \in F : b = [borrow |-> FromU64(n + f.fee), receive |-> n,
                            fee |-> f.fee, host |-> f.host]
    <3> HIDE DEF F
    <3>1. b \in {[borrow |-> FromU64(n + f.fee), receive |-> n,
                  fee |-> f.fee, host |-> f.host] : f \in F}
      BY <1>4 DEF CalculateBorrow, F
    <3> QED
      BY <3>1
  <2>2. f.fee \in Nat
    <3>1. FromU64(n) \in Nat
      BY DecimalNat
    <3> QED
      BY <1>2, <3>1, FeesNat
  <2>3. b.borrow = FromU64(n + f.fee) /\ b.receive = n /\ b.fee = f.fee
    BY <2>1
  <2>4. n + f.fee \in Nat
    BY <2>2
  <2>5. FromU64(n + f.fee) \in Nat /\ TryFloorU64(FromU64(n + f.fee)) = n + f.fee
    BY <2>4, DecimalNat, FloorOfWhole
  <2>6. ASSUME n > 0 PROVE FromU64(n + f.fee) > 0
    <3>1. 1 * Wad <= (n + f.fee) * Wad
      BY <2>4, <2>2, <2>6, WadNat, MulMonotone
    <3> QED
      BY <2>5, <3>1, WadNat DEF FromU64
  <2> QED
    BY <2>2, <2>3, <2>5, <2>6
<1> QED
  BY <1>3, <1>4

(* A repayment settles at most what is owed, and tokens cover it           *)
(* (calculate_repay).                                                      *)
LEMMA RepayBooked ==
  ASSUME NEW n \in Nat, NEW a \in Nat
  PROVE  /\ CalculateRepay(n, a).settle \in Nat /\ CalculateRepay(n, a).settle <= a
         /\ CalculateRepay(n, a).repay \in Nat
<1> DEFINE m == FromU64(n)
           s == IF n = U64Max THEN a ELSE Min({m, a})
<1>1. m \in Nat
  BY DecimalNat
<1> HIDE DEF m
<1>2. Min({m, a}) \in {m, a} /\ Min({m, a}) <= a
  BY <1>1, OfTwo
<1>3. s \in Nat /\ s <= a
  BY <1>1, <1>2
<1>4. CalculateRepay(n, a) = [settle |-> s, repay |-> TryCeilU64(s)]
  BY DEF CalculateRepay, m
<1> HIDE DEF s
<1>5. TryCeilU64(s) \in Nat
  BY <1>3, DecimalNat
<1> QED
  BY <1>3, <1>4, <1>5

(* The least of three natural numbers.                                     *)
LEMMA LeastOfThree ==
  ASSUME NEW a \in Nat, NEW b \in Nat, NEW c \in Nat
  PROVE  /\ Min({a, b, c}) \in Nat
         /\ Min({a, b, c}) <= a /\ Min({a, b, c}) <= b /\ Min({a, b, c}) <= c
<1> DEFINE S == {a, b, c}
<1>1. /\ a \in S /\ b \in S /\ c \in S /\ S \subseteq Nat
      /\ \A x : x \in S <=> x = a \/ x = b \/ x = c
  OBVIOUS
<1>2. a \in Int /\ b \in Int /\ c \in Int
  OBVIOUS
<1> HIDE DEF S
<1>3. Min(S) \in S /\ \A x \in S : Min(S) <= x
  BY <1>1, <1>2, OfThree
<1>4. Min(S) \in Nat /\ Min(S) <= a /\ Min(S) <= b /\ Min(S) <= c
  BY <1>1, <1>3
<1> QED
  BY <1>4 DEF S

(* The least of two natural numbers.                                       *)
LEMMA LeastOfTwo ==
  ASSUME NEW a \in Nat, NEW b \in Nat
  PROVE  /\ Min({a, b}) \in Nat /\ Min({a, b}) <= a /\ Min({a, b}) <= b
         /\ \A k \in Nat : k <= a /\ k <= b => k <= Min({a, b})
<1>1. a \in Int /\ b \in Int
  OBVIOUS
<1>2. Min({a, b}) \in {a, b} /\ Min({a, b}) <= a /\ Min({a, b}) <= b
  BY <1>1, OfTwo
<1> QED
  BY <1>2

(* The bonus rate (Reserve::calculate_bonus).                              *)
LEMMA BonusNat ==
  ASSUME NEW x, SoundRecord(x), NEW o \in ObligationRecord, NEW bonus \in CalculateBonus(x, o)
  PROVE  bonus.total \in Nat
<1> DEFINE c == x.config
           low == FromPercent(c.bonus)
           high == FromPercent(c.maxBonus)
           fee == FromDecaBps(c.protocolLiqFee)
           span == o.superUnhealthy - o.unhealthy
           over == o.borrowedValue - o.unhealthy
           q == TryDiv(over, span)
           weight == Min({q, Wad})
           part == TryMul(weight, high - low)
           rate == IF span = 0 THEN low ELSE low + part
           most == FromPercent(MaxBonusPct)
           sum == rate + fee
           total == Min({sum, most})
<1>1. /\ o.superUnhealthy \in Nat /\ o.unhealthy \in Nat /\ o.borrowedValue \in Nat
      /\ span \in Int /\ over \in Int
  BY ObligationFields
<1>2. c \in ReserveConfig /\ ValidateReserveConfig(c)
  BY ReserveFields DEF SoundRecord
<1>3. CASE o.borrowedValue < o.unhealthy
  <2>1. bonus = [total |-> 0, protocol |-> 0]
    BY <1>3 DEF CalculateBonus
  <2> QED
    BY <2>1
<1>4. CASE ~(o.borrowedValue < o.unhealthy)
  <2>1. bonus = [total |-> total, protocol |-> fee] /\ Fits(span)
    BY <1>4, Zenon DEF CalculateBonus
  <2>2. over \in Nat /\ span \in Nat
    BY <1>1, <1>4, <2>1 DEF Fits
  <2>3. low \in Nat /\ high \in Nat /\ low <= high
    BY <1>2, ConfigFields, PercentOrdered
  <2>4. fee \in Nat
    <3>1. c.protocolLiqFee \in Nat
      BY <1>2 DEF ReserveConfig
    <3> QED
      BY <3>1, DecimalNat
  <2>5. most \in Nat
    <3>1. MaxBonusPct \in Nat
      BY DEF MaxBonusPct
    <3> QED
      BY <3>1, DecimalNat
  <2> HIDE DEF low, high, fee, over, span, most
  <2>6. rate \in Nat
    <3>1. CASE span = 0
      BY <2>3, <3>1
    <3>2. CASE span # 0
      <4>1. q \in Nat
        BY <2>2, <3>2, DecimalNat
      <4> HIDE DEF q
      <4>2. weight \in Nat
        BY <4>1, WadNat, LeastOfTwo
      <4>3. weight \in Nat /\ high - low \in Nat
        BY <2>3, <4>2
      <4> HIDE DEF weight
      <4>4. part \in Nat
        BY <4>3, DecimalNat
      <4> HIDE DEF part
      <4> QED
        BY <2>3, <3>2, <4>4
    <3> QED
      BY <3>1, <3>2
  <2> HIDE DEF rate
  <2>7. sum \in Nat
    BY <2>4, <2>6
  <2> HIDE DEF sum
  <2>9. total \in Nat
    BY <2>5, <2>7, LeastOfTwo
  <2> HIDE DEF total
  <2> QED
    BY <2>1, <2>9
<1> QED
  BY <1>3, <1>4

(* A share of an amount is worth at most that share of its value, although *)
(* both the share and the product round down.                              *)
LEMMA ShareWithinValue ==
  ASSUME NEW a \in Nat, NEW v \in Nat, NEW b \in Nat \ {0}
  PROVE  b * TryMul(a, TryDiv(v, b)) <= a * v
<1> DEFINE q == TryDiv(v, b)
           p == a * q
           s == p \div Wad
<1>1. Wad \in Nat \ {0} /\ v * Wad \in Nat
  BY WadNat, MulNat
<1>2. q \in Nat /\ q * b <= v * Wad
  BY <1>1, DivNat, DivRemainder DEF TryDiv
<1> HIDE DEF q
<1>3. p \in Nat
  BY <1>2, MulNat
<1>4. s \in Nat /\ s * Wad <= p
  BY <1>1, <1>3, DivNat, DivRemainder
<1>5. (s * Wad) * b <= p * b
  <2>1. s * Wad \in Nat
    BY <1>1, <1>4, MulNat
  <2> QED
    BY <1>3, <1>4, <2>1, MulMonotone
<1>6. a * (q * b) <= a * (v * Wad)
  <2>1. q * b \in Nat
    BY <1>2, MulNat
  <2> QED
    BY <1>1, <1>2, <2>1, MulMonotone
<1>7. p * b = a * (q * b) /\ a * (v * Wad) = (a * v) * Wad /\ (s * Wad) * b = (b * s) * Wad
  BY <1>1, <1>2, <1>4
<1>8. b * s \in Nat /\ a * v \in Nat
  BY <1>4, MulNat
<1> DEFINE l == b * s
           r == a * v
<1>9. l * Wad <= r * Wad /\ l \in Nat /\ r \in Nat
  <2>1. (s * Wad) * b \in Int /\ p * b \in Int /\ a * (v * Wad) \in Int
    BY <1>1, <1>3, <1>4
  <2> QED
    BY <1>5, <1>6, <1>7, <1>8, <2>1
<1> HIDE DEF l, r
<1>10. ASSUME r + 1 <= l PROVE FALSE
  <2>1. (r + 1) * Wad <= l * Wad
    BY <1>1, <1>9, <1>10, MulMonotone
  <2>2. (r + 1) * Wad = r * Wad + Wad /\ r * Wad \in Nat /\ l * Wad \in Nat
    BY <1>1, <1>9
  <2> QED
    BY <1>1, <1>9, <2>1, <2>2
<1>11. l <= r
  BY <1>9, <1>10
<1> QED
  BY <1>11 DEF l, r, s, p, q, TryMul

(* What max_liquidation_amount answers is worth at most the close factor   *)
(* of the debt and the limit on one liquidation.                           *)
LEMMA MaxLiquidationBounded ==
  ASSUME NEW o \in ObligationRecord, NEW b \in Loan, b.value > 0
  PROVE  LET most == Min({TryMul(o.borrowedValue, FromPercent(LiquidationCloseFactor)),
                          FromU64(MaxLiquidatableValue)})
         IN  /\ MaxLiquidationAmount(o, b) \in Nat
             /\ most \in Nat
             /\ b.value * MaxLiquidationAmount(o, b) <= b.amount * most
<1> DEFINE x == TryMul(o.borrowedValue, FromPercent(LiquidationCloseFactor))
           y == FromU64(MaxLiquidatableValue)
           z == b.value
           a == b.amount
           most == Min({x, y})
           value == Min({x, z, y})
           q == TryDiv(value, z)
           m == TryMul(a, q)
<1>1. z \in Nat \ {0} /\ a \in Nat
  BY LoanFields
<1>2. x \in Nat
  <2>1. LiquidationCloseFactor \in Nat
    BY DEF LiquidationCloseFactor
  <2>2. FromPercent(LiquidationCloseFactor) \in Nat /\ o.borrowedValue \in Nat
    BY <2>1, DecimalNat, ObligationFields
  <2> QED
    BY <2>2, DecimalNat
<1>3. y \in Nat
  BY LiquidatableAssumption, DecimalNat
<1>4. MaxLiquidationAmount(o, b) = m
  BY DEF MaxLiquidationAmount
<1> HIDE DEF x, y, z, a
<1>5. value \in Nat /\ value <= x /\ value <= y
  BY <1>1, <1>2, <1>3, LeastOfThree
<1> HIDE DEF value
<1>6. most \in Nat /\ value <= most
  BY <1>2, <1>3, <1>5, LeastOfTwo
<1> HIDE DEF most
<1>7. q \in Nat
  BY <1>1, <1>5, DecimalNat
<1>8. m \in Nat
  BY <1>1, <1>7, DecimalNat
<1>9. z * m <= a * value
  BY <1>1, <1>5, ShareWithinValue
<1>10. a * value <= a * most
  BY <1>1, <1>5, <1>6, MulMonotone
<1>11. z * m \in Nat /\ a * value \in Nat /\ a * most \in Nat
  BY <1>1, <1>5, <1>6, <1>8, MulNat
<1> HIDE DEF m
<1>12. z * m <= a * most
  BY <1>9, <1>10, <1>11
<1> QED
  BY <1>4, <1>6, <1>8, <1>12 DEF z, a, most, x, y

(* A liquidation takes no more collateral than there is, settles no more   *)
(* than is owed and than is paid, and debt that is not dust only up to the *)
(* amount asked for and the limits (Reserve::calculate_liquidation).       *)
LEMMA LiquidationBooked ==
  ASSUME NEW n \in Nat, NEW o \in ObligationRecord, NEW b \in Loan, NEW d \in Entry,
         b.value > 0, d.value > 0, NEW bonus, bonus.total \in Nat,
         NEW l \in CalculateLiquidation(n, o, b, d, bonus)
  PROVE  /\ l.withdraw \in Nat /\ l.withdraw <= d.amount
         /\ l.settle \in Nat /\ l.settle <= b.amount
         /\ l.repay \in Nat /\ l.settle <= FromU64(l.repay)
         /\ b.value > Wad =>
              /\ l.settle <= FromU64(n)
              /\ b.value * l.settle <= b.amount *
                   Min({TryMul(o.borrowedValue, FromPercent(LiquidationCloseFactor)),
                        FromU64(MaxLiquidatableValue)})
<1> DEFINE rate == bonus.total + Wad
           dust == b.value <= Wad
           asked == FromU64(n)
           a == b.amount
           bv == b.value
           dv == d.value
           da == d.amount
           limit == MaxLiquidationAmount(o, b)
           most == Min({TryMul(o.borrowedValue, FromPercent(LiquidationCloseFactor)),
                        FromU64(MaxLiquidatableValue)})
           cap == IF n = U64Max THEN a ELSE Min({asked, a})
           wanted == IF dust THEN a ELSE Min({limit, cap})
           claim == IF dust THEN TryMul(bv, rate)
                    ELSE TryMul(TryMul(bv, TryDiv(wanted, a)), rate)
           settle == IF claim > dv THEN TryMul(wanted, TryDiv(dv, claim)) ELSE wanted
           share == TryFloorU64(TryMul(FromU64(da), TryDiv(claim, dv)))
           withdraw == IF claim >= dv THEN da ELSE IF dust THEN Max({share, 1}) ELSE share
<1>1. /\ a \in Nat \ {0} /\ bv \in Nat \ {0} /\ dv \in Nat \ {0} /\ da \in Nat \ {0}
      /\ Wad \in Nat \ {0} /\ rate \in Nat /\ asked \in Nat /\ dust \in BOOLEAN
  <2>1. a \in Nat \ {0} /\ bv \in Nat \ {0}
    BY LoanFields
  <2>2. dv \in Nat \ {0} /\ da \in Nat \ {0}
    BY EntryFields
  <2>3. Wad \in Nat \ {0} /\ rate \in Nat
    BY WadNat
  <2>4. asked \in Nat
    BY DecimalNat
  <2>5. dust \in BOOLEAN
    OBVIOUS
  <2> HIDE DEF rate, dust, asked, a, bv, dv, da
  <2> QED
    BY <2>1, <2>2, <2>3, <2>4, <2>5
<1>2. limit \in Nat /\ most \in Nat /\ bv * limit <= a * most
  BY MaxLiquidationBounded
<1>3. /\ l = [settle |-> settle, repay |-> TryCeilU64(settle), withdraw |-> withdraw]
      /\ FitsU64(l.repay)
  BY Zenon DEF CalculateLiquidation
<1>4. dust <=> ~(bv > Wad)
  BY <1>1
<1> HIDE DEF rate, dust, asked, a, bv, dv, da, limit, most
<1>5. cap \in Nat /\ cap <= a /\ (n # U64Max => cap <= asked)
  <2>1. Min({asked, a}) \in Nat /\ Min({asked, a}) <= asked /\ Min({asked, a}) <= a
    BY <1>1, LeastOfTwo
  <2> QED
    BY <1>1, <2>1
<1> HIDE DEF cap
<1>6. wanted \in Nat /\ wanted <= a /\ (~dust => wanted <= limit /\ wanted <= cap)
  <2>1. Min({limit, cap}) \in Nat /\ Min({limit, cap}) <= limit /\ Min({limit, cap}) <= cap
    BY <1>2, <1>5, LeastOfTwo
  <2> QED
    BY <1>1, <1>5, <2>1
<1> HIDE DEF wanted
<1>7. claim \in Nat
  <2>1. TryDiv(wanted, a) \in Nat
    BY <1>1, <1>6, DecimalNat
  <2>2. TryMul(bv, TryDiv(wanted, a)) \in Nat
    BY <1>1, <2>1, DecimalNat
  <2>3. TryMul(bv, rate) \in Nat /\ TryMul(TryMul(bv, TryDiv(wanted, a)), rate) \in Nat
    BY <1>1, <2>2, DecimalNat
  <2> QED
    BY <2>3
<1> HIDE DEF claim
<1>8. settle \in Nat /\ settle <= wanted
  <2>1. CASE claim > dv
    <3>1. claim \in Nat \ {0} /\ dv <= claim
      BY <1>1, <1>7, <2>1
    <3>2. TryDiv(dv, claim) \in Nat /\ TryDiv(dv, claim) <= Wad
      BY <1>1, <3>1, DecimalNat, DivToFraction
    <3>3. TryMul(wanted, TryDiv(dv, claim)) \in Nat /\ TryMul(wanted, TryDiv(dv, claim)) <= wanted
      BY <1>6, <3>2, DecimalNat, MulByFraction
    <3> QED
      BY <2>1, <3>3
  <2>2. CASE ~(claim > dv)
    BY <1>6, <2>2
  <2> QED
    BY <2>1, <2>2
<1> HIDE DEF settle
<1>9. withdraw \in Nat /\ withdraw <= da
  <2>1. CASE claim >= dv
    BY <1>1, <2>1
  <2>2. CASE ~(claim >= dv)
    <3> DEFINE fraction == TryDiv(claim, dv)
               whole == FromU64(da)
               part == TryMul(whole, fraction)
    <3>1. fraction \in Nat /\ fraction <= Wad
      <4>1. claim <= dv /\ dv # 0 /\ dv \in Nat \ {0} /\ claim \in Nat
        BY <1>1, <1>7, <2>2
      <4> QED
        BY <4>1, DecimalNat, DivToFraction
    <3>2. whole \in Nat
      BY <1>1, DecimalNat
    <3> HIDE DEF fraction
    <3>3. part \in Nat /\ part <= da * Wad
      <4> HIDE DEF whole
      <4>1. part \in Nat /\ part <= whole
        BY <3>1, <3>2, DecimalNat, MulByFraction
      <4> QED
        BY <4>1 DEF whole, FromU64
    <3> HIDE DEF part
    <3>4. TryFloorU64(part) \in Nat /\ TryFloorU64(part) <= da
      BY <1>1, <3>3, DivNat, DivAtMost DEF TryFloorU64
    <3>5. share \in Nat /\ share <= da
      BY <3>4 DEF part, whole, fraction
    <3> HIDE DEF share
    <3>6. Max({share, 1}) \in {share, 1}
      <4>1. share \in Int /\ 1 \in Int
        BY <3>5
      <4> QED
        BY <4>1, OfTwo, Zenon
    <3> QED
      BY <1>1, <2>2, <3>5, <3>6
  <2> QED
    BY <2>1, <2>2
<1> HIDE DEF withdraw
<1>10. l.settle = settle /\ l.repay = TryCeilU64(settle) /\ l.withdraw = withdraw
  BY <1>3
<1>11. l.repay \in Nat /\ settle <= FromU64(l.repay)
  BY <1>8, <1>10, DecimalNat, CeilCovers
<1>12. settle <= a
  BY <1>1, <1>6, <1>8
<1>13. ASSUME bv > Wad PROVE settle <= asked
  <2>1. CASE n # U64Max
    BY <1>1, <1>4, <1>5, <1>6, <1>8, <1>13, <2>1
  <2>2. CASE n = U64Max
    <3>1. l.repay <= n
      BY <1>3, <2>2, U64MaxAssumption DEF FitsU64
    <3>2. FromU64(l.repay) <= FromU64(n) /\ FromU64(l.repay) \in Nat
      BY <1>1, <1>11, <3>1, MulMonotone, DecimalNat DEF FromU64
    <3> QED
      BY <1>1, <1>8, <1>11, <3>2 DEF asked
  <2> QED
    BY <2>1, <2>2
<1>14. ASSUME bv > Wad PROVE bv * settle <= a * most
  <2>1. settle <= limit
    BY <1>2, <1>4, <1>6, <1>8, <1>14
  <2>2. bv * settle <= bv * limit
    BY <1>1, <1>2, <1>8, <2>1, MulMonotone
  <2>3. bv * settle \in Nat /\ bv * limit \in Nat /\ a * most \in Nat
    BY <1>1, <1>2, <1>8, MulNat
  <2> QED
    BY <1>2, <2>2, <2>3
<1> QED
  BY <1>8, <1>9, <1>10, <1>11, <1>12, <1>13, <1>14 DEF bv, a, da, most, asked

(* What may be withdrawn of a deposit (Obligation::max_withdraw_amount).   *)
LEMMA WithdrawBounded ==
  ASSUME NEW o \in ObligationRecord, NEW i \in DOMAIN o.deposits,
         NEW x, SoundRecord(x),
         \/ o.borrows = <<>> \/ x.config.ltv = 0
         \/ PriceLowerBound(x) > 0 /\ TotalSupply(x) >= 0
  PROVE  /\ MaxWithdrawAmount(o, i, x) \in Nat
         /\ MaxWithdrawAmount(o, i, x) <= o.deposits[i].amount
<1> DEFINE amount == o.deposits[i].amount
           ltv == LoanToValueRatio(x)
           room == o.allowed - o.upperBound
           value == TryDiv(room, ltv)
           price == PriceLowerBound(x)
           units == TryMulInt(value, MintUnit)
           liquidity == TryDiv(units, price)
           tokens == TryFloorU64(LiquidityToCollateral(x, liquidity))
           free == o.borrows = <<>>
           full == o.allowed <= o.upperBound
           zero == x.config.ltv = 0
<1>1. amount \in Nat
  <2>1. o.deposits \in Seq(Entry)
    BY ObligationFields
  <2>2. o.deposits[i] \in Entry
    BY <2>1
  <2> QED
    BY <2>2, EntryFields
<1>2. MaxWithdrawAmount(o, i, x) =
        IF free THEN amount ELSE IF full THEN 0 ELSE IF zero THEN amount
        ELSE Min({tokens, amount})
  BY DEF MaxWithdrawAmount
<1>3. ASSUME ~free, ~full, ~zero PROVE tokens \in Nat
  <2>1. x \in ReserveRecord /\ x.config \in ReserveConfig
    BY ReserveFields DEF SoundRecord
  <2>2. x.config.ltv \in Nat \ {0}
    BY <1>3, <2>1 DEF ReserveConfig
  <2>3. ltv \in Nat \ {0}
    <3>1. 1 * PercentScaler <= x.config.ltv * PercentScaler
      BY <2>2, WadNat, MulMonotone
    <3>2. x.config.ltv * PercentScaler \in Nat
      BY <2>2, WadNat, MulNat
    <3>3. x.config.ltv * PercentScaler \in Nat \ {0}
      BY <3>1, <3>2, WadNat
    <3> QED
      BY <3>3 DEF LoanToValueRatio, FromPercent
  <2>4. room \in Nat
    BY <1>3, ObligationFields
  <2> HIDE DEF room, ltv
  <2>5. value \in Nat
    BY <2>3, <2>4, DecimalNat
  <2> HIDE DEF value
  <2>6. units \in Nat
    BY <2>5, YearAssumption, DecimalNat
  <2>7. price \in Nat \ {0}
    BY <1>3, PriceBounds
  <2> HIDE DEF units, price
  <2>8. liquidity \in Nat
    BY <2>6, <2>7, DecimalNat
  <2> HIDE DEF liquidity
  <2>9. LiquidityToCollateral(x, liquidity) \in Nat
    BY <1>3, <2>1, <2>8, ExchangeNat
  <2> QED
    BY <2>9, DecimalNat
<1> HIDE DEF amount, tokens, free, full, zero
<1>4. tokens \in Nat => Min({tokens, amount}) \in Nat /\ Min({tokens, amount}) <= amount
  BY <1>1, LeastOfTwo
<1>5. MaxWithdrawAmount(o, i, x) \in Nat /\ MaxWithdrawAmount(o, i, x) <= amount
  BY <1>1, <1>2, <1>3, <1>4
<1> QED
  BY <1>5 DEF amount

-----------------------------------------------------------------------------
(* 6. The collateral in a list of deposits, and the obligation's lists.    *)

(* An entry that may still be empty, and what it holds of r.               *)
Slot == [reserve : Reserve, amount : Nat, value : Nat]
Share(d, r) == IF d.reserve = r THEN d.amount ELSE 0
Shares(ds, r) == [i \in DOMAIN ds |-> Share(ds[i], r)]

(* What a list of deposits holds of r is the sum of its entries' shares.   *)
LEMMA HeldIsSum ==
  ASSUME NEW ds, NEW r
  PROVE  Held(ds, r) = SumFunctionOnSet(Shares(ds, r), DOMAIN ds)
  BY DEF Held, Total, Shares, Share

(* A list of deposits has finitely many entries, each a natural number of  *)
(* tokens.                                                                 *)
LEMMA SharesNat ==
  ASSUME NEW ds \in Seq(Slot), NEW r
  PROVE  /\ IsFiniteSet(DOMAIN ds)
         /\ \A i \in DOMAIN ds : Shares(ds, r)[i] \in Nat /\ Shares(ds, r)[i] = Share(ds[i], r)
<1>1. DOMAIN ds = 1 .. Len(ds) /\ Len(ds) \in Nat
  OBVIOUS
<1>2. IsFiniteSet(DOMAIN ds)
  BY <1>1, FS_Interval
<1>3. ASSUME NEW i \in DOMAIN ds
      PROVE  Shares(ds, r)[i] \in Nat /\ Shares(ds, r)[i] = Share(ds[i], r)
  <2>1. ds[i] \in Slot
    BY <1>3
  <2>2. ds[i].amount \in Nat
    BY <2>1 DEF Slot
  <2> QED
    BY <2>2 DEF Shares, Share
<1> QED
  BY <1>2, <1>3

(* What a list of deposits holds is a natural number.                      *)
LEMMA HeldNat ==
  ASSUME NEW ds \in Seq(Slot), NEW r
  PROVE  Held(ds, r) \in Nat
<1>1. IsFiniteSet(DOMAIN ds) /\ \A i \in DOMAIN ds : Shares(ds, r)[i] \in Nat
  BY SharesNat
<1>2. SumFunctionOnSet(Shares(ds, r), DOMAIN ds) \in Nat
  BY <1>1, SumNat
<1> QED
  BY <1>2, HeldIsSum

(* One entry of the list changes.                                          *)
LEMMA HeldChanged ==
  ASSUME NEW ds \in Seq(Slot), NEW es \in Seq(Slot), DOMAIN es = DOMAIN ds,
         NEW i \in DOMAIN ds, \A j \in DOMAIN ds : j # i => es[j] = ds[j], NEW r
  PROVE  Held(es, r) = Held(ds, r) - Share(ds[i], r) + Share(es[i], r)
<1> DEFINE f == Shares(ds, r)
           g == Shares(es, r)
           S == DOMAIN ds
<1>1. /\ IsFiniteSet(S)
      /\ \A j \in S : f[j] \in Int /\ f[j] = Share(ds[j], r)
      /\ \A j \in S : g[j] \in Int /\ g[j] = Share(es[j], r)
  BY SharesNat
<1>2. \A j \in S : j # i => f[j] = g[j]
  BY <1>1
<1> HIDE DEF f, g
<1>3. SumFunctionOnSet(g, S) = SumFunctionOnSet(f, S) - f[i] + g[i]
  BY <1>1, <1>2, SumChangedAt
<1> QED
  BY <1>1, <1>3, HeldIsSum DEF f, g

(* The entries keep their reserves and amounts.                            *)
LEMMA HeldSame ==
  ASSUME NEW ds \in Seq(Slot), NEW es \in Seq(Slot), DOMAIN es = DOMAIN ds,
         \A j \in DOMAIN ds : es[j].reserve = ds[j].reserve /\ es[j].amount = ds[j].amount, NEW r
  PROVE  Held(es, r) = Held(ds, r)
<1> DEFINE f == Shares(ds, r)
           g == Shares(es, r)
           S == DOMAIN ds
<1>1. /\ IsFiniteSet(S)
      /\ \A j \in S : f[j] = Share(ds[j], r)
      /\ \A j \in S : g[j] = Share(es[j], r)
  BY SharesNat
<1>2. \A j \in S : f[j] = g[j]
  BY <1>1 DEF Share
<1> HIDE DEF f, g
<1>3. SumFunctionOnSet(f, S) = SumFunctionOnSet(g, S)
  BY <1>1, <1>2, SumSame
<1> QED
  BY <1>3, HeldIsSum DEF f, g

(* An entry is appended.                                                   *)
LEMMA HeldAppended ==
  ASSUME NEW ds \in Seq(Slot), NEW e \in Slot, NEW r
  PROVE  Held(Append(ds, e), r) = Held(ds, r) + Share(e, r)
<1> DEFINE es == Append(ds, e)
           n == Len(ds)
           S == DOMAIN ds
           f == Shares(ds, r)
           g == Shares(es, r)
<1>1. /\ n \in Nat /\ S = 1 .. n /\ es \in Seq(Slot) /\ DOMAIN es = S \cup {n + 1}
      /\ n + 1 \notin S /\ es[n + 1] = e /\ \A j \in S : es[j] = ds[j]
  OBVIOUS
<1> HIDE DEF es
<1>2. /\ IsFiniteSet(S)
      /\ \A j \in S : f[j] \in Int /\ f[j] = Share(ds[j], r)
      /\ \A j \in S \cup {n + 1} : g[j] \in Int /\ g[j] = Share(es[j], r)
  BY <1>1, SharesNat
<1>3. \A j \in S : f[j] = g[j]
  BY <1>1, <1>2
<1>4. g[n + 1] = Share(e, r)
  BY <1>1, <1>2
<1> HIDE DEF f, g, S, n
<1>5. SumFunctionOnSet(g, S \cup {n + 1}) = g[n + 1] + SumFunctionOnSet(g, S)
  BY <1>1, <1>2, SumAdd
<1>6. SumFunctionOnSet(f, S) = SumFunctionOnSet(g, S) /\ SumFunctionOnSet(f, S) \in Int
  BY <1>2, <1>3, SumSame, SumInt
<1>7. Held(ds, r) = SumFunctionOnSet(f, S) /\ Held(es, r) = SumFunctionOnSet(g, S \cup {n + 1})
  BY <1>1, HeldIsSum DEF f, g, S
<1>8. g[n + 1] \in Int
  BY <1>2
<1>9. Held(es, r) = Held(ds, r) + Share(e, r)
  BY <1>4, <1>5, <1>6, <1>7, <1>8
<1> QED
  BY <1>9 DEF es

(* The entries after a removed one move up (Vec::remove).                  *)
LEMMA Removed ==
  ASSUME NEW V, NEW s \in Seq(V), NEW i \in DOMAIN s
  PROVE  /\ RemoveAt(s, i) \in Seq(V)
         /\ DOMAIN RemoveAt(s, i) = 1 .. Len(s) - 1
         /\ \A j \in 1 .. Len(s) - 1 : RemoveAt(s, i)[j] = IF j < i THEN s[j] ELSE s[j + 1]
<1> DEFINE a == SubSeq(s, 1, i - 1)
           b == SubSeq(s, i + 1, Len(s))
<1>1. Len(s) \in Nat /\ i \in 1 .. Len(s)
  OBVIOUS
<1>2. /\ a \in Seq(V) /\ Len(a) = i - 1
      /\ \A j \in 1 .. i - 1 : a[j] = s[j]
  BY <1>1
<1>3. /\ b \in Seq(V) /\ Len(b) = Len(s) - i
      /\ \A j \in 1 .. Len(s) - i : b[j] = s[i + j]
  BY <1>1
<1>4. RemoveAt(s, i) = a \o b
  BY DEF RemoveAt
<1> HIDE DEF a, b
<1>5. a \o b \in Seq(V) /\ Len(a \o b) = Len(s) - 1
  BY <1>1, <1>2, <1>3
<1>7. DOMAIN (a \o b) = 1 .. Len(s) - 1
  <2> DEFINE c == a \o b
  <2>1. c \in Seq(V) /\ Len(c) = Len(s) - 1
    BY <1>5
  <2> HIDE DEF c
  <2>2. DOMAIN c = 1 .. Len(s) - 1
    BY <2>1
  <2> QED
    BY <2>2 DEF c
<1>6. ASSUME NEW j \in 1 .. Len(s) - 1
      PROVE  (a \o b)[j] = IF j < i THEN s[j] ELSE s[j + 1]
  <2>1. (a \o b)[j] = IF j <= Len(a) THEN a[j] ELSE b[j - Len(a)]
    BY <1>1, <1>2, <1>3
  <2>2. CASE j < i
    BY <1>1, <1>2, <2>1, <2>2
  <2>3. CASE ~(j < i)
    <3>1. j - Len(a) \in 1 .. Len(s) - i /\ i + (j - Len(a)) = j + 1
      BY <1>1, <1>2, <2>3
    <3>2. ~(j <= Len(a))
      BY <1>1, <1>2, <2>3
    <3>3. (a \o b)[j] = b[j - Len(a)]
      BY <2>1, <3>2, Zenon
    <3>4. b[j - Len(a)] = s[i + (j - Len(a))]
      BY <1>3, <3>1, Zenon
    <3> QED
      BY <2>3, <3>1, <3>3, <3>4, Zenon
  <2> QED
    BY <2>2, <2>3
<1> QED
  BY <1>4, <1>5, <1>6, <1>7, Zenon

(* An entry is removed.                                                    *)
LEMMA HeldRemoved ==
  ASSUME NEW ds \in Seq(Slot), NEW i \in DOMAIN ds, NEW r
  PROVE  Held(RemoveAt(ds, i), r) = Held(ds, r) - Share(ds[i], r)
<1> DEFINE es == RemoveAt(ds, i)
           n == Len(ds)
           S == DOMAIN ds
           T == 1 .. n - 1
           R == S \ {i}
           f == Shares(ds, r)
           g == Shares(es, r)
           h == [j \in T |-> IF j < i THEN j ELSE j + 1]
<1>1. n \in Nat /\ S = 1 .. n /\ i \in S
  OBVIOUS
<1>2. /\ es \in Seq(Slot) /\ DOMAIN es = T
      /\ \A j \in T : es[j] = IF j < i THEN ds[j] ELSE ds[j + 1]
  BY Removed
<1> HIDE DEF es
<1>3. /\ IsFiniteSet(S) /\ IsFiniteSet(T)
      /\ \A j \in S : f[j] \in Int /\ f[j] = Share(ds[j], r)
      /\ \A j \in T : g[j] \in Int /\ g[j] = Share(es[j], r)
  <2>1. IsFiniteSet(S) /\ \A j \in S : f[j] \in Nat /\ f[j] = Share(ds[j], r)
    BY SharesNat
  <2>2. IsFiniteSet(T) /\ \A j \in T : g[j] \in Nat /\ g[j] = Share(es[j], r)
    <3>1. IsFiniteSet(DOMAIN es) /\ \A j \in DOMAIN es : g[j] \in Nat /\ g[j] = Share(es[j], r)
      BY <1>2, SharesNat
    <3> HIDE DEF T
    <3> QED
      BY <1>2, <3>1
  <2> QED
    BY <2>1, <2>2
<1>4. Held(ds, r) = SumFunctionOnSet(f, S) /\ Held(es, r) = SumFunctionOnSet(g, T)
  BY <1>2, HeldIsSum
<1> HIDE DEF f, g, S, n
<1>5. \A j \in T : h[j] \in R
  BY <1>1
<1>6. \A z \in R : \E j \in T : h[j] = z
  <2> SUFFICES ASSUME NEW z \in R PROVE \E j \in T : h[j] = z
    OBVIOUS
  <2>1. CASE z < i
    <3>1. z \in T /\ h[z] = z
      BY <1>1, <2>1
    <3> QED
      BY <3>1
  <2>2. CASE ~(z < i)
    <3>1. z - 1 \in T /\ h[z - 1] = z
      BY <1>1, <2>2
    <3> QED
      BY <3>1
  <2> QED
    BY <2>1, <2>2
<1>7. \A j, k \in T : h[j] = h[k] => j = k
  BY <1>1
<1>8. \A j \in T : g[j] \in Int /\ g[j] = f[h[j]]
  BY <1>1, <1>2, <1>3, <1>5
<1> HIDE DEF h, T
<1>9. SumFunctionOnSet(g, T) = SumFunctionOnSet(f, R)
  <2> HIDE DEF R
  <2> QED
    BY <1>3, <1>5, <1>6, <1>7, <1>8, SumReindexed
<1>10. SumFunctionOnSet(f, S) = f[i] + SumFunctionOnSet(f, R)
  <2>1. \A j \in S : f[j] \in Int
    BY <1>3
  <2> QED
    BY <1>1, <1>3, <2>1, SumAnyFirst
<1>11. SumFunctionOnSet(f, R) \in Int /\ f[i] \in Int
  <2>1. IsFiniteSet(R) /\ \A j \in R : f[j] \in Int
    BY <1>3, FS_Subset
  <2> HIDE DEF R
  <2> QED
    BY <1>1, <1>3, <2>1, SumInt
<1>12. f[i] = Share(ds[i], r)
  BY <1>1, <1>3
<1> HIDE DEF R
<1>13. Held(es, r) = Held(ds, r) - Share(ds[i], r)
  BY <1>4, <1>9, <1>10, <1>11, <1>12
<1> QED
  BY <1>13 DEF es

(* Deposits are entries that may be empty.                                 *)
LEMMA EntriesAreSlots ==
  ASSUME NEW ds \in Seq(Entry)
  PROVE  ds \in Seq(Slot)
<1>1. \A d : d \in Entry => d \in Slot
  BY DEF Entry, Slot
<1> QED
  BY <1>1

(* One element of a sequence is replaced.                                  *)
LEMMA Replaced ==
  ASSUME NEW V, NEW s \in Seq(V), NEW i \in DOMAIN s, NEW e \in V
  PROVE  /\ [s EXCEPT ![i] = e] \in Seq(V)
         /\ DOMAIN [s EXCEPT ![i] = e] = DOMAIN s
         /\ [s EXCEPT ![i] = e][i] = e
         /\ \A j \in DOMAIN s : j # i => [s EXCEPT ![i] = e][j] = s[j]
  OBVIOUS

(* Lowering a deposit by at most what it holds (Obligation::withdraw).     *)
LEMMA DepositLowered ==
  ASSUME NEW ds \in Seq(Entry), NEW i \in DOMAIN ds, NEW c \in Nat, c <= ds[i].amount, NEW r
  PROVE  /\ Lowered(ds, i, c) \in Seq(Entry)
         /\ Held(Lowered(ds, i, c), r) = Held(ds, r) - (IF ds[i].reserve = r THEN c ELSE 0)
<1> DEFINE d == ds[i]
<1>1. d \in Entry /\ d.amount \in Nat \ {0} /\ ds \in Seq(Slot)
  <2>1. d \in Entry
    OBVIOUS
  <2> QED
    BY <2>1, EntryFields, EntriesAreSlots
<1>2. Held(ds, r) \in Nat
  BY <1>1, HeldNat
<1>3. CASE c = d.amount
  <2>1. Lowered(ds, i, c) = RemoveAt(ds, i)
    BY <1>3 DEF Lowered
  <2>2. RemoveAt(ds, i) \in Seq(Entry)
    BY Removed
  <2>3. Held(RemoveAt(ds, i), r) = Held(ds, r) - Share(d, r)
    BY <1>1, HeldRemoved
  <2> QED
    BY <1>3, <2>1, <2>2, <2>3 DEF Share
<1>4. CASE c # d.amount
  <2> DEFINE e == [d EXCEPT !.amount = d.amount - c]
             es == [ds EXCEPT ![i] = e]
  <2>1. Lowered(ds, i, c) = es
    BY <1>4 DEF Lowered
  <2>2. d.amount - c \in Nat \ {0}
    BY <1>1, <1>4
  <2>3. e \in Entry /\ e.reserve = d.reserve /\ e.amount = d.amount - c
    BY <1>1, <2>2 DEF Entry
  <2> HIDE DEF e
  <2>4. es \in Seq(Entry) /\ DOMAIN es = DOMAIN ds /\ es[i] = e
        /\ \A j \in DOMAIN ds : j # i => es[j] = ds[j]
    BY <2>3, Replaced
  <2> HIDE DEF es
  <2>5. Held(es, r) = Held(ds, r) - Share(d, r) + Share(e, r)
    <3>1. es \in Seq(Slot)
      BY <2>4, EntriesAreSlots
    <3>2. Held(es, r) = Held(ds, r) - Share(ds[i], r) + Share(es[i], r)
      BY <1>1, <2>4, <3>1, HeldChanged
    <3> QED
      BY <2>4, <3>2
  <2>6. Held(es, r) = Held(ds, r) - (IF d.reserve = r THEN c ELSE 0)
    BY <1>1, <1>2, <2>3, <2>5 DEF Share
  <2> QED
    BY <2>1, <2>4, <2>6
<1> QED
  BY <1>3, <1>4

(* Lowering a loan by at most what is owed (Obligation::repay).            *)
LEMMA LoanLowered ==
  ASSUME NEW bs \in Seq(Loan), NEW i \in DOMAIN bs, NEW c \in Nat, c <= bs[i].amount
  PROVE  Lowered(bs, i, c) \in Seq(Loan)
<1> DEFINE d == bs[i]
<1>1. d \in Loan
  OBVIOUS
<1>2. d.amount \in Nat
  BY <1>1, LoanFields
<1>3. CASE c = d.amount
  BY <1>3, Removed DEF Lowered
<1>4. CASE c # d.amount
  <2> DEFINE e == [d EXCEPT !.amount = d.amount - c]
  <2>1. Lowered(bs, i, c) = [bs EXCEPT ![i] = e]
    BY <1>4 DEF Lowered
  <2>2. d.amount - c \in Nat \ {0}
    BY <1>2, <1>4
  <2>3. e \in Loan
    BY <1>1, <2>2 DEF Loan
  <2> HIDE DEF e
  <2> QED
    BY <2>1, <2>3, Replaced
<1> QED
  BY <1>3, <1>4

(* find_or_add: the entry found, or a new one at the end.                  *)
LEMMA EntryFound ==
  ASSUME NEW V, NEW s \in Seq(V), NEW new
  PROVE  /\ Found(s, new.reserve) # {} =>
              /\ FindOrAdd(s, new) = s
              /\ IndexOf(s, new.reserve) \in DOMAIN s
              /\ s[IndexOf(s, new.reserve)].reserve = new.reserve
         /\ Found(s, new.reserve) = {} =>
              /\ FindOrAdd(s, new) = Append(s, new)
              /\ IndexOf(Append(s, new), new.reserve) = Len(s) + 1
<1>1. ASSUME Found(s, new.reserve) # {}
      PROVE  /\ FindOrAdd(s, new) = s
             /\ IndexOf(s, new.reserve) \in DOMAIN s
             /\ s[IndexOf(s, new.reserve)].reserve = new.reserve
  <2>1. IndexOf(s, new.reserve) \in Found(s, new.reserve)
    BY <1>1 DEF IndexOf
  <2> QED
    BY <1>1, <2>1 DEF FindOrAdd, Found
<1>2. ASSUME Found(s, new.reserve) = {}
      PROVE  /\ FindOrAdd(s, new) = Append(s, new)
             /\ IndexOf(Append(s, new), new.reserve) = Len(s) + 1
  <2> DEFINE es == Append(s, new)
  <2>1. /\ Len(s) \in Nat /\ DOMAIN es = 1 .. Len(s) + 1 /\ DOMAIN s = 1 .. Len(s)
        /\ es[Len(s) + 1] = new
        /\ \A j \in DOMAIN s : es[j] = s[j]
    OBVIOUS
  <2> HIDE DEF es
  <2>2. \A j \in DOMAIN es : es[j].reserve = new.reserve <=> j = Len(s) + 1
    BY <1>2, <2>1 DEF Found
  <2>3. Found(es, new.reserve) = {Len(s) + 1}
    BY <2>1, <2>2 DEF Found
  <2>4. IndexOf(es, new.reserve) = Len(s) + 1
    BY <2>3 DEF IndexOf
  <2> QED
    BY <1>2, <2>4 DEF FindOrAdd, es
<1> QED
  BY <1>1, <1>2

(* Replacing what was appended.                                            *)
LEMMA AppendReplaced ==
  ASSUME NEW V, NEW s \in Seq(V), NEW new, NEW e
  PROVE  [Append(s, new) EXCEPT ![Len(s) + 1] = e] = Append(s, e)
<1> DEFINE W == V \cup {new, e}
           as == Append(s, new)
           n == Len(s) + 1
           es == [as EXCEPT ![n] = e]
           fs == Append(s, e)
<1>1. s \in Seq(W) /\ new \in W /\ e \in W /\ Len(s) \in Nat
  OBVIOUS
<1> HIDE DEF W
<1>2. as \in Seq(W) /\ Len(as) = n /\ \A j \in 1 .. Len(s) : as[j] = s[j]
  BY <1>1
<1>3. fs \in Seq(W) /\ Len(fs) = n /\ fs[n] = e /\ \A j \in 1 .. Len(s) : fs[j] = s[j]
  BY <1>1
<1> HIDE DEF as, fs
<1>4. DOMAIN as = 1 .. n /\ DOMAIN fs = 1 .. n /\ n \in Nat
  BY <1>1, <1>2, <1>3
<1>5. n \in DOMAIN as
  BY <1>1, <1>4
<1>6. /\ es \in Seq(W) /\ DOMAIN es = 1 .. n /\ es[n] = e
      /\ \A j \in 1 .. n : j # n => es[j] = as[j]
  <2> HIDE DEF n
  <2> QED
    BY <1>1, <1>2, <1>4, <1>5, Replaced
<1> HIDE DEF es
<1>8. Len(es) = n
  BY <1>4, <1>6
<1>9. \A j \in 1 .. n : es[j] = fs[j]
  <2> SUFFICES ASSUME NEW j \in 1 .. n PROVE es[j] = fs[j]
    OBVIOUS
  <2>1. CASE j = n
    BY <1>3, <1>6, <2>1
  <2>2. CASE j # n
    <3>1. j \in 1 .. Len(s)
      BY <1>1, <2>2
    <3> QED
      BY <1>2, <1>3, <1>6, <2>2, <3>1
  <2> QED
    BY <2>1, <2>2
<1>7. es = fs
  <2> HIDE DEF n
  <2> QED
    BY <1>3, <1>6, <1>8, <1>9, SeqEqual
<1> QED
  BY <1>7 DEF es, fs, as, n

(* The deposits after a deposit.                                           *)
DepositsAfter(ds, r, c) ==
  LET entries == FindOrAdd(ds, NewCollateral(r))
  IN  [entries EXCEPT ![IndexOf(entries, r)].amount = @ + c]

(* A deposit adds its collateral tokens                                    *)
(* (find_or_add_collateral_to_deposits, ObligationCollateral::deposit).    *)
LEMMA DepositRaised ==
  ASSUME NEW ds \in Seq(Entry), NEW r \in Reserve, NEW c \in Nat \ {0}, NEW q
  PROVE  /\ DepositsAfter(ds, r, c) \in Seq(Entry)
         /\ Held(DepositsAfter(ds, r, c), q) = Held(ds, q) + (IF q = r THEN c ELSE 0)
<1> DEFINE new == NewCollateral(r)
           es == DepositsAfter(ds, r, c)
<1>1. new.reserve = r /\ new.amount = 0 /\ new \in Slot /\ ds \in Seq(Slot)
  BY EntriesAreSlots DEF NewCollateral, Slot
<1>2. Held(ds, q) \in Nat
  BY <1>1, HeldNat
<1>3. CASE Found(ds, r) # {}
  <2> DEFINE i == IndexOf(ds, r)
             d == ds[i]
             e == [d EXCEPT !.amount = d.amount + c]
  <2>1. FindOrAdd(ds, new) = ds /\ i \in DOMAIN ds /\ d.reserve = r
    <3> HIDE DEF new
    <3> QED
      BY <1>1, <1>3, EntryFound
  <2>2. es = [ds EXCEPT ![i] = e]
    BY <2>1 DEF DepositsAfter
  <2> HIDE DEF i
  <2>3. d \in Entry
    BY <2>1
  <2>4. d.amount \in Nat /\ d.amount + c \in Nat \ {0}
    BY <2>3, EntryFields
  <2>5. e \in Entry /\ e.reserve = d.reserve /\ e.amount = d.amount + c
    BY <2>3, <2>4 DEF Entry
  <2> HIDE DEF e, es
  <2>6. es \in Seq(Entry) /\ DOMAIN es = DOMAIN ds /\ es[i] = e
        /\ \A j \in DOMAIN ds : j # i => es[j] = ds[j]
    BY <2>1, <2>2, <2>5, Replaced
  <2>7. Held(es, q) = Held(ds, q) - Share(d, q) + Share(e, q)
    <3>1. es \in Seq(Slot)
      BY <2>6, EntriesAreSlots
    <3>2. Held(es, q) = Held(ds, q) - Share(ds[i], q) + Share(es[i], q)
      BY <1>1, <2>1, <2>6, <3>1, HeldChanged
    <3> QED
      BY <2>6, <3>2
  <2>8. Held(es, q) = Held(ds, q) + (IF q = r THEN c ELSE 0)
    BY <1>2, <2>1, <2>4, <2>5, <2>7 DEF Share
  <2> QED
    BY <2>6, <2>8 DEF es
<1>4. CASE Found(ds, r) = {}
  <2> DEFINE n == Len(ds) + 1
             as == Append(ds, new)
             e == [new EXCEPT !.amount = new.amount + c]
  <2>1. FindOrAdd(ds, new) = as /\ IndexOf(as, r) = n
    <3> HIDE DEF new
    <3> QED
      BY <1>1, <1>4, EntryFound
  <2>2. as[n] = new /\ as \in Seq(Slot) /\ n \in DOMAIN as
    BY <1>1
  <2>3. es = [as EXCEPT ![n] = e]
    BY <2>1, <2>2 DEF DepositsAfter
  <2>4. e \in Entry /\ e.reserve = r /\ e.amount = c
    <3>1. new.amount + c = c
      BY <1>1
    <3> QED
      BY <3>1 DEF NewCollateral, Entry
  <2> HIDE DEF e, es, new
  <2>5. es = Append(ds, e)
    BY <2>3, AppendReplaced
  <2>6. es \in Seq(Entry)
    BY <2>4, <2>5
  <2>7. e \in Slot
    BY <2>4 DEF Entry, Slot
  <2>8. Held(es, q) = Held(ds, q) + Share(e, q)
    BY <1>1, <2>5, <2>7, HeldAppended
  <2> QED
    BY <2>4, <2>6, <2>8 DEF Share, es
<1> QED
  BY <1>3, <1>4

(* The loans after a loan.                                                 *)
BorrowsAfter(bs, r, rate, a) ==
  LET entries == FindOrAdd(bs, NewLiquidity(r, rate))
  IN  [entries EXCEPT ![IndexOf(entries, r)].amount = @ + a]

(* A loan adds what is borrowed (find_or_add_liquidity_to_borrows,         *)
(* ObligationLiquidity::borrow).                                           *)
LEMMA LoanRaised ==
  ASSUME NEW bs \in Seq(Loan), NEW r \in Reserve, NEW rate \in Rates, NEW a \in Nat \ {0}
  PROVE  BorrowsAfter(bs, r, rate, a) \in Seq(Loan)
<1> DEFINE new == NewLiquidity(r, rate)
           es == BorrowsAfter(bs, r, rate, a)
<1>1. new.reserve = r /\ new.amount = 0
  BY DEF NewLiquidity
<1>3. CASE Found(bs, r) # {}
  <2> DEFINE i == IndexOf(bs, r)
             d == bs[i]
             e == [d EXCEPT !.amount = d.amount + a]
  <2>1. FindOrAdd(bs, new) = bs /\ i \in DOMAIN bs
    <3> HIDE DEF new
    <3> QED
      BY <1>1, <1>3, EntryFound
  <2>2. es = [bs EXCEPT ![i] = e]
    BY <2>1 DEF BorrowsAfter
  <2> HIDE DEF i
  <2>3. d \in Loan
    BY <2>1
  <2>4. d.amount + a \in Nat \ {0}
    BY <2>3, LoanFields
  <2>5. e \in Loan
    BY <2>3, <2>4 DEF Loan
  <2> HIDE DEF e, es
  <2>6. es \in Seq(Loan)
    BY <2>1, <2>2, <2>5, Replaced
  <2> QED
    BY <2>6 DEF es
<1>4. CASE Found(bs, r) = {}
  <2> DEFINE n == Len(bs) + 1
             as == Append(bs, new)
             e == [new EXCEPT !.amount = new.amount + a]
  <2>1. FindOrAdd(bs, new) = as /\ IndexOf(as, r) = n
    <3> HIDE DEF new
    <3> QED
      BY <1>1, <1>4, EntryFound
  <2>2. as[n] = new /\ n \in DOMAIN as
    BY <1>1
  <2>3. es = [as EXCEPT ![n] = e]
    BY <2>1, <2>2 DEF BorrowsAfter
  <2>4. e \in Loan
    <3>1. new.amount + a = a
      BY <1>1
    <3> QED
      BY <3>1 DEF NewLiquidity, Loan
  <2> HIDE DEF e, es, new
  <2>5. es = Append(bs, e)
    BY <2>3, AppendReplaced
  <2>6. es \in Seq(Loan)
    BY <2>4, <2>5
  <2> QED
    BY <2>6 DEF es
<1> QED
  BY <1>3, <1>4

-----------------------------------------------------------------------------
(* 7. Refreshing an obligation.                                            *)

(* Natural numbers, one for each entry of a list, add up to one.           *)
LEMMA TotalNat ==
  ASSUME NEW V, NEW s \in Seq(V), NEW g, \A i \in DOMAIN s : g[i] \in Nat
  PROVE  SumFunctionOnSet(g, DOMAIN s) \in Nat
<1>1. DOMAIN s = 1 .. Len(s) /\ Len(s) \in Nat
  OBVIOUS
<1>2. IsFiniteSet(DOMAIN s)
  BY <1>1, FS_Interval
<1> QED
  BY <1>2, SumNat

(* A function on the positions of a list is a list.                        *)
LEMMA ListOf ==
  ASSUME NEW V, NEW W, NEW s \in Seq(V), NEW t, t = [i \in DOMAIN s |-> t[i]],
         \A i \in DOMAIN s : t[i] \in W
  PROVE  t \in Seq(W) /\ DOMAIN t = DOMAIN s
<1>1. DOMAIN s = 1 .. Len(s) /\ Len(s) \in Nat
  OBVIOUS
<1>2. t \in [1 .. Len(s) -> W]
  BY <1>1
<1>3. DOMAIN t = DOMAIN s
  BY <1>1, <1>2
<1> QED
  BY <1>1, <1>2, <1>3

(* Interest accrues to a debt: it does not fall (accrue_interest).         *)
LEMMA AccruedLoan ==
  ASSUME NEW b \in Loan, NEW rate \in Nat, rate >= b.cumRate
  PROVE  Accrued(b, rate) \in Loan /\ Accrued(b, rate).reserve = b.reserve
<1>1. b.amount \in Nat \ {0} /\ b.cumRate \in Nat \ {0} /\ b.cumRate >= Wad
  BY LoanFields
<1>2. CASE rate = b.cumRate
  BY <1>2 DEF Accrued
<1>3. CASE rate # b.cumRate
  <2> DEFINE k == TryDiv(rate, b.cumRate)
             a == TryMul(b.amount, k)
  <2>1. k \in Nat /\ k >= Wad
    BY <1>1, DecimalNat, DivToFraction
  <2> HIDE DEF k
  <2>2. a \in Nat /\ a >= b.amount
    BY <1>1, <2>1, DecimalNat, MulByFraction
  <2> HIDE DEF a
  <2>3. a \in Nat \ {0} /\ rate \in Rates
    BY <1>1, <2>2, WadNat DEF Rates
  <2>4. Accrued(b, rate) = [b EXCEPT !.amount = a, !.cumRate = rate]
    BY <1>3 DEF Accrued, a, k
  <2> DEFINE e == [b EXCEPT !.amount = a, !.cumRate = rate]
  <2>5. e \in Loan
    BY <2>3 DEF Loan
  <2>6. e.reserve = b.reserve
    BY DEF Loan
  <2> QED
    BY <2>4, <2>5, <2>6
<1> QED
  BY <1>2, <1>3

(* What Refreshed needs of the reserves an obligation uses.                *)
Refreshable(ob, res) ==
  /\ \A i \in DOMAIN ob.deposits :
       /\ SoundRecord(res[ob.deposits[i].reserve])
       /\ TotalSupply(res[ob.deposits[i].reserve]) >= 0
       /\ ExchangeRate(res[ob.deposits[i].reserve]) > 0
  /\ \A i \in DOMAIN ob.borrows :
       /\ SoundRecord(res[ob.borrows[i].reserve])
       /\ res[ob.borrows[i].reserve].cumRate >= ob.borrows[i].cumRate

(* The entries of a refreshed obligation.                                  *)
DepositsOf(ob, res) ==
  [i \in DOMAIN ob.deposits |-> [ob.deposits[i] EXCEPT
     !.value = MarketValue(res[ob.deposits[i].reserve],
                 CollateralToLiquidity(res[ob.deposits[i].reserve],
                                       FromU64(ob.deposits[i].amount)))]]
BorrowsOf(ob, res) ==
  [i \in DOMAIN ob.borrows |->
     [Accrued(ob.borrows[i], res[ob.borrows[i].reserve].cumRate) EXCEPT
        !.value = MarketValue(res[ob.borrows[i].reserve],
                    Accrued(ob.borrows[i], res[ob.borrows[i].reserve].cumRate).amount)]]

(* A refresh revalues the deposits and leaves their amounts.               *)
LEMMA DepositsRefreshed ==
  ASSUME NEW ob \in ObligationRecord, NEW res, Refreshable(ob, res)
  PROVE  LET ds == DepositsOf(ob, res)
         IN  /\ ds \in Seq(Entry) /\ DOMAIN ds = DOMAIN ob.deposits
             /\ \A i \in DOMAIN ds : /\ ds[i].reserve = ob.deposits[i].reserve
                                     /\ ds[i].amount = ob.deposits[i].amount
<1> DEFINE ds == DepositsOf(ob, res)
           os == ob.deposits
<1>1. os \in Seq(Entry)
  BY ObligationFields
<1>2. ASSUME NEW i \in DOMAIN os
      PROVE  /\ ds[i] \in Entry
             /\ ds[i].reserve = os[i].reserve /\ ds[i].amount = os[i].amount
  <2> DEFINE d == os[i]
             x == res[d.reserve]
             v == MarketValue(x, CollateralToLiquidity(x, FromU64(d.amount)))
  <2>1. d \in Entry
    BY <1>1
  <2>2. d.amount \in Nat
    BY <2>1, EntryFields
  <2>3. SoundRecord(x) /\ TotalSupply(x) >= 0 /\ ExchangeRate(x) > 0
    BY DEF Refreshable
  <2>4. x \in ReserveRecord
    BY <2>3 DEF SoundRecord
  <2>5. ds[i] = [d EXCEPT !.value = v]
    BY DEF DepositsOf
  <2> HIDE DEF d, x
  <2>6. FromU64(d.amount) \in Nat
    BY <2>2, DecimalNat
  <2>7. CollateralToLiquidity(x, FromU64(d.amount)) \in Nat
    BY <2>3, <2>4, <2>6, ExchangeNat
  <2>8. v \in Nat
    BY <2>3, <2>7, MarketValueNat
  <2> HIDE DEF v, ds
  <2>9. ds[i] \in Entry /\ ds[i].reserve = d.reserve /\ ds[i].amount = d.amount
    BY <2>1, <2>5, <2>8 DEF Entry
  <2> QED
    BY <2>9 DEF d
<1>3. ds = [i \in DOMAIN os |-> ds[i]]
  BY DEF DepositsOf
<1> HIDE DEF ds
<1>4. ds \in Seq(Entry) /\ DOMAIN ds = DOMAIN os
  BY <1>1, <1>2, <1>3, ListOf
<1> QED
  BY <1>2, <1>4 DEF ds

(* A refresh accrues interest on the loans and revalues them.              *)
LEMMA BorrowsRefreshed ==
  ASSUME NEW ob \in ObligationRecord, NEW res, Refreshable(ob, res)
  PROVE  LET bs == BorrowsOf(ob, res)
         IN  /\ bs \in Seq(Loan) /\ DOMAIN bs = DOMAIN ob.borrows
             /\ \A i \in DOMAIN bs : bs[i].reserve = ob.borrows[i].reserve
<1> DEFINE bs == BorrowsOf(ob, res)
           os == ob.borrows
<1>1. os \in Seq(Loan)
  BY ObligationFields
<1>2. ASSUME NEW i \in DOMAIN os
      PROVE  bs[i] \in Loan /\ bs[i].reserve = os[i].reserve
  <2> DEFINE b == os[i]
             x == res[b.reserve]
             a == Accrued(b, x.cumRate)
             v == MarketValue(x, a.amount)
  <2>1. b \in Loan
    BY <1>1
  <2>2. SoundRecord(x) /\ x.cumRate >= b.cumRate
    BY DEF Refreshable
  <2>3. x.cumRate \in Nat
    BY <2>2, ReserveFields DEF SoundRecord
  <2>4. bs[i] = [a EXCEPT !.value = v]
    BY DEF BorrowsOf
  <2> HIDE DEF b, x
  <2>5. a \in Loan /\ a.reserve = b.reserve
    BY <2>1, <2>2, <2>3, AccruedLoan
  <2> HIDE DEF a
  <2>6. a.amount \in Nat
    BY <2>5, LoanFields
  <2>7. v \in Nat
    BY <2>2, <2>6, MarketValueNat
  <2> HIDE DEF v, bs
  <2>8. bs[i] \in Loan /\ bs[i].reserve = a.reserve
    BY <2>4, <2>5, <2>7 DEF Loan
  <2> QED
    BY <2>5, <2>8 DEF b
<1>3. bs = [i \in DOMAIN os |-> bs[i]]
  BY DEF BorrowsOf
<1> HIDE DEF bs
<1>4. bs \in Seq(Loan) /\ DOMAIN bs = DOMAIN os
  BY <1>1, <1>2, <1>3, ListOf
<1> QED
  BY <1>2, <1>4 DEF bs

(* A refreshed obligation is sound and holds what it held                  *)
(* (RefreshObligation).                                                    *)
LEMMA RefreshedSound ==
  ASSUME NEW ob \in ObligationRecord, NEW res, Refreshable(ob, res), NEW s \in Nat, NEW q
  PROVE  LET new == [Refreshed(ob, res) EXCEPT !.last = Fresh(s)]
         IN  new \in ObligationRecord /\ Held(new.deposits, q) = Held(ob.deposits, q)
<1> DEFINE ds == DepositsOf(ob, res)
           bs == BorrowsOf(ob, res)
           amt(d) == CollateralToLiquidity(res[d.reserve], FromU64(d.amount))
           cfg(d) == res[d.reserve].config
           weigh(b, v) == TryMul(v, BorrowWeight(res[b.reserve]))
           f1 == [i \in DOMAIN ds |-> ds[i].value]
           f2 == [i \in DOMAIN ds |-> TryMul(MarketValueLowerBound(res[ds[i].reserve], amt(ds[i])),
                                             FromPercent(cfg(ds[i]).ltv))]
           f3 == [i \in DOMAIN ds |-> TryMul(ds[i].value, FromPercent(cfg(ds[i]).threshold))]
           f4 == [i \in DOMAIN ds |-> TryMul(ds[i].value, FromPercent(cfg(ds[i]).maxThreshold))]
           f5 == [i \in DOMAIN bs |-> weigh(bs[i], bs[i].value)]
           f6 == [i \in DOMAIN bs |->
                    weigh(bs[i], MarketValueUpperBound(res[bs[i].reserve], bs[i].amount))]
           v1 == SumFunctionOnSet(f1, DOMAIN ds)
           v2 == SumFunctionOnSet(f2, DOMAIN ds)
           v3 == SumFunctionOnSet(f3, DOMAIN ds)
           v4 == SumFunctionOnSet(f4, DOMAIN ds)
           v5 == SumFunctionOnSet(f5, DOMAIN bs)
           v6 == SumFunctionOnSet(f6, DOMAIN bs)
<1>1. Refreshed(ob, res) =
        [ob EXCEPT !.deposits = ds, !.borrows = bs, !.depositedValue = v1, !.allowed = v2,
                   !.unhealthy = v3, !.superUnhealthy = v4, !.borrowedValue = v5,
                   !.upperBound = v6]
  BY Zenon DEF Refreshed, Total, DepositsOf, BorrowsOf
<1>2. /\ ds \in Seq(Entry) /\ DOMAIN ds = DOMAIN ob.deposits
      /\ \A i \in DOMAIN ds : /\ ds[i].reserve = ob.deposits[i].reserve
                              /\ ds[i].amount = ob.deposits[i].amount
  BY DepositsRefreshed
<1>3. /\ bs \in Seq(Loan) /\ DOMAIN bs = DOMAIN ob.borrows
      /\ \A i \in DOMAIN bs : bs[i].reserve = ob.borrows[i].reserve
  BY BorrowsRefreshed
<1> HIDE DEF ds, bs
<1>4. ASSUME NEW i \in DOMAIN ds
      PROVE  f1[i] \in Nat /\ f2[i] \in Nat /\ f3[i] \in Nat /\ f4[i] \in Nat
  <2> DEFINE d == ds[i]
             x == res[d.reserve]
             c == x.config
             l == MarketValueLowerBound(x, amt(d))
  <2>1. d \in Entry /\ d.reserve = ob.deposits[i].reserve
    BY <1>2
  <2>2. d.amount \in Nat /\ d.value \in Nat
    BY <2>1, EntryFields
  <2>3. SoundRecord(x) /\ TotalSupply(x) >= 0 /\ ExchangeRate(x) > 0
    BY <1>2, <2>1 DEF Refreshable
  <2>4. x \in ReserveRecord /\ c \in ReserveConfig
    BY <2>3, ReserveFields DEF SoundRecord
  <2>5. c.ltv \in Nat /\ c.threshold \in Nat /\ c.maxThreshold \in Nat
    BY <2>4 DEF ReserveConfig
  <2>6. /\ f1[i] = d.value
        /\ f2[i] = TryMul(l, FromPercent(c.ltv))
        /\ f3[i] = TryMul(d.value, FromPercent(c.threshold))
        /\ f4[i] = TryMul(d.value, FromPercent(c.maxThreshold))
    OBVIOUS
  <2>7. l \in Nat
    <3> HIDE DEF x, d
    <3>1. FromU64(d.amount) \in Nat
      BY <2>2, DecimalNat
    <3>2. CollateralToLiquidity(x, FromU64(d.amount)) \in Nat
      BY <2>3, <2>4, <3>1, ExchangeNat
    <3> QED
      BY <2>3, <3>2, MarketValueNat DEF x
  <2> HIDE DEF d, l, c, f1, f2, f3, f4
  <2>8. FromPercent(c.ltv) \in Nat /\ FromPercent(c.threshold) \in Nat
        /\ FromPercent(c.maxThreshold) \in Nat
    BY <2>5, DecimalNat
  <2>9. /\ TryMul(l, FromPercent(c.ltv)) \in Nat
        /\ TryMul(d.value, FromPercent(c.threshold)) \in Nat
        /\ TryMul(d.value, FromPercent(c.maxThreshold)) \in Nat
    BY <2>2, <2>7, <2>8, DecimalNat
  <2> QED
    BY <2>2, <2>6, <2>9
<1>5. ASSUME NEW i \in DOMAIN bs
      PROVE  f5[i] \in Nat /\ f6[i] \in Nat
  <2> DEFINE b == bs[i]
             x == res[b.reserve]
             w == BorrowWeight(x)
             u == MarketValueUpperBound(x, b.amount)
  <2>1. b \in Loan /\ b.reserve = ob.borrows[i].reserve
    BY <1>3
  <2>2. b.amount \in Nat /\ b.value \in Nat
    BY <2>1, LoanFields
  <2>3. SoundRecord(x)
    BY <1>3, <2>1 DEF Refreshable
  <2>4. x \in ReserveRecord
    BY <2>3 DEF SoundRecord
  <2>5. f5[i] = TryMul(b.value, w) /\ f6[i] = TryMul(u, w)
    OBVIOUS
  <2>6. w \in Nat /\ u \in Nat
    BY <2>2, <2>3, <2>4, WeightNat, MarketValueNat
  <2> HIDE DEF b, w, u, f5, f6
  <2>7. TryMul(b.value, w) \in Nat /\ TryMul(u, w) \in Nat
    BY <2>2, <2>6, DecimalNat
  <2> QED
    BY <2>5, <2>7
<1> HIDE DEF f1, f2, f3, f4, f5, f6
<1>6. v1 \in Nat /\ v2 \in Nat /\ v3 \in Nat /\ v4 \in Nat
  BY <1>2, <1>4, TotalNat
<1>7. v5 \in Nat /\ v6 \in Nat
  BY <1>3, <1>5, TotalNat
<1> HIDE DEF v1, v2, v3, v4, v5, v6
<1> DEFINE y == [ob EXCEPT !.deposits = ds, !.borrows = bs, !.depositedValue = v1,
                   !.allowed = v2, !.unhealthy = v3, !.superUnhealthy = v4,
                   !.borrowedValue = v5, !.upperBound = v6]
           new == [y EXCEPT !.last = Fresh(s)]
<1>8. y \in ObligationRecord /\ y.deposits = ds
  <2>1. y \in ObligationRecord
    BY <1>2, <1>3, <1>6, <1>7 DEF ObligationRecord
  <2>2. y.deposits = ds
    BY DEF ObligationRecord
  <2> QED
    BY <2>1, <2>2
<1> HIDE DEF y
<1>9. new \in ObligationRecord /\ new.deposits = ds
  <2>1. Fresh(s) \in [slot : Nat, stale : BOOLEAN]
    BY DEF Fresh
  <2>2. new \in ObligationRecord
    BY <1>8, <2>1 DEF ObligationRecord
  <2>3. new.deposits = y.deposits
    BY <1>8 DEF ObligationRecord
  <2> QED
    BY <1>8, <2>2, <2>3
<1>10. Held(ds, q) = Held(ob.deposits, q)
  <2>1. ds \in Seq(Slot) /\ ob.deposits \in Seq(Slot)
    BY <1>2, ObligationFields, EntriesAreSlots
  <2> QED
    BY <1>2, <2>1, HeldSame
<1>11. new = [Refreshed(ob, res) EXCEPT !.last = Fresh(s)]
  BY <1>1 DEF y
<1> HIDE DEF new
<1> QED
  BY <1>9, <1>10, <1>11

-----------------------------------------------------------------------------
(* 8. The outflow limiter.                                                 *)

(* Rounding a slot down to its window (RateLimiter::_update): the window   *)
(* starts at or before the slot and ends after it.                         *)
LEMMA WindowHoldsSlot ==
  ASSUME NEW s \in Nat, WindowDuration \in Nat \ {0}
  PROVE  /\ WindowStart(s) \in Nat
         /\ WindowStart(s) <= s
         /\ s < WindowStart(s) + WindowDuration
<1> DEFINE q == s \div WindowDuration
<1>1. /\ q \in Nat
      /\ s = WindowDuration * q + (s % WindowDuration)
      /\ s % WindowDuration \in 0 .. WindowDuration - 1
  OBVIOUS
<1>2. WindowStart(s) = WindowDuration * q
  BY <1>1, SMT DEF WindowStart
<1>3. WindowDuration * q \in Nat
  BY <1>1
<1> HIDE DEF q
<1> QED
  BY <1>1, <1>2, <1>3

(* A window starts at a multiple of the window length.                     *)
LEMMA OnGrid ==
  ASSUME NEW s \in Nat, WindowDuration \in Nat \ {0}
  PROVE  \E k \in Nat : WindowStart(s) = k * WindowDuration
<1>1. s \div WindowDuration \in Nat
  BY DivNat
<1> QED
  BY <1>1 DEF WindowStart

(* The limit as a Decimal is a natural number.                             *)
LEMMA LimitNat == FromU64(MaxOutflow) \in Nat
  BY WindowAssumption, WadAssumption, MulNat DEF FromU64

(* Multiples of a window length that are less than one window apart        *)
(* (RateLimiter::_update compares two of them).                            *)
LEMMA SameWindow ==
  ASSUME NEW j \in Nat, NEW k \in Nat, NEW w \in Nat \ {0}, j * w < k * w + w
  PROVE  j * w <= k * w
<1>1. j <= k
  <2> SUFFICES ASSUME j >= k + 1 PROVE FALSE
    OBVIOUS
  <2>1. PICK d \in Nat : j = k + 1 + d
    <3>1. j - (k + 1) \in Nat
      OBVIOUS
    <3> QED
      BY <3>1
  <2>2. j * w = k * w + w + d * w /\ d * w \in Nat /\ k * w \in Nat
    BY <2>1
  <2> QED
    BY <2>2
<1>2. PICK d \in Nat : k = j + d
  <2>1. k - j \in Nat
    BY <1>1
  <2> QED
    BY <2>1
<1>3. k * w = j * w + d * w /\ d * w \in Nat /\ j * w \in Nat
  BY <1>2
<1> QED
  BY <1>3

(* The stored limiter of an enabled limiter: its window is one of the      *)
(* grid's and not of the future, and neither window holds more than the    *)
(* limit.  The grid is what the limit needs: it makes the part of the      *)
(* previous window still counted non-negative.                             *)
Windowed(l, s) ==
  /\ l \in [prevQty : Nat, windowStart : Nat, curQty : Nat]
  /\ l.windowStart <= s
  /\ \E k \in Nat : l.windowStart = k * WindowDuration
  /\ l.prevQty <= FromU64(MaxOutflow)
  /\ l.curQty <= FromU64(MaxOutflow)

LimiterInv == LimiterTypeOK /\ (WindowDuration # 0 => Windowed(limiter, slot))

(* RateLimiter::_update keeps the shape, and rolls the window to the one   *)
(* the slot is in.                                                         *)
LEMMA RolledWindowed ==
  ASSUME NEW s \in Nat, NEW l, WindowDuration # 0, Windowed(l, s)
  PROVE  /\ Windowed(Rolled(l, s), s)
         /\ s < Rolled(l, s).windowStart + WindowDuration
<1> DEFINE start == WindowStart(s)
           next  == l.windowStart + WindowDuration
<1>1. WindowDuration \in Nat \ {0}
  BY WindowAssumption
<1>2. start \in Nat /\ start <= s /\ s < start + WindowDuration
  BY <1>1, WindowHoldsSlot
<1>3. PICK j \in Nat : start = j * WindowDuration
  BY <1>1, OnGrid
<1>4. PICK k \in Nat : l.windowStart = k * WindowDuration
  BY DEF Windowed
<1>5. FromU64(MaxOutflow) \in Nat
  BY LimitNat
<1>6. l.prevQty \in Nat /\ l.curQty \in Nat /\ l.windowStart \in Nat
  BY DEF Windowed
<1>7. CASE start < next
  <2>1. Rolled(l, s) = l
    BY <1>7 DEF Rolled
  <2>2. start <= l.windowStart
    BY <1>1, <1>3, <1>4, <1>7, SameWindow
  <2>3. s < l.windowStart + WindowDuration
    BY <1>1, <1>2, <1>6, <2>2
  <2> QED
    BY <2>1, <2>3
<1>8. CASE ~(start < next)
  <2> DEFINE r == [prevQty |-> IF start = next THEN l.curQty ELSE 0,
                   windowStart |-> start, curQty |-> 0]
  <2>1. Rolled(l, s) = r
    BY <1>8 DEF Rolled
  <2>2. /\ r.prevQty \in Nat /\ r.prevQty <= FromU64(MaxOutflow)
        /\ 0 <= FromU64(MaxOutflow)
    BY <1>5, <1>6 DEF Windowed
  <2>3. Windowed(r, s)
    BY <1>2, <1>3, <1>5, <2>2 DEF Windowed
  <2> QED
    BY <1>2, <2>1, <2>3
<1> QED
  BY <1>7, <1>8

(* What RateLimiter::current_outflow answers covers at least the current   *)
(* window.                                                                 *)
LEMMA OutflowCoversCurrent ==
  ASSUME NEW s \in Nat, NEW l, WindowDuration # 0, Windowed(l, s),
         s < l.windowStart + WindowDuration
  PROVE  CurrentOutflow(l, s) \in Nat /\ l.curQty <= CurrentOutflow(l, s)
<1> DEFINE gap  == WindowDuration - (s - l.windowStart + 1)
           left == FromU64(WindowDuration) - FromU64(s - l.windowStart + 1)
           part == TryMul(TryDivInt(left, WindowDuration), l.prevQty)
<1>1. /\ WindowDuration \in Nat \ {0} /\ Wad \in Nat \ {0}
      /\ l.prevQty \in Nat /\ l.curQty \in Nat /\ l.windowStart \in Nat
      /\ l.windowStart <= s
  BY WindowAssumption, WadAssumption DEF Windowed
<1>2. gap \in Nat
  BY <1>1
<1>3. left = gap * Wad
  BY <1>1 DEF FromU64
<1>4. left \in Nat
  BY <1>1, <1>2, <1>3, MulNat
<1> HIDE DEF left, gap
<1>5. TryDivInt(left, WindowDuration) \in Nat
  BY <1>1, <1>4, DivNat DEF TryDivInt
<1>6. part \in Nat
  <2>1. TryDivInt(left, WindowDuration) * l.prevQty \in Nat
    BY <1>1, <1>5, MulNat
  <2> QED
    BY <1>1, <2>1, DivNat DEF TryMul
<1>7. CurrentOutflow(l, s) = part + l.curQty
  BY DEF CurrentOutflow, left
<1> HIDE DEF part
<1> QED
  BY <1>1, <1>6, <1>7

(* An admitted outflow leaves both windows within the limit.               *)
LEMMA UpdatePreserves ==
  ASSUME LimiterInv, NEW qty \in Nat, Update(qty)
  PROVE  LimiterInv'
<1>1. slot \in Nat /\ slot \in 0 .. MaxSlot
  BY MaxSlotAssumption DEF LimiterInv, LimiterTypeOK
<1>2. outflow' \in [0 .. MaxSlot -> Nat]
  <2>1. outflow[slot] + qty \in Nat
    BY <1>1 DEF LimiterInv, LimiterTypeOK
  <2> QED
    BY <1>1, <2>1 DEF LimiterInv, LimiterTypeOK, Update
<1>3. CASE WindowDuration = 0
  BY <1>1, <1>2, <1>3 DEF LimiterInv, LimiterTypeOK, Update, Updated
<1>4. CASE WindowDuration # 0
  <2> DEFINE r == Rolled(limiter, slot)
  <2>1. Windowed(r, slot) /\ slot < r.windowStart + WindowDuration
    BY <1>1, <1>4, RolledWindowed DEF LimiterInv
  <2>2. CurrentOutflow(r, slot) \in Nat /\ r.curQty <= CurrentOutflow(r, slot)
    BY <1>1, <1>4, <2>1, OutflowCoversCurrent
  <2>3. CurrentOutflow(r, slot) + qty <= FromU64(MaxOutflow)
    BY <1>4 DEF Update, Admits
  <2>4. limiter' = [r EXCEPT !.curQty = @ + qty]
    BY <1>4 DEF Update, Updated
  <2> HIDE DEF r
  <2>5. /\ r \in [prevQty : Nat, windowStart : Nat, curQty : Nat]
        /\ r.curQty \in Nat
    BY <2>1 DEF Windowed
  <2>6. /\ r.curQty + qty \in Nat
        /\ r.curQty + qty <= FromU64(MaxOutflow)
    BY <2>2, <2>3, <2>5, LimitNat
  <2>7. /\ limiter' \in [prevQty : Nat, windowStart : Nat, curQty : Nat]
        /\ limiter'.curQty = r.curQty + qty
        /\ limiter'.prevQty = r.prevQty
        /\ limiter'.windowStart = r.windowStart
    BY <2>4, <2>5, <2>6
  <2>8. Windowed(limiter', slot)
    BY <2>1, <2>6, <2>7 DEF Windowed
  <2> QED
    BY <1>1, <1>2, <2>7, <2>8 DEF LimiterInv, LimiterTypeOK, Update, Windowed, FromU64
<1> QED
  BY <1>3, <1>4

(* Time passing changes no window.                                         *)
LEMMA TickPreserves ==
  ASSUME LimiterInv, Tick
  PROVE  LimiterInv'
<1>1. slot \in Nat /\ slot' = slot + 1 /\ slot' \in 0 .. MaxSlot
  BY MaxSlotAssumption DEF LimiterInv, LimiterTypeOK, Tick
<1>2. WindowDuration # 0 => Windowed(limiter, slot')
  BY <1>1 DEF LimiterInv, LimiterTypeOK, Windowed
<1> QED
  BY <1>1, <1>2 DEF LimiterInv, LimiterTypeOK, Tick, Windowed, FromU64

(* A new limiter has empty windows.                                        *)
LEMMA InitEstablishes ==
  ASSUME LimiterInit
  PROVE  LimiterInv
<1>1. /\ slot = FirstSlot /\ limiter = New(FirstSlot)
      /\ slot \in 0 .. MaxSlot /\ slot \in Nat
  BY MaxSlotAssumption DEF LimiterInit
<1>2. CASE WindowDuration = 0
  BY <1>1, <1>2 DEF LimiterInit, LimiterInv, LimiterTypeOK, New
<1>3. CASE WindowDuration # 0
  <2> DEFINE start == WindowStart(slot)
  <2>1. /\ start \in Nat /\ start <= slot
        /\ WindowDuration \in Nat \ {0}
    BY <1>1, <1>3, WindowAssumption, WindowHoldsSlot
  <2>2. limiter = [prevQty |-> 0, windowStart |-> start, curQty |-> 0]
    BY <1>1, <1>3 DEF New
  <2>3. \E k \in Nat : start = k * WindowDuration
    BY <1>1, <2>1, OnGrid, Zenon
  <2>4. 0 <= FromU64(MaxOutflow)
    BY LimitNat
  <2> HIDE DEF start
  <2>5. Windowed(limiter, slot)
    BY <1>1, <2>1, <2>2, <2>3, <2>4 DEF Windowed
  <2> QED
    BY <1>1, <2>1, <2>2, <2>5 DEF LimiterInit, LimiterInv, LimiterTypeOK
<1> QED
  BY <1>2, <1>3

(* Every step keeps the limiter's invariant.                               *)
LEMMA LimiterInductive ==
  ASSUME LimiterInv, [LimiterNext]_limiterVars
  PROVE  LimiterInv'
<1>1. CASE UNCHANGED limiterVars
  BY <1>1 DEF LimiterInv, LimiterTypeOK, Windowed, limiterVars, FromU64
<1>2. CASE Tick
  BY <1>2, TickPreserves
<1>3. ASSUME NEW qty \in Nat, Update(qty) PROVE LimiterInv'
  BY <1>3, UpdatePreserves
<1> QED
  BY <1>1, <1>2, <1>3 DEF LimiterNext

(* The slots of the window that starts at slot a.                          *)
SlotsOf(a) == {t \in 0 .. MaxSlot : a <= t /\ t < a + WindowDuration}

(* What was admitted in a window against what the limiter remembers of it: *)
(* the quantities of the current window and of the one before it are       *)
(* exactly what their slots let out, and nothing has left in a window      *)
(* after them.  f is the outflow per slot.                                 *)
Remembers(l, f) ==
  /\ SumFunctionOnSet(f, SlotsOf(l.windowStart)) = l.curQty
  /\ SumFunctionOnSet(f, SlotsOf(l.windowStart - WindowDuration)) = l.prevQty
  /\ \A t \in 0 .. MaxSlot : t >= l.windowStart + WindowDuration => f[t] = 0

(* No window of the grid has let out more than the limit.                  *)
EveryWindowBounded(f) ==
  \A k \in Nat :
    SumFunctionOnSet(f, SlotsOf(k * WindowDuration)) <= FromU64(MaxOutflow)

OutflowInv ==
  /\ LimiterInv
  /\ WindowDuration # 0 => Remembers(limiter, outflow) /\ EveryWindowBounded(outflow)

(* A window has finitely many slots.                                       *)
LEMMA SlotsFinite ==
  ASSUME NEW a
  PROVE  IsFiniteSet(SlotsOf(a)) /\ SlotsOf(a) \in SUBSET (0 .. MaxSlot)
<1>1. IsFiniteSet(0 .. MaxSlot)
  BY MaxSlotAssumption, FS_Interval
<1>2. SlotsOf(a) \in SUBSET (0 .. MaxSlot)
  BY DEF SlotsOf
<1> QED
  BY <1>1, <1>2, FS_Subset

(* A window that let nothing out sums to nothing.                          *)
LEMMA QuietWindow ==
  ASSUME NEW a, NEW f \in [0 .. MaxSlot -> Nat], \A t \in SlotsOf(a) : f[t] = 0
  PROVE  SumFunctionOnSet(f, SlotsOf(a)) = 0
<1>1. IsFiniteSet(SlotsOf(a)) /\ \A t \in SlotsOf(a) : f[t] \in Nat
  BY SlotsFinite
<1> QED
  BY <1>1, SumNat

(* Two windows of the grid that share a slot are the same one.             *)
LEMMA OneWindowPerSlot ==
  ASSUME NEW j \in Nat, NEW k \in Nat, WindowDuration # 0, NEW t,
         t \in SlotsOf(j * WindowDuration), t \in SlotsOf(k * WindowDuration)
  PROVE  j * WindowDuration = k * WindowDuration
<1> DEFINE a == j * WindowDuration
           b == k * WindowDuration
<1>1. WindowDuration \in Nat \ {0} /\ a \in Nat /\ b \in Nat /\ t \in Nat
  BY WindowAssumption, MaxSlotAssumption, MulNat DEF SlotsOf
<1>2. a <= t /\ t < a + WindowDuration /\ b <= t /\ t < b + WindowDuration
  BY DEF SlotsOf
<1>3. a < b + WindowDuration /\ b < a + WindowDuration
  <2> HIDE DEF a, b
  <2> QED
    BY <1>1, <1>2
<1>4. a <= b /\ b <= a
  BY <1>1, <1>3, SameWindow
<1> HIDE DEF a, b
<1>5. a = b
  BY <1>1, <1>4
<1> QED
  BY <1>5 DEF a, b

(* Rolling (RateLimiter::_update) forgets nothing of the window the slot   *)
(* is in: either it stays, or it is a later one, which let nothing out.    *)
LEMMA RolledRemembers ==
  ASSUME NEW s \in Nat, NEW l, NEW f \in [0 .. MaxSlot -> Nat],
         WindowDuration # 0, Windowed(l, s), Remembers(l, f)
  PROVE  Remembers(Rolled(l, s), f)
<1> DEFINE start == WindowStart(s)
           next  == l.windowStart + WindowDuration
<1>1. WindowDuration \in Nat \ {0} /\ l.windowStart \in Nat
  BY WindowAssumption DEF Windowed
<1>2. start \in Nat
  BY <1>1, WindowHoldsSlot
<1>3. CASE start < next
  BY <1>3 DEF Rolled
<1>4. CASE ~(start < next)
  <2> DEFINE r == Rolled(l, s)
  <2>1. /\ r.windowStart = start /\ r.curQty = 0
        /\ r.prevQty = IF start = next THEN l.curQty ELSE 0
    BY <1>4 DEF Rolled
  <2>2. start # next => start - WindowDuration >= next
    <3>1. PICK j \in Nat : start = j * WindowDuration
      BY <1>1, OnGrid
    <3>2. PICK k \in Nat : l.windowStart = k * WindowDuration
      BY DEF Windowed
    <3>3. k + 1 \in Nat /\ (k + 1) * WindowDuration = next
      BY <1>1, <3>2
    <3> HIDE DEF start, next
    <3>4. start < next + WindowDuration => start <= next
      BY <1>1, <3>1, <3>3, SameWindow
    <3>5. next \in Nat
      BY <1>1 DEF next
    <3> QED
      BY <1>1, <1>2, <1>4, <3>4, <3>5
  <2> HIDE DEF start, r
  <2>3. \A t \in 0 .. MaxSlot : t >= start => f[t] = 0
    BY <1>1, <1>2, <1>4, MaxSlotAssumption DEF Remembers
  <2>4. SumFunctionOnSet(f, SlotsOf(start)) = 0
    <3>1. \A t \in SlotsOf(start) : f[t] = 0
      BY <2>3 DEF SlotsOf
    <3> QED
      BY <3>1, QuietWindow
  <2>5. \A t \in 0 .. MaxSlot : t >= start + WindowDuration => f[t] = 0
    BY <1>1, <1>2, <2>3, MaxSlotAssumption
  <2>6. SumFunctionOnSet(f, SlotsOf(start - WindowDuration)) = r.prevQty
    <3>1. CASE start = next
      <4>1. start - WindowDuration = l.windowStart
        BY <1>1, <3>1
      <4> QED
        BY <2>1, <3>1, <4>1 DEF Remembers
    <3>2. CASE start # next
      <4>1. \A t \in SlotsOf(start - WindowDuration) : f[t] = 0
        BY <1>1, <1>2, <2>2, <3>2, MaxSlotAssumption DEF Remembers, SlotsOf
      <4> QED
        BY <2>1, <3>2, <4>1, QuietWindow
    <3> QED
      BY <3>1, <3>2
  <2>7. Remembers(r, f)
    BY <2>1, <2>4, <2>5, <2>6 DEF Remembers
  <2> QED
    BY <2>7 DEF r
<1> QED
  BY <1>3, <1>4

(* Letting qty out in a slot of a window adds qty to that window.          *)
LEMMA WindowGrows ==
  ASSUME NEW a, NEW f \in [0 .. MaxSlot -> Nat], NEW s \in SlotsOf(a), NEW qty \in Nat
  PROVE  SumFunctionOnSet([f EXCEPT ![s] = @ + qty], SlotsOf(a))
           = SumFunctionOnSet(f, SlotsOf(a)) + qty
<1> DEFINE g == [f EXCEPT ![s] = @ + qty]
           W == SlotsOf(a)
           R == W \ {s}
<1>1. IsFiniteSet(W) /\ W \in SUBSET (0 .. MaxSlot)
  BY SlotsFinite
<1>2. s \in 0 .. MaxSlot /\ f[s] \in Nat
  BY <1>1
<1>3. /\ g \in [0 .. MaxSlot -> Nat]
      /\ g[s] = f[s] + qty
      /\ \A t \in R : g[t] = f[t]
  BY <1>1, <1>2
<1>4. IsFiniteSet(R)
  BY <1>1, FS_Subset
<1>5. /\ \A t \in W : f[t] \in Int
      /\ \A t \in W : g[t] \in Int
      /\ \A t \in R : f[t] \in Int
  BY <1>1, <1>3
<1>6. s \in W
  OBVIOUS
<1> HIDE DEF g, R, W
<1>7. SumFunctionOnSet(g, R) = SumFunctionOnSet(f, R)
  BY <1>3, <1>4, SumSame
<1>8. ASSUME NEW h, \A t \in W : h[t] \in Int
      PROVE  SumFunctionOnSet(h, W) = h[s] + SumFunctionOnSet(h, R)
  <2>1. IsFiniteSet(W)
    BY <1>1
  <2>2. SumFunctionOnSet(h, W) = h[s] + SumFunctionOnSet(h, W \ {s})
    BY <1>6, <1>8, <2>1, SumAnyFirst
  <2> QED
    BY <2>2 DEF R
<1>9. /\ SumFunctionOnSet(g, W) = g[s] + SumFunctionOnSet(g, R)
      /\ SumFunctionOnSet(f, W) = f[s] + SumFunctionOnSet(f, R)
  BY <1>5, <1>8
<1>10. SumFunctionOnSet(f, R) \in Int
  BY <1>4, <1>5, SumInt
<1>11. SumFunctionOnSet(g, W) = SumFunctionOnSet(f, W) + qty
  BY <1>2, <1>3, <1>7, <1>9, <1>10
<1> QED
  BY <1>11 DEF g, W

(* An admitted outflow stays within the limit of the window it falls in    *)
(* and touches no other (RateLimiter::update).                             *)
LEMMA UpdateBounded ==
  ASSUME OutflowInv, NEW qty \in Nat, Update(qty), WindowDuration # 0
  PROVE  Remembers(limiter', outflow') /\ EveryWindowBounded(outflow')
<1> DEFINE r == Rolled(limiter, slot)
           g == [outflow EXCEPT ![slot] = @ + qty]
<1>1. /\ slot \in Nat /\ slot \in 0 .. MaxSlot
      /\ outflow \in [0 .. MaxSlot -> Nat]
      /\ Windowed(limiter, slot)
  BY MaxSlotAssumption DEF OutflowInv, LimiterInv, LimiterTypeOK
<1>2. Windowed(r, slot) /\ slot < r.windowStart + WindowDuration
  BY <1>1, RolledWindowed
<1>3. Remembers(r, outflow)
  BY <1>1, RolledRemembers DEF OutflowInv
<1>4. CurrentOutflow(r, slot) \in Nat /\ r.curQty <= CurrentOutflow(r, slot)
  BY <1>1, <1>2, OutflowCoversCurrent
<1>5. CurrentOutflow(r, slot) + qty <= FromU64(MaxOutflow)
  BY DEF Update, Admits
<1>6. limiter' = [r EXCEPT !.curQty = @ + qty] /\ outflow' = g
  BY DEF Update, Updated
<1> HIDE DEF r
<1>7. /\ r \in [prevQty : Nat, windowStart : Nat, curQty : Nat]
      /\ r.curQty \in Nat /\ r.windowStart \in Nat /\ r.windowStart <= slot
  BY <1>2 DEF Windowed
<1>8. /\ limiter'.curQty = r.curQty + qty /\ limiter'.windowStart = r.windowStart
      /\ limiter'.prevQty = r.prevQty
  BY <1>6, <1>7
<1>9. slot \in SlotsOf(r.windowStart)
  BY <1>1, <1>2, <1>7 DEF SlotsOf
<1>10. SumFunctionOnSet(g, SlotsOf(r.windowStart)) = r.curQty + qty
  <2>1. SumFunctionOnSet(g, SlotsOf(r.windowStart))
          = SumFunctionOnSet(outflow, SlotsOf(r.windowStart)) + qty
    BY <1>1, <1>9, WindowGrows, Zenon
  <2> HIDE DEF g
  <2> QED
    BY <1>3, <2>1 DEF Remembers
<1>11. r.curQty + qty <= FromU64(MaxOutflow)
  BY <1>4, <1>5, <1>7, LimitNat
<1>12. \A t \in 0 .. MaxSlot : t # slot => g[t] = outflow[t]
  BY <1>1
<1> HIDE DEF g
<1>13. Remembers(limiter', g)
  <2>1. ASSUME NEW t \in 0 .. MaxSlot, t >= r.windowStart + WindowDuration
        PROVE  g[t] = 0
    <3>1. t # slot
      BY <1>1, <1>2, <1>7, <2>1, WindowAssumption, MaxSlotAssumption
    <3> QED
      BY <1>3, <1>12, <2>1, <3>1 DEF Remembers
  <2> DEFINE P == SlotsOf(r.windowStart - WindowDuration)
  <2>2. SumFunctionOnSet(g, P) = r.prevQty
    <3>1. IsFiniteSet(P) /\ P \in SUBSET (0 .. MaxSlot)
      BY SlotsFinite
    <3>2. slot \notin P
      BY <1>1, <1>7, WindowAssumption DEF SlotsOf
    <3>3. \A t \in P : g[t] = outflow[t]
      BY <1>12, <3>1, <3>2
    <3>4. SumFunctionOnSet(outflow, P) = r.prevQty
      BY <1>3 DEF Remembers
    <3> HIDE DEF P
    <3> QED
      BY <3>1, <3>3, <3>4, SumSame
  <2> QED
    BY <1>8, <1>10, <2>1, <2>2 DEF Remembers
<1>14. ASSUME NEW k \in Nat
       PROVE  SumFunctionOnSet(g, SlotsOf(k * WindowDuration)) <= FromU64(MaxOutflow)
  <2> DEFINE W == SlotsOf(k * WindowDuration)
  <2>1. CASE slot \in W
    <3>1. PICK j \in Nat : r.windowStart = j * WindowDuration
      BY <1>2 DEF Windowed
    <3>2. r.windowStart = k * WindowDuration
      BY <1>9, <2>1, <3>1, OneWindowPerSlot
    <3> QED
      BY <1>10, <1>11, <3>2
  <2>2. CASE slot \notin W
    <3>1. IsFiniteSet(W) /\ W \in SUBSET (0 .. MaxSlot)
      BY SlotsFinite
    <3>2. \A t \in W : g[t] = outflow[t]
      BY <1>12, <2>2, <3>1
    <3>3. SumFunctionOnSet(outflow, W) <= FromU64(MaxOutflow)
      BY DEF OutflowInv, EveryWindowBounded
    <3> HIDE DEF W
    <3>4. SumFunctionOnSet(g, W) = SumFunctionOnSet(outflow, W)
      BY <3>1, <3>2, SumSame
    <3> QED
      BY <3>3, <3>4 DEF W
  <2> QED
    BY <2>1, <2>2
<1> QED
  BY <1>6, <1>13, <1>14 DEF EveryWindowBounded

(* A new limiter remembers nothing, and nothing has left.                  *)
LEMMA OutflowInit ==
  ASSUME LimiterInit
  PROVE  OutflowInv
<1>1. LimiterInv
  BY InitEstablishes
<1>2. /\ outflow \in [0 .. MaxSlot -> Nat]
      /\ \A t \in 0 .. MaxSlot : outflow[t] = 0
  BY DEF LimiterInit
<1>3. ASSUME NEW a PROVE SumFunctionOnSet(outflow, SlotsOf(a)) = 0
  <2>1. \A t \in SlotsOf(a) : outflow[t] = 0
    BY <1>2, SlotsFinite
  <2> QED
    BY <1>2, <2>1, QuietWindow
<1>4. limiter.curQty = 0 /\ limiter.prevQty = 0
  BY DEF LimiterInit, New
<1>5. Remembers(limiter, outflow)
  BY <1>2, <1>3, <1>4 DEF Remembers
<1>6. EveryWindowBounded(outflow)
  BY <1>3, LimitNat DEF EveryWindowBounded
<1> QED
  BY <1>1, <1>5, <1>6 DEF OutflowInv

(* Every step keeps the sums.                                              *)
LEMMA OutflowInductive ==
  ASSUME OutflowInv, [LimiterNext]_limiterVars
  PROVE  OutflowInv'
<1>1. LimiterInv'
  BY LimiterInductive DEF OutflowInv
<1>2. CASE UNCHANGED <<limiter, outflow>>
  BY <1>1, <1>2
  DEF OutflowInv, Remembers, EveryWindowBounded, SlotsOf, FromU64
<1>3. ASSUME NEW qty \in Nat, Update(qty)
      PROVE  OutflowInv'
  <2>1. WindowDuration # 0 => Remembers(limiter', outflow') /\ EveryWindowBounded(outflow')
    BY <1>3, UpdateBounded
  <2> QED
    BY <1>1, <2>1 DEF OutflowInv, Remembers, EveryWindowBounded, SlotsOf, FromU64
<1> QED
  BY <1>2, <1>3 DEF LimiterNext, Tick, limiterVars

(* The limiter's quantities are the sums of what left in its window and in *)
(* the one before it, and no window lets out more than max_outflow, for    *)
(* every window length, limit and sequence of requests and slots           *)
(* (RateLimiter::update and _update).                                      *)
THEOREM OutflowRemembered == LimiterSpec => []LimiterRemembersOutflow
<1>1. ASSUME OutflowInv PROVE LimiterRemembersOutflow
  <2> SUFFICES ASSUME WindowDuration # 0
               PROVE  /\ limiter.curQty = WindowOutflow(limiter.windowStart)
                      /\ limiter.prevQty = WindowOutflow(limiter.windowStart - WindowDuration)
                      /\ \A s \in 0 .. MaxSlot :
                            WindowOutflow(WindowStart(s)) <= FromU64(MaxOutflow)
    BY DEF LimiterRemembersOutflow
  <2>1. Remembers(limiter, outflow) /\ EveryWindowBounded(outflow)
    BY <1>1 DEF OutflowInv
  <2>2. ASSUME NEW a PROVE WindowOutflow(a) = SumFunctionOnSet(outflow, SlotsOf(a))
    BY DEF WindowOutflow, SlotsOf
  <2>3. ASSUME NEW s \in 0 .. MaxSlot
        PROVE  WindowOutflow(WindowStart(s)) <= FromU64(MaxOutflow)
    <3>1. PICK k \in Nat : WindowStart(s) = k * WindowDuration
      BY WindowAssumption, MaxSlotAssumption, OnGrid
    <3> QED
      BY <2>1, <2>2, <3>1 DEF EveryWindowBounded
  <2> QED
    BY <2>1, <2>2, <2>3 DEF Remembers
<1> QED
  BY OutflowInit, OutflowInductive, <1>1, PTL DEF LimiterSpec

(* Two neighbouring windows of the grid cover the window_duration + 1      *)
(* slots that end at any slot.                                             *)
LEMMA SlidingWindowCovered ==
  ASSUME NEW s \in 0 .. MaxSlot, WindowDuration # 0
  PROVE  \E i, j \in Nat :
           \A t \in 0 .. s : t + WindowDuration >= s =>
             t \in SlotsOf(i * WindowDuration) \cup SlotsOf(j * WindowDuration)
<1>1. WindowDuration \in Nat \ {0} /\ s \in Nat /\ s <= MaxSlot
  BY WindowAssumption, MaxSlotAssumption
<1>2. /\ WindowStart(s) \in Nat /\ WindowStart(s) <= s
      /\ s < WindowStart(s) + WindowDuration
  BY <1>1, WindowHoldsSlot
<1>3. PICK j \in Nat : WindowStart(s) = j * WindowDuration
  BY <1>1, OnGrid
<1> DEFINE b == j * WindowDuration
<1>4. CASE j = 0
  <2>1. b = 0
    BY <1>1, <1>4
  <2>2. \A t \in 0 .. s : t \in SlotsOf(b)
    <3> HIDE DEF b
    <3> QED
      BY <1>1, <1>2, <1>3, <2>1, MaxSlotAssumption DEF SlotsOf, b
  <2> QED
    BY <2>2
<1>5. CASE j # 0
  <2> DEFINE i == j - 1
             a == i * WindowDuration
  <2>1. i \in Nat /\ b = a + WindowDuration /\ a \in Nat
    BY <1>1, <1>5
  <2>2. b <= s /\ s < b + WindowDuration
    BY <1>2, <1>3
  <2> HIDE DEF a, b, i
  <2>3. ASSUME NEW t \in 0 .. s, t + WindowDuration >= s
        PROVE  t \in SlotsOf(a) \cup SlotsOf(b)
    <3>1. t \in 0 .. MaxSlot /\ t \in Nat /\ t <= s
      BY <1>1, MaxSlotAssumption
    <3>2. a <= t /\ t < b + WindowDuration
      BY <1>1, <2>1, <2>2, <2>3, <3>1
    <3> QED
      BY <1>1, <2>1, <3>1, <3>2 DEF SlotsOf
  <2> QED
    BY <2>1, <2>3 DEF a, b
<1> QED
  BY <1>4, <1>5

(* The outflow admitted in the window_duration + 1 slots that end at any   *)
(* slot never exceeds twice max_outflow, for every window length, limit    *)
(* and sequence of requests and slots (RateLimiter::update): each of the   *)
(* two windows that cover them let out at most max_outflow.                *)
THEOREM OutflowBounded == LimiterSpec => []OutflowWithinTwiceLimit
<1>1. ASSUME OutflowInv PROVE OutflowWithinTwiceLimit
  <2> SUFFICES ASSUME WindowDuration # 0, NEW s \in 0 .. slot
               PROVE  SumFunctionOnSet(outflow, {t \in 0 .. s : t + WindowDuration >= s})
                        <= 2 * FromU64(MaxOutflow)
    BY DEF OutflowWithinTwiceLimit, SlidingOutflow
  <2>1. s \in 0 .. MaxSlot /\ outflow \in [0 .. MaxSlot -> Nat]
    BY <1>1, MaxSlotAssumption DEF OutflowInv, LimiterInv, LimiterTypeOK
  <2>2. PICK i \in Nat, j \in Nat :
          \A t \in 0 .. s : t + WindowDuration >= s =>
            t \in SlotsOf(i * WindowDuration) \cup SlotsOf(j * WindowDuration)
    BY <2>1, SlidingWindowCovered
  <2> DEFINE S == {t \in 0 .. s : t + WindowDuration >= s}
             A == SlotsOf(i * WindowDuration)
             B == SlotsOf(j * WindowDuration)
             C == B \ A
             U == A \cup C
  <2>3. /\ IsFiniteSet(A) /\ IsFiniteSet(B) /\ IsFiniteSet(C) /\ IsFiniteSet(U)
        /\ A \in SUBSET (0 .. MaxSlot) /\ B \in SUBSET (0 .. MaxSlot)
    <3>1. /\ IsFiniteSet(A) /\ A \in SUBSET (0 .. MaxSlot)
          /\ IsFiniteSet(B) /\ B \in SUBSET (0 .. MaxSlot)
      BY SlotsFinite
    <3> HIDE DEF A, B
    <3>2. IsFiniteSet(C)
      BY <3>1, FS_Subset
    <3> HIDE DEF C
    <3> QED
      BY <3>1, <3>2, FS_Union
  <2>4. S \in SUBSET U /\ C \in SUBSET B /\ A \cap C = {}
    BY <2>2
  <2>5. /\ SumFunctionOnSet(outflow, A) <= FromU64(MaxOutflow)
        /\ SumFunctionOnSet(outflow, B) <= FromU64(MaxOutflow)
    BY <1>1 DEF OutflowInv, EveryWindowBounded
  <2> HIDE DEF S, A, B
  <2>6. /\ \A x \in A : outflow[x] \in Nat
        /\ \A x \in B : outflow[x] \in Nat
        /\ \A x \in C : outflow[x] \in Nat
        /\ \A x \in U : outflow[x] \in Nat
    BY <2>1, <2>3
  <2> HIDE DEF C
  <2>7. SumFunctionOnSet(outflow, U)
          = SumFunctionOnSet(outflow, A) + SumFunctionOnSet(outflow, C)
    <3>1. \A x \in A \cup C : outflow[x] \in Int
      BY <2>6
    <3> QED
      BY <2>3, <2>4, <3>1, SumUnion
  <2> HIDE DEF U
  <2>8. SumFunctionOnSet(outflow, C) <= SumFunctionOnSet(outflow, B)
    BY <2>3, <2>4, <2>6, SumMonotone
  <2>9. SumFunctionOnSet(outflow, S) <= SumFunctionOnSet(outflow, U)
    BY <2>3, <2>4, <2>6, SumMonotone
  <2>10. /\ SumFunctionOnSet(outflow, A) \in Nat /\ SumFunctionOnSet(outflow, B) \in Nat
         /\ SumFunctionOnSet(outflow, C) \in Nat /\ SumFunctionOnSet(outflow, U) \in Nat
    BY <2>3, <2>6, SumNat
  <2>11. SumFunctionOnSet(outflow, S) \in Nat
    <3>1. IsFiniteSet(S) /\ \A x \in S : outflow[x] \in Nat
      BY <2>3, <2>4, <2>6, FS_Subset
    <3> QED
      BY <3>1, SumNat
  <2>12. SumFunctionOnSet(outflow, S) <= 2 * FromU64(MaxOutflow)
    BY <2>5, <2>7, <2>8, <2>9, <2>10, <2>11, LimitNat
  <2> QED
    BY <2>12 DEF S
<1> QED
  BY OutflowInit, OutflowInductive, <1>1, PTL DEF LimiterSpec

-----------------------------------------------------------------------------
(* 9. The invariant of the market and its frames.                          *)

(* What remaining_outflow answers is a natural number.                     *)
LEMMA RemainingNat ==
  ASSUME LimiterInv
  PROVE  RemainingOutflow(limiter, slot) \in Nat
<1>1. slot \in Nat
  BY MaxSlotAssumption DEF LimiterInv, LimiterTypeOK
<1>2. CASE WindowDuration = 0
  BY <1>2, U64MaxAssumption, DecimalNat DEF RemainingOutflow
<1>3. CASE WindowDuration # 0
  <2> DEFINE l == Rolled(limiter, slot)
             used == CurrentOutflow(l, slot)
  <2>1. Windowed(l, slot) /\ slot < l.windowStart + WindowDuration
    BY <1>1, <1>3, RolledWindowed DEF LimiterInv
  <2> HIDE DEF l
  <2>2. used \in Nat
    BY <1>1, <1>3, <2>1, OutflowCoversCurrent
  <2>3. RemainingOutflow(limiter, slot)
          = IF used > FromU64(MaxOutflow) THEN 0 ELSE FromU64(MaxOutflow) - used
    BY <1>3 DEF RemainingOutflow, l
  <2> HIDE DEF used
  <2> QED
    BY <2>2, <2>3, LimitNat
<1> QED
  BY <1>2, <1>3

(* The invariant of the market.                                            *)
BooksInv ==
  /\ oracle \in Answers
  /\ reserves \in [Reserve -> ReserveRecord]
  /\ \A r \in Reserve : ReserveSound(reserves[r], slot)
  /\ obligations \in [Owner -> ObligationRecord]
  /\ vault \in [Reserve -> Int] /\ ctokens \in [Reserve -> Int]
  /\ BookMatchesTokens

MarketInv == LimiterInv /\ BooksInv

(* What the invariant says of one reserve.                                 *)
LEMMA OfReserve ==
  ASSUME MarketInv, NEW r \in Reserve
  PROVE  /\ slot \in Nat
         /\ reserves[r] \in ReserveRecord
         /\ ReserveSound(reserves[r], slot) /\ SoundRecord(reserves[r])
         /\ vault[r] \in Int /\ ctokens[r] \in Int
         /\ reserves[r].available \in Nat /\ reserves[r].mintSupply \in Nat
         /\ vault[r] = reserves[r].available
         /\ reserves[r].mintSupply = ctokens[r] + Collateral(obligations, r)
<1>1. slot \in Nat
  BY MaxSlotAssumption DEF MarketInv, LimiterInv, LimiterTypeOK
<1>2. ReserveSound(reserves[r], slot) /\ reserves[r] \in ReserveRecord
      /\ vault[r] \in Int /\ ctokens[r] \in Int
  BY DEF MarketInv, BooksInv
<1>3. SoundRecord(reserves[r])
  BY <1>2 DEF ReserveSound
<1>4. vault[r] = reserves[r].available
      /\ reserves[r].mintSupply = ctokens[r] + Collateral(obligations, r)
  BY DEF MarketInv, BooksInv, BookMatchesTokens
<1> QED
  BY <1>1, <1>2, <1>3, <1>4, ReserveFields

(* What is held in all obligations is a natural number.                    *)
LEMMA CollateralNat ==
  ASSUME NEW obs \in [Owner -> ObligationRecord], NEW r
  PROVE  Collateral(obs, r) \in Nat
<1> DEFINE f == [o \in Owner |-> Held(obs[o].deposits, r)]
<1>1. ASSUME NEW o \in Owner PROVE f[o] \in Nat
  <2>1. obs[o].deposits \in Seq(Slot)
    <3>1. obs[o] \in ObligationRecord
      OBVIOUS
    <3>2. obs[o].deposits \in Seq(Entry)
      BY <3>1, ObligationFields
    <3> QED
      BY <3>2, EntriesAreSlots
  <2>2. Held(obs[o].deposits, r) \in Nat
    BY <2>1, HeldNat
  <2> QED
    BY <2>2
<1> HIDE DEF f
<1>2. SumFunctionOnSet(f, Owner) \in Nat
  BY <1>1, OwnersAssumption, SumNat
<1> QED
  BY <1>2 DEF Collateral, f

(* One obligation changes.                                                 *)
LEMMA CollateralChanged ==
  ASSUME NEW obs \in [Owner -> ObligationRecord], NEW new \in [Owner -> ObligationRecord],
         NEW o \in Owner, \A p \in Owner : p # o => new[p] = obs[p], NEW r
  PROVE  Collateral(new, r)
           = Collateral(obs, r) - Held(obs[o].deposits, r) + Held(new[o].deposits, r)
<1> DEFINE f == [p \in Owner |-> Held(obs[p].deposits, r)]
           g == [p \in Owner |-> Held(new[p].deposits, r)]
<1>2. ASSUME NEW x \in ObligationRecord PROVE Held(x.deposits, r) \in Nat
  <2>1. x.deposits \in Seq(Entry)
    BY <1>2, ObligationFields
  <2> QED
    BY <2>1, EntriesAreSlots, HeldNat
<1>3. ASSUME NEW p \in Owner PROVE f[p] \in Int /\ g[p] \in Int
  <2>1. obs[p] \in ObligationRecord /\ new[p] \in ObligationRecord
    OBVIOUS
  <2>2. Held(obs[p].deposits, r) \in Nat /\ Held(new[p].deposits, r) \in Nat
    BY <1>2, <2>1
  <2> QED
    BY <2>2
<1>4. \A p \in Owner : p # o => f[p] = g[p]
  OBVIOUS
<1>5. f[o] = Held(obs[o].deposits, r) /\ g[o] = Held(new[o].deposits, r)
  OBVIOUS
<1> HIDE DEF f, g
<1>6. SumFunctionOnSet(g, Owner) = SumFunctionOnSet(f, Owner) - f[o] + g[o]
  BY <1>3, <1>4, OwnersAssumption, SumChangedAt
<1> QED
  BY <1>5, <1>6 DEF Collateral, f, g

(* Frame of an instruction that stores one reserve.                        *)
LEMMA ReserveStored ==
  ASSUME MarketInv, NEW r \in Reserve, NEW y, ReserveSound(y, slot), slot' = slot,
         reserves' = [reserves EXCEPT ![r] = y]
  PROVE  /\ reserves' \in [Reserve -> ReserveRecord]
         /\ \A q \in Reserve : ReserveSound(reserves'[q], slot')
         /\ reserves'[r] = y
         /\ \A q \in Reserve : q # r => reserves'[q] = reserves[q]
<1>1. reserves \in [Reserve -> ReserveRecord] /\ \A q \in Reserve : ReserveSound(reserves[q], slot)
  BY DEF MarketInv, BooksInv
<1>2. y \in ReserveRecord
  BY DEF ReserveSound, SoundRecord
<1>3. /\ reserves' \in [Reserve -> ReserveRecord]
      /\ reserves'[r] = y
      /\ \A q \in Reserve : q # r => reserves'[q] = reserves[q]
  BY <1>1, <1>2
<1>4. ASSUME NEW q \in Reserve PROVE ReserveSound(reserves'[q], slot')
  <2>1. CASE q = r
    BY <1>3, <2>1
  <2>2. CASE q # r
    BY <1>1, <1>3, <2>2
  <2> QED
    BY <2>1, <2>2
<1> QED
  BY <1>3, <1>4

(* Frame of an instruction that stores one reserve whose amounts changed.  *)
LEMMA StoreKept ==
  ASSUME MarketInv, NEW r \in Reserve, NEW new, Rebooked(reserves[r], new), Store(r, new),
         slot' = slot
  PROVE  /\ reserves' \in [Reserve -> ReserveRecord]
         /\ \A q \in Reserve : ReserveSound(reserves'[q], slot')
         /\ reserves'[r].available = new.available
         /\ reserves'[r].mintSupply = new.mintSupply
         /\ \A q \in Reserve : q # r => reserves'[q] = reserves[q]
<1> DEFINE y == MarkStale(new)
<1>1. reserves' = [reserves EXCEPT ![r] = y] /\ WellFormed(new)
  BY DEF Store
<1>2. slot \in Nat /\ ReserveSound(reserves[r], slot)
  BY OfReserve
<1>3. ReserveSound(y, slot) /\ y.available = new.available /\ y.mintSupply = new.mintSupply
  BY <1>1, <1>2, StoredSound
<1> HIDE DEF y
<1> QED
  BY <1>1, <1>3, ReserveStored

(* Frame of an instruction that stores one obligation.                     *)
LEMMA ObligationStored ==
  ASSUME MarketInv, NEW o \in Owner, NEW y \in ObligationRecord,
         obligations' = [obligations EXCEPT ![o] = y]
  PROVE  /\ obligations' \in [Owner -> ObligationRecord]
         /\ \A q : /\ Collateral(obligations', q)
                        = Collateral(obligations, q) - Held(obligations[o].deposits, q)
                            + Held(y.deposits, q)
                   /\ Collateral(obligations, q) \in Int
                   /\ Held(obligations[o].deposits, q) \in Int
<1>1. obligations \in [Owner -> ObligationRecord] /\ obligations[o] \in ObligationRecord
  BY DEF MarketInv, BooksInv
<1>2. obligations' \in [Owner -> ObligationRecord]
  BY <1>1
<1>3. ASSUME NEW q
      PROVE  /\ Collateral(obligations', q)
                  = Collateral(obligations, q) - Held(obligations[o].deposits, q)
                      + Held(y.deposits, q)
             /\ Collateral(obligations, q) \in Int
             /\ Held(obligations[o].deposits, q) \in Int
  <2>1. Collateral(obligations, q) \in Nat
    BY <1>1, CollateralNat
  <2>2. obligations[o].deposits \in Seq(Slot)
    BY <1>1, ObligationFields, EntriesAreSlots
  <2>3. Held(obligations[o].deposits, q) \in Nat
    BY <2>2, HeldNat
  <2>4. Collateral(obligations', q)
          = Collateral(obligations, q) - Held(obligations[o].deposits, q)
              + Held(y.deposits, q)
    <3> DEFINE a == obligations
               b == obligations'
    <3>1. /\ a \in [Owner -> ObligationRecord] /\ b \in [Owner -> ObligationRecord]
          /\ b[o] = y /\ \A p \in Owner : p # o => b[p] = a[p]
      BY <1>1
    <3> HIDE DEF a, b
    <3>2. Collateral(b, q) = Collateral(a, q) - Held(a[o].deposits, q) + Held(b[o].deposits, q)
      BY <3>1, CollateralChanged
    <3> QED
      BY <3>1, <3>2 DEF a, b
  <2> QED
    BY <2>1, <2>3, <2>4
<1> QED
  BY <1>2, <1>3

(* Marking an obligation stale changes nothing else of it.                 *)
LEMMA StaleObligation ==
  ASSUME NEW y \in ObligationRecord
  PROVE  MarkStale(y) \in ObligationRecord /\ MarkStale(y).deposits = y.deposits
<1>1. y.last \in [slot : Nat, stale : BOOLEAN]
  BY ObligationFields
<1>2. MarkStale(y) = [y EXCEPT !.last = [y.last EXCEPT !.stale = TRUE]]
  BY DEF MarkStale
<1>3. [y.last EXCEPT !.stale = TRUE] \in [slot : Nat, stale : BOOLEAN]
  BY <1>1
<1>4. MarkStale(y) \in ObligationRecord
  BY <1>2, <1>3 DEF ObligationRecord
<1>5. MarkStale(y).deposits = y.deposits
  BY <1>2 DEF ObligationRecord
<1> QED
  BY <1>4, <1>5

(* The steps with which an instruction leaves the limiter alone.           *)
LEMMA LimiterIdle ==
  ASSUME UNCHANGED limiterVars
  PROVE  slot' = slot /\ [LimiterNext]_limiterVars
  BY DEF limiterVars

-----------------------------------------------------------------------------
(* 10. Instructions on one reserve.                                        *)

(* The next slot: no reserve is updated in it yet.                         *)
LEMMA NextSlotKeeps ==
  ASSUME MarketInv, NextSlot
  PROVE  BooksInv' /\ [LimiterNext]_limiterVars
<1>1. slot \in Nat /\ slot' = slot + 1
  BY MaxSlotAssumption DEF NextSlot, Tick, MarketInv, LimiterInv, LimiterTypeOK
<1>2. reserves' = reserves /\ obligations' = obligations /\ vault' = vault
      /\ ctokens' = ctokens /\ oracle' \in Answers
  BY DEF NextSlot
<1>3. ASSUME NEW r \in Reserve PROVE ReserveSound(reserves'[r], slot')
  <2> DEFINE x == reserves[r]
  <2>1. ReserveSound(x, slot) /\ x \in ReserveRecord
    BY OfReserve
  <2>2. x.last.slot \in Nat /\ x.last.slot <= slot
    BY <2>1, ReserveFields DEF ReserveSound
  <2>3. ReserveSound(x, slot')
    <3>1. x.last.slot <= slot'
      BY <1>1, <2>2
    <3> QED
      BY <2>1, <3>1 DEF ReserveSound
  <2> QED
    BY <1>2, <2>3
<1>4. BookMatchesTokens'
  <2>1. \A q \in Reserve : /\ vault[q] = reserves[q].available
                           /\ reserves[q].mintSupply = ctokens[q] + Collateral(obligations, q)
    BY DEF MarketInv, BooksInv, BookMatchesTokens
  <2> QED
    BY <1>2, <2>1 DEF BookMatchesTokens
<1>5. BooksInv'
  BY <1>2, <1>3, <1>4 DEF MarketInv, BooksInv
<1>6. Tick
  BY DEF NextSlot
<1> QED
  BY <1>5, <1>6 DEF LimiterNext

(* A step that moves tokens of one reserve between the users and its       *)
(* supply account, and collateral tokens, by what it books.                *)
LEMMA OneReserveBooked ==
  ASSUME MarketInv, NEW r \in Reserve, oracle' = oracle,
         reserves' \in [Reserve -> ReserveRecord],
         \A q \in Reserve : ReserveSound(reserves'[q], slot'),
         \A q \in Reserve : q # r => reserves'[q] = reserves[q],
         obligations' = obligations,
         vault' = [vault EXCEPT ![r] = reserves'[r].available],
         ctokens' = [ctokens EXCEPT ![r] = ctokens[r] + reserves'[r].mintSupply
                                             - reserves[r].mintSupply]
  PROVE  BooksInv'
<1>1. vault \in [Reserve -> Int] /\ ctokens \in [Reserve -> Int]
      /\ obligations \in [Owner -> ObligationRecord] /\ oracle \in Answers
  BY DEF MarketInv, BooksInv
<1>2. reserves'[r].available \in Nat /\ reserves'[r].mintSupply \in Nat
  <2> DEFINE y == reserves'[r]
  <2>1. y \in ReserveRecord
    OBVIOUS
  <2> HIDE DEF y
  <2>2. y.available \in Nat /\ y.mintSupply \in Nat
    BY <2>1, ReserveFields
  <2> QED
    BY <2>2 DEF y
<1>3. reserves[r].mintSupply \in Nat /\ ctokens[r] \in Int
  BY OfReserve
<1>4. vault' \in [Reserve -> Int] /\ ctokens' \in [Reserve -> Int]
  BY <1>1, <1>2, <1>3
<1>5. ASSUME NEW q \in Reserve
      PROVE  /\ vault'[q] = reserves'[q].available
             /\ reserves'[q].mintSupply = ctokens'[q] + Collateral(obligations', q)
  <2>1. /\ vault[q] = reserves[q].available
        /\ reserves[q].mintSupply = ctokens[q] + Collateral(obligations, q)
    BY OfReserve
  <2>2. Collateral(obligations, q) \in Nat
    BY <1>1, CollateralNat
  <2>3. CASE q = r
    <3>1. vault'[q] = reserves'[q].available
      BY <1>1, <2>3
    <3>2. ctokens'[q] = ctokens[q] + reserves'[q].mintSupply - reserves[q].mintSupply
      BY <1>1, <2>3
    <3> QED
      BY <1>2, <1>3, <2>1, <2>2, <2>3, <3>1, <3>2
  <2>4. CASE q # r
    <3>1. vault'[q] = vault[q] /\ ctokens'[q] = ctokens[q] /\ reserves'[q] = reserves[q]
      BY <1>1, <2>4
    <3> QED
      BY <2>1, <3>1
  <2> QED
    BY <2>3, <2>4
<1> QED
  BY <1>1, <1>4, <1>5 DEF BooksInv, BookMatchesTokens

(* Nothing moves when only other fields of a reserve change.               *)
LEMMA NoMove ==
  ASSUME MarketInv, NEW r \in Reserve, UNCHANGED <<vault, ctokens>>,
         reserves'[r].available = reserves[r].available,
         reserves'[r].mintSupply = reserves[r].mintSupply
  PROVE  /\ vault' = [vault EXCEPT ![r] = reserves'[r].available]
         /\ ctokens' = [ctokens EXCEPT ![r] = ctokens[r] + reserves'[r].mintSupply
                                                - reserves[r].mintSupply]
<1>1. vault \in [Reserve -> Int] /\ ctokens \in [Reserve -> Int]
  BY DEF MarketInv, BooksInv
<1>2. vault[r] = reserves[r].available /\ ctokens[r] \in Int /\ reserves[r].mintSupply \in Nat
  BY OfReserve
<1>3. ctokens[r] + reserves'[r].mintSupply - reserves[r].mintSupply = ctokens[r]
  BY <1>2
<1> QED
  BY <1>1, <1>2, <1>3

(* RefreshReserve: interest and prices, no tokens.                         *)
LEMMA RefreshReserveKeeps ==
  ASSUME MarketInv, NEW r \in Reserve, RefreshReserve(r)
  PROVE  BooksInv' /\ [LimiterNext]_limiterVars
<1> DEFINE x == reserves[r]
           q == oracle[r]
           scale == PriceScale(x.config)
           y == [AccrueInterest(x, slot) EXCEPT
                   !.price = TryMul(q.price, scale), !.smoothed = TryMul(q.smoothed, scale),
                   !.extra = q.extra, !.last = Fresh(slot)]
<1>1. /\ reserves' = [reserves EXCEPT ![r] = y]
      /\ UNCHANGED <<obligations, vault, ctokens, oracle, limiterVars>>
  BY DEF RefreshReserve
<1>2. q \in Quote /\ \A a, b \in q.extra : a = b
  <2>1. oracle \in Answers
    BY DEF MarketInv, BooksInv
  <2>2. oracle[r] \in Quotes[r]
    BY <2>1 DEF Answers
  <2> QED
    BY <2>2, QuotesAssumption
<1>3. ReserveSound(x, slot) /\ slot \in Nat
  BY OfReserve
<1> HIDE DEF x, q
<1>4. ReserveSound(y, slot) /\ y.available = x.available /\ y.mintSupply = x.mintSupply
  BY <1>1, <1>2, <1>3, RefreshSound
<1> HIDE DEF y
<1>5. slot' = slot /\ [LimiterNext]_limiterVars
  BY <1>1, LimiterIdle
<1>6. /\ reserves' \in [Reserve -> ReserveRecord]
      /\ \A p \in Reserve : ReserveSound(reserves'[p], slot')
      /\ reserves'[r] = y
      /\ \A p \in Reserve : p # r => reserves'[p] = reserves[p]
  BY <1>1, <1>4, <1>5, ReserveStored
<1>7. /\ reserves'[r].available = reserves[r].available
      /\ reserves'[r].mintSupply = reserves[r].mintSupply
  BY <1>4, <1>6 DEF x
<1> QED
  BY <1>1, <1>5, <1>6, <1>7, NoMove, OneReserveBooked

(* UpdateReserveConfig: a validated configuration, no tokens.              *)
LEMMA UpdateReserveConfigKeeps ==
  ASSUME MarketInv, NEW r \in Reserve, NEW c \in Configs[r], UpdateReserveConfig(r, c)
  PROVE  BooksInv' /\ [LimiterNext]_limiterVars
<1> DEFINE x == reserves[r]
           z == [x EXCEPT !.config = c]
           y == MarkStale(z)
<1>1. /\ reserves' = [reserves EXCEPT ![r] = y] /\ ValidateReserveConfig(c)
      /\ UNCHANGED <<obligations, vault, ctokens, oracle, limiterVars>>
  BY DEF UpdateReserveConfig, Store, Execute
<1>2. ReserveSound(x, slot) /\ slot \in Nat /\ x \in ReserveRecord
  BY OfReserve
<1>3. c \in ReserveConfig
  BY ConfigsAssumption
<1> HIDE DEF x
<1>4. z \in ReserveRecord /\ z.config = c
  BY <1>2, <1>3 DEF ReserveRecord
<1>5. z.last = x.last /\ z.cumRate = x.cumRate /\ z.extra = x.extra
      /\ z.available = x.available /\ z.mintSupply = x.mintSupply
  BY <1>2 DEF ReserveRecord
<1> HIDE DEF z
<1>6. /\ y \in ReserveRecord /\ y.last = [z.last EXCEPT !.stale = TRUE]
      /\ y.cumRate = z.cumRate /\ y.extra = z.extra /\ y.config = z.config
      /\ y.available = z.available /\ y.mintSupply = z.mintSupply
  BY <1>4 DEF MarkStale, ReserveRecord
<1>7. y.last.slot = x.last.slot /\ y.last.stale
  <2>1. z.last \in [slot : Nat, stale : BOOLEAN]
    BY <1>4, ReserveFields
  <2> QED
    BY <1>5, <1>6, <2>1
<1> HIDE DEF y
<1>8. ReserveSound(y, slot)
  BY <1>1, <1>2, <1>4, <1>5, <1>6, <1>7 DEF ReserveSound, SoundRecord, IsStale
<1>9. slot' = slot /\ [LimiterNext]_limiterVars
  BY <1>1, LimiterIdle
<1>10. /\ reserves' \in [Reserve -> ReserveRecord]
       /\ \A p \in Reserve : ReserveSound(reserves'[p], slot')
       /\ reserves'[r] = y
       /\ \A p \in Reserve : p # r => reserves'[p] = reserves[p]
  BY <1>1, <1>8, <1>9, ReserveStored
<1>11. /\ reserves'[r].available = reserves[r].available
       /\ reserves'[r].mintSupply = reserves[r].mintSupply
  BY <1>5, <1>6, <1>10 DEF x
<1> QED
  BY <1>1, <1>9, <1>10, <1>11, NoMove, OneReserveBooked

(* DepositReserveLiquidity: the tokens paid are booked, and the collateral *)
(* tokens minted are the users'.                                           *)
LEMMA DepositReserveLiquidityKeeps ==
  ASSUME MarketInv, NEW r \in Reserve, NEW n \in Nat, DepositReserveLiquidity(r, n)
  PROVE  BooksInv' /\ [LimiterNext]_limiterVars
<1> DEFINE x == reserves[r]
           y == DepositLiquidity(x, n)
           c == CollateralFor(x, n)
<1>1. /\ Store(r, y) /\ TotalSupply(x) >= 0
      /\ UNCHANGED <<obligations, oracle, limiterVars>>
      /\ vault' = [vault EXCEPT ![r] = vault[r] + n]
      /\ ctokens' = [ctokens EXCEPT ![r] = ctokens[r] + c]
  BY DEF DepositReserveLiquidity, Execute, Pay, NoLimiter, Fits
<1>2. /\ x \in ReserveRecord /\ TotalSupply(x) >= 0 /\ vault[r] = x.available
      /\ ctokens[r] \in Int /\ x.mintSupply \in Nat
  BY <1>1, OfReserve
<1>3. /\ Rebooked(x, y) /\ y.available = x.available + n /\ y.mintSupply = x.mintSupply + c
      /\ c \in Nat
  BY <1>2, DepositRebooks
<1> HIDE DEF y, c
<1>4. slot' = slot /\ [LimiterNext]_limiterVars
  BY <1>1, LimiterIdle
<1>5. /\ reserves' \in [Reserve -> ReserveRecord]
      /\ \A q \in Reserve : ReserveSound(reserves'[q], slot')
      /\ reserves'[r].available = y.available
      /\ reserves'[r].mintSupply = y.mintSupply
      /\ \A q \in Reserve : q # r => reserves'[q] = reserves[q]
  BY <1>1, <1>3, <1>4, StoreKept
<1>6. /\ vault' = [vault EXCEPT ![r] = reserves'[r].available]
      /\ ctokens' = [ctokens EXCEPT ![r] = ctokens[r] + reserves'[r].mintSupply
                                             - reserves[r].mintSupply]
  <2>1. ctokens[r] + c = ctokens[r] + reserves'[r].mintSupply - reserves[r].mintSupply
    BY <1>2, <1>3, <1>5
  <2> QED
    BY <1>1, <1>2, <1>3, <1>5, <2>1
<1> QED
  BY <1>1, <1>4, <1>5, <1>6, OneReserveBooked

(* RedeemReserveCollateral: the collateral tokens burned are booked, and   *)
(* the tokens paid for them pass the limiter.                              *)
LEMMA RedeemReserveCollateralKeeps ==
  ASSUME MarketInv, NEW r \in Reserve, NEW asked \in Nat, RedeemReserveCollateral(r, asked)
  PROVE  BooksInv' /\ [LimiterNext]_limiterVars
<1> DEFINE x == reserves[r]
           within == LiquidityToCollateral(x,
                       UsdToLiquidityLowerBound(x, RemainingOutflow(limiter, slot)))
           c == IF asked = U64Max THEN Min({ctokens[r], TryFloorU64(within)}) ELSE asked
           n == LiquidityFor(x, c)
           y == RedeemCollateral(x, c)
           qty == MarketValue(x, FromU64(n))
<1>1. /\ Store(r, y) /\ TotalSupply(x) >= 0 /\ ExchangeRate(x) > 0
      /\ c \in 1 .. ctokens[r]
      /\ Update(qty)
      /\ UNCHANGED <<obligations, oracle>>
      /\ vault' = [vault EXCEPT ![r] = vault[r] - n]
      /\ ctokens' = [ctokens EXCEPT ![r] = ctokens[r] - c]
  BY DEF RedeemReserveCollateral, Execute, Receive, Exchangeable, Fits
<1>2. /\ x \in ReserveRecord /\ TotalSupply(x) >= 0 /\ vault[r] = x.available
      /\ ctokens[r] \in Int /\ x.mintSupply \in Nat /\ SoundRecord(x)
      /\ x.available \in Nat
  BY <1>1, OfReserve
<1> HIDE DEF c
<1>3. c \in Nat
  BY <1>1, <1>2
<1>4. /\ Rebooked(x, y) /\ y.available = x.available - n /\ y.mintSupply = x.mintSupply - c
      /\ n \in Nat
  BY <1>1, <1>2, <1>3, RedeemRebooks
<1> HIDE DEF y, n
<1>5. qty \in Nat
  BY <1>2, <1>4, DecimalNat, MarketValueNat
<1> HIDE DEF qty
<1>6. slot' = slot /\ [LimiterNext]_limiterVars
  BY <1>1, <1>5 DEF LimiterNext, Update
<1>7. /\ reserves' \in [Reserve -> ReserveRecord]
      /\ \A q \in Reserve : ReserveSound(reserves'[q], slot')
      /\ reserves'[r].available = y.available
      /\ reserves'[r].mintSupply = y.mintSupply
      /\ \A q \in Reserve : q # r => reserves'[q] = reserves[q]
  BY <1>1, <1>4, <1>6, StoreKept
<1>8. /\ vault' = [vault EXCEPT ![r] = reserves'[r].available]
      /\ ctokens' = [ctokens EXCEPT ![r] = ctokens[r] + reserves'[r].mintSupply
                                             - reserves[r].mintSupply]
  <2>1. ctokens[r] - c = ctokens[r] + reserves'[r].mintSupply - reserves[r].mintSupply
    BY <1>2, <1>3, <1>4, <1>7
  <2> QED
    BY <1>1, <1>2, <1>4, <1>7, <2>1
<1> QED
  BY <1>1, <1>6, <1>7, <1>8, OneReserveBooked

(* Nothing is minted or burned when a reserve's mint supply stays.         *)
LEMMA NothingMinted ==
  ASSUME MarketInv, NEW r \in Reserve, ctokens' = ctokens,
         reserves'[r].mintSupply = reserves[r].mintSupply
  PROVE  ctokens' = [ctokens EXCEPT ![r] = ctokens[r] + reserves'[r].mintSupply
                                             - reserves[r].mintSupply]
<1>1. ctokens \in [Reserve -> Int]
  BY DEF MarketInv, BooksInv
<1>2. ctokens[r] \in Int /\ reserves[r].mintSupply \in Nat
  BY OfReserve
<1>3. ctokens[r] + reserves'[r].mintSupply - reserves[r].mintSupply = ctokens[r]
  BY <1>2
<1> QED
  BY <1>1, <1>3

(* RedeemFees: what the protocol takes leaves the book and the account.    *)
LEMMA RedeemFeesKeeps ==
  ASSUME MarketInv, NEW r \in Reserve, RedeemFeesOf(r)
  PROVE  BooksInv' /\ [LimiterNext]_limiterVars
<1> DEFINE x == reserves[r]
           n == CalculateRedeemFees(x)
           y == RedeemFees(x, n)
<1>1. /\ Store(r, y)
      /\ UNCHANGED <<obligations, oracle, ctokens, limiterVars>>
      /\ vault' = [vault EXCEPT ![r] = vault[r] - n]
  BY DEF RedeemFeesOf, Execute, Receive, NoLimiter
<1>2. x \in ReserveRecord /\ vault[r] = x.available /\ x.available \in Nat
  BY OfReserve
<1>3. n \in Nat
  <2>1. x.fees \in Nat
    BY <1>2, ReserveFields
  <2>2. TryFloorU64(x.fees) \in Nat
    BY <2>1, DecimalNat
  <2> QED
    BY <1>2, <2>2, LeastOfTwo DEF CalculateRedeemFees
<1> HIDE DEF n
<1>4. Rebooked(x, y) /\ y.available = x.available - n /\ y.mintSupply = x.mintSupply
  BY <1>2, <1>3, RedeemFeesRebooks
<1> HIDE DEF y
<1>5. slot' = slot /\ [LimiterNext]_limiterVars
  BY <1>1, LimiterIdle
<1>6. /\ reserves' \in [Reserve -> ReserveRecord]
      /\ \A q \in Reserve : ReserveSound(reserves'[q], slot')
      /\ reserves'[r].available = y.available
      /\ reserves'[r].mintSupply = y.mintSupply
      /\ \A q \in Reserve : q # r => reserves'[q] = reserves[q]
  BY <1>1, <1>4, <1>5, StoreKept
<1>7. vault' = [vault EXCEPT ![r] = reserves'[r].available]
  BY <1>1, <1>2, <1>4, <1>6
<1> QED
  BY <1>1, <1>4, <1>5, <1>6, <1>7, NothingMinted, OneReserveBooked

(* DonateToReserve: what is given is booked.                               *)
LEMMA DonateKeeps ==
  ASSUME MarketInv, NEW r \in Reserve, NEW n \in Nat, DonateToReserve(r, n)
  PROVE  BooksInv' /\ [LimiterNext]_limiterVars
<1> DEFINE x == reserves[r]
           y == Donate(x, n)
<1>1. /\ Store(r, y)
      /\ UNCHANGED <<obligations, oracle, ctokens, limiterVars>>
      /\ vault' = [vault EXCEPT ![r] = vault[r] + n]
  BY DEF DonateToReserve, Execute, Pay, NoLimiter
<1>2. x \in ReserveRecord /\ vault[r] = x.available /\ x.available \in Nat
  BY OfReserve
<1>4. Rebooked(x, y) /\ y.available = x.available + n /\ y.mintSupply = x.mintSupply
  BY <1>2, DonateRebooks
<1> HIDE DEF y
<1>5. slot' = slot /\ [LimiterNext]_limiterVars
  BY <1>1, LimiterIdle
<1>6. /\ reserves' \in [Reserve -> ReserveRecord]
      /\ \A q \in Reserve : ReserveSound(reserves'[q], slot')
      /\ reserves'[r].available = y.available
      /\ reserves'[r].mintSupply = y.mintSupply
      /\ \A q \in Reserve : q # r => reserves'[q] = reserves[q]
  BY <1>1, <1>4, <1>5, StoreKept
<1>7. vault' = [vault EXCEPT ![r] = reserves'[r].available]
  BY <1>1, <1>2, <1>4, <1>6
<1> QED
  BY <1>1, <1>4, <1>5, <1>6, <1>7, NothingMinted, OneReserveBooked

(* FlashBorrowReserveLiquidity: interest is accrued, and what is lent      *)
(* leaves the book and the account.                                        *)
LEMMA FlashBorrowKeeps ==
  ASSUME MarketInv, NEW r \in Reserve, NEW n \in Nat, FlashBorrowReserveLiquidity(r, n)
  PROVE  BooksInv' /\ [LimiterNext]_limiterVars
<1> DEFINE x == reserves[r]
           now == [AccrueInterest(x, slot) EXCEPT !.last = Fresh(slot)]
           a == FromU64(n)
           y == LiquidityBorrow(now, a)
           z == MarkStale(y)
<1>1. /\ WellFormed(y) /\ reserves' = [reserves EXCEPT ![r] = z]
      /\ UNCHANGED <<obligations, oracle, ctokens, limiterVars>>
      /\ vault' = [vault EXCEPT ![r] = vault[r] - n]
  BY DEF FlashBorrowReserveLiquidity, Execute, Receive, NoLimiter, Store
<1>2. /\ ReserveSound(x, slot) /\ slot \in Nat
      /\ vault[r] = x.available /\ x.available \in Nat
  BY OfReserve
<1> HIDE DEF x
<1>3. ReserveSound(now, slot) /\ now.available = x.available /\ now.mintSupply = x.mintSupply
  BY <1>2, AccruedSound
<1> HIDE DEF now
<1>4. now \in ReserveRecord
  BY <1>3 DEF ReserveSound, SoundRecord
<1>5. a \in Nat /\ TryFloorU64(a) = n
  BY DecimalNat, FloorOfWhole
<1> HIDE DEF a
<1>6. Rebooked(now, y) /\ y.available = now.available - n /\ y.mintSupply = now.mintSupply
  BY <1>4, <1>5, BorrowRebooks
<1> HIDE DEF y
<1>7. ReserveSound(z, slot) /\ z.available = y.available /\ z.mintSupply = y.mintSupply
  BY <1>1, <1>2, <1>3, <1>6, StoredSound
<1> HIDE DEF z
<1>8. slot' = slot /\ [LimiterNext]_limiterVars
  BY <1>1, LimiterIdle
<1>9. /\ reserves' \in [Reserve -> ReserveRecord]
      /\ \A q \in Reserve : ReserveSound(reserves'[q], slot')
      /\ reserves'[r] = z
      /\ \A q \in Reserve : q # r => reserves'[q] = reserves[q]
  BY <1>1, <1>7, <1>8, ReserveStored
<1>10. /\ vault' = [vault EXCEPT ![r] = reserves'[r].available]
       /\ reserves'[r].mintSupply = reserves[r].mintSupply
  BY <1>1, <1>2, <1>3, <1>6, <1>7, <1>9 DEF x
<1> QED
  BY <1>1, <1>8, <1>9, <1>10, NothingMinted, OneReserveBooked

(* FlashRepayReserveLiquidity: the loan comes back; its fees do not pass   *)
(* through the account.                                                    *)
LEMMA FlashRepayKeeps ==
  ASSUME MarketInv, NEW r \in Reserve, NEW n \in Nat, FlashRepayReserveLiquidity(r, n)
  PROVE  BooksInv' /\ [LimiterNext]_limiterVars
<1> DEFINE x == reserves[r]
           a == FromU64(n)
           y == LiquidityRepay(x, n, a)
<1>1. /\ Store(r, y)
      /\ UNCHANGED <<obligations, oracle, ctokens, limiterVars>>
      /\ vault' = [vault EXCEPT ![r] = vault[r] + n]
  BY DEF FlashRepayReserveLiquidity, NoLimiter
<1>2. x \in ReserveRecord /\ vault[r] = x.available /\ x.available \in Nat
  BY OfReserve
<1>3. a \in Nat
  BY DecimalNat
<1> HIDE DEF a
<1>4. Rebooked(x, y) /\ y.available = x.available + n /\ y.mintSupply = x.mintSupply
  BY <1>2, <1>3, RepayRebooks
<1> HIDE DEF y
<1>5. slot' = slot /\ [LimiterNext]_limiterVars
  BY <1>1, LimiterIdle
<1>6. /\ reserves' \in [Reserve -> ReserveRecord]
      /\ \A q \in Reserve : ReserveSound(reserves'[q], slot')
      /\ reserves'[r].available = y.available
      /\ reserves'[r].mintSupply = y.mintSupply
      /\ \A q \in Reserve : q # r => reserves'[q] = reserves[q]
  BY <1>1, <1>4, <1>5, StoreKept
<1>7. vault' = [vault EXCEPT ![r] = reserves'[r].available]
  BY <1>1, <1>2, <1>4, <1>6
<1> QED
  BY <1>1, <1>4, <1>5, <1>6, <1>7, NothingMinted, OneReserveBooked

-----------------------------------------------------------------------------
(* 11. Instructions on one obligation.                                     *)

(* An obligation of the market, and an entry of it.                        *)
LEMMA OfObligation ==
  ASSUME MarketInv, NEW o \in Owner
  PROVE  /\ obligations[o] \in ObligationRecord
         /\ \A i \in DOMAIN obligations[o].deposits : obligations[o].deposits[i] \in Entry
         /\ \A i \in DOMAIN obligations[o].borrows : obligations[o].borrows[i] \in Loan
<1> DEFINE ob == obligations[o]
<1>1. ob \in ObligationRecord
  BY DEF MarketInv, BooksInv
<1> HIDE DEF ob
<1>2. ob.deposits \in Seq(Entry) /\ ob.borrows \in Seq(Loan)
  BY <1>1, ObligationFields
<1>3. /\ \A i \in DOMAIN ob.deposits : ob.deposits[i] \in Entry
      /\ \A i \in DOMAIN ob.borrows : ob.borrows[i] \in Loan
  BY <1>2
<1> QED
  BY <1>1, <1>3 DEF ob

(* A step of one obligation, which exchanges collateral tokens with the    *)
(* users, keeps the books.                                                 *)
LEMMA ObligationBooked ==
  ASSUME MarketInv, NEW o \in Owner, NEW y \in ObligationRecord,
         obligations' = [obligations EXCEPT ![o] = y],
         UNCHANGED <<oracle, reserves, vault, limiterVars>>,
         ctokens' \in [Reserve -> Int],
         \A q \in Reserve :
           ctokens'[q] = ctokens[q] + Held(obligations[o].deposits, q) - Held(y.deposits, q)
  PROVE  BooksInv' /\ [LimiterNext]_limiterVars
<1>1. slot' = slot /\ [LimiterNext]_limiterVars
  BY LimiterIdle
<1>2. /\ obligations' \in [Owner -> ObligationRecord]
      /\ \A q : /\ Collateral(obligations', q)
                     = Collateral(obligations, q) - Held(obligations[o].deposits, q)
                         + Held(y.deposits, q)
                /\ Collateral(obligations, q) \in Int
                /\ Held(obligations[o].deposits, q) \in Int
  BY ObligationStored
<1>3. \A q : Held(y.deposits, q) \in Int
  <2>1. y.deposits \in Seq(Slot)
    BY ObligationFields, EntriesAreSlots
  <2> QED
    BY <2>1, HeldNat
<1>4. ASSUME NEW q \in Reserve
      PROVE  /\ vault'[q] = reserves'[q].available
             /\ reserves'[q].mintSupply = ctokens'[q] + Collateral(obligations', q)
  <2>1. /\ vault[q] = reserves[q].available /\ ctokens[q] \in Int
        /\ reserves[q].mintSupply = ctokens[q] + Collateral(obligations, q)
    BY OfReserve
  <2>2. /\ Collateral(obligations', q)
             = Collateral(obligations, q) - Held(obligations[o].deposits, q)
                 + Held(y.deposits, q)
        /\ Collateral(obligations, q) \in Int
        /\ Held(obligations[o].deposits, q) \in Int
        /\ Held(y.deposits, q) \in Int
        /\ ctokens'[q] = ctokens[q] + Held(obligations[o].deposits, q) - Held(y.deposits, q)
    BY <1>2, <1>3
  <2> DEFINE a == Collateral(obligations, q)
             b == Collateral(obligations', q)
             h == Held(obligations[o].deposits, q)
             k == Held(y.deposits, q)
  <2>3. b = a - h + k /\ a \in Int /\ h \in Int /\ k \in Int
        /\ ctokens'[q] = ctokens[q] + h - k /\ reserves[q].mintSupply = ctokens[q] + a
    BY <2>1, <2>2
  <2> HIDE DEF a, b, h, k
  <2>4. ctokens'[q] + b = ctokens[q] + a
    BY <2>1, <2>3
  <2>5. reserves'[q].mintSupply = ctokens'[q] + b
    BY <2>3, <2>4
  <2> QED
    BY <2>1, <2>5 DEF b
<1>5. /\ oracle' \in Answers /\ reserves' \in [Reserve -> ReserveRecord]
      /\ \A q \in Reserve : ReserveSound(reserves'[q], slot')
      /\ vault' \in [Reserve -> Int]
  BY <1>1 DEF MarketInv, BooksInv
<1> QED
  BY <1>1, <1>2, <1>4, <1>5 DEF BooksInv, BookMatchesTokens

(* RefreshObligation: values and interest, no tokens.                      *)
LEMMA RefreshObligationKeeps ==
  ASSUME MarketInv, NEW o \in Owner, RefreshObligation(o)
  PROVE  BooksInv' /\ [LimiterNext]_limiterVars
<1> DEFINE ob == obligations[o]
           y == [Refreshed(ob, reserves) EXCEPT !.last = Fresh(slot)]
<1>1. /\ obligations' = [obligations EXCEPT ![o] = y]
      /\ UNCHANGED <<oracle, reserves, vault, limiterVars, ctokens>>
  BY DEF RefreshObligation
<1>2. ob \in ObligationRecord
  BY OfObligation
<1>3. slot \in Nat
  BY MaxSlotAssumption DEF MarketInv, LimiterInv, LimiterTypeOK
<1>4. Refreshable(ob, reserves)
  <2>1. ASSUME NEW i \in DOMAIN ob.deposits
        PROVE  /\ SoundRecord(reserves[ob.deposits[i].reserve])
               /\ TotalSupply(reserves[ob.deposits[i].reserve]) >= 0
               /\ ExchangeRate(reserves[ob.deposits[i].reserve]) > 0
    <3> DEFINE q == ob.deposits[i].reserve
    <3>1. ob.deposits[i] \in Entry
      BY OfObligation
    <3>2. q \in Reserve
      BY <3>1, EntryFields
    <3>3. TotalSupply(reserves[q]) >= 0 /\ ExchangeRate(reserves[q]) > 0
      BY DEF RefreshObligation, Exchangeable, Fits
    <3> HIDE DEF q
    <3>4. SoundRecord(reserves[q])
      BY <3>2, OfReserve
    <3> QED
      BY <3>3, <3>4 DEF q
  <2>2. ASSUME NEW i \in DOMAIN ob.borrows
        PROVE  /\ SoundRecord(reserves[ob.borrows[i].reserve])
               /\ reserves[ob.borrows[i].reserve].cumRate >= ob.borrows[i].cumRate
    <3> DEFINE q == ob.borrows[i].reserve
    <3>1. ob.borrows[i] \in Loan
      BY OfObligation
    <3>2. q \in Reserve
      BY <3>1, LoanFields
    <3>3. reserves[q].cumRate >= ob.borrows[i].cumRate
      BY DEF RefreshObligation, RateNotNegative
    <3> HIDE DEF q
    <3>4. SoundRecord(reserves[q])
      BY <3>2, OfReserve
    <3> QED
      BY <3>3, <3>4 DEF q
  <2> QED
    BY <2>1, <2>2 DEF Refreshable
<1> HIDE DEF ob
<1>5. y \in ObligationRecord /\ \A q : Held(y.deposits, q) = Held(ob.deposits, q)
  BY <1>2, <1>3, <1>4, RefreshedSound
<1> HIDE DEF y
<1>6. ctokens' \in [Reserve -> Int] /\ \A q \in Reserve : ctokens'[q] \in Int
  BY <1>1 DEF MarketInv, BooksInv
<1>7. ASSUME NEW q \in Reserve
      PROVE  ctokens'[q] = ctokens[q] + Held(obligations[o].deposits, q) - Held(y.deposits, q)
  <2>1. Held(ob.deposits, q) \in Nat
    BY <1>2, ObligationFields, EntriesAreSlots, HeldNat
  <2>2. ctokens'[q] = ctokens[q] /\ ctokens[q] \in Int
    BY <1>1, <1>6
  <2>3. Held(y.deposits, q) = Held(ob.deposits, q)
    BY <1>5
  <2> QED
    BY <2>1, <2>2, <2>3 DEF ob
<1> QED
  BY <1>1, <1>5, <1>6, <1>7, ObligationBooked

(* SetObligationCloseabilityStatus: no tokens.                             *)
LEMMA CloseabilityKeeps ==
  ASSUME MarketInv, NEW o \in Owner, NEW b \in BOOLEAN, SetObligationCloseability(o, b)
  PROVE  BooksInv' /\ [LimiterNext]_limiterVars
<1> DEFINE ob == obligations[o]
           y == [ob EXCEPT !.closeable = b]
<1>1. /\ obligations' = [obligations EXCEPT ![o] = y]
      /\ UNCHANGED <<oracle, reserves, vault, limiterVars, ctokens>>
  BY DEF SetObligationCloseability, Execute, NoLimiter
<1>2. ob \in ObligationRecord
  BY OfObligation
<1> HIDE DEF ob
<1>3. y \in ObligationRecord
  BY <1>2 DEF ObligationRecord
<1>4. y.deposits = ob.deposits
  BY <1>2 DEF ObligationRecord
<1> HIDE DEF y
<1>6. ctokens' \in [Reserve -> Int]
  BY <1>1 DEF MarketInv, BooksInv
<1>7. ASSUME NEW q \in Reserve
      PROVE  ctokens'[q] = ctokens[q] + Held(obligations[o].deposits, q) - Held(y.deposits, q)
  <2>1. Held(ob.deposits, q) \in Nat
    BY <1>2, ObligationFields, EntriesAreSlots, HeldNat
  <2>2. ctokens'[q] = ctokens[q] /\ ctokens[q] \in Int
    BY <1>1, OfReserve
  <2> QED
    BY <1>4, <2>1, <2>2 DEF ob
<1> QED
  BY <1>1, <1>3, <1>6, <1>7, ObligationBooked

(* DepositObligationCollateral: collateral tokens move from the users to   *)
(* the obligation.                                                         *)
LEMMA DepositCollateralKeeps ==
  ASSUME MarketInv, NEW o \in Owner, NEW r \in Reserve, NEW c \in Nat,
         DepositObligationCollateral(o, r, c)
  PROVE  BooksInv' /\ [LimiterNext]_limiterVars
<1> DEFINE ob == obligations[o]
           ds == DepositsAfter(ob.deposits, r, c)
           z == [ob EXCEPT !.deposits = ds]
           y == MarkStale(z)
<1>1. /\ obligations' = [obligations EXCEPT ![o] = MarkStale(Deposited(ob, r, c))]
      /\ UNCHANGED <<oracle, reserves, vault, limiterVars>>
      /\ ctokens' = [ctokens EXCEPT ![r] = ctokens[r] - c]
      /\ c \in 1 .. ctokens[r]
  BY DEF DepositObligationCollateral, Execute, NoLimiter, StoreObligation
<1>2. Deposited(ob, r, c) = z
  BY DEF Deposited, DepositsAfter
<1>3. ob \in ObligationRecord /\ ctokens[r] \in Int /\ c \in Nat \ {0}
  BY <1>1, OfObligation, OfReserve
<1>4. obligations' = [obligations EXCEPT ![o] = y]
  BY <1>1, <1>2
<1> HIDE DEF ob
<1>5. /\ ds \in Seq(Entry)
      /\ \A q : Held(ds, q) = Held(ob.deposits, q) + (IF q = r THEN c ELSE 0)
  <2>1. ob.deposits \in Seq(Entry)
    BY <1>3, ObligationFields
  <2> QED
    BY <1>3, <2>1, DepositRaised
<1> HIDE DEF ds
<1>6. z \in ObligationRecord /\ z.deposits = ds
  <2>1. z \in ObligationRecord
    BY <1>3, <1>5 DEF ObligationRecord
  <2>2. z.deposits = ds
    BY <1>3 DEF ObligationRecord
  <2> QED
    BY <2>1, <2>2
<1> HIDE DEF z
<1>7. y \in ObligationRecord /\ y.deposits = ds
  BY <1>6, StaleObligation
<1> HIDE DEF y
<1>8. ctokens \in [Reserve -> Int] /\ ctokens' \in [Reserve -> Int]
  <2>1. ctokens \in [Reserve -> Int]
    BY DEF MarketInv, BooksInv
  <2> QED
    BY <1>1, <1>3, <2>1
<1>9. ASSUME NEW q \in Reserve
      PROVE  ctokens'[q] = ctokens[q] + Held(obligations[o].deposits, q) - Held(y.deposits, q)
  <2>1. Held(ob.deposits, q) \in Nat
    BY <1>3, ObligationFields, EntriesAreSlots, HeldNat
  <2>2. ctokens'[q] = ctokens[q] - (IF q = r THEN c ELSE 0) /\ ctokens[q] \in Int
    BY <1>1, <1>3, <1>8
  <2>3. Held(y.deposits, q) = Held(ob.deposits, q) + (IF q = r THEN c ELSE 0)
    BY <1>5, <1>7
  <2> QED
    BY <1>3, <2>1, <2>2, <2>3 DEF ob
<1> QED
  BY <1>1, <1>4, <1>7, <1>8, <1>9, ObligationBooked

(* What Obligation::withdraw leaves of an obligation.                      *)
LEMMA Withdrawn ==
  ASSUME NEW ob \in ObligationRecord, NEW i \in DOMAIN ob.deposits, NEW n \in Nat,
         n <= ob.deposits[i].amount
  PROVE  /\ Withdraw(ob, n, i) \in ObligationRecord
         /\ \A q : Held(Withdraw(ob, n, i).deposits, q)
                     = Held(ob.deposits, q) - (IF ob.deposits[i].reserve = q THEN n ELSE 0)
<1> DEFINE ds == Lowered(ob.deposits, i, n)
           z == [ob EXCEPT !.deposits = ds]
<1>1. ob.deposits \in Seq(Entry)
  BY ObligationFields
<1>2. /\ ds \in Seq(Entry)
      /\ \A q : Held(ds, q) = Held(ob.deposits, q) - (IF ob.deposits[i].reserve = q THEN n ELSE 0)
  BY <1>1, DepositLowered
<1>3. Withdraw(ob, n, i) = z
  BY DEF Withdraw
<1> HIDE DEF ds
<1>4. z \in ObligationRecord
  BY <1>2 DEF ObligationRecord
<1>5. z.deposits = ds
  BY DEF ObligationRecord
<1> HIDE DEF z
<1> QED
  BY <1>2, <1>3, <1>4, <1>5

(* What Obligation::repay leaves of an obligation.                         *)
LEMMA Repaid ==
  ASSUME NEW ob \in ObligationRecord, NEW i \in DOMAIN ob.borrows, NEW a \in Nat,
         a <= ob.borrows[i].amount
  PROVE  Repay(ob, a, i) \in ObligationRecord /\ Repay(ob, a, i).deposits = ob.deposits
<1> DEFINE bs == Lowered(ob.borrows, i, a)
           z == [ob EXCEPT !.borrows = bs]
<1>1. ob.borrows \in Seq(Loan)
  BY ObligationFields
<1>2. bs \in Seq(Loan)
  BY <1>1, LoanLowered
<1>3. Repay(ob, a, i) = z
  BY DEF Repay
<1> HIDE DEF bs
<1>4. z \in ObligationRecord
  BY <1>2 DEF ObligationRecord
<1>5. z.deposits = ob.deposits
  BY DEF ObligationRecord
<1> QED
  BY <1>3, <1>4, <1>5

(* WithdrawObligationCollateral: collateral tokens move back, no more than *)
(* the deposit has.                                                        *)
LEMMA WithdrawCollateralKeeps ==
  ASSUME MarketInv, NEW o \in Owner, NEW r \in Reserve, NEW c \in Nat,
         WithdrawObligationCollateral(o, r, c)
  PROVE  BooksInv' /\ [LimiterNext]_limiterVars
<1> DEFINE ob == obligations[o]
           x == reserves[r]
<1>1. PICK i \in Found(ob.deposits, r) :
        LET most == MaxWithdrawAmount(ob, i, x)
            n == IF c = U64Max THEN most ELSE c
        IN  /\ n \in 1 .. most
            /\ StoreObligation(o, Withdraw(ob, n, i))
            /\ ctokens' = [ctokens EXCEPT ![r] = @ + n]
  BY DEF WithdrawObligationCollateral
<1> DEFINE most == MaxWithdrawAmount(ob, i, x)
           n == IF c = U64Max THEN most ELSE c
           y == MarkStale(Withdraw(ob, n, i))
<1>2. /\ n \in 1 .. most
      /\ obligations' = [obligations EXCEPT ![o] = y]
      /\ ctokens' = [ctokens EXCEPT ![r] = ctokens[r] + n]
      /\ UNCHANGED <<oracle, reserves, vault, limiterVars>>
      /\ \/ ob.borrows = <<>> \/ x.config.ltv = 0
         \/ PriceLowerBound(x) > 0 /\ TotalSupply(x) >= 0
  BY <1>1 DEF WithdrawObligationCollateral, Execute, NoLimiter, StoreObligation, Fits
<1>3. i \in DOMAIN ob.deposits /\ ob.deposits[i].reserve = r
  BY <1>1 DEF Found
<1>4. ob \in ObligationRecord /\ ob.deposits[i].amount \in Nat
  <2>1. ob \in ObligationRecord /\ ob.deposits[i] \in Entry
    BY <1>3, OfObligation
  <2> QED
    BY <2>1, EntryFields
<1>5. SoundRecord(x) /\ ctokens[r] \in Int
  BY OfReserve
<1> HIDE DEF ob, x
<1>6. most \in Nat /\ most <= ob.deposits[i].amount
  BY <1>2, <1>3, <1>4, <1>5, WithdrawBounded
<1> HIDE DEF most, n
<1>7. n \in Nat /\ n <= ob.deposits[i].amount
  BY <1>2, <1>4, <1>6
<1> DEFINE z == Withdraw(ob, n, i)
<1>8. /\ z \in ObligationRecord
      /\ \A q : Held(z.deposits, q) = Held(ob.deposits, q) - (IF r = q THEN n ELSE 0)
  BY <1>3, <1>4, <1>7, Withdrawn
<1> HIDE DEF z
<1>9. MarkStale(z) \in ObligationRecord /\ MarkStale(z).deposits = z.deposits
  BY <1>8, StaleObligation
<1>10. y \in ObligationRecord /\ y.deposits = z.deposits
  BY <1>9 DEF z
<1> HIDE DEF y
<1>11. ctokens \in [Reserve -> Int] /\ ctokens' \in [Reserve -> Int]
  <2>1. ctokens \in [Reserve -> Int]
    BY DEF MarketInv, BooksInv
  <2> QED
    BY <1>2, <1>5, <1>7, <2>1
<1>12. ASSUME NEW q \in Reserve
       PROVE  ctokens'[q] = ctokens[q] + Held(obligations[o].deposits, q) - Held(y.deposits, q)
  <2>1. Held(ob.deposits, q) \in Nat
    BY <1>4, ObligationFields, EntriesAreSlots, HeldNat
  <2>2. ctokens'[q] = ctokens[q] + (IF r = q THEN n ELSE 0) /\ ctokens[q] \in Int
    BY <1>2, <1>7, <1>11
  <2>3. Held(y.deposits, q) = Held(ob.deposits, q) - (IF r = q THEN n ELSE 0)
    BY <1>8, <1>10
  <2> QED
    BY <1>7, <2>1, <2>2, <2>3 DEF ob
<1> QED
  BY <1>2, <1>10, <1>11, <1>12, ObligationBooked

-----------------------------------------------------------------------------
(* 12. Instructions on an obligation and its reserves.                     *)

(* A step that changes what one obligation owes and what one reserve has   *)
(* lent, and moves the liquidity it books.                                 *)
LEMMA DebtBooked ==
  ASSUME MarketInv, NEW o \in Owner, NEW r \in Reserve, NEW y \in ObligationRecord,
         y.deposits = obligations[o].deposits,
         obligations' = [obligations EXCEPT ![o] = y],
         UNCHANGED <<oracle, ctokens>>,
         reserves' \in [Reserve -> ReserveRecord],
         \A q \in Reserve : ReserveSound(reserves'[q], slot'),
         \A q \in Reserve : q # r => reserves'[q] = reserves[q],
         reserves'[r].mintSupply = reserves[r].mintSupply,
         vault' = [vault EXCEPT ![r] = reserves'[r].available]
  PROVE  BooksInv'
<1>1. vault \in [Reserve -> Int] /\ ctokens \in [Reserve -> Int] /\ oracle \in Answers
  BY DEF MarketInv, BooksInv
<1>2. /\ obligations' \in [Owner -> ObligationRecord]
      /\ \A q : Collateral(obligations', q) = Collateral(obligations, q)
  <2>1. /\ obligations' \in [Owner -> ObligationRecord]
        /\ \A q : /\ Collateral(obligations', q)
                       = Collateral(obligations, q) - Held(obligations[o].deposits, q)
                           + Held(y.deposits, q)
                  /\ Collateral(obligations, q) \in Int
                  /\ Held(obligations[o].deposits, q) \in Int
    BY ObligationStored
  <2>2. ASSUME NEW q PROVE Collateral(obligations', q) = Collateral(obligations, q)
    <3> DEFINE a == Collateral(obligations, q)
               b == Collateral(obligations', q)
               h == Held(obligations[o].deposits, q)
    <3>1. b = a - h + h /\ a \in Int /\ h \in Int
      BY <2>1
    <3> HIDE DEF a, b, h
    <3>2. b = a
      BY <3>1
    <3> QED
      BY <3>2 DEF a, b
  <2> QED
    BY <2>1, <2>2
<1>3. reserves'[r].available \in Nat
  <2> DEFINE z == reserves'[r]
  <2>1. z \in ReserveRecord
    OBVIOUS
  <2> HIDE DEF z
  <2>2. z.available \in Nat
    BY <2>1, ReserveFields
  <2> QED
    BY <2>2 DEF z
<1>4. vault' \in [Reserve -> Int] /\ ctokens' \in [Reserve -> Int] /\ oracle' \in Answers
  BY <1>1, <1>3
<1>5. ASSUME NEW q \in Reserve
      PROVE  /\ vault'[q] = reserves'[q].available
             /\ reserves'[q].mintSupply = ctokens'[q] + Collateral(obligations', q)
  <2>1. /\ vault[q] = reserves[q].available
        /\ reserves[q].mintSupply = ctokens[q] + Collateral(obligations, q)
    BY OfReserve
  <2>2. Collateral(obligations', q) = Collateral(obligations, q)
    BY <1>2
  <2>3. reserves'[q].mintSupply = reserves[q].mintSupply
    <3>1. CASE q = r
      BY <3>1
    <3>2. CASE q # r
      BY <3>2
    <3> QED
      BY <3>1, <3>2
  <2>4. vault'[q] = reserves'[q].available
    <3>1. CASE q = r
      BY <1>1, <3>1
    <3>2. CASE q # r
      BY <1>1, <2>1, <3>2
    <3> QED
      BY <3>1, <3>2
  <2> QED
    BY <2>1, <2>2, <2>3, <2>4
<1> QED
  BY <1>2, <1>4, <1>5 DEF BooksInv, BookMatchesTokens

(* What a loan adds to an obligation.                                      *)
LEMMA Lent ==
  ASSUME NEW ob \in ObligationRecord, NEW r \in Reserve, NEW rate \in Rates,
         NEW a \in Nat \ {0}
  PROVE  /\ Borrowed(ob, r, rate, a) \in ObligationRecord
         /\ Borrowed(ob, r, rate, a).deposits = ob.deposits
<1> DEFINE bs == BorrowsAfter(ob.borrows, r, rate, a)
           z == [ob EXCEPT !.borrows = bs]
<1>1. ob.borrows \in Seq(Loan)
  BY ObligationFields
<1>2. bs \in Seq(Loan)
  BY <1>1, LoanRaised
<1>3. Borrowed(ob, r, rate, a) = z
  BY DEF Borrowed, BorrowsAfter
<1> HIDE DEF bs
<1>4. z \in ObligationRecord
  BY <1>2 DEF ObligationRecord
<1>5. z.deposits = ob.deposits
  BY DEF ObligationRecord
<1> QED
  BY <1>3, <1>4, <1>5

(* BorrowObligationLiquidity: the account pays the floor of what the       *)
(* reserve and the obligation book, and its value passes the limiter.      *)
LEMMA BorrowObligationLiquidityKeeps ==
  ASSUME MarketInv, NEW o \in Owner, NEW r \in Reserve, NEW n \in Nat,
         BorrowObligationLiquidity(o, r, n)
  PROVE  BooksInv' /\ [LimiterNext]_limiterVars
<1> DEFINE x == reserves[r]
           ob == obligations[o]
           spare == FromU64(x.config.borrowLimit) - x.borrowed
           remaining == Max({0, spare})
           value == RemainingBorrowValue(ob)
           rest == RemainingOutflow(limiter, slot)
           most == IF n = U64Max THEN Min({value, rest}) ELSE value
<1>1. /\ value > 0
      /\ n = U64Max => PriceUpperBound(x) > 0
      /\ UNCHANGED <<oracle, ctokens>>
      /\ \E b \in CalculateBorrow(x, n, most, remaining) :
           /\ b.receive > 0
           /\ Update(MarketValue(x, b.borrow))
           /\ Store(r, LiquidityBorrow(x, b.borrow))
           /\ StoreObligation(o, Borrowed(ob, r, x.cumRate, b.borrow))
           /\ Receive(r, b.receive + b.fee, b.fee)
  BY DEF BorrowObligationLiquidity, Execute
<1>2. /\ SoundRecord(x) /\ x \in ReserveRecord /\ vault[r] = x.available
      /\ x.available \in Nat
  BY OfReserve
<1>3. ob \in ObligationRecord
  BY OfObligation
<1>4. x.cumRate \in Rates /\ x.config \in ReserveConfig /\ x.borrowed \in Nat
  BY <1>2, ReserveFields DEF SoundRecord, Rates
<1>5. rest \in Nat
  BY RemainingNat DEF MarketInv
<1> HIDE DEF x, ob, rest
<1>6. remaining \in Nat
  <2>1. x.config.borrowLimit \in Nat
    BY <1>4 DEF ReserveConfig
  <2>2. FromU64(x.config.borrowLimit) \in Nat
    BY <2>1, DecimalNat
  <2>3. spare \in Int
    BY <1>4, <2>2
  <2> HIDE DEF spare
  <2>4. remaining \in {0, spare} /\ 0 <= remaining
    <3>1. 0 \in Int
      OBVIOUS
    <3> QED
      BY <2>3, <3>1, OfTwo, Zenon
  <2> QED
    BY <2>3, <2>4
<1>7. most \in Nat
  <2>1. value \in Nat
    <3>1. ob.allowed \in Nat /\ ob.upperBound \in Nat
      BY <1>3, ObligationFields
    <3> QED
      BY <1>1, <3>1 DEF RemainingBorrowValue
  <2> HIDE DEF value
  <2>2. Min({value, rest}) \in Nat
    BY <1>5, <2>1, LeastOfTwo
  <2> QED
    BY <2>1, <2>2
<1> HIDE DEF most, remaining
<1>8. PICK b \in CalculateBorrow(x, n, most, remaining) :
           /\ b.receive > 0
           /\ Update(MarketValue(x, b.borrow))
           /\ Store(r, LiquidityBorrow(x, b.borrow))
           /\ StoreObligation(o, Borrowed(ob, r, x.cumRate, b.borrow))
           /\ Receive(r, b.receive + b.fee, b.fee)
  BY <1>1
<1>9. /\ b.borrow \in Nat /\ b.borrow # 0
      /\ TryFloorU64(b.borrow) = b.receive + b.fee
  <2>1. /\ b.borrow \in Nat /\ b.fee \in Nat
        /\ TryFloorU64(b.borrow) = b.receive + b.fee
        /\ b.receive > 0 => b.borrow > 0
    BY <1>1, <1>2, <1>6, <1>7, BorrowBooked
  <2> QED
    BY <1>8, <2>1
<1> DEFINE a == b.borrow
           y == LiquidityBorrow(x, a)
           qty == MarketValue(x, a)
           z == Borrowed(ob, r, x.cumRate, a)
<1>10. /\ Store(r, y) /\ Update(qty)
       /\ obligations' = [obligations EXCEPT ![o] = MarkStale(z)]
       /\ vault' = [vault EXCEPT ![r] = vault[r] - TryFloorU64(a)]
  BY <1>8, <1>9 DEF Receive, StoreObligation
<1>11. qty \in Nat
  BY <1>2, <1>9, MarketValueNat
<1> HIDE DEF qty, a
<1>12. Rebooked(x, y) /\ y.available = x.available - TryFloorU64(a)
       /\ y.mintSupply = x.mintSupply
  BY <1>2, <1>9, BorrowRebooks DEF a
<1> HIDE DEF y
<1>13. z \in ObligationRecord /\ z.deposits = ob.deposits
  BY <1>3, <1>4, <1>9, Lent DEF a
<1> HIDE DEF z
<1>14. MarkStale(z) \in ObligationRecord /\ MarkStale(z).deposits = ob.deposits
  BY <1>13, StaleObligation
<1>15. slot' = slot /\ [LimiterNext]_limiterVars
  BY <1>10, <1>11 DEF LimiterNext, Update
<1>16. /\ reserves' \in [Reserve -> ReserveRecord]
       /\ \A q \in Reserve : ReserveSound(reserves'[q], slot')
       /\ reserves'[r].available = y.available
       /\ reserves'[r].mintSupply = y.mintSupply
       /\ \A q \in Reserve : q # r => reserves'[q] = reserves[q]
  BY <1>10, <1>12, <1>15, StoreKept DEF x
<1>17. vault' = [vault EXCEPT ![r] = reserves'[r].available]
  BY <1>2, <1>10, <1>12, <1>16
<1>18. reserves'[r].mintSupply = reserves[r].mintSupply
  BY <1>12, <1>16 DEF x
<1> QED
  BY <1>1, <1>10, <1>14, <1>15, <1>16, <1>17, <1>18, DebtBooked DEF ob

(* What a debt is repaid by is within it.                                  *)
LEMMA OfLoan ==
  ASSUME MarketInv, NEW o \in Owner, NEW r, NEW i \in Found(obligations[o].borrows, r),
         NEW n \in Nat
  PROVE  LET p == CalculateRepay(n, obligations[o].borrows[i].amount)
             z == Repay(obligations[o], p.settle, i)
         IN  /\ p.settle \in Nat /\ p.repay \in Nat
             /\ MarkStale(z) \in ObligationRecord
             /\ MarkStale(z).deposits = obligations[o].deposits
<1> DEFINE ob == obligations[o]
           p == CalculateRepay(n, ob.borrows[i].amount)
           z == Repay(ob, p.settle, i)
<1>1. i \in DOMAIN ob.borrows
  BY DEF Found
<1>2. ob \in ObligationRecord /\ ob.borrows[i] \in Loan
  BY <1>1, OfObligation
<1>3. ob.borrows[i].amount \in Nat
  BY <1>2, LoanFields
<1> HIDE DEF ob
<1>4. p.settle \in Nat /\ p.settle <= ob.borrows[i].amount /\ p.repay \in Nat
  BY <1>3, RepayBooked
<1> HIDE DEF p
<1>5. z \in ObligationRecord /\ z.deposits = ob.deposits
  BY <1>1, <1>2, <1>4, Repaid
<1> HIDE DEF z
<1>6. MarkStale(z) \in ObligationRecord /\ MarkStale(z).deposits = ob.deposits
  BY <1>5, StaleObligation
<1> QED
  BY <1>4, <1>6 DEF z, p, ob

(* RepayObligationLiquidity: the reserve books the tokens paid.            *)
LEMMA RepayObligationLiquidityKeeps ==
  ASSUME MarketInv, NEW o \in Owner, NEW r \in Reserve, NEW n \in Nat,
         RepayObligationLiquidity(o, r, n)
  PROVE  BooksInv' /\ [LimiterNext]_limiterVars
<1> DEFINE x == reserves[r]
<1>1. PICK i \in Found(obligations[o].borrows, r) :
        LET p == CalculateRepay(n, obligations[o].borrows[i].amount)
        IN  /\ Pay(r, p.repay)
            /\ Store(r, LiquidityRepay(x, p.repay, p.settle))
            /\ StoreObligation(o, Repay(obligations[o], p.settle, i))
  BY DEF RepayObligationLiquidity
<1> DEFINE p == CalculateRepay(n, obligations[o].borrows[i].amount)
           y == LiquidityRepay(x, p.repay, p.settle)
           z == MarkStale(Repay(obligations[o], p.settle, i))
<1>2. /\ Store(r, y)
      /\ obligations' = [obligations EXCEPT ![o] = z]
      /\ vault' = [vault EXCEPT ![r] = vault[r] + p.repay]
      /\ UNCHANGED <<oracle, ctokens, limiterVars>>
  BY <1>1 DEF RepayObligationLiquidity, Execute, NoLimiter, Pay, StoreObligation
<1>3. /\ p.settle \in Nat /\ p.repay \in Nat
      /\ z \in ObligationRecord /\ z.deposits = obligations[o].deposits
  BY OfLoan
<1> HIDE DEF p, z
<1>4. x \in ReserveRecord /\ vault[r] = x.available /\ x.available \in Nat
  BY OfReserve
<1>5. Rebooked(x, y) /\ y.available = x.available + p.repay /\ y.mintSupply = x.mintSupply
  BY <1>3, <1>4, RepayRebooks
<1> HIDE DEF y
<1>6. slot' = slot /\ [LimiterNext]_limiterVars
  BY <1>2, LimiterIdle
<1>7. /\ reserves' \in [Reserve -> ReserveRecord]
      /\ \A q \in Reserve : ReserveSound(reserves'[q], slot')
      /\ reserves'[r].available = y.available
      /\ reserves'[r].mintSupply = y.mintSupply
      /\ \A q \in Reserve : q # r => reserves'[q] = reserves[q]
  BY <1>2, <1>5, <1>6, StoreKept
<1>8. vault' = [vault EXCEPT ![r] = reserves'[r].available]
  BY <1>2, <1>4, <1>5, <1>7
<1> QED
  BY <1>2, <1>3, <1>5, <1>6, <1>7, <1>8, DebtBooked

(* ForgiveDebt: the debt goes, no tokens.                                  *)
LEMMA ForgiveObligationDebtKeeps ==
  ASSUME MarketInv, NEW o \in Owner, NEW r \in Reserve, NEW n \in Nat,
         ForgiveObligationDebt(o, r, n)
  PROVE  BooksInv' /\ [LimiterNext]_limiterVars
<1> DEFINE x == reserves[r]
<1>1. PICK i \in Found(obligations[o].borrows, r) :
        LET p == CalculateRepay(n, obligations[o].borrows[i].amount)
        IN  /\ Store(r, ForgiveDebt(x, p.settle))
            /\ StoreObligation(o, Repay(obligations[o], p.settle, i))
  BY DEF ForgiveObligationDebt
<1> DEFINE p == CalculateRepay(n, obligations[o].borrows[i].amount)
           y == ForgiveDebt(x, p.settle)
           z == MarkStale(Repay(obligations[o], p.settle, i))
<1>2. /\ Store(r, y)
      /\ obligations' = [obligations EXCEPT ![o] = z]
      /\ UNCHANGED <<oracle, ctokens, vault, limiterVars>>
  BY <1>1 DEF ForgiveObligationDebt, Execute, NoLimiter, StoreObligation
<1>3. /\ p.settle \in Nat
      /\ z \in ObligationRecord /\ z.deposits = obligations[o].deposits
  BY OfLoan
<1> HIDE DEF p, z
<1>4. x \in ReserveRecord /\ vault[r] = x.available
  BY OfReserve
<1>5. Rebooked(x, y) /\ y.available = x.available /\ y.mintSupply = x.mintSupply
  BY <1>3, <1>4, ForgiveRebooks
<1> HIDE DEF y
<1>6. slot' = slot /\ [LimiterNext]_limiterVars
  BY <1>2, LimiterIdle
<1>7. /\ reserves' \in [Reserve -> ReserveRecord]
      /\ \A q \in Reserve : ReserveSound(reserves'[q], slot')
      /\ reserves'[r].available = y.available
      /\ reserves'[r].mintSupply = y.mintSupply
      /\ \A q \in Reserve : q # r => reserves'[q] = reserves[q]
  BY <1>2, <1>5, <1>6, StoreKept
<1>8. vault' = [vault EXCEPT ![r] = reserves'[r].available]
  <2>1. vault \in [Reserve -> Int]
    BY DEF MarketInv, BooksInv
  <2> QED
    BY <1>2, <1>4, <1>5, <1>7, <2>1
<1> QED
  BY <1>2, <1>3, <1>5, <1>6, <1>7, <1>8, DebtBooked

(* The checks of a reserve's unsigned fields do not read whether it is     *)
(* stale.                                                                  *)
LEMMA StaleWellFormed ==
  ASSUME NEW x, NEW s \in Nat, ReserveSound(x, s), NEW y, Rebooked(x, y),
         WellFormed(MarkStale(y))
  PROVE  /\ ReserveSound(MarkStale(y), s)
         /\ MarkStale(y).available = y.available
         /\ MarkStale(y).mintSupply = y.mintSupply
<1> DEFINE z == MarkStale(y)
<1>1. y \in BookedRecord
  BY DEF Rebooked
<1>2. /\ z.available = y.available /\ z.mintSupply = y.mintSupply
      /\ z.borrowed = y.borrowed /\ z.fees = y.fees
  BY <1>1 DEF MarkStale, BookedRecord
<1> HIDE DEF z
<1>3. WellFormed(z)
  BY DEF z
<1>4. WellFormed(y)
  BY <1>2, <1>3 DEF WellFormed
<1> QED
  BY <1>4, StoredSound

(* What a liquidation does to the reserves and the tokens, once its        *)
(* amounts l are known.                                                    *)
Seizes(rb, rd, l) ==
  /\ WellFormed(MarkStale(LiquidityRepay(reserves[rb], l.repay, l.settle)))
  /\ \/ /\ Pay(rb, l.repay)
        /\ reserves' = [reserves EXCEPT ![rb] =
                          MarkStale(LiquidityRepay(reserves[rb], l.repay, l.settle))]
        /\ ctokens' = [ctokens EXCEPT ![rd] = @ + l.withdraw]
     \/ /\ Exchangeable(reserves[rd])
        /\ WellFormed(MarkStale(RedeemCollateral(reserves[rd], l.withdraw)))
        /\ UNCHANGED ctokens
        /\ reserves' = [reserves EXCEPT
                          ![rb] = MarkStale(LiquidityRepay(reserves[rb], l.repay, l.settle)),
                          ![rd] = MarkStale(RedeemCollateral(reserves[rd], l.withdraw))]
        /\ vault' = [vault EXCEPT ![rb] = @ + l.repay,
                                  ![rd] = @ - LiquidityFor(reserves[rd], l.withdraw)]

(* A liquidation moves by the amounts that calculate_liquidation gives for *)
(* the loan and the deposit it names.                                      *)
LEMMA LiquidationAmounts ==
  ASSUME MarketInv, NEW o \in Owner, NEW rb \in Reserve, NEW rd \in Reserve,
         NEW n \in Nat, NEW redeem \in BOOLEAN,
         LiquidateObligation(o, rb, rd, n, redeem)
  PROVE  \E l : /\ Seizes(rb, rd, l)
                /\ l.repay \in Nat /\ l.settle \in Nat /\ l.withdraw \in Nat
                /\ obligations' \in [Owner -> ObligationRecord]
                /\ \A q : /\ Collateral(obligations, q) \in Int
                          /\ Collateral(obligations', q)
                               = Collateral(obligations, q) - (IF rd = q THEN l.withdraw ELSE 0)
<1>1. PICK ib \in Found(obligations[o].borrows, rb), id \in Found(obligations[o].deposits, rd) :
        /\ obligations[o].borrows[ib].value > 0 /\ obligations[o].deposits[id].value > 0
        /\ \E bonus \in CalculateBonus(reserves[rd], obligations[o]) :
           \E l \in CalculateLiquidation(n, obligations[o], obligations[o].borrows[ib],
                                         obligations[o].deposits[id], bonus) :
             /\ Seizes(rb, rd, l)
             /\ StoreObligation(o, Withdraw(Repay(obligations[o], l.settle, ib), l.withdraw, id))
  BY DEF LiquidateObligation, Seizes
<1>2. PICK bonus \in CalculateBonus(reserves[rd], obligations[o]) :
           \E l \in CalculateLiquidation(n, obligations[o], obligations[o].borrows[ib],
                                         obligations[o].deposits[id], bonus) :
             /\ Seizes(rb, rd, l)
             /\ StoreObligation(o, Withdraw(Repay(obligations[o], l.settle, ib), l.withdraw, id))
  BY <1>1
<1>3. PICK l \in CalculateLiquidation(n, obligations[o], obligations[o].borrows[ib],
                                      obligations[o].deposits[id], bonus) :
             /\ Seizes(rb, rd, l)
             /\ StoreObligation(o, Withdraw(Repay(obligations[o], l.settle, ib), l.withdraw, id))
  BY <1>2
<1> DEFINE ob == obligations[o]
           b == ob.borrows[ib]
           d == ob.deposits[id]
<1>4. ib \in DOMAIN ob.borrows /\ id \in DOMAIN ob.deposits /\ d.reserve = rd
  BY DEF Found
<1>5. ob \in ObligationRecord /\ b \in Loan /\ d \in Entry
  BY <1>4, OfObligation
<1>6. SoundRecord(reserves[rd])
  BY OfReserve
<1>7. bonus.total \in Nat
  BY <1>5, <1>6, BonusNat
<1>8. /\ l.withdraw \in Nat /\ l.withdraw <= d.amount
      /\ l.settle \in Nat /\ l.settle <= b.amount /\ l.repay \in Nat
  <2> HIDE DEF b, d
  <2>1. l \in CalculateLiquidation(n, ob, b, d, bonus) /\ b.value > 0 /\ d.value > 0
    BY <1>1, <1>3 DEF b, d
  <2> HIDE DEF ob
  <2> QED
    BY <1>5, <1>7, <2>1, LiquidationBooked
<1> DEFINE w == Repay(ob, l.settle, ib)
           z == Withdraw(w, l.withdraw, id)
           y == MarkStale(z)
<1>9. obligations' = [obligations EXCEPT ![o] = y]
  BY <1>3 DEF StoreObligation
<1> HIDE DEF ob
<1>10. w \in ObligationRecord /\ w.deposits = ob.deposits
  BY <1>4, <1>5, <1>8, Repaid
<1> HIDE DEF w
<1>11. /\ z \in ObligationRecord
      /\ \A q : Held(z.deposits, q) = Held(ob.deposits, q) - (IF rd = q THEN l.withdraw ELSE 0)
  <2>1. id \in DOMAIN w.deposits /\ w.deposits[id] = d
    BY <1>4, <1>10
  <2>2. /\ z \in ObligationRecord
        /\ \A q : Held(z.deposits, q)
                    = Held(w.deposits, q) - (IF w.deposits[id].reserve = q THEN l.withdraw ELSE 0)
    BY <1>8, <1>10, <2>1, Withdrawn
  <2> HIDE DEF z, d
  <2> QED
    BY <1>4, <1>10, <2>1, <2>2
<1> HIDE DEF z
<1>12. y \in ObligationRecord /\ y.deposits = z.deposits
  BY <1>11, StaleObligation
<1> HIDE DEF y
<1>13. /\ obligations' \in [Owner -> ObligationRecord]
       /\ \A q : /\ Collateral(obligations', q)
                      = Collateral(obligations, q) - Held(obligations[o].deposits, q)
                          + Held(y.deposits, q)
                 /\ Collateral(obligations, q) \in Int
                 /\ Held(obligations[o].deposits, q) \in Int
  BY <1>9, <1>12, ObligationStored
<1>14. ASSUME NEW q
       PROVE  Collateral(obligations', q)
                = Collateral(obligations, q) - (IF rd = q THEN l.withdraw ELSE 0)
  <2> DEFINE a == Collateral(obligations, q)
             c == Collateral(obligations', q)
             h == Held(obligations[o].deposits, q)
             k == IF rd = q THEN l.withdraw ELSE 0
  <2>1. c = a - h + Held(y.deposits, q) /\ a \in Int /\ h \in Int
    BY <1>13
  <2>2. Held(y.deposits, q) = h - k
    BY <1>11, <1>12 DEF ob
  <2>3. k \in Int
    BY <1>8
  <2> HIDE DEF a, c, h, k
  <2>4. c = a - k
    BY <2>1, <2>2, <2>3
  <2> QED
    BY <2>4 DEF a, c, k
<1> QED
  BY <1>3, <1>8, <1>13, <1>14

(* LiquidateObligation: the repayment is booked in one reserve; the        *)
(* collateral leaves the obligation for the liquidator, or is burned and   *)
(* its liquidity paid out of the other reserve.                            *)
LEMMA LiquidateObligationKeeps ==
  ASSUME MarketInv, NEW o \in Owner, NEW rb \in Reserve, NEW rd \in Reserve, rd # rb,
         NEW n \in Nat, NEW redeem \in BOOLEAN,
         LiquidateObligation(o, rb, rd, n, redeem)
  PROVE  BooksInv' /\ [LimiterNext]_limiterVars
<1>1. PICK l : /\ Seizes(rb, rd, l)
               /\ l.repay \in Nat /\ l.settle \in Nat /\ l.withdraw \in Nat
               /\ obligations' \in [Owner -> ObligationRecord]
               /\ \A q : /\ Collateral(obligations, q) \in Int
                         /\ Collateral(obligations', q)
                              = Collateral(obligations, q) - (IF rd = q THEN l.withdraw ELSE 0)
  BY LiquidationAmounts
<1> DEFINE yb == LiquidityRepay(reserves[rb], l.repay, l.settle)
           yd == RedeemCollateral(reserves[rd], l.withdraw)
           out == LiquidityFor(reserves[rd], l.withdraw)
<1>3. /\ WellFormed(MarkStale(yb))
      /\ \/ /\ Pay(rb, l.repay)
            /\ reserves' = [reserves EXCEPT ![rb] = MarkStale(yb)]
            /\ ctokens' = [ctokens EXCEPT ![rd] = @ + l.withdraw]
         \/ /\ Exchangeable(reserves[rd])
            /\ WellFormed(MarkStale(yd)) /\ UNCHANGED ctokens
            /\ reserves' = [reserves EXCEPT ![rb] = MarkStale(yb), ![rd] = MarkStale(yd)]
            /\ vault' = [vault EXCEPT ![rb] = @ + l.repay, ![rd] = @ - out]
  BY <1>1, Zenon DEF Seizes
<1>4. /\ l.repay \in Nat /\ l.settle \in Nat /\ l.withdraw \in Nat
      /\ obligations' \in [Owner -> ObligationRecord]
      /\ \A q : /\ Collateral(obligations, q) \in Int
                /\ Collateral(obligations', q)
                     = Collateral(obligations, q) - (IF rd = q THEN l.withdraw ELSE 0)
  BY <1>1
<1>5. UNCHANGED <<oracle, limiterVars>>
  BY DEF LiquidateObligation, Execute, NoLimiter
<1>6. slot' = slot /\ [LimiterNext]_limiterVars
  BY <1>5, LimiterIdle
<1>7. /\ vault \in [Reserve -> Int] /\ ctokens \in [Reserve -> Int] /\ oracle' \in Answers
      /\ reserves \in [Reserve -> ReserveRecord]
  BY <1>5 DEF MarketInv, BooksInv
<1>8. /\ reserves[rb] \in ReserveRecord /\ ReserveSound(reserves[rb], slot) /\ slot \in Nat
      /\ reserves[rd] \in ReserveRecord /\ ReserveSound(reserves[rd], slot)
  BY OfReserve
<1> DEFINE b == MarkStale(yb)
           d == MarkStale(yd)
<1>9. /\ ReserveSound(b, slot)
      /\ b.available = reserves[rb].available + l.repay
      /\ b.mintSupply = reserves[rb].mintSupply
  <2> DEFINE y == yb
  <2>1. Rebooked(reserves[rb], y) /\ y.available = reserves[rb].available + l.repay
        /\ y.mintSupply = reserves[rb].mintSupply
    BY <1>4, <1>8, RepayRebooks
  <2>2. WellFormed(MarkStale(y))
    BY <1>3
  <2> HIDE DEF y
  <2>3. /\ ReserveSound(MarkStale(y), slot)
        /\ MarkStale(y).available = y.available /\ MarkStale(y).mintSupply = y.mintSupply
    BY <1>8, <2>1, <2>2, StaleWellFormed
  <2> QED
    BY <2>1, <2>3 DEF y
<1>10. b \in ReserveRecord
  BY <1>9 DEF ReserveSound, SoundRecord
<1>11. \A q \in Reserve : /\ vault[q] \in Int /\ ctokens[q] \in Int
                          /\ vault[q] = reserves[q].available
                          /\ reserves[q].mintSupply = ctokens[q] + Collateral(obligations, q)
                          /\ ReserveSound(reserves[q], slot)
  BY OfReserve
<1>12. CASE /\ Pay(rb, l.repay)
            /\ reserves' = [reserves EXCEPT ![rb] = b]
            /\ ctokens' = [ctokens EXCEPT ![rd] = @ + l.withdraw]
  <2>1. vault' = [vault EXCEPT ![rb] = vault[rb] + l.repay]
    BY <1>12 DEF Pay
  <2>2. vault' \in [Reserve -> Int] /\ ctokens' \in [Reserve -> Int]
    BY <1>4, <1>7, <1>12, <2>1
  <2> HIDE DEF b
  <2>3. /\ reserves' \in [Reserve -> ReserveRecord]
        /\ \A q \in Reserve : ReserveSound(reserves'[q], slot')
        /\ reserves'[rb] = b
        /\ \A q \in Reserve : q # rb => reserves'[q] = reserves[q]
    BY <1>6, <1>9, <1>12, ReserveStored
  <2>4. ASSUME NEW q \in Reserve
        PROVE  /\ vault'[q] = reserves'[q].available
               /\ reserves'[q].mintSupply = ctokens'[q] + Collateral(obligations', q)
    <3> DEFINE h == Collateral(obligations, q)
               k == Collateral(obligations', q)
    <3>1. h \in Int /\ k = h - (IF rd = q THEN l.withdraw ELSE 0)
      BY <1>4
    <3>2. reserves[q].mintSupply = ctokens[q] + h
      BY <1>11
    <3> HIDE DEF h, k
    <3>3. ctokens'[q] = ctokens[q] + (IF rd = q THEN l.withdraw ELSE 0)
      BY <1>4, <1>7, <1>12
    <3>4. reserves'[q].mintSupply = reserves[q].mintSupply
      BY <1>9, <2>3
    <3>5. reserves'[q].mintSupply = ctokens'[q] + k
      BY <1>4, <1>11, <3>1, <3>2, <3>3, <3>4
    <3>6. vault'[q] = reserves'[q].available
      <4>1. CASE q = rb
        BY <1>7, <1>9, <1>11, <2>1, <2>3, <4>1
      <4>2. CASE q # rb
        BY <1>7, <1>11, <2>1, <2>3, <4>2
      <4> QED
        BY <4>1, <4>2
    <3> QED
      BY <3>5, <3>6 DEF k
  <2>5. BooksInv'
    BY <1>4, <1>7, <2>2, <2>3, <2>4 DEF BooksInv, BookMatchesTokens
  <2> QED
    BY <1>6, <2>5
<1>13. CASE /\ Exchangeable(reserves[rd])
            /\ WellFormed(d) /\ UNCHANGED ctokens
            /\ reserves' = [reserves EXCEPT ![rb] = b, ![rd] = d]
            /\ vault' = [vault EXCEPT ![rb] = @ + l.repay, ![rd] = @ - out]
  <2>1. /\ ReserveSound(d, slot) /\ out \in Nat
        /\ d.available = reserves[rd].available - out
        /\ d.mintSupply = reserves[rd].mintSupply - l.withdraw
    <3> DEFINE y == yd
    <3>1. Rebooked(reserves[rd], y) /\ y.available = reserves[rd].available - out
          /\ y.mintSupply = reserves[rd].mintSupply - l.withdraw /\ out \in Nat
      BY <1>4, <1>8, <1>13, RedeemRebooks DEF Exchangeable, Fits
    <3>2. WellFormed(MarkStale(y))
      BY <1>13
    <3> HIDE DEF y
    <3>3. /\ ReserveSound(MarkStale(y), slot)
          /\ MarkStale(y).available = y.available /\ MarkStale(y).mintSupply = y.mintSupply
      BY <1>8, <3>1, <3>2, StaleWellFormed
    <3> QED
      BY <3>1, <3>3 DEF y
  <2>2. d \in ReserveRecord
    BY <2>1 DEF ReserveSound, SoundRecord
  <2> HIDE DEF b, d
  <2>3. /\ reserves' \in [Reserve -> ReserveRecord]
        /\ reserves'[rb] = b /\ reserves'[rd] = d
        /\ \A q \in Reserve : q # rb /\ q # rd => reserves'[q] = reserves[q]
    BY <1>7, <1>10, <1>13, <2>2
  <2> DEFINE k == out
  <2>4. k \in Nat /\ vault[rb] \in Int /\ vault[rd] \in Int
    BY <1>11, <2>1
  <2>5. vault' = [vault EXCEPT ![rb] = vault[rb] + l.repay, ![rd] = vault[rd] - k]
    BY <1>7, <1>13
  <2> HIDE DEF k
  <2>6. /\ vault' \in [Reserve -> Int]
        /\ vault'[rb] = vault[rb] + l.repay /\ vault'[rd] = vault[rd] - k
        /\ \A q \in Reserve : q # rb /\ q # rd => vault'[q] = vault[q]
    BY <1>4, <1>7, <2>4, <2>5
  <2>7. ASSUME NEW q \in Reserve PROVE ReserveSound(reserves'[q], slot')
    <3>1. CASE q = rb
      BY <1>6, <1>9, <2>3, <3>1
    <3>2. CASE q = rd
      BY <1>6, <2>1, <2>3, <3>2
    <3>3. CASE q # rb /\ q # rd
      BY <1>6, <1>11, <2>3, <3>3
    <3> QED
      BY <3>1, <3>2, <3>3
  <2>8. ASSUME NEW q \in Reserve
        PROVE  /\ vault'[q] = reserves'[q].available
               /\ reserves'[q].mintSupply = ctokens'[q] + Collateral(obligations', q)
    <3> DEFINE g == Collateral(obligations, q)
               h == Collateral(obligations', q)
    <3>1. g \in Int /\ h = g - (IF rd = q THEN l.withdraw ELSE 0)
      BY <1>4
    <3>2. reserves[q].mintSupply = ctokens[q] + g
      BY <1>11
    <3> HIDE DEF g, h
    <3>3. ctokens'[q] = ctokens[q] /\ ctokens[q] \in Int
      BY <1>11, <1>13
    <3>4. CASE q = rb
      <4>1. h = g
        BY <3>1, <3>4
      <4> QED
        BY <1>9, <1>11, <2>3, <2>6, <3>2, <3>3, <3>4, <4>1 DEF h
    <3>5. CASE q = rd
      <4>1. h = g - l.withdraw
        BY <3>1, <3>5
      <4>2. d.mintSupply = ctokens[q] + h
        BY <1>4, <2>1, <3>1, <3>2, <3>3, <3>5, <4>1
      <4>3. vault'[q] = d.available
        BY <1>11, <2>1, <2>6, <3>5 DEF k
      <4> QED
        BY <2>3, <3>3, <3>5, <4>2, <4>3 DEF h
    <3>6. CASE q # rb /\ q # rd
      <4>1. h = g
        BY <3>1, <3>6
      <4> QED
        BY <1>11, <2>3, <2>6, <3>2, <3>3, <3>6, <4>1 DEF h
    <3> QED
      BY <3>4, <3>5, <3>6
  <2>9. ctokens' \in [Reserve -> Int]
    BY <1>7, <1>13
  <2>10. BooksInv'
    BY <1>4, <1>7, <2>3, <2>6, <2>7, <2>8, <2>9 DEF BooksInv, BookMatchesTokens
  <2> QED
    BY <1>6, <2>10
<1> QED
  BY <1>3, <1>12, <1>13

-----------------------------------------------------------------------------
(* 13. The market.                                                         *)

(* The first deposit of a reserve mints one collateral token for each      *)
(* token (Reserve::deposit_liquidity on an empty reserve).                 *)
LEMMA FirstDeposit ==
  ASSUME NEW c \in ReserveConfig, ValidateReserveConfig(c), NEW s \in Nat, NEW price \in Nat,
         NEW smoothed \in Nat, NEW n \in Nat
  PROVE  LET y == DepositLiquidity(NewReserve(s, c, price, smoothed), n)
         IN  ReserveSound(y, s) /\ y.available = n /\ y.mintSupply = n
<1> DEFINE x == NewReserve(s, c, price, smoothed)
           y == DepositLiquidity(x, n)
           k == CollateralFor(x, n)
<1>1. Wad \in Nat /\ Wad >= Wad
  BY WadNat
<1>2. x \in ReserveRecord
  BY <1>1 DEF NewReserve, ReserveRecord
<1>3. /\ x.available = 0 /\ x.borrowed = 0 /\ x.fees = 0 /\ x.mintSupply = 0
      /\ x.cumRate = Wad /\ x.extra = {} /\ x.config = c
      /\ x.last = [slot |-> s, stale |-> TRUE]
  BY DEF NewReserve
<1> HIDE DEF x
<1>4. k = n
  <2> DEFINE m == FromU64(n)
  <2>1. m \in Nat
    BY DecimalNat
  <2>2. ExchangeRate(x) = Wad
    BY <1>3 DEF ExchangeRate
  <2>3. k = TryFloorU64(TryMul(m, Wad))
    BY <2>2 DEF CollateralFor, LiquidityToCollateral
  <2> HIDE DEF m
  <2>4. TryMul(m, Wad) <= m /\ TryMul(m, Wad) >= m /\ TryMul(m, Wad) \in Nat
    BY <1>1, <2>1, MulByFraction, DecimalNat
  <2>5. TryMul(m, Wad) = m
    BY <2>1, <2>4
  <2> QED
    BY <2>3, <2>5, FloorOfWhole DEF m
<1>5. y = [x EXCEPT !.mintSupply = x.mintSupply + k, !.available = x.available + n]
  BY DEF DepositLiquidity
<1> HIDE DEF k
<1>6. y = [x EXCEPT !.mintSupply = n, !.available = n]
  <2>1. x.mintSupply + k = n /\ x.available + n = n
    BY <1>3, <1>4
  <2> QED
    BY <1>5, <2>1
<1> HIDE DEF y
<1>7. y \in ReserveRecord
  BY <1>2, <1>6 DEF ReserveRecord
<1>8. /\ y.available = n /\ y.mintSupply = n /\ y.cumRate = Wad /\ y.extra = {}
      /\ y.config = c /\ y.last = [slot |-> s, stale |-> TRUE]
  BY <1>2, <1>3, <1>6 DEF ReserveRecord
<1>9. ReserveSound(y, s)
  BY <1>1, <1>7, <1>8 DEF ReserveSound, SoundRecord
<1> QED
  BY <1>8, <1>9 DEF y, x

(* The market starts with its books balanced.                              *)
LEMMA MarketInit ==
  ASSUME Init
  PROVE  MarketInv
<1>1. LimiterInv /\ slot = FirstSlot /\ FirstSlot \in Nat
  BY InitEstablishes, MaxSlotAssumption DEF Init, LimiterInit
<1>2. ASSUME NEW r \in Reserve
      PROVE  /\ ReserveSound(reserves[r], slot)
             /\ reserves[r].available = Supplied[r] /\ reserves[r].mintSupply = Supplied[r]
  <2> DEFINE c == FirstConfig(r)
             q == oracle[r]
             y == DepositLiquidity(NewReserve(FirstSlot, c, q.price, q.smoothed), Supplied[r])
  <2>1. c \in ReserveConfig /\ ValidateReserveConfig(c)
    BY ConfigsAssumption DEF FirstConfig
  <2>2. q \in Quotes[r]
    BY DEF Init, Answers
  <2>3. q \in Quote
    BY <2>2, QuotesAssumption
  <2>4. q.price \in Nat /\ q.smoothed \in Nat
    BY <2>3 DEF Quote
  <2>5. Supplied[r] \in Nat
    BY StockAssumption
  <2>6. reserves[r] = y
    BY DEF Init
  <2> HIDE DEF c, q
  <2>7. ReserveSound(y, FirstSlot) /\ y.available = Supplied[r] /\ y.mintSupply = Supplied[r]
    <3>1. ASSUME NEW s \in Nat, NEW p \in Nat, NEW m \in Nat, NEW n \in Nat,
                 s = FirstSlot, p = q.price, m = q.smoothed, n = Supplied[r]
          PROVE  ReserveSound(y, FirstSlot) /\ y.available = n /\ y.mintSupply = n
      <4> DEFINE z == DepositLiquidity(NewReserve(s, c, p, m), n)
      <4>1. ReserveSound(z, s) /\ z.available = n /\ z.mintSupply = n
        BY <2>1, FirstDeposit
      <4>2. z = y
        BY <3>1
      <4> HIDE DEF z, y
      <4> QED
        BY <3>1, <4>1, <4>2
    <3> HIDE DEF y
    <3>2. FirstSlot \in Nat
      BY <1>1
    <3> QED
      BY <2>4, <2>5, <3>1, <3>2
  <2> HIDE DEF y
  <2> QED
    BY <1>1, <2>6, <2>7
<1>3. reserves \in [Reserve -> ReserveRecord]
  <2>1. reserves = [r \in Reserve |-> reserves[r]]
    BY DEF Init
  <2>2. \A r \in Reserve : reserves[r] \in ReserveRecord
    BY <1>2 DEF ReserveSound, SoundRecord
  <2> QED
    BY <2>1, <2>2
<1>4. obligations \in [Owner -> ObligationRecord]
  <2> DEFINE x == NewObligation(FirstSlot)
             y == [x EXCEPT !.deposits = Pledged]
  <2>1. Pledged \in Seq(Entry)
    <3> DEFINE P == [reserve : Reserve, amount : Nat \ {0}, value : {0}]
    <3>1. \A e \in P : e \in Entry
      BY DEF Entry
    <3>2. Pledged \in Seq(P)
      BY StockAssumption
    <3> HIDE DEF P
    <3> QED
      BY <3>1, <3>2
  <2>2. <<>> \in Seq(Entry) /\ <<>> \in Seq(Loan)
    OBVIOUS
  <2>3. x \in ObligationRecord
    BY <1>1, <2>2 DEF NewObligation, ObligationRecord
  <2> HIDE DEF x
  <2>4. y \in ObligationRecord
    BY <2>1, <2>3 DEF ObligationRecord
  <2>5. obligations = [o \in Owner |-> y]
    BY DEF Init, x
  <2> HIDE DEF y
  <2> QED
    BY <2>4, <2>5
<1>5. vault = Supplied /\ vault \in [Reserve -> Int] /\ \A r \in Reserve : Supplied[r] \in Int
  BY StockAssumption DEF Init
<1>6. ASSUME NEW r \in Reserve
      PROVE  /\ ctokens[r] = Supplied[r] - Collateral(obligations, r)
             /\ Collateral(obligations, r) \in Int /\ ctokens[r] \in Int
  <2>1. Collateral(obligations, r) \in Nat
    BY <1>4, CollateralNat
  <2>2. ctokens[r] = Supplied[r] - Collateral(obligations, r)
    BY DEF Init
  <2> QED
    BY <1>5, <2>1, <2>2
<1>7. ctokens \in [Reserve -> Int]
  <2>1. ctokens = [r \in Reserve |-> ctokens[r]]
    BY DEF Init
  <2> QED
    BY <1>6, <2>1
<1>8. BookMatchesTokens
  <2> SUFFICES ASSUME NEW r \in Reserve
               PROVE  /\ vault[r] = reserves[r].available
                      /\ reserves[r].mintSupply = ctokens[r] + Collateral(obligations, r)
    BY DEF BookMatchesTokens
  <2> DEFINE k == Collateral(obligations, r)
  <2>1. k \in Int /\ ctokens[r] = Supplied[r] - k
    BY <1>6
  <2> HIDE DEF k
  <2>2. Supplied[r] = ctokens[r] + k
    BY <1>5, <2>1
  <2> QED
    BY <1>2, <1>5, <2>2 DEF k
<1>9. oracle \in Answers
  BY DEF Init
<1> QED
  BY <1>1, <1>2, <1>3, <1>4, <1>5, <1>7, <1>8, <1>9 DEF MarketInv, BooksInv

(* Every instruction and every slot keeps the books, and is a step of the  *)
(* limiter or none.                                                        *)
LEMMA MarketStep ==
  ASSUME MarketInv, [Next]_vars
  PROVE  MarketInv' /\ [LimiterNext]_limiterVars
<1>1. \A n \in Amounts : n \in Nat
  BY AmountsAssumption
<1>2. CASE UNCHANGED vars
  <2>1. UNCHANGED <<marketVars, limiterVars>>
    BY <1>2 DEF vars
  <2>2. slot' = slot /\ UNCHANGED limiterVars
    BY <2>1 DEF limiterVars
  <2>3. BooksInv'
    BY <2>1, <2>2 DEF MarketInv, BooksInv, BookMatchesTokens, marketVars, Answers
  <2>4. LimiterInv'
    BY <2>2, LimiterInductive DEF MarketInv
  <2> QED
    BY <2>2, <2>3, <2>4 DEF MarketInv
<1>3. ASSUME Next PROVE BooksInv' /\ [LimiterNext]_limiterVars
  <2>1. CASE NextSlot
    BY <2>1, NextSlotKeeps
  <2>2. ASSUME NEW r \in Reserve, RefreshReserve(r)
        PROVE  BooksInv' /\ [LimiterNext]_limiterVars
    BY <2>2, RefreshReserveKeeps
  <2>3. ASSUME NEW r \in Reserve, NEW c \in Configs[r], UpdateReserveConfig(r, c)
        PROVE  BooksInv' /\ [LimiterNext]_limiterVars
    BY <2>3, UpdateReserveConfigKeeps
  <2>4. ASSUME NEW r \in Reserve, RedeemFeesOf(r)
        PROVE  BooksInv' /\ [LimiterNext]_limiterVars
    BY <2>4, RedeemFeesKeeps
  <2>5. ASSUME NEW r \in Reserve, NEW n \in Amounts,
               \/ DepositReserveLiquidity(r, n) \/ RedeemReserveCollateral(r, n)
               \/ DonateToReserve(r, n) \/ FlashBorrowReserveLiquidity(r, n)
               \/ FlashRepayReserveLiquidity(r, n)
        PROVE  BooksInv' /\ [LimiterNext]_limiterVars
    BY <1>1, <2>5, DepositReserveLiquidityKeeps, RedeemReserveCollateralKeeps, DonateKeeps,
       FlashBorrowKeeps, FlashRepayKeeps
  <2>6. ASSUME NEW o \in Owner, RefreshObligation(o)
        PROVE  BooksInv' /\ [LimiterNext]_limiterVars
    BY <2>6, RefreshObligationKeeps
  <2>7. ASSUME NEW o \in Owner, NEW b \in BOOLEAN, SetObligationCloseability(o, b)
        PROVE  BooksInv' /\ [LimiterNext]_limiterVars
    BY <2>7, CloseabilityKeeps
  <2>8. ASSUME NEW o \in Owner, NEW r \in Reserve, NEW n \in Amounts,
               \/ DepositObligationCollateral(o, r, n) \/ WithdrawObligationCollateral(o, r, n)
               \/ BorrowObligationLiquidity(o, r, n) \/ RepayObligationLiquidity(o, r, n)
               \/ ForgiveObligationDebt(o, r, n)
        PROVE  BooksInv' /\ [LimiterNext]_limiterVars
    BY <1>1, <2>8, DepositCollateralKeeps, WithdrawCollateralKeeps,
       BorrowObligationLiquidityKeeps, RepayObligationLiquidityKeeps, ForgiveObligationDebtKeeps
  <2>9. ASSUME NEW o \in Owner, NEW r \in Reserve, NEW n \in Amounts,
               NEW rd \in Reserve \ {r}, NEW redeem \in BOOLEAN,
               LiquidateObligation(o, r, rd, n, redeem)
        PROVE  BooksInv' /\ [LimiterNext]_limiterVars
    BY <1>1, <2>9, LiquidateObligationKeeps
  <2> QED
    BY <1>3, <2>1, <2>2, <2>3, <2>4, <2>5, <2>6, <2>7, <2>8, <2>9 DEF Next
<1>4. CASE Next
  <2>1. BooksInv' /\ [LimiterNext]_limiterVars
    BY <1>3, <1>4
  <2>2. LimiterInv'
    BY <2>1, LimiterInductive DEF MarketInv
  <2> QED
    BY <2>1, <2>2 DEF MarketInv
<1> QED
  BY <1>2, <1>4

(* A reserve's available_amount is the balance of its supply account, and  *)
(* its mint_total_supply the collateral tokens that exist, in every market *)
(* and after every sequence of instructions.                               *)
THEOREM BooksBalance == Spec => []BookMatchesTokens
<1>1. MarketInv => BookMatchesTokens
  BY DEF MarketInv, BooksInv
<1>2. MarketInv /\ [Next]_vars => MarketInv'
  BY MarketStep
<1> QED
  BY MarketInit, <1>1, <1>2, PTL DEF Spec

(* No liquidation takes more collateral than there is, settles more than   *)
(* is owed or paid, or exceeds the close factor and the limit on one       *)
(* liquidation (Reserve::calculate_liquidation).                           *)
THEOREM LiquidationsBounded == Spec => []LiquidationBounded
<1>1. ASSUME MarketInv PROVE LiquidationBounded
  <2> SUFFICES ASSUME NEW o \in Owner, NEW b \in Range(obligations[o].borrows),
                      NEW d \in Range(obligations[o].deposits), NEW n \in Amounts,
                      b.value > 0 /\ d.value > 0,
                      NEW bonus \in CalculateBonus(reserves[d.reserve], obligations[o]),
                      NEW l \in CalculateLiquidation(n, obligations[o], b, d, bonus)
               PROVE  /\ l.withdraw <= d.amount /\ l.settle <= b.amount
                      /\ l.settle <= FromU64(l.repay)
                      /\ b.value > Wad =>
                           /\ l.settle <= FromU64(n)
                           /\ b.value * l.settle <= b.amount *
                                Min({TryMul(obligations[o].borrowedValue,
                                            FromPercent(LiquidationCloseFactor)),
                                     FromU64(MaxLiquidatableValue)})
    BY DEF LiquidationBounded
  <2>1. obligations[o] \in ObligationRecord /\ b \in Loan /\ d \in Entry
    <3>1. /\ obligations[o] \in ObligationRecord
          /\ \A i \in DOMAIN obligations[o].deposits : obligations[o].deposits[i] \in Entry
          /\ \A i \in DOMAIN obligations[o].borrows : obligations[o].borrows[i] \in Loan
      BY <1>1, OfObligation
    <3> QED
      BY <3>1 DEF Range
  <2>2. d.reserve \in Reserve /\ n \in Nat
    BY <2>1, EntryFields, AmountsAssumption
  <2>3. SoundRecord(reserves[d.reserve])
    BY <1>1, <2>2, OfReserve
  <2>4. bonus.total \in Nat
    BY <2>1, <2>3, BonusNat
  <2> QED
    BY <2>1, <2>2, <2>4, LiquidationBooked
<1>2. MarketInv /\ [Next]_vars => MarketInv'
  BY MarketStep
<1> QED
  BY MarketInit, <1>1, <1>2, PTL DEF Spec

(* The market uses the limiter as its interface allows: what leaves it is  *)
(* a Decimal that update admitted, and no instruction writes the limiter.  *)
THEOREM MarketImplementsLimiter == Spec => LimiterSpec
<1>1. Init => LimiterInit
  BY DEF Init
<1>2. MarketInv /\ [Next]_vars => MarketInv' /\ [LimiterNext]_limiterVars
  BY MarketStep
<1> QED
  BY MarketInit, <1>1, <1>2, PTL DEF Spec, LimiterSpec

(* So what the market's limiter remembers is what was redeemed and         *)
(* borrowed, and no window lets out more than the limit.                   *)
THEOREM MarketOutflowRemembered == Spec => []LimiterRemembersOutflow
  BY MarketImplementsLimiter, OutflowRemembered, PTL

(* And the value redeemed and borrowed from the market in any               *)
(* window_duration + 1 slots stays within twice the limit, which it may    *)
(* reach.                                                                  *)
THEOREM MarketOutflowBounded == Spec => []OutflowWithinTwiceLimit
  BY MarketImplementsLimiter, OutflowBounded, PTL
=============================================================================
