----------------------------- MODULE SaveMath -----------------------------
(***************************************************************************)
(* Fixed-point arithmetic of the Save SDK (patches/solend-sdk/src/math).    *)
(* A Decimal or a Rate is a natural number scaled by Wad; every             *)
(* multiplication and division rounds down.  The SDK's checked operations   *)
(* return an error that aborts the instruction: here the result is a plain  *)
(* number, and the condition under which it is an error is a conjunct of    *)
(* the instruction that computes it (Fits, FitsU64, a non-zero divisor).    *)
(***************************************************************************)
EXTENDS Naturals, Integers

CONSTANTS
    Wad,      \* the scaled value of one; 10^18 in the code
    U64Max    \* u64::MAX, the largest amount and the sentinel for "all of it"

ASSUME WadAssumption == Wad \in Nat \ {0} /\ 100 * (Wad \div 100) = Wad
ASSUME U64MaxAssumption == U64Max \in Nat \ {0}

PercentScaler == Wad \div 100

FromU64(n) == n * Wad
FromPercent(p) == p * PercentScaler
FromDecaBps(d) == FromU64(d) \div 1000
FromBps(b) == FromU64(b) \div 10000

\* Decimal and Rate arithmetic: TryMulInt and TryDivInt take an unscaled operand.
TryMul(a, b) == (a * b) \div Wad
TryDiv(a, b) == (a * Wad) \div b
TryMulInt(a, n) == a * n
TryDivInt(a, n) == a \div n

TryFloorU64(a) == a \div Wad
TryCeilU64(a) == (a + Wad - 1) \div Wad
TryRoundU64(a) == (a + Wad \div 2) \div Wad

\* A checked subtraction succeeds, and a checked u64 addition fits.
Fits(a) == a >= 0
FitsU64(a) == a \in 0 .. U64Max

(***************************************************************************)
(* Rate::try_pow.  left[k] and square[k] are exp and base after k passes of *)
(* the loop, ret[k] the accumulator.  After exp passes nothing is left of   *)
(* exp, and a pass with nothing left changes no accumulator.                *)
(***************************************************************************)
TryPow(base, exp) ==
    LET left[k \in Nat] == IF k = 0 THEN exp ELSE left[k-1] \div 2
        square[k \in Nat] ==
            IF k = 0 THEN base ELSE TryMul(square[k-1], square[k-1])
        ret[k \in Nat] ==
            LET odd == left[k] % 2 # 0
            IN  IF k = 0 THEN IF odd THEN base ELSE Wad
                ELSE IF odd THEN TryMul(ret[k-1], square[k]) ELSE ret[k-1]
    IN  ret[exp]
============================================================================
