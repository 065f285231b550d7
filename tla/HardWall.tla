------------------------------ MODULE HardWall ------------------------------
(***************************************************************************)
(* onre-pricing::hard_wall_math: where the wall stands under sell          *)
(* pressure, and the haircut peg * utilization^exponent, with the          *)
(* saturating integer power and the Q fixed-point log2/exp2 of fractional  *)
(* exponents.                                                              *)
(***************************************************************************)
EXTENDS Pricing

CONSTANTS
    HardWallScale,          \* HARD_WALL_SCALE
    WallSensitivityScale,   \* WALL_SENSITIVITY_SCALE
    CurveExponentScale,     \* CURVE_EXPONENT_SCALE
    CurveExponentStep,      \* CURVE_EXPONENT_STEP
    U128Bits,               \* u128::BITS
    QShift,                 \* POW_APPROX_Q_SHIFT
    Ln2Q,                   \* POW_APPROX_LN2_Q
    Log2EQ,                 \* POW_APPROX_LOG2_E_Q
    Log2ScaleQ              \* LOG2_HARD_WALL_SCALE_Q

ASSUME HardWallAssumption ==
    /\ HardWallScale \in Nat \ {0}
    /\ WallSensitivityScale \in Nat \ {0}
    /\ CurveExponentScale \in Nat \ {0}
    /\ CurveExponentStep \in Nat \ {0}
    /\ U64Max * HardWallScale <= U128Max
    /\ HardWallScale * HardWallScale <= U128Max

\* Mutant: the pressure's quotient upside down.
DynamicWall_Inverted(liquidity, volume, sensitivity) ==
    IF volume = 0 THEN Ok(liquidity)
    ELSE Ok(Greater(1, (liquidity * WallSensitivityScale)
                       \div (WallSensitivityScale + (sensitivity * liquidity) \div volume)))

\* W = L / (1 + s * V / L), never 0.
DynamicWall(liquidity, volume, sensitivity) ==
    LET pressure == (sensitivity * volume) \div liquidity
        wall == (liquidity * WallSensitivityScale) \div (WallSensitivityScale + pressure)
    IN  IF volume = 0 THEN Ok(liquidity) ELSE Narrow(Greater(wall, 1))

ExponentOk(exponent) ==
    exponent <= 10 * CurveExponentScale /\ exponent % CurveExponentStep = 0

IntegerPower(utilization, exponent) ==
    LET power[k \in Nat] ==
            IF k = 0 THEN HardWallScale
            ELSE SatMul128(power[k - 1], utilization) \div HardWallScale
    IN  power[exponent]

TwoTo[k \in Nat] == IF k = 0 THEN 1 ELSE 2 * TwoTo[k - 1]

Q == TwoTo[QShift]
MulQ(a, b) == (a * b) \div Q
TruncDiv(a, b) == IF a >= 0 THEN a \div b ELSE -((-a) \div b)

\* The sum of n terms after the first: each is the one before times factor
\* over shrink[k], and adds its weigh[k]th part.
Series(first, factor, shrink, weigh, n) ==
    LET at[k \in Nat] ==
            IF k = 0 THEN [term |-> first, sum |-> first]
            ELSE LET before == at[k - 1]
                     term == MulQ(before.term, factor) \div shrink[k]
                 IN  [term |-> term, sum |-> before.sum + term \div weigh[k]]
    IN  at[n].sum

\* log2 of a mantissa between Q and 2Q: seven odd terms of ln.
Log2Mantissa(mantissa) ==
    LET z == ((mantissa - Q) * Q) \div (mantissa + Q)
        sum == Series(z, MulQ(z, z), [k \in Nat |-> 1], [k \in Nat |-> 2 * k + 1], 6)
    IN  MulQ(2 * sum, Log2EQ)

\* value scaled to between Q and 2Q, given its highest bit.
Mantissa(value, msb) ==
    IF msb >= QShift THEN value \div TwoTo[msb - QShift]
    ELSE value * TwoTo[QShift - msb]

HighestBit(value) ==
    CHOOSE m \in 0..(U128Bits - 1) : TwoTo[m] <= value /\ value < TwoTo[m + 1]

\* log2 of a positive u128 in Q.
Log2Q(value) ==
    HighestBit(value) * Q + Log2Mantissa(Mantissa(value, HighestBit(value)))

\* 2^fraction in Q, for a fraction of Q: ten Taylor terms of exp.
Exp2Fraction(fraction) ==
    Series(Q, MulQ(fraction, Ln2Q), [k \in Nat |-> k], [k \in Nat |-> 1], 10)

\* A shift by whole that saturates on the left and vanishes on the right.
Shifted(scaled, whole) ==
    IF whole >= U128Bits THEN U128Max
    ELSE IF whole >= 0
         THEN IF scaled > U128Max \div TwoTo[whole] THEN U128Max
              ELSE scaled * TwoTo[whole]
    ELSE IF -whole >= U128Bits THEN 0
    ELSE scaled \div TwoTo[-whole]

\* 2^value scaled by HardWallScale.
Exp2Q(value) ==
    LET whole == value \div Q
    IN  Shifted(MulQ(Exp2Fraction(value - whole * Q), HardWallScale), whole)

\* The widths are powers of two, the two approximations do not overshoot where
\* one octave meets the next, and LOG2_HARD_WALL_SCALE_Q is what log2_integer_q
\* makes of HARD_WALL_SCALE.
ASSUME ApproximationAssumption ==
    /\ {U128Bits, QShift, Ln2Q, Log2EQ, Log2ScaleQ} \subseteq Nat
    /\ U128Max < TwoTo[U128Bits]
    /\ Log2Mantissa(2 * Q) <= Q
    /\ Exp2Fraction(Q) <= 2 * Q
    /\ Log2Q(HardWallScale) = Log2ScaleQ

\* Mutant: the operands swapped.
FractionalPower_Swapped(utilization, exponent) ==
    Exp2Q(TruncDiv((Log2ScaleQ - Log2Q(utilization)) * exponent, CurveExponentScale))

FractionalPower(utilization, exponent) ==
    Exp2Q(TruncDiv((Log2Q(utilization) - Log2ScaleQ) * exponent, CurveExponentScale))

\* Utilization^exponent; only called with a valid exponent.
UtilizationPower(utilization, exponent) ==
    IF exponent = 0 \/ utilization = HardWallScale THEN HardWallScale
    ELSE IF exponent % CurveExponentScale = 0
         THEN IntegerPower(utilization, exponent \div CurveExponentScale)
    ELSE FractionalPower(utilization, exponent)

\* peg * utilization^exponent; the product saturates to the maximal haircut.
RedemptionHaircut(utilization, pegBps, exponent) ==
    LET peg == (HardWallScale * pegBps) \div MaxBasisPoints
        power == UtilizationPower(utilization, exponent)
    IN  IF ~ExponentOk(exponent) THEN Err("InvalidCurveExponent")
        ELSE IF peg = 0 THEN Ok(0)
        ELSE IF MulFits(power, peg) THEN Ok(Clamp128((power * peg) \div HardWallScale))
        ELSE Ok(U128Max)
=============================================================================
