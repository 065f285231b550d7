------------------------------ MODULE Pricing ------------------------------
(***************************************************************************)
(* onre-pricing: vector selection, discrete-interval pricing, daily        *)
(* compounding with intraday interpolation, and the fee.  Every function   *)
(* returns the Result the code returns, its checks in the code's order.    *)
(***************************************************************************)
EXTENDS RustInt, Sequences

CONSTANTS
    Scale,          \* SCALE, the fixed point of the growth factor (1e18)
    AprDivisor,     \* 365 * APR_SCALE
    SecondsInDay,   \* SECONDS_IN_DAY
    MaxBasisPoints  \* MAX_BASIS_POINTS

\* The .expect of the daily factor and the unchecked sum next to it are safe.
ASSUME PricingAssumption ==
    /\ Scale \in Nat \ {0}
    /\ AprDivisor \in Nat \ {0}
    /\ SecondsInDay \in Nat \ {0}
    /\ MaxBasisPoints \in Nat \ {0}
    /\ U64Max * Scale + AprDivisor <= U128Max
    /\ U64Max * MaxBasisPoints + MaxBasisPoints <= U128Max

\* A pricing vector; the schedule of an offer is a sequence of them, the unused
\* ones zero.
PriceVector ==
    [start_time : U64, base_time : U64, base_price : U64, apr : U64,
     price_fix_duration : U64]

\* None is reported as an error.
MulDivRound(a, b, denom) ==
    IF denom = 0 \/ ~MulFits(a, b) \/ a * b > U128Max - denom \div 2
    THEN Overflow
    ELSE Ok((a * b + denom \div 2) \div denom)

(***************************************************************************)
(* pow_fixed: the loop's <<result, x, n>> as the argument of a recursive   *)
(* function, one turn of the loop per unfolding.  The square is taken only *)
(* when bits remain, so it cannot overflow after the last one.             *)
(***************************************************************************)
PowLoop(x0, n0, base) ==
    LET loop[s \in Int \X Int \X Nat] ==
            LET n == s[3]
                result == IF n % 2 = 1 THEN MulDivRound(s[1], s[2], base) ELSE Ok(s[1])
                square == MulDivRound(s[2], s[2], base)
            IN  IF ~result.ok \/ n \div 2 = 0 THEN result
                ELSE IF ~square.ok THEN square
                ELSE loop[<<result.val, square.val, n \div 2>>]
    IN  loop[<<base, x0, n0>>]

PowFixed(x0, n0, base) ==
    LET power == PowLoop(x0, n0, base)
    IN  IF power.ok THEN Ok(Clamp128(power.val)) ELSE Overflow

\* 1 + apr, per day, in fixed point.
DailyFactor(apr) == Scale + MulDivRound(apr, Scale, AprDivisor).val

\* Mutant: the day that has begun counts as a whole one.
FullDayPrice_Begun(apr, basePrice, elapsed) ==
    LET compound == PowFixed(DailyFactor(apr), elapsed \div SecondsInDay + 1, Scale)
    IN  IF compound.ok THEN MulDivRound(basePrice, compound.val, Scale) ELSE compound

\* The price after whole days, the next day's, and what the rest of a day adds.
FullDayPrice(apr, basePrice, elapsed) ==
    LET compound == PowFixed(DailyFactor(apr), elapsed \div SecondsInDay, Scale)
    IN  IF compound.ok THEN MulDivRound(basePrice, compound.val, Scale) ELSE compound

NextDayPrice(apr, fullDay) == MulDivRound(fullDay, DailyFactor(apr), Scale)

\* Mutant: the subtraction forgotten.
DailyDelta_Whole(apr, fullDay) == NextDayPrice(apr, fullDay).val

DailyDelta(apr, fullDay) == NextDayPrice(apr, fullDay).val - fullDay

\* Mutant: the fraction of the day upside down.
PartialDayDelta_Inverted(apr, fullDay, seconds) ==
    MulDivRound(DailyDelta(apr, fullDay), SecondsInDay, seconds)

PartialDayDelta(apr, fullDay, seconds) ==
    MulDivRound(DailyDelta(apr, fullDay), seconds, SecondsInDay)

IntradayPrice(apr, fullDay, seconds) ==
    LET delta == PartialDayDelta(apr, fullDay, seconds)
    IN  IF seconds = 0 THEN Narrow(fullDay)
        ELSE IF ~NextDayPrice(apr, fullDay).ok \/ ~delta.ok THEN Overflow
        ELSE Narrow(fullDay + delta.val)

\* Mutant: the result cast, not narrowed with a check.
VectorPrice_Unchecked(apr, basePrice, elapsed) ==
    LET fullDay == FullDayPrice(apr, basePrice, elapsed)
    IN  IF fullDay.ok
        THEN Ok(fullDay.val
                + PartialDayDelta(apr, fullDay.val, elapsed % SecondsInDay).val)
        ELSE fullDay

VectorPrice(apr, basePrice, elapsed) ==
    LET fullDay == FullDayPrice(apr, basePrice, elapsed)
    IN  IF fullDay.ok THEN IntradayPrice(apr, fullDay.val, elapsed % SecondsInDay)
        ELSE Overflow

\* Mutant: no snapping to intervals.
StepEnd_Continuous(vector, time) == time - vector.base_time + vector.price_fix_duration

\* The end of the interval that holds time, relative to base_time.
StepEnd(vector, time) ==
    ((time - vector.base_time) \div vector.price_fix_duration + 1)
        * vector.price_fix_duration

StepPrice(vector, time) ==
    IF vector.base_time > time THEN Err("TimeBeforeBase")
    ELSE IF vector.price_fix_duration = 0 THEN Err("ZeroPriceFixDurationNotAllowed")
    ELSE IF StepEnd(vector, time) > U64Max THEN Overflow
    ELSE VectorPrice(vector.apr, vector.base_price, StepEnd(vector, time))

\* Mutant: a vector starts the second after its start.
Started_Late(vectors, time) ==
    {i \in DOMAIN vectors : vectors[i].start_time # 0 /\ vectors[i].start_time < time}

\* The vectors that have started; max_by_key keeps the last of equal keys.
Started(vectors, time) ==
    {i \in DOMAIN vectors : vectors[i].start_time # 0 /\ vectors[i].start_time <= time}

FindActiveVector(vectors, time) ==
    LET latest(i, j) == \/ vectors[j].start_time < vectors[i].start_time
                        \/ vectors[j].start_time = vectors[i].start_time /\ j <= i
    IN  IF Started(vectors, time) = {} THEN Err("NoActiveVector")
        ELSE Ok(vectors[CHOOSE i \in Started(vectors, time) :
                            \A j \in Started(vectors, time) : latest(i, j)])

\* Mutant: the fee rounded down.
CalculateFee_Floor(amount, feeBps) ==
    IF feeBps > MaxBasisPoints THEN Err("InvalidBasisPoints")
    ELSE Narrow((amount * feeBps) \div MaxBasisPoints)

\* The ceiling-rounded fee in basis points.
CalculateFee(amount, feeBps) ==
    IF feeBps > MaxBasisPoints THEN Err("InvalidBasisPoints")
    ELSE Narrow(CeilDiv(amount * feeBps, MaxBasisPoints))

DeductFee(amount, feeBps) ==
    LET fee == CalculateFee(amount, feeBps)
    IN  IF fee.ok THEN Ok(amount - fee.val) ELSE fee
=============================================================================
