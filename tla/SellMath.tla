------------------------------ MODULE SellMath ------------------------------
(***************************************************************************)
(* onre-pricing::sell: ONyc to the payout asset.  The fee, the solvency    *)
(* bound, the dynamic wall under the pressure of the current and previous  *)
(* epoch, the TVL cap, the curve haircut and the cadence wave.             *)
(***************************************************************************)
EXTENDS BuyMath, HardWall

CONSTANTS
    MaxCadenceWave,     \* MAX_CADENCE_WAVE_SCALED
    CadenceWaveScale,   \* CADENCE_WAVE_SCALE
    CadenceWaveStep,    \* CADENCE_WAVE_STEP
    CadenceWaveEase,    \* CADENCE_WAVE_EASE
    CadenceCapDivisor   \* CADENCE_WAVE_CAP_DIVISOR

ASSUME CadenceAssumption ==
    /\ MaxCadenceWave \in Nat
    /\ {CadenceWaveScale, CadenceWaveStep, CadenceWaveEase, CadenceCapDivisor}
            \subseteq Nat \ {0}

DampeningState ==
    [max_haircut_bps : Nat, exponent_scaled : Nat, cadence_threshold : Nat,
     cadence_wave_scaled : Nat, wall_sensitivity_scaled : Nat, epoch_start : U64,
     epoch_duration_seconds : U64, sell_volume : U64, buy_volume : U64,
     sell_trade_count : Nat, prev_net_sell_volume : U64]

\* Mutant of RawAmountOut: the powers of ten of the two mints swapped.
RawAmountOut_Swapped(amountIn, price, feeBps, minFee, inDecimals, outDecimals) ==
    LET fee == CalculateFee(amountIn, feeBps)
    IN  IF amountIn < minFee THEN Err("InvalidAmount")
        ELSE Narrow(((amountIn - Greater(fee.val, minFee)) * price * TenTo[inDecimals])
                        \div TenTo[outDecimals + PriceDecimals])

\* The fee of a sell: never less than the minimal haircut.
SellFee(amountIn, feeBps, minFee) ==
    LET fee == CalculateFee(amountIn, feeBps)
    IN  IF fee.ok THEN Ok(Greater(fee.val, minFee)) ELSE fee

RawAmountOut(amountIn, price, feeBps, minFee, inDecimals, outDecimals) ==
    LET fee == SellFee(amountIn, feeBps, minFee)
        net == amountIn - fee.val
        unit == TenTo[outDecimals]
    IN  IF amountIn < minFee THEN Err("InvalidAmount")
        ELSE IF ~ConvertError(price, inDecimals, outDecimals).ok
             THEN ConvertError(price, inDecimals, outDecimals)
        ELSE IF ~fee.ok THEN fee
        ELSE IF net = 0 THEN Ok(0)
        ELSE IF ~MulFits(net * price, unit) THEN Overflow
        ELSE Narrow((net * price * unit) \div TenTo[inDecimals + PriceDecimals])

Tvl(price, supply) == Narrow((supply * price) \div TenTo[PriceDecimals])

\* The ceiling set by the TVL target; without a target the whole vault.
LiquidityCap(liquidity, tvl, targetBps, inDecimals, outDecimals) ==
    LET inOnyc == (tvl * targetBps) \div MaxBasisPoints
        target == (inOnyc * TenTo[outDecimals]) \div TenTo[inDecimals]
    IN  IF targetBps = 0 THEN Ok(liquidity)
        ELSE IF ~MulFits(inOnyc, TenTo[outDecimals]) THEN Overflow
        ELSE IF target = 0 THEN Err("InsufficientLiquidity")
        ELSE IF target > U64Max THEN Overflow
        ELSE Ok(Lesser(target, liquidity))

\* Mutant: the operands swapped.
CurrentNet_Swapped(d) == SatSub(d.buy_volume, d.sell_volume)

\* Mutant: buys counted as pressure.
CurrentNet_Gross(d) == d.sell_volume + d.buy_volume

CurrentNet(d) == SatSub(d.sell_volume, d.buy_volume)

Elapsed(d, time) == SatSub(time, d.epoch_start)

\* The recorded pressure has lapsed: no epoch yet, one that starts in the
\* future, or two epochs without a trade.
PressureLapsed(d, time) ==
    \/ time < d.epoch_start
    \/ d.epoch_start = 0
    \/ Elapsed(d, time) >= SatMul64(d.epoch_duration_seconds, 2)

\* Mutant: weighed by the time that has passed, not by the time that remains.
DecayedPrev_Grows(d, time) ==
    IF Elapsed(d, time) < d.epoch_duration_seconds
    THEN (d.prev_net_sell_volume * Elapsed(d, time)) \div d.epoch_duration_seconds
    ELSE CurrentNet(d)

\* The previous epoch's net volume as it weighs at time.
DecayedPrev(d, time) ==
    IF Elapsed(d, time) < d.epoch_duration_seconds
    THEN (d.prev_net_sell_volume * (d.epoch_duration_seconds - Elapsed(d, time)))
            \div d.epoch_duration_seconds
    ELSE CurrentNet(d)

\* Mutant: the epoch still current in the second that ends it.
EpochNet_Late(d, time) ==
    IF Elapsed(d, time) <= d.epoch_duration_seconds THEN CurrentNet(d) ELSE 0

EpochNet(d, time) ==
    IF Elapsed(d, time) < d.epoch_duration_seconds THEN CurrentNet(d) ELSE 0

\* preview_effective_sell_volume.
EffectiveSellVolume(d, incoming, time) ==
    LET recorded == CheckedAdd(DecayedPrev(d, time), EpochNet(d, time))
    IN  IF d.epoch_duration_seconds = 0 THEN Err("InvalidEpochDuration")
        ELSE IF PressureLapsed(d, time) THEN Ok(incoming)
        ELSE IF ~recorded.ok THEN Overflow
        ELSE CheckedAdd(recorded.val, incoming)

\* preview_current_sell_trade_count.
SellTradeCount(d, time) ==
    IF d.epoch_duration_seconds = 0 THEN Err("InvalidEpochDuration")
    ELSE IF \/ d.epoch_start = 0
            \/ d.epoch_start > time
            \/ Elapsed(d, time) >= d.epoch_duration_seconds
         THEN Ok(0)
    ELSE Ok(d.sell_trade_count)

CadenceRamp(d, count) ==
    IF count >= d.cadence_threshold THEN CadenceWaveScale
    ELSE (count * CadenceWaveScale) \div d.cadence_threshold

\* cadence_wave_y_scaled.
CadenceWave(d, time) ==
    LET count == SellTradeCount(d, time)
    IN  IF \/ d.cadence_threshold = 0
           \/ d.cadence_wave_scaled > MaxCadenceWave
           \/ d.cadence_wave_scaled % CadenceWaveStep # 0
        THEN Err("InvalidCadenceConfig")
        ELSE IF d.cadence_wave_scaled = 0 THEN Ok(0)
        ELSE IF ~count.ok THEN count
        ELSE Ok((d.cadence_wave_scaled * CadenceRamp(d, count.val)) \div CadenceWaveScale)

\* cadence_wave_target_haircut_scaled, at most the whole amount.
CadenceHaircut(utilization, wave) ==
    LET clamped == Lesser(utilization, HardWallScale)
        eased == clamped * CadenceWaveEase
        easedUtilization ==
            (eased * HardWallScale) \div (eased + (HardWallScale - clamped))
        target == (easedUtilization * wave) \div (CadenceWaveScale * CadenceCapDivisor)
    IN  IF wave = 0 THEN Ok(0)
        ELSE IF ~MulFits(eased, HardWallScale) \/ ~MulFits(easedUtilization, wave)
             THEN Overflow
        ELSE Ok(Lesser(target, HardWallScale))

\* dynamic_wall_liquidity_at_time.
EffectiveLiquidity(incoming, liquidity, cap, d, time) ==
    LET volume == EffectiveSellVolume(d, incoming, time)
        wall == DynamicWall(liquidity, volume.val, d.wall_sensitivity_scaled)
    IN  IF d.wall_sensitivity_scaled = 0 THEN Ok(Lesser(liquidity, cap))
        ELSE IF ~volume.ok THEN volume
        ELSE IF ~wall.ok THEN wall
        ELSE Ok(Lesser(wall.val, cap))

\* Mutant: what is left, not what is used.
Utilization_Left(amount, effective) ==
    (SatSub(effective, amount) * HardWallScale) \div effective

Utilization(amount, effective) ==
    IF amount = effective THEN HardWallScale ELSE (amount * HardWallScale) \div effective

\* What the haircut leaves of an amount, at a positive utilization.
Dampened(amount, utilization, d, time) ==
    LET curve == RedemptionHaircut(utilization, d.max_haircut_bps, d.exponent_scaled)
        wave == CadenceWave(d, time)
        cadence == CadenceHaircut(utilization, wave.val)
        factor == SatSub(HardWallScale, Greater(curve.val, cadence.val))
    IN  IF ~curve.ok THEN curve
        ELSE IF ~wave.ok THEN wave
        ELSE IF ~cadence.ok THEN cadence
        ELSE Narrow((amount * factor) \div HardWallScale)

\* Mutant: no check of the amount against the vault.
ApplyHardWall_Unbounded(amount, liquidity, cap, d, time) ==
    LET effective == EffectiveLiquidity(amount, liquidity, cap, d, time)
        utilization == Utilization(amount, effective.val)
    IN  IF liquidity = 0 \/ cap = 0 THEN Err("ZeroLiquidity")
        ELSE IF amount = 0 THEN Ok(0)
        ELSE IF ~effective.ok THEN effective
        ELSE IF utilization = 0 THEN Ok(amount)
        ELSE Dampened(amount, utilization, d, time)

\* apply_hard_wall_liquidity_factor_at_time.
ApplyHardWall(amount, liquidity, cap, d, time) ==
    LET effective == EffectiveLiquidity(amount, liquidity, cap, d, time)
        utilization == Utilization(amount, effective.val)
    IN  IF liquidity = 0 \/ cap = 0 THEN Err("ZeroLiquidity")
        ELSE IF amount = 0 THEN Ok(0)
        ELSE IF amount > liquidity THEN Err("InsufficientLiquidity")
        ELSE IF ~effective.ok THEN effective
        ELSE IF utilization = 0 THEN Ok(amount)
        ELSE Dampened(amount, utilization, d, time)

(***************************************************************************)
(* calculate_amount_out.  params has the fields of LiquidityParams.        *)
(***************************************************************************)
SellAmountOut(amountIn, price, time, feeBps, inDecimals, outDecimals, minFee, params) ==
    LET raw == RawAmountOut(amountIn, price, feeBps, minFee, inDecimals, outDecimals)
        tvl == Tvl(price, params.circulating_supply)
        cap == LiquidityCap(params.liquidity, tvl.val, params.liquidity_cap_target_bps,
                            inDecimals, outDecimals)
    IN  IF ~raw.ok THEN raw
        ELSE IF ~tvl.ok THEN tvl
        ELSE IF ~cap.ok THEN cap
        ELSE ApplyHardWall(raw.val, params.liquidity, cap.val, params.dampening, time)

SellFromVector(vector, time, amountIn, feeBps, inDecimals, outDecimals, minFee, params) ==
    LET price == StepPrice(vector, time)
    IN  IF ~price.ok THEN price
        ELSE SellAmountOut(amountIn, price.val, time, feeBps, inDecimals, outDecimals,
                           minFee, params)
=============================================================================
