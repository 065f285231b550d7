-------------------------- MODULE SellMath_proofs --------------------------
(***************************************************************************)
(* What a sell is paid is at most what the price makes of it and at most   *)
(* what the vault holds, for every width, scale and dampening state; it    *)
(* rises as the pressure falls and the vault fills; and the crate's        *)
(* preview of an epoch's roll is exact.                                    *)
(***************************************************************************)
EXTENDS PairTrades, BuyMath_proofs, WellFoundedInduction

\* The parameters and the trade count are naturals; the volumes may be anything.
Tuned(d) ==
    /\ {d.max_haircut_bps, d.exponent_scaled, d.cadence_threshold,
        d.cadence_wave_scaled, d.wall_sensitivity_scaled} \subseteq Nat
    /\ d.sell_trade_count \in Nat

\* A record with its widths has them.
LEMMA TypedTuned == ASSUME NEW d \in DampeningState PROVE Tuned(d)
BY DEF DampeningState, Tuned

\* The curve's haircut is a natural whatever the power does.
LEMMA HaircutTyped ==
    ASSUME NEW u, NEW bps, NEW exponent
    PROVE  RedemptionHaircut(u, bps, exponent).val \in Nat
BY WidthAssumption DEF RedemptionHaircut, Ok, Err, Clamp128, U128

\* An effective volume that is Ok is a u64.
LEMMA VolumeTyped ==
    ASSUME NEW d, NEW incoming \in U64, NEW time,
           EffectiveSellVolume(d, incoming, time).ok
    PROVE  EffectiveSellVolume(d, incoming, time).val \in U64
BY NarrowTyped DEF EffectiveSellVolume, CheckedAdd, Ok, Err, Overflow

\* The wall lets at least one unit through, as its final max says.
LEMMA WallPositive ==
    ASSUME NEW liquidity \in U64 \ {0}, NEW volume \in U64, NEW s \in Nat,
           DynamicWall(liquidity, volume, s).ok
    PROVE  DynamicWall(liquidity, volume, s).val \in U64 \ {0}
<1>1. U64 \subseteq Nat
  BY WidthAssumption DEF U64
<1>2. CASE volume = 0
  BY <1>2 DEF DynamicWall, Ok
<1>3. CASE volume # 0
  <2>. DEFINE pressure == (s * volume) \div liquidity
              wall == (liquidity * WallSensitivityScale)
                        \div (WallSensitivityScale + pressure)
  <2>1. pressure \in Nat
    BY <1>1, MulNat, DivNat
  <2>2. wall \in Nat
    <3>1. liquidity * WallSensitivityScale \in Nat
      BY <1>1, MulNat, HardWallAssumption
    <3>2. WallSensitivityScale + pressure \in Nat \ {0}
      BY <2>1, HardWallAssumption
    <3>. QED
      BY <3>1, <3>2, DivNat
  <2>3. DynamicWall(liquidity, volume, s) = Narrow(Greater(wall, 1))
    BY <1>3 DEF DynamicWall
  <2>4. Greater(wall, 1) # 0
    BY <2>2 DEF Greater
  <2>. QED
    BY <2>3, <2>4, NarrowTyped
<1>. QED
  BY <1>2, <1>3

\* The effective liquidity is never zero.
LEMMA EffectivePositive ==
    ASSUME NEW d, Tuned(d), NEW incoming \in U64,
           NEW liquidity \in U64 \ {0}, NEW cap \in U64 \ {0}, NEW time,
           EffectiveLiquidity(incoming, liquidity, cap, d, time).ok
    PROVE  EffectiveLiquidity(incoming, liquidity, cap, d, time).val \in U64 \ {0}
<1>. DEFINE volume == EffectiveSellVolume(d, incoming, time)
            wall == DynamicWall(liquidity, volume.val, d.wall_sensitivity_scaled)
<1>1. CASE d.wall_sensitivity_scaled = 0
  BY <1>1 DEF EffectiveLiquidity, Lesser, Ok
<1>2. CASE d.wall_sensitivity_scaled # 0
  <2>1. /\ volume.ok
        /\ wall.ok
        /\ EffectiveLiquidity(incoming, liquidity, cap, d, time) = Ok(Lesser(wall.val, cap))
    BY <1>2 DEF EffectiveLiquidity
  <2>2. volume.val \in U64
    BY <2>1, VolumeTyped
  <2>3. d.wall_sensitivity_scaled \in Nat
    BY DEF Tuned
  <2>4. wall.val \in U64 \ {0}
    BY <2>1, <2>2, <2>3, WallPositive
  <2>. QED
    BY <2>1, <2>4 DEF Lesser, Ok
<1>. QED
  BY <1>1, <1>2

\* Utilization is a natural.
LEMMA UtilizationTyped ==
    ASSUME NEW amount \in Nat, NEW effective \in Nat \ {0}
    PROVE  Utilization(amount, effective) \in Nat
BY HardWallAssumption, MulNat, DivNat DEF Utilization

\* Utilization is a u128, as the code widens it.
LEMMA UtilizationWithin ==
    ASSUME NEW amount \in U64, NEW effective \in Nat \ {0}
    PROVE  Utilization(amount, effective) <= U128Max
<1>1. /\ amount \in Nat /\ amount <= U64Max /\ U64Max \in Nat \ {0}
      /\ HardWallScale \in Nat \ {0} /\ U128Max \in Nat
  BY HardWallAssumption, WidthAssumption DEF U64
<1>. DEFINE n == amount * HardWallScale
            m == U64Max * HardWallScale
            q == n \div effective
<1>2. n \in Nat /\ m \in Nat /\ n <= m /\ m <= U128Max /\ HardWallScale <= m
  <2>1. HardWallScale <= HardWallScale
    BY <1>1
  <2>2. n <= m
    BY <1>1, <2>1, MulMono
  <2>3. HardWallScale <= m
    BY <1>1, SMTT(20)
  <2>. QED
    BY <1>1, <2>2, <2>3, MulNat, HardWallAssumption
<1>. HIDE DEF n, m
<1>3. q \in Nat /\ q <= n
  <2>1. q \in Nat /\ effective * q <= n
    BY <1>2, DivNat
  <2>. HIDE DEF q
  <2>2. q <= effective * q /\ effective * q \in Nat
    BY <2>1, SMTT(20)
  <2>. QED
    BY <1>2, <2>1, <2>2
<1>4. Utilization(amount, effective) = HardWallScale \/ Utilization(amount, effective) = q
  BY DEF Utilization, n
<1>. HIDE DEF q
<1>. QED
  BY <1>1, <1>2, <1>3, <1>4

\* The wave is a natural.
LEMMA WaveTyped ==
    ASSUME NEW d, Tuned(d), NEW time, CadenceWave(d, time).ok
    PROVE  CadenceWave(d, time).val \in Nat
<1>1. /\ d.cadence_wave_scaled \in Nat
      /\ d.cadence_threshold \in Nat
      /\ d.sell_trade_count \in Nat
  BY DEF Tuned
<1>2. CadenceWaveScale \in Nat \ {0}
  BY CadenceAssumption
<1>3. ASSUME NEW count \in Nat, d.cadence_threshold # 0
      PROVE  CadenceRamp(d, count) \in Nat
  BY <1>1, <1>2, <1>3, MulNat, DivNat DEF CadenceRamp
<1>4. CASE d.cadence_wave_scaled = 0
  BY <1>4 DEF CadenceWave, Ok, Err
<1>5. CASE d.cadence_wave_scaled # 0
  <2>. DEFINE count == SellTradeCount(d, time)
  <2>1. /\ d.cadence_threshold # 0
        /\ count.ok
        /\ CadenceWave(d, time) =
            Ok((d.cadence_wave_scaled * CadenceRamp(d, count.val)) \div CadenceWaveScale)
    BY <1>5 DEF CadenceWave, Ok, Err
  <2>2. count.val \in Nat
    BY <1>1, <2>1 DEF SellTradeCount, Ok, Err
  <2>3. d.cadence_wave_scaled * CadenceRamp(d, count.val) \in Nat
    BY <1>1, <1>3, <2>1, <2>2, MulNat
  <2>. QED
    BY <1>2, <2>1, <2>3, DivNat DEF Ok
<1>. QED
  BY <1>4, <1>5

\* The cadence haircut is a natural.
LEMMA CadenceTyped ==
    ASSUME NEW u \in Nat, NEW wave \in Nat
    PROVE  CadenceHaircut(u, wave).val \in Nat
<1>. DEFINE clamped == Lesser(u, HardWallScale)
            eased == clamped * CadenceWaveEase
            denominator == eased + (HardWallScale - clamped)
            easedUtilization == (eased * HardWallScale) \div denominator
            target == (easedUtilization * wave) \div (CadenceWaveScale * CadenceCapDivisor)
<1>1. HardWallScale \in Nat \ {0} /\ CadenceWaveEase \in Nat \ {0}
  BY HardWallAssumption, CadenceAssumption
<1>2. clamped \in 0..HardWallScale
  BY <1>1 DEF Lesser
<1>3. eased \in Nat
  BY <1>1, <1>2, MulNat
<1>4. denominator \in Nat \ {0}
  <2>1. CASE clamped = 0
    BY <1>1, <1>2, <1>3, <2>1
  <2>2. CASE clamped # 0
    <3>1. eased >= clamped
      BY <1>1, <1>2, <2>2, SMTT(20)
    <3>. QED
      BY <1>1, <1>2, <1>3, <2>2, <3>1
  <2>. QED
    BY <2>1, <2>2
<1>5. easedUtilization \in Nat
  BY <1>1, <1>3, <1>4, MulNat, DivNat
<1>6. CadenceWaveScale * CadenceCapDivisor \in Nat \ {0}
  BY CadenceAssumption, SMTT(20)
<1>7. target \in Nat
  BY <1>5, <1>6, MulNat, DivNat
<1>. QED
  BY <1>1, <1>7 DEF CadenceHaircut, Ok, Err, Overflow, Lesser

\* No haircut, however saturated, pays more than the amount.
LEMMA DampenedBounded ==
    ASSUME NEW d, Tuned(d), NEW amount \in Nat, NEW u \in Nat, NEW time,
           Dampened(amount, u, d, time).ok
    PROVE  Dampened(amount, u, d, time).val \in 0..amount
<1>. DEFINE curve == RedemptionHaircut(u, d.max_haircut_bps, d.exponent_scaled)
            wave == CadenceWave(d, time)
            cadence == CadenceHaircut(u, wave.val)
            factor == SatSub(HardWallScale, Greater(curve.val, cadence.val))
            paid == (amount * factor) \div HardWallScale
<1>1. curve.ok /\ wave.ok /\ cadence.ok /\ Dampened(amount, u, d, time) = Narrow(paid)
  BY DEF Dampened
<1>2. curve.val \in Nat
  BY HaircutTyped
<1>3. cadence.val \in Nat
  BY <1>1, WaveTyped, CadenceTyped
<1>4. factor \in 0..HardWallScale
  BY <1>2, <1>3, HardWallAssumption DEF SatSub, Greater
<1>5. paid \in 0..amount
  BY <1>4, HardWallAssumption, ScaleDown
<1>. QED
  BY <1>1, <1>5, NarrowTyped

\* What the wall lets through is a u64.
LEMMA WallPaid ==
    ASSUME NEW amount \in U64, NEW liquidity, NEW cap, NEW d, NEW time,
           ApplyHardWall(amount, liquidity, cap, d, time).ok
    PROVE  ApplyHardWall(amount, liquidity, cap, d, time).val \in U64
<1>1. \A u : Dampened(amount, u, d, time).ok => Dampened(amount, u, d, time).val \in U64
  BY NarrowTyped DEF Dampened
<1>. QED
  BY <1>1, Naturals64 DEF ApplyHardWall, Ok, Err

\* The solvency bound of a sell: what apply_hard_wall pays is at most the
\* undampened amount and at most the balance of the vault.
THEOREM HardWallBounded ==
    ASSUME NEW d \in DampeningState, NEW amount \in U64, NEW liquidity \in U64,
           NEW cap \in U64, NEW time,
           ApplyHardWall(amount, liquidity, cap, d, time).ok
    PROVE  /\ ApplyHardWall(amount, liquidity, cap, d, time).val \in 0..amount
           /\ ApplyHardWall(amount, liquidity, cap, d, time).val <= liquidity
<1>. DEFINE effective == EffectiveLiquidity(amount, liquidity, cap, d, time)
            u == Utilization(amount, effective.val)
<1>1. U64 \subseteq Nat
  BY WidthAssumption DEF U64
<1>2. CASE amount = 0
  BY <1>1, <1>2 DEF ApplyHardWall, Ok, Err
<1>3. CASE amount # 0
  <2>1. /\ liquidity # 0
        /\ cap # 0
        /\ ~(amount > liquidity)
        /\ effective.ok
        /\ ApplyHardWall(amount, liquidity, cap, d, time)
             = IF u = 0 THEN Ok(amount) ELSE Dampened(amount, u, d, time)
    BY <1>3 DEF ApplyHardWall, Err
  <2>2. effective.val \in U64 \ {0}
    BY <2>1, TypedTuned, EffectivePositive
  <2>3. u \in Nat
    BY <1>1, <2>2, UtilizationTyped
  <2>4. ApplyHardWall(amount, liquidity, cap, d, time).val \in 0..amount
    BY <1>1, <2>1, <2>3, TypedTuned, DampenedBounded DEF Ok
  <2>. QED
    BY <1>1, <2>1, <2>4
<1>. QED
  BY <1>2, <1>3

\* The TVL ceiling is a u64 or an error.
LEMMA CapTyped ==
    ASSUME NEW liquidity \in U64, NEW tvl \in U64, NEW bps \in Nat,
           NEW inDecimals \in 0..MaxTokenDecimals, NEW outDecimals \in 0..MaxTokenDecimals,
           LiquidityCap(liquidity, tvl, bps, inDecimals, outDecimals).ok
    PROVE  LiquidityCap(liquidity, tvl, bps, inDecimals, outDecimals).val \in U64
<1>. DEFINE inOnyc == (tvl * bps) \div MaxBasisPoints
            scaled == inOnyc * TenTo[outDecimals]
            target == scaled \div TenTo[inDecimals]
<1>1. tvl \in Nat /\ MaxBasisPoints \in Nat \ {0}
  BY PricingAssumption, WidthAssumption DEF U64
<1>2. TenTo[outDecimals] \in Nat \ {0} /\ TenTo[inDecimals] \in Nat \ {0}
  BY DecimalsAssumption
<1>3. tvl * bps \in Nat
  BY <1>1, MulNat
<1>4. inOnyc \in Nat
  BY <1>1, <1>3, DivNat
<1>5. scaled \in Nat
  BY <1>2, <1>4, MulNat
<1>6. target \in Nat
  BY <1>2, <1>5, DivNat
<1>. HIDE DEF target
<1>7. CASE bps = 0
  BY <1>7 DEF LiquidityCap, Ok
<1>8. CASE bps # 0
  <2>1. ~(target > U64Max)
    BY <1>8, Zenon DEF LiquidityCap, Err, Overflow, target
  <2>2. LiquidityCap(liquidity, tvl, bps, inDecimals, outDecimals)
             = Ok(Lesser(target, liquidity))
    BY <1>8, <2>1, Zenon DEF LiquidityCap, Err, Overflow, target
  <2>3. Lesser(target, liquidity) \in U64
    BY <1>6, <2>1, WidthAssumption DEF Lesser, U64
  <2>. QED
    BY <2>2, <2>3 DEF Ok
<1>. QED
  BY <1>7, <1>8

\* The undampened payout is a u64 or an error, and only decimals the tables
\* know get that far.
LEMMA RawTyped ==
    ASSUME NEW amountIn, NEW price, NEW feeBps, NEW minFee,
           NEW inDecimals \in Nat, NEW outDecimals \in Nat,
           RawAmountOut(amountIn, price, feeBps, minFee, inDecimals, outDecimals).ok
    PROVE  /\ RawAmountOut(amountIn, price, feeBps, minFee, inDecimals, outDecimals).val
                 \in U64
           /\ inDecimals \in 0..MaxTokenDecimals
           /\ outDecimals \in 0..MaxTokenDecimals
<1>. DEFINE raw == RawAmountOut(amountIn, price, feeBps, minFee, inDecimals, outDecimals)
            fee == SellFee(amountIn, feeBps, minFee)
            net == amountIn - fee.val
            paid == (net * price * TenTo[outDecimals])
                       \div TenTo[inDecimals + PriceDecimals]
<1>1. ConvertError(price, inDecimals, outDecimals).ok
  BY DEF RawAmountOut, Err
<1>2. ~(inDecimals > MaxTokenDecimals \/ outDecimals > MaxTokenDecimals)
  BY <1>1 DEF ConvertError, Err
<1>3. inDecimals \in 0..MaxTokenDecimals /\ outDecimals \in 0..MaxTokenDecimals
  BY <1>2, DecimalsAssumption
<1>4. raw = Ok(0) \/ (raw = Narrow(paid) /\ Narrow(paid).ok)
  <2>. HIDE DEF net, fee, paid
  <2>. QED
    BY <1>1 DEF RawAmountOut, Err, Overflow, net, fee, paid
<1>5. raw.val \in U64
  <2>. HIDE DEF raw, paid
  <2>. QED
    BY <1>4, NarrowTyped, WidthAssumption DEF Ok, U64
<1>. QED
  BY <1>3, <1>5

\* Whatever the vector, the fee, the TVL target and the pressure: a sell is
\* never paid more than the vault holds.
THEOREM SellWithinVault ==
    ASSUME NEW vector, NEW time, NEW amountIn, NEW feeBps, NEW minFee,
           NEW inDecimals \in Nat, NEW outDecimals \in Nat, NEW params,
           params.liquidity \in U64,
           params.liquidity_cap_target_bps \in Nat,
           params.dampening \in DampeningState,
           SellFromVector(vector, time, amountIn, feeBps, inDecimals, outDecimals,
                          minFee, params).ok
    PROVE  SellFromVector(vector, time, amountIn, feeBps, inDecimals, outDecimals,
                          minFee, params).val \in 0..params.liquidity
<1>. DEFINE price == StepPrice(vector, time)
            raw == RawAmountOut(amountIn, price.val, feeBps, minFee, inDecimals, outDecimals)
            tvl == Tvl(price.val, params.circulating_supply)
            cap == LiquidityCap(params.liquidity, tvl.val,
                                params.liquidity_cap_target_bps, inDecimals, outDecimals)
            paid == ApplyHardWall(raw.val, params.liquidity, cap.val, params.dampening, time)
            quoted == SellFromVector(vector, time, amountIn, feeBps, inDecimals,
                                     outDecimals, minFee, params)
<1>1. quoted = paid /\ raw.ok /\ tvl.ok /\ cap.ok /\ paid.ok
  <2>. HIDE DEF price, raw, tvl, cap, paid
  <2>. QED
    BY DEF SellFromVector, SellAmountOut, price, raw, tvl, cap, paid
<1>2. raw.val \in U64 /\ inDecimals \in 0..MaxTokenDecimals
      /\ outDecimals \in 0..MaxTokenDecimals
  BY <1>1, RawTyped
<1>3. tvl.val \in U64
  BY <1>1, NarrowTyped DEF Tvl
<1>4. cap.val \in U64
  <2>. HIDE DEF tvl
  <2>. QED
    BY <1>1, <1>2, <1>3, CapTyped
<1>5. paid.val \in 0..raw.val /\ paid.val <= params.liquidity
  <2>. HIDE DEF raw, cap
  <2>. QED
    BY <1>1, <1>2, <1>4, HardWallBounded
<1>6. params.liquidity \in Nat /\ raw.val \in Nat
  BY <1>2, WidthAssumption DEF U64
<1>. HIDE DEF paid, raw
<1>. QED
  BY <1>1, <1>5, <1>6

\* The wall only takes: a sell that pays is priced, and paid at most what the
\* price makes of it.
LEMMA SellBelowRaw ==
    ASSUME NEW vector, NEW time, NEW amountIn, NEW feeBps, NEW minFee,
           NEW inDecimals \in Nat, NEW outDecimals \in Nat, NEW params,
           params.liquidity \in U64,
           params.liquidity_cap_target_bps \in Nat,
           params.dampening \in DampeningState,
           SellFromVector(vector, time, amountIn, feeBps, inDecimals, outDecimals,
                          minFee, params).ok
    PROVE  LET price == StepPrice(vector, time)
               raw == RawAmountOut(amountIn, price.val, feeBps, minFee, inDecimals,
                                   outDecimals)
           IN  /\ price.ok
               /\ raw.ok
               /\ SellFromVector(vector, time, amountIn, feeBps, inDecimals, outDecimals,
                                 minFee, params).val \in 0..raw.val
<1>. DEFINE price == StepPrice(vector, time)
            raw == RawAmountOut(amountIn, price.val, feeBps, minFee, inDecimals, outDecimals)
            tvl == Tvl(price.val, params.circulating_supply)
            cap == LiquidityCap(params.liquidity, tvl.val,
                                params.liquidity_cap_target_bps, inDecimals, outDecimals)
            paid == ApplyHardWall(raw.val, params.liquidity, cap.val, params.dampening, time)
            quoted == SellFromVector(vector, time, amountIn, feeBps, inDecimals,
                                     outDecimals, minFee, params)
<1>1. quoted = paid /\ price.ok /\ raw.ok /\ tvl.ok /\ cap.ok /\ paid.ok
  <2>. HIDE DEF price, raw, tvl, cap, paid
  <2>. QED
    BY DEF SellFromVector, SellAmountOut, price, raw, tvl, cap, paid
<1>2. raw.val \in U64 /\ inDecimals \in 0..MaxTokenDecimals
      /\ outDecimals \in 0..MaxTokenDecimals
  BY <1>1, RawTyped
<1>3. tvl.val \in U64
  BY <1>1, NarrowTyped DEF Tvl
<1>4. cap.val \in U64
  <2>. HIDE DEF tvl
  <2>. QED
    BY <1>1, <1>2, <1>3, CapTyped
<1>5. paid.val \in 0..raw.val
  <2>. HIDE DEF raw, cap
  <2>. QED
    BY <1>1, <1>2, <1>4, HardWallBounded
<1>. HIDE DEF paid, raw, price
<1>6. price.ok /\ raw.ok /\ quoted.val \in 0..raw.val
  BY <1>1, <1>5
<1>. QED
  BY <1>6 DEF raw, price

\* What a sell is worth before the wall when it is worth anything: its fee is
\* part of it, and the rest is converted and rounded down.
LEMMA RawConverts ==
    ASSUME NEW amount \in U64, NEW price, NEW bps \in Nat, NEW minFee \in Nat,
           NEW inDecimals, NEW outDecimals,
           RawAmountOut(amount, price, bps, minFee, inDecimals, outDecimals).ok
    PROVE  LET raw == RawAmountOut(amount, price, bps, minFee, inDecimals, outDecimals)
           IN  \/ raw.val = 0
               \/ \E net \in 0..amount :
                    raw.val = (net * price * TenTo[outDecimals])
                                \div TenTo[inDecimals + PriceDecimals]
<1>. DEFINE raw == RawAmountOut(amount, price, bps, minFee, inDecimals, outDecimals)
            fee == SellFee(amount, bps, minFee)
            net == amount - fee.val
            worth == (net * price * TenTo[outDecimals]) \div TenTo[inDecimals + PriceDecimals]
<1>1. /\ ~(amount < minFee)
      /\ fee.ok
      /\ raw = Ok(0) \/ (raw = Narrow(worth) /\ Narrow(worth).ok)
  <2>. HIDE DEF net, fee, worth
  <2>. QED
    BY DEF RawAmountOut, Err, Overflow, net, fee, worth
<1>2. net \in 0..amount
  <2>. DEFINE part == CeilDiv(amount * bps, MaxBasisPoints)
  <2>1. CalculateFee(amount, bps).ok
    BY <1>1, Zenon DEF SellFee
  <2>2. ~(bps > MaxBasisPoints) /\ CalculateFee(amount, bps) = Narrow(part)
    BY <2>1, Zenon DEF CalculateFee, Err
  <2>3. bps \in 0..MaxBasisPoints /\ amount \in Nat
    BY <2>2, PricingAssumption, Naturals64
  <2>4. part \in 0..amount
    BY <2>3, FeeWithin
  <2>. HIDE DEF part
  <2>5. CalculateFee(amount, bps).val = part
    BY <2>1, <2>2, NarrowTyped
  <2>6. fee.val = Greater(part, minFee)
    BY <2>1, <2>5 DEF SellFee, Ok
  <2>. QED
    BY <1>1, <2>3, <2>4, <2>6 DEF Greater
<1>. HIDE DEF net, fee
<1>3. raw.val = 0 \/ raw.val = worth
  <2>. HIDE DEF worth, raw
  <2>. QED
    BY <1>1, NarrowTyped DEF Ok
<1>. QED
  BY <1>2, <1>3

\* Converting there and back at one price loses: both quotients are rounded
\* down, with the price and the decimals of the two mints in opposite places.
LEMMA ThereAndBack ==
    ASSUME NEW paid \in Nat, NEW net \in 0..paid, NEW price \in Nat \ {0},
           NEW in \in Nat \ {0}, NEW out \in Nat \ {0},
           NEW back \in 0..((net * out) \div (price * in))
    PROVE  (back * price * in) \div out <= paid
<1>. DEFINE rate == price * in
            bought == (net * out) \div rate
            value == back * price * in
<1>1. rate \in Nat \ {0} /\ net \in Nat /\ net * out \in Nat
  BY MulNat, SMTT(20)
<1>2. bought \in Nat /\ rate * bought <= net * out
  <2>. HIDE DEF rate
  <2>. QED
    BY <1>1, DivNat
<1>3. back \in Nat /\ back <= bought
  BY <1>2
<1>4. value = rate * back
  BY <1>3, SMTT(20)
<1>. HIDE DEF rate, bought, value
<1>5. rate * back <= rate * bought /\ net * out <= paid * out
  BY <1>1, <1>2, <1>3, MulMono
<1>6. value \in Nat /\ rate * bought \in Nat /\ paid * out \in Nat
  BY <1>1, <1>2, <1>3, <1>4, MulNat
<1>7. value <= paid * out
  BY <1>1, <1>2, <1>4, <1>5, <1>6
<1>8. value \div out <= (paid * out) \div out
  BY <1>6, <1>7, DivMono
<1>9. (paid * out) \div out = paid
  <2>. DEFINE q == (paid * out) \div out
  <2>1. q \in Nat /\ out * q <= paid * out /\ paid * out < out * q + out
    BY <1>6, DivNat
  <2>. HIDE DEF q
  <2>2. CASE q > paid
    <3>1. out * (paid + 1) <= out * q
      BY <2>1, <2>2, MulMono
    <3>2. out * (paid + 1) = paid * out + out
      BY SMTT(20)
    <3>3. out * q \in Nat
      BY <2>1, MulNat
    <3>. QED
      BY <1>6, <2>1, <3>1, <3>2, <3>3
  <2>3. CASE q < paid
    <3>1. out * (q + 1) <= out * paid
      BY <2>1, <2>3, MulMono
    <3>2. out * (q + 1) = out * q + out /\ out * paid = paid * out
      BY <2>1, SMTT(20)
    <3>3. out * q \in Nat
      BY <2>1, MulNat
    <3>. QED
      BY <1>6, <2>1, <3>1, <3>2, <3>3
  <2>. QED
    BY <2>1, <2>2, <2>3 DEF q
<1>10. value \div out \in Nat /\ (paid * out) \div out \in Nat
  BY <1>6, DivNat
<1>. QED
  BY <1>8, <1>9, <1>10 DEF value

\* A buy sold back at the price it was made at is worth at most what was paid
\* for it, whatever the fees and the decimals.
LEMMA RoundTripLoses ==
    ASSUME NEW paid \in U64, NEW price \in Nat, NEW buyBps \in Nat, NEW sellBps \in Nat,
           NEW minFee \in Nat, NEW inDecimals \in Nat, NEW outDecimals \in Nat,
           NEW bought,
           BuyAmountOut(paid, price, buyBps, inDecimals, outDecimals).ok,
           BuyAmountOut(paid, price, buyBps, inDecimals, outDecimals).val = bought,
           RawAmountOut(bought, price, sellBps, minFee, outDecimals, inDecimals).ok
    PROVE  RawAmountOut(bought, price, sellBps, minFee, outDecimals, inDecimals).val <= paid
<1>. DEFINE raw == RawAmountOut(bought, price, sellBps, minFee, outDecimals, inDecimals)
            net == NetOf(paid, buyBps)
            in == TenTo[inDecimals]
            out == TenTo[outDecimals + PriceDecimals]
            buy == BuyAmountOut(paid, price, buyBps, inDecimals, outDecimals)
<1>1. buy.ok /\ buy.val = bought
  OBVIOUS
<1>2. price # 0 /\ inDecimals \in 0..MaxTokenDecimals /\ outDecimals \in 0..MaxTokenDecimals
  BY <1>1, BuyDefined
<1>3. in \in Nat \ {0} /\ out \in Nat \ {0}
  <2>1. /\ outDecimals + PriceDecimals \in 0..(MaxTokenDecimals + PriceDecimals)
        /\ inDecimals \in 0..(MaxTokenDecimals + PriceDecimals)
    BY <1>2, DecimalsAssumption
  <2>. QED
    BY <2>1, DecimalsAssumption
<1>4. buyBps \in 0..MaxBasisPoints
  <2>1. DeductFee(paid, buyBps).ok
    BY <1>1, Zenon DEF BuyAmountOut
  <2>2. ~(buyBps > MaxBasisPoints)
    BY <2>1 DEF DeductFee, CalculateFee, Err
  <2>. QED
    BY <2>2, PricingAssumption
<1>5. /\ MulFits(net, out)
      /\ Narrow(Converted(net, price, inDecimals, outDecimals)).ok
      /\ bought = Narrow(Converted(net, price, inDecimals, outDecimals)).val
  <2>1. buy = IF MulFits(net, out)
              THEN Narrow(Converted(net, price, inDecimals, outDecimals))
              ELSE Overflow
    BY <1>2, <1>4, BuyConverts
  <2>. HIDE DEF buy, net, out
  <2>. QED
    BY <1>1, <2>1 DEF Overflow, Err
<1>6. bought \in U64 /\ bought = (net * out) \div (price * in)
  BY <1>5, NarrowTyped DEF Converted
<1>7. net \in 0..paid /\ paid \in Nat
  <2>1. CeilDiv(paid * buyBps, MaxBasisPoints) \in 0..paid /\ paid \in Nat
    BY <1>4, FeeWithin, Naturals64
  <2>. QED
    BY <2>1 DEF NetOf
<1>. HIDE DEF net, in, out, buy
<1>8. raw.val = 0 \/ \E back \in 0..bought : raw.val = (back * price * in) \div out
  BY <1>6, RawConverts DEF in, out
<1>9. CASE raw.val = 0
  BY <1>7, <1>9
<1>10. ASSUME NEW back \in 0..bought, raw.val = (back * price * in) \div out
       PROVE  raw.val <= paid
  <2>. HIDE DEF raw
  <2>. QED
    BY <1>2, <1>3, <1>6, <1>7, <1>10, ThereAndBack
<1>. QED
  BY <1>8, <1>9, <1>10
-----------------------------------------------------------------------------
(***************************************************************************)
(* The power of a whole exponent is monotone.  Induction over the naturals *)
(* is stated of sets, where the provers can apply it.                      *)
(***************************************************************************)
\* A set of naturals that holds 0 and every successor holds them all.
LEMMA SetInduction ==
    ASSUME NEW I \in SUBSET Nat, 0 \in I, \A n \in I : n + 1 \in I
    PROVE  I = Nat
<1>. DEFINE R == OpToRel(<, Nat)
            T == Nat \ I
<1>1. SUFFICES ASSUME T # {} PROVE FALSE
  OBVIOUS
<1>2. PICK m \in T : \A n \in T : ~ (<<n, m>> \in R)
  <2>1. T \subseteq Nat
    OBVIOUS
  <2>. HIDE DEF R, T
  <2>. QED
    BY <1>1, <2>1, NatLessThanWellFounded, WFMin DEF R
<1>3. m \in Nat /\ m # 0 /\ m - 1 \in Nat
  OBVIOUS
<1>4. m - 1 \in I
  <2>1. SUFFICES ASSUME m - 1 \in T PROVE FALSE
    BY <1>3
  <2>2. <<m - 1, m>> \in R
    BY <1>3 DEF OpToRel
  <2>. QED
    BY <1>2, <2>1, <2>2
<1>. QED
  BY <1>3, <1>4

\* The first n values from a, each made of the one before by a turn of H.
Iterated(f, n, a, H) ==
    /\ f \in [0..n -> Nat]
    /\ f[0] = a
    /\ \A k \in 0..n : k # n => f[k + 1] = H[k][f[k]]

\* Such turns may be taken for ever.
LEMMA Iterates ==
    ASSUME NEW a \in Nat, NEW H \in [Nat -> [Nat -> Nat]]
    PROVE  \E f \in [Nat -> Nat] : f[0] = a /\ \A n \in Nat : f[n + 1] = H[n][f[n]]
<1>1. \A n \in Nat : \E f : Iterated(f, n, a, H)
  <2>. DEFINE I == {n \in Nat : \E f : Iterated(f, n, a, H)}
  <2>1. 0 \in I
    <3>1. Iterated([k \in 0..0 |-> a], 0, a, H)
      BY DEF Iterated
    <3>. QED
      BY <3>1
  <2>2. ASSUME NEW n \in I PROVE n + 1 \in I
    <3>1. PICK f : Iterated(f, n, a, H)
      OBVIOUS
    <3>. DEFINE g == [k \in 0..(n + 1) |-> IF k = n + 1 THEN H[n][f[n]] ELSE f[k]]
    <3>2. n \in Nat
      OBVIOUS
    <3>3. f[n] \in Nat /\ H[n][f[n]] \in Nat
      <4>1. f[n] \in Nat
        BY <3>1, <3>2 DEF Iterated
      <4>2. H[n] \in [Nat -> Nat]
        BY <3>2
      <4>. QED
        BY <4>1, <4>2
    <3>4. g \in [0..(n + 1) -> Nat] /\ g[0] = a
      <4>1. ASSUME NEW k \in 0..(n + 1), k # n + 1 PROVE f[k] \in Nat
        <5>1. k \in 0..n
          BY <3>2, <4>1
        <5>2. f \in [0..n -> Nat]
          BY <3>1 DEF Iterated
        <5>. QED
          BY <5>1, <5>2
      <4>2. \A k \in 0..(n + 1) : g[k] \in Nat
        BY <3>3, <4>1
      <4>3. 0 \in 0..(n + 1) /\ 0 # n + 1 /\ f[0] = a
        BY <3>1, <3>2 DEF Iterated
      <4>. QED
        BY <4>2, <4>3
    <3>5. ASSUME NEW k \in 0..(n + 1), k # n + 1 PROVE g[k + 1] = H[k][g[k]]
      <4>1. k \in 0..n /\ g[k] = f[k]
        BY <3>2, <3>5
      <4>2. CASE k = n
        BY <3>2, <4>1, <4>2
      <4>3. CASE k # n
        <5>1. k + 1 \in 0..n /\ k + 1 # n + 1
          BY <3>2, <4>1, <4>3
        <5>2. g[k + 1] = f[k + 1]
          BY <3>2, <5>1
        <5>. QED
          BY <3>1, <4>1, <4>3, <5>2 DEF Iterated
      <4>. QED
        BY <4>2, <4>3
    <3>6. Iterated(g, n + 1, a, H)
      <4>. HIDE DEF g
      <4>. QED
        BY <3>4, <3>5 DEF Iterated
    <3>. QED
      BY <3>2, <3>6
  <2>3. I = Nat
    <3>1. I \in SUBSET Nat
      OBVIOUS
    <3>. HIDE DEF I
    <3>. QED
      BY <2>1, <2>2, <3>1, SetInduction
  <2>. QED
    BY <2>3
<1>2. ASSUME NEW n \in Nat, NEW f, NEW g, Iterated(f, n, a, H),
             Iterated(g, n + 1, a, H)
      PROVE  f[n] = g[n] /\ g[n + 1] = H[n][g[n]]
  <2>. DEFINE I == {k \in Nat : k <= n => f[k] = g[k]}
  <2>1. 0 \in I
    BY <1>2 DEF Iterated
  <2>2. ASSUME NEW k \in I PROVE k + 1 \in I
    <3>1. k \in Nat
      OBVIOUS
    <3>2. ASSUME k + 1 <= n PROVE f[k + 1] = g[k + 1]
      <4>1. k \in 0..n /\ k # n /\ k \in 0..(n + 1) /\ k # n + 1
        BY <3>1, <3>2
      <4>2. f[k] = g[k]
        BY <4>1
      <4>. QED
        BY <1>2, <4>1, <4>2 DEF Iterated
    <3>. QED
      BY <3>1, <3>2
  <2>3. I = Nat
    <3>1. I \in SUBSET Nat
      OBVIOUS
    <3>. HIDE DEF I
    <3>. QED
      BY <2>1, <2>2, <3>1, SetInduction
  <2>4. n \in I
    BY <2>3
  <2>5. n \in 0..(n + 1) /\ n # n + 1
    OBVIOUS
  <2>6. g[n + 1] = H[n][g[n]]
    BY <1>2, <2>5 DEF Iterated
  <2>. QED
    BY <2>4, <2>6
<1>. DEFINE p(n) == CHOOSE f : Iterated(f, n, a, H)
            h == [n \in Nat |-> p(n)[n]]
<1>3. \A n \in Nat : Iterated(p(n), n, a, H)
  BY <1>1, Zenon
<1>. HIDE DEF p
<1>4. h \in [Nat -> Nat]
  <2>1. ASSUME NEW n \in Nat PROVE p(n)[n] \in Nat
    BY <1>3 DEF Iterated
  <2>. QED
    BY <2>1
<1>5. h[0] = a
  BY <1>3 DEF Iterated
<1>6. ASSUME NEW n \in Nat PROVE h[n + 1] = H[n][h[n]]
  <2>1. n + 1 \in Nat
    OBVIOUS
  <2>2. Iterated(p(n), n, a, H) /\ Iterated(p(n + 1), n + 1, a, H)
    BY <1>3, <2>1
  <2>3. p(n)[n] = p(n + 1)[n] /\ p(n + 1)[n + 1] = H[n][p(n + 1)[n]]
    BY <1>2, <2>2
  <2>. QED
    BY <2>1, <2>3
<1>. QED
  BY <1>4, <1>5, <1>6

\* A saturated product is a natural and grows with its factors.
LEMMA SatMulMono ==
    ASSUME NEW a \in Nat, NEW b \in Nat, NEW c \in Nat, NEW d \in Nat, a <= c, b <= d
    PROVE  /\ SatMul128(a, b) \in Nat
           /\ SatMul128(c, d) \in Nat
           /\ SatMul128(a, b) <= SatMul128(c, d)
<1>1. a * b \in Nat /\ c * d \in Nat /\ U128Max \in Nat
  BY MulNat, WidthAssumption
<1>2. a * b <= c * d
  BY MulMono
<1>3. ASSUME MulFits(a, b) PROVE a * b <= U128Max
  <2>1. CASE b = 0
    BY <1>1, <2>1
  <2>2. CASE b # 0
    <3>1. a <= U128Max \div b
      BY <1>3, <2>2 DEF MulFits
    <3>. QED
      BY <1>1, <2>2, <3>1, DivGreatest
  <2>. QED
    BY <2>1, <2>2
<1>4. MulFits(c, d) => MulFits(a, b)
  BY MulFitsMono
<1>5. CASE MulFits(c, d)
  BY <1>1, <1>2, <1>4, <1>5 DEF SatMul128
<1>6. CASE ~MulFits(c, d)
  BY <1>1, <1>3, <1>6 DEF SatMul128
<1>. QED
  BY <1>5, <1>6

\* The loop of the integer power, turn by turn.
LEMMA PowerUnfolds ==
    ASSUME NEW u \in Nat
    PROVE  /\ IntegerPower(u, 0) = HardWallScale
           /\ \A k \in Nat : /\ IntegerPower(u, k) \in Nat
                             /\ IntegerPower(u, k + 1)
                                  = SatMul128(IntegerPower(u, k), u) \div HardWallScale
<1>. DEFINE turn == [n \in Nat |-> [x \in Nat |-> SatMul128(x, u) \div HardWallScale]]
            Power(f) == f = [k \in Nat |-> IF k = 0 THEN HardWallScale
                                ELSE SatMul128(f[k - 1], u) \div HardWallScale]
            power == CHOOSE f : Power(f)
<1>1. HardWallScale \in Nat \ {0}
  BY HardWallAssumption
<1>2. turn \in [Nat -> [Nat -> Nat]]
  <2>1. ASSUME NEW x \in Nat PROVE SatMul128(x, u) \div HardWallScale \in Nat
    <3>1. SatMul128(x, u) \in Nat
      BY SatMulMono
    <3>. QED
      BY <1>1, <3>1, DivNat
  <2>. QED
    BY <2>1
<1>3. PICK f \in [Nat -> Nat] : f[0] = HardWallScale /\ \A n \in Nat : f[n + 1] = turn[n][f[n]]
  <2>1. HardWallScale \in Nat
    BY <1>1
  <2>. HIDE DEF turn, Power, power
  <2>. QED
    BY <1>2, <2>1, Iterates
<1>4. Power(f)
  <2>. DEFINE g == [k \in Nat |-> IF k = 0 THEN HardWallScale
                                ELSE SatMul128(f[k - 1], u) \div HardWallScale]
  <2>1. ASSUME NEW k \in Nat PROVE f[k] = g[k]
    <3>1. CASE k = 0
      BY <1>3, <3>1
    <3>2. CASE k # 0
      <4>1. k - 1 \in Nat /\ (k - 1) + 1 = k
        BY <3>2
      <4>2. f[k] = turn[k - 1][f[k - 1]] /\ f[k - 1] \in Nat
        BY <1>3, <4>1
      <4>. QED
        BY <3>2, <4>2
    <3>. QED
      BY <3>1, <3>2
  <2>. HIDE DEF g
  <2>2. g = [k \in Nat |-> g[k]]
    BY DEF g
  <2>3. f = g
    BY <2>1, <2>2
  <2>. QED
    BY <2>3 DEF g
<1>5. Power(power)
  <2>. HIDE DEF Power
  <2>. QED
    BY <1>4, Zenon
<1>6. \A k : IntegerPower(u, k) = power[k]
  BY DEF IntegerPower
<1>. HIDE DEF power
<1>7. power[0] = HardWallScale
  BY <1>5
<1>8. ASSUME NEW k \in Nat
      PROVE  power[k + 1] = SatMul128(power[k], u) \div HardWallScale
  <2>1. k + 1 \in Nat /\ k + 1 # 0 /\ (k + 1) - 1 = k
    OBVIOUS
  <2>2. power[k + 1] = SatMul128(power[(k + 1) - 1], u) \div HardWallScale
    BY <1>5, <2>1
  <2>. QED
    BY <2>1, <2>2
<1>9. \A k \in Nat : power[k] \in Nat
  <2>. DEFINE I == {k \in Nat : power[k] \in Nat}
  <2>1. 0 \in I
    BY <1>1, <1>7
  <2>2. ASSUME NEW k \in I PROVE k + 1 \in I
    <3>1. k \in Nat /\ power[k] \in Nat
      OBVIOUS
    <3>2. turn[k][power[k]] \in Nat
      BY <1>2, <3>1
    <3>. QED
      BY <1>8, <3>1, <3>2
  <2>3. I = Nat
    <3>1. I \in SUBSET Nat
      OBVIOUS
    <3>. HIDE DEF I
    <3>. QED
      BY <2>1, <2>2, <3>1, SetInduction
  <2>. QED
    BY <2>3
<1>. HIDE DEF Power
<1>. QED
  BY <1>6, <1>7, <1>8, <1>9

\* The integer power grows with the utilization and is one at one.
LEMMA IntegerPowerRises ==
    ASSUME NEW u \in Nat, NEW v \in Nat, u <= v, NEW k \in Nat
    PROVE  /\ IntegerPower(u, k) <= IntegerPower(v, k)
           /\ IntegerPower(HardWallScale, k) = HardWallScale
<1>1. HardWallScale \in Nat \ {0}
  BY HardWallAssumption
<1>. DEFINE I == {n \in Nat : IntegerPower(u, n) <= IntegerPower(v, n)}
            J == {n \in Nat : IntegerPower(HardWallScale, n) = HardWallScale}
<1>2. 0 \in I /\ 0 \in J
  BY <1>1, PowerUnfolds
<1>3. ASSUME NEW n \in I PROVE n + 1 \in I
  <2>. DEFINE a == IntegerPower(u, n)
              b == IntegerPower(v, n)
  <2>1. n \in Nat /\ n + 1 \in Nat
    OBVIOUS
  <2>2. a \in Nat /\ b \in Nat /\ a <= b
    BY <2>1, PowerUnfolds
  <2>3. /\ IntegerPower(u, n + 1) = SatMul128(a, u) \div HardWallScale
        /\ IntegerPower(v, n + 1) = SatMul128(b, v) \div HardWallScale
    BY <2>1, PowerUnfolds
  <2>. HIDE DEF a, b
  <2>4. SatMul128(a, u) \in Nat /\ SatMul128(b, v) \in Nat
        /\ SatMul128(a, u) <= SatMul128(b, v)
    BY <2>2, SatMulMono
  <2>5. HardWallScale <= HardWallScale
    BY <1>1
  <2>6. IntegerPower(u, n + 1) <= IntegerPower(v, n + 1)
    BY <1>1, <2>3, <2>4, <2>5, DivMono
  <2>. QED
    BY <2>1, <2>6
<1>4. ASSUME NEW n \in J PROVE n + 1 \in J
  <2>1. n \in Nat /\ n + 1 \in Nat /\ IntegerPower(HardWallScale, n) = HardWallScale
    OBVIOUS
  <2>2. IntegerPower(HardWallScale, n + 1)
          = SatMul128(HardWallScale, HardWallScale) \div HardWallScale
    BY <1>1, <2>1, PowerUnfolds
  <2>3. MulFits(HardWallScale, HardWallScale)
    BY <1>1, HardWallAssumption, WidthAssumption, DivGreatest DEF MulFits
  <2>4. (HardWallScale * HardWallScale) \div HardWallScale = HardWallScale
    BY <1>1, SMTT(20)
  <2>. QED
    BY <2>1, <2>2, <2>3, <2>4 DEF SatMul128
<1>5. I = Nat /\ J = Nat
  <2>1. I \in SUBSET Nat /\ J \in SUBSET Nat
    OBVIOUS
  <2>. HIDE DEF I, J
  <2>. QED
    BY <1>2, <1>3, <1>4, <2>1, SetInduction
<1>. QED
  BY <1>5

-----------------------------------------------------------------------------
(***************************************************************************)
(* The power of a fractional exponent is monotone: log2 and exp2 are built *)
(* of floors of sums of monotone terms, and the fractions of one octave do *)
(* not overshoot where the next one starts.                                *)
(***************************************************************************)
\* The powers of two, one after the other.
LEMMA TwoToUnfolds ==
    /\ TwoTo[0] = 1
    /\ \A k \in Nat : TwoTo[k] \in Nat \ {0} /\ TwoTo[k + 1] = 2 * TwoTo[k]
<1>. DEFINE turn == [n \in Nat |-> [x \in Nat |-> 2 * x]]
            Doubles(f) == f = [k \in Nat |-> IF k = 0 THEN 1 ELSE 2 * f[k - 1]]
            two == CHOOSE f : Doubles(f)
<1>1. PICK f \in [Nat -> Nat] : f[0] = 1 /\ \A n \in Nat : f[n + 1] = turn[n][f[n]]
  <2>1. turn \in [Nat -> [Nat -> Nat]] /\ 1 \in Nat
    OBVIOUS
  <2>. HIDE DEF turn
  <2>. QED
    BY <2>1, Iterates
<1>2. Doubles(f)
  <2>. DEFINE g == [k \in Nat |-> IF k = 0 THEN 1 ELSE 2 * f[k - 1]]
  <2>1. ASSUME NEW k \in Nat PROVE f[k] = g[k]
    <3>1. CASE k = 0
      BY <1>1, <3>1
    <3>2. CASE k # 0
      <4>1. k - 1 \in Nat /\ (k - 1) + 1 = k
        BY <3>2
      <4>2. f[k] = turn[k - 1][f[k - 1]] /\ f[k - 1] \in Nat
        BY <1>1, <4>1
      <4>. QED
        BY <3>2, <4>1, <4>2
    <3>. QED
      BY <3>1, <3>2
  <2>. HIDE DEF g
  <2>2. g = [k \in Nat |-> g[k]]
    BY DEF g
  <2>3. f = g
    BY <2>1, <2>2
  <2>. QED
    BY <2>3 DEF g
<1>3. Doubles(two)
  <2>. HIDE DEF Doubles
  <2>. QED
    BY <1>2, Zenon
<1>4. TwoTo = two
  BY DEF TwoTo
<1>5. TwoTo[0] = 1
  BY <1>3, <1>4
<1>6. ASSUME NEW k \in Nat PROVE TwoTo[k + 1] = 2 * TwoTo[k]
  <2>. HIDE DEF two
  <2>1. k + 1 \in Nat /\ k + 1 # 0 /\ (k + 1) - 1 = k
    OBVIOUS
  <2>2. two[k + 1] = 2 * two[(k + 1) - 1]
    BY <1>3, <2>1
  <2>. QED
    BY <1>4, <2>1, <2>2
<1>. DEFINE I == {k \in Nat : TwoTo[k] \in Nat \ {0}}
<1>7. ASSUME NEW k \in I PROVE k + 1 \in I
  BY <1>6
<1>8. I = Nat
  <2>1. I \in SUBSET Nat /\ 0 \in I
    BY <1>5
  <2>. HIDE DEF I
  <2>. QED
    BY <1>7, <2>1, SetInduction
<1>9. \A k \in Nat : TwoTo[k] \in Nat \ {0}
  BY <1>8
<1>. QED
  BY <1>5, <1>6, <1>9

\* A shift by a sum is two shifts.
LEMMA TwoToAdds ==
    ASSUME NEW i \in Nat, NEW j \in Nat
    PROVE  TwoTo[i + j] = TwoTo[i] * TwoTo[j]
<1>. DEFINE I == {k \in Nat : TwoTo[i + k] = TwoTo[i] * TwoTo[k]}
<1>1. 0 \in I
  <2>1. TwoTo[i] \in Nat /\ TwoTo[0] = 1 /\ i + 0 = i
    BY TwoToUnfolds
  <2>. QED
    BY <2>1
<1>2. ASSUME NEW k \in I PROVE k + 1 \in I
  <2>1. k \in Nat /\ i + k \in Nat /\ i + (k + 1) = (i + k) + 1
    OBVIOUS
  <2>2. TwoTo[(i + k) + 1] = 2 * TwoTo[i + k] /\ TwoTo[k + 1] = 2 * TwoTo[k]
        /\ TwoTo[i] \in Nat /\ TwoTo[k] \in Nat
    BY <2>1, TwoToUnfolds
  <2>3. TwoTo[i + k] = TwoTo[i] * TwoTo[k]
    OBVIOUS
  <2>. DEFINE a == TwoTo[i]
              b == TwoTo[k]
  <2>. HIDE DEF a, b
  <2>4. a \in Nat /\ b \in Nat
    BY <2>2 DEF a, b
  <2>5. 2 * (a * b) = a * (2 * b)
    BY <2>4, SMTT(20)
  <2>6. TwoTo[i + (k + 1)] = TwoTo[i] * TwoTo[k + 1]
    BY <2>1, <2>2, <2>3, <2>5 DEF a, b
  <2>. QED
    BY <2>1, <2>6
<1>3. I = Nat
  <2>1. I \in SUBSET Nat
    OBVIOUS
  <2>. HIDE DEF I
  <2>. QED
    BY <1>1, <1>2, <2>1, SetInduction
<1>. QED
  BY <1>3

\* A longer shift multiplies by more, by twice as much when it is longer.
LEMMA TwoToRises ==
    ASSUME NEW i \in Nat, NEW j \in Nat
    PROVE  /\ i <= j => TwoTo[i] <= TwoTo[j]
           /\ i < j => 2 * TwoTo[i] <= TwoTo[j]
<1>1. ASSUME NEW m \in Nat, NEW n \in Nat, m <= n PROVE TwoTo[m] <= TwoTo[n]
  <2>1. n - m \in Nat /\ m + (n - m) = n
    BY <1>1
  <2>2. TwoTo[n] = TwoTo[m] * TwoTo[n - m]
    BY <2>1, TwoToAdds
  <2>. DEFINE a == TwoTo[m]
              b == TwoTo[n - m]
  <2>3. a \in Nat /\ b \in Nat \ {0}
    BY <2>1, TwoToUnfolds
  <2>. HIDE DEF a, b
  <2>4. a <= a * b
    BY <2>3, SMTT(20)
  <2>. QED
    BY <2>2, <2>4 DEF a, b
<1>2. ASSUME i < j PROVE 2 * TwoTo[i] <= TwoTo[j]
  <2>1. i + 1 \in Nat /\ i + 1 <= j
    BY <1>2
  <2>2. TwoTo[i + 1] <= TwoTo[j] /\ TwoTo[i + 1] = 2 * TwoTo[i]
    BY <1>1, <2>1, TwoToUnfolds
  <2>. QED
    BY <2>2
<1>. QED
  BY <1>1, <1>2

\* Divisors of a series, positive from the first turn on.
Divisors == {d \in [Nat -> Nat] : \A k \in Nat : d[k + 1] # 0}

\* The product of two values in Q.
LEMMA MulQRises ==
    ASSUME NEW a \in Nat, NEW b \in Nat, NEW c \in Nat, NEW d \in Nat, a <= c, b <= d
    PROVE  MulQ(a, b) \in Nat /\ MulQ(c, d) \in Nat /\ MulQ(a, b) <= MulQ(c, d)
<1>1. Q \in Nat \ {0}
  BY TwoToUnfolds, ApproximationAssumption DEF Q
<1>2. a * b \in Nat /\ c * d \in Nat /\ a * b <= c * d
  BY MulNat, MulMono
<1>3. Q <= Q
  BY <1>1
<1>. QED
  BY <1>1, <1>2, <1>3, DivNat, DivMono DEF MulQ

\* The loop of a series, turn by turn: its terms t and its sums s.
Turns(t, s, first, factor, shrink, weigh) ==
    /\ t[0] = first /\ s[0] = first
    /\ \A k \in Nat : /\ t[k + 1] = MulQ(t[k], factor) \div shrink[k + 1]
                      /\ s[k + 1] = s[k] + t[k + 1] \div weigh[k + 1]
    /\ \A n \in Nat : Series(first, factor, shrink, weigh, n) = s[n]

\* A series has such terms and sums.
LEMMA SeriesUnfolds ==
    ASSUME NEW first \in Nat, NEW factor \in Nat, NEW shrink \in Divisors,
           NEW weigh \in Divisors
    PROVE  \E t, s \in [Nat -> Nat] : Turns(t, s, first, factor, shrink, weigh)
<1>1. \A k \in Nat : shrink[k + 1] \in Nat \ {0} /\ weigh[k + 1] \in Nat \ {0}
  BY DEF Divisors
<1>. DEFINE H == [k \in Nat |-> [x \in Nat |-> MulQ(x, factor) \div shrink[k + 1]]]
<1>2. H \in [Nat -> [Nat -> Nat]]
  <2>1. ASSUME NEW k \in Nat, NEW x \in Nat
        PROVE  MulQ(x, factor) \div shrink[k + 1] \in Nat
    <3>1. MulQ(x, factor) \in Nat
      <4>1. x <= x /\ factor <= factor
        OBVIOUS
      <4>. QED
        BY <4>1, MulQRises
    <3>. QED
      BY <1>1, <3>1, DivNat
  <2>. QED
    BY <2>1
<1>3. PICK t \in [Nat -> Nat] : t[0] = first /\ \A k \in Nat : t[k + 1] = H[k][t[k]]
  <2>. HIDE DEF H
  <2>. QED
    BY <1>2, Iterates
<1>4. \A k \in Nat : t[k + 1] = MulQ(t[k], factor) \div shrink[k + 1]
  BY <1>3
<1>. HIDE DEF H
<1>. DEFINE G == [k \in Nat |-> [x \in Nat |-> x + t[k + 1] \div weigh[k + 1]]]
<1>5. G \in [Nat -> [Nat -> Nat]]
  <2>1. ASSUME NEW k \in Nat PROVE t[k + 1] \div weigh[k + 1] \in Nat
    <3>1. t[k + 1] \in Nat
      BY <1>3
    <3>. QED
      BY <1>1, <3>1, DivNat
  <2>. QED
    BY <2>1
<1>6. PICK s \in [Nat -> Nat] : s[0] = first /\ \A k \in Nat : s[k + 1] = G[k][s[k]]
  <2>. HIDE DEF G
  <2>. QED
    BY <1>5, Iterates
<1>7. \A k \in Nat : s[k + 1] = s[k] + t[k + 1] \div weigh[k + 1]
  BY <1>6
<1>. HIDE DEF G
<1>. DEFINE Turn(k, before) ==
                LET term == MulQ(before.term, factor) \div shrink[k]
                IN  [term |-> term, sum |-> before.sum + term \div weigh[k]]
            First == [term |-> first, sum |-> first]
            Loop(f) == f = [k \in Nat |-> IF k = 0 THEN First ELSE Turn(k, f[k - 1])]
            at == CHOOSE f : Loop(f)
            both == [k \in Nat |-> [term |-> t[k], sum |-> s[k]]]
<1>8. \A n : Series(first, factor, shrink, weigh, n) = at[n].sum
  BY DEF Series
<1>9. Loop(both)
  <2>. DEFINE g == [k \in Nat |-> IF k = 0 THEN First ELSE Turn(k, both[k - 1])]
  <2>1. ASSUME NEW k \in Nat PROVE both[k] = g[k]
    <3>1. CASE k = 0
      BY <1>3, <1>6, <3>1
    <3>2. CASE k # 0
      <4>1. k - 1 \in Nat /\ (k - 1) + 1 = k
        BY <3>2
      <4>2. /\ t[k] = MulQ(t[k - 1], factor) \div shrink[k]
            /\ s[k] = s[k - 1] + t[k] \div weigh[k]
        BY <1>4, <1>7, <4>1
      <4>3. both[k - 1].term = t[k - 1] /\ both[k - 1].sum = s[k - 1]
        BY <4>1
      <4>4. g[k] = Turn(k, both[k - 1])
        BY <3>2
      <4>. HIDE DEF g
      <4>. QED
        BY <4>2, <4>3, <4>4
    <3>. QED
      BY <3>1, <3>2
  <2>. HIDE DEF Turn, First
  <2>2. both = [k \in Nat |-> both[k]] /\ g = [k \in Nat |-> g[k]]
    OBVIOUS
  <2>. HIDE DEF g, both
  <2>3. both = g
    BY <2>1, <2>2
  <2>. QED
    BY <2>3 DEF g
<1>10. Loop(at)
  <2>. HIDE DEF Loop, both
  <2>. QED
    BY <1>9, Zenon
<1>. HIDE DEF at
<1>. DEFINE I == {k \in Nat : at[k] = both[k]}
<1>11. at[0] = First /\ \A k \in Nat : at[k + 1] = Turn(k + 1, at[k])
  <2>. HIDE DEF First, Turn
  <2>1. ASSUME NEW k \in Nat PROVE at[k] = IF k = 0 THEN First ELSE Turn(k, at[k - 1])
    BY <1>10
  <2>2. ASSUME NEW k \in Nat PROVE k + 1 \in Nat /\ k + 1 # 0 /\ (k + 1) - 1 = k
    OBVIOUS
  <2>. QED
    BY <2>1, <2>2
<1>12. ASSUME NEW k \in I PROVE k + 1 \in I
  <2>1. k \in Nat /\ k + 1 \in Nat /\ at[k] = both[k]
    OBVIOUS
  <2>2. at[k + 1] = Turn(k + 1, both[k])
    BY <1>11, <2>1
  <2>3. both[k].term = t[k] /\ both[k].sum = s[k]
    BY <2>1
  <2>4. /\ MulQ(t[k], factor) \div shrink[k + 1] = t[k + 1]
        /\ s[k] + t[k + 1] \div weigh[k + 1] = s[k + 1]
    BY <1>4, <1>7, <2>1
  <2>5. Turn(k + 1, both[k]) = [term |-> t[k + 1], sum |-> s[k + 1]]
    BY <2>3, <2>4, Zenon
  <2>. QED
    BY <2>1, <2>2, <2>5
<1>13. I = Nat
  <2>1. I \in SUBSET Nat /\ 0 \in I
    BY <1>3, <1>6, <1>11
  <2>. HIDE DEF I
  <2>. QED
    BY <1>12, <2>1, SetInduction
<1>14. ASSUME NEW n \in Nat PROVE Series(first, factor, shrink, weigh, n) = s[n]
  <2>1. at[n] = both[n]
    BY <1>13
  <2>. QED
    BY <1>8, <2>1
<1>. QED
  BY <1>3, <1>4, <1>6, <1>7, <1>14 DEF Turns

\* Greater terms add up to more.
LEMMA SeriesRises ==
    ASSUME NEW a \in Nat, NEW b \in Nat, NEW c \in Nat, NEW d \in Nat, a <= c, b <= d,
           NEW shrink \in Divisors, NEW weigh \in Divisors, NEW n \in Nat
    PROVE  /\ Series(a, b, shrink, weigh, n) \in Nat
           /\ Series(c, d, shrink, weigh, n) \in Nat
           /\ Series(a, b, shrink, weigh, n) <= Series(c, d, shrink, weigh, n)
<1>1. \A k \in Nat : shrink[k + 1] \in Nat \ {0} /\ weigh[k + 1] \in Nat \ {0}
  BY DEF Divisors
<1>2. PICK t, s \in [Nat -> Nat] : Turns(t, s, a, b, shrink, weigh)
  BY SeriesUnfolds
<1>3. PICK u, v \in [Nat -> Nat] : Turns(u, v, c, d, shrink, weigh)
  BY SeriesUnfolds
<1>. DEFINE I == {k \in Nat : t[k] <= u[k] /\ s[k] <= v[k]}
<1>4. ASSUME NEW k \in I PROVE k + 1 \in I
  <2>1. k \in Nat /\ k + 1 \in Nat /\ t[k] <= u[k] /\ s[k] <= v[k]
    OBVIOUS
  <2>2. t[k] \in Nat /\ u[k] \in Nat /\ s[k] \in Nat /\ v[k] \in Nat
        /\ t[k + 1] \in Nat /\ u[k + 1] \in Nat
    BY <1>2, <1>3, <2>1
  <2>3. MulQ(t[k], b) \in Nat /\ MulQ(u[k], d) \in Nat /\ MulQ(t[k], b) <= MulQ(u[k], d)
    BY <2>1, <2>2, MulQRises
  <2>4. shrink[k + 1] <= shrink[k + 1] /\ weigh[k + 1] <= weigh[k + 1]
    BY <1>1, <2>1
  <2>5. t[k + 1] <= u[k + 1]
    <3>1. /\ t[k + 1] = MulQ(t[k], b) \div shrink[k + 1]
          /\ u[k + 1] = MulQ(u[k], d) \div shrink[k + 1]
      BY <1>2, <1>3, <2>1 DEF Turns
    <3>2. shrink[k + 1] \in Nat \ {0}
      BY <1>1, <2>1
    <3>. QED
      BY <2>3, <2>4, <3>1, <3>2, DivMono
  <2>6. /\ t[k + 1] \div weigh[k + 1] \in Nat /\ u[k + 1] \div weigh[k + 1] \in Nat
        /\ t[k + 1] \div weigh[k + 1] <= u[k + 1] \div weigh[k + 1]
    BY <1>1, <2>1, <2>2, <2>4, <2>5, DivNat, DivMono
  <2>7. s[k + 1] <= v[k + 1]
    BY <1>2, <1>3, <2>1, <2>2, <2>6 DEF Turns
  <2>. QED
    BY <2>1, <2>5, <2>7
<1>5. I = Nat
  <2>1. I \in SUBSET Nat /\ 0 \in I
    BY <1>2, <1>3 DEF Turns
  <2>. HIDE DEF I
  <2>. QED
    BY <1>4, <2>1, SetInduction
<1>6. s[n] \in Nat /\ v[n] \in Nat /\ s[n] <= v[n]
  BY <1>2, <1>3, <1>5
<1>. QED
  BY <1>2, <1>3, <1>6 DEF Turns

\* Terms that vanish add nothing to the first.
LEMMA SeriesOfNothing ==
    ASSUME NEW a \in Nat, NEW shrink \in Divisors, NEW weigh \in Divisors, NEW n \in Nat
    PROVE  Series(a, 0, shrink, weigh, n) = a
<1>1. \A k \in Nat : shrink[k + 1] \in Nat \ {0} /\ weigh[k + 1] \in Nat \ {0}
  BY DEF Divisors
<1>2. PICK t, s \in [Nat -> Nat] : Turns(t, s, a, 0, shrink, weigh)
  BY SeriesUnfolds
<1>3. \A q \in Nat \ {0} : 0 \div q = 0
  BY SMTT(20)
<1>4. \A x \in Nat : MulQ(x, 0) = 0
  <2>1. Q \in Nat \ {0}
    BY TwoToUnfolds, ApproximationAssumption DEF Q
  <2>. QED
    BY <1>3, <2>1 DEF MulQ
<1>. DEFINE I == {k \in Nat : s[k] = a}
<1>5. ASSUME NEW k \in I PROVE k + 1 \in I
  <2>1. k \in Nat /\ k + 1 \in Nat /\ s[k] = a /\ t[k] \in Nat
    BY <1>2
  <2>2. t[k + 1] = 0
    <3>1. t[k + 1] = MulQ(t[k], 0) \div shrink[k + 1]
      BY <1>2, <2>1 DEF Turns
    <3>2. shrink[k + 1] \in Nat \ {0}
      BY <1>1, <2>1
    <3>. QED
      BY <1>3, <1>4, <2>1, <3>1, <3>2
  <2>3. t[k + 1] \div weigh[k + 1] = 0
    BY <1>1, <1>3, <2>1, <2>2
  <2>. QED
    BY <1>2, <2>1, <2>3 DEF Turns
<1>6. I = Nat
  <2>1. I \in SUBSET Nat /\ 0 \in I
    BY <1>2 DEF Turns
  <2>. HIDE DEF I
  <2>. QED
    BY <1>5, <2>1, SetInduction
<1>. QED
  BY <1>2, <1>6 DEF Turns

\* One in Q.
LEMMA QTyped == Q \in Nat \ {0} /\ QShift \in Nat /\ U128Bits \in Nat
BY TwoToUnfolds, ApproximationAssumption DEF Q

\* The log of the mantissa grows with it.
LEMMA MantissaLogRises ==
    ASSUME NEW m \in Nat, NEW n \in Nat, Q <= m, m <= n
    PROVE  /\ Log2Mantissa(m) \in Nat
           /\ Log2Mantissa(n) \in Nat
           /\ Log2Mantissa(m) <= Log2Mantissa(n)
<1>. DEFINE x == m - Q
            y == n - Q
            w == ((m - Q) * Q) \div (m + Q)
            z == ((n - Q) * Q) \div (n + Q)
            ones == [k \in Nat |-> 1]
            odds == [k \in Nat |-> 2 * k + 1]
            s == Series(w, MulQ(w, w), ones, odds, 6)
            t == Series(z, MulQ(z, z), ones, odds, 6)
<1>1. Q \in Nat \ {0}
  BY QTyped
<1>2. x \in Nat /\ y \in Nat /\ x <= y /\ m = x + Q /\ n = y + Q
  BY <1>1
<1>3. w \in Nat /\ z \in Nat /\ w <= z
  <2>1. x * Q \in Nat /\ y * Q \in Nat /\ m + Q \in Nat \ {0} /\ n + Q \in Nat \ {0}
    BY <1>1, <1>2, MulNat
  <2>2. (x * Q) * (n + Q) <= (y * Q) * (m + Q)
    <3>1. x * (n + Q) <= y * (m + Q)
      <4>1. x * (n + Q) = x * y + x * (2 * Q)
        BY <1>1, <1>2, SMTT(20)
      <4>2. y * (m + Q) = x * y + y * (2 * Q)
        BY <1>1, <1>2, SMTT(20)
      <4>3. x * (2 * Q) <= y * (2 * Q)
        <5>1. 2 * Q \in Nat /\ 2 * Q <= 2 * Q
          BY <1>1
        <5>. HIDE DEF x, y
        <5>. QED
          BY <1>2, <5>1, MulMono
      <4>4. x * y \in Nat /\ x * (2 * Q) \in Nat /\ y * (2 * Q) \in Nat
        <5>1. 2 * Q \in Nat
          BY <1>1
        <5>. HIDE DEF x, y
        <5>. QED
          BY <1>2, <5>1, MulNat
      <4>. HIDE DEF x, y
      <4>. QED
        BY <4>1, <4>2, <4>3, <4>4
    <3>. HIDE DEF x, y
    <3>2. x * (n + Q) \in Nat /\ y * (m + Q) \in Nat
      BY <1>2, <2>1, MulNat
    <3>3. Q * (x * (n + Q)) <= Q * (y * (m + Q))
      BY <1>1, <3>1, <3>2, MulMono
    <3>4. /\ Q * (x * (n + Q)) = (x * Q) * (n + Q)
          /\ Q * (y * (m + Q)) = (y * Q) * (m + Q)
      BY <1>1, <1>2, <2>1, SMTT(20)
    <3>. QED
      BY <3>3, <3>4
  <2>. HIDE DEF x, y
  <2>3. (x * Q) \div (m + Q) <= (y * Q) \div (n + Q)
    BY <2>1, <2>2, QuotientMono
  <2>4. (x * Q) \div (m + Q) \in Nat /\ (y * Q) \div (n + Q) \in Nat
    BY <2>1, DivNat
  <2>. QED
    BY <2>3, <2>4 DEF x, y
<1>. HIDE DEF w, z
<1>4. ones \in Divisors /\ odds \in Divisors
  BY DEF Divisors
<1>. HIDE DEF ones, odds
<1>5. MulQ(w, w) \in Nat /\ MulQ(z, z) \in Nat /\ MulQ(w, w) <= MulQ(z, z)
  BY <1>3, MulQRises
<1>6. s \in Nat /\ t \in Nat /\ s <= t
  BY <1>3, <1>4, <1>5, SeriesRises
<1>7. Log2Mantissa(m) = MulQ(2 * s, Log2EQ) /\ Log2Mantissa(n) = MulQ(2 * t, Log2EQ)
  BY DEF Log2Mantissa, w, z, ones, odds
<1>. HIDE DEF s, t
<1>8. 2 * s \in Nat /\ 2 * t \in Nat /\ 2 * s <= 2 * t /\ Log2EQ \in Nat /\ Log2EQ <= Log2EQ
  BY <1>6, ApproximationAssumption
<1>. QED
  BY <1>7, <1>8, MulQRises

\* A positive u128 has a highest bit.
LEMMA HighestBitTyped ==
    ASSUME NEW value \in 1..U128Max
    PROVE  /\ HighestBit(value) \in 0..(U128Bits - 1)
           /\ TwoTo[HighestBit(value)] <= value
           /\ value < TwoTo[HighestBit(value) + 1]
<1>1. U128Max \in Nat /\ U128Bits \in Nat /\ U128Max < TwoTo[U128Bits]
      /\ TwoTo[U128Bits] \in Nat
  BY WidthAssumption, ApproximationAssumption, QTyped, TwoToUnfolds
<1>2. value \in Nat /\ value < TwoTo[U128Bits] /\ value # 0
  BY <1>1
<1>. DEFINE Bit(m) == TwoTo[m] <= value /\ value < TwoTo[m + 1]
            I == {n \in Nat : value < TwoTo[n] => \E m \in 0..(n - 1) : Bit(m)}
<1>3. 0 \in I
  BY <1>2, TwoToUnfolds
<1>4. ASSUME NEW n \in I PROVE n + 1 \in I
  <2>1. n \in Nat /\ n + 1 \in Nat /\ TwoTo[n] \in Nat /\ TwoTo[n + 1] \in Nat
    BY TwoToUnfolds
  <2>2. CASE value < TwoTo[n]
    <3>1. PICK m \in 0..(n - 1) : Bit(m)
      BY <2>2
    <3>2. m \in 0..((n + 1) - 1)
      BY <2>1
    <3>. QED
      BY <2>1, <3>1, <3>2
  <2>3. CASE ~(value < TwoTo[n])
    <3>1. n \in 0..((n + 1) - 1) /\ TwoTo[n] <= value
      BY <1>2, <2>1, <2>3
    <3>. QED
      BY <2>1, <3>1
  <2>. QED
    BY <2>2, <2>3
<1>5. I = Nat
  <2>1. I \in SUBSET Nat
    OBVIOUS
  <2>. HIDE DEF I
  <2>. QED
    BY <1>3, <1>4, <2>1, SetInduction
<1>6. \E m \in 0..(U128Bits - 1) : Bit(m)
  BY <1>1, <1>2, <1>5
<1>. QED
  BY <1>6 DEF HighestBit

\* The mantissa is scaled to between Q and 2Q.
LEMMA MantissaTyped ==
    ASSUME NEW value \in Nat, NEW h \in Nat, TwoTo[h] <= value, value < TwoTo[h + 1]
    PROVE  /\ Mantissa(value, h) \in Nat
           /\ Q <= Mantissa(value, h)
           /\ Mantissa(value, h) <= 2 * Q
<1>1. Q \in Nat \ {0} /\ QShift \in Nat /\ Q = TwoTo[QShift]
  BY QTyped DEF Q
<1>2. TwoTo[h] \in Nat /\ TwoTo[h + 1] = 2 * TwoTo[h]
  BY TwoToUnfolds
<1>3. CASE h >= QShift
  <2>. DEFINE p == TwoTo[h - QShift]
              q == value \div p
  <2>1. h - QShift \in Nat /\ (h - QShift) + QShift = h
    BY <1>1, <1>3
  <2>2. p \in Nat \ {0} /\ TwoTo[h] = p * Q
    BY <1>1, <2>1, TwoToUnfolds, TwoToAdds
  <2>3. Mantissa(value, h) = q
    BY <1>3 DEF Mantissa
  <2>. HIDE DEF p
  <2>4. q \in Nat
    BY <2>2, DivNat
  <2>5. Q * p <= value /\ ~((2 * Q) * p <= value) /\ 2 * Q \in Nat
    <3>1. p * Q = Q * p /\ (2 * Q) * p = 2 * (p * Q)
      BY <1>1, <2>2, SMTT(20)
    <3>2. p * Q \in Nat
      BY <1>2, <2>2
    <3>. QED
      BY <1>1, <1>2, <2>2, <3>1, <3>2
  <2>6. Q <= q /\ ~(2 * Q <= q)
    BY <1>1, <2>2, <2>5, DivGreatest
  <2>. HIDE DEF q
  <2>. QED
    BY <1>1, <2>3, <2>4, <2>6
<1>4. CASE ~(h >= QShift)
  <2>. DEFINE p == TwoTo[QShift - h]
  <2>1. QShift - h \in Nat /\ h + (QShift - h) = QShift
    BY <1>1, <1>4
  <2>2. p \in Nat \ {0} /\ Q = TwoTo[h] * p
    <3>1. TwoTo[h + (QShift - h)] = TwoTo[h] * TwoTo[QShift - h]
      BY <2>1, TwoToAdds
    <3>. QED
      BY <1>1, <2>1, <3>1, TwoToUnfolds
  <2>3. Mantissa(value, h) = value * p
    BY <1>4 DEF Mantissa
  <2>. HIDE DEF p
  <2>. DEFINE b == TwoTo[h]
  <2>4. b \in Nat /\ b <= value /\ value <= 2 * b /\ 2 * b \in Nat
    BY <1>2
  <2>. HIDE DEF b
  <2>5. b * p <= value * p /\ value * p <= (2 * b) * p /\ p <= p
    <3>1. p <= p
      BY <2>2
    <3>. QED
      BY <2>2, <2>4, <3>1, MulMono
  <2>6. (2 * b) * p = 2 * (b * p)
    BY <2>2, <2>4, SMTT(20)
  <2>7. value * p \in Nat
    BY <2>2, MulNat
  <2>. QED
    BY <2>2, <2>3, <2>5, <2>6, <2>7 DEF b
<1>. QED
  BY <1>3, <1>4

\* The log of a u128 grows with it: within an octave with the mantissa, and
\* no fraction of an octave passes the next one.
LEMMA LogRises ==
    ASSUME NEW u \in 1..U128Max, NEW v \in 1..U128Max, u <= v
    PROVE  Log2Q(u) \in Nat /\ Log2Q(v) \in Nat /\ Log2Q(u) <= Log2Q(v)
<1>. DEFINE g == HighestBit(u)
            h == HighestBit(v)
            m == Mantissa(u, g)
            n == Mantissa(v, h)
<1>1. Q \in Nat \ {0} /\ QShift \in Nat /\ U128Bits \in Nat /\ U128Max \in Nat
  BY QTyped, WidthAssumption
<1>2. /\ g \in Nat /\ TwoTo[g] <= u /\ u < TwoTo[g + 1]
      /\ h \in Nat /\ TwoTo[h] <= v /\ v < TwoTo[h + 1]
      /\ u \in Nat /\ v \in Nat
  BY <1>1, HighestBitTyped
<1>3. Log2Q(u) = g * Q + Log2Mantissa(m) /\ Log2Q(v) = h * Q + Log2Mantissa(n)
  BY DEF Log2Q
<1>. HIDE DEF g, h
<1>4. /\ m \in Nat /\ Q <= m /\ m <= 2 * Q
      /\ n \in Nat /\ Q <= n /\ n <= 2 * Q
  BY <1>2, MantissaTyped
<1>5. g <= h
  <2>1. SUFFICES ASSUME h < g PROVE FALSE
    BY <1>2
  <2>2. h + 1 \in Nat /\ h + 1 <= g
    BY <1>2, <2>1
  <2>3. TwoTo[h + 1] <= TwoTo[g] /\ TwoTo[h + 1] \in Nat /\ TwoTo[g] \in Nat
    BY <1>2, <2>2, TwoToRises, TwoToUnfolds
  <2>. QED
    BY <1>2, <2>3
<1>6. CASE g = h
  <2>1. m <= n
    <3>1. CASE h >= QShift
      <4>1. TwoTo[h - QShift] \in Nat \ {0}
        BY <1>1, <1>2, <3>1, TwoToUnfolds
      <4>2. TwoTo[h - QShift] <= TwoTo[h - QShift]
        BY <4>1
      <4>. QED
        BY <1>2, <1>6, <3>1, <4>1, <4>2, DivMono DEF Mantissa
    <3>2. CASE ~(h >= QShift)
      <4>1. QShift - h \in Nat
        BY <1>1, <1>2, <3>2
      <4>2. TwoTo[QShift - h] \in Nat
        BY <4>1, TwoToUnfolds
      <4>3. TwoTo[QShift - h] <= TwoTo[QShift - h]
        BY <4>2
      <4>. QED
        BY <1>2, <1>6, <3>2, <4>2, <4>3, MulMono DEF Mantissa
    <3>. QED
      BY <3>1, <3>2
  <2>. HIDE DEF m, n
  <2>2. /\ Log2Mantissa(m) \in Nat /\ Log2Mantissa(n) \in Nat
        /\ Log2Mantissa(m) <= Log2Mantissa(n)
    BY <1>4, <2>1, MantissaLogRises
  <2>3. h * Q \in Nat
    BY <1>1, <1>2, MulNat
  <2>. QED
    BY <1>3, <1>6, <2>2, <2>3
<1>7. CASE g # h
  <2>. HIDE DEF m, n
  <2>1. Log2Mantissa(m) \in Nat /\ Log2Mantissa(m) <= Q /\ Log2Mantissa(n) \in Nat
    <3>1. 2 * Q \in Nat /\ n <= n
      BY <1>1, <1>4
    <3>2. Log2Mantissa(m) \in Nat /\ Log2Mantissa(2 * Q) \in Nat
          /\ Log2Mantissa(m) <= Log2Mantissa(2 * Q)
      BY <1>4, <3>1, MantissaLogRises
    <3>3. Log2Mantissa(n) \in Nat
      BY <1>4, <3>1, MantissaLogRises
    <3>. QED
      BY <1>1, <3>2, <3>3, ApproximationAssumption
  <2>2. g * Q \in Nat /\ h * Q \in Nat /\ g * Q + Q <= h * Q
    <3>1. g + 1 \in Nat /\ g + 1 <= h /\ Q <= Q
      BY <1>1, <1>2, <1>5, <1>7
    <3>2. (g + 1) * Q <= h * Q
      BY <1>1, <1>2, <3>1, MulMono
    <3>3. (g + 1) * Q = g * Q + Q
      BY <1>1, <1>2, SMTT(20)
    <3>. QED
      BY <1>1, <1>2, <3>2, <3>3, MulNat
  <2>. QED
    BY <1>1, <1>3, <2>1, <2>2
<1>. QED
  BY <1>6, <1>7

\* The power of a fraction grows with it, from one to two.
LEMMA FractionPowerRises ==
    ASSUME NEW f \in Nat, NEW g \in Nat, f <= g, g <= Q
    PROVE  LET x == MulQ(Exp2Fraction(f), HardWallScale)
               y == MulQ(Exp2Fraction(g), HardWallScale)
           IN  /\ x \in Nat /\ y \in Nat
               /\ x <= y
               /\ HardWallScale <= x /\ y <= 2 * HardWallScale
<1>. DEFINE naturals == [k \in Nat |-> k]
            ones == [k \in Nat |-> 1]
<1>1. Q \in Nat \ {0} /\ Ln2Q \in Nat /\ HardWallScale \in Nat /\ Q <= Q /\ Ln2Q <= Ln2Q
      /\ HardWallScale <= HardWallScale
  BY QTyped, ApproximationAssumption, HardWallAssumption
<1>2. naturals \in Divisors /\ ones \in Divisors
  BY DEF Divisors
<1>. HIDE DEF naturals, ones
<1>3. \A e : Exp2Fraction(e) = Series(Q, MulQ(e, Ln2Q), naturals, ones, 10)
  BY DEF Exp2Fraction, naturals, ones
<1>4. ASSUME NEW d \in Nat, NEW e \in Nat, d <= e
      PROVE  /\ Exp2Fraction(d) \in Nat /\ Exp2Fraction(e) \in Nat
             /\ Exp2Fraction(d) <= Exp2Fraction(e)
  <2>1. MulQ(d, Ln2Q) \in Nat /\ MulQ(e, Ln2Q) \in Nat /\ MulQ(d, Ln2Q) <= MulQ(e, Ln2Q)
    BY <1>1, <1>4, MulQRises
  <2>2. /\ Series(Q, MulQ(d, Ln2Q), naturals, ones, 10) \in Nat
        /\ Series(Q, MulQ(e, Ln2Q), naturals, ones, 10) \in Nat
        /\ Series(Q, MulQ(d, Ln2Q), naturals, ones, 10)
             <= Series(Q, MulQ(e, Ln2Q), naturals, ones, 10)
    BY <1>1, <1>2, <2>1, SeriesRises
  <2>. QED
    BY <1>3, <2>2
<1>5. Exp2Fraction(0) = Q
  <2>1. MulQ(0, Ln2Q) = 0
    <3>1. 0 * Ln2Q = 0 /\ 0 \div Q = 0
      BY <1>1, SMTT(20)
    <3>. QED
      BY <3>1 DEF MulQ
  <2>. QED
    BY <1>1, <1>2, <1>3, <2>1, SeriesOfNothing
<1>6. 0 <= f /\ 0 \in Nat
  OBVIOUS
<1>7. /\ Exp2Fraction(f) \in Nat /\ Exp2Fraction(g) \in Nat
      /\ Q <= Exp2Fraction(f)
      /\ Exp2Fraction(f) <= Exp2Fraction(g)
      /\ Exp2Fraction(g) <= 2 * Q
  <2>1. Exp2Fraction(Q) <= 2 * Q /\ Exp2Fraction(Q) \in Nat /\ Exp2Fraction(g) <= Exp2Fraction(Q)
    BY <1>1, <1>4, ApproximationAssumption
  <2>2. Exp2Fraction(f) \in Nat /\ Exp2Fraction(g) \in Nat
        /\ Exp2Fraction(f) <= Exp2Fraction(g) /\ Exp2Fraction(0) <= Exp2Fraction(f)
    BY <1>4, <1>6
  <2>. QED
    BY <1>1, <1>5, <2>1, <2>2
<1>8. MulQ(Q, HardWallScale) = HardWallScale /\ MulQ(2 * Q, HardWallScale) = 2 * HardWallScale
  <2>1. \A n \in Nat : (Q * n) \div Q = n
    BY <1>1, SMTT(20)
  <2>2. (2 * Q) * HardWallScale = Q * (2 * HardWallScale) /\ 2 * HardWallScale \in Nat
    BY <1>1, SMTT(20)
  <2>. QED
    BY <1>1, <2>1, <2>2 DEF MulQ
<1>9. 2 * Q \in Nat
  BY <1>1
<1>. QED
  BY <1>1, <1>7, <1>8, <1>9, MulQRises

\* Shifting keeps the order of two values of which the one shifted less is at
\* most twice the other.
LEMMA ShiftRises ==
    ASSUME NEW x \in Nat, NEW y \in Nat, NEW v \in Int, NEW w \in Int, v <= w,
           x <= 2 * HardWallScale, v = w => x <= y, x <= 2 * y
    PROVE  /\ Shifted(x, v) \in Nat
           /\ Shifted(y, w) \in Nat
           /\ Shifted(x, v) <= Shifted(y, w)
<1>1. U128Max \in Nat /\ U128Bits \in Nat /\ HardWallScale \in Nat \ {0}
  BY WidthAssumption, QTyped, HardWallAssumption
<1>2. HardWallScale <= U128Max
  <2>1. HardWallScale <= HardWallScale * HardWallScale
    BY <1>1, SMTT(20)
  <2>2. HardWallScale * HardWallScale \in Nat
    BY <1>1, MulNat
  <2>. QED
    BY <1>1, <2>1, <2>2, HardWallAssumption
<1>3. ASSUME NEW z \in Nat, NEW n \in Int
      PROVE  /\ Shifted(z, n) \in Nat
             /\ n < 0 /\ -n < U128Bits =>
                    /\ TwoTo[-n] \in Nat \ {0}
                    /\ 2 <= TwoTo[-n]
                    /\ Shifted(z, n) = z \div TwoTo[-n]
             /\ n < 0 /\ ~(-n < U128Bits) => Shifted(z, n) = 0
             /\ n >= 0 => /\ TwoTo[n] \in Nat \ {0}
                          /\ z * TwoTo[n] \in Nat
                          /\ Shifted(z, n) <= U128Max
                          /\ \/ Shifted(z, n) = U128Max
                             \/ Shifted(z, n) = z * TwoTo[n] /\ n < U128Bits
             /\ n >= 0 /\ n < U128Bits /\ z * TwoTo[n] <= U128Max
                  => Shifted(z, n) = z * TwoTo[n]
  <2>1. CASE n < 0
    <3>1. -n \in Nat /\ 0 < -n /\ ~(n >= 0) /\ ~(n >= U128Bits)
      BY <1>1, <2>1
    <3>2. TwoTo[-n] \in Nat \ {0} /\ 2 * TwoTo[0] <= TwoTo[-n] /\ TwoTo[0] = 1
      BY <3>1, TwoToUnfolds, TwoToRises
    <3>3. z \div TwoTo[-n] \in Nat
      BY <3>2, DivNat
    <3>4. Shifted(z, n) = IF -n >= U128Bits THEN 0 ELSE z \div TwoTo[-n]
      BY <3>1 DEF Shifted
    <3>. QED
      BY <1>1, <3>1, <3>2, <3>3, <3>4
  <2>2. CASE n >= 0
    <3>. DEFINE p == TwoTo[n]
    <3>1. p \in Nat \ {0}
      BY <2>2, TwoToUnfolds
    <3>2. Shifted(z, n) = IF n >= U128Bits THEN U128Max
                          ELSE IF z > U128Max \div p THEN U128Max ELSE z * p
      BY <2>2 DEF Shifted
    <3>. HIDE DEF p
    <3>3. z * p \in Nat /\ (z * p <= U128Max <=> z <= U128Max \div p)
      BY <1>1, <3>1, MulNat, DivGreatest
    <3>4. U128Max \div p \in Nat
      BY <1>1, <3>1, DivNat
    <3>5. Shifted(z, n) = IF n >= U128Bits \/ ~(z * p <= U128Max) THEN U128Max ELSE z * p
      BY <1>1, <3>2, <3>3, <3>4
    <3>. QED
      BY <1>1, <2>2, <3>1, <3>3, <3>5 DEF p
  <2>. QED
    BY <2>1, <2>2
<1>4. ASSUME v < 0 PROVE Shifted(x, v) <= HardWallScale
  <2>1. CASE -v < U128Bits
    <3>. DEFINE p == TwoTo[-v]
    <3>1. p \in Nat \ {0} /\ 2 <= p /\ Shifted(x, v) = x \div p
      BY <1>3, <1>4, <2>1
    <3>. HIDE DEF p
    <3>2. 2 * HardWallScale \in Nat /\ 2 \in Nat \ {0}
      BY <1>1
    <3>3. x \div p <= (2 * HardWallScale) \div 2
      BY <3>1, <3>2, DivMono
    <3>4. (2 * HardWallScale) \div 2 = HardWallScale
      BY <1>1
    <3>. QED
      BY <3>1, <3>3, <3>4
  <2>2. CASE ~(-v < U128Bits)
    BY <1>1, <1>3, <1>4, <2>2
  <2>. QED
    BY <2>1, <2>2
<1>5. Shifted(x, v) \in Nat /\ Shifted(y, w) \in Nat
  BY <1>3
<1>6. CASE w >= 0 /\ Shifted(y, w) = U128Max
  <2>1. CASE v < 0
    BY <1>1, <1>2, <1>4, <1>5, <1>6, <2>1
  <2>2. CASE v >= 0
    BY <1>3, <1>5, <1>6, <2>2
  <2>. QED
    BY <2>1, <2>2
<1>7. CASE w >= 0 /\ Shifted(y, w) # U128Max
  <2>. DEFINE q == TwoTo[w]
  <2>1. /\ q \in Nat \ {0} /\ w \in Nat /\ w < U128Bits
        /\ y * q \in Nat
        /\ Shifted(y, w) = y * q /\ y * q <= U128Max
    <3>1. w >= 0 /\ w \in Nat /\ Shifted(y, w) # U128Max
      BY <1>7
    <3>2. /\ TwoTo[w] \in Nat \ {0}
          /\ y * TwoTo[w] \in Nat
          /\ Shifted(y, w) <= U128Max
          /\ Shifted(y, w) = U128Max \/ (Shifted(y, w) = y * TwoTo[w] /\ w < U128Bits)
      BY <1>3, <3>1
    <3>. QED
      BY <3>1, <3>2
  <2>2. CASE v < 0
    <3>1. y <= y * q
      <4>. HIDE DEF q
      <4>. QED
        BY <2>1, SMTT(20)
    <3>2. Shifted(x, v) <= y
      <4>1. CASE -v < U128Bits
        <5>. DEFINE p == TwoTo[-v]
        <5>1. p \in Nat \ {0} /\ 2 <= p /\ Shifted(x, v) = x \div p
          BY <1>3, <2>2, <4>1
        <5>. HIDE DEF p
        <5>2. 2 * y \in Nat /\ 2 \in Nat \ {0}
          OBVIOUS
        <5>3. x \div p <= (2 * y) \div 2
          BY <5>1, <5>2, DivMono
        <5>4. (2 * y) \div 2 = y
          OBVIOUS
        <5>. QED
          BY <5>1, <5>3, <5>4
      <4>2. CASE ~(-v < U128Bits)
        BY <1>1, <1>3, <2>2, <4>2
      <4>. QED
        BY <4>1, <4>2
    <3>. HIDE DEF q
    <3>. QED
      BY <1>5, <2>1, <3>1, <3>2
  <2>3. CASE v >= 0
    <3>. DEFINE p == TwoTo[v]
    <3>1. p \in Nat \ {0} /\ v \in Nat /\ x * p \in Nat /\ v < U128Bits
      <4>1. TwoTo[v] \in Nat \ {0} /\ x * TwoTo[v] \in Nat
        BY <1>3, <2>3
      <4>2. v \in Nat /\ v < U128Bits
        BY <1>1, <2>1, <2>3
      <4>. QED
        BY <4>1, <4>2
    <3>2. x * p <= y * q
      <4>1. CASE v = w
        <5>1. x <= y /\ p = q /\ p <= p
          BY <3>1, <4>1
        <5>. HIDE DEF p, q
        <5>. QED
          BY <2>1, <3>1, <5>1, MulMono
      <4>2. CASE v # w
        <5>1. 2 * p <= q /\ 2 * p \in Nat
          BY <2>1, <3>1, <4>2, TwoToRises
        <5>. HIDE DEF p, q
        <5>2. x * p <= (2 * y) * p /\ 2 * y \in Nat
          <6>1. p <= p /\ 2 * y \in Nat
            BY <3>1
          <6>. QED
            BY <3>1, <6>1, MulMono
        <5>3. y * (2 * p) <= y * q
          <6>1. y <= y
            OBVIOUS
          <6>. QED
            BY <2>1, <5>1, <6>1, MulMono
        <5>4. (2 * y) * p = y * (2 * p)
          BY <3>1, SMTT(20)
        <5>5. (2 * y) * p \in Nat
          BY <3>1, <5>2, MulNat
        <5>. QED
          BY <2>1, <3>1, <5>2, <5>3, <5>4, <5>5
      <4>. QED
        BY <4>1, <4>2
    <3>3. Shifted(x, v) = x * p
      <4>1. x * TwoTo[v] <= U128Max
        <5>. HIDE DEF q
        <5>. QED
          BY <1>1, <2>1, <3>1, <3>2
      <4>. HIDE DEF p, q
      <4>2. Shifted(x, v) = x * TwoTo[v]
        BY <1>3, <2>3, <3>1, <4>1
      <4>. QED
        BY <4>2 DEF p
    <3>. HIDE DEF p, q
    <3>. QED
      BY <1>5, <2>1, <3>2, <3>3
  <2>. QED
    BY <2>2, <2>3
<1>8. CASE w < 0
  <2>1. v < 0
    BY <1>8
  <2>2. CASE ~(-v < U128Bits)
    BY <1>3, <1>5, <2>1, <2>2
  <2>3. CASE -v < U128Bits
    <3>. DEFINE p == TwoTo[-v]
                q == TwoTo[-w]
    <3>1. -w < U128Bits /\ -w \in Nat /\ -v \in Nat /\ -w <= -v
      BY <1>1, <1>8, <2>3
    <3>2. /\ p \in Nat \ {0} /\ q \in Nat \ {0}
          /\ Shifted(x, v) = x \div p
          /\ Shifted(y, w) = y \div q
      BY <1>3, <1>8, <2>1, <2>3, <3>1
    <3>3. x * q <= y * p
      <4>1. CASE v = w
        <5>1. x <= y /\ p = q /\ p <= p
          BY <3>2, <4>1
        <5>. HIDE DEF p, q
        <5>. QED
          BY <3>2, <5>1, MulMono
      <4>2. CASE v # w
        <5>1. 2 * q <= p /\ 2 * q \in Nat
          <6>1. -w < -v
            BY <4>2
          <6>. QED
            BY <3>1, <3>2, <6>1, TwoToRises
        <5>. HIDE DEF p, q
        <5>2. x * q <= (2 * y) * q /\ 2 * y \in Nat
          <6>1. q <= q /\ 2 * y \in Nat
            BY <3>2
          <6>. QED
            BY <3>2, <6>1, MulMono
        <5>3. y * (2 * q) <= y * p
          <6>1. y <= y
            OBVIOUS
          <6>. QED
            BY <3>2, <5>1, <6>1, MulMono
        <5>4. (2 * y) * q = y * (2 * q)
          BY <3>2, SMTT(20)
        <5>5. (2 * y) * q \in Nat /\ x * q \in Nat /\ y * p \in Nat
          BY <3>2, <5>2, MulNat
        <5>. QED
          BY <5>2, <5>3, <5>4, <5>5
      <4>. QED
        BY <4>1, <4>2
    <3>. HIDE DEF p, q
    <3>4. x \div p <= y \div q
      BY <3>2, <3>3, QuotientMono
    <3>. QED
      BY <3>2, <3>4
  <2>. QED
    BY <2>2, <2>3
<1>. QED
  BY <1>6, <1>7, <1>8

\* A quotient of an integer by a natural lies in the interval of its remainder.
LEMMA IntegerQuotient ==
    ASSUME NEW a \in Int, NEW b \in Nat \ {0}
    PROVE  /\ a \div b \in Int
           /\ (a \div b) * b <= a
           /\ a < (a \div b) * b + b
BY SMTT(20)

\* The power of two grows with the exponent.
LEMMA Exp2Rises ==
    ASSUME NEW a \in Int, NEW b \in Int, a <= b
    PROVE  Exp2Q(a) \in Nat /\ Exp2Q(b) \in Nat /\ Exp2Q(a) <= Exp2Q(b)
<1>. DEFINE v == a \div Q
            w == b \div Q
            f == a - v * Q
            g == b - w * Q
            x == MulQ(Exp2Fraction(f), HardWallScale)
            y == MulQ(Exp2Fraction(g), HardWallScale)
<1>1. Q \in Nat \ {0} /\ HardWallScale \in Nat \ {0}
  BY QTyped, HardWallAssumption
<1>2. v \in Int /\ v * Q <= a /\ a < v * Q + Q
      /\ w \in Int /\ w * Q <= b /\ b < w * Q + Q
  BY <1>1, IntegerQuotient
<1>3. Exp2Q(a) = Shifted(x, v) /\ Exp2Q(b) = Shifted(y, w)
  BY DEF Exp2Q
<1>. HIDE DEF v, w
<1>4. v * Q \in Int /\ w * Q \in Int
  BY <1>1, <1>2, SMTT(20)
<1>5. f \in Nat /\ f <= Q /\ g \in Nat /\ g <= Q
  BY <1>1, <1>2, <1>4
<1>6. v <= w
  <2>1. SUFFICES ASSUME w < v PROVE FALSE
    BY <1>2
  <2>2. (w + 1) * Q <= v * Q
    BY <1>1, <1>2, <2>1, SMTT(20)
  <2>3. (w + 1) * Q = w * Q + Q
    BY <1>1, <1>2, SMTT(20)
  <2>. QED
    BY <1>1, <1>2, <1>4, <2>2, <2>3
<1>7. v = w => f <= g
  BY <1>2, <1>4
<1>. HIDE DEF f, g
<1>8. /\ x \in Nat /\ x <= 2 * HardWallScale /\ y \in Nat /\ HardWallScale <= y
      /\ f <= g => x <= y
  <2>1. f <= f /\ g <= g
    BY <1>5
  <2>. QED
    BY <1>5, <2>1, FractionPowerRises
<1>. HIDE DEF x, y
<1>9. x <= 2 * y
  BY <1>1, <1>8
<1>. QED
  BY <1>2, <1>3, <1>6, <1>7, <1>8, <1>9, ShiftRises

\* A division truncated towards zero keeps the order.
LEMMA TruncDivRises ==
    ASSUME NEW a \in Int, NEW b \in Int, a <= b, NEW c \in Nat \ {0}
    PROVE  /\ TruncDiv(a, c) \in Int
           /\ TruncDiv(b, c) \in Int
           /\ TruncDiv(a, c) <= TruncDiv(b, c)
<1>1. c <= c
  OBVIOUS
<1>2. \A n \in Int : /\ n >= 0 => n \div c \in Nat /\ TruncDiv(n, c) = n \div c
                     /\ ~(n >= 0) => (-n) \div c \in Nat /\ TruncDiv(n, c) = -((-n) \div c)
  BY DivNat DEF TruncDiv
<1>3. CASE a >= 0
  <2>1. a \in Nat /\ b \in Nat /\ b >= 0
    BY <1>3
  <2>2. a \div c <= b \div c
    BY <1>1, <2>1, DivMono
  <2>. QED
    BY <1>2, <1>3, <2>1, <2>2
<1>4. CASE ~(a >= 0) /\ b >= 0
  BY <1>2, <1>4
<1>5. CASE ~(b >= 0)
  <2>1. -a \in Nat /\ -b \in Nat /\ -b <= -a /\ ~(a >= 0)
    BY <1>5
  <2>2. (-b) \div c <= (-a) \div c
    BY <1>1, <2>1, DivMono
  <2>. QED
    BY <1>2, <1>5, <2>1, <2>2
<1>. QED
  BY <1>3, <1>4, <1>5

\* The power of a fractional exponent grows with the utilization and is one at
\* one, as the shortcut for it assumes.
LEMMA FractionalPowerRises ==
    ASSUME NEW u \in 1..U128Max, NEW v \in 1..U128Max, u <= v, NEW exponent \in Nat
    PROVE  /\ FractionalPower(u, exponent) \in Nat
           /\ FractionalPower(v, exponent) \in Nat
           /\ FractionalPower(u, exponent) <= FractionalPower(v, exponent)
<1>. DEFINE a == Log2Q(u) - Log2ScaleQ
            b == Log2Q(v) - Log2ScaleQ
            x == TruncDiv(a * exponent, CurveExponentScale)
            y == TruncDiv(b * exponent, CurveExponentScale)
<1>1. Log2ScaleQ \in Nat /\ CurveExponentScale \in Nat \ {0}
  BY ApproximationAssumption, HardWallAssumption
<1>2. a \in Int /\ b \in Int /\ a <= b
  BY <1>1, LogRises
<1>3. FractionalPower(u, exponent) = Exp2Q(x) /\ FractionalPower(v, exponent) = Exp2Q(y)
  BY DEF FractionalPower
<1>. HIDE DEF a, b
<1>4. a * exponent \in Int /\ b * exponent \in Int /\ a * exponent <= b * exponent
  BY <1>2, SMTT(20)
<1>5. x \in Int /\ y \in Int /\ x <= y
  BY <1>1, <1>4, TruncDivRises
<1>. HIDE DEF x, y
<1>. QED
  BY <1>3, <1>5, Exp2Rises

\* The power of a fractional exponent is one at one, as the shortcut takes it.
LEMMA FractionalPowerOfOne ==
    ASSUME NEW exponent \in Nat
    PROVE  FractionalPower(HardWallScale, exponent) = HardWallScale
<1>1. /\ Log2ScaleQ \in Nat /\ CurveExponentScale \in Nat \ {0} /\ Q \in Nat \ {0}
      /\ HardWallScale \in Nat \ {0} /\ U128Bits \in Nat /\ U128Max \in Nat
  BY ApproximationAssumption, HardWallAssumption, QTyped, WidthAssumption
<1>2. \A q \in Nat \ {0} : 0 \div q = 0
  BY SMTT(20)
<1>3. TruncDiv((Log2Q(HardWallScale) - Log2ScaleQ) * exponent, CurveExponentScale) = 0
  <2>1. Log2Q(HardWallScale) - Log2ScaleQ = 0
    BY <1>1, ApproximationAssumption
  <2>2. 0 * exponent = 0
    OBVIOUS
  <2>. QED
    BY <1>1, <1>2, <2>1, <2>2 DEF TruncDiv
<1>4. 0 \div Q = 0 /\ 0 - 0 * Q = 0
  BY <1>1, <1>2
<1>5. MulQ(Exp2Fraction(0), HardWallScale) = HardWallScale
  <2>. DEFINE naturals == [k \in Nat |-> k]
              ones == [k \in Nat |-> 1]
  <2>1. naturals \in Divisors /\ ones \in Divisors
    BY DEF Divisors
  <2>. HIDE DEF naturals, ones
  <2>2. MulQ(0, Ln2Q) = 0
    <3>1. 0 * Ln2Q = 0
      BY ApproximationAssumption
    <3>. QED
      BY <1>4, <3>1 DEF MulQ
  <2>3. Exp2Fraction(0) = Series(Q, 0, naturals, ones, 10)
    BY <2>2 DEF Exp2Fraction, naturals, ones
  <2>4. Exp2Fraction(0) = Q
    BY <1>1, <2>1, <2>3, SeriesOfNothing
  <2>5. (Q * HardWallScale) \div Q = HardWallScale
    BY <1>1, SMTT(20)
  <2>. QED
    BY <2>4, <2>5 DEF MulQ
<1>6. Shifted(HardWallScale, 0) = HardWallScale
  <2>1. TwoTo[0] = 1 /\ TwoTo[U128Bits] # 1
    <3>1. 1 <= HardWallScale * HardWallScale /\ HardWallScale * HardWallScale \in Nat
      BY <1>1, SMTT(20)
    <3>2. TwoTo[U128Bits] \in Nat
      BY <1>1, TwoToUnfolds
    <3>. QED
      BY <1>1, <3>1, <3>2, TwoToUnfolds, HardWallAssumption, ApproximationAssumption
  <2>2. ~(0 >= U128Bits)
    BY <1>1, <2>1
  <2>3. U128Max \div 1 = U128Max /\ HardWallScale * 1 = HardWallScale
    BY <1>1, SMTT(20)
  <2>4. ~(HardWallScale > U128Max)
    <3>1. HardWallScale <= HardWallScale * HardWallScale /\ HardWallScale * HardWallScale \in Nat
      BY <1>1, SMTT(20)
    <3>. QED
      BY <1>1, <3>1, HardWallAssumption
  <2>. QED
    BY <2>1, <2>2, <2>3, <2>4 DEF Shifted
<1>. QED
  BY <1>3, <1>4, <1>5, <1>6 DEF FractionalPower, Exp2Q

\* The curve rises with the utilization whatever its exponent, and whatever
\* saturates or is rounded on the way.
THEOREM CurveRises ==
    ASSUME NEW exponent \in Nat, NEW u \in 1..U128Max, NEW v \in 1..U128Max, u <= v
    PROVE  /\ UtilizationPower(u, exponent) \in Nat
           /\ UtilizationPower(v, exponent) \in Nat
           /\ UtilizationPower(u, exponent) <= UtilizationPower(v, exponent)
<1>1. HardWallScale \in Nat \ {0} /\ CurveExponentScale \in Nat \ {0}
  BY HardWallAssumption
<1>. DEFINE k == exponent \div CurveExponentScale
<1>2. k \in Nat
  BY <1>1, DivNat
<1>3. u \in Nat /\ v \in Nat
  BY WidthAssumption
<1>4. CASE exponent = 0
  BY <1>1, <1>4 DEF UtilizationPower
<1>5. CASE exponent # 0 /\ exponent % CurveExponentScale = 0
  <2>1. \A w \in Nat : UtilizationPower(w, exponent) = IntegerPower(w, k)
    <3>. HIDE DEF k
    <3>1. IntegerPower(HardWallScale, k) = HardWallScale
      BY <1>1, <1>2, IntegerPowerRises
    <3>. QED
      BY <1>5, <3>1 DEF UtilizationPower, k
  <2>. HIDE DEF k
  <2>2. IntegerPower(u, k) \in Nat /\ IntegerPower(v, k) \in Nat
    BY <1>2, <1>3, PowerUnfolds
  <2>3. IntegerPower(u, k) <= IntegerPower(v, k)
    BY <1>2, <1>3, IntegerPowerRises
  <2>. QED
    BY <1>3, <2>1, <2>2, <2>3
<1>6. CASE exponent # 0 /\ exponent % CurveExponentScale # 0
  <2>1. \A w : UtilizationPower(w, exponent) = FractionalPower(w, exponent)
    BY <1>6, FractionalPowerOfOne DEF UtilizationPower
  <2>. QED
    BY <2>1, FractionalPowerRises
<1>. QED
  BY <1>4, <1>5, <1>6
-----------------------------------------------------------------------------
(***************************************************************************)
(* Less pressure never pays less: with a volume and a trade count at most  *)
(* those of another moment, and a vault and a cap at least those of that   *)
(* moment, the wall pays at least as much, and refuses nothing it paid.    *)
(***************************************************************************)
\* A result at most another, wherever there is another.
Below(x, y) == y.ok => x.ok /\ x.val <= y.val

\* Two records of pairs configured alike.
SameParameters(c, d) ==
    /\ c.max_haircut_bps = d.max_haircut_bps
    /\ c.exponent_scaled = d.exponent_scaled
    /\ c.cadence_threshold = d.cadence_threshold
    /\ c.cadence_wave_scaled = d.cadence_wave_scaled
    /\ c.wall_sensitivity_scaled = d.wall_sensitivity_scaled

\* The curve takes no more at the lower utilization.
LEMMA HaircutRises ==
    ASSUME NEW u \in 1..U128Max, NEW v \in 1..U128Max, u <= v, NEW bps \in Nat,
           NEW exponent \in Nat
    PROVE  Below(RedemptionHaircut(u, bps, exponent), RedemptionHaircut(v, bps, exponent))
<1>. DEFINE peg == (HardWallScale * bps) \div MaxBasisPoints
            x == UtilizationPower(u, exponent)
            y == UtilizationPower(v, exponent)
<1>1. HardWallScale \in Nat \ {0} /\ MaxBasisPoints \in Nat \ {0} /\ U128Max \in Nat
  BY HardWallAssumption, PricingAssumption, WidthAssumption
<1>2. peg \in Nat
  BY <1>1, MulNat, DivNat
<1>3. x \in Nat /\ y \in Nat /\ x <= y
  BY CurveRises
<1>4. /\ RedemptionHaircut(u, bps, exponent)
           = IF ~ExponentOk(exponent) THEN Err("InvalidCurveExponent")
             ELSE IF peg = 0 THEN Ok(0)
             ELSE IF MulFits(x, peg) THEN Ok(Clamp128((x * peg) \div HardWallScale))
             ELSE Ok(U128Max)
      /\ RedemptionHaircut(v, bps, exponent)
           = IF ~ExponentOk(exponent) THEN Err("InvalidCurveExponent")
             ELSE IF peg = 0 THEN Ok(0)
             ELSE IF MulFits(y, peg) THEN Ok(Clamp128((y * peg) \div HardWallScale))
             ELSE Ok(U128Max)
  BY DEF RedemptionHaircut
<1>. HIDE DEF peg, x, y
<1>. DEFINE a == (x * peg) \div HardWallScale
            b == (y * peg) \div HardWallScale
<1>5. a \in Nat /\ b \in Nat /\ a <= b
  <2>1. x * peg \in Nat /\ y * peg \in Nat /\ x * peg <= y * peg
    BY <1>2, <1>3, MulNat, MulMono
  <2>2. HardWallScale <= HardWallScale
    BY <1>1
  <2>. QED
    BY <1>1, <2>1, <2>2, DivNat, DivMono
<1>. HIDE DEF a, b
<1>6. Clamp128(a) \in Nat /\ Clamp128(a) <= U128Max /\ Clamp128(a) <= Clamp128(b)
  BY <1>1, <1>5 DEF Clamp128, U128
<1>7. MulFits(y, peg) => MulFits(x, peg)
  <2>1. peg <= peg
    BY <1>2
  <2>. QED
    BY <1>2, <1>3, <2>1, MulFitsMono
<1>. QED
  BY <1>1, <1>4, <1>6, <1>7 DEF Below, Ok, Err, a, b

\* The wall stands no lower over a fuller vault and under less volume.
LEMMA WallRises ==
    ASSUME NEW lower \in U64 \ {0}, NEW upper \in U64 \ {0}, lower <= upper,
           NEW volume \in U64, NEW less \in U64, less <= volume, NEW s \in Nat
    PROVE  /\ DynamicWall(lower, volume, s).ok
           /\ DynamicWall(upper, less, s).ok
           /\ DynamicWall(lower, volume, s).val <= DynamicWall(upper, less, s).val
<1>. DEFINE wall(liquidity, vol) ==
                (liquidity * WallSensitivityScale)
                    \div (WallSensitivityScale + (s * vol) \div liquidity)
<1>1. U64 \subseteq Nat /\ WallSensitivityScale \in Nat \ {0} /\ U64Max \in Nat
  BY Naturals64, HardWallAssumption
<1>2. ASSUME NEW liquidity \in U64 \ {0}, NEW vol \in Nat
      PROVE  /\ wall(liquidity, vol) \in Nat
             /\ wall(liquidity, vol) <= liquidity
             /\ WallSensitivityScale + (s * vol) \div liquidity \in Nat \ {0}
             /\ liquidity * WallSensitivityScale \in Nat
  <2>. DEFINE pressure == (s * vol) \div liquidity
  <2>1. liquidity \in Nat \ {0} /\ s * vol \in Nat
    BY <1>1, MulNat
  <2>2. pressure \in Nat
    BY <2>1, DivNat
  <2>. HIDE DEF pressure
  <2>3. /\ WallSensitivityScale + pressure \in Nat \ {0}
        /\ WallSensitivityScale <= WallSensitivityScale + pressure
        /\ liquidity <= liquidity
    BY <1>1, <2>1, <2>2
  <2>4. liquidity * WallSensitivityScale \in Nat
    BY <1>1, <2>1, MulNat
  <2>5. (liquidity * WallSensitivityScale) \div (WallSensitivityScale + pressure) \in Nat
    BY <2>3, <2>4, DivNat
  <2>6. (liquidity * WallSensitivityScale) \div (WallSensitivityScale + pressure)
            <= liquidity
    <3>1. liquidity * WallSensitivityScale
            <= liquidity * (WallSensitivityScale + pressure)
      BY <1>1, <2>1, <2>3, MulMono
    <3>. DEFINE top == liquidity * WallSensitivityScale
                bottom == WallSensitivityScale + pressure
    <3>2. top \in Nat /\ bottom \in Nat \ {0} /\ 1 \in Nat \ {0} /\ liquidity \in Nat
      BY <2>1, <2>3, <2>4
    <3>. HIDE DEF top, bottom
    <3>3. top * 1 <= liquidity * bottom
      BY <3>1, <3>2 DEF top, bottom
    <3>4. top \div bottom <= liquidity \div 1
      BY <3>2, <3>3, QuotientMono
    <3>5. liquidity \div 1 = liquidity
      BY <2>1, SMTT(20)
    <3>. QED
      BY <3>4, <3>5 DEF top, bottom
  <2>. QED
    BY <2>3, <2>4, <2>5, <2>6 DEF pressure
<1>3. ASSUME NEW liquidity \in U64 \ {0}, NEW vol \in Nat, vol # 0
      PROVE  DynamicWall(liquidity, vol, s) = Ok(Greater(wall(liquidity, vol), 1))
  <2>1. DynamicWall(liquidity, vol, s) = Narrow(Greater(wall(liquidity, vol), 1))
    BY <1>3 DEF DynamicWall
  <2>2. wall(liquidity, vol) \in Nat /\ wall(liquidity, vol) <= liquidity
    BY <1>2
  <2>. HIDE DEF wall
  <2>3. Greater(wall(liquidity, vol), 1) \in U64
    BY <1>1, <2>2 DEF Greater, U64
  <2>. QED
    BY <2>1, <2>3, NarrowOk
<1>4. less \in Nat /\ volume \in Nat /\ lower \in Nat \ {0} /\ upper \in Nat \ {0}
  BY <1>1
<1>5. CASE volume = 0
  BY <1>4, <1>5 DEF DynamicWall, Ok
<1>6. CASE volume # 0 /\ less = 0
  <2>1. wall(lower, volume) \in Nat /\ wall(lower, volume) <= lower
    BY <1>2, <1>4
  <2>2. DynamicWall(lower, volume, s) = Ok(Greater(wall(lower, volume), 1))
    BY <1>3, <1>4, <1>6
  <2>3. DynamicWall(upper, less, s) = Ok(upper)
    BY <1>6 DEF DynamicWall
  <2>. HIDE DEF wall
  <2>. QED
    BY <1>4, <2>1, <2>2, <2>3 DEF Greater, Ok
<1>7. CASE volume # 0 /\ less # 0
  <2>. DEFINE p == WallSensitivityScale + (s * volume) \div lower
              q == WallSensitivityScale + (s * less) \div upper
  <2>1. p \in Nat \ {0} /\ q \in Nat \ {0} /\ wall(lower, volume) \in Nat
        /\ lower * WallSensitivityScale \in Nat /\ upper * WallSensitivityScale \in Nat
        /\ wall(upper, less) \in Nat
    BY <1>2, <1>4
  <2>2. q <= p
    <3>1. s * less \in Nat /\ s * volume \in Nat /\ s * less <= s * volume
      BY <1>4, MulNat, MulMono
    <3>2. (s * less) \div upper <= (s * volume) \div lower
      BY <1>4, <3>1, DivMono
    <3>3. (s * less) \div upper \in Nat /\ (s * volume) \div lower \in Nat
      BY <1>4, <3>1, DivNat
    <3>. QED
      BY <1>1, <3>2, <3>3
  <2>3. lower * WallSensitivityScale <= upper * WallSensitivityScale
    BY <1>1, <1>4, MulMono
  <2>4. /\ wall(lower, volume) = (lower * WallSensitivityScale) \div p
        /\ wall(upper, less) = (upper * WallSensitivityScale) \div q
    OBVIOUS
  <2>. HIDE DEF p, q
  <2>5. wall(lower, volume) <= wall(upper, less)
    <3>1. (lower * WallSensitivityScale) \div p <= (upper * WallSensitivityScale) \div q
      BY <2>1, <2>2, <2>3, DivMono
    <3>. QED
      BY <2>4, <3>1
  <2>6. /\ DynamicWall(lower, volume, s) = Ok(Greater(wall(lower, volume), 1))
        /\ DynamicWall(upper, less, s) = Ok(Greater(wall(upper, less), 1))
    BY <1>3, <1>4, <1>7
  <2>. HIDE DEF wall
  <2>. QED
    BY <2>1, <2>5, <2>6 DEF Greater, Ok
<1>. QED
  BY <1>5, <1>6, <1>7

\* The effective liquidity is no lower, and is there wherever it was, for less
\* pressure on a fuller vault.
LEMMA EffectiveRises ==
    ASSUME NEW c, NEW d, NEW t, NEW time, NEW less \in U64, NEW more \in U64,
           Tuned(d), SameParameters(c, d),
           Below(EffectiveSellVolume(c, less, t), EffectiveSellVolume(d, more, time)),
           NEW lower \in U64 \ {0}, NEW upper \in U64 \ {0}, lower <= upper,
           NEW lowCap \in U64 \ {0}, NEW highCap \in U64 \ {0}, lowCap <= highCap
    PROVE  LET low == EffectiveLiquidity(more, lower, lowCap, d, time)
               high == EffectiveLiquidity(less, upper, highCap, c, t)
           IN  low.ok => high.ok /\ low.val <= high.val
<1>. DEFINE s == d.wall_sensitivity_scaled
            volume == EffectiveSellVolume(d, more, time)
            lighter == EffectiveSellVolume(c, less, t)
            low == EffectiveLiquidity(more, lower, lowCap, d, time)
            high == EffectiveLiquidity(less, upper, highCap, c, t)
            wall == DynamicWall(lower, volume.val, s)
            higher == DynamicWall(upper, lighter.val, s)
<1>1. U64 \subseteq Nat /\ s \in Nat
  BY Naturals64 DEF Tuned
<1>2. c.wall_sensitivity_scaled = s
  BY DEF SameParameters
<1>3. CASE s = 0
  <2>1. low = Ok(Lesser(lower, lowCap)) /\ high = Ok(Lesser(upper, highCap))
    BY <1>2, <1>3 DEF EffectiveLiquidity
  <2>. QED
    BY <1>1, <2>1 DEF Lesser, Ok
<1>4. CASE s # 0
  <2>. SUFFICES ASSUME low.ok PROVE high.ok /\ low.val <= high.val
    OBVIOUS
  <2>1. volume.ok /\ wall.ok /\ low = Ok(Lesser(wall.val, lowCap))
    BY <1>4 DEF EffectiveLiquidity
  <2>2. lighter.ok /\ lighter.val <= volume.val
    BY <2>1 DEF Below
  <2>3. lighter.val \in U64 /\ volume.val \in U64
    BY <2>1, <2>2, VolumeTyped
  <2>. HIDE DEF lighter, volume
  <2>4. wall.ok /\ higher.ok /\ wall.val <= higher.val
    BY <1>1, <2>2, <2>3, WallRises
  <2>5. wall.val \in U64 /\ higher.val \in U64
    BY <1>1, <2>3, <2>4, WallPositive
  <2>6. high = Ok(Lesser(higher.val, highCap))
    BY <1>2, <1>4, <2>2, <2>4 DEF EffectiveLiquidity, lighter
  <2>. HIDE DEF wall, higher, low, high
  <2>7. /\ wall.val \in Nat /\ higher.val \in Nat
        /\ lowCap \in Nat /\ highCap \in Nat
    BY <1>1, <2>5
  <2>8. Lesser(wall.val, lowCap) <= Lesser(higher.val, highCap)
    BY <2>4, <2>7 DEF Lesser
  <2>. QED
    BY <2>1, <2>6, <2>8 DEF Ok
<1>. QED
  BY <1>3, <1>4

\* Utilization falls as the effective liquidity rises.
LEMMA UtilizationFalls ==
    ASSUME NEW amount \in Nat \ {0}, NEW lower \in Nat \ {0}, NEW upper \in Nat \ {0},
           lower <= upper
    PROVE  Utilization(amount, upper) <= Utilization(amount, lower)
<1>1. HardWallScale \in Nat \ {0}
  BY HardWallAssumption
<1>2. amount * HardWallScale \in Nat /\ amount * HardWallScale <= amount * HardWallScale
  BY <1>1, MulNat
<1>3. (amount * HardWallScale) \div amount = HardWallScale
  BY <1>1, SMTT(20)
<1>4. /\ Utilization(amount, upper) = (amount * HardWallScale) \div upper
      /\ Utilization(amount, lower) = (amount * HardWallScale) \div lower
  BY <1>3 DEF Utilization
<1>. QED
  BY <1>2, <1>4, DivMono

\* The wave of a lower trade count takes no more.
LEMMA WaveRises ==
    ASSUME NEW c, NEW d, NEW t, NEW time, Tuned(c), Tuned(d), SameParameters(c, d),
           Below(SellTradeCount(c, t), SellTradeCount(d, time))
    PROVE  Below(CadenceWave(c, t), CadenceWave(d, time))
<1>. DEFINE threshold == d.cadence_threshold
            scaled == d.cadence_wave_scaled
            ramp(count) == IF count >= threshold THEN CadenceWaveScale
                           ELSE (count * CadenceWaveScale) \div threshold
            wave(count) == (scaled * ramp(count)) \div CadenceWaveScale
            more == SellTradeCount(d, time)
            fewer == SellTradeCount(c, t)
<1>1. /\ threshold \in Nat /\ scaled \in Nat
      /\ c.cadence_threshold = threshold /\ c.cadence_wave_scaled = scaled
      /\ CadenceWaveScale \in Nat \ {0}
  BY CadenceAssumption DEF Tuned, SameParameters
<1>2. more.val \in Nat /\ fewer.val \in Nat
  BY DEF SellTradeCount, Tuned, Ok, Err
<1>3. /\ CadenceWave(d, time) =
           IF \/ threshold = 0
              \/ scaled > MaxCadenceWave
              \/ scaled % CadenceWaveStep # 0
           THEN Err("InvalidCadenceConfig")
           ELSE IF scaled = 0 THEN Ok(0)
           ELSE IF ~more.ok THEN more ELSE Ok(wave(more.val))
      /\ CadenceWave(c, t) =
           IF \/ threshold = 0
              \/ scaled > MaxCadenceWave
              \/ scaled % CadenceWaveStep # 0
           THEN Err("InvalidCadenceConfig")
           ELSE IF scaled = 0 THEN Ok(0)
           ELSE IF ~fewer.ok THEN fewer ELSE Ok(wave(fewer.val))
  BY <1>1 DEF CadenceWave, CadenceRamp
<1>4. ASSUME NEW m \in Nat, NEW n \in Nat, m <= n, threshold # 0
      PROVE  wave(m) <= wave(n)
  <2>1. ASSUME NEW k \in Nat, k < threshold
        PROVE  ramp(k) \in Nat /\ ramp(k) <= CadenceWaveScale
    <3>1. (CadenceWaveScale * k) \div threshold \in 0..CadenceWaveScale
      <4>1. k \in 0..threshold /\ threshold \in Nat \ {0}
        BY <1>1, <1>4, <2>1
      <4>. QED
        BY <1>1, <4>1, ScaleDown
    <3>2. CadenceWaveScale * k = k * CadenceWaveScale
      BY <1>1
    <3>. HIDE DEF threshold
    <3>3. ramp(k) = (k * CadenceWaveScale) \div threshold
      BY <1>1, <2>1
    <3>. QED
      BY <1>1, <3>1, <3>2, <3>3
  <2>2. ramp(m) \in Nat /\ ramp(n) \in Nat /\ ramp(m) <= ramp(n)
    <3>1. CASE n >= threshold
      BY <1>1, <2>1, <3>1
    <3>2. CASE ~(n >= threshold)
      <4>1. m < threshold /\ n < threshold
        BY <1>1, <1>4, <3>2
      <4>2. m * CadenceWaveScale <= n * CadenceWaveScale
            /\ m * CadenceWaveScale \in Nat /\ n * CadenceWaveScale \in Nat
        BY <1>1, <1>4, MulNat, MulMono
      <4>3. (m * CadenceWaveScale) \div threshold <= (n * CadenceWaveScale) \div threshold
        <5>1. threshold \in Nat \ {0} /\ threshold <= threshold
          BY <1>1, <1>4
        <5>. QED
          BY <4>2, <5>1, DivMono
      <4>4. ramp(m) \in Nat /\ ramp(n) \in Nat
        BY <2>1, <4>1
      <4>. HIDE DEF threshold
      <4>. QED
        BY <1>1, <4>1, <4>3, <4>4
    <3>. QED
      BY <3>1, <3>2
  <2>. HIDE DEF ramp
  <2>3. scaled * ramp(m) <= scaled * ramp(n)
        /\ scaled * ramp(m) \in Nat /\ scaled * ramp(n) \in Nat
    BY <1>1, <2>2, MulNat, MulMono
  <2>4. CadenceWaveScale <= CadenceWaveScale
    BY <1>1
  <2>. QED
    BY <1>1, <2>3, <2>4, DivMono
<1>. HIDE DEF wave
<1>. QED
  BY <1>1, <1>2, <1>3, <1>4 DEF Below, Ok, Err

\* The wave's haircut takes no more at a lower utilization and a lower wave.
LEMMA CadenceRises ==
    ASSUME NEW u \in Nat, NEW v \in Nat, u <= v, NEW wave \in Nat, NEW higher \in Nat,
           wave <= higher
    PROVE  Below(CadenceHaircut(u, wave), CadenceHaircut(v, higher))
<1>. DEFINE S == HardWallScale
            E == CadenceWaveEase
            unit == CadenceWaveScale * CadenceCapDivisor
            a == Lesser(u, S)
            b == Lesser(v, S)
            x == a * E
            y == b * E
            p == (x * S) \div (x + (S - a))
            q == (y * S) \div (y + (S - b))
<1>1. S \in Nat \ {0} /\ E \in Nat \ {0} /\ unit \in Nat \ {0} /\ S <= S /\ unit <= unit
  <2>1. CadenceWaveScale \in Nat \ {0} /\ CadenceCapDivisor \in Nat \ {0}
    BY CadenceAssumption
  <2>2. unit \in Nat \ {0}
    BY <2>1, SMTT(20)
  <2>. HIDE DEF unit
  <2>. QED
    BY <2>2, HardWallAssumption, CadenceAssumption
<1>2. a \in 0..S /\ b \in 0..S /\ a <= b
  BY <1>1 DEF Lesser
<1>3. /\ CadenceHaircut(u, wave)
           = IF wave = 0 THEN Ok(0)
             ELSE IF ~MulFits(x, S) \/ ~MulFits(p, wave) THEN Overflow
             ELSE Ok(Lesser((p * wave) \div unit, S))
      /\ CadenceHaircut(v, higher)
           = IF higher = 0 THEN Ok(0)
             ELSE IF ~MulFits(y, S) \/ ~MulFits(q, higher) THEN Overflow
             ELSE Ok(Lesser((q * higher) \div unit, S))
  BY DEF CadenceHaircut
<1>. HIDE DEF S, E, unit, a, b
<1>4. x \in Nat /\ y \in Nat /\ x <= y
  BY <1>1, <1>2, MulNat, MulMono
<1>5. p \in Nat /\ q \in Nat /\ p <= q
  <2>. DEFINE m == x + (S - a)
              n == y + (S - b)
  <2>1. ASSUME NEW k \in 0..S PROVE k * E + (S - k) \in Nat \ {0}
    <3>1. k * E \in Nat /\ k * 1 <= k * E
      <4>1. k \in Nat /\ 1 <= E /\ 1 \in Nat /\ E \in Nat /\ k <= k
        BY <1>1
      <4>. QED
        BY <4>1, MulNat, MulMono
    <3>. QED
      BY <1>1, <3>1
  <2>2. m \in Nat \ {0} /\ n \in Nat \ {0}
    BY <1>2, <2>1
  <2>3. x * S \in Nat /\ y * S \in Nat
    BY <1>1, <1>4, MulNat
  <2>4. (x * S) * n <= (y * S) * m
    <3>1. x * n = (a * b) * (E * E) + x * S - (a * b) * E
      BY <1>1, <1>2, SMTT(30)
    <3>2. y * m = (a * b) * (E * E) + y * S - (a * b) * E
      BY <1>1, <1>2, SMTT(30)
    <3>3. x * S <= y * S
      BY <1>1, <1>4, MulMono
    <3>4. (a * b) * (E * E) \in Nat /\ (a * b) * E \in Nat
      BY <1>1, <1>2, MulNat
    <3>5. x * n \in Nat /\ y * m \in Nat
      BY <1>4, <2>2, MulNat
    <3>. HIDE DEF x, y, m, n
    <3>6. x * n <= y * m
      BY <2>3, <3>1, <3>2, <3>3, <3>4, <3>5
    <3>7. (x * n) * S <= (y * m) * S
      BY <1>1, <3>5, <3>6, MulMono
    <3>8. (x * S) * n = (x * n) * S /\ (y * S) * m = (y * m) * S
      BY <1>1, <1>4, <2>2, SMTT(20)
    <3>. QED
      BY <3>7, <3>8
  <2>. HIDE DEF x, y, m, n
  <2>5. (x * S) \div m \in Nat /\ (y * S) \div n \in Nat
    BY <2>2, <2>3, DivNat
  <2>6. (x * S) \div m <= (y * S) \div n
    BY <2>2, <2>3, <2>4, QuotientMono
  <2>. QED
    BY <2>5, <2>6 DEF m, n
<1>. HIDE DEF x, y, p, q
<1>. DEFINE j == (p * wave) \div unit
            k == (q * higher) \div unit
<1>6. j \in Nat /\ k \in Nat /\ j <= k
  <2>1. p * wave \in Nat /\ q * higher \in Nat /\ p * wave <= q * higher
    BY <1>5, MulNat, MulMono
  <2>. QED
    BY <1>1, <2>1, DivNat, DivMono
<1>7. MulFits(y, S) => MulFits(x, S)
  BY <1>1, <1>4, MulFitsMono
<1>8. MulFits(q, higher) => MulFits(p, wave)
  BY <1>5, MulFitsMono
<1>. HIDE DEF j, k
<1>9. Lesser(j, S) \in Nat /\ Lesser(k, S) \in Nat /\ Lesser(j, S) <= Lesser(k, S)
  BY <1>1, <1>6 DEF Lesser
<1>10. CASE wave = 0
  BY <1>3, <1>9, <1>10 DEF Below, Ok, Err, Overflow, j, k
<1>11. CASE wave # 0
  <2>1. higher # 0
    BY <1>11
  <2>. QED
    BY <1>3, <1>7, <1>8, <1>9, <1>11, <2>1 DEF Below, Ok, Err, Overflow, j, k
<1>. QED
  BY <1>10, <1>11

\* What is left of an amount rises as utilization, volume and count fall.
LEMMA DampenedRises ==
    ASSUME NEW c, NEW d, NEW t, NEW time, Tuned(c), Tuned(d), SameParameters(c, d),
           Below(SellTradeCount(c, t), SellTradeCount(d, time)),
           NEW u \in 1..U128Max, NEW v \in 1..U128Max, u <= v, NEW amount \in U64,
           Dampened(amount, v, d, time).ok
    PROVE  /\ Dampened(amount, u, c, t).ok
           /\ Dampened(amount, v, d, time).val <= Dampened(amount, u, c, t).val
<1>. DEFINE curve == RedemptionHaircut(v, d.max_haircut_bps, d.exponent_scaled)
            wave == CadenceWave(d, time)
            cadence == CadenceHaircut(v, wave.val)
            factor == SatSub(HardWallScale, Greater(curve.val, cadence.val))
            paid == (amount * factor) \div HardWallScale
            curve2 == RedemptionHaircut(u, d.max_haircut_bps, d.exponent_scaled)
            wave2 == CadenceWave(c, t)
            cadence2 == CadenceHaircut(u, wave2.val)
            factor2 == SatSub(HardWallScale, Greater(curve2.val, cadence2.val))
            paid2 == (amount * factor2) \div HardWallScale
<1>1. HardWallScale \in Nat \ {0} /\ amount \in Nat /\ U64Max \in Nat
      /\ u \in Nat \ {0} /\ v \in Nat \ {0}
  BY HardWallAssumption, WidthAssumption, Naturals64
<1>2. /\ curve.ok
      /\ wave.ok
      /\ cadence.ok
      /\ Dampened(amount, v, d, time) = Narrow(paid)
  BY DEF Dampened
<1>3. curve2.ok /\ curve2.val <= curve.val
  <2>1. d.max_haircut_bps \in Nat /\ d.exponent_scaled \in Nat
    BY DEF Tuned
  <2>. QED
    BY <1>2, <2>1, HaircutRises DEF Below
<1>4. wave2.ok /\ wave2.val <= wave.val
  BY <1>2, WaveRises DEF Below
<1>5. wave.val \in Nat /\ wave2.val \in Nat
  BY <1>2, <1>4, WaveTyped
<1>6. cadence2.ok /\ cadence2.val <= cadence.val
  BY <1>1, <1>2, <1>4, <1>5, CadenceRises DEF Below
<1>7. /\ curve.val \in Nat /\ curve2.val \in Nat
      /\ cadence.val \in Nat /\ cadence2.val \in Nat
  BY <1>1, <1>5, HaircutTyped, CadenceTyped
<1>8. Dampened(amount, u, c, t) = Narrow(paid2)
  BY <1>3, <1>4, <1>6 DEF Dampened, SameParameters
<1>9. /\ factor \in 0..HardWallScale
      /\ factor2 \in 0..HardWallScale
      /\ factor <= factor2
  <2>. HIDE DEF curve, curve2, cadence, cadence2
  <2>. QED
    BY <1>1, <1>3, <1>6, <1>7 DEF SatSub, Greater
<1>. HIDE DEF factor, factor2
<1>10. paid \in 0..amount /\ paid2 \in 0..amount
  BY <1>1, <1>9, ScaleDown
<1>11. paid <= paid2
  <2>1. /\ amount * factor \in Nat /\ amount * factor2 \in Nat
        /\ amount * factor <= amount * factor2
    BY <1>1, <1>9, MulNat, MulMono
  <2>2. HardWallScale <= HardWallScale
    BY <1>1
  <2>. QED
    BY <1>1, <2>1, <2>2, DivMono
<1>. HIDE DEF paid, paid2
<1>12. paid \in U64 /\ paid2 \in U64
  BY <1>1, <1>10 DEF U64
<1>. QED
  BY <1>2, <1>8, <1>11, <1>12, NarrowOk DEF Ok

\* Less pressure on a fuller vault never pays less, whatever the two records of
\* alike pairs hold beside it.
THEOREM HardWallRises ==
    ASSUME NEW c, NEW d, NEW t, NEW time, Tuned(c), Tuned(d), SameParameters(c, d),
           NEW amount \in U64,
           Below(EffectiveSellVolume(c, amount, t), EffectiveSellVolume(d, amount, time)),
           Below(SellTradeCount(c, t), SellTradeCount(d, time)),
           NEW lower \in U64, NEW upper \in U64, lower <= upper,
           NEW lowCap \in U64, NEW highCap \in U64, lowCap <= highCap,
           ApplyHardWall(amount, lower, lowCap, d, time).ok
    PROVE  /\ ApplyHardWall(amount, upper, highCap, c, t).ok
           /\ ApplyHardWall(amount, lower, lowCap, d, time).val
                <= ApplyHardWall(amount, upper, highCap, c, t).val
<1>. DEFINE low == EffectiveLiquidity(amount, lower, lowCap, d, time)
            high == EffectiveLiquidity(amount, upper, highCap, c, t)
            v == Utilization(amount, low.val)
            u == Utilization(amount, high.val)
            before == ApplyHardWall(amount, lower, lowCap, d, time)
            after == ApplyHardWall(amount, upper, highCap, c, t)
<1>1. /\ amount \in Nat /\ lower \in Nat /\ upper \in Nat
      /\ lowCap \in Nat /\ highCap \in Nat
  BY Naturals64
<1>2. lower # 0 /\ lowCap # 0 /\ upper # 0 /\ highCap # 0
  BY <1>1 DEF ApplyHardWall, Err
<1>3. CASE amount = 0
  BY <1>2, <1>3 DEF ApplyHardWall, Ok
<1>4. CASE amount # 0
  <2>1. /\ ~(amount > lower)
        /\ low.ok
        /\ before = IF v = 0 THEN Ok(amount) ELSE Dampened(amount, v, d, time)
    BY <1>2, <1>4 DEF ApplyHardWall, Err
  <2>2. high.ok /\ low.val <= high.val
    BY <1>2, <2>1, EffectiveRises
  <2>3. low.val \in Nat \ {0} /\ high.val \in Nat \ {0}
    <3>1. low.val \in U64 \ {0} /\ high.val \in U64 \ {0}
      BY <1>2, <2>1, <2>2, EffectivePositive
    <3>. HIDE DEF low, high
    <3>. QED
      BY <3>1, Naturals64
  <2>4. after = IF u = 0 THEN Ok(amount) ELSE Dampened(amount, u, c, t)
    <3>1. ~(amount > upper)
      BY <1>1, <2>1
    <3>. QED
      BY <1>2, <1>4, <2>2, <3>1 DEF ApplyHardWall
  <2>. HIDE DEF low, high
  <2>5. u \in Nat /\ v \in Nat /\ u <= v
    BY <1>1, <1>4, <2>2, <2>3, UtilizationTyped, UtilizationFalls
  <2>10. u <= U128Max /\ v <= U128Max
    BY <2>3, UtilizationWithin
  <2>6. before.ok
    OBVIOUS
  <2>7. before.val \in 0..amount
    <3>1. \A w \in Nat : Dampened(amount, w, d, time).ok =>
              Dampened(amount, w, d, time).val \in 0..amount
      BY <1>1, DampenedBounded
    <3>. HIDE DEF v, before
    <3>. QED
      BY <1>1, <2>1, <2>5, <2>6, <3>1 DEF Ok
  <2>. HIDE DEF u, v, before, after
  <2>8. CASE u = 0
    BY <1>1, <2>4, <2>7, <2>8 DEF Ok, after, before
  <2>9. CASE u # 0
    <3>1. u \in 1..U128Max /\ v \in 1..U128Max /\ v # 0
      BY <2>5, <2>10, <2>9, WidthAssumption
    <3>2. before = Dampened(amount, v, d, time) /\ after = Dampened(amount, u, c, t)
      BY <2>1, <2>4, <3>1
    <3>3. after.ok /\ before.val <= after.val
      BY <2>5, <2>6, <3>1, <3>2, DampenedRises
    <3>. QED
      BY <3>3 DEF before, after
  <2>. QED
    BY <2>8, <2>9
<1>. QED
  BY <1>3, <1>4

(***************************************************************************)
(* The size of a sell: a larger one weighs on the wall more, uses more of  *)
(* it, and is rated no better.                                             *)
(***************************************************************************)
\* Utilization grows with the amount.
LEMMA UtilizationGrows ==
    ASSUME NEW small \in Nat \ {0}, NEW large \in Nat \ {0}, small <= large,
           NEW effective \in Nat \ {0}
    PROVE  Utilization(small, effective) <= Utilization(large, effective)
<1>1. HardWallScale \in Nat \ {0} /\ effective <= effective
  BY HardWallAssumption
<1>2. /\ small * HardWallScale \in Nat /\ large * HardWallScale \in Nat
      /\ small * HardWallScale <= large * HardWallScale
  BY <1>1, MulNat, MulMono
<1>3. \A amount \in Nat \ {0} : (amount * HardWallScale) \div amount = HardWallScale
  BY <1>1, SMTT(20)
<1>4. /\ Utilization(small, effective) = (small * HardWallScale) \div effective
      /\ Utilization(large, effective) = (large * HardWallScale) \div effective
  BY <1>3 DEF Utilization
<1>. QED
  BY <1>1, <1>2, <1>4, DivMono

\* A smaller sum narrows wherever a greater one does.
LEMMA NarrowBelow ==
    ASSUME NEW m \in Nat, NEW n \in Nat, m <= n
    PROVE  Below(Narrow(m), Narrow(n))
BY Naturals64 DEF Below, Narrow, U64, Ok, Overflow, Err

\* The volume an amount is added to does not depend on it.
LEMMA VolumeGrows ==
    ASSUME NEW d, NEW time, NEW small \in U64, NEW large \in U64, small <= large
    PROVE  Below(EffectiveSellVolume(d, small, time), EffectiveSellVolume(d, large, time))
<1>. DEFINE recorded == CheckedAdd(DecayedPrev(d, time), EpochNet(d, time))
            volume(incoming) == EffectiveSellVolume(d, incoming, time)
<1>1. small \in Nat /\ large \in Nat
  BY Naturals64
<1>2. \A incoming : volume(incoming) =
          IF d.epoch_duration_seconds = 0 THEN Err("InvalidEpochDuration")
          ELSE IF PressureLapsed(d, time) THEN Ok(incoming)
          ELSE IF ~recorded.ok THEN Overflow
          ELSE Narrow(recorded.val + incoming)
  BY DEF EffectiveSellVolume, CheckedAdd
<1>3. recorded.ok => recorded.val \in Nat
  BY NarrowTyped, Naturals64 DEF CheckedAdd
<1>. HIDE DEF recorded, volume
<1>4. CASE recorded.ok
  <2>1. Below(Narrow(recorded.val + small), Narrow(recorded.val + large))
    <3>1. /\ recorded.val + small \in Nat /\ recorded.val + large \in Nat
          /\ recorded.val + small <= recorded.val + large
      BY <1>1, <1>3, <1>4
    <3>. QED
      BY <3>1, NarrowBelow
  <2>. QED
    BY <1>1, <1>2, <1>4, <2>1 DEF Below, Ok, Err, volume
<1>5. CASE ~recorded.ok
  BY <1>1, <1>2, <1>5 DEF Below, Ok, Err, Overflow, volume
<1>. QED
  BY <1>4, <1>5

\* Equal parts of two amounts, rounded down, are in proportion but for a unit.
LEMMA PartsInProportion ==
    ASSUME NEW small \in Nat, NEW large \in Nat \ {0}, NEW part \in Nat,
           NEW scale \in Nat \ {0}
    PROVE  ((large * part) \div scale) * small
              < large * ((small * part) \div scale + 1)
<1>. DEFINE p == (large * part) \div scale
            q == (small * part) \div scale
<1>1. large * part \in Nat /\ small * part \in Nat
  BY MulNat
<1>2. /\ p \in Nat /\ scale * p <= large * part
      /\ q \in Nat /\ small * part < scale * q + scale
  BY <1>1, DivNat
<1>. HIDE DEF p, q
<1>3. (scale * p) * small <= (large * part) * small
  BY <1>1, <1>2, MulNat, MulMono
<1>4. large * (small * part) < large * (scale * q + scale)
  <2>1. scale * q + scale \in Nat
    BY <1>2, MulNat
  <2>. DEFINE m == small * part
              n == scale * q + scale
  <2>2. m \in Nat /\ n \in Nat /\ m + 1 <= n
    BY <1>1, <1>2, <2>1
  <2>. HIDE DEF m, n
  <2>3. large * (m + 1) <= large * n
    BY <2>2, MulMono
  <2>4. large * (m + 1) = large * m + large /\ large * m \in Nat /\ large * n \in Nat
    BY <2>2, MulNat, SMTT(20)
  <2>. QED
    BY <2>3, <2>4 DEF m, n
<1>5. /\ (scale * p) * small = scale * (p * small)
      /\ (large * part) * small = large * (small * part)
      /\ large * (scale * q + scale) = scale * (large * (q + 1))
  BY <1>2, SMTT(30)
<1>. DEFINE left == p * small
            right == large * (q + 1)
<1>6. left \in Nat /\ right \in Nat
  BY <1>2, MulNat
<1>7. scale * left < scale * right
  <2>1. /\ scale * left \in Nat /\ scale * right \in Nat
        /\ large * (small * part) \in Nat
    BY <1>1, <1>6, MulNat
  <2>. HIDE DEF left, right
  <2>. QED
    BY <1>3, <1>4, <1>5, <2>1 DEF left, right
<1>. HIDE DEF left, right
<1>8. ~(right <= left)
  <2>1. right <= left => scale * right <= scale * left
    BY <1>6, MulMono
  <2>2. scale * left \in Nat /\ scale * right \in Nat
    BY <1>6, MulNat
  <2>. QED
    BY <1>7, <2>1, <2>2
<1>. QED
  BY <1>6, <1>8 DEF left, right, p, q

\* One utilization takes the same share of every amount.
LEMMA DampenedInProportion ==
    ASSUME NEW d, Tuned(d), NEW time, NEW u \in Nat,
           NEW small \in U64, NEW large \in U64 \ {0}, small <= large,
           Dampened(large, u, d, time).ok
    PROVE  /\ Dampened(small, u, d, time).ok
           /\ Dampened(large, u, d, time).val * small
                < large * (Dampened(small, u, d, time).val + 1)
<1>. DEFINE curve == RedemptionHaircut(u, d.max_haircut_bps, d.exponent_scaled)
            wave == CadenceWave(d, time)
            cadence == CadenceHaircut(u, wave.val)
            factor == SatSub(HardWallScale, Greater(curve.val, cadence.val))
            paid(amount) == (amount * factor) \div HardWallScale
<1>1. HardWallScale \in Nat \ {0} /\ small \in Nat /\ large \in Nat \ {0}
      /\ small <= U64Max /\ U64Max \in Nat
  BY HardWallAssumption, Naturals64 DEF U64
<1>2. curve.ok /\ wave.ok /\ cadence.ok
  BY DEF Dampened
<1>3. \A amount : Dampened(amount, u, d, time) = Narrow(paid(amount))
  BY <1>2 DEF Dampened
<1>4. factor \in 0..HardWallScale
  <2>1. curve.val \in Nat /\ cadence.val \in Nat
    BY <1>2, HaircutTyped, CadenceTyped, WaveTyped
  <2>. HIDE DEF curve, cadence
  <2>. QED
    BY <1>1, <2>1 DEF SatSub, Greater
<1>. HIDE DEF factor
<1>5. paid(small) \in 0..small
  BY <1>1, <1>4, ScaleDown
<1>6. paid(large) * small < large * (paid(small) + 1)
  <2>1. factor \in Nat
    BY <1>1, <1>4
  <2>. QED
    BY <1>1, <2>1, PartsInProportion
<1>7. Dampened(large, u, d, time).val = paid(large)
  BY <1>3, NarrowTyped
<1>8. Dampened(small, u, d, time) = Ok(paid(small))
  <2>1. paid(small) \in U64
    <3>. HIDE DEF paid
    <3>. QED
      BY <1>1, <1>5 DEF U64
  <2>. QED
    BY <1>3, <2>1, NarrowOk
<1>. QED
  BY <1>6, <1>7, <1>8 DEF Ok

\* Behind one wall at one moment, a larger amount is paid no larger a share, and
\* a smaller one is paid wherever a larger one is.
THEOREM HardWallRates ==
    ASSUME NEW d, Tuned(d), NEW time, NEW small \in U64, NEW large \in U64, small <= large,
           small # 0, NEW liquidity \in U64, NEW cap \in U64,
           ApplyHardWall(large, liquidity, cap, d, time).ok
    PROVE  /\ ApplyHardWall(small, liquidity, cap, d, time).ok
           /\ ApplyHardWall(large, liquidity, cap, d, time).val * small
                < large * (ApplyHardWall(small, liquidity, cap, d, time).val + 1)
<1>. DEFINE low == EffectiveLiquidity(large, liquidity, cap, d, time)
            high == EffectiveLiquidity(small, liquidity, cap, d, time)
            v == Utilization(large, low.val)
            u == Utilization(small, high.val)
            all == ApplyHardWall(large, liquidity, cap, d, time)
            part == ApplyHardWall(small, liquidity, cap, d, time)
<1>1. /\ small \in Nat \ {0} /\ large \in Nat \ {0}
      /\ liquidity \in Nat /\ cap \in Nat /\ liquidity <= liquidity /\ cap <= cap
  BY Naturals64
<1>2. liquidity # 0 /\ cap # 0
  BY DEF ApplyHardWall, Err
<1>3. /\ ~(large > liquidity)
      /\ low.ok
      /\ all = IF v = 0 THEN Ok(large) ELSE Dampened(large, v, d, time)
  BY <1>1, <1>2 DEF ApplyHardWall, Err
<1>4. high.ok /\ low.val <= high.val
  <2>1. Below(EffectiveSellVolume(d, small, time), EffectiveSellVolume(d, large, time))
    BY VolumeGrows
  <2>2. SameParameters(d, d)
    BY DEF SameParameters
  <2>. QED
    BY <1>1, <1>2, <1>3, <2>1, <2>2, EffectiveRises
<1>5. low.val \in Nat \ {0} /\ high.val \in Nat \ {0}
  <2>1. low.val \in U64 \ {0} /\ high.val \in U64 \ {0}
    BY <1>2, <1>3, <1>4, EffectivePositive
  <2>. HIDE DEF low, high
  <2>. QED
    BY <2>1, Naturals64
<1>6. part = IF u = 0 THEN Ok(small) ELSE Dampened(small, u, d, time)
  <2>1. ~(small > liquidity)
    BY <1>1, <1>3
  <2>. QED
    BY <1>1, <1>2, <1>4, <2>1 DEF ApplyHardWall
<1>. HIDE DEF low, high
<1>7. u \in Nat /\ v \in Nat /\ u <= v
  <2>1. /\ Utilization(small, high.val) <= Utilization(small, low.val)
        /\ Utilization(small, low.val) <= Utilization(large, low.val)
    BY <1>1, <1>4, <1>5, UtilizationFalls, UtilizationGrows
  <2>2. /\ Utilization(small, high.val) \in Nat /\ Utilization(small, low.val) \in Nat
        /\ Utilization(large, low.val) \in Nat
    BY <1>1, <1>5, UtilizationTyped
  <2>. QED
    BY <2>1, <2>2
<1>8. u <= U128Max /\ v <= U128Max
  BY <1>5, UtilizationWithin
<1>9. all.val \in 0..large
  <2>1. \A w \in Nat : Dampened(large, w, d, time).ok =>
            Dampened(large, w, d, time).val \in 0..large
    BY <1>1, DampenedBounded
  <2>2. all.ok
    OBVIOUS
  <2>. HIDE DEF v, all
  <2>. QED
    BY <1>1, <1>3, <1>7, <2>1, <2>2 DEF Ok
<1>10. all.ok
  OBVIOUS
<1>. HIDE DEF u, v, all, part
<1>11. CASE u = 0
  <2>1. part.ok /\ part.val = small
    BY <1>6, <1>11 DEF Ok
  <2>2. all.val * small <= large * small /\ all.val * small \in Nat /\ large * small \in Nat
    <3>1. all.val \in Nat /\ all.val <= large /\ small <= small
      BY <1>1, <1>9
    <3>. QED
      BY <1>1, <3>1, MulMono, MulNat
  <2>3. large * (small + 1) = large * small + large
    BY <1>1, SMTT(20)
  <2>. QED
    BY <1>1, <2>1, <2>2, <2>3 DEF all, part
<1>12. CASE u # 0
  <2>1. u \in 1..U128Max /\ v \in 1..U128Max /\ v # 0
    BY <1>7, <1>8, <1>12, WidthAssumption
  <2>2. all = Dampened(large, v, d, time) /\ part = Dampened(small, u, d, time)
    BY <1>3, <1>6, <2>1
  <2>. DEFINE same == Dampened(small, v, d, time)
  <2>3. same.ok /\ all.val * small < large * (same.val + 1)
    <3>1. large \in U64 \ {0} /\ Dampened(large, v, d, time).ok
      BY <1>1, <1>10, <2>2
    <3>. QED
      BY <1>7, <2>2, <3>1, DampenedInProportion
  <2>4. part.ok /\ same.val <= part.val
    <3>1. /\ SameParameters(d, d)
          /\ Below(SellTradeCount(d, time), SellTradeCount(d, time))
      <4>1. SellTradeCount(d, time).val \in Nat
        BY DEF SellTradeCount, Tuned, Ok, Err
      <4>. QED
        BY <4>1 DEF SameParameters, Below
    <3>. QED
      BY <1>7, <2>1, <2>2, <2>3, <3>1, DampenedRises
  <2>5. same.val \in Nat /\ part.val \in Nat /\ all.val \in Nat
    <3>1. \A w \in Nat : Dampened(small, w, d, time).ok =>
              Dampened(small, w, d, time).val \in 0..small
      BY <1>1, DampenedBounded
    <3>2. same.val \in 0..small /\ part.val \in 0..small
      BY <1>7, <2>2, <2>3, <2>4, <3>1
    <3>. HIDE DEF same
    <3>. QED
      BY <1>1, <1>9, <3>2
  <2>. HIDE DEF same
  <2>6. large * (same.val + 1) <= large * (part.val + 1)
    <3>1. same.val + 1 \in Nat /\ part.val + 1 \in Nat /\ same.val + 1 <= part.val + 1
          /\ large \in Nat /\ large <= large
      BY <1>1, <2>4, <2>5
    <3>. QED
      BY <3>1, MulMono
  <2>7. /\ all.val * small \in Nat /\ large * (same.val + 1) \in Nat
        /\ large * (part.val + 1) \in Nat
    <3>1. same.val + 1 \in Nat /\ part.val + 1 \in Nat
      BY <2>5
    <3>. QED
      BY <1>1, <2>5, <3>1, MulNat
  <2>. QED
    BY <2>3, <2>4, <2>6, <2>7 DEF all, part
<1>. QED
  BY <1>11, <1>12
-----------------------------------------------------------------------------
(***************************************************************************)
(* The pair account: the dampening record it turns into, what a roll keeps *)
(* of it, and that the crate's preview of the roll is exact.               *)
(***************************************************************************)
\* The cast of an i64 lands in the u64 range and keeps what is not negative.
LEMMA AsU64Typed ==
    ASSUME NEW i \in I64
    PROVE  AsU64(i) \in U64 /\ (i >= 0 => AsU64(i) = i)
BY WidthAssumption, SMTT(20) DEF I64, AsU64, U64

\* Every account the program can hold converts to a well-typed record.
LEMMA DampeningTyped ==
    ASSUME NEW p \in PropAmmPairState
    PROVE  ToDampeningState(p) \in DampeningState
BY AsU64Typed DEF PropAmmPairState, ToDampeningState, DampeningState

\* The roll keeps the account an account with the same parameters.
LEMMA RolledTyped ==
    ASSUME NEW p \in PropAmmPairState, NEW time \in U64
    PROVE  /\ Rolled(p, time) \in PropAmmPairState
           /\ Rolled(p, time).epoch_duration_seconds = p.epoch_duration_seconds
<1>1. time \in I64 /\ 0 \in U64
  BY Naturals64 DEF I64, U64
<1>2. ASSUME NEW prev \in U64
      PROVE  /\ NewEpoch(p, prev, time) \in PropAmmPairState
             /\ NewEpoch(p, prev, time).epoch_duration_seconds = p.epoch_duration_seconds
  BY <1>1, <1>2 DEF NewEpoch, PropAmmPairState
<1>3. CurrentNet(ToDampeningState(p)) \in U64
  <2>1. p.curr_sell_value_stable \in U64 /\ p.curr_buy_value_stable \in U64
    BY DEF PropAmmPairState
  <2>. QED
    BY <2>1, Naturals64 DEF CurrentNet, ToDampeningState, SatSub, U64
<1>. QED
  BY <1>1, <1>2, <1>3 DEF Rolled

-----------------------------------------------------------------------------
(***************************************************************************)
(* The preview of the roll is exact: volume and cadence of the account as  *)
(* it stands are those of the account the program rolls it into.           *)
(***************************************************************************)
\* An epoch's net volume is a u64.
LEMMA CurrentNetTyped ==
    ASSUME NEW d \in DampeningState PROVE CurrentNet(d) \in U64
<1>1. d.sell_volume \in U64 /\ d.buy_volume \in U64
  BY DEF DampeningState
<1>. QED
  BY <1>1, Naturals64 DEF CurrentNet, SatSub, U64

\* Twice an epoch, saturated, is at least an epoch.
LEMMA DoubleEpoch ==
    ASSUME NEW e \in U64 \ {0} PROVE SatMul64(e, 2) \in Nat \ {0} /\ SatMul64(e, 2) >= e
BY Naturals64 DEF SatMul64, U64

\* The dampening record of an account rolled at time.
Fresh(d, prev, time) ==
    [max_haircut_bps |-> d.max_haircut_bps,
     exponent_scaled |-> d.exponent_scaled,
     cadence_threshold |-> d.cadence_threshold,
     cadence_wave_scaled |-> d.cadence_wave_scaled,
     wall_sensitivity_scaled |-> d.wall_sensitivity_scaled,
     epoch_start |-> time,
     epoch_duration_seconds |-> d.epoch_duration_seconds,
     sell_volume |-> 0,
     buy_volume |-> 0,
     sell_trade_count |-> 0,
     prev_net_sell_volume |-> prev]

\* In the second of the roll a fresh record weighs the previous epoch in full
\* and nothing else, and counts no trade.
LEMMA FreshPreview ==
    ASSUME NEW d \in DampeningState, d.epoch_duration_seconds # 0,
           NEW prev \in U64, NEW time \in U64 \ {0}, NEW incoming \in U64
    PROVE  /\ EffectiveSellVolume(Fresh(d, prev, time), incoming, time)
                = CheckedAdd(prev, incoming)
           /\ SellTradeCount(Fresh(d, prev, time), time) = Ok(0)
<1>. DEFINE f == Fresh(d, prev, time)
            e == d.epoch_duration_seconds
<1>1. /\ f.epoch_start = time
      /\ f.epoch_duration_seconds = e
      /\ f.prev_net_sell_volume = prev
      /\ f.sell_volume = 0
      /\ f.buy_volume = 0
      /\ f.sell_trade_count = 0
  BY DEF Fresh, DampeningState
<1>2. e \in U64 \ {0} /\ e \in Nat \ {0} /\ time \in Nat /\ prev \in Nat
  BY Naturals64 DEF DampeningState
<1>3. Elapsed(f, time) = 0
  BY <1>1, <1>2 DEF Elapsed, SatSub
<1>4. CurrentNet(f) = 0
  BY <1>1 DEF CurrentNet, SatSub
<1>5. ~PressureLapsed(f, time)
  BY <1>1, <1>2, <1>3, DoubleEpoch DEF PressureLapsed
<1>6. DecayedPrev(f, time) = prev
  <2>1. DecayedPrev(f, time) = (prev * (e - 0)) \div e
    BY <1>1, <1>2, <1>3 DEF DecayedPrev
  <2>2. (prev * e) \div e = prev
    BY <1>2, SMTT(30)
  <2>. QED
    BY <1>2, <2>1, <2>2
<1>7. EpochNet(f, time) = 0
  BY <1>1, <1>2, <1>3, <1>4 DEF EpochNet
<1>8. CheckedAdd(DecayedPrev(f, time), EpochNet(f, time)) = Ok(prev)
  BY <1>2, <1>6, <1>7, NarrowOk DEF CheckedAdd
<1>9. EffectiveSellVolume(f, incoming, time) = CheckedAdd(prev, incoming)
  BY <1>1, <1>2, <1>5, <1>8 DEF EffectiveSellVolume, Ok
<1>10. SellTradeCount(f, time) = Ok(0)
  BY <1>1, <1>2, <1>3 DEF SellTradeCount
<1>. QED
  BY <1>9, <1>10

\* Rolling the account and converting it is converting it and rolling the record.
LEMMA RolledDampening ==
    ASSUME NEW p \in PropAmmPairState, NEW prev \in U64, NEW time \in U64
    PROVE  ToDampeningState(NewEpoch(p, prev, time))
             = Fresh(ToDampeningState(p), prev, time)
<1>1. time \in I64 /\ AsU64(time) = time
  BY AsU64Typed, Naturals64 DEF I64, U64
<1>. DEFINE n == NewEpoch(p, prev, time)
            d == ToDampeningState(p)
<1>2. /\ n.curve_peg_haircut_bps = p.curve_peg_haircut_bps
      /\ n.curve_exponent_scaled = p.curve_exponent_scaled
      /\ n.cadence_threshold = p.cadence_threshold
      /\ n.cadence_wave_scaled = p.cadence_wave_scaled
      /\ n.wall_sensitivity_scaled = p.wall_sensitivity_scaled
      /\ n.epoch_duration_seconds = p.epoch_duration_seconds
  BY DEF NewEpoch, PropAmmPairState
<1>3. /\ n.curr_sell_value_stable = 0
      /\ n.curr_buy_value_stable = 0
      /\ n.curr_sell_trade_count = 0
      /\ n.prev_net_sell_value_stable = prev
      /\ n.epoch_start = time
  BY DEF NewEpoch, PropAmmPairState
<1>4. ToDampeningState(n) = Fresh(d, prev, time)
  <2>. HIDE DEF n
  <2>. QED
    BY <1>1, <1>2, <1>3 DEF ToDampeningState, Fresh
<1>. QED
  BY <1>4

\* The volume and the count the crate previews from the account as it stands
\* are those of the account the program rolls it into.
LEMMA PreviewExact ==
    ASSUME NEW p \in PropAmmPairState, p.epoch_duration_seconds > 0,
           NEW time \in U64 \ {0}, NEW incoming \in U64
    PROVE  LET d == ToDampeningState(p)
               r == ToDampeningState(Rolled(p, time))
           IN  /\ EffectiveSellVolume(r, incoming, time)
                    = EffectiveSellVolume(d, incoming, time)
               /\ SellTradeCount(r, time) = SellTradeCount(d, time)
               /\ \/ r = d
                  \/ \E prev \in U64 : r = Fresh(d, prev, time)
<1>. DEFINE d == ToDampeningState(p)
            r == ToDampeningState(Rolled(p, time))
            e == d.epoch_duration_seconds
<1>1. d \in DampeningState
  BY DampeningTyped
<1>2. e \in U64 \ {0} /\ e \in Nat \ {0}
  <2>1. AsU64(p.epoch_duration_seconds) = p.epoch_duration_seconds
    BY AsU64Typed DEF PropAmmPairState, I64
  <2>2. AsU64(p.epoch_duration_seconds) \in U64
    BY AsU64Typed DEF PropAmmPairState
  <2>3. e = p.epoch_duration_seconds
    BY <2>1 DEF ToDampeningState
  <2>4. e \in U64
    BY <2>1, <2>2, <2>3
  <2>. HIDE DEF e
  <2>. QED
    BY <2>3, <2>4, Naturals64
<1>3. incoming \in Nat /\ time \in Nat /\ d.epoch_start \in Nat
  BY <1>1, Naturals64 DEF DampeningState
<1>4. Elapsed(d, time) \in Nat
  BY <1>3 DEF Elapsed, SatSub
<1>5. CASE PressureLapsed(d, time)
  <2>1. r = Fresh(d, 0, time)
    BY <1>5, RolledDampening, Naturals64 DEF Rolled
  <2>2. EffectiveSellVolume(d, incoming, time) = Ok(incoming)
    BY <1>2, <1>5 DEF EffectiveSellVolume
  <2>3. CheckedAdd(0, incoming) = Ok(incoming)
    BY <1>3, NarrowOk DEF CheckedAdd
  <2>4. SellTradeCount(d, time) = Ok(0)
    BY <1>2, <1>3, <1>4, <1>5, DoubleEpoch DEF SellTradeCount, PressureLapsed
  <2>. QED
    BY <1>1, <1>2, <2>1, <2>2, <2>3, <2>4, FreshPreview, Naturals64
<1>6. CASE ~PressureLapsed(d, time) /\ Elapsed(d, time) >= e
  <2>. DEFINE net == CurrentNet(d)
  <2>1. net \in U64 /\ net \in Nat
    BY <1>1, CurrentNetTyped, Naturals64
  <2>2. r = Fresh(d, net, time)
    BY <1>6, <2>1, RolledDampening DEF Rolled
  <2>3. DecayedPrev(d, time) = net /\ EpochNet(d, time) = 0
    BY <1>2, <1>4, <1>6 DEF DecayedPrev, EpochNet
  <2>4. CheckedAdd(net, 0) = Ok(net)
    BY <2>1, NarrowOk DEF CheckedAdd
  <2>5. EffectiveSellVolume(d, incoming, time) = CheckedAdd(net, incoming)
    BY <1>2, <1>6, <2>3, <2>4 DEF EffectiveSellVolume, Ok
  <2>6. SellTradeCount(d, time) = Ok(0)
    BY <1>2, <1>6 DEF SellTradeCount
  <2>. QED
    BY <1>1, <1>2, <2>1, <2>2, <2>5, <2>6, FreshPreview
<1>7. CASE ~PressureLapsed(d, time) /\ ~(Elapsed(d, time) >= e)
  BY <1>7 DEF Rolled
<1>. QED
  BY <1>5, <1>6, <1>7

\* The hard wall lets the same amount through before the roll and after it.
LEMMA RollTransparentWall ==
    ASSUME NEW p \in PropAmmPairState, p.epoch_duration_seconds > 0,
           NEW time \in U64 \ {0}, NEW amount \in U64, NEW liquidity, NEW cap
    PROVE  ApplyHardWall(amount, liquidity, cap, ToDampeningState(Rolled(p, time)), time)
             = ApplyHardWall(amount, liquidity, cap, ToDampeningState(p), time)
<1>. DEFINE d == ToDampeningState(p)
            r == ToDampeningState(Rolled(p, time))
<1>1. d \in DampeningState
  BY DampeningTyped
<1>2. /\ EffectiveSellVolume(r, amount, time) = EffectiveSellVolume(d, amount, time)
      /\ SellTradeCount(r, time) = SellTradeCount(d, time)
  BY PreviewExact
<1>3. /\ r.max_haircut_bps = d.max_haircut_bps
      /\ r.exponent_scaled = d.exponent_scaled
      /\ r.cadence_threshold = d.cadence_threshold
      /\ r.cadence_wave_scaled = d.cadence_wave_scaled
      /\ r.wall_sensitivity_scaled = d.wall_sensitivity_scaled
  <2>1. r = d \/ \E prev \in U64 : r = Fresh(d, prev, time)
    BY PreviewExact
  <2>. QED
    BY <1>1, <2>1 DEF Fresh, DampeningState
<1>4. CadenceWave(r, time) = CadenceWave(d, time)
  BY <1>2, <1>3 DEF CadenceWave, CadenceRamp
<1>5. EffectiveLiquidity(amount, liquidity, cap, r, time)
        = EffectiveLiquidity(amount, liquidity, cap, d, time)
  BY <1>2, <1>3 DEF EffectiveLiquidity
<1>6. \A u : Dampened(amount, u, r, time) = Dampened(amount, u, d, time)
  BY <1>3, <1>4 DEF Dampened
<1>. QED
  BY <1>5, <1>6 DEF ApplyHardWall
-----------------------------------------------------------------------------
(***************************************************************************)
(* How the preview moves: waiting only lowers the volume and the count, a  *)
(* sell only raises them, and a buy only lowers them.                      *)
(***************************************************************************)
\* As time passes without a trade, what is recorded of an epoch that has begun
\* weighs less and less, and the trades of the epoch are forgotten.
LEMMA WaitingLowers ==
    ASSUME NEW d \in DampeningState, NEW t \in Nat, NEW later \in Nat, t <= later,
           d.epoch_start <= t \/ d.epoch_start > later, NEW incoming \in U64
    PROVE  /\ Below(EffectiveSellVolume(d, incoming, later),
                    EffectiveSellVolume(d, incoming, t))
           /\ Below(SellTradeCount(d, later), SellTradeCount(d, t))
<1>. DEFINE E == d.epoch_duration_seconds
            x == Elapsed(d, t)
            y == Elapsed(d, later)
            prev == d.prev_net_sell_volume
            net == CurrentNet(d)
<1>1. /\ E \in Nat /\ prev \in Nat /\ d.epoch_start \in Nat
      /\ d.sell_trade_count \in Nat /\ incoming \in Nat
  BY Naturals64 DEF DampeningState
<1>2. net \in Nat
  BY CurrentNetTyped, Naturals64
<1>3. CASE E = 0
  BY <1>3 DEF EffectiveSellVolume, SellTradeCount, Below, Err
<1>4. CASE E # 0
  <2>1. x \in Nat /\ y \in Nat /\ x <= y
    BY <1>1 DEF Elapsed, SatSub
  <2>2. PressureLapsed(d, t) => PressureLapsed(d, later)
    <3>1. E \in U64 \ {0}
      BY <1>4 DEF DampeningState
    <3>2. SatMul64(E, 2) \in Nat
      BY <3>1, DoubleEpoch
    <3>. HIDE DEF E, x, y
    <3>. QED
      BY <1>1, <2>1, <3>2 DEF PressureLapsed, x, y, E
  <2>3. Below(SellTradeCount(d, later), SellTradeCount(d, t))
    <3>1. /\ SellTradeCount(d, t) =
               IF d.epoch_start = 0 \/ d.epoch_start > t \/ x >= E
               THEN Ok(0) ELSE Ok(d.sell_trade_count)
          /\ SellTradeCount(d, later) =
               IF d.epoch_start = 0 \/ d.epoch_start > later \/ y >= E
               THEN Ok(0) ELSE Ok(d.sell_trade_count)
      BY <1>4 DEF SellTradeCount
    <3>. HIDE DEF x, y, E
    <3>. QED
      BY <1>1, <2>1, <3>1 DEF Below, Ok
  <2>. DEFINE weight(z) == IF z < E THEN (prev * (E - z)) \div E + net ELSE net
  <2>4. ASSUME NEW at \in {t, later}, ~PressureLapsed(d, at)
        PROVE  /\ weight(Elapsed(d, at)) \in Nat
               /\ EffectiveSellVolume(d, incoming, at)
                    = IF Narrow(weight(Elapsed(d, at))).ok
                      THEN Narrow(weight(Elapsed(d, at)) + incoming) ELSE Overflow
    <3>. DEFINE z == Elapsed(d, at)
    <3>1. z \in Nat
      BY <2>1
    <3>2. z < E => (prev * (E - z)) \div E \in Nat
      <4>1. ASSUME z < E PROVE (prev * (E - z)) \div E \in Nat
        <5>1. E - z \in Nat
          BY <1>1, <3>1, <4>1
        <5>2. prev * (E - z) \in Nat
          BY <1>1, <5>1, MulNat
        <5>. QED
          BY <1>1, <1>4, <5>2, DivNat
      <4>. QED
        BY <4>1
    <3>3. DecayedPrev(d, at) + EpochNet(d, at) = weight(z)
      <4>1. CASE z < E
        BY <4>1 DEF DecayedPrev, EpochNet
      <4>2. CASE ~(z < E)
        <5>1. DecayedPrev(d, at) = net /\ EpochNet(d, at) = 0
          BY <4>2 DEF DecayedPrev, EpochNet
        <5>. QED
          BY <1>2, <4>2, <5>1
      <4>. QED
        BY <4>1, <4>2
    <3>4. weight(z) \in Nat
      BY <1>2, <3>2
    <3>5. CheckedAdd(DecayedPrev(d, at), EpochNet(d, at)) = Narrow(weight(z))
      BY <3>3 DEF CheckedAdd
    <3>. HIDE DEF weight, z
    <3>6. Narrow(weight(z)).ok => Narrow(weight(z)).val = weight(z)
      BY NarrowTyped
    <3>. QED
      BY <1>4, <2>4, <3>4, <3>5, <3>6 DEF EffectiveSellVolume, CheckedAdd, z
  <2>5. ~PressureLapsed(d, later) => weight(y) <= weight(x)
    <3>. SUFFICES ASSUME ~PressureLapsed(d, later) PROVE weight(y) <= weight(x)
      OBVIOUS
    <3>. DEFINE part(z) == (prev * (E - z)) \div E
    <3>1. ASSUME NEW z \in Nat, z < E PROVE part(z) \in Nat /\ prev * (E - z) \in Nat
      <4>1. E - z \in Nat
        BY <1>1, <3>1
      <4>2. prev * (E - z) \in Nat
        BY <1>1, <4>1, MulNat
      <4>. QED
        BY <1>1, <1>4, <4>2, DivNat
    <3>2. CASE y < E
      <4>1. x < E /\ E - y <= E - x /\ E - y \in Nat /\ E - x \in Nat
        BY <1>1, <2>1, <3>2
      <4>2. prev * (E - y) <= prev * (E - x)
        BY <1>1, <4>1, MulMono
      <4>3. part(y) <= part(x)
        <5>1. E \in Nat \ {0} /\ E <= E
          BY <1>1, <1>4
        <5>. QED
          BY <2>1, <3>1, <3>2, <4>1, <4>2, <5>1, DivMono
      <4>4. part(y) \in Nat /\ part(x) \in Nat
        BY <2>1, <3>1, <3>2, <4>1
      <4>5. weight(x) = part(x) + net /\ weight(y) = part(y) + net
        BY <3>2, <4>1
      <4>. HIDE DEF part, weight
      <4>. QED
        BY <1>2, <4>3, <4>4, <4>5
    <3>3. CASE ~(y < E) /\ x < E
      <4>1. part(x) \in Nat
        BY <2>1, <3>1, <3>3
      <4>2. weight(x) = part(x) + net /\ weight(y) = net
        BY <3>3
      <4>. HIDE DEF part, weight
      <4>. QED
        BY <1>2, <4>1, <4>2
    <3>4. CASE ~(y < E) /\ ~(x < E)
      BY <1>2, <3>4
    <3>. QED
      BY <3>2, <3>3, <3>4
  <2>6. Below(EffectiveSellVolume(d, incoming, later), EffectiveSellVolume(d, incoming, t))
    <3>1. CASE PressureLapsed(d, later) /\ PressureLapsed(d, t)
      BY <1>1, <1>4, <3>1 DEF EffectiveSellVolume, Below, Ok
    <3>2. CASE PressureLapsed(d, later) /\ ~PressureLapsed(d, t)
      <4>1. EffectiveSellVolume(d, incoming, later) = Ok(incoming)
        BY <1>4, <3>2 DEF EffectiveSellVolume
      <4>2. /\ weight(x) \in Nat
            /\ EffectiveSellVolume(d, incoming, t)
                    = IF Narrow(weight(x)).ok
                      THEN Narrow(weight(x) + incoming) ELSE Overflow
        BY <2>4, <3>2
      <4>. HIDE DEF weight, x
      <4>3. Narrow(weight(x) + incoming).ok =>
                Narrow(weight(x) + incoming).val = weight(x) + incoming
        BY NarrowTyped
      <4>. QED
        BY <1>1, <4>1, <4>2, <4>3 DEF Below, Ok, Overflow, Err
    <3>3. CASE ~PressureLapsed(d, later)
      <4>1. ~PressureLapsed(d, t)
        BY <2>2, <3>3
      <4>2. /\ weight(x) \in Nat
            /\ EffectiveSellVolume(d, incoming, t)
                    = IF Narrow(weight(x)).ok
                      THEN Narrow(weight(x) + incoming) ELSE Overflow
        BY <2>4, <4>1
      <4>3. /\ weight(y) \in Nat
            /\ EffectiveSellVolume(d, incoming, later)
                    = IF Narrow(weight(y)).ok
                      THEN Narrow(weight(y) + incoming) ELSE Overflow
        BY <2>4, <3>3
      <4>4. weight(y) <= weight(x)
        BY <2>5, <3>3
      <4>. HIDE DEF weight, x, y
      <4>5. /\ Below(Narrow(weight(y)), Narrow(weight(x)))
            /\ Below(Narrow(weight(y) + incoming), Narrow(weight(x) + incoming))
        BY <1>1, <4>2, <4>3, <4>4, NarrowBelow
      <4>. QED
        BY <4>2, <4>3, <4>5 DEF Below, Overflow, Err
    <3>. QED
      BY <3>1, <3>2, <3>3
  <2>. QED
    BY <2>3, <2>6
<1>. QED
  BY <1>3, <1>4

\* The account a trade starts from is in its epoch at that moment.
LEMMA RolledCurrent ==
    ASSUME NEW p \in PropAmmPairState, p.epoch_duration_seconds > 0, NEW time \in U64 \ {0}
    PROVE  LET r == ToDampeningState(Rolled(p, time))
           IN  /\ r \in DampeningState
               /\ r.epoch_duration_seconds # 0
               /\ ~PressureLapsed(r, time)
               /\ Elapsed(r, time) < r.epoch_duration_seconds
<1>. DEFINE d == ToDampeningState(p)
            r == ToDampeningState(Rolled(p, time))
            E == d.epoch_duration_seconds
<1>1. d \in DampeningState /\ r \in DampeningState /\ time \in U64
  BY DampeningTyped, RolledTyped
<1>2. E \in U64 \ {0}
  <2>1. AsU64(p.epoch_duration_seconds) = p.epoch_duration_seconds
    BY AsU64Typed DEF PropAmmPairState, I64
  <2>2. E = p.epoch_duration_seconds
    BY <2>1 DEF ToDampeningState
  <2>3. E \in U64
    BY <1>1 DEF DampeningState
  <2>. HIDE DEF E
  <2>. QED
    BY <2>2, <2>3
<1>3. ASSUME NEW prev \in U64, r = Fresh(d, prev, time)
      PROVE  ~PressureLapsed(r, time) /\ Elapsed(r, time) < E /\ r.epoch_duration_seconds = E
  <2>1. r.epoch_start = time /\ r.epoch_duration_seconds = E
    BY <1>3 DEF Fresh
  <2>2. time \in Nat /\ time # 0 /\ E \in Nat \ {0}
    BY <1>2, Naturals64
  <2>. HIDE DEF r, E
  <2>3. Elapsed(r, time) = 0
    BY <2>1, <2>2 DEF Elapsed, SatSub
  <2>. QED
    BY <1>2, <2>1, <2>2, <2>3, DoubleEpoch DEF PressureLapsed
<1>4. CASE PressureLapsed(d, time)
  <2>1. r = Fresh(d, 0, time)
    BY <1>1, <1>4, RolledDampening, Naturals64 DEF Rolled
  <2>. QED
    BY <1>1, <1>2, <1>3, <2>1, Naturals64
<1>5. CASE ~PressureLapsed(d, time) /\ Elapsed(d, time) >= E
  <2>1. CurrentNet(d) \in U64
    BY <1>1, CurrentNetTyped
  <2>2. r = Fresh(d, CurrentNet(d), time)
    BY <1>1, <1>5, <2>1, RolledDampening DEF Rolled
  <2>. QED
    BY <1>1, <1>2, <1>3, <2>1, <2>2
<1>6. CASE ~PressureLapsed(d, time) /\ ~(Elapsed(d, time) >= E)
  <2>1. r = d
    BY <1>6 DEF Rolled
  <2>2. Elapsed(d, time) \in Nat /\ E \in Nat
    <3>1. time \in Nat /\ d.epoch_start \in Nat /\ E \in Nat
      BY <1>1, Naturals64 DEF DampeningState
    <3>. QED
      BY <3>1 DEF Elapsed, SatSub
  <2>. HIDE DEF E
  <2>. QED
    BY <1>1, <1>2, <1>6, <2>1, <2>2 DEF E
<1>. QED
  BY <1>4, <1>5, <1>6

\* Of two records in the same epoch, the one with less net volume weighs less.
LEMMA VolumeOrder ==
    ASSUME NEW c, NEW d \in DampeningState, NEW time \in Nat, NEW incoming \in U64,
           c.epoch_start = d.epoch_start,
           c.epoch_duration_seconds = d.epoch_duration_seconds,
           c.prev_net_sell_volume = d.prev_net_sell_volume,
           CurrentNet(c) \in Nat, CurrentNet(d) \in Nat, d.epoch_duration_seconds # 0,
           ~PressureLapsed(d, time), Elapsed(d, time) < d.epoch_duration_seconds
    PROVE  /\ CurrentNet(c) <= CurrentNet(d) =>
                  Below(EffectiveSellVolume(c, incoming, time),
                        EffectiveSellVolume(d, incoming, time))
           /\ CurrentNet(d) <= CurrentNet(c) =>
                  Below(EffectiveSellVolume(d, incoming, time),
                        EffectiveSellVolume(c, incoming, time))
<1>. DEFINE E == d.epoch_duration_seconds
            x == Elapsed(d, time)
            part == (d.prev_net_sell_volume * (E - x)) \div E
            weighed(net) == IF Narrow(part + net).ok
                            THEN Narrow((part + net) + incoming) ELSE Overflow
<1>1. /\ E \in Nat \ {0} /\ d.prev_net_sell_volume \in Nat
      /\ d.epoch_start \in Nat /\ incoming \in Nat
  BY Naturals64 DEF DampeningState
<1>2. x \in Nat /\ x < E
  BY <1>1 DEF Elapsed, SatSub
<1>3. part \in Nat
  <2>1. E - x \in Nat
    BY <1>1, <1>2
  <2>2. d.prev_net_sell_volume * (E - x) \in Nat
    BY <1>1, <2>1, MulNat
  <2>. QED
    BY <1>1, <2>2, DivNat
<1>4. Elapsed(c, time) = x /\ ~PressureLapsed(c, time)
  BY DEF Elapsed, PressureLapsed
<1>5. /\ DecayedPrev(d, time) = part /\ EpochNet(d, time) = CurrentNet(d)
      /\ DecayedPrev(c, time) = part /\ EpochNet(c, time) = CurrentNet(c)
  BY <1>2, <1>4 DEF DecayedPrev, EpochNet
<1>. HIDE DEF part
<1>6. /\ EffectiveSellVolume(d, incoming, time) = weighed(CurrentNet(d))
      /\ EffectiveSellVolume(c, incoming, time) = weighed(CurrentNet(c))
  <2>1. \A n : Narrow(part + n).ok => Narrow(part + n).val = part + n
    BY NarrowTyped
  <2>. QED
    BY <1>4, <1>5, <2>1 DEF EffectiveSellVolume, CheckedAdd
<1>7. ASSUME NEW m \in Nat, NEW n \in Nat, m <= n PROVE Below(weighed(m), weighed(n))
  <2>1. part + m \in Nat /\ part + n \in Nat /\ part + m <= part + n
        /\ (part + m) + incoming \in Nat /\ (part + n) + incoming \in Nat
        /\ (part + m) + incoming <= (part + n) + incoming
    BY <1>1, <1>3, <1>7
  <2>2. /\ Below(Narrow(part + m), Narrow(part + n))
        /\ Below(Narrow((part + m) + incoming), Narrow((part + n) + incoming))
    BY <2>1, NarrowBelow
  <2>. QED
    BY <2>2 DEF Below, Overflow, Err
<1>. HIDE DEF weighed
<1>. QED
  BY <1>6, <1>7

\* A trade leaves the parameters alone, and a sell of the same pair meets the
\* pressure of the trade on top of what it met before: more after a sell, less
\* after a buy.
LEMMA TradesMove ==
    ASSUME NEW p \in PropAmmPairState, p.epoch_duration_seconds > 0,
           NEW time \in U64 \ {0}, NEW incoming \in U64, NEW traded \in Nat
    PROVE  LET d == ToDampeningState(p)
               sold == ToDampeningState(AfterSell(p, traded, time))
               bought == ToDampeningState(AfterBuy(p, traded, time))
           IN  /\ Tuned(d) /\ Tuned(sold) /\ Tuned(bought)
               /\ SameParameters(d, sold) /\ SameParameters(bought, d)
               /\ Below(EffectiveSellVolume(d, incoming, time),
                        EffectiveSellVolume(sold, incoming, time))
               /\ Below(SellTradeCount(d, time), SellTradeCount(sold, time))
               /\ Below(EffectiveSellVolume(bought, incoming, time),
                        EffectiveSellVolume(d, incoming, time))
               /\ Below(SellTradeCount(bought, time), SellTradeCount(d, time))
<1>. DEFINE d == ToDampeningState(p)
            r == ToDampeningState(Rolled(p, time))
            sold == ToDampeningState(AfterSell(p, traded, time))
            bought == ToDampeningState(AfterBuy(p, traded, time))
<1>1. d \in DampeningState /\ r \in DampeningState /\ Rolled(p, time) \in PropAmmPairState
  BY DampeningTyped, RolledTyped
<1>2. /\ r.epoch_duration_seconds # 0
      /\ ~PressureLapsed(r, time)
      /\ Elapsed(r, time) < r.epoch_duration_seconds
  BY RolledCurrent
<1>3. /\ EffectiveSellVolume(r, incoming, time) = EffectiveSellVolume(d, incoming, time)
      /\ SellTradeCount(r, time) = SellTradeCount(d, time)
      /\ SameParameters(r, d) /\ SameParameters(d, r)
  <2>1. /\ EffectiveSellVolume(r, incoming, time) = EffectiveSellVolume(d, incoming, time)
        /\ SellTradeCount(r, time) = SellTradeCount(d, time)
        /\ r = d \/ \E prev \in U64 : r = Fresh(d, prev, time)
    BY PreviewExact
  <2>. HIDE DEF r, d
  <2>2. SameParameters(r, d) /\ SameParameters(d, r)
    BY <2>1 DEF SameParameters, Fresh
  <2>. QED
    BY <2>1, <2>2
<1>4. /\ sold.sell_volume = r.sell_volume + traded
      /\ sold.buy_volume = r.buy_volume
      /\ sold.sell_trade_count = r.sell_trade_count + 1
      /\ bought.sell_volume = r.sell_volume
      /\ bought.buy_volume = r.buy_volume + traded
      /\ bought.sell_trade_count = r.sell_trade_count
  BY <1>1 DEF AfterSell, AfterBuy, ToDampeningState, PropAmmPairState
<1>5. ASSUME NEW e \in {sold, bought}
      PROVE  /\ SameParameters(e, r) /\ SameParameters(r, e)
             /\ e.epoch_start = r.epoch_start
             /\ e.epoch_duration_seconds = r.epoch_duration_seconds
             /\ e.prev_net_sell_volume = r.prev_net_sell_volume
  BY <1>1 DEF AfterSell, AfterBuy, ToDampeningState, PropAmmPairState, SameParameters
<1>. HIDE DEF sold, bought, d, r
<1>6. Tuned(d) /\ Tuned(sold) /\ Tuned(bought)
  <2>1. Tuned(d) /\ Tuned(r)
    BY <1>1, TypedTuned
  <2>. QED
    BY <1>4, <1>5, <2>1 DEF Tuned, SameParameters
<1>7. SameParameters(d, sold) /\ SameParameters(bought, d)
  BY <1>3, <1>5 DEF SameParameters
<1>8. /\ CurrentNet(r) \in Nat /\ CurrentNet(sold) \in Nat /\ CurrentNet(bought) \in Nat
      /\ CurrentNet(r) <= CurrentNet(sold)
      /\ CurrentNet(bought) <= CurrentNet(r)
  <2>1. r.sell_volume \in Nat /\ r.buy_volume \in Nat
    BY <1>1, Naturals64 DEF DampeningState
  <2>. QED
    BY <1>4, <2>1 DEF CurrentNet, SatSub
<1>9. time \in Nat
  BY Naturals64
<1>10. Below(EffectiveSellVolume(d, incoming, time), EffectiveSellVolume(sold, incoming, time))
  BY <1>1, <1>2, <1>3, <1>5, <1>8, <1>9, VolumeOrder
<1>11. Below(EffectiveSellVolume(bought, incoming, time), EffectiveSellVolume(d, incoming, time))
  BY <1>1, <1>2, <1>3, <1>5, <1>8, <1>9, VolumeOrder
<1>12. Below(SellTradeCount(d, time), SellTradeCount(sold, time))
  <2>1. r.sell_trade_count \in Nat
    BY <1>1 DEF DampeningState
  <2>2. Elapsed(sold, time) = Elapsed(r, time)
    BY <1>5 DEF Elapsed
  <2>. QED
    BY <1>3, <1>4, <1>5, <2>1, <2>2 DEF SellTradeCount, Below, Ok, Err
<1>13. Below(SellTradeCount(bought, time), SellTradeCount(d, time))
  <2>1. r.sell_trade_count \in Nat
    BY <1>1 DEF DampeningState
  <2>2. Elapsed(bought, time) = Elapsed(r, time)
    BY <1>5 DEF Elapsed
  <2>. QED
    BY <1>3, <1>4, <1>5, <2>1, <2>2 DEF SellTradeCount, Below, Ok, Err
<1>. QED
  BY <1>6, <1>7, <1>10, <1>11, <1>12, <1>13 DEF sold, bought, d
-----------------------------------------------------------------------------
(***************************************************************************)
(* A whole sell, where the accounts are better for the seller.             *)
(***************************************************************************)
\* A price that is Ok is a u64, whatever the vector.
LEMMA PriceTyped ==
    ASSUME NEW vector, NEW time, StepPrice(vector, time).ok
    PROVE  StepPrice(vector, time).val \in U64
<1>. DEFINE elapsed == StepEnd(vector, time)
            fullDay == FullDayPrice(vector.apr, vector.base_price, elapsed)
            seconds == elapsed % SecondsInDay
            price == IntradayPrice(vector.apr, fullDay.val, seconds)
<1>1. StepPrice(vector, time) = price
  <2>1. \A e : ~Err(e).ok
    BY DEF Err
  <2>2. ~Overflow.ok
    BY <2>1 DEF Overflow
  <2>. HIDE DEF elapsed, fullDay
  <2>. QED
    BY <2>1, <2>2, Zenon DEF StepPrice, VectorPrice, elapsed, fullDay
<1>2. \/ price = Narrow(fullDay.val)
      \/ price = Overflow
      \/ price = Narrow(fullDay.val + PartialDayDelta(vector.apr, fullDay.val, seconds).val)
  <2>. HIDE DEF fullDay, seconds
  <2>. QED
    BY Zenon DEF IntradayPrice
<1>3. price.ok
  BY <1>1
<1>. HIDE DEF price
<1>. QED
  BY <1>1, <1>2, <1>3, NarrowTyped DEF Overflow, Err

\* What does not overflow is no less for a greater number.
LEMMA NarrowFollows ==
    ASSUME NEW m \in Nat, NEW n \in Nat, m <= n, Narrow(m).ok
    PROVE  \/ Narrow(n) = Overflow
           \/ Narrow(n).ok /\ Narrow(m).val <= Narrow(n).val
BY Naturals64 DEF Narrow, U64, Ok, Overflow, Err

\* The value of a greater supply is no less, or does not fit.
LEMMA TvlFollows ==
    ASSUME NEW price \in Nat, NEW fewer \in Nat, NEW more \in Nat, fewer <= more,
           Tvl(price, fewer).ok
    PROVE  /\ Tvl(price, fewer).val \in U64
           /\ \/ Tvl(price, more) = Overflow
              \/ /\ Tvl(price, more).ok
                 /\ Tvl(price, more).val \in U64
                 /\ Tvl(price, fewer).val <= Tvl(price, more).val
<1>. DEFINE unit == TenTo[PriceDecimals]
            m == (fewer * price) \div unit
            n == (more * price) \div unit
<1>1. unit \in Nat \ {0} /\ unit <= unit
  BY DecimalsAssumption
<1>2. fewer * price \in Nat /\ more * price \in Nat /\ fewer * price <= more * price
  <2>1. price <= price
    OBVIOUS
  <2>. QED
    BY <2>1, MulMono, MulNat
<1>. HIDE DEF unit
<1>3. m \in Nat /\ n \in Nat /\ m <= n
  BY <1>1, <1>2, DivMono, DivNat
<1>4. Tvl(price, fewer) = Narrow(m) /\ Tvl(price, more) = Narrow(n)
  BY DEF Tvl, unit
<1>. HIDE DEF m, n
<1>. QED
  BY <1>3, <1>4, NarrowFollows, NarrowTyped

\* The cap of a fuller vault with more value behind it is no less, or does not
\* fit.
LEMMA CapFollows ==
    ASSUME NEW lower \in U64, NEW upper \in U64, lower <= upper,
           NEW small \in U64, NEW great \in U64, small <= great, NEW bps \in Nat,
           NEW inDecimals \in 0..MaxTokenDecimals, NEW outDecimals \in 0..MaxTokenDecimals,
           LiquidityCap(lower, small, bps, inDecimals, outDecimals).ok
    PROVE  LET low == LiquidityCap(lower, small, bps, inDecimals, outDecimals)
               high == LiquidityCap(upper, great, bps, inDecimals, outDecimals)
           IN  /\ low.val \in U64
               /\ high = Overflow \/ (high.ok /\ high.val \in U64 /\ low.val <= high.val)
<1>. DEFINE low == LiquidityCap(lower, small, bps, inDecimals, outDecimals)
            high == LiquidityCap(upper, great, bps, inDecimals, outDecimals)
            unit == TenTo[outDecimals]
            over == TenTo[inDecimals]
            onyc(tvl) == (tvl * bps) \div MaxBasisPoints
            target(tvl) == (onyc(tvl) * unit) \div over
<1>1. /\ small \in Nat /\ great \in Nat /\ lower \in Nat /\ upper \in Nat
      /\ MaxBasisPoints \in Nat \ {0} /\ unit \in Nat \ {0} /\ over \in Nat \ {0}
  BY Naturals64, PricingAssumption, DecimalsAssumption
<1>. HIDE DEF unit, over
<1>0. bps <= bps /\ unit <= unit /\ over <= over /\ MaxBasisPoints <= MaxBasisPoints
  BY <1>1
<1>2. onyc(small) \in Nat /\ onyc(great) \in Nat /\ onyc(small) <= onyc(great)
  <2>1. small * bps \in Nat /\ great * bps \in Nat /\ small * bps <= great * bps
    BY <1>1, <1>0, MulMono, MulNat
  <2>. QED
    BY <1>1, <1>0, <2>1, DivMono, DivNat
<1>. HIDE DEF onyc
<1>3. target(small) \in Nat /\ target(great) \in Nat /\ target(small) <= target(great)
  <2>1. /\ onyc(small) * unit \in Nat /\ onyc(great) * unit \in Nat
        /\ onyc(small) * unit <= onyc(great) * unit
    BY <1>1, <1>2, <1>0, MulMono, MulNat
  <2>. QED
    BY <1>1, <1>0, <2>1, DivMono, DivNat
<1>. HIDE DEF target
<1>4. CASE bps = 0
  <2>1. low = Ok(lower) /\ high = Ok(upper)
    BY <1>4, Zenon DEF LiquidityCap
  <2>. QED
    BY <2>1 DEF Ok
<1>5. CASE bps # 0
  <2>1. \A e : ~Err(e).ok
    BY DEF Err
  <2>2. ~Overflow.ok
    BY <2>1 DEF Overflow
  <2>3. /\ low = Ok(Lesser(target(small), lower))
        /\ target(small) # 0
        /\ ~(target(small) > U64Max)
    BY <1>5, <2>1, <2>2, Zenon DEF LiquidityCap, target, onyc, unit, over
  <2>4. target(great) # 0
    BY <1>3, <2>3
  <2>5. \/ high = Overflow
        \/ high = Ok(Lesser(target(great), upper)) /\ ~(target(great) > U64Max)
    BY <1>5, <2>4, Zenon DEF LiquidityCap, target, onyc, unit, over
  <2>6. /\ Lesser(target(small), lower) \in U64
        /\ Lesser(target(small), lower) <= Lesser(target(great), upper)
        /\ ~(target(great) > U64Max) => Lesser(target(great), upper) \in U64
    BY <1>1, <1>3, <2>3, Naturals64 DEF Lesser, U64
  <2>. HIDE DEF low, high
  <2>7. low.val \in U64 /\ (high = Overflow \/ (high.ok /\ high.val \in U64 /\ low.val <= high.val))
    BY <2>3, <2>5, <2>6 DEF Ok
  <2>. QED
    BY <2>7 DEF low, high
<1>. QED
  BY <1>4, <1>5

\* The pressure recorded in d weighs at time no less than that in c at t.
Lighter(c, t, d, time) ==
    /\ Tuned(c) /\ Tuned(d) /\ SameParameters(c, d)
    /\ \A incoming \in U64 : Below(EffectiveSellVolume(c, incoming, t),
                                   EffectiveSellVolume(d, incoming, time))
    /\ Below(SellTradeCount(c, t), SellTradeCount(d, time))

\* At the same price a seller is paid no less from a fuller vault with more
\* value behind it and less pressure on it, unless that value does not fit.
THEOREM SellFollows ==
    ASSUME NEW worse, NEW better,
           worse.liquidity \in U64, better.liquidity \in U64,
           worse.liquidity <= better.liquidity,
           worse.circulating_supply \in Nat, better.circulating_supply \in Nat,
           worse.circulating_supply <= better.circulating_supply,
           worse.liquidity_cap_target_bps \in Nat,
           better.liquidity_cap_target_bps = worse.liquidity_cap_target_bps,
           NEW t, NEW time, Lighter(better.dampening, t, worse.dampening, time),
           NEW first, NEW second, StepPrice(first, t) = StepPrice(second, time),
           NEW amountIn, NEW feeBps, NEW minFee,
           NEW inDecimals \in Nat, NEW outDecimals \in Nat,
           SellFromVector(second, time, amountIn, feeBps, inDecimals, outDecimals, minFee,
                          worse).ok
    PROVE  LET low == SellFromVector(second, time, amountIn, feeBps, inDecimals,
                                     outDecimals, minFee, worse)
               high == SellFromVector(first, t, amountIn, feeBps, inDecimals,
                                      outDecimals, minFee, better)
           IN  high = Overflow \/ (high.ok /\ low.val <= high.val)
<1>. DEFINE low == SellFromVector(second, time, amountIn, feeBps, inDecimals,
                                  outDecimals, minFee, worse)
            high == SellFromVector(first, t, amountIn, feeBps, inDecimals,
                                   outDecimals, minFee, better)
            price == StepPrice(second, time)
            raw == RawAmountOut(amountIn, price.val, feeBps, minFee, inDecimals, outDecimals)
            tvl(p) == Tvl(price.val, p.circulating_supply)
            cap(p) == LiquidityCap(p.liquidity, tvl(p).val, worse.liquidity_cap_target_bps,
                                   inDecimals, outDecimals)
            wall(p, at) == ApplyHardWall(raw.val, p.liquidity, cap(p).val, p.dampening, at)
            answer(p, at) == IF ~price.ok THEN price
                             ELSE IF ~raw.ok THEN raw
                             ELSE IF ~tvl(p).ok THEN tvl(p)
                             ELSE IF ~cap(p).ok THEN cap(p)
                             ELSE wall(p, at)
<1>1. low = answer(worse, time) /\ high = answer(better, t)
  BY Zenon DEF SellFromVector, SellAmountOut
<1>2. /\ price.ok /\ raw.ok /\ tvl(worse).ok /\ cap(worse).ok
      /\ wall(worse, time).ok
      /\ low = wall(worse, time)
  <2>. HIDE DEF price, raw, tvl, cap, wall
  <2>1. low.ok
    BY DEF low
  <2>. HIDE DEF low, high
  <2>. QED
    BY <1>1, <2>1
<1>3. /\ raw.val \in U64
      /\ inDecimals \in 0..MaxTokenDecimals
      /\ outDecimals \in 0..MaxTokenDecimals
  <2>. HIDE DEF price
  <2>. QED
    BY <1>2, RawTyped DEF raw
<1>4. price.val \in Nat
  BY <1>2, PriceTyped, Naturals64
<1>5. /\ tvl(worse).val \in U64
      /\ tvl(better) = Overflow \/ /\ tvl(better).ok /\ tvl(better).val \in U64
                                   /\ tvl(worse).val <= tvl(better).val
  <2>. HIDE DEF price
  <2>. QED
    BY <1>2, <1>4, TvlFollows
<1>6. CASE tvl(better) = Overflow
  <2>1. ~tvl(better).ok
    BY <1>6 DEF Overflow, Err
  <2>2. high = Overflow
    <3>. HIDE DEF price, raw, tvl, cap, wall, low, high
    <3>. QED
      BY <1>1, <1>2, <1>6, <2>1
  <2>. QED
    BY <2>2 DEF high
<1>7. CASE /\ tvl(better).ok /\ tvl(better).val \in U64
           /\ tvl(worse).val <= tvl(better).val
  <2>1. /\ cap(worse).val \in U64
        /\ \/ cap(better) = Overflow
           \/ /\ cap(better).ok /\ cap(better).val \in U64
              /\ cap(worse).val <= cap(better).val
    <3>. HIDE DEF tvl
    <3>. QED
      BY <1>2, <1>3, <1>5, <1>7, CapFollows
  <2>2. CASE cap(better) = Overflow
    <3>1. ~cap(better).ok
      BY <2>2 DEF Overflow, Err
    <3>2. high = Overflow
      <4>. HIDE DEF price, raw, tvl, cap, wall, low, high
      <4>. QED
        BY <1>1, <1>2, <1>7, <2>2, <3>1
    <3>. QED
      BY <3>2 DEF high
  <2>3. CASE /\ cap(better).ok /\ cap(better).val \in U64
             /\ cap(worse).val <= cap(better).val
    <3>1. high = wall(better, t)
      <4>. HIDE DEF price, raw, tvl, cap, wall, low, high
      <4>. QED
        BY <1>1, <1>2, <1>7, <2>3
    <3>2. wall(better, t).ok /\ wall(worse, time).val <= wall(better, t).val
      <4>1. /\ Tuned(better.dampening) /\ Tuned(worse.dampening)
            /\ SameParameters(better.dampening, worse.dampening)
            /\ Below(EffectiveSellVolume(better.dampening, raw.val, t),
                     EffectiveSellVolume(worse.dampening, raw.val, time))
            /\ Below(SellTradeCount(better.dampening, t),
                     SellTradeCount(worse.dampening, time))
        BY <1>3 DEF Lighter
      <4>. HIDE DEF raw, cap
      <4>. QED
        BY <1>2, <1>3, <2>1, <2>3, <4>1, HardWallRises
    <3>. QED
      BY <1>2, <3>1, <3>2 DEF low, high
  <2>. QED
    BY <2>1, <2>2, <2>3
<1>. QED
  BY <1>5, <1>6, <1>7

\* The lightest of three.
LEMMA LighterChain ==
    ASSUME NEW c, NEW d, NEW e, NEW time, Lighter(c, time, d, time), Lighter(d, time, e, time)
    PROVE  Lighter(c, time, e, time)
<1>1. ASSUME NEW x, NEW y, NEW z, Below(x, y), Below(y, z),
             x.ok => x.val \in Nat, y.ok => y.val \in Nat, z.ok => z.val \in Nat
      PROVE  Below(x, z)
  BY <1>1 DEF Below
<1>2. \A r, incoming : EffectiveSellVolume(r, incoming, time).ok
                          /\ incoming \in U64
                            => EffectiveSellVolume(r, incoming, time).val \in Nat
  BY VolumeTyped, Naturals64
<1>3. \A r : Tuned(r) /\ SellTradeCount(r, time).ok => SellTradeCount(r, time).val \in Nat
  BY DEF SellTradeCount, Tuned, Ok, Err
<1>4. \A incoming \in U64 : Below(EffectiveSellVolume(c, incoming, time),
                                  EffectiveSellVolume(e, incoming, time))
  BY <1>1, <1>2 DEF Lighter
<1>5. Below(SellTradeCount(c, time), SellTradeCount(e, time))
  BY <1>1, <1>3 DEF Lighter
<1>6. SameParameters(c, e)
  BY DEF Lighter, SameParameters
<1>. QED
  BY <1>4, <1>5, <1>6 DEF Lighter

\* No pressure is lighter than itself, and none grows by waiting.
LEMMA LighterLater ==
    ASSUME NEW d \in DampeningState, NEW t \in Nat, NEW later \in Nat, t <= later,
           d.epoch_start <= t \/ d.epoch_start > later
    PROVE  Lighter(d, later, d, t)
<1>1. Tuned(d) /\ SameParameters(d, d)
  BY TypedTuned DEF SameParameters
<1>2. ASSUME NEW incoming \in U64
      PROVE  /\ Below(EffectiveSellVolume(d, incoming, later),
                      EffectiveSellVolume(d, incoming, t))
             /\ Below(SellTradeCount(d, later), SellTradeCount(d, t))
  BY WaitingLowers
<1>3. 0 \in U64
  BY Naturals64
<1>. QED
  BY <1>1, <1>2, <1>3 DEF Lighter

\* A sell adds to the pressure and a buy takes from it.
LEMMA LighterTrades ==
    ASSUME NEW p \in PropAmmPairState, p.epoch_duration_seconds > 0,
           NEW time \in U64 \ {0}, NEW traded \in Nat
    PROVE  /\ Lighter(ToDampeningState(p), time,
                      ToDampeningState(AfterSell(p, traded, time)), time)
           /\ Lighter(ToDampeningState(AfterBuy(p, traded, time)), time,
                      ToDampeningState(p), time)
<1>1. 0 \in U64
  BY Naturals64
<1>. QED
  BY <1>1, TradesMove DEF Lighter
=============================================================================
