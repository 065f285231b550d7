------------------------ MODULE PropAmmPair_proofs ------------------------
(***************************************************************************)
(* Type correctness, solvency and the exact preview of the epoch roll, for *)
(* every pair configuration, trade sequence and width.                     *)
(***************************************************************************)
EXTENDS PropAmmPair, SellMath_proofs

\* What the crate pays is bounded by the amount and by the vault.
LEMMA PayoutBounded ==
    ASSUME NEW p \in PropAmmPairState, NEW liquidity \in U64, NEW amount \in U64,
           NEW time, Payout(p, liquidity, amount, time).ok
    PROVE  /\ Payout(p, liquidity, amount, time).val \in 0..amount
           /\ Payout(p, liquidity, amount, time).val <= liquidity
<1>1. Cap(liquidity) \in U64
  BY PairAssumption DEF Cap, Lesser
<1>. QED
  BY <1>1, DampeningTyped, HardWallBounded DEF Payout

\* The invariant is inductive: a sell is the one step that lowers the vault,
\* and it never lowers it below zero.
LEMMA TypeStep == TypeOK /\ [Next]_vars => TypeOK'
<1> SUFFICES ASSUME TypeOK, [Next]_vars PROVE TypeOK'
  OBVIOUS
<1>1. now \in U64 /\ vault \in U64 /\ vault \in 0..MaxVault /\ MaxVault \in Nat
      /\ MaxVolume \in U64 /\ MaxTime \in Nat
  BY Naturals64, PairAssumption DEF TypeOK, U64
<1>2. /\ Rolled(pair, now) \in PropAmmPairState
      /\ Rolled(pair, now).epoch_duration_seconds > 0
  BY <1>1, RolledTyped DEF TypeOK
<1>3. CASE Tick
  BY <1>1, <1>3 DEF Tick, TypeOK
<1>4. CASE Fund
  BY <1>1, <1>4 DEF Fund, TypeOK
<1>5. ASSUME NEW amount \in Amounts, Sell(amount) PROVE TypeOK'
  <2>. DEFINE next == AfterSell(pair, amount, now)
              payout == Payout(pair, vault, amount, now)
  <2>1. amount \in U64 /\ amount \in Nat
    BY PairAssumption, Naturals64
  <2>2. next.curr_sell_value_stable = Rolled(pair, now).curr_sell_value_stable + amount
    BY <1>2 DEF AfterSell, PropAmmPairState
  <2>3. Rolled(pair, now).curr_sell_value_stable \in Nat
    BY <1>2, Naturals64 DEF PropAmmPairState
  <2>4. Rolled(pair, now).curr_sell_value_stable + amount \in U64
    BY <1>1, <1>5, <2>1, <2>2, <2>3, Naturals64 DEF Sell, U64
  <2>5. next \in PropAmmPairState /\ next.epoch_duration_seconds > 0
    <3>1. Rolled(pair, now).curr_sell_trade_count + 1 \in Nat
      BY <1>2 DEF PropAmmPairState
    <3>. QED
      BY <1>2, <2>4, <3>1 DEF AfterSell, PropAmmPairState
  <2>6. payout.val \in 0..amount /\ payout.val <= vault
    BY <1>1, <1>5, <2>1, PayoutBounded DEF Sell, TypeOK
  <2>7. vault' \in 0..MaxVault
    BY <1>1, <1>5, <2>1, <2>6 DEF Sell
  <2>. QED
    BY <1>5, <2>5, <2>7 DEF Sell, TypeOK
<1>6. ASSUME NEW amount \in Amounts, Buy(amount) PROVE TypeOK'
  <2>. DEFINE next == AfterBuy(pair, amount, now)
  <2>1. amount \in Nat
    BY PairAssumption, Naturals64
  <2>2. next.curr_buy_value_stable = Rolled(pair, now).curr_buy_value_stable + amount
    BY <1>2 DEF AfterBuy, PropAmmPairState
  <2>3. Rolled(pair, now).curr_buy_value_stable \in Nat
    BY <1>2, Naturals64 DEF PropAmmPairState
  <2>4. Rolled(pair, now).curr_buy_value_stable + amount \in U64
    BY <1>1, <1>6, <2>1, <2>2, <2>3, Naturals64 DEF Buy, U64
  <2>5. next \in PropAmmPairState /\ next.epoch_duration_seconds > 0
    BY <1>2, <2>4 DEF AfterBuy, PropAmmPairState
  <2>6. vault' \in 0..MaxVault
    BY <1>1, <1>6, <2>1 DEF Buy
  <2>. QED
    BY <1>6, <2>5, <2>6 DEF Buy, TypeOK
<1>7. CASE UNCHANGED vars
  BY <1>7 DEF vars, TypeOK
<1>. QED
  BY <1>3, <1>4, <1>5, <1>6, <1>7 DEF Next

\* A configured pair, an empty or a full vault, the first second.
LEMMA InitTyped == Init => TypeOK
<1> SUFFICES ASSUME Init PROVE TypeOK
  OBVIOUS
<1>1. pair \in PropAmmPairState /\ pair.epoch_duration_seconds > 0
  BY PairAssumption, EpochAssumption DEF Init
<1>2. vault \in 0..MaxVault /\ now \in 1..MaxTime
  BY PairAssumption, Naturals64 DEF Init, U64
<1>. QED
  BY <1>1, <1>2 DEF TypeOK

\* The account stays an account and the vault is never overdrawn, whatever
\* trades follow each other.
THEOREM TypeCorrect == Spec => []TypeOK
BY InitTyped, TypeStep, PTL DEF Spec

\* In every reachable state no sell is quoted more than its undampened value or
\* more than the vault holds.
THEOREM SolventAlways == Spec => []Solvent
<1>1. TypeOK => Solvent
  <2> SUFFICES ASSUME TypeOK, NEW amount \in Amounts, Quote(amount).ok
               PROVE  Quote(amount).val <= Lesser(amount, vault)
    BY DEF Solvent
  <2>1. amount \in U64 /\ vault \in U64 /\ pair \in PropAmmPairState
    BY PairAssumption, Naturals64 DEF TypeOK, U64
  <2>. QED
    BY <2>1, PayoutBounded DEF Quote, Lesser
<1>. QED
  BY <1>1, TypeCorrect, PTL
\* In every reachable state the payout quoted from the account as it stands is
\* the payout the program computes after rolling it.
THEOREM RollTransparentAlways == Spec => []RollTransparent
<1>1. TypeOK => RollTransparent
  <2> SUFFICES ASSUME TypeOK, NEW amount \in Amounts
               PROVE  Payout(pair, vault, amount, now)
                        = Payout(Rolled(pair, now), vault, amount, now)
    BY DEF RollTransparent, Quote
  <2>1. /\ amount \in U64
        /\ pair \in PropAmmPairState
        /\ pair.epoch_duration_seconds > 0
        /\ now \in U64 \ {0}
    BY PairAssumption, Naturals64 DEF TypeOK, U64
  <2>. QED
    BY <2>1, RollTransparentWall DEF Payout
<1>. QED
  BY <1>1, TypeCorrect, PTL
-----------------------------------------------------------------------------
(***************************************************************************)
(* The wall is fair: neither waiting nor a sell ever improves on it in the *)
(* wrong direction, and a buy never does.                                  *)
(***************************************************************************)
\* No pair starts with an epoch that begins within the horizon; one cast from a
\* negative start is beyond it.
NoneAhead ==
    \A p \in Pairs : LET start == ToDampeningState(p).epoch_start
                     IN  start <= 1 \/ start > MaxTime + 1

\* An epoch that is not beyond the horizon has begun, if none starts ahead.
PairInv ==
    /\ TypeOK
    /\ NoneAhead => LET start == ToDampeningState(pair).epoch_start
                    IN  start <= now \/ start > MaxTime + 1

\* A roll and a trade keep the epoch or start one now.
LEMMA TradeKeeps ==
    ASSUME NEW p \in PropAmmPairState, NEW time \in U64, NEW traded,
           NEW q \in {AfterSell(p, traded, time), AfterBuy(p, traded, time)}
    PROVE  \/ ToDampeningState(q).epoch_start = ToDampeningState(p).epoch_start
           \/ ToDampeningState(q).epoch_start = time
<1>1. AsU64(time) = time
  BY AsU64Typed, Naturals64 DEF I64, U64
<1>2. /\ Rolled(p, time) \in PropAmmPairState
      /\ Rolled(p, time).epoch_start \in {p.epoch_start, time}
  <2>1. \A prev : NewEpoch(p, prev, time).epoch_start = time
    BY DEF NewEpoch, PropAmmPairState
  <2>2. Rolled(p, time) = p \/ \E prev : Rolled(p, time) = NewEpoch(p, prev, time)
    BY Zenon DEF Rolled
  <2>. QED
    BY <2>1, <2>2, RolledTyped
<1>3. q.epoch_start = Rolled(p, time).epoch_start
  BY <1>2 DEF AfterSell, AfterBuy, PropAmmPairState
<1>. QED
  BY <1>1, <1>2, <1>3 DEF ToDampeningState

\* The strengthened invariant is inductive.
LEMMA PairInvariant == Spec => []PairInv
<1>1. Init => PairInv
  <2> SUFFICES ASSUME Init PROVE PairInv
    OBVIOUS
  <2>1. pair \in Pairs /\ now = 1
    BY DEF Init
  <2>2. TypeOK
    BY InitTyped
  <2>3. NoneAhead => LET start == ToDampeningState(pair).epoch_start
                     IN  start <= now \/ start > MaxTime + 1
    BY <2>1 DEF NoneAhead
  <2>. QED
    BY <2>2, <2>3 DEF PairInv
<1>2. PairInv /\ [Next]_vars => PairInv'
  <2> SUFFICES ASSUME PairInv, [Next]_vars PROVE PairInv'
    OBVIOUS
  <2>. DEFINE start(p) == ToDampeningState(p).epoch_start
  <2>1. TypeOK /\ TypeOK'
    BY TypeStep DEF PairInv
  <2>2. now \in U64 /\ now \in Nat /\ now' \in Nat /\ MaxTime \in Nat
    BY <2>1, Naturals64, PairAssumption DEF TypeOK, U64
  <2>3. start(pair) \in Nat
    BY <2>1, DampeningTyped, Naturals64 DEF TypeOK, DampeningState
  <2>4. NoneAhead => start(pair) <= now \/ start(pair) > MaxTime + 1
    BY DEF PairInv
  <2>5. now <= now' /\ \/ pair' = pair
                       \/ \E traded : \/ pair' = AfterSell(pair, traded, now)
                                      \/ pair' = AfterBuy(pair, traded, now)
    BY <2>2 DEF Next, Tick, Fund, Sell, Buy, vars
  <2>6. start(pair') = start(pair) \/ start(pair') = now
    <3>1. CASE pair' = pair
      BY <3>1
    <3>2. CASE pair' # pair
      <4>1. PICK traded : pair' \in {AfterSell(pair, traded, now), AfterBuy(pair, traded, now)}
        BY <2>5, <3>2
      <4>. QED
        BY <2>1, <2>2, <4>1, TradeKeeps DEF TypeOK
    <3>. QED
      BY <3>1, <3>2
  <2>7. NoneAhead => start(pair') <= now' \/ start(pair') > MaxTime + 1
    <3>. HIDE DEF start
    <3>. QED
      BY <2>2, <2>3, <2>4, <2>5, <2>6
  <2>. QED
    BY <2>1, <2>7 DEF PairInv
<1>. QED
  BY <1>1, <1>2, PTL DEF Spec

\* What the cap leaves of a fuller vault is no less.
LEMMA CapRises ==
    ASSUME NEW lower \in U64, NEW upper \in U64, lower <= upper
    PROVE  Cap(lower) \in U64 /\ Cap(upper) \in U64 /\ Cap(lower) <= Cap(upper)
<1>1. CapTarget \in U64 /\ CapTarget \in Nat /\ lower \in Nat /\ upper \in Nat
  BY PairAssumption, Naturals64
<1>. QED
  BY <1>1 DEF Cap, Lesser

\* In every behaviour a seller who waits while nobody trades is never quoted
\* less, across the ends of both epochs.
THEOREM WaitingNeverHurtsAlways ==
    ASSUME NoneAhead PROVE Spec => []WaitingNeverHurts
<1>1. PairInv => WaitingNeverHurts
  <2> SUFFICES ASSUME PairInv, NEW amount \in Amounts, NEW t \in now..MaxTime
               PROVE  NoWorse(Payout(pair, vault, amount, t + 1),
                              Payout(pair, vault, amount, t))
    BY DEF WaitingNeverHurts
  <2>. DEFINE d == ToDampeningState(pair)
  <2>1. /\ pair \in PropAmmPairState /\ vault \in U64 /\ amount \in U64
        /\ now \in Nat /\ MaxTime \in Nat
    BY PairAssumption, Naturals64 DEF PairInv, TypeOK, U64
  <2>2. d \in DampeningState /\ Tuned(d) /\ SameParameters(d, d)
    BY <2>1, DampeningTyped, TypedTuned DEF SameParameters
  <2>3. t \in Nat /\ t + 1 \in Nat /\ t <= t + 1 /\ t + 1 <= MaxTime + 1 /\ now <= t
    BY <2>1
  <2>4. d.epoch_start <= t \/ d.epoch_start > t + 1
    <3>1. d.epoch_start \in Nat
      BY <2>2, Naturals64 DEF DampeningState
    <3>2. d.epoch_start <= now \/ d.epoch_start > MaxTime + 1
      BY DEF PairInv
    <3>. HIDE DEF d
    <3>. QED
      BY <2>1, <2>3, <3>1, <3>2
  <2>5. /\ Below(EffectiveSellVolume(d, amount, t + 1), EffectiveSellVolume(d, amount, t))
        /\ Below(SellTradeCount(d, t + 1), SellTradeCount(d, t))
    BY <2>1, <2>2, <2>3, <2>4, WaitingLowers
  <2>6. Cap(vault) \in U64 /\ vault <= vault /\ Cap(vault) <= Cap(vault)
    BY <2>1, CapRises, Naturals64
  <2>. HIDE DEF d
  <2>7. ASSUME ApplyHardWall(amount, vault, Cap(vault), d, t).ok
        PROVE  /\ ApplyHardWall(amount, vault, Cap(vault), d, t + 1).ok
               /\ ApplyHardWall(amount, vault, Cap(vault), d, t).val
                    <= ApplyHardWall(amount, vault, Cap(vault), d, t + 1).val
    BY <2>1, <2>2, <2>5, <2>6, <2>7, HardWallRises
  <2>8. NoWorse(ApplyHardWall(amount, vault, Cap(vault), d, t + 1),
                ApplyHardWall(amount, vault, Cap(vault), d, t))
    BY <2>1, <2>7, WallPaid, Naturals64 DEF NoWorse
  <2>. QED
    BY <2>8 DEF Payout, d
<1>. QED
  BY <1>1, PairInvariant, PTL

\* In every reachable state, after any sell the crate would pay, the next seller
\* is quoted no more than before it.
THEOREM SellNeverHelpsAlways == Spec => []SellNeverHelps
<1>1. PairInv => SellNeverHelps
  <2> SUFFICES ASSUME PairInv, NEW sold \in Amounts, NEW amount \in Amounts, Quote(sold).ok
               PROVE  NoWorse(Quote(amount),
                              Payout(AfterSell(pair, sold, now), vault - Quote(sold).val,
                                     amount, now))
    BY DEF SellNeverHelps
  <2>. DEFINE d == ToDampeningState(pair)
              e == ToDampeningState(AfterSell(pair, sold, now))
              rest == vault - Quote(sold).val
  <2>1. /\ pair \in PropAmmPairState /\ pair.epoch_duration_seconds > 0
        /\ vault \in U64 /\ vault \in Nat /\ now \in U64 \ {0}
        /\ amount \in U64 /\ sold \in U64 /\ sold \in Nat
    BY PairAssumption, Naturals64 DEF PairInv, TypeOK, U64
  <2>2. rest \in U64 /\ rest <= vault
    <3>1. Quote(sold).val \in 0..sold /\ Quote(sold).val <= vault
      BY <2>1, PayoutBounded DEF Quote
    <3>. QED
      BY <2>1, <3>1, Naturals64 DEF U64
  <2>3. /\ Tuned(d) /\ Tuned(e) /\ SameParameters(d, e)
        /\ Below(EffectiveSellVolume(d, amount, now), EffectiveSellVolume(e, amount, now))
        /\ Below(SellTradeCount(d, now), SellTradeCount(e, now))
    BY <2>1, TradesMove
  <2>4. Cap(rest) \in U64 /\ Cap(vault) \in U64 /\ Cap(rest) <= Cap(vault)
    BY <2>1, <2>2, CapRises
  <2>. HIDE DEF d, e, rest
  <2>5. ASSUME ApplyHardWall(amount, rest, Cap(rest), e, now).ok
        PROVE  /\ ApplyHardWall(amount, vault, Cap(vault), d, now).ok
               /\ ApplyHardWall(amount, rest, Cap(rest), e, now).val
                    <= ApplyHardWall(amount, vault, Cap(vault), d, now).val
    BY <2>1, <2>2, <2>3, <2>4, <2>5, HardWallRises
  <2>6. NoWorse(ApplyHardWall(amount, vault, Cap(vault), d, now),
                ApplyHardWall(amount, rest, Cap(rest), e, now))
    BY <2>1, <2>5, WallPaid, Naturals64 DEF NoWorse
  <2>. QED
    BY <2>6 DEF Quote, Payout, d, e, rest
<1>. QED
  BY <1>1, PairInvariant, PTL

\* In every reachable state a buy leaves every sell of that moment quoted at
\* least as much, whether the vault is filled by it or not.
THEOREM InflowNeverHurtsAlways == Spec => []InflowNeverHurts
<1>1. PairInv => InflowNeverHurts
  <2> SUFFICES ASSUME PairInv, NEW bought \in Amounts, NEW amount \in Amounts,
                      NEW liquidity \in {vault, vault + bought} \cap U64
               PROVE  NoWorse(Payout(AfterBuy(pair, bought, now), liquidity, amount, now),
                              Quote(amount))
    BY DEF InflowNeverHurts
  <2>. DEFINE d == ToDampeningState(pair)
              e == ToDampeningState(AfterBuy(pair, bought, now))
  <2>1. /\ pair \in PropAmmPairState /\ pair.epoch_duration_seconds > 0
        /\ vault \in U64 /\ vault \in Nat /\ now \in U64 \ {0}
        /\ amount \in U64 /\ bought \in U64 /\ bought \in Nat
    BY PairAssumption, Naturals64 DEF PairInv, TypeOK, U64
  <2>2. liquidity \in U64 /\ vault <= liquidity
    BY <2>1
  <2>3. /\ Tuned(d) /\ Tuned(e) /\ SameParameters(e, d)
        /\ Below(EffectiveSellVolume(e, amount, now), EffectiveSellVolume(d, amount, now))
        /\ Below(SellTradeCount(e, now), SellTradeCount(d, now))
    BY <2>1, TradesMove
  <2>4. Cap(vault) \in U64 /\ Cap(liquidity) \in U64 /\ Cap(vault) <= Cap(liquidity)
    BY <2>1, <2>2, CapRises
  <2>. HIDE DEF d, e
  <2>5. ASSUME ApplyHardWall(amount, vault, Cap(vault), d, now).ok
        PROVE  /\ ApplyHardWall(amount, liquidity, Cap(liquidity), e, now).ok
               /\ ApplyHardWall(amount, vault, Cap(vault), d, now).val
                    <= ApplyHardWall(amount, liquidity, Cap(liquidity), e, now).val
    BY <2>1, <2>2, <2>3, <2>4, <2>5, HardWallRises
  <2>6. NoWorse(ApplyHardWall(amount, liquidity, Cap(liquidity), e, now),
                ApplyHardWall(amount, vault, Cap(vault), d, now))
    BY <2>1, <2>5, WallPaid, Naturals64 DEF NoWorse
  <2>. QED
    BY <2>6 DEF Quote, Payout, d, e
<1>. QED
  BY <1>1, PairInvariant, PTL

\* In every reachable state a larger sell is rated no better than a smaller one,
\* and the smaller one is priced wherever the larger one is.
THEOREM SizeNeverHelpsAlways == Spec => []SizeNeverHelps
<1>1. PairInv => SizeNeverHelps
  <2> SUFFICES ASSUME PairInv, NEW small \in Amounts, NEW large \in Amounts,
                      small <= large, Quote(large).ok
               PROVE  /\ Quote(small).ok
                      /\ Quote(large).val * small < large * (Quote(small).val + 1)
    BY DEF SizeNeverHelps
  <2>1. /\ pair \in PropAmmPairState
        /\ vault \in U64 /\ vault \in Nat
        /\ small \in U64 /\ large \in U64 /\ small # 0
    BY PairAssumption, Naturals64 DEF PairInv, TypeOK, U64
  <2>2. Tuned(ToDampeningState(pair))
    BY <2>1, DampeningTyped, TypedTuned
  <2>3. Cap(vault) \in U64
    BY <2>1, CapRises
  <2>. QED
    BY <2>1, <2>2, <2>3, HardWallRates DEF Quote, Payout
<1>. QED
  BY <1>1, PairInvariant, PTL
=============================================================================
