---------------------------- MODULE Router_proofs ----------------------------
(***************************************************************************)
(* The composition, for every set of swaps, chains and requests.  The      *)
(* vault that pays the sells is never overdrawn, whatever lands in         *)
(* whatever order; a swap nothing has overtaken pays exactly its quote and *)
(* is refused only for what the quote does not look at; and a swap         *)
(* overtaken by trades is paid on the side of its quote they push it to.   *)
(*                                                                         *)
(* Every swap quoted in step carries in the invariant the accounts it was  *)
(* quoted from, as an existential: what has happened since says how they   *)
(* compare with the accounts now, each trade moving the comparison on.     *)
(***************************************************************************)
EXTENDS Router, Venue_proofs

\* What a chain keeps through every step.
ChainTyped(c) ==
    /\ DOMAIN c = Slots
    /\ \A slot \in Slots : c[slot] \in AccountOf(slot) /\ Sound(c, slot)
    /\ c["pair"].data.epoch_duration_seconds > 0

\* The content of a typed account.
LEMMA ContentTyped ==
    ASSUME NEW c, ChainTyped(c)
    PROVE  /\ c["offer"].data \in Offers
           /\ c["state"].data \in States
           /\ c["token_in"].data \in TokenInfos
           /\ c["token_out"].data \in TokenInfos
           /\ c["pair"].data \in PropAmmPairState
           /\ c["redemption"].data \in RedemptionOffers
           /\ c[PayingVault(c)].data \in U64
           /\ c["excluded"].data \in U64
           /\ PayingVault(c) \in {"vault", "vault_22"}
<1>1. \A slot \in Slots : c[slot].data \in DataOf(slot)
  BY DEF AccountOf, ChainTyped
<1>2. PayingVault(c) \in {"vault", "vault_22"}
  BY DEF PayingVault
<1>. QED
  BY <1>1, <1>2 DEF Slots, DataOf

\* Putting content of its kind into one account leaves a typed chain.
LEMMA PutTyped ==
    ASSUME NEW c, ChainTyped(c), NEW slot \in Slots, NEW data \in DataOf(slot),
           slot = "pair" => data.epoch_duration_seconds > 0
    PROVE  ChainTyped([c EXCEPT ![slot].data = data])
<1>. DEFINE d == [c EXCEPT ![slot].data = data]
<1>1. /\ DOMAIN d = Slots
      /\ d[slot] = [c[slot] EXCEPT !.data = data]
      /\ \A other \in Slots \ {slot} : d[other] = c[other]
  BY DEF ChainTyped
<1>2. c[slot] \in AccountOf(slot) /\ c[slot].fault = "none"
  BY DEF ChainTyped, Sound
<1>3. /\ d[slot] \in AccountOf(slot)
      /\ d[slot].fault = "none"
      /\ d[slot].data = data
  <2>. HIDE DEF d
  <2>. QED
    BY <1>1, <1>2 DEF AccountOf
<1>4. "pair" \in Slots
  BY DEF Slots
<1>5. d["pair"].data.epoch_duration_seconds > 0
  BY <1>1, <1>3, <1>4 DEF ChainTyped
<1>. HIDE DEF d
<1>6. \A other \in Slots : d[other] \in AccountOf(other) /\ Sound(d, other)
  BY <1>1, <1>3 DEF ChainTyped, Sound
<1>. QED
  BY <1>1, <1>5, <1>6 DEF ChainTyped, d
-----------------------------------------------------------------------------
(***************************************************************************)
(* What landing does to the accounts.                                      *)
(***************************************************************************)
\* A sell that pays leaves in the vault what it does not pay.
LEMMA SoldWithinVault ==
    ASSUME NEW c, ChainTyped(c), NEW vector, NEW amount, NEW time \in U64,
           Sold(c, vector, amount, time).ok
    PROVE  Sold(c, vector, amount, time).val \in 0..c[PayingVault(c)].data
<1>. DEFINE pair == Rolled(c["pair"].data, time)
            redemption == c["redemption"].data
            params == [liquidity |-> c[PayingVault(c)].data,
                       liquidity_cap_target_bps |-> redemption.vault_target_bps,
                       circulating_supply |-> SatSub(c["token_out"].data.supply,
                                                     c["excluded"].data),
                       dampening |-> ToDampeningState(pair)]
            in == c["token_out"].data.decimals
            out == c["token_in"].data.decimals
            sold == SellFromVector(vector, time, amount,
                        redemption.fee_basis_points_prop_amm_sell, in, out,
                        pair.minimum_sell_haircut_onyc, params)
<1>1. Sold(c, vector, amount, time) = sold
  BY DEF Sold
<1>2. pair \in PropAmmPairState
  BY ContentTyped, RolledTyped
<1>3. /\ params.liquidity \in U64
      /\ params.liquidity_cap_target_bps \in Nat
      /\ params.dampening \in DampeningState
      /\ params.liquidity = c[PayingVault(c)].data
  BY <1>2, ContentTyped, DampeningTyped DEF RedemptionOffers
<1>4. in \in Nat /\ out \in Nat
  BY ContentTyped DEF TokenInfos
<1>5. sold.ok
  BY <1>1
<1>6. sold.val \in 0..params.liquidity
  <2>. HIDE DEF params, in, out, pair, redemption
  <2>. QED
    BY <1>3, <1>4, <1>5, SellWithinVault DEF sold
<1>. HIDE DEF sold, params
<1>. QED
  BY <1>1, <1>3, <1>6

\* An instruction that is not refused is one whose price was Ok.
LEMMA ExecutedOk ==
    ASSUME NEW c, NEW instruction, NEW time,
           Execution(c, instruction, time).codes = {}
    PROVE  /\ Paid(c, instruction, time).ok
           /\ Execution(c, instruction, time).paid = Paid(c, instruction, time).val
<1>. DEFINE paid == Paid(c, instruction, time)
<1>1. Execution(c, instruction, time) = [codes |-> Refusals(c, instruction, paid),
                                         paid |-> paid.val]
  BY DEF Execution, Judged
<1>2. Refusals(c, instruction, paid) = {}
  BY <1>1
<1>3. Unclassified \notin Refusals(c, instruction, paid)
  BY <1>2
<1>. HIDE DEF paid
<1>4. paid.ok
  BY <1>3 DEF Refusals
<1>. QED
  BY <1>1, <1>4 DEF paid

\* The roll and the trade leave the length of an epoch as it is.
LEMMA TradeKeepsEpoch ==
    ASSUME NEW p \in PropAmmPairState, NEW amount, NEW time \in U64
    PROVE  /\ AfterBuy(p, amount, time).epoch_duration_seconds = p.epoch_duration_seconds
           /\ AfterSell(p, amount, time).epoch_duration_seconds = p.epoch_duration_seconds
<1>1. /\ Rolled(p, time) \in PropAmmPairState
      /\ Rolled(p, time).epoch_duration_seconds = p.epoch_duration_seconds
  BY RolledTyped
<1>. QED
  BY <1>1 DEF AfterBuy, AfterSell, PropAmmPairState

\* A buy that lands keeps the chain typed: what it adds has to fit.
LEMMA BuyingTyped ==
    ASSUME NEW c, ChainTyped(c), NEW amount, NEW minted, NEW vault, NEW time \in U64,
           Fits(AfterBuying(c, amount, minted, vault, time),
                {"pair", "token_out", PayingVault(c)})
    PROVE  ChainTyped(AfterBuying(c, amount, minted, vault, time))
<1>. DEFINE d == AfterBuying(c, amount, minted, vault, time)
            paying == PayingVault(c)
            supply == [c["token_out"].data EXCEPT !.supply = @ + minted]
            pair == AfterBuy(c["pair"].data, amount, time)
            one == [c EXCEPT !["token_out"].data = supply]
            two == [one EXCEPT !["pair"].data = pair]
<1>1. /\ paying \in {"vault", "vault_22"}
      /\ {"token_in", "token_out", "pair", "vault", "vault_22"} \subseteq Slots
      /\ DOMAIN c = Slots
  BY ContentTyped DEF Slots, ChainTyped
<1>2. /\ d["token_in"] = c["token_in"]
      /\ d["token_out"].data = supply
      /\ d["pair"].data = pair
      /\ d[paying].data = vault
  <2>1. c["token_out"] \in AccountOf("token_out") /\ c["pair"] \in AccountOf("pair")
        /\ c[paying] \in AccountOf(paying)
    BY <1>1 DEF ChainTyped
  <2>. QED
    BY <1>1, <2>1 DEF AfterBuying, AccountOf
<1>3. /\ supply \in DataOf("token_out")
      /\ pair \in DataOf("pair")
      /\ vault \in DataOf(paying)
  <2>. HIDE DEF d, supply, pair, paying
  <2>. QED
    BY <1>2 DEF Fits, d, paying
<1>4. pair.epoch_duration_seconds > 0
  BY ContentTyped, TradeKeepsEpoch DEF ChainTyped
<1>5. ChainTyped(one)
  <2>. HIDE DEF supply
  <2>. QED
    BY <1>1, <1>3, PutTyped
<1>6. ChainTyped(two)
  <2>. HIDE DEF one, pair
  <2>. QED
    BY <1>1, <1>3, <1>4, <1>5, PutTyped
<1>7. ChainTyped([two EXCEPT ![paying].data = vault])
  <2>. HIDE DEF two, paying
  <2>. QED
    BY <1>1, <1>3, <1>6, PutTyped
<1>8. d = [two EXCEPT ![paying].data = vault]
  BY <1>1 DEF AfterBuying
<1>. QED
  BY <1>7, <1>8

\* A sell that lands keeps the chain typed: its payment is there to be paid.
LEMMA SellingTyped ==
    ASSUME NEW c, ChainTyped(c), NEW worth, NEW time \in U64,
           NEW paid \in 0..c[PayingVault(c)].data,
           Fits(AfterSelling(c, worth, paid, time), {"pair"})
    PROVE  ChainTyped(AfterSelling(c, worth, paid, time))
<1>. DEFINE d == AfterSelling(c, worth, paid, time)
            paying == PayingVault(c)
            left == c[paying].data - paid
            pair == AfterSell(c["pair"].data, worth, time)
            one == [c EXCEPT !["pair"].data = pair]
<1>1. /\ paying \in {"vault", "vault_22"}
      /\ {"pair", "vault", "vault_22"} \subseteq Slots
      /\ DOMAIN c = Slots
  BY ContentTyped DEF Slots, ChainTyped
<1>2. d["pair"].data = pair
  <2>1. c["pair"] \in AccountOf("pair")
    BY <1>1 DEF ChainTyped
  <2>. QED
    BY <1>1, <2>1 DEF AfterSelling, AccountOf
<1>3. pair \in DataOf("pair")
  <2>. HIDE DEF d, pair
  <2>. QED
    BY <1>2 DEF Fits, d
<1>4. left \in U64
  <2>1. c[paying].data \in U64
    BY ContentTyped
  <2>. QED
    BY <2>1, Naturals64 DEF U64
<1>5. left \in DataOf(paying)
  BY <1>1, <1>4 DEF DataOf
<1>6. pair.epoch_duration_seconds > 0
  BY ContentTyped, TradeKeepsEpoch DEF ChainTyped
<1>7. ChainTyped(one)
  <2>. HIDE DEF pair
  <2>. QED
    BY <1>1, <1>3, <1>6, PutTyped
<1>8. ChainTyped([one EXCEPT ![paying].data = left])
  <2>. HIDE DEF one, paying, left
  <2>. QED
    BY <1>1, <1>5, <1>7, PutTyped
<1>9. d = [one EXCEPT ![paying].data = left]
  BY <1>1 DEF AfterSelling
<1>. QED
  BY <1>8, <1>9
-----------------------------------------------------------------------------
(***************************************************************************)
(* What the same swap is paid from one set of accounts and from another.   *)
(***************************************************************************)
Pair(c) == c["pair"].data
Vault(c) == c[PayingVault(c)].data
Supply(c) == c["token_out"].data.supply
Pressure(c) == ToDampeningState(Pair(c))

\* Accounts that trades alone can tell apart: by supply, vault and pressure.
Alike(b, c) ==
    /\ \A slot \in {"offer", "state", "token_in", "redemption", "excluded"} :
            b[slot].data = c[slot].data
    /\ b["token_out"].data.decimals = c["token_out"].data.decimals
    /\ Pair(b).enabled = Pair(c).enabled
    /\ Pair(b).minimum_sell_haircut_onyc = Pair(c).minimum_sell_haircut_onyc

\* The fields trades change, typed.
LEMMA MarketTyped ==
    ASSUME NEW c, ChainTyped(c)
    PROVE  /\ Pair(c) \in PropAmmPairState /\ Pair(c).epoch_duration_seconds > 0
           /\ Pressure(c) \in DampeningState
           /\ Vault(c) \in U64 /\ Vault(c) \in Nat
           /\ Supply(c) \in U64 /\ Supply(c) \in Nat
           /\ c["excluded"].data \in Nat
BY ContentTyped, DampeningTyped, Naturals64
   DEF ChainTyped, Pair, Vault, Supply, Pressure, TokenInfos

\* A sell priced from the pair as it stands, before the program rolls it.
Standing(c, vector, amount, time) ==
    SellFromVector(vector, time, amount,
        c["redemption"].data.fee_basis_points_prop_amm_sell,
        c["token_out"].data.decimals, c["token_in"].data.decimals,
        Pair(c).minimum_sell_haircut_onyc,
        [liquidity |-> Vault(c),
         liquidity_cap_target_bps |-> c["redemption"].data.vault_target_bps,
         circulating_supply |-> SatSub(Supply(c), c["excluded"].data),
         dampening |-> Pressure(c)])

\* The program's roll of the pair makes no difference to what a sell is paid.
LEMMA SoldAsItStands ==
    ASSUME NEW c, ChainTyped(c), NEW vector, NEW amount, NEW time \in U64 \ {0}
    PROVE  Sold(c, vector, amount, time) = Standing(c, vector, amount, time)
<1>. DEFINE pair == Pair(c)
            rolled == Rolled(pair, time)
            redemption == c["redemption"].data
            fee == redemption.fee_basis_points_prop_amm_sell
            in == c["token_out"].data.decimals
            out == c["token_in"].data.decimals
            params(p) == [liquidity |-> Vault(c),
                          liquidity_cap_target_bps |-> redemption.vault_target_bps,
                          circulating_supply |-> SatSub(Supply(c), c["excluded"].data),
                          dampening |-> ToDampeningState(p)]
            sold(p) == SellFromVector(vector, time, amount, fee, in, out,
                                      p.minimum_sell_haircut_onyc, params(p))
            price == StepPrice(vector, time)
            raw == RawAmountOut(amount, price.val, fee, pair.minimum_sell_haircut_onyc,
                                in, out)
            tvl == Tvl(price.val, SatSub(Supply(c), c["excluded"].data))
            cap == LiquidityCap(Vault(c), tvl.val, redemption.vault_target_bps, in, out)
            walled(p) == ApplyHardWall(raw.val, Vault(c), cap.val, ToDampeningState(p),
                                       time)
            answer(p) == IF ~price.ok THEN price ELSE IF ~raw.ok THEN raw
                         ELSE IF ~tvl.ok THEN tvl ELSE IF ~cap.ok THEN cap
                         ELSE walled(p)
<1>1. /\ pair \in PropAmmPairState
      /\ pair.epoch_duration_seconds > 0
      /\ in \in Nat /\ out \in Nat
  BY ContentTyped, MarketTyped DEF TokenInfos
<1>2. /\ Sold(c, vector, amount, time) = sold(rolled)
      /\ Standing(c, vector, amount, time) = sold(pair)
  BY DEF Sold, Standing, Pair, Vault, Supply, Pressure
<1>3. rolled.minimum_sell_haircut_onyc = pair.minimum_sell_haircut_onyc
  BY <1>1 DEF Rolled, NewEpoch, PropAmmPairState
<1>4. sold(rolled) = answer(rolled) /\ sold(pair) = answer(pair)
  BY <1>3, Zenon DEF SellFromVector, SellAmountOut
<1>5. raw.ok => raw.val \in U64
  <2>. HIDE DEF price, pair, fee, in, out
  <2>. QED
    BY <1>1, RawTyped
<1>6. raw.ok => walled(rolled) = walled(pair)
  <2>. HIDE DEF raw, cap, pair
  <2>. QED
    BY <1>1, <1>5, RollTransparentWall
<1>. HIDE DEF sold, price, raw, tvl, cap, walled
<1>. QED
  BY <1>2, <1>4, <1>6

\* At one price a sell is paid no less where the vault is fuller, the supply
\* greater and the pressure lighter; unless the supply's value does not fit.
LEMMA SoldFollows ==
    ASSUME NEW b, NEW c, ChainTyped(b), ChainTyped(c), Alike(b, c),
           Vault(c) <= Vault(b), Supply(c) <= Supply(b),
           NEW t \in U64 \ {0}, NEW time \in U64 \ {0},
           Lighter(Pressure(b), t, Pressure(c), time),
           NEW first, NEW second, StepPrice(first, t) = StepPrice(second, time),
           NEW amount, Sold(c, second, amount, time).ok
    PROVE  \/ Sold(b, first, amount, t) = Overflow
           \/ /\ Sold(b, first, amount, t).ok
              /\ Sold(c, second, amount, time).val <= Sold(b, first, amount, t).val
<1>. DEFINE params(a) == [liquidity |-> Vault(a),
                          liquidity_cap_target_bps |->
                              a["redemption"].data.vault_target_bps,
                          circulating_supply |-> SatSub(Supply(a), a["excluded"].data),
                          dampening |-> Pressure(a)]
            fee == c["redemption"].data.fee_basis_points_prop_amm_sell
            minFee == Pair(c).minimum_sell_haircut_onyc
            in == c["token_out"].data.decimals
            out == c["token_in"].data.decimals
            low == SellFromVector(second, time, amount, fee, in, out, minFee, params(c))
            high == SellFromVector(first, t, amount, fee, in, out, minFee, params(b))
<1>1. /\ Sold(c, second, amount, time) = low
      /\ Sold(b, first, amount, t) = Standing(b, first, amount, t)
  BY SoldAsItStands DEF Standing
<1>2. Standing(b, first, amount, t) = high
  BY DEF Standing, Alike
<1>3. /\ Vault(b) \in U64 /\ Vault(c) \in U64
      /\ Supply(b) \in Nat /\ Supply(c) \in Nat /\ c["excluded"].data \in Nat
      /\ b["excluded"].data = c["excluded"].data
      /\ b["redemption"].data = c["redemption"].data
  BY MarketTyped DEF Alike
<1>4. in \in Nat /\ out \in Nat /\ c["redemption"].data.vault_target_bps \in Nat
  BY ContentTyped DEF TokenInfos, RedemptionOffers
<1>5. /\ params(c).liquidity \in U64 /\ params(b).liquidity \in U64
      /\ params(c).liquidity <= params(b).liquidity
      /\ params(c).liquidity_cap_target_bps \in Nat
      /\ params(b).liquidity_cap_target_bps = params(c).liquidity_cap_target_bps
      /\ Lighter(params(b).dampening, t, params(c).dampening, time)
  BY <1>3, <1>4
<1>6. /\ params(c).circulating_supply \in Nat /\ params(b).circulating_supply \in Nat
      /\ params(c).circulating_supply <= params(b).circulating_supply
  BY <1>3 DEF SatSub
<1>7. low.ok
  BY <1>1
<1>. HIDE DEF params, fee, minFee, in, out
<1>8. high = Overflow \/ (high.ok /\ low.val <= high.val)
  BY <1>4, <1>5, <1>6, <1>7, SellFollows DEF low, high
<1>. QED
  BY <1>1, <1>2, <1>8

\* What trades of one second do to the accounts: sells take from the vault and
\* press on it, buys fill it and ease the pressure.
Drained(b, c, time) ==
    /\ Alike(b, c)
    /\ Supply(c) = Supply(b)
    /\ Vault(c) <= Vault(b)
    /\ Lighter(Pressure(b), time, Pressure(c), time)

Filled(b, c, time) ==
    /\ Alike(b, c)
    /\ Supply(b) <= Supply(c)
    /\ Vault(b) <= Vault(c)
    /\ Lighter(Pressure(c), time, Pressure(b), time)

\* Accounts are like themselves, and what is like the like is alike.
LEMMA AlikeChain ==
    ASSUME NEW a, NEW b, NEW c
    PROVE  /\ Alike(a, a)
           /\ Alike(a, b) /\ Alike(b, c) => Alike(a, c)
           /\ Alike(a, b) => PayingVault(a) = PayingVault(b)
BY DEF Alike, PayingVault

\* Accounts nothing has landed on.
LEMMA NothingLanded ==
    ASSUME NEW c, ChainTyped(c), NEW time \in Nat
    PROVE  Drained(c, c, time) /\ Filled(c, c, time)
<1>1. Pressure(c).epoch_start <= time \/ Pressure(c).epoch_start > time
  <2>1. Pressure(c).epoch_start \in Nat
    BY MarketTyped, Naturals64 DEF DampeningState
  <2>. QED
    BY <2>1
<1>2. Lighter(Pressure(c), time, Pressure(c), time)
  <2>1. Pressure(c) \in DampeningState /\ time <= time
    BY MarketTyped
  <2>. QED
    BY <1>1, <2>1, LighterLater
<1>3. Alike(c, c)
  BY AlikeChain
<1>4. Supply(c) \in Nat /\ Vault(c) \in Nat
  BY MarketTyped
<1>. QED
  BY <1>2, <1>3, <1>4 DEF Drained, Filled

\* One trade after others.
LEMMA LandedChain ==
    ASSUME NEW a, NEW b, NEW c, ChainTyped(a), ChainTyped(b), ChainTyped(c), NEW time
    PROVE  /\ Drained(a, b, time) /\ Drained(b, c, time) => Drained(a, c, time)
           /\ Filled(a, b, time) /\ Filled(b, c, time) => Filled(a, c, time)
<1>1. /\ Supply(a) \in Nat /\ Supply(b) \in Nat /\ Supply(c) \in Nat
      /\ Vault(a) \in Nat /\ Vault(b) \in Nat /\ Vault(c) \in Nat
  BY MarketTyped
<1>2. ASSUME Drained(a, b, time), Drained(b, c, time) PROVE Drained(a, c, time)
  <2>1. Lighter(Pressure(a), time, Pressure(c), time)
    BY <1>2, LighterChain DEF Drained
  <2>2. Alike(a, c)
    BY <1>2, AlikeChain DEF Drained
  <2>. QED
    BY <1>1, <1>2, <2>1, <2>2 DEF Drained
<1>3. ASSUME Filled(a, b, time), Filled(b, c, time) PROVE Filled(a, c, time)
  <2>1. Lighter(Pressure(c), time, Pressure(a), time)
    BY <1>3, LighterChain DEF Filled
  <2>2. Alike(a, c)
    BY <1>3, AlikeChain DEF Filled
  <2>. QED
    BY <1>1, <1>3, <2>1, <2>2 DEF Filled
<1>. QED
  BY <1>2, <1>3

\* A trade changes nothing else of the pair.
LEMMA TradeKeepsPair ==
    ASSUME NEW p \in PropAmmPairState, NEW amount, NEW time \in U64,
           NEW q \in {AfterBuy(p, amount, time), AfterSell(p, amount, time)}
    PROVE  /\ q.enabled = p.enabled
           /\ q.minimum_sell_haircut_onyc = p.minimum_sell_haircut_onyc
<1>1. /\ Rolled(p, time).enabled = p.enabled
      /\ Rolled(p, time).minimum_sell_haircut_onyc = p.minimum_sell_haircut_onyc
  BY DEF Rolled, NewEpoch, PropAmmPairState
<1>2. Rolled(p, time) \in PropAmmPairState
  BY RolledTyped
<1>. QED
  BY <1>1, <1>2 DEF AfterBuy, AfterSell, PropAmmPairState

\* A sell that lands drains the accounts.
LEMMA SellingDrains ==
    ASSUME NEW c, ChainTyped(c), NEW worth \in Nat, NEW time \in U64 \ {0},
           NEW paid \in 0..Vault(c)
    PROVE  Drained(c, AfterSelling(c, worth, paid, time), time)
<1>. DEFINE d == AfterSelling(c, worth, paid, time)
            paying == PayingVault(c)
<1>1. /\ paying \in {"vault", "vault_22"}
      /\ DOMAIN c = Slots
      /\ {"offer", "state", "token_in", "token_out", "pair", "redemption", "vault",
          "vault_22", "excluded"} \subseteq Slots
  BY ContentTyped DEF Slots, ChainTyped
<1>2. c["pair"] \in AccountOf("pair") /\ c[paying] \in AccountOf(paying)
  BY <1>1 DEF ChainTyped
<1>3. /\ \A slot \in Slots \ {"pair", paying} : d[slot] = c[slot]
      /\ d["pair"].data = AfterSell(c["pair"].data, worth, time)
      /\ d[paying].data = c[paying].data - paid
  BY <1>1, <1>2 DEF AfterSelling, AccountOf
<1>4. PayingVault(d) = paying
  BY <1>1, <1>3 DEF PayingVault
<1>. HIDE DEF d, paying
<1>5. /\ Supply(d) = Supply(c)
      /\ Vault(d) = Vault(c) - paid
      /\ Pair(d) = AfterSell(Pair(c), worth, time)
  BY <1>1, <1>3, <1>4 DEF Supply, Vault, Pair, paying
<1>6. Alike(c, d)
  <2>1. /\ Pair(d).enabled = Pair(c).enabled
        /\ Pair(d).minimum_sell_haircut_onyc = Pair(c).minimum_sell_haircut_onyc
    BY <1>5, MarketTyped, TradeKeepsPair
  <2>. QED
    BY <1>1, <1>3, <2>1 DEF Alike
<1>7. Vault(d) <= Vault(c)
  BY <1>5, MarketTyped
<1>8. Lighter(Pressure(c), time, Pressure(d), time)
  BY <1>5, MarketTyped, LighterTrades DEF Pressure
<1>. QED
  BY <1>5, <1>6, <1>7, <1>8 DEF Drained, d

\* A buy that lands fills them.
LEMMA BuyingFills ==
    ASSUME NEW c, ChainTyped(c), NEW amount \in Nat, NEW minted \in Nat,
           NEW time \in U64 \ {0}, NEW vault \in Nat, Vault(c) <= vault
    PROVE  Filled(c, AfterBuying(c, amount, minted, vault, time), time)
<1>. DEFINE d == AfterBuying(c, amount, minted, vault, time)
            paying == PayingVault(c)
<1>1. /\ paying \in {"vault", "vault_22"}
      /\ DOMAIN c = Slots
      /\ {"offer", "state", "token_in", "token_out", "pair", "redemption", "vault",
          "vault_22", "excluded"} \subseteq Slots
  BY ContentTyped DEF Slots, ChainTyped
<1>2. /\ c["pair"] \in AccountOf("pair") /\ c[paying] \in AccountOf(paying)
      /\ c["token_out"] \in AccountOf("token_out")
      /\ c["token_out"].data \in TokenInfos
  BY <1>1, ContentTyped DEF ChainTyped
<1>3. /\ \A slot \in Slots \ {"pair", "token_out", paying} : d[slot] = c[slot]
      /\ d["token_out"].data = [c["token_out"].data EXCEPT !.supply = @ + minted]
      /\ d["pair"].data = AfterBuy(c["pair"].data, amount, time)
      /\ d[paying].data = vault
  BY <1>1, <1>2 DEF AfterBuying, AccountOf
<1>4. PayingVault(d) = paying
  BY <1>1, <1>3 DEF PayingVault
<1>. HIDE DEF d, paying
<1>5. /\ Supply(d) = Supply(c) + minted
      /\ Vault(d) = vault
      /\ Pair(d) = AfterBuy(Pair(c), amount, time)
      /\ d["token_out"].data.decimals = c["token_out"].data.decimals
  BY <1>1, <1>2, <1>3, <1>4 DEF Supply, Vault, Pair, TokenInfos, paying
<1>6. Alike(c, d)
  <2>1. /\ Pair(d).enabled = Pair(c).enabled
        /\ Pair(d).minimum_sell_haircut_onyc = Pair(c).minimum_sell_haircut_onyc
    BY <1>5, MarketTyped, TradeKeepsPair
  <2>. QED
    BY <1>1, <1>3, <1>5, <2>1 DEF Alike
<1>7. Supply(c) <= Supply(d) /\ Vault(c) <= Vault(d)
  BY <1>5, MarketTyped
<1>8. Lighter(Pressure(d), time, Pressure(c), time)
  BY <1>5, MarketTyped, LighterTrades DEF Pressure
<1>. QED
  BY <1>6, <1>7, <1>8 DEF Filled, d
-----------------------------------------------------------------------------
(***************************************************************************)
(* What a quote from a copy of the accounts says of the accounts.          *)
(***************************************************************************)
\* What the accounts give at a time for what is requested, as the program sees
\* it.
Given(c, request, time) ==
    LET vector == FindActiveVector(c["offer"].data.vectors, time).val
    IN  IF IsBuy(request) THEN Bought(c, vector, request.amount, time)
        ELSE Sold(c, vector, request.amount, time)

\* A buy is priced from the same fields of the copy as of the accounts.
LEMMA BuyPaysQuote ==
    ASSUME NEW c, NEW v, CopyOf(v, c), NEW vector, NEW amount, NEW time,
           Output(BuyQuote(v, vector, amount, time)) > 0
    PROVE  /\ Bought(c, vector, amount, time).ok
           /\ Bought(c, vector, amount, time).val = Output(BuyQuote(v, vector, amount, time))
           /\ ~BeyondMaxSupply(c, Bought(c, vector, amount, time).val)
<1>1. /\ v.offer = c["offer"].data
      /\ v.state = c["state"].data
      /\ v.token_out_supply = c["token_out"].data.supply
      /\ v.token_info[1] = c["token_in"].data
      /\ v.token_info[2] = c["token_out"].data
  BY DEF CopyOf
<1>2. Bought(c, vector, amount, time)
        = BuyFromVector(vector, time, amount, v.offer.fee_basis_points_permissionless,
                        v.token_info[1].decimals, v.token_info[2].decimals)
  BY <1>1 DEF Bought
<1>3. /\ Bought(c, vector, amount, time).ok
      /\ Bought(c, vector, amount, time).val = Output(BuyQuote(v, vector, amount, time))
      /\ ~ /\ v.state.max_supply > 0
           /\ v.token_out_supply + Bought(c, vector, amount, time).val > v.state.max_supply
  BY <1>2, BuyQuotePriced
<1>. QED
  BY <1>1, <1>3 DEF BeyondMaxSupply

\* The copy is priced as it stands, and so is a sell of the program's.
LEMMA SellPaysQuote ==
    ASSUME NEW c, ChainTyped(c), NEW v, CopyOf(v, c), NEW vector, NEW amount,
           NEW time \in U64 \ {0}, Output(SellQuote(v, vector, amount, time)) > 0
    PROVE  /\ Sold(c, vector, amount, time).ok
           /\ Sold(c, vector, amount, time).val = Output(SellQuote(v, vector, amount, time))
           /\ Pair(c).enabled
<1>1. /\ v.prop_amm_pair_state = Pair(c)
      /\ v.redemption_offer = c["redemption"].data
      /\ v.redemption_vault_token_in = Vault(c)
      /\ v.token_out_supply = Supply(c)
      /\ v.circulating_supply_excluded_balance = c["excluded"].data
      /\ v.token_info[1] = c["token_in"].data
      /\ v.token_info[2] = c["token_out"].data
  BY DEF CopyOf, Pair, Vault, Supply
<1>2. Output(SellQuote(v, vector, amount, time)) # 0
  OBVIOUS
<1>3. /\ Standing(c, vector, amount, time).ok
      /\ Standing(c, vector, amount, time).val = Output(SellQuote(v, vector, amount, time))
      /\ Pair(c).enabled
  BY <1>1, <1>2, SellQuotePriced DEF Standing, Pressure
<1>. QED
  BY <1>3, SoldAsItStands

\* A quote that gives something was made of live accounts that give as much.
LEMMA QuoteGiven ==
    ASSUME NEW c, ChainTyped(c), NEW v, CopyOf(v, c), NEW request, NEW time \in U64 \ {0},
           Output(Quote(v, request, time)) > 0
    PROVE  /\ FindActiveVector(c["offer"].data.vectors, time).ok
           /\ IsBuy(request) \/ IsSell(request)
           /\ Given(c, request, time).ok
           /\ Given(c, request, time).val = Output(Quote(v, request, time))
           /\ ~c["state"].data.is_killed
           /\ ~c["offer"].data.disabled
           /\ IsBuy(request) => ~BeyondMaxSupply(c, Given(c, request, time).val)
           /\ IsSell(request) => Pair(c).enabled
<1>. DEFINE vector == FindActiveVector(c["offer"].data.vectors, time)
            quote == Quote(v, request, time)
<1>1. v.offer = c["offer"].data /\ v.state = c["state"].data
  BY DEF CopyOf
<1>2. Output(quote) # 0
  OBVIOUS
<1>3. /\ vector.ok
      /\ Status(v) = "Active"
      /\ \/ IsBuy(request) /\ quote = BuyQuote(v, vector.val, request.amount, time)
         \/ IsSell(request) /\ quote = SellQuote(v, vector.val, request.amount, time)
  BY <1>1, <1>2, QuotePriced
<1>4. ~c["state"].data.is_killed /\ ~c["offer"].data.disabled
  <2>1. v.state # None
    BY <1>1, ContentTyped, NoneAssumption
  <2>2. /\ "KillSwitchActive" # "Active"
        /\ "OfferDisabled" # "Active"
    OBVIOUS
  <2>. QED
    BY <1>1, <1>3, <2>1, <2>2, Zenon DEF Status
<1>5. CASE IsBuy(request) /\ quote = BuyQuote(v, vector.val, request.amount, time)
  <2>1. Given(c, request, time) = Bought(c, vector.val, request.amount, time)
    BY <1>5 DEF Given
  <2>2. ~IsSell(request)
    BY <1>5, OneWay
  <2>. HIDE DEF vector
  <2>. QED
    BY <1>3, <1>4, <1>5, <2>1, <2>2, BuyPaysQuote DEF vector
<1>6. CASE IsSell(request) /\ quote = SellQuote(v, vector.val, request.amount, time)
  <2>1. ~IsBuy(request)
    BY <1>6, OneWay
  <2>2. Given(c, request, time) = Sold(c, vector.val, request.amount, time)
    BY <2>1 DEF Given
  <2>. HIDE DEF vector
  <2>. QED
    BY <1>3, <1>4, <1>6, <2>1, <2>2, SellPaysQuote DEF vector
<1>. QED
  BY <1>3, <1>5, <1>6

\* The instruction a request has been built into.
Matches(instruction, request) ==
    /\ instruction.amount = request.amount
    /\ instruction.minimum_out = 0
    /\ IsBuy(request) => Direction(instruction) = "buy"
    /\ IsSell(request) => Direction(instruction) = "sell"

\* What the program pays for it.
LEMMA PaidGiven ==
    ASSUME NEW c, NEW instruction, NEW request, NEW time, Matches(instruction, request),
           IsBuy(request) \/ IsSell(request),
           FindActiveVector(c["offer"].data.vectors, time).ok
    PROVE  Paid(c, instruction, time) = Given(c, request, time)
<1>1. "sell" # "buy" /\ ~(IsBuy(request) /\ IsSell(request))
  BY OneWay
<1>2. /\ IsBuy(request) => Direction(instruction) = "buy"
      /\ ~IsBuy(request) => Direction(instruction) # "buy"
      /\ instruction.amount = request.amount
  BY <1>1 DEF Matches
<1>. QED
  BY <1>2, Zenon DEF Paid, Given

\* Trades do not change what a buy is given.
LEMMA BuyGivenAlike ==
    ASSUME NEW b, NEW c, Alike(b, c), NEW request, IsBuy(request), NEW time
    PROVE  Given(b, request, time) = Given(c, request, time)
BY DEF Given, Bought, Alike
-----------------------------------------------------------------------------
(***************************************************************************)
(* The inductive invariant.                                                *)
(***************************************************************************)
\* A swap as the router makes it.
QuotedSwap(request, output, inStep, at, agreed, since) ==
    [phase |-> "quoted", request |-> request, output |-> output, in_step |-> inStep,
     at |-> at, agreed |-> agreed, since |-> since]

SentSwap(request, output, inStep, at, agreed, since, instruction) ==
    [phase |-> "sent", request |-> request, output |-> output, in_step |-> inStep,
     at |-> at, agreed |-> agreed, since |-> since, instruction |-> instruction]

Shaped(swap) ==
    \/ swap \in {Idle, Over}
    \/ \E request \in Requests : \E output, inStep, at, agreed, since :
            swap = QuotedSwap(request, output, inStep, at, agreed, since)
    \/ \E request \in Requests : \E output, inStep, at, agreed, since, instruction :
            /\ Matches(instruction, request)
            /\ swap = SentSwap(request, output, inStep, at, agreed, since, instruction)

\* How the accounts c came from b, by what has happened since.
Reached(b, c, since, prompt, time) ==
    /\ since = {} => b = c
    /\ "publish" \notin since => Alike(b, c)
    /\ prompt /\ since \subseteq {"sell"} => Drained(b, c, time)
    /\ prompt /\ since \subseteq {"buy"} => Filled(b, c, time)

\* There were accounts that gave the swap its quote, and the accounts are theirs
\* but for what has happened since.
QuotedFrom(swap, c, time) ==
    \E b, v : /\ ChainTyped(b)
              /\ CopyOf(v, b)
              /\ swap.output = Output(Quote(v, swap.request, swap.at))
              /\ Reached(b, c, swap.since, swap.agreed /\ swap.at = time, time)

\* The addresses a venue derives from its copy are those of the accounts.
Addresses(v, c) ==
    /\ v.token_info[1].is_token_2022 = c["token_in"].data.is_token_2022
    /\ v.state.main_offer = c["state"].data.main_offer

\* What is true of a swap, the venue and the accounts at a time on chain.
Kept(swap, v, c, time) ==
    /\ Shaped(swap)
    /\ UnderWay(swap) /\ swap.in_step =>
          /\ swap.output > 0
          /\ swap.at \in MinTime..MaxTime
          /\ swap.agreed => swap.at <= time
          /\ QuotedFrom(swap, c, time)
          /\ "publish" \notin swap.since =>
                /\ Addresses(v, c)
                /\ swap.phase = "sent" => Admitted(c, swap.instruction)

RouterInv ==
    /\ TypeOK
    /\ ChainTyped(chain)
    /\ DOMAIN swaps = Swaps
    /\ \A s \in Swaps : Kept(swaps[s], venue, chain, chain_now)

\* The bounds are naturals.
LEMMA Bounds ==
    /\ MaxWrites \in Nat /\ MaxSkew \in Nat /\ MinTime \in Nat /\ MaxTime \in Nat
    /\ MinTime <= MaxTime
    /\ MinTime..MaxTime \subseteq U64 \ {0}
<1>1. /\ MinTime \in U64 \ {0} /\ MaxTime \in U64 \ {0}
      /\ MaxWrites \in Nat /\ MaxSkew \in Nat /\ MinTime <= MaxTime
  BY RouterAssumption
<1>. QED
  BY <1>1, Naturals64 DEF U64

\* An idle swap and one that is over say nothing of the accounts.
LEMMA RestingKept ==
    ASSUME NEW v, NEW c, NEW time
    PROVE  Kept(Idle, v, c, time) /\ Kept(Over, v, c, time)
BY DEF Kept, Shaped, Idle, Over, UnderWay

\* Changing one swap to a true one keeps all true.
LEMMA PutSwap ==
    ASSUME NEW all, DOMAIN all = Swaps, NEW v, NEW c, NEW time,
           \A s \in Swaps : Kept(all[s], v, c, time),
           NEW s \in Swaps, NEW swap, Kept(swap, v, c, time)
    PROVE  /\ DOMAIN [all EXCEPT ![s] = swap] = Swaps
           /\ \A t \in Swaps : Kept([all EXCEPT ![s] = swap][t], v, c, time)
OBVIOUS

\* The update of a venue from a typed chain reads every account.
LEMMA UpdatedInitialized ==
    ASSUME NEW c, ChainTyped(c), NEW v
    PROVE  /\ Updated(v, c).offer = c["offer"].data
           /\ Updated(v, c).state = c["state"].data
           /\ Updated(v, c).initialized
           /\ Updated(v, c).token_info \in TokenInfos \X TokenInfos
           /\ Addresses(Updated(v, c), c)
<1>1. \A slot \in Slots : Sound(c, slot)
  BY DEF ChainTyped
<1>2. VaultSlot(c) \in Slots /\ Slots \ {"vault", "vault_22"} \subseteq Slots
  BY DEF VaultSlot, Slots
<1>3. /\ Sound(c, "offer") /\ Sound(c, "state") /\ Sound(c, "token_in")
      /\ Sound(c, "token_out") /\ Sound(c, "pair") /\ Sound(c, VaultSlot(c))
      /\ Sound(c, "redemption") /\ Sound(c, "excluded")
  BY <1>1, <1>2 DEF Slots
<1>4. ExcludedRead(c) /\ TokensRead(c) /\ StateRead(c) /\ OfferRead(c)
  BY <1>3
     DEF ExcludedRead, RedemptionRead, VaultRead, PairRead, TokensRead, StateRead, OfferRead
<1>5. <<c["token_in"].data, c["token_out"].data>> \in TokenInfos \X TokenInfos
  BY ContentTyped
<1>. QED
  BY <1>4, <1>5 DEF Updated, InitializedAfter, TokenInfoAfter, Addresses

\* An instruction of a venue with the right addresses is one the program admits,
\* for the amount and in the direction of its request.
LEMMA BuiltAdmitted ==
    ASSUME NEW v, NEW request, NEW user, GenerateSwapInstructionV2(v, request, user).ok,
           NEW c
    PROVE  LET built == GenerateSwapInstructionV2(v, request, user).val
           IN  /\ Matches(built, request)
               /\ Addresses(v, c) => Admitted(c, built)
<1>. DEFINE built == GenerateSwapInstructionV2(v, request, user).val
            paying == IF v.token_info[1].is_token_2022 THEN "vault_22" ELSE "vault"
<1>1. /\ built.amount = request.amount
      /\ built.minimum_out = 0
      /\ IsBuy(request) => built.discriminator = "open_swap_buy"
      /\ IsSell(request) => built.discriminator = "open_swap_sell"
      /\ Needed(built.accounts, v)
  BY BuiltNames
<1>. HIDE DEF built
<1>2. Matches(built, request)
  BY <1>1 DEF Matches, Direction
<1>3. /\ \A key : Lists(built.accounts, Writable(key))
                    => Names(built, key) /\ MayWrite(built, key)
      /\ \A key : Lists(built.accounts, Readonly(key)) => Names(built, key)
  BY DEF Lists, Names, MayWrite, Writable, Readonly, Meta
<1>4. ASSUME Addresses(v, c) PROVE Admitted(c, built)
  <2>1. PayingVault(c) = paying
    BY <1>4 DEF Addresses, PayingVault
  <2>. HIDE DEF paying
  <2>2. /\ \A slot \in {"offer", "pair", "token_in", "token_out", paying} :
              Names(built, KeyOf(slot)) /\ MayWrite(built, KeyOf(slot))
        /\ \A slot \in {"state", "redemption", "excluded"} : Names(built, KeyOf(slot))
        /\ Names(built, v.state.main_offer)
    BY <1>1, <1>3 DEF Needed, paying
  <2>3. (Slots \ {"vault", "vault_22"}) \union {paying}
            = {"offer", "pair", "token_in", "token_out", paying}
                \union {"state", "redemption", "excluded"}
    BY DEF Slots
  <2>. QED
    BY <1>4, <2>1, <2>2, <2>3 DEF Admitted, Addresses
<1>. QED
  BY <1>2, <1>4 DEF built
-----------------------------------------------------------------------------
(***************************************************************************)
(* What happens on chain leaves its trace on every swap under way.         *)
(***************************************************************************)
\* What an event does to the accounts.
Moves(c, d, event, time) ==
    /\ event \in {"publish", "sell", "buy"}
    /\ event # "publish" => Alike(c, d)
    /\ event = "sell" => Drained(c, d, time)
    /\ event = "buy" => Filled(c, d, time)

\* The trace of an event on a swap leaves it as it is otherwise.
LEMMA TraceShaped ==
    ASSUME NEW swap, Shaped(swap), UnderWay(swap), NEW event
    PROVE  LET after == [swap EXCEPT !.since = @ \union {event}]
           IN  /\ Shaped(after) /\ UnderWay(after)
               /\ after.since = swap.since \union {event}
               /\ after.phase = swap.phase /\ after.request = swap.request
               /\ after.output = swap.output /\ after.in_step = swap.in_step
               /\ after.at = swap.at /\ after.agreed = swap.agreed
               /\ after.phase = "sent" => after.instruction = swap.instruction
<1>. DEFINE after == [swap EXCEPT !.since = @ \union {event}]
            Same == /\ Shaped(after) /\ UnderWay(after)
                    /\ after.since = swap.since \union {event}
                    /\ after.phase = swap.phase /\ after.request = swap.request
                    /\ after.output = swap.output /\ after.in_step = swap.in_step
                    /\ after.at = swap.at /\ after.agreed = swap.agreed
                    /\ after.phase = "sent" => after.instruction = swap.instruction
<1>1. swap \notin {Idle, Over}
  BY DEF UnderWay, Idle, Over
<1>2. CASE \E request \in Requests : \E output, inStep, at, agreed, since :
               swap = QuotedSwap(request, output, inStep, at, agreed, since)
  <2>1. PICK request \in Requests : \E output, inStep, at, agreed, since :
               swap = QuotedSwap(request, output, inStep, at, agreed, since)
    BY <1>2
  <2>2. PICK output, inStep, at, agreed, since :
               swap = QuotedSwap(request, output, inStep, at, agreed, since)
    BY <2>1
  <2>3. after = QuotedSwap(request, output, inStep, at, agreed, since \union {event})
    BY <2>2 DEF QuotedSwap
  <2>4. Shaped(after)
    <3>. HIDE DEF after
    <3>. QED
      BY <2>3 DEF Shaped
  <2>. HIDE DEF after
  <2>5. Same
    BY <2>2, <2>3, <2>4 DEF QuotedSwap, UnderWay
  <2>. QED
    BY <2>5 DEF after
<1>3. CASE \E request \in Requests : \E output, inStep, at, agreed, since, instruction :
               /\ Matches(instruction, request)
               /\ swap = SentSwap(request, output, inStep, at, agreed, since, instruction)
  <2>1. PICK request \in Requests :
               \E output, inStep, at, agreed, since, instruction :
               /\ Matches(instruction, request)
               /\ swap = SentSwap(request, output, inStep, at, agreed, since, instruction)
    BY <1>3
  <2>2. PICK output, inStep, at, agreed, since, instruction :
               /\ Matches(instruction, request)
               /\ swap = SentSwap(request, output, inStep, at, agreed, since, instruction)
    BY <2>1
  <2>3. after = SentSwap(request, output, inStep, at, agreed, since \union {event},
                         instruction)
    BY <2>2 DEF SentSwap
  <2>4. Shaped(after)
    <3>. HIDE DEF after
    <3>. QED
      BY <2>2, <2>3 DEF Shaped
  <2>. HIDE DEF after
  <2>5. Same
    BY <2>2, <2>3, <2>4 DEF SentSwap, UnderWay
  <2>. QED
    BY <2>5 DEF after
<1>. QED
  BY <1>1, <1>2, <1>3 DEF Shaped

\* One event after others.
LEMMA ReachedOn ==
    ASSUME NEW b, NEW c, NEW d, ChainTyped(b), ChainTyped(c), ChainTyped(d),
           NEW since, NEW prompt, NEW time, Reached(b, c, since, prompt, time),
           NEW event, Moves(c, d, event, time)
    PROVE  Reached(b, d, since \union {event}, prompt, time)
<1>1. since \union {event} # {}
  OBVIOUS
<1>2. "publish" \notin since \union {event} => Alike(b, d)
  BY AlikeChain DEF Reached, Moves
<1>3. prompt /\ since \union {event} \subseteq {"sell"} => Drained(b, d, time)
  <2>1. since \union {event} \subseteq {"sell"} => since \subseteq {"sell"} /\ event = "sell"
    OBVIOUS
  <2>. QED
    BY <2>1, LandedChain DEF Reached, Moves
<1>4. prompt /\ since \union {event} \subseteq {"buy"} => Filled(b, d, time)
  <2>1. since \union {event} \subseteq {"buy"} => since \subseteq {"buy"} /\ event = "buy"
    OBVIOUS
  <2>. QED
    BY <2>1, LandedChain DEF Reached, Moves
<1>. QED
  BY <1>1, <1>2, <1>3, <1>4 DEF Reached

\* Trades move no address.
LEMMA AddressesAlike ==
    ASSUME NEW c, NEW d, Alike(c, d)
    PROVE  /\ \A v : Addresses(v, c) => Addresses(v, d)
           /\ \A instruction : Admitted(c, instruction) => Admitted(d, instruction)
<1>1. /\ c["token_in"].data = d["token_in"].data
      /\ c["state"].data = d["state"].data
  BY DEF Alike
<1>2. PayingVault(c) = PayingVault(d)
  BY <1>1 DEF PayingVault
<1>. QED
  BY <1>1, <1>2 DEF Addresses, Admitted

\* What is true of a swap under way stays true of it with the trace of what has
\* happened.
LEMMA TraceKept ==
    ASSUME NEW swap, UnderWay(swap), NEW v, NEW c, NEW d, ChainTyped(c), ChainTyped(d),
           NEW time, Kept(swap, v, c, time), NEW event, Moves(c, d, event, time)
    PROVE  Kept([swap EXCEPT !.since = @ \union {event}], v, d, time)
<1>. DEFINE after == [swap EXCEPT !.since = @ \union {event}]
<1>1. /\ Shaped(after) /\ UnderWay(after)
      /\ after.since = swap.since \union {event}
      /\ after.phase = swap.phase /\ after.request = swap.request
      /\ after.output = swap.output /\ after.in_step = swap.in_step
      /\ after.at = swap.at /\ after.agreed = swap.agreed
      /\ after.phase = "sent" => after.instruction = swap.instruction
  BY TraceShaped DEF Kept
<1>. HIDE DEF after
<1>2. SUFFICES ASSUME after.in_step
               PROVE  /\ after.output > 0
                      /\ after.at \in MinTime..MaxTime
                      /\ after.agreed => after.at <= time
                      /\ QuotedFrom(after, d, time)
                      /\ "publish" \notin after.since =>
                            /\ Addresses(v, d)
                            /\ after.phase = "sent" => Admitted(d, after.instruction)
  BY <1>1 DEF Kept, after
<1>3. /\ after.output > 0
      /\ after.at \in MinTime..MaxTime
      /\ after.agreed => after.at <= time
      /\ QuotedFrom(swap, c, time)
  BY <1>1, <1>2 DEF Kept
<1>4. QuotedFrom(after, d, time)
  <2>1. PICK b, w : /\ ChainTyped(b)
                    /\ CopyOf(w, b)
                    /\ swap.output = Output(Quote(w, swap.request, swap.at))
                    /\ Reached(b, c, swap.since, swap.agreed /\ swap.at = time, time)
    BY <1>3 DEF QuotedFrom
  <2>2. Reached(b, d, swap.since \union {event}, swap.agreed /\ swap.at = time, time)
    BY <2>1, ReachedOn
  <2>3. Reached(b, d, after.since, after.agreed /\ after.at = time, time)
    BY <1>1, <2>2
  <2>4. after.output = Output(Quote(w, after.request, after.at))
    BY <1>1, <2>1
  <2>. QED
    BY <2>1, <2>3, <2>4 DEF QuotedFrom
<1>5. ASSUME "publish" \notin after.since
      PROVE  /\ Addresses(v, d)
             /\ after.phase = "sent" => Admitted(d, after.instruction)
  <2>1. "publish" \notin swap.since /\ Alike(c, d)
    BY <1>1, <1>5 DEF Moves
  <2>2. /\ Addresses(v, c)
        /\ swap.phase = "sent" => Admitted(c, swap.instruction)
    BY <1>1, <1>2, <2>1 DEF Kept
  <2>. QED
    BY <1>1, <2>1, <2>2, AddressesAlike
<1>. QED
  BY <1>3, <1>4, <1>5

\* All swaps after an event.
LEMMA AfterKept ==
    ASSUME DOMAIN swaps = Swaps, NEW v, NEW c, NEW d, ChainTyped(c), ChainTyped(d),
           NEW time, \A s \in Swaps : Kept(swaps[s], v, c, time),
           NEW event, Moves(c, d, event, time)
    PROVE  /\ DOMAIN After(event) = Swaps
           /\ \A s \in Swaps : Kept(After(event)[s], v, d, time)
<1> SUFFICES ASSUME NEW s \in Swaps PROVE Kept(After(event)[s], v, d, time)
  BY DEF After
<1>1. CASE UnderWay(swaps[s])
  <2>1. Kept([swaps[s] EXCEPT !.since = @ \union {event}], v, d, time)
    BY <1>1, TraceKept
  <2>2. After(event)[s] = [swaps[s] EXCEPT !.since = @ \union {event}]
    BY <1>1 DEF After
  <2>. QED
    BY <2>1, <2>2
<1>2. CASE ~UnderWay(swaps[s])
  <2>1. After(event)[s] = swaps[s]
    BY <1>2 DEF After
  <2>. QED
    BY <1>2, <2>1 DEF Kept
<1>. QED
  BY <1>1, <1>2
-----------------------------------------------------------------------------
(***************************************************************************)
(* The steps.                                                              *)
(***************************************************************************)
\* The invariant holds of the first chain and a venue just updated from it.
LEMMA RouterInit == Init => RouterInv
<1> SUFFICES ASSUME Init PROVE RouterInv
  OBVIOUS
<1>1. ChainTyped(chain)
  BY RouterAssumption DEF Init, ChainTyped
<1>2. venue.initialized /\ venue.token_info \in TokenInfos \X TokenInfos
  BY <1>1, UpdatedInitialized DEF Init
<1>3. writes \in 0..MaxWrites /\ {now, chain_now} \subseteq MinTime..MaxTime
  BY Bounds DEF Init
<1>4. DOMAIN swaps = Swaps /\ \A s \in Swaps : swaps[s] = Idle
  BY DEF Init
<1>5. \A s \in Swaps : Kept(swaps[s], venue, chain, chain_now)
  BY <1>4, RestingKept
<1>. QED
  BY <1>1, <1>2, <1>3, <1>4, <1>5 DEF RouterInv, TypeOK, ChainTyped

\* A publication puts content of its kind into an account.
LEMMA PublishTyped ==
    ASSUME ChainTyped(chain), NEW slot \in Slots, Publish(slot)
    PROVE  ChainTyped(chain')
<1>1. PICK data \in Contents[slot] : chain' = [chain EXCEPT ![slot].data = data]
  BY DEF Publish
<1>2. data \in DataOf(slot)
  BY RouterAssumption
<1>3. slot = "pair" => data.epoch_duration_seconds > 0
  BY RouterAssumption
<1>. QED
  BY <1>1, <1>2, <1>3, PutTyped

\* A buy is paid a u64.
LEMMA BoughtTyped ==
    ASSUME NEW c, NEW vector, NEW amount, NEW time,
           Bought(c, vector, amount, time).ok
    PROVE  Bought(c, vector, amount, time).val \in U64
<1>. DEFINE price == StepPrice(vector, time)
            fee == c["offer"].data.fee_basis_points_permissionless
            in == c["token_in"].data.decimals
            out == c["token_out"].data.decimals
            checked == ConvertError(price.val, in, out)
            net == DeductFee(amount, fee)
            unit == TenTo[out + PriceDecimals]
            paid == Narrow((net.val * unit) \div (price.val * TenTo[in]))
            bought == BuyFromVector(vector, time, amount, fee, in, out)
<1>1. Bought(c, vector, amount, time) = bought
  BY DEF Bought
<1>2. bought.ok
  BY <1>1
<1>3. bought = IF ~price.ok THEN price ELSE IF ~checked.ok THEN checked
               ELSE IF ~net.ok THEN net ELSE IF net.val = 0 THEN Ok(0)
               ELSE IF ~MulFits(net.val, unit) THEN Overflow ELSE paid
  BY Zenon DEF BuyFromVector, BuyAmountOut
<1>4. ~Overflow.ok /\ Ok(0).val = 0
  BY DEF Overflow, Err, Ok
<1>5. paid.ok => paid.val \in U64
  BY NarrowTyped
<1>. HIDE DEF price, checked, net, unit, paid, bought
<1>. QED
  BY <1>1, <1>2, <1>3, <1>4, <1>5, Naturals64

\* An instruction sent is the one its request was built into.
LEMMA SentMatches ==
    ASSUME NEW swap, Shaped(swap), swap.phase = "sent"
    PROVE  swap.request \in Requests /\ Matches(swap.instruction, swap.request)
<1>1. swap \notin {Idle, Over}
  BY DEF Idle, Over
<1>2. \A request, output, inStep, at, agreed, since :
            swap # QuotedSwap(request, output, inStep, at, agreed, since)
  BY DEF QuotedSwap
<1>3. PICK request \in Requests : \E output, inStep, at, agreed, since, instruction :
            /\ Matches(instruction, request)
            /\ swap = SentSwap(request, output, inStep, at, agreed, since, instruction)
  BY <1>1, <1>2 DEF Shaped
<1>4. PICK output, inStep, at, agreed, since, instruction :
            /\ Matches(instruction, request)
            /\ swap = SentSwap(request, output, inStep, at, agreed, since, instruction)
  BY <1>3
<1>5. swap.request = request /\ swap.instruction = instruction
  BY <1>4 DEF SentSwap
<1>. QED
  BY <1>4, <1>5

\* A buy that lands fills the accounts.
LEMMA BuyMoves ==
    ASSUME TypeOK, ChainTyped(chain), NEW s \in Swaps, Shaped(swaps[s]), LandBuy(s)
    PROVE  ChainTyped(chain') /\ Moves(chain, chain', "buy", chain_now)
<1>. DEFINE instruction == swaps[s].instruction
            vector == FindActiveVector(chain["offer"].data.vectors, chain_now)
            executed == Execution(chain, instruction, chain_now)
<1>1. chain_now \in U64 \ {0}
  BY Bounds DEF TypeOK
<1>2. PICK reached \in {0, instruction.amount} :
          /\ executed.codes = {}
          /\ Direction(instruction) = "buy"
          /\ chain' = AfterBuying(chain, instruction.amount, executed.paid,
                                  chain[PayingVault(chain)].data + reached, chain_now)
          /\ Fits(chain', {"pair", "token_out", PayingVault(chain)})
  BY DEF LandBuy
<1>3. instruction.amount \in U64
  <2>1. \E request \in Requests : Matches(instruction, request)
    BY SentMatches DEF LandBuy
  <2>. QED
    BY <2>1, RouterAssumption DEF Matches
<1>4. /\ Paid(chain, instruction, chain_now).ok
      /\ executed.paid = Paid(chain, instruction, chain_now).val
  BY <1>2, ExecutedOk
<1>5. Paid(chain, instruction, chain_now)
        = Bought(chain, vector.val, instruction.amount, chain_now)
  <2>1. vector.ok
    BY <1>4, Zenon DEF Paid
  <2>. HIDE DEF vector
  <2>. QED
    BY <1>2, <2>1, Zenon DEF Paid, vector
<1>. HIDE DEF instruction, vector, executed
<1>6. executed.paid \in U64
  BY <1>4, <1>5, BoughtTyped
<1>7. /\ instruction.amount \in Nat /\ executed.paid \in Nat /\ reached \in Nat
      /\ Vault(chain) \in Nat
  BY <1>2, <1>3, <1>6, Naturals64, MarketTyped
<1>8. ChainTyped(chain')
  BY <1>1, <1>2, BuyingTyped
<1>9. Filled(chain, chain', chain_now)
  <2>1. /\ Vault(chain) + reached \in Nat
        /\ Vault(chain) <= Vault(chain) + reached
    BY <1>7
  <2>2. chain' = AfterBuying(chain, instruction.amount, executed.paid,
                             Vault(chain) + reached, chain_now)
    BY <1>2 DEF Vault
  <2>. QED
    BY <1>1, <1>7, <2>1, <2>2, BuyingFills
<1>. QED
  BY <1>8, <1>9 DEF Moves, Filled

\* What a sell that pays is worth.
LEMMA WorthTyped ==
    ASSUME NEW c, ChainTyped(c), NEW amount, NEW time \in U64 \ {0},
           Sold(c, FindActiveVector(c["offer"].data.vectors, time).val, amount, time).ok
    PROVE  Worth(c, amount, time) \in Nat
<1>. DEFINE vector == FindActiveVector(c["offer"].data.vectors, time).val
            in == c["token_out"].data.decimals
            out == c["token_in"].data.decimals
            fee == c["redemption"].data.fee_basis_points_prop_amm_sell
            minFee == Pair(c).minimum_sell_haircut_onyc
            price == StepPrice(vector, time)
            raw == RawAmountOut(amount, price.val, fee, minFee, in, out)
<1>1. Standing(c, vector, amount, time).ok
  BY SoldAsItStands
<1>2. in \in Nat /\ out \in Nat
  BY ContentTyped DEF TokenInfos
<1>3. Worth(c, amount, time) = raw.val
  BY DEF Worth, Pair
<1>. HIDE DEF vector, in, out, fee, minFee
<1>4. raw.ok
  BY <1>1, Zenon DEF Standing, SellFromVector, SellAmountOut, in, out, fee, minFee
<1>5. raw.val \in U64
  <2>. HIDE DEF price
  <2>. QED
    BY <1>2, <1>4, RawTyped
<1>. QED
  BY <1>3, <1>5, Naturals64

\* A sell that lands drains them.
LEMMA SellMoves ==
    ASSUME TypeOK, ChainTyped(chain), NEW s \in Swaps, LandSell(s)
    PROVE  ChainTyped(chain') /\ Moves(chain, chain', "sell", chain_now)
<1>. DEFINE instruction == swaps[s].instruction
            vector == FindActiveVector(chain["offer"].data.vectors, chain_now)
            executed == Execution(chain, instruction, chain_now)
            worth == Worth(chain, instruction.amount, chain_now)
<1>1. chain_now \in U64 \ {0}
  BY Bounds DEF TypeOK
<1>2. /\ executed.codes = {}
      /\ Direction(instruction) = "sell"
      /\ chain' = AfterSelling(chain, worth, executed.paid, chain_now)
      /\ Fits(chain', {"pair"})
  BY DEF LandSell
<1>3. /\ Paid(chain, instruction, chain_now).ok
      /\ executed.paid = Paid(chain, instruction, chain_now).val
  BY <1>2, ExecutedOk
<1>4. Paid(chain, instruction, chain_now)
        = Sold(chain, vector.val, instruction.amount, chain_now)
  <2>1. vector.ok
    BY <1>3, Zenon DEF Paid
  <2>2. Direction(instruction) # "buy"
    BY <1>2
  <2>. HIDE DEF vector
  <2>. QED
    BY <2>1, <2>2, Zenon DEF Paid, vector
<1>5. executed.paid \in 0..Vault(chain)
  <2>. HIDE DEF executed, vector, instruction
  <2>. QED
    BY <1>1, <1>3, <1>4, SoldWithinVault DEF Vault
<1>6. worth \in Nat
  <2>. HIDE DEF instruction
  <2>. QED
    BY <1>1, <1>3, <1>4, WorthTyped
<1>. HIDE DEF executed, worth, instruction
<1>7. ChainTyped(chain')
  BY <1>1, <1>2, <1>5, SellingTyped DEF Vault
<1>8. Drained(chain, chain', chain_now)
  BY <1>1, <1>2, <1>5, <1>6, SellingDrains
<1>. QED
  BY <1>7, <1>8 DEF Moves, Drained
\* A swap just quoted.
LEMMA AskedKept ==
    ASSUME RouterInv, NEW request \in Requests, NEW output, output > 0,
           output = Output(Quote(venue, request, now))
    PROVE  Kept(Quoted(request, output, CopyOf(venue, chain)), venue, chain, chain_now)
<1>. DEFINE agreed == now = chain_now
            inStep == CopyOf(venue, chain)
            swap == QuotedSwap(request, output, inStep, now, agreed, {})
<1>1. Quoted(request, output, inStep) = swap
  BY DEF Quoted, QuotedSwap
<1>2. /\ now \in MinTime..MaxTime /\ chain_now \in MinTime..MaxTime
      /\ ChainTyped(chain)
  BY DEF RouterInv, TypeOK
<1>3. Shaped(swap)
  <2>. HIDE DEF inStep, agreed
  <2>. QED
    BY DEF Shaped
<1>4. /\ swap.phase = "quoted" /\ swap.request = request /\ swap.output = output
      /\ swap.in_step = inStep /\ swap.at = now /\ swap.agreed = agreed
      /\ swap.since = {}
  BY DEF QuotedSwap
<1>. HIDE DEF swap
<1>5. ASSUME inStep PROVE QuotedFrom(swap, chain, chain_now)
  <2>1. Reached(chain, chain, {}, swap.agreed /\ swap.at = chain_now, chain_now)
    BY <1>2, Bounds, AlikeChain, NothingLanded DEF Reached
  <2>2. CopyOf(venue, chain)
    BY <1>5
  <2>. QED
    BY <1>2, <1>4, <2>1, <2>2 DEF QuotedFrom
<1>6. ASSUME inStep PROVE Addresses(venue, chain)
  BY <1>6 DEF CopyOf, Addresses
<1>7. agreed => now <= chain_now
  BY <1>2, Bounds
<1>. HIDE DEF inStep, agreed
<1>8. Kept(swap, venue, chain, chain_now)
  BY <1>2, <1>3, <1>4, <1>5, <1>6, <1>7 DEF Kept
<1>. QED
  BY <1>1, <1>8 DEF inStep

\* A swap just sent.
LEMMA SentKept ==
    ASSUME NEW swap, NEW v, NEW c, NEW time, Kept(swap, v, c, time), swap.phase = "quoted",
           GenerateSwapInstructionV2(v, swap.request, "user").ok
    PROVE  Kept(Dispatched(swap, GenerateSwapInstructionV2(v, swap.request, "user").val),
                v, c, time)
<1>. DEFINE built == GenerateSwapInstructionV2(v, swap.request, "user").val
            after == Dispatched(swap, built)
<1>1. PICK request \in Requests : \E output, inStep, at, agreed, since :
            swap = QuotedSwap(request, output, inStep, at, agreed, since)
  BY DEF Kept, Shaped, Idle, Over, SentSwap
<1>2. PICK output, inStep, at, agreed, since :
            swap = QuotedSwap(request, output, inStep, at, agreed, since)
  BY <1>1
<1>3. /\ swap.request = request /\ swap.output = output /\ swap.in_step = inStep
      /\ swap.at = at /\ swap.agreed = agreed /\ swap.since = since
      /\ UnderWay(swap)
  BY <1>2 DEF QuotedSwap, UnderWay
<1>4. /\ Matches(built, request)
      /\ Addresses(v, c) => Admitted(c, built)
  BY <1>3, BuiltAdmitted
<1>. HIDE DEF built
<1>5. after = SentSwap(request, output, inStep, at, agreed, since, built)
  BY <1>3 DEF Dispatched, SentSwap
<1>. HIDE DEF after
<1>6. Shaped(after)
  BY <1>4, <1>5 DEF Shaped
<1>7. /\ after.request = swap.request /\ after.output = swap.output
      /\ after.in_step = swap.in_step /\ after.at = swap.at
      /\ after.agreed = swap.agreed /\ after.since = swap.since
      /\ after.instruction = built
  BY <1>3, <1>5 DEF SentSwap
<1>8. QuotedFrom(swap, c, time) => QuotedFrom(after, c, time)
  BY <1>7 DEF QuotedFrom
<1>9. Kept(after, v, c, time)
  BY <1>3, <1>4, <1>6, <1>7, <1>8 DEF Kept
<1>. QED
  BY <1>9 DEF after, built

\* An update gives the venue the addresses of the accounts, whatever it had.
LEMMA UpdateKept ==
    ASSUME NEW swap, NEW v, NEW c, ChainTyped(c), NEW time, Kept(swap, v, c, time)
    PROVE  Kept(swap, Updated(v, c), c, time)
BY UpdatedInitialized DEF Kept

\* As the chain's clock goes on, a swap quoted by the same clock is no longer
\* one of its second.
LEMMA LaterKept ==
    ASSUME NEW swap, NEW v, NEW c, NEW time \in Nat, Kept(swap, v, c, time)
    PROVE  Kept(swap, v, c, time + 1)
<1> SUFFICES ASSUME UnderWay(swap), swap.in_step
             PROVE  /\ swap.agreed => swap.at <= time + 1
                    /\ QuotedFrom(swap, c, time + 1)
  BY DEF Kept
<1>1. /\ swap.at \in MinTime..MaxTime
      /\ swap.agreed => swap.at <= time
      /\ QuotedFrom(swap, c, time)
  BY DEF Kept
<1>2. /\ swap.agreed => swap.at <= time + 1
      /\ ~(swap.agreed /\ swap.at = time + 1)
  BY <1>1, Bounds
<1>3. PICK b, v1 : /\ ChainTyped(b)
                   /\ CopyOf(v1, b)
                   /\ swap.output = Output(Quote(v1, swap.request, swap.at))
                   /\ Reached(b, c, swap.since, swap.agreed /\ swap.at = time, time)
  BY <1>1 DEF QuotedFrom
<1>4. Reached(b, c, swap.since, swap.agreed /\ swap.at = time + 1, time + 1)
  BY <1>2, <1>3 DEF Reached
<1>. QED
  BY <1>2, <1>3, <1>4 DEF QuotedFrom

\* The invariant survives every step.
LEMMA RouterStep == RouterInv /\ [Next]_vars => RouterInv'
<1> SUFFICES ASSUME RouterInv, [Next]_vars PROVE RouterInv'
  OBVIOUS
<1>1. /\ TypeOK /\ ChainTyped(chain) /\ DOMAIN swaps = Swaps
      /\ \A s \in Swaps : Kept(swaps[s], venue, chain, chain_now)
      /\ venue.initialized /\ venue.token_info \in TokenInfos \X TokenInfos
      /\ writes \in 0..MaxWrites /\ {now, chain_now} \subseteq MinTime..MaxTime
  BY DEF RouterInv, TypeOK
<1>2. ASSUME ChainTyped(chain'), DOMAIN swaps' = Swaps,
             \A s \in Swaps : Kept(swaps'[s], venue', chain', chain_now'),
             venue'.initialized, venue'.token_info \in TokenInfos \X TokenInfos,
             writes' \in 0..MaxWrites, {now', chain_now'} \subseteq MinTime..MaxTime
      PROVE  RouterInv'
  BY <1>2 DEF RouterInv, TypeOK, ChainTyped
<1>3. ASSUME NEW slot \in Slots, Publish(slot) PROVE RouterInv'
  <2>1. ChainTyped(chain')
    BY <1>1, <1>3, PublishTyped
  <2>2. Moves(chain, chain', "publish", chain_now)
    BY DEF Moves
  <2>3. swaps' = After("publish") /\ UNCHANGED <<venue, now, chain_now>>
    BY <1>3 DEF Publish
  <2>4. /\ DOMAIN swaps' = Swaps
        /\ \A s \in Swaps : Kept(swaps'[s], venue, chain', chain_now)
    BY <1>1, <2>1, <2>2, <2>3, AfterKept
  <2>5. writes' \in 0..MaxWrites
    BY <1>1, <1>3, RouterAssumption DEF Publish
  <2>. QED
    BY <1>1, <1>2, <2>1, <2>3, <2>4, <2>5
<1>4. ASSUME NEW s \in Swaps, NEW request \in Requests, Ask(s, request)
      PROVE  RouterInv'
  <2>. DEFINE output == Output(Quote(venue, request, now))
              swap == Quoted(request, output, CopyOf(venue, chain))
  <2>1. /\ output > 0
        /\ swaps' = [swaps EXCEPT ![s] = swap]
        /\ UNCHANGED <<chain, venue, writes, now, chain_now>>
    BY <1>4 DEF Ask
  <2>2. Kept(swap, venue, chain, chain_now)
    BY <2>1, AskedKept
  <2>. HIDE DEF swap
  <2>3. /\ DOMAIN swaps' = Swaps
        /\ \A t \in Swaps : Kept(swaps'[t], venue, chain, chain_now)
    BY <1>1, <2>1, <2>2, PutSwap
  <2>. QED
    BY <1>1, <1>2, <2>1, <2>3
<1>5. ASSUME NEW s \in Swaps, Send(s) PROVE RouterInv'
  <2>. DEFINE built == GenerateSwapInstructionV2(venue, swaps[s].request, "user")
              swap == Dispatched(swaps[s], built.val)
  <2>1. /\ swaps[s].phase = "quoted"
        /\ built.ok
        /\ swaps' = [swaps EXCEPT ![s] = swap]
        /\ UNCHANGED <<chain, venue, writes, now, chain_now>>
    BY <1>5 DEF Send
  <2>2. Kept(swap, venue, chain, chain_now)
    BY <1>1, <2>1, SentKept
  <2>. HIDE DEF swap
  <2>3. /\ DOMAIN swaps' = Swaps
        /\ \A t \in Swaps : Kept(swaps'[t], venue, chain, chain_now)
    BY <1>1, <2>1, <2>2, PutSwap
  <2>. QED
    BY <1>1, <1>2, <2>1, <2>3
<1>6. ASSUME NEW s \in Swaps, Lose(s) PROVE RouterInv'
  <2>1. /\ DOMAIN swaps' = Swaps
        /\ \A t \in Swaps : Kept(swaps'[t], venue, chain, chain_now)
    BY <1>1, <1>6, RestingKept, PutSwap DEF Lose
  <2>2. UNCHANGED <<chain, venue, writes, now, chain_now>>
    BY <1>6 DEF Lose
  <2>. QED
    BY <1>1, <1>2, <2>1, <2>2
<1>7. ASSUME NEW s \in Swaps, LandBuy(s) \/ LandSell(s) PROVE RouterInv'
  <2>1. PICK event \in {"buy", "sell"} :
              /\ swaps' = [After(event) EXCEPT ![s] = Over]
              /\ ChainTyped(chain') /\ Moves(chain, chain', event, chain_now)
    <3>1. Shaped(swaps[s])
      BY <1>1 DEF Kept
    <3>2. CASE LandBuy(s)
      BY <1>1, <3>1, <3>2, BuyMoves DEF LandBuy
    <3>3. CASE LandSell(s)
      BY <1>1, <3>3, SellMoves DEF LandSell
    <3>. QED
      BY <1>7, <3>2, <3>3
  <2>2. /\ DOMAIN After(event) = Swaps
        /\ \A t \in Swaps : Kept(After(event)[t], venue, chain', chain_now)
    BY <1>1, <2>1, AfterKept
  <2>3. /\ DOMAIN swaps' = Swaps
        /\ \A t \in Swaps : Kept(swaps'[t], venue, chain', chain_now)
    BY <2>1, <2>2, RestingKept, PutSwap
  <2>4. UNCHANGED <<venue, writes, now, chain_now>>
    BY <1>7 DEF LandBuy, LandSell
  <2>. QED
    BY <1>1, <1>2, <2>1, <2>3, <2>4
<1>8. CASE UpdateState
  <2>1. venue' = Updated(venue, chain) /\ UNCHANGED <<chain, swaps, writes, now, chain_now>>
    BY <1>8 DEF UpdateState
  <2>2. \A s \in Swaps : Kept(swaps[s], Updated(venue, chain), chain, chain_now)
    BY <1>1, UpdateKept
  <2>. QED
    BY <1>1, <1>2, <2>1, <2>2, UpdatedInitialized
<1>9. CASE Tick
  <2>1. now' \in MinTime..MaxTime /\ UNCHANGED <<chain, venue, swaps, writes, chain_now>>
    BY <1>1, <1>9, Bounds DEF Tick, Lesser
  <2>. QED
    BY <1>1, <1>2, <2>1
<1>10. CASE ChainTick
  <2>1. /\ chain_now' \in MinTime..MaxTime /\ chain_now' = chain_now + 1
        /\ UNCHANGED <<chain, venue, swaps, writes, now>>
    BY <1>1, <1>10, Bounds DEF ChainTick, Lesser
  <2>2. chain_now \in Nat
    BY <1>1, Bounds
  <2>3. \A s \in Swaps : Kept(swaps[s], venue, chain, chain_now + 1)
    BY <1>1, <2>2, LaterKept
  <2>. QED
    BY <1>1, <1>2, <2>1, <2>3
<1>11. CASE UNCHANGED vars
  BY <1>1, <1>2, <1>11 DEF vars
<1>. QED
  BY <1>3, <1>4, <1>5, <1>6, <1>7, <1>8, <1>9, <1>10, <1>11 DEF Next

\* The invariant in every reachable state.
THEOREM RouterInvariant == Spec => []RouterInv
BY RouterInit, RouterStep, PTL DEF Spec

\* The accounts stay in their widths and no sell overdraws the vault.
THEOREM NeverOverdrawn == Spec => []TypeOK
<1>1. RouterInv => TypeOK
  BY DEF RouterInv
<1>. QED
  BY <1>1, RouterInvariant, PTL
-----------------------------------------------------------------------------
(***************************************************************************)
(* What comes of a swap, from the accounts it was quoted from.             *)
(***************************************************************************)
\* Accounts that gave a swap its quote.
Source(b, swap) ==
    /\ ChainTyped(b)
    /\ FindActiveVector(b["offer"].data.vectors, swap.at).ok
    /\ IsBuy(swap.request) \/ IsSell(swap.request)
    /\ Given(b, swap.request, swap.at).ok
    /\ Given(b, swap.request, swap.at).val = swap.output
    /\ ~b["state"].data.is_killed
    /\ ~b["offer"].data.disabled
    /\ IsBuy(swap.request) => ~BeyondMaxSupply(b, swap.output)
    /\ IsSell(swap.request) => Pair(b).enabled

\* What the invariant says of a swap sent that no publication has overtaken.
Told(swap) ==
    /\ Matches(swap.instruction, swap.request)
    /\ swap.output \in U64 /\ swap.output > 0
    /\ swap.at \in U64 \ {0} /\ chain_now \in U64 \ {0}
    /\ ChainTyped(chain)
    /\ Admitted(chain, swap.instruction)
    /\ \E b : /\ Source(b, swap)
              /\ Reached(b, chain, swap.since, swap.agreed /\ swap.at = chain_now,
                         chain_now)

\* What is given is a u64.
LEMMA GivenTyped ==
    ASSUME NEW c, ChainTyped(c), NEW request, NEW time \in U64, Given(c, request, time).ok
    PROVE  Given(c, request, time).val \in U64
<1>. DEFINE vector == FindActiveVector(c["offer"].data.vectors, time).val
<1>1. CASE IsBuy(request)
  <2>1. Given(c, request, time) = Bought(c, vector, request.amount, time)
    BY <1>1 DEF Given
  <2>. HIDE DEF vector
  <2>. QED
    BY <2>1, BoughtTyped
<1>2. CASE ~IsBuy(request)
  <2>1. Given(c, request, time) = Sold(c, vector, request.amount, time)
    BY <1>2 DEF Given
  <2>. HIDE DEF vector
  <2>2. /\ Given(c, request, time).val \in 0..Vault(c)
        /\ Vault(c) \in U64
    BY <2>1, SoldWithinVault, MarketTyped DEF Vault
  <2>. QED
    BY <2>2, Naturals64 DEF U64
<1>. QED
  BY <1>1, <1>2

\* Every swap sent in step and overtaken by trades alone has such a source.
LEMMA FateTold ==
    ASSUME RouterInv, NEW events, "publish" \notin events, NEW s \in Overtaken(events)
    PROVE  Told(swaps[s]) /\ swaps[s].since \subseteq events
<1>. DEFINE swap == swaps[s]
<1>1. /\ s \in Swaps /\ swap.phase = "sent" /\ swap.in_step
      /\ swap.since \subseteq events
  BY DEF Overtaken, Sent
<1>2. Kept(swap, venue, chain, chain_now) /\ ChainTyped(chain)
  BY <1>1 DEF RouterInv
<1>3. chain_now \in U64 \ {0}
  BY Bounds DEF RouterInv, TypeOK
<1>. HIDE DEF swap
<1>4. "publish" \notin swap.since
  BY <1>1
<1>5. UnderWay(swap) /\ Shaped(swap)
  BY <1>1, <1>2 DEF UnderWay, Kept
<1>6. Matches(swap.instruction, swap.request)
  BY <1>1, <1>5, SentMatches
<1>7. /\ swap.output > 0
      /\ swap.at \in MinTime..MaxTime
      /\ QuotedFrom(swap, chain, chain_now)
      /\ Admitted(chain, swap.instruction)
  BY <1>1, <1>2, <1>4, <1>5 DEF Kept
<1>8. PICK b, v : /\ ChainTyped(b)
                  /\ CopyOf(v, b)
                  /\ swap.output = Output(Quote(v, swap.request, swap.at))
                  /\ Reached(b, chain, swap.since, swap.agreed /\ swap.at = chain_now,
                             chain_now)
  BY <1>7 DEF QuotedFrom
<1>9. swap.at \in U64 \ {0}
  BY <1>7, Bounds
<1>10. Source(b, swap)
  BY <1>7, <1>8, <1>9, QuoteGiven DEF Source
<1>11. swap.output \in U64
  BY <1>9, <1>10, GivenTyped DEF Source
<1>12. Told(swap)
  BY <1>2, <1>3, <1>6, <1>7, <1>8, <1>9, <1>10, <1>11 DEF Told
<1>. QED
  BY <1>1, <1>12 DEF swap

\* What is paid where a vector applies is what is given.
LEMMA ToldPaid ==
    ASSUME NEW swap, Told(swap), NEW b, Source(b, swap),
           FindActiveVector(chain["offer"].data.vectors, chain_now).ok
    PROVE  Paid(chain, swap.instruction, chain_now)
             = Given(chain, swap.request, chain_now)
BY PaidGiven DEF Told, Source

\* What pays was given something.
LEMMA PayingPaid ==
    ASSUME NEW instruction, Pays(Execution(chain, instruction, chain_now))
    PROVE  LET paid == Paid(chain, instruction, chain_now)
           IN  /\ paid.ok
               /\ Execution(chain, instruction, chain_now).paid = paid.val
               /\ FindActiveVector(chain["offer"].data.vectors, chain_now).ok
<1>1. /\ Paid(chain, instruction, chain_now).ok
      /\ Execution(chain, instruction, chain_now).paid
           = Paid(chain, instruction, chain_now).val
  BY ExecutedOk DEF Pays
<1>2. FindActiveVector(chain["offer"].data.vectors, chain_now).ok
  BY <1>1, Zenon DEF Paid
<1>. QED
  BY <1>1, <1>2

\* What the program may still refuse once the quote has looked at everything.
LEMMA LeftToRefuse ==
    ASSUME NEW c, NEW instruction, NEW paid,
           ~c["state"].data.is_killed, ~c["offer"].data.disabled,
           Admitted(c, instruction),
           Direction(instruction) = "sell" => c["pair"].data.enabled,
           paid.ok, ~(paid.val < instruction.minimum_out),
           Direction(instruction) # "sell" => ~BeyondMaxSupply(c, paid.val)
    PROVE  Classes(Judged(c, instruction, paid)) \subseteq Unforeseen
<1>1. Refusals(c, instruction, paid) \subseteq {6025, 6113}
  BY DEF Refusals, Unclassified
<1>2. Judged(c, instruction, paid).codes = Refusals(c, instruction, paid)
  BY DEF Judged
<1>3. Classify(6025) \in Unforeseen /\ Classify(6113) \in Unforeseen
  BY DEF Classify, Unforeseen
<1>. QED
  BY <1>1, <1>2, <1>3 DEF Classes

\* A swap that nothing has overtaken pays exactly its quote.
THEOREM PaysAsQuotedAlways == Spec => []PaysAsQuoted
<1>1. RouterInv => PaysAsQuoted
  <2> SUFFICES ASSUME RouterInv, NEW s \in Timely(Overtaken({})),
                      Pays(Execution(chain, swaps[s].instruction, chain_now))
               PROVE  Execution(chain, swaps[s].instruction, chain_now).paid
                        = swaps[s].output
    BY DEF PaysAsQuoted, Fates
  <2>1. s \in Overtaken({}) /\ swaps[s].at = chain_now
    BY DEF Timely
  <2>2. Told(swaps[s]) /\ swaps[s].since = {}
    BY <2>1, FateTold
  <2>3. Source(chain, swaps[s])
    BY <2>2 DEF Told, Reached
  <2>. QED
    BY <2>1, <2>2, <2>3, PayingPaid, ToldPaid DEF Source
<1>. QED
  BY <1>1, RouterInvariant, PTL

\* Nothing the quote looks at stands in such a swap's way.
THEOREM RefusedOnlyUnforeseenAlways == Spec => []RefusedOnlyUnforeseen
<1>1. RouterInv => RefusedOnlyUnforeseen
  <2> SUFFICES ASSUME RouterInv, NEW s \in Timely(Overtaken({}))
               PROVE  Classes(Execution(chain, swaps[s].instruction, chain_now))
                        \subseteq Unforeseen
    BY DEF RefusedOnlyUnforeseen, Fates
  <2>. DEFINE swap == swaps[s]
              paid == Paid(chain, swap.instruction, chain_now)
  <2>1. s \in Overtaken({}) /\ swap.at = chain_now
    BY DEF Timely
  <2>2. Told(swap) /\ swap.since = {}
    BY <2>1, FateTold
  <2>. HIDE DEF swap
  <2>3. Source(chain, swap)
    BY <2>2 DEF Told, Reached
  <2>4. paid = Given(chain, swap.request, chain_now)
    BY <2>1, <2>2, <2>3, ToldPaid DEF Source
  <2>5. /\ paid.ok /\ paid.val = swap.output
        /\ swap.output \in Nat
        /\ swap.instruction.minimum_out = 0
        /\ IsBuy(swap.request) \/ IsSell(swap.request)
        /\ IsBuy(swap.request) => Direction(swap.instruction) = "buy"
        /\ IsSell(swap.request) => Direction(swap.instruction) = "sell"
        /\ IsBuy(swap.request) => ~BeyondMaxSupply(chain, paid.val)
        /\ IsSell(swap.request) => chain["pair"].data.enabled
    BY <2>1, <2>2, <2>3, <2>4, Naturals64 DEF Source, Told, Matches, Pair
  <2>. HIDE DEF paid
  <2>6. Classes(Judged(chain, swap.instruction, paid)) \subseteq Unforeseen
    BY <2>2, <2>3, <2>5, LeftToRefuse DEF Source, Told
  <2>. QED
    BY <2>6 DEF Execution, paid, swap
<1>. QED
  BY <1>1, RouterInvariant, PTL
\* A swap overtaken by sells of its second pays no more than its quote.
THEOREM OvertakenBySellsAlways == Spec => []OvertakenBySells
<1>1. RouterInv => OvertakenBySells
  <2> SUFFICES ASSUME RouterInv, NEW s \in Prompt(Overtaken({"sell"})),
                      Pays(Execution(chain, swaps[s].instruction, chain_now))
               PROVE  LET executed == Execution(chain, swaps[s].instruction, chain_now)
                      IN  /\ executed.paid <= swaps[s].output
                          /\ IsBuy(swaps[s].request) => executed.paid = swaps[s].output
    BY DEF OvertakenBySells, Fates
  <2>. DEFINE swap == swaps[s]
              executed == Execution(chain, swap.instruction, chain_now)
              paid == Paid(chain, swap.instruction, chain_now)
              first(c) == FindActiveVector(c["offer"].data.vectors, chain_now)
  <2>1. s \in Overtaken({"sell"}) /\ swap.at = chain_now /\ swap.agreed
    BY DEF Prompt, Timely
  <2>2. Told(swap) /\ swap.since \subseteq {"sell"}
    BY <2>1, FateTold
  <2>3. paid.ok /\ executed.paid = paid.val /\ first(chain).ok
    BY PayingPaid
  <2>. HIDE DEF swap, executed
  <2>4. PICK b : /\ Source(b, swap)
                 /\ Reached(b, chain, swap.since, swap.agreed /\ swap.at = chain_now,
                            chain_now)
    BY <2>2 DEF Told
  <2>5. Drained(b, chain, chain_now)
    BY <2>1, <2>2, <2>4 DEF Reached
  <2>6. Alike(b, chain) /\ first(b) = first(chain)
    BY <2>5 DEF Drained, Alike
  <2>7. paid = Given(chain, swap.request, chain_now)
    BY <2>2, <2>3, <2>4, ToldPaid
  <2>. HIDE DEF paid, first
  <2>8. CASE IsBuy(swap.request)
    <3>1. paid.val = swap.output
      BY <2>1, <2>4, <2>6, <2>7, <2>8, BuyGivenAlike DEF Source
    <3>2. swap.output \in Nat
      BY <2>2, Naturals64 DEF Told
    <3>. QED
      BY <2>3, <3>1, <3>2 DEF swap, executed
  <2>9. CASE IsSell(swap.request)
    <3>1. ~IsBuy(swap.request)
      BY <2>9, OneWay
    <3>2. /\ paid = Sold(chain, first(chain).val, swap.request.amount, chain_now)
          /\ Given(b, swap.request, chain_now)
               = Sold(b, first(chain).val, swap.request.amount, chain_now)
      BY <2>6, <2>7, <3>1 DEF Given, first
    <3>3. Sold(b, first(chain).val, swap.request.amount, chain_now) # Overflow
      BY <2>1, <2>4, <3>2 DEF Source, Overflow, Err
    <3>4. paid.val <= Given(b, swap.request, chain_now).val
      <4>1. /\ Supply(chain) <= Supply(b) /\ Vault(chain) <= Vault(b)
            /\ Lighter(Pressure(b), chain_now, Pressure(chain), chain_now)
        BY <2>2, <2>5, MarketTyped DEF Drained, Told
      <4>. QED
        BY <2>2, <2>3, <2>4, <2>6, <3>2, <3>3, <4>1, SoldFollows DEF Source, Told
    <3>5. paid.val <= swap.output
      BY <2>1, <2>4, <3>4 DEF Source
    <3>. QED
      BY <2>3, <3>1, <3>5 DEF swap, executed
  <2>. QED
    BY <2>4, <2>8, <2>9 DEF Source
<1>. QED
  BY <1>1, RouterInvariant, PTL

\* A sell overtaken by buys of its second pays no less than its quote, and is
\* refused only for what the quote does not look at or a supply beyond pricing.
THEOREM OvertakenByBuysAlways == Spec => []OvertakenByBuys
<1>1. RouterInv => OvertakenByBuys
  <2> SUFFICES ASSUME RouterInv, NEW s \in Prompt(Overtaken({"buy"}))
               PROVE  LET swap == swaps[s]
                          executed == Execution(chain, swap.instruction, chain_now)
                      IN  /\ IsSell(swap.request) =>
                                \/ Classes(executed) \subseteq Unforeseen
                                \/ Paid(chain, swap.instruction, chain_now) = Overflow
                          /\ Pays(executed) => executed.paid >= swap.output
                          /\ IsBuy(swap.request) /\ Pays(executed)
                                => executed.paid = swap.output
    BY DEF OvertakenByBuys, Fates
  <2>. DEFINE swap == swaps[s]
              executed == Execution(chain, swap.instruction, chain_now)
              paid == Paid(chain, swap.instruction, chain_now)
              first(c) == FindActiveVector(c["offer"].data.vectors, chain_now)
  <2>1. s \in Overtaken({"buy"}) /\ swap.at = chain_now /\ swap.agreed
    BY DEF Prompt, Timely
  <2>2. Told(swap) /\ swap.since \subseteq {"buy"}
    BY <2>1, FateTold
  <2>3. Pays(executed) => paid.ok /\ executed.paid = paid.val
    BY PayingPaid
  <2>4. executed = Judged(chain, swap.instruction, paid)
    BY DEF Execution
  <2>. HIDE DEF swap, executed
  <2>5. PICK b : /\ Source(b, swap)
                 /\ Reached(b, chain, swap.since, swap.agreed /\ swap.at = chain_now,
                            chain_now)
    BY <2>2 DEF Told
  <2>6. Filled(b, chain, chain_now)
    BY <2>1, <2>2, <2>5 DEF Reached
  <2>7. /\ Alike(b, chain) /\ Alike(chain, b)
        /\ first(b) = first(chain) /\ first(chain).ok
    BY <2>1, <2>5, <2>6 DEF Filled, Alike, Source
  <2>8. paid = Given(chain, swap.request, chain_now)
    BY <2>2, <2>5, <2>7, ToldPaid
  <2>9. swap.output \in Nat /\ swap.output > 0
    BY <2>2, Naturals64 DEF Told
  <2>. HIDE DEF paid, first
  <2>10. CASE IsBuy(swap.request)
    <3>1. paid.val = swap.output
      BY <2>1, <2>5, <2>7, <2>8, <2>10, BuyGivenAlike DEF Source
    <3>2. ~IsSell(swap.request)
      BY <2>10, OneWay
    <3>. QED
      BY <2>3, <2>9, <3>1, <3>2 DEF swap, executed
  <2>11. CASE IsSell(swap.request)
    <3>1. ~IsBuy(swap.request)
      BY <2>11, OneWay
    <3>2. /\ paid = Sold(chain, first(chain).val, swap.request.amount, chain_now)
          /\ Given(b, swap.request, chain_now)
               = Sold(b, first(chain).val, swap.request.amount, chain_now)
      BY <2>7, <2>8, <3>1 DEF Given, first
    <3>3. \/ paid = Overflow
          \/ paid.ok /\ Given(b, swap.request, chain_now).val <= paid.val
      <4>1. /\ Supply(b) <= Supply(chain) /\ Vault(b) <= Vault(chain)
            /\ Lighter(Pressure(chain), chain_now, Pressure(b), chain_now)
        BY <2>6 DEF Filled
      <4>2. Sold(b, first(chain).val, swap.request.amount, chain_now).ok
        BY <2>1, <2>5, <3>2 DEF Source
      <4>. QED
        BY <2>2, <2>5, <2>7, <3>2, <4>1, <4>2, SoldFollows DEF Source, Told
    <3>4. CASE paid = Overflow
      <4>1. ~paid.ok
        BY <3>4 DEF Overflow, Err
      <4>. QED
        BY <2>3, <3>1, <3>4, <4>1 DEF swap, executed, paid
    <3>5. CASE paid.ok /\ Given(b, swap.request, chain_now).val <= paid.val
      <4>1. swap.output <= paid.val /\ paid.val \in Nat
        <5>1. paid.val \in U64
          BY <2>2, <2>8, <3>5, GivenTyped DEF Told
        <5>. QED
          BY <2>1, <2>5, <3>5, <5>1, Naturals64 DEF Source
      <4>2. /\ ~chain["state"].data.is_killed
            /\ ~chain["offer"].data.disabled
            /\ chain["pair"].data.enabled
        BY <2>5, <2>7, <2>11 DEF Alike, Source, Pair
      <4>3. /\ swap.instruction.minimum_out = 0
            /\ Direction(swap.instruction) = "sell"
        BY <2>2, <2>11 DEF Told, Matches
      <4>4. ~(paid.val < swap.instruction.minimum_out)
        BY <4>1, <4>3
      <4>5. Classes(executed) \subseteq Unforeseen
        BY <2>2, <2>4, <3>5, <4>2, <4>3, <4>4, LeftToRefuse DEF Told
      <4>. QED
        BY <2>3, <2>9, <3>1, <4>1, <4>5 DEF swap, executed
    <3>. QED
      BY <3>3, <3>4, <3>5
  <2>. QED
    BY <2>5, <2>10, <2>11 DEF Source
<1>. QED
  BY <1>1, RouterInvariant, PTL

\* Only the price of its time tells one buy from another.
LEMMA BoughtAtPrice ==
    ASSUME NEW c, NEW vector, NEW amount, NEW t, NEW time,
           StepPrice(vector, t) = StepPrice(vector, time)
    PROVE  Bought(c, vector, amount, t) = Bought(c, vector, amount, time)
<1>. DEFINE fee == c["offer"].data.fee_basis_points_permissionless
            in == c["token_in"].data.decimals
            out == c["token_out"].data.decimals
            answer(price) == IF ~price.ok THEN price
                             ELSE BuyAmountOut(amount, price.val, fee, in, out)
<1>1. \A at : Bought(c, vector, amount, at) = answer(StepPrice(vector, at))
  BY Zenon DEF Bought, BuyFromVector
<1>. HIDE DEF answer
<1>. QED
  BY <1>1

\* Clocks apart inside one price step: a buy pays its quote, and a sell no less.
THEOREM SkewWithinStepAlways == Spec => []SkewWithinStep
<1>1. RouterInv => SkewWithinStep
  <2> SUFFICES ASSUME RouterInv, NEW s \in Overtaken({}),
                      PricedAt(swaps[s].at) = PricedAt(chain_now),
                      Pays(Execution(chain, swaps[s].instruction, chain_now))
               PROVE  LET swap == swaps[s]
                          executed == Execution(chain, swap.instruction, chain_now)
                      IN  /\ IsBuy(swap.request) => executed.paid = swap.output
                          /\ IsSell(swap.request) /\ WithoutBeginning(swap.at, chain_now)
                                => executed.paid >= swap.output
    BY DEF SkewWithinStep, Fates
  <2>. DEFINE swap == swaps[s]
              executed == Execution(chain, swap.instruction, chain_now)
              paid == Paid(chain, swap.instruction, chain_now)
              then == FindActiveVector(chain["offer"].data.vectors, swap.at)
              current == FindActiveVector(chain["offer"].data.vectors, chain_now)
              amount == swap.request.amount
  <2>1. Told(swap) /\ swap.since = {}
    BY FateTold
  <2>2. paid.ok /\ executed.paid = paid.val /\ current.ok
    BY PayingPaid
  <2>3. then = current /\ StepPrice(then.val, swap.at) = StepPrice(current.val, chain_now)
    BY DEF PricedAt
  <2>. HIDE DEF swap, executed
  <2>4. Source(chain, swap)
    BY <2>1 DEF Told, Reached
  <2>5. paid = Given(chain, swap.request, chain_now)
    BY <2>1, <2>2, <2>4, ToldPaid
  <2>. HIDE DEF paid
  <2>6. CASE IsBuy(swap.request)
    <3>1. /\ paid = Bought(chain, current.val, amount, chain_now)
          /\ Given(chain, swap.request, swap.at) = Bought(chain, then.val, amount, swap.at)
      BY <2>5, <2>6 DEF Given
    <3>2. ~IsSell(swap.request)
      BY <2>6, OneWay
    <3>. HIDE DEF then, current
    <3>3. paid.val = swap.output
      BY <2>3, <2>4, <3>1, BoughtAtPrice DEF Source
    <3>. QED
      BY <2>2, <3>2, <3>3 DEF swap, executed
  <2>7. CASE IsSell(swap.request)
    <3>1. ~IsBuy(swap.request)
      BY <2>7, OneWay
    <3>2. /\ paid = Sold(chain, current.val, amount, chain_now)
          /\ Given(chain, swap.request, swap.at) = Sold(chain, then.val, amount, swap.at)
      BY <2>5, <3>1 DEF Given
    <3>. HIDE DEF then, current
    <3>3. ASSUME WithoutBeginning(swap.at, chain_now) PROVE paid.val >= swap.output
      <4>1. Lighter(Pressure(chain), chain_now, Pressure(chain), swap.at)
        <5>1. /\ Pressure(chain) \in DampeningState
              /\ swap.at \in Nat /\ chain_now \in Nat
          BY <2>1, MarketTyped, Naturals64 DEF Told
        <5>2. /\ swap.at <= chain_now
              /\ \/ Pressure(chain).epoch_start <= swap.at
                 \/ Pressure(chain).epoch_start > chain_now
          BY <3>3 DEF WithoutBeginning, Pressure, Pair
        <5>. QED
          BY <5>1, <5>2, LighterLater
      <4>2. Supply(chain) <= Supply(chain) /\ Vault(chain) <= Vault(chain)
        BY <2>1, MarketTyped DEF Told
      <4>3. Sold(chain, then.val, amount, swap.at).ok
        BY <2>4, <3>2 DEF Source
      <4>4. Sold(chain, current.val, amount, chain_now) # Overflow
        BY <2>2, <3>2 DEF Overflow, Err
      <4>5. Given(chain, swap.request, swap.at).val <= paid.val
        BY <2>1, <2>3, <3>2, <4>1, <4>2, <4>3, <4>4, AlikeChain, SoldFollows DEF Told
      <4>6. paid.val \in Nat /\ swap.output \in Nat
        BY <2>1, <2>2, <2>5, GivenTyped, Naturals64 DEF Told
      <4>. QED
        BY <2>4, <4>5, <4>6 DEF Source
    <3>. QED
      BY <2>2, <3>1, <3>3 DEF swap, executed
  <2>. QED
    BY <2>4, <2>6, <2>7 DEF Source
<1>. QED
  BY <1>1, RouterInvariant, PTL
-----------------------------------------------------------------------------
\* The class of a refusal tells its code.
LEMMA ClassOf ==
    ASSUME NEW executed,
           executed.codes \in SUBSET {6024, 6025, 6112, 6113, Unclassified}
    PROVE  /\ ("KillSwitchActivated" \in Classes(executed)) <=> 6024 \in executed.codes
           /\ ("OfferDisabled" \in Classes(executed)) <=> 6112 \in executed.codes
BY DEF Classes, Classify, Unclassified

\* The program refuses a swap for a kill switch or a disabled offer exactly if
\* status() reports it after the next update, the kill switch first.
THEOREM RefusalsMatchStatusAlways == Spec => []RefusalsMatchStatus
<1>1. RouterInv => RefusalsMatchStatus
  <2> SUFFICES ASSUME RouterInv, NEW f \in Fates(Sent)
               PROVE  LET status == Status(Updated(venue, chain))
                      IN  /\ (status = "KillSwitchActive")
                                <=> "KillSwitchActivated" \in Classes(f.executed)
                          /\ status = "OfferDisabled"
                                => "OfferDisabled" \in Classes(f.executed)
                          /\ "OfferDisabled" \in Classes(f.executed)
                                => status # "Active"
    BY DEF RefusalsMatchStatus
  <2>. DEFINE state == chain["state"].data
              offer == chain["offer"].data
              codes == f.executed.codes
              status == Status(Updated(venue, chain))
  <2>1. /\ codes \in SUBSET {6024, 6025, 6112, 6113, Unclassified}
        /\ 6024 \in codes <=> state.is_killed
        /\ 6112 \in codes <=> offer.disabled
    <3>1. PICK s \in Sent :
                f.executed = Execution(chain, swaps[s].instruction, chain_now)
      BY DEF Fates
    <3>2. PICK paid : codes = Refusals(chain, swaps[s].instruction, paid)
      BY <3>1 DEF Execution, Judged
    <3>. HIDE DEF codes
    <3>. QED
      BY <3>2 DEF Refusals, Unclassified
  <2>2. state \in States /\ offer \in Offers
    BY ContentTyped DEF RouterInv
  <2>3. /\ Updated(venue, chain).offer = offer
        /\ Updated(venue, chain).state = state
        /\ state # None
    BY <2>2, UpdatedInitialized, NoneAssumption DEF RouterInv
  <2>4. /\ (status = "KillSwitchActive") <=> state.is_killed
        /\ (status = "OfferDisabled") <=> ~state.is_killed /\ offer.disabled
        /\ (status = "Active") <=> ~state.is_killed /\ ~offer.disabled
    <3>. HIDE DEF state, offer
    <3>1. status = IF state.is_killed THEN "KillSwitchActive"
                   ELSE IF offer.disabled THEN "OfferDisabled" ELSE "Active"
      BY <2>3, Zenon DEF Status
    <3>2. /\ "KillSwitchActive" # "OfferDisabled"
          /\ "KillSwitchActive" # "Active"
          /\ "OfferDisabled" # "Active"
      OBVIOUS
    <3>3. state.is_killed \in BOOLEAN /\ offer.disabled \in BOOLEAN
      BY <2>2 DEF States, Offers
    <3>. HIDE DEF status
    <3>. QED
      BY <3>1, <3>2, <3>3
  <2>5. /\ ("KillSwitchActivated" \in Classes(f.executed)) <=> 6024 \in codes
        /\ ("OfferDisabled" \in Classes(f.executed)) <=> 6112 \in codes
    BY <2>1, ClassOf
  <2>. HIDE DEF status, codes, state, offer
  <2>6. /\ (status = "KillSwitchActive")
              <=> "KillSwitchActivated" \in Classes(f.executed)
        /\ status = "OfferDisabled" => "OfferDisabled" \in Classes(f.executed)
        /\ "OfferDisabled" \in Classes(f.executed) => status # "Active"
    BY <2>1, <2>4, <2>5
  <2>. QED
    BY <2>6 DEF status
<1>. QED
  BY <1>1, RouterInvariant, PTL
=============================================================================
