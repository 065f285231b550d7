-------------------------- MODULE OnreVenue_proofs --------------------------
(***************************************************************************)
(* The venue under updates that are cut short at any account: what its     *)
(* fields hold, in which order they come to hold it, and what its quotes   *)
(* can therefore never be, for every chain, cache and width.               *)
(***************************************************************************)
EXTENDS OnreVenue, Venue_proofs

\* The fields are assigned in the order in which the accounts are read.
ReadInOrder ==
    /\ venue.token_info # <<>> => venue.state # None
    /\ venue.initialized =>
        /\ venue.token_info # <<>>
        /\ None \notin {venue.state, venue.prop_amm_pair_state,
                        venue.redemption_vault_token_in, venue.redemption_offer,
                        venue.circulating_supply_excluded_balance}

\* Every slot has its account.
Slotted == DOMAIN chain = Slots /\ DOMAIN cache = Slots

\* The inductive invariant.
VenueInv == TypeOK /\ ReadInOrder /\ Slotted

\* The types of the fields of a venue.
VenueTyped(v) ==
    /\ v.offer \in Offers
    /\ v.state \in States \union {None}
    /\ v.token_info = <<>> \/ v.token_info \in TokenInfos \X TokenInfos
    /\ v.token_out_supply \in U64
    /\ v.prop_amm_pair_state \in PropAmmPairState \union {None}
    /\ v.redemption_vault_token_in \in U64 \union {None}
    /\ v.redemption_offer \in RedemptionOffers \union {None}
    /\ v.circulating_supply_excluded_balance \in U64 \union {None}
    /\ v.initialized \in BOOLEAN

Ordered(v) ==
    /\ v.token_info # <<>> => v.state # None
    /\ v.initialized =>
        /\ v.token_info # <<>>
        /\ None \notin {v.state, v.prop_amm_pair_state, v.redemption_vault_token_in,
                        v.redemption_offer, v.circulating_supply_excluded_balance}

\* The content of a typed account.
LEMMA ContentTyped ==
    ASSUME NEW c, \A slot \in Slots : c[slot] \in AccountOf(slot)
    PROVE  /\ c["offer"].data \in Offers
           /\ c["state"].data \in States
           /\ c["token_in"].data \in TokenInfos
           /\ c["token_out"].data \in TokenInfos
           /\ c["pair"].data \in PropAmmPairState
           /\ c["redemption"].data \in RedemptionOffers
           /\ c["vault"].data \in U64
           /\ c["vault_22"].data \in U64
           /\ c["excluded"].data \in U64
<1>1. \A slot \in Slots : c[slot].data \in DataOf(slot)
  BY DEF AccountOf
<1>. QED
  BY <1>1 DEF Slots, DataOf

\* A venue built from an offer.
LEMMA NewVenueTyped ==
    ASSUME NEW offer \in Offers
    PROVE  VenueTyped(NewVenue(offer)) /\ Ordered(NewVenue(offer))
BY Naturals64 DEF VenueTyped, Ordered, NewVenue

\* An update keeps the types and the order, wherever it stops.
LEMMA UpdatedTyped ==
    ASSUME NEW c, \A slot \in Slots : c[slot] \in AccountOf(slot),
           NEW v, VenueTyped(v), Ordered(v)
    PROVE  VenueTyped(Updated(v, c)) /\ Ordered(Updated(v, c))
<1>. DEFINE u == Updated(v, c)
            infos == <<c["token_in"].data, c["token_out"].data>>
<1>1. /\ c["offer"].data \in Offers
      /\ c["state"].data \in States
      /\ infos \in TokenInfos \X TokenInfos
      /\ infos # <<>>
      /\ c["token_out"].data.supply \in U64
      /\ c["pair"].data \in PropAmmPairState
      /\ c[VaultSlot(c)].data \in U64
      /\ c["redemption"].data \in RedemptionOffers
      /\ c["excluded"].data \in U64
  BY ContentTyped DEF VaultSlot, TokenInfos
<1>. HIDE DEF infos
<1>2. /\ u.offer = IF OfferRead(c) THEN c["offer"].data ELSE v.offer
      /\ u.state = IF StateRead(c) THEN c["state"].data ELSE v.state
      /\ u.token_info = IF TokensRead(c) THEN infos ELSE v.token_info
      /\ u.token_out_supply = IF TokensRead(c) THEN c["token_out"].data.supply
                              ELSE v.token_out_supply
      /\ u.prop_amm_pair_state = IF PairRead(c) THEN c["pair"].data
                                 ELSE v.prop_amm_pair_state
      /\ u.redemption_vault_token_in = IF VaultRead(c) THEN c[VaultSlot(c)].data
                                       ELSE v.redemption_vault_token_in
      /\ u.redemption_offer = IF RedemptionRead(c) THEN c["redemption"].data
                              ELSE v.redemption_offer
      /\ u.circulating_supply_excluded_balance =
            IF ExcludedRead(c) THEN c["excluded"].data
            ELSE v.circulating_supply_excluded_balance
      /\ u.initialized = InitializedAfter(v, c)
  BY DEF Updated, TokenInfoAfter, infos
<1>. HIDE DEF u
<1>3. VenueTyped(u)
  BY <1>1, <1>2 DEF VenueTyped, InitializedAfter
<1>4. /\ TokensRead(c) => StateRead(c)
      /\ ExcludedRead(c) => /\ RedemptionRead(c)
                            /\ VaultRead(c)
                            /\ PairRead(c)
                            /\ TokensRead(c)
  BY DEF TokensRead, PairRead, VaultRead, RedemptionRead, ExcludedRead
<1>5. /\ c["state"].data # None
      /\ c["pair"].data # None
      /\ c[VaultSlot(c)].data # None
      /\ c["redemption"].data # None
      /\ c["excluded"].data # None
  BY <1>1, NoneAssumption
<1>6. u.token_info # <<>> => u.state # None
  BY <1>2, <1>4, <1>5 DEF Ordered
<1>7. u.initialized =>
        /\ u.token_info # <<>>
        /\ None \notin {u.state, u.prop_amm_pair_state, u.redemption_vault_token_in,
                        u.redemption_offer, u.circulating_supply_excluded_balance}
  <2>1. CASE ExcludedRead(c)
    BY <1>1, <1>2, <1>4, <1>5, <2>1
  <2>2. CASE ~ExcludedRead(c)
    BY <1>1, <1>2, <1>4, <1>5, <2>2 DEF Ordered, InitializedAfter
  <2>. QED
    BY <2>1, <2>2
<1>. QED
  BY <1>3, <1>6, <1>7 DEF Ordered, u

\* The invariant holds of the first venue, which is built from a sound offer.
LEMMA VenueInit == Init => VenueInv
<1> SUFFICES ASSUME Init PROVE VenueInv
  OBVIOUS
<1>1. \A slot \in Slots : chain[slot] \in AccountOf(slot)
  BY VenueAssumption DEF Init
<1>2. VenueTyped(venue) /\ Ordered(venue)
  BY <1>1, ContentTyped, NewVenueTyped DEF Init
<1>3. writes \in 0..MaxWrites /\ now \in 1..MaxTime
  BY VenueAssumption, Naturals64 DEF Init, U64
<1>4. Slotted
  BY VenueAssumption DEF Init, Slotted
<1>. QED
  BY <1>1, <1>2, <1>3, <1>4 DEF Init, VenueInv, TypeOK, ReadInOrder, VenueTyped, Ordered

\* A write leaves every slot with an account of its kind.
LEMMA WriteTyped ==
    ASSUME VenueInv, NEW slot \in Slots, Write(slot)
    PROVE  DOMAIN chain' = Slots /\ \A s \in Slots : chain'[s] \in AccountOf(s)
<1>1. DOMAIN chain = Slots /\ \A s \in Slots : chain[s] \in AccountOf(s)
  BY DEF VenueInv, TypeOK, Slotted
<1>2. ASSUME NEW account \in AccountOf(slot), chain' = [chain EXCEPT ![slot] = account]
      PROVE  DOMAIN chain' = Slots /\ \A s \in Slots : chain'[s] \in AccountOf(s)
  BY <1>1, <1>2
<1>3. CASE \E data \in Contents[slot] :
               chain' = [chain EXCEPT ![slot] = [fault |-> "none", data |-> data]]
  <2>1. PICK data \in Contents[slot] :
               chain' = [chain EXCEPT ![slot] = [fault |-> "none", data |-> data]]
    BY <1>3
  <2>2. [fault |-> "none", data |-> data] \in AccountOf(slot)
    BY VenueAssumption DEF AccountOf
  <2>. QED
    BY <1>2, <2>1, <2>2
<1>4. CASE \E fault \in FaultsOf(slot) : chain' = [chain EXCEPT ![slot].fault = fault]
  <2>1. PICK fault \in FaultsOf(slot) : chain' = [chain EXCEPT ![slot].fault = fault]
    BY <1>4
  <2>2. [chain[slot] EXCEPT !.fault = fault] \in AccountOf(slot)
    BY <1>1 DEF AccountOf
  <2>. QED
    BY <1>2, <2>1, <2>2
<1>. QED
  BY <1>3, <1>4 DEF Write

\* The invariant survives every step: a write, a refreshed account, a venue
\* built anew, an update cut short anywhere, a second passing.
LEMMA VenueStep == VenueInv /\ [Next]_vars => VenueInv'
<1> SUFFICES ASSUME VenueInv, [Next]_vars PROVE VenueInv'
  OBVIOUS
<1>1. /\ \A slot \in Slots : chain[slot] \in AccountOf(slot)
      /\ \A slot \in Slots : cache[slot] \in AccountOf(slot)
      /\ writes \in 0..MaxWrites /\ now \in 1..MaxTime
      /\ DOMAIN chain = Slots /\ DOMAIN cache = Slots
  BY DEF VenueInv, TypeOK, Slotted
<1>2. VenueTyped(venue) /\ Ordered(venue)
  BY DEF VenueInv, TypeOK, ReadInOrder, VenueTyped, Ordered
<1>3. ASSUME VenueTyped(venue'), Ordered(venue'),
             DOMAIN chain' = Slots, DOMAIN cache' = Slots,
             \A slot \in Slots : chain'[slot] \in AccountOf(slot),
             \A slot \in Slots : cache'[slot] \in AccountOf(slot),
             writes' \in 0..MaxWrites, now' \in 1..MaxTime
      PROVE  VenueInv'
  BY <1>3 DEF VenueInv, TypeOK, ReadInOrder, Slotted, VenueTyped, Ordered
<1>4. ASSUME NEW slot \in Slots, Write(slot) PROVE VenueInv'
  <2>1. DOMAIN chain' = Slots /\ \A s \in Slots : chain'[s] \in AccountOf(s)
    BY <1>4, WriteTyped
  <2>2. writes' \in 0..MaxWrites
    BY <1>1, <1>4, VenueAssumption DEF Write
  <2>3. UNCHANGED <<cache, venue, now>>
    BY <1>4 DEF Write
  <2>. QED
    BY <1>1, <1>2, <1>3, <2>1, <2>2, <2>3
<1>5. ASSUME NEW slot \in Slots, Refresh(slot) PROVE VenueInv'
  <2>1. DOMAIN cache' = Slots /\ \A s \in Slots : cache'[s] \in AccountOf(s)
    BY <1>1, <1>5 DEF Refresh
  <2>2. UNCHANGED <<chain, venue, writes, now>>
    BY <1>5 DEF Refresh
  <2>. QED
    BY <1>1, <1>2, <1>3, <2>1, <2>2
<1>6. CASE FromAccount
  <2>1. VenueTyped(venue') /\ Ordered(venue')
    BY <1>1, <1>6, ContentTyped, NewVenueTyped DEF FromAccount
  <2>2. UNCHANGED <<chain, cache, writes, now>>
    BY <1>6 DEF FromAccount
  <2>. QED
    BY <1>1, <1>3, <2>1, <2>2
<1>7. CASE UpdateState
  <2>1. VenueTyped(venue') /\ Ordered(venue')
    BY <1>1, <1>2, <1>7, UpdatedTyped DEF UpdateState
  <2>2. UNCHANGED <<chain, cache, writes, now>>
    BY <1>7 DEF UpdateState
  <2>. QED
    BY <1>1, <1>3, <2>1, <2>2
<1>8. CASE Tick
  <2>1. now' \in 1..MaxTime /\ UNCHANGED <<chain, cache, venue, writes>>
    BY <1>1, <1>8, VenueAssumption, Naturals64 DEF Tick
  <2>. QED
    BY <1>1, <1>2, <1>3, <2>1
<1>9. CASE UNCHANGED vars
  BY <1>1, <1>2, <1>3, <1>9 DEF vars
<1>. QED
  BY <1>4, <1>5, <1>6, <1>7, <1>8, <1>9 DEF Next

\* The invariant, and with it the types, in every reachable state.
THEOREM VenueInvariant == Spec => []VenueInv
BY VenueInit, VenueStep, PTL DEF Spec

\* Every field of the venue holds nothing or the content of its account.
THEOREM TypeCorrect == Spec => []TypeOK
<1>1. VenueInv => TypeOK
  BY DEF VenueInv
<1>. QED
  BY <1>1, VenueInvariant, PTL
-----------------------------------------------------------------------------
\* A venue without mints, or not active, gives nothing.
LEMMA NothingQuoted ==
    ASSUME NEW v, NEW time, v.token_info = <<>> \/ Status(v) # "Active"
    PROVE  NoOutput(v, time)
<1> SUFFICES ASSUME NEW request PROVE Output(Quote(v, request, time)) = 0
  BY DEF NoOutput
<1>. DEFINE vector == FindActiveVector(v.offer.vectors, time)
<1>1. \/ \E e : Quote(v, request, time) = Err(e)
      \/ \E shortage : Quote(v, request, time) = QuoteResult(0, shortage)
  <2>. HIDE DEF vector
  <2>. QED
    BY Zenon DEF Quote, NotEnoughLiquidity, vector
<1>. QED
  BY <1>1 DEF Output, Err, QuoteResult, Ok

\* As long as the kill switch has not been read nothing is quoted: the mints
\* are read after the state account.
THEOREM NoOutputOnUnreadSwitchAlways == Spec => []NoOutputOnUnreadSwitch
<1>1. VenueInv => NoOutputOnUnreadSwitch
  BY NothingQuoted DEF VenueInv, ReadInOrder, NoOutputOnUnreadSwitch
<1>. QED
  BY <1>1, VenueInvariant, PTL

\* A kill switch that can be seen stops every quote after the next update,
\* also when a later account is unreadable.
THEOREM KillSwitchObeyedAlways == Spec => []KillSwitchObeyed
<1>1. VenueInv => KillSwitchObeyed
  <2> SUFFICES ASSUME VenueInv, Killed(cache)
               PROVE  NoOutput(Updated(venue, cache), now)
    BY DEF KillSwitchObeyed
  <2>. DEFINE u == Updated(venue, cache)
  <2>1. u.state = cache["state"].data
    BY DEF Updated, Killed, StateRead, OfferRead
  <2>2. cache["state"].data \in States
    BY ContentTyped DEF VenueInv, TypeOK
  <2>3. u.state # None /\ u.state.is_killed
    BY <2>1, <2>2, NoneAssumption DEF Killed
  <2>. HIDE DEF u
  <2>4. Status(u) # "Active"
    BY <2>3 DEF Status
  <2>. QED
    BY <2>4, NothingQuoted DEF u
<1>. QED
  BY <1>1, VenueInvariant, PTL
-----------------------------------------------------------------------------
\* What the vault of the copy holds bounds what a sell is quoted on it.
LEMMA SellQuoteBounded ==
    ASSUME NEW v, VenueTyped(v), v.token_info # <<>>, NEW vector, NEW amount, NEW time,
           v.redemption_vault_token_in \in U64
    PROVE  Output(SellQuote(v, vector, amount, time)) <= v.redemption_vault_token_in
<1>. DEFINE pair == v.prop_amm_pair_state
            params == [liquidity |-> v.redemption_vault_token_in,
                       liquidity_cap_target_bps |-> v.redemption_offer.vault_target_bps,
                       circulating_supply |-> SatSub(v.token_out_supply,
                                                 v.circulating_supply_excluded_balance),
                       dampening |-> ToDampeningState(pair)]
            in == v.token_info[2].decimals
            out == v.token_info[1].decimals
            sold == SellFromVector(vector, time, amount,
                        v.redemption_offer.fee_basis_points_prop_amm_sell, in, out,
                        pair.minimum_sell_haircut_onyc, params)
<1>1. v.redemption_vault_token_in >= 0
  BY DEF U64
<1>2. CASE Output(SellQuote(v, vector, amount, time)) = 0
  BY <1>1, <1>2
<1>3. CASE Output(SellQuote(v, vector, amount, time)) # 0
  <2>1. /\ pair # None
        /\ v.redemption_offer # None
        /\ sold.ok
        /\ Output(SellQuote(v, vector, amount, time)) = sold.val
    BY <1>3, SellQuotePriced
  <2>2. pair \in PropAmmPairState /\ v.redemption_offer \in RedemptionOffers
    BY <2>1 DEF VenueTyped
  <2>3. in \in Nat /\ out \in Nat
    BY DEF VenueTyped, TokenInfos
  <2>4. /\ params.liquidity \in U64
        /\ params.liquidity_cap_target_bps \in Nat
        /\ params.dampening \in DampeningState
    BY <2>2, DampeningTyped DEF RedemptionOffers
  <2>5. sold.val \in 0..params.liquidity
    <3>. HIDE DEF params, in, out
    <3>. QED
      BY <2>1, <2>3, <2>4, SellWithinVault DEF sold
  <2>6. sold.val <= v.redemption_vault_token_in
    <3>. HIDE DEF sold
    <3>. QED
      BY <2>5, Naturals64
  <2>. HIDE DEF sold
  <2>. QED
    BY <2>1, <2>6
<1>. QED
  BY <1>2, <1>3

\* After an update that reads every account a sell is quoted out of the vault
\* that pays it, and never beyond its balance.
THEOREM QuotedFromPayingVaultAlways == Spec => []QuotedFromPayingVault
<1>1. VenueInv => QuotedFromPayingVault
  <2> SUFFICES ASSUME VenueInv, Readable(cache), NEW amount \in Amounts
               PROVE  Output(Quote(Updated(venue, cache), Sell(amount), now))
                        <= cache[PayingVault(cache)].data
    BY DEF QuotedFromPayingVault
  <2>. DEFINE u == Updated(venue, cache)
              vector == FindActiveVector(u.offer.vectors, now)
  <2>1. \A slot \in Slots : cache[slot] \in AccountOf(slot)
    BY DEF VenueInv, TypeOK
  <2>2. VenueTyped(u)
    BY <2>1, UpdatedTyped DEF VenueInv, TypeOK, ReadInOrder, VenueTyped, Ordered
  <2>3. /\ Sound(cache, "offer") /\ Sound(cache, "state") /\ Sound(cache, "token_in")
        /\ Sound(cache, "token_out") /\ Sound(cache, "pair")
        /\ Sound(cache, PayingVault(cache))
    <3>1. \A slot \in Slots \ {"vault", "vault_22"} : Sound(cache, slot)
      BY DEF Readable
    <3>2. {"offer", "state", "token_in", "token_out", "pair"}
            \subseteq Slots \ {"vault", "vault_22"}
      BY DEF Slots
    <3>3. Sound(cache, PayingVault(cache))
      BY DEF Readable
    <3>. QED
      BY <3>1, <3>2, <3>3
  <2>4. PayingVault(cache) = VaultSlot(cache)
    BY DEF PayingVault, VaultSlot
  <2>5. VaultRead(cache) /\ TokensRead(cache)
    BY <2>3, <2>4 DEF VaultRead, PairRead, TokensRead, StateRead, OfferRead
  <2>6. /\ u.redemption_vault_token_in = cache[PayingVault(cache)].data
        /\ u.token_info # <<>>
    BY <2>4, <2>5 DEF Updated, TokenInfoAfter
  <2>7. cache[PayingVault(cache)].data \in U64
    BY <2>1, ContentTyped DEF PayingVault
  <2>. HIDE DEF u
  <2>8. CASE Output(Quote(u, Sell(amount), now)) = 0
    <3>1. cache[PayingVault(cache)].data >= 0
      BY <2>7 DEF U64
    <3>. QED
      BY <2>8, <3>1 DEF u
  <2>9. CASE Output(Quote(u, Sell(amount), now)) # 0
    <3>1. Sell(amount).amount = amount /\ ~IsBuy(Sell(amount))
      BY MintAssumption DEF Sell, IsBuy
    <3>2. Quote(u, Sell(amount), now) = SellQuote(u, vector.val, amount, now)
      <4>. HIDE DEF vector
      <4>. QED
        BY <2>9, <3>1, Zenon
           DEF Quote, Output, Err, QuoteResult, NotEnoughLiquidity, Ok, vector
    <3>. QED
      BY <2>2, <2>6, <2>7, <3>2, SellQuoteBounded DEF u
  <2>. QED
    BY <2>8, <2>9
<1>. QED
  BY <1>1, VenueInvariant, PTL
-----------------------------------------------------------------------------
\* An answer that does not report an unread account.
Informed(answer) == answer.err \notin {"NotInitialized", "TokenInfoIndexError"}

\* The pricing crate has no such error, whatever it is asked to price.
LEMMA PricesInformed ==
    /\ \A v : Informed(Narrow(v)) /\ Informed(Ok(v))
    /\ Informed(Overflow)
    /\ \A vector, time : Informed(StepPrice(vector, time))
    /\ \A amount, bps : Informed(CalculateFee(amount, bps))
<1>1. \A v : Informed(Narrow(v)) /\ Informed(Ok(v))
  BY DEF Informed, Narrow, Ok, Err, Overflow
<1>2. Informed(Overflow)
  BY DEF Informed, Err, Overflow
<1>3. ASSUME NEW vector, NEW time PROVE Informed(StepPrice(vector, time))
  <2>1. \A apr, price, elapsed : Informed(VectorPrice(apr, price, elapsed))
    BY <1>1, <1>2, Zenon DEF VectorPrice, IntradayPrice
  <2>2. /\ Informed(Err("TimeBeforeBase"))
        /\ Informed(Err("ZeroPriceFixDurationNotAllowed"))
    BY DEF Informed, Err
  <2>. QED
    BY <1>2, <2>1, <2>2, Zenon DEF StepPrice
<1>4. ASSUME NEW amount, NEW bps PROVE Informed(CalculateFee(amount, bps))
  <2>1. Informed(Err("InvalidBasisPoints"))
    BY DEF Informed, Err
  <2>. QED
    BY <1>1, <2>1, Zenon DEF CalculateFee
<1>. QED
  BY <1>1, <1>2, <1>3, <1>4

\* Nor has the conversion of an amount, on either side.
LEMMA ConversionInformed ==
    /\ \A price, in, out : Informed(ConvertError(price, in, out))
    /\ \A vector, time, amount, bps, in, out :
            Informed(BuyFromVector(vector, time, amount, bps, in, out))
    /\ \A amount, price, bps, minFee, in, out :
            Informed(RawAmountOut(amount, price, bps, minFee, in, out))
    /\ \A liquidity, tvl, bps, in, out :
            Informed(LiquidityCap(liquidity, tvl, bps, in, out))
<1>1. \A price, in, out : Informed(ConvertError(price, in, out))
  BY DEF ConvertError, Informed, Err, Ok
<1>2. ASSUME NEW vector, NEW time, NEW amount, NEW bps, NEW in, NEW out
      PROVE  Informed(BuyFromVector(vector, time, amount, bps, in, out))
  <2>1. Informed(DeductFee(amount, bps))
    BY PricesInformed, Zenon DEF DeductFee
  <2>2. \A price : Informed(BuyAmountOut(amount, price, bps, in, out))
    BY <1>1, <2>1, PricesInformed, Zenon DEF BuyAmountOut
  <2>. QED
    BY <2>2, PricesInformed, Zenon DEF BuyFromVector
<1>3. ASSUME NEW amount, NEW price, NEW bps, NEW minFee, NEW in, NEW out
      PROVE  Informed(RawAmountOut(amount, price, bps, minFee, in, out))
  <2>1. Informed(SellFee(amount, bps, minFee))
    BY PricesInformed, Zenon DEF SellFee
  <2>2. Informed(Err("InvalidAmount"))
    BY DEF Informed, Err
  <2>. QED
    BY <1>1, <2>1, <2>2, PricesInformed, Zenon DEF RawAmountOut
<1>4. ASSUME NEW liquidity, NEW tvl, NEW bps, NEW in, NEW out
      PROVE  Informed(LiquidityCap(liquidity, tvl, bps, in, out))
  <2>1. Informed(Err("InsufficientLiquidity"))
    BY DEF Informed, Err
  <2>. QED
    BY <2>1, PricesInformed, Zenon DEF LiquidityCap
<1>. QED
  BY <1>1, <1>2, <1>3, <1>4

\* Nor has the wall.
LEMMA WallInformed ==
    ASSUME NEW amount, NEW liquidity, NEW cap, NEW d, NEW time
    PROVE  Informed(ApplyHardWall(amount, liquidity, cap, d, time))
<1>1. /\ Informed(Err("ZeroLiquidity"))
      /\ Informed(Err("InsufficientLiquidity"))
      /\ Informed(Err("InvalidEpochDuration"))
      /\ Informed(Err("InvalidCadenceConfig"))
      /\ Informed(Err("InvalidCurveExponent"))
  BY DEF Informed, Err
<1>2. Informed(EffectiveSellVolume(d, amount, time))
  BY <1>1, PricesInformed, Zenon DEF EffectiveSellVolume, CheckedAdd
<1>3. \A volume : Informed(DynamicWall(liquidity, volume, d.wall_sensitivity_scaled))
  BY PricesInformed, Zenon DEF DynamicWall
<1>4. Informed(EffectiveLiquidity(amount, liquidity, cap, d, time))
  BY <1>2, <1>3, PricesInformed, Zenon DEF EffectiveLiquidity
<1>5. Informed(SellTradeCount(d, time))
  BY <1>1, PricesInformed, Zenon DEF SellTradeCount
<1>6. Informed(CadenceWave(d, time))
  BY <1>1, <1>5, PricesInformed, Zenon DEF CadenceWave
<1>7. \A u, wave : Informed(CadenceHaircut(u, wave))
  BY PricesInformed, Zenon DEF CadenceHaircut
<1>8. \A u : Informed(RedemptionHaircut(u, d.max_haircut_bps, d.exponent_scaled))
  BY <1>1, PricesInformed, Zenon DEF RedemptionHaircut
<1>9. \A u : Informed(Dampened(amount, u, d, time))
  BY <1>6, <1>7, <1>8, PricesInformed, Zenon DEF Dampened
<1>. QED
  BY <1>1, <1>4, <1>9, PricesInformed, Zenon DEF ApplyHardWall

\* Nor, then, has a whole sell.
LEMMA SaleInformed ==
    ASSUME NEW vector, NEW time, NEW amount, NEW bps, NEW in, NEW out, NEW minFee,
           NEW params
    PROVE  Informed(SellFromVector(vector, time, amount, bps, in, out, minFee, params))
<1>1. \A price, supply : Informed(Tvl(price, supply))
  BY PricesInformed, Zenon DEF Tvl
<1>2. \A price :
        Informed(SellAmountOut(amount, price, time, bps, in, out, minFee, params))
  BY <1>1, ConversionInformed, WallInformed, Zenon DEF SellAmountOut
<1>. QED
  BY <1>2, PricesInformed, Zenon DEF SellFromVector

\* An initialized venue never again reports that it is not: no update that
\* fails halfway takes back what an earlier one has read.
THEOREM InitializedForGoodAlways == Spec => []InitializedForGood
<1>1. VenueInv => InitializedForGood
  <2> SUFFICES ASSUME VenueInv, venue.initialized, NEW request \in QuoteRequests
               PROVE  Informed(Quote(venue, request, now))
    BY DEF InitializedForGood, Answer, Informed
  <2>1. /\ venue.token_info # <<>>
        /\ None \notin {venue.state, venue.prop_amm_pair_state,
                        venue.redemption_vault_token_in, venue.redemption_offer,
                        venue.circulating_supply_excluded_balance}
    BY DEF VenueInv, ReadInOrder
  <2>2. /\ \A output, shortage : Informed(QuoteResult(output, shortage))
        /\ Informed(NotEnoughLiquidity)
        /\ Informed(Err("ExactOutNotSupported"))
        /\ Informed(Err("InvalidMint"))
    BY DEF Informed, QuoteResult, NotEnoughLiquidity, Ok, Err
  <2>3. ASSUME NEW answer, Informed(answer) PROVE Informed(Priced(answer))
    <3>1. Informed(FromPricing(answer))
      BY <2>3 DEF FromPricing, Informed, Err
    <3>. QED
      BY <2>2, <3>1, Zenon DEF Priced
  <2>4. ASSUME NEW vector, NEW amount
        PROVE  Informed(BuyQuote(venue, vector, amount, now))
    <3>1. venue.state # None
      BY <2>1
    <3>. QED
      BY <2>2, <2>3, <3>1, PricesInformed, ConversionInformed, Zenon DEF BuyQuote, WithinMaxSupply
  <2>5. ASSUME NEW vector, NEW amount
        PROVE  Informed(SellQuote(venue, vector, amount, now))
    <3>1. /\ venue.prop_amm_pair_state # None
          /\ None \notin {venue.redemption_offer,
                          venue.circulating_supply_excluded_balance,
                          venue.redemption_vault_token_in}
      BY <2>1
    <3>. QED
      BY <2>2, <2>3, <3>1, SaleInformed, Zenon DEF SellQuote
  <2>. QED
    BY <2>1, <2>2, <2>4, <2>5, Zenon DEF Quote
<1>. QED
  BY <1>1, VenueInvariant, PTL
-----------------------------------------------------------------------------
\* Only a request between the two mints, either way, is ever answered with an
\* amount.
LEMMA QuotedDirection ==
    ASSUME NEW v, NEW request, NEW time, Output(Quote(v, request, time)) > 0
    PROVE  IsBuy(request) \/ IsSell(request)
<1>. DEFINE vector == FindActiveVector(v.offer.vectors, time)
<1>1. SUFFICES ASSUME ~IsBuy(request), ~IsSell(request) PROVE FALSE
  OBVIOUS
<1>2. Quote(v, request, time) \in {Err("ExactOutNotSupported"), Err("InvalidMint")}
  <2>. HIDE DEF vector
  <2>. QED
    BY <1>1, Zenon DEF Quote, vector
<1>. QED
  BY <1>2 DEF Output, Err

\* Whatever a torn or stale venue quotes it can also build.
THEOREM BuildsWhatItQuotesAlways == Spec => []BuildsWhatItQuotes
<1>1. VenueInv => BuildsWhatItQuotes
  <2> SUFFICES ASSUME VenueInv, NEW request \in QuoteRequests,
                      Output(Quote(venue, request, now)) > 0
               PROVE  GenerateSwapInstructionV2(venue, request, "user").ok
    BY DEF BuildsWhatItQuotes, Answer
  <2>1. venue.token_info # <<>>
    <3>1. SUFFICES ASSUME venue.token_info = <<>> PROVE FALSE
      OBVIOUS
    <3>2. Output(Quote(venue, request, now)) = 0
      BY <3>1, NothingQuoted DEF NoOutput
    <3>. QED
      BY <3>2
  <2>2. venue.state # None
    BY <2>1 DEF VenueInv, ReadInOrder
  <2>3. IsBuy(request) \/ IsSell(request)
    BY QuotedDirection
  <2>4. \A discriminator, amount, minimum, accounts :
            Instruction(discriminator, amount, minimum, accounts).ok
    BY DEF Instruction, Ok
  <2>. QED
    BY <2>1, <2>2, <2>3, <2>4, Zenon DEF GenerateSwapInstructionV2
<1>. QED
  BY <1>1, VenueInvariant, PTL

\* The router may go by the result: Ok comes of an update that has read and
\* copied every account, the vault that pays included.
THEOREM OkMeansCurrentAlways == Spec => []OkMeansCurrent
<1>1. OkMeansCurrent
  <2> SUFFICES ASSUME UpdateResult(cache).ok
               PROVE  Readable(cache) /\ CopyOf(Updated(venue, cache), cache)
    BY DEF OkMeansCurrent
  <2>. DEFINE order == ReadOrder(cache)
  <2>1. \A i \in DOMAIN order : Sound(cache, order[i])
    <3>. HIDE DEF order
    <3>. QED
      BY Zenon DEF UpdateResult, order
  <2>2. /\ Sound(cache, "offer") /\ Sound(cache, "state") /\ Sound(cache, "token_in")
        /\ Sound(cache, "token_out") /\ Sound(cache, "pair")
        /\ Sound(cache, VaultSlot(cache)) /\ Sound(cache, "redemption")
        /\ Sound(cache, "excluded")
    <3>1. /\ DOMAIN order = 1..8
          /\ order[1] = "offer" /\ order[2] = "state" /\ order[3] = "token_in"
          /\ order[4] = "token_out" /\ order[5] = "pair" /\ order[6] = VaultSlot(cache)
          /\ order[7] = "redemption" /\ order[8] = "excluded"
      BY DEF ReadOrder
    <3>. HIDE DEF order
    <3>. QED
      BY <2>1, <3>1
  <2>3. PayingVault(cache) = VaultSlot(cache)
    BY DEF PayingVault, VaultSlot
  <2>4. Readable(cache)
    BY <2>2, <2>3 DEF Readable, Slots
  <2>5. /\ OfferRead(cache) /\ StateRead(cache) /\ TokensRead(cache) /\ PairRead(cache)
        /\ VaultRead(cache) /\ RedemptionRead(cache) /\ ExcludedRead(cache)
    BY <2>2 DEF OfferRead, StateRead, TokensRead, PairRead, VaultRead, RedemptionRead,
                ExcludedRead
  <2>6. CopyOf(Updated(venue, cache), cache)
    BY <2>3, <2>5 DEF CopyOf, Updated, TokenInfoAfter, InitializedAfter
  <2>. QED
    BY <2>4, <2>6
<1>. QED
  BY <1>1, PTL
-----------------------------------------------------------------------------
\* Buying and selling back on one copy of the accounts never returns more than
\* was paid: what the price, the decimals and the fees round away is lost in
\* both directions, and the wall only takes.
THEOREM RoundTripNeverProfitsAlways == Spec => []RoundTripNeverProfits
<1>1. VenueInv => RoundTripNeverProfits
  <2> SUFFICES ASSUME VenueInv, NEW amount \in Amounts, NEW sold,
                      sold = Output(Answer(Buy(amount))), sold > 0
               PROVE  Output(Answer(Sell(sold))) <= amount
    BY DEF RoundTripNeverProfits, Buy, Sell
  <2>. DEFINE v == venue
              vector == FindActiveVector(v.offer.vectors, now)
              price == StepPrice(vector.val, now)
              in == v.token_info[1].decimals
              out == v.token_info[2].decimals
              bps == v.offer.fee_basis_points_permissionless
              redemption == v.redemption_offer
              pair == v.prop_amm_pair_state
              back == SellQuote(v, vector.val, sold, now)
              raw == RawAmountOut(sold, price.val,
                         redemption.fee_basis_points_prop_amm_sell,
                         pair.minimum_sell_haircut_onyc, out, in)
  <2>1. amount \in U64 /\ amount \in Nat
    BY VenueAssumption, Naturals64
  <2>2. VenueTyped(v)
    BY DEF VenueInv, TypeOK, VenueTyped
  <2>3. v.token_info # <<>>
    <3>1. SUFFICES ASSUME v.token_info = <<>> PROVE FALSE
      OBVIOUS
    <3>2. Buy(amount) \in QuoteRequests
      BY DEF Buy, QuoteRequests
    <3>3. Output(Quote(v, Buy(amount), now)) = 0
      BY <3>1, <3>2, NothingQuoted DEF NoOutput
    <3>. QED
      BY <3>3 DEF Answer
  <2>4. in \in Nat /\ out \in Nat
    BY <2>2, <2>3 DEF VenueTyped, TokenInfos
  <2>5. /\ IsBuy(Buy(amount)) /\ ~IsSell(Buy(amount)) /\ Buy(amount).amount = amount
        /\ IsSell(Sell(sold)) /\ ~IsBuy(Sell(sold)) /\ Sell(sold).amount = sold
    BY MintAssumption DEF IsBuy, IsSell, Buy, Sell
  <2>. HIDE DEF v, in, out
  <2>6. /\ price.ok
        /\ BuyAmountOut(amount, price.val, bps, in, out).ok
        /\ BuyAmountOut(amount, price.val, bps, in, out).val = sold
    <3>1. Output(Quote(v, Buy(amount), now)) # 0
      BY DEF Answer, v
    <3>2. Output(BuyQuote(v, vector.val, amount, now)) = sold
      BY <2>5, <3>1, QuotePriced DEF Answer, v
    <3>3. Output(BuyQuote(v, vector.val, amount, now)) > 0
      BY <3>2
    <3>. DEFINE bought == BuyFromVector(vector.val, now, amount, bps, in, out)
    <3>4. bought.ok /\ bought.val = sold
      <4>. HIDE DEF vector
      <4>. QED
        BY <3>2, <3>3, BuyQuotePriced DEF in, out
    <3>5. bought = IF price.ok THEN BuyAmountOut(amount, price.val, bps, in, out) ELSE price
      <4>. HIDE DEF vector
      <4>. QED
        BY Zenon DEF BuyFromVector
    <3>. HIDE DEF bought, price
    <3>. QED
      BY <3>4, <3>5
  <2>7. price.val \in Nat
    <3>. HIDE DEF vector
    <3>. QED
      BY <2>6, PriceTyped, Naturals64
  <2>8. CASE Output(Answer(Sell(sold))) = 0
    BY <2>1, <2>8
  <2>9. CASE Output(Answer(Sell(sold))) # 0
    <3>1. Output(Quote(v, Sell(sold), now)) # 0
      BY <2>9 DEF Answer, v
    <3>2. Output(Answer(Sell(sold))) = Output(back) /\ Output(back) # 0
      BY <2>5, <3>1, QuotePriced DEF Answer, v
    <3>. DEFINE params == [liquidity |-> v.redemption_vault_token_in,
                           liquidity_cap_target_bps |-> redemption.vault_target_bps,
                           circulating_supply |-> SatSub(v.token_out_supply,
                                              v.circulating_supply_excluded_balance),
                           dampening |-> ToDampeningState(pair)]
                quoted == SellFromVector(vector.val, now, sold,
                              redemption.fee_basis_points_prop_amm_sell, out, in,
                              pair.minimum_sell_haircut_onyc, params)
    <3>3. /\ None \notin {pair, redemption, v.redemption_vault_token_in}
          /\ quoted.ok
          /\ Output(back) = quoted.val
      <4>. HIDE DEF vector
      <4>. QED
        BY <3>2, SellQuotePriced DEF in, out
    <3>4. /\ pair \in PropAmmPairState
          /\ redemption \in RedemptionOffers
          /\ v.redemption_vault_token_in \in U64
      BY <2>2, <3>3 DEF VenueTyped
    <3>5. /\ params.liquidity \in U64
          /\ params.liquidity_cap_target_bps \in Nat
          /\ params.dampening \in DampeningState
      BY <3>4, DampeningTyped DEF RedemptionOffers
    <3>6. /\ redemption.fee_basis_points_prop_amm_sell \in Nat
          /\ pair.minimum_sell_haircut_onyc \in Nat
      BY <3>4, Naturals64 DEF RedemptionOffers, PropAmmPairState
    <3>7. raw.ok /\ quoted.val \in 0..raw.val
      <4>. HIDE DEF vector, params, redemption, pair
      <4>. QED
        BY <2>4, <3>3, <3>5, SellBelowRaw DEF raw, price, quoted
    <3>8. raw.val <= amount /\ raw.val \in Nat
      <4>1. v.offer.fee_basis_points_permissionless \in Nat
        BY <2>2 DEF VenueTyped, Offers
      <4>. HIDE DEF price, redemption, pair
      <4>2. raw.val <= amount
        BY <2>1, <2>4, <2>6, <2>7, <3>6, <3>7, <4>1, RoundTripLoses
      <4>3. raw.val \in U64
        BY <2>4, <3>7, RawTyped
      <4>. QED
        BY <4>2, <4>3, Naturals64
    <3>. HIDE DEF quoted, raw
    <3>. QED
      BY <2>1, <3>2, <3>3, <3>7, <3>8
  <2>. QED
    BY <2>8, <2>9
<1>. QED
  BY <1>1, VenueInvariant, PTL
-----------------------------------------------------------------------------
(***************************************************************************)
(* The venue implements an ordered copy.                                   *)
(***************************************************************************)
\* No account that can be read holds nothing.
LEMMA SourcePresent == TypeOK => \A i \in 1..7 : SourcePlaces[i] # None
<1> SUFFICES ASSUME \A slot \in Slots : cache[slot] \in AccountOf(slot)
             PROVE  \A i \in 1..7 : SourcePlaces[i] # None
  BY DEF TypeOK
<1>. DEFINE tokens == <<cache["token_in"].data, cache["token_out"].data,
                        cache["token_out"].data.supply>>
<1>1. /\ cache["offer"].data # None
      /\ cache["state"].data # None
      /\ cache["pair"].data # None
      /\ cache[VaultSlot(cache)].data # None
      /\ cache["redemption"].data # None
      /\ cache["excluded"].data # None
  BY ContentTyped, NoneAssumption DEF VaultSlot
<1>2. tokens # None
  <2>1. tokens \in TokenInfos \X TokenInfos \X U64
    BY ContentTyped DEF TokenInfos
  <2>. QED
    BY <2>1, NoneAssumption
<1>. HIDE DEF tokens
<1>3. SourcePlaces = <<cache["offer"].data, cache["state"].data, tokens,
                       cache["pair"].data, cache[VaultSlot(cache)].data,
                       cache["redemption"].data, cache["excluded"].data>>
  BY DEF SourcePlaces, tokens
<1>. QED
  BY <1>1, <1>2, <1>3

\* A venue built anew has copied the first place.
LEMMA NewVenueBlank ==
    ASSUME venue = NewVenue(cache["offer"].data)
    PROVE  CopyPlaces = [i \in 1..7 |-> IF i = 1 THEN SourcePlaces[1] ELSE None]
<1>1. CopyPlaces = <<cache["offer"].data, None, None, None, None, None, None>>
  BY DEF CopyPlaces, NewVenue
<1>2. SourcePlaces[1] = cache["offer"].data
  BY DEF SourcePlaces
<1>. QED
  BY <1>1, <1>2

\* Wherever an update stops, it has copied the places up to there.
LEMMA UpdateCopies ==
    ASSUME UpdateState
    PROVE  \E k \in 0..7 :
            /\ CopyPlaces' = [i \in 1..7 |-> IF i <= k THEN SourcePlaces[i]
                                             ELSE CopyPlaces[i]]
            /\ venue'.initialized = (venue.initialized \/ k = 7)
<1>. DEFINE reached == <<OfferRead(cache), StateRead(cache), TokensRead(cache),
                         PairRead(cache), VaultRead(cache), RedemptionRead(cache),
                         ExcludedRead(cache)>>
            old == CopyPlaces
            new == CopyPlaces'
            source == SourcePlaces
<1>1. \E k \in 0..7 : \A i \in 1..7 : reached[i] <=> i <= k
  <2>1. /\ StateRead(cache) => OfferRead(cache)
        /\ TokensRead(cache) => StateRead(cache)
        /\ PairRead(cache) => TokensRead(cache)
        /\ VaultRead(cache) => PairRead(cache)
        /\ RedemptionRead(cache) => VaultRead(cache)
        /\ ExcludedRead(cache) => RedemptionRead(cache)
    BY DEF StateRead, TokensRead, PairRead, VaultRead, RedemptionRead, ExcludedRead
  <2>. QED
    BY <2>1
<1>2. PICK k \in 0..7 : \A i \in 1..7 : reached[i] <=> i <= k
  BY <1>1
<1>3. venue' = Updated(venue, cache)
  BY DEF UpdateState
<1>4. /\ new[1] = IF OfferRead(cache) THEN source[1] ELSE old[1]
      /\ new[2] = IF StateRead(cache) THEN source[2] ELSE old[2]
      /\ new[3] = IF TokensRead(cache) THEN source[3] ELSE old[3]
      /\ new[4] = IF PairRead(cache) THEN source[4] ELSE old[4]
      /\ new[5] = IF VaultRead(cache) THEN source[5] ELSE old[5]
      /\ new[6] = IF RedemptionRead(cache) THEN source[6] ELSE old[6]
      /\ new[7] = IF ExcludedRead(cache) THEN source[7] ELSE old[7]
  <2>1. /\ new[1] = venue'.offer /\ old[1] = venue.offer
        /\ new[2] = venue'.state /\ old[2] = venue.state
        /\ new[4] = venue'.prop_amm_pair_state /\ old[4] = venue.prop_amm_pair_state
        /\ new[5] = venue'.redemption_vault_token_in
        /\ old[5] = venue.redemption_vault_token_in
        /\ new[6] = venue'.redemption_offer /\ old[6] = venue.redemption_offer
        /\ new[7] = venue'.circulating_supply_excluded_balance
        /\ old[7] = venue.circulating_supply_excluded_balance
    BY DEF CopyPlaces
  <2>2. /\ source[1] = cache["offer"].data /\ source[2] = cache["state"].data
        /\ source[4] = cache["pair"].data
        /\ source[5] = cache[VaultSlot(cache)].data
        /\ source[6] = cache["redemption"].data /\ source[7] = cache["excluded"].data
    BY DEF SourcePlaces
  <2>3. new[3] = IF TokensRead(cache) THEN source[3] ELSE old[3]
    <3>1. CASE TokensRead(cache)
      <4>1. /\ venue'.token_info = <<cache["token_in"].data, cache["token_out"].data>>
            /\ venue'.token_out_supply = cache["token_out"].data.supply
        BY <1>3, <3>1 DEF Updated, TokenInfoAfter
      <4>. QED
        BY <3>1, <4>1 DEF CopyPlaces, SourcePlaces
    <3>2. CASE ~TokensRead(cache)
      <4>1. /\ venue'.token_info = venue.token_info
            /\ venue'.token_out_supply = venue.token_out_supply
        BY <1>3, <3>2 DEF Updated, TokenInfoAfter
      <4>. QED
        BY <3>2, <4>1 DEF CopyPlaces
    <3>. QED
      BY <3>1, <3>2
  <2>. HIDE DEF old, new, source
  <2>. QED
    BY <1>3, <2>1, <2>2, <2>3 DEF Updated
<1>5. \A i \in 1..7 : new[i] = IF i <= k THEN source[i] ELSE old[i]
  <2>. HIDE DEF old, new, source
  <2>. QED
    BY <1>2, <1>4
<1>6. new = [i \in 1..7 |-> IF i <= k THEN source[i] ELSE old[i]]
  <2>1. new = [i \in 1..7 |-> new[i]]
    BY DEF CopyPlaces
  <2>. HIDE DEF old, new, source
  <2>. QED
    BY <1>5, <2>1
<1>7. venue'.initialized = (venue.initialized \/ k = 7)
  BY <1>2, <1>3 DEF Updated, InitializedAfter
<1>. QED
  BY <1>6, <1>7

\* Every step of the venue is a step of the copy or leaves it alone: what
\* happens on chain is not seen, a refreshed account changes the source, a venue
\* built anew begins a copy, and an update continues it.
LEMMA CopyStep == VenueInv /\ [Next]_vars => [Copy!Next]_(Copy!vars)
<1> SUFFICES ASSUME VenueInv, [Next]_vars PROVE [Copy!Next]_(Copy!vars)
  OBVIOUS
<1>1. ASSUME UNCHANGED <<cache, venue>> PROVE UNCHANGED Copy!vars
  BY <1>1 DEF Copy!vars, SourcePlaces, CopyPlaces, VaultSlot
<1>2. ASSUME NEW slot \in Slots, Write(slot) PROVE UNCHANGED Copy!vars
  BY <1>1, <1>2 DEF Write
<1>3. ASSUME NEW slot \in Slots, Refresh(slot) PROVE Copy!Change
  <2>1. TypeOK'
    BY VenueStep DEF VenueInv
  <2>2. (\A i \in 1..7 : SourcePlaces[i] # None)'
    BY <2>1, SourcePresent, PTL
  <2>3. UNCHANGED <<CopyPlaces, venue.initialized>>
    BY <1>3 DEF Refresh, CopyPlaces
  <2>. QED
    BY <2>2, <2>3 DEF Copy!Change, Copy!Present, Copy!Places
<1>4. ASSUME UNCHANGED cache PROVE UNCHANGED SourcePlaces
  BY <1>4 DEF SourcePlaces, VaultSlot
<1>5. CASE FromAccount
  <2>1. venue' = NewVenue(cache["offer"].data) /\ UNCHANGED cache
    BY <1>5 DEF FromAccount
  <2>2. CopyPlaces' = [i \in 1..7 |-> IF i = 1 THEN SourcePlaces[1] ELSE None]
    <3>1. CopyPlaces' = <<cache["offer"].data, None, None, None, None, None, None>>
      BY <2>1 DEF CopyPlaces, NewVenue
    <3>2. SourcePlaces[1] = cache["offer"].data
      BY DEF SourcePlaces
    <3>. QED
      BY <3>1, <3>2
  <2>3. venue'.initialized = FALSE
    BY <2>1 DEF NewVenue
  <2>. QED
    BY <1>4, <2>1, <2>2, <2>3 DEF Copy!Next, Copy!Begin, Copy!Blank, Copy!Places
<1>6. CASE UpdateState
  <2>1. UNCHANGED SourcePlaces
    BY <1>4, <1>6 DEF UpdateState
  <2>. QED
    BY <1>6, <2>1, UpdateCopies DEF Copy!Next, Copy!Update, Copy!Places
<1>7. CASE Tick
  BY <1>1, <1>7 DEF Tick
<1>8. CASE UNCHANGED vars
  BY <1>1, <1>8 DEF vars
<1>. QED
  BY <1>2, <1>3, <1>5, <1>6, <1>7, <1>8 DEF Next, Copy!Next

\* The venue, however its updates are cut short, is an ordered copy of the
\* accounts: the abstract specification, implemented.
THEOREM CopiesPrefixAlways == Spec => CopiesPrefix
<1>1. Init => Copy!Init
  <2> SUFFICES ASSUME Init PROVE Copy!Init
    OBVIOUS
  <2>1. \A i \in 1..7 : SourcePlaces[i] # None
    BY VenueInit, SourcePresent DEF VenueInv
  <2>2. venue = NewVenue(cache["offer"].data)
    BY DEF Init
  <2>3. CopyPlaces = [i \in 1..7 |-> IF i = 1 THEN SourcePlaces[1] ELSE None]
    BY <2>2, NewVenueBlank
  <2>4. venue.initialized = FALSE
    BY <2>2 DEF NewVenue
  <2>. QED
    BY <2>1, <2>3, <2>4 DEF Copy!Init, Copy!Present, Copy!Blank, Copy!Places
<1>. QED
  BY <1>1, CopyStep, VenueInvariant, PTL DEF Spec, CopiesPrefix, Copy!Spec

\* A gap could also come from a source that holds nothing.
GaplessInv == Copy!Gapless /\ Copy!Present

\* Before a place of the new copy stand places of the source, which are
\* present, or, where the update stopped, places of the old copy.
LEMMA UpdateGapless ==
    ASSUME GaplessInv, NEW k \in 0..7, Copy!Update(k)
    PROVE  GaplessInv'
<1>. DEFINE old == CopyPlaces
            new == CopyPlaces'
            source == SourcePlaces
<1>1. /\ new = [i \in 1..7 |-> IF i <= k THEN source[i] ELSE old[i]]
      /\ venue'.initialized = (venue.initialized \/ k = 7)
      /\ SourcePlaces' = source
  BY DEF Copy!Update, Copy!Places
<1>2. /\ \A i \in 1..7 : source[i] # None
      /\ \A i, j \in 1..7 : i < j /\ old[j] # None => old[i] # None
      /\ venue.initialized => \A i \in 1..7 : old[i] # None
  BY DEF GaplessInv, Copy!Gapless, Copy!Present, Copy!Places
<1>. HIDE DEF old, new, source
<1>3. ASSUME NEW i \in 1..7, NEW j \in 1..7, i < j, new[j] # None
      PROVE  new[i] # None
  <2>1. CASE i <= k
    BY <1>1, <1>2, <2>1
  <2>2. CASE ~(i <= k)
    <3>1. ~(j <= k)
      BY <1>3, <2>2
    <3>2. new[j] = old[j] /\ new[i] = old[i]
      BY <1>1, <2>2, <3>1
    <3>. QED
      BY <1>2, <1>3, <3>2
  <2>. QED
    BY <2>1, <2>2
<1>4. ASSUME venue'.initialized, NEW i \in 1..7
      PROVE  new[i] # None
  <2>1. CASE k = 7
    BY <1>1, <1>2, <2>1
  <2>2. CASE k # 7
    <3>1. old[i] # None
      BY <1>1, <1>2, <1>4, <2>2
    <3>. QED
      BY <1>1, <1>2, <3>1
  <2>. QED
    BY <2>1, <2>2
<1>5. \A i \in 1..7 : SourcePlaces'[i] # None
  BY <1>1, <1>2
<1>. QED
  BY <1>3, <1>4, <1>5 DEF GaplessInv, Copy!Gapless, Copy!Present, Copy!Places, new

\* No place is copied before its predecessors and a whole copy misses none,
\* wherever the updates stop: what update_state owes to its order alone.
THEOREM GaplessAlways == Copy!Spec => []Copy!Gapless
<1>1. Copy!Init => GaplessInv
  BY DEF Copy!Init, Copy!Blank, Copy!Places, Copy!Gapless, Copy!Present, GaplessInv
<1>2. GaplessInv /\ [Copy!Next]_(Copy!vars) => GaplessInv'
  <2> SUFFICES ASSUME GaplessInv, [Copy!Next]_(Copy!vars) PROVE GaplessInv'
    OBVIOUS
  <2>1. CASE Copy!Change
    BY <2>1 DEF Copy!Change, Copy!Gapless, GaplessInv
  <2>2. CASE Copy!Begin
    <3>1. Copy!Present'
      BY <2>2 DEF Copy!Begin, Copy!Present, GaplessInv
    <3>2. Copy!Gapless'
      BY <2>2 DEF Copy!Begin, Copy!Blank, Copy!Gapless, Copy!Present, Copy!Places,
                  GaplessInv
    <3>. QED
      BY <3>1, <3>2 DEF GaplessInv
  <2>3. ASSUME NEW k \in 0..7, Copy!Update(k) PROVE GaplessInv'
    BY <2>3, UpdateGapless
  <2>4. CASE UNCHANGED Copy!vars
    BY <2>4 DEF Copy!vars, Copy!Gapless, Copy!Present, GaplessInv
  <2>. QED
    BY <2>1, <2>2, <2>3, <2>4 DEF Copy!Next
<1>3. GaplessInv => Copy!Gapless
  BY DEF GaplessInv
<1>. QED
  BY <1>1, <1>2, <1>3, PTL DEF Copy!Spec

\* What the abstract copy promises holds of the venue, because the venue
\* implements it: it never holds an account without those read before it.
THEOREM VenueGapless == Spec => []Copy!Gapless
BY CopiesPrefixAlways, GaplessAlways, PTL DEF CopiesPrefix

\* The instruction built after a quote names every account the quote was
\* computed from, and may write those the swap changes, however the venue came
\* to hold them.
THEOREM NamesWhatItQuotedAlways == Spec => []NamesWhatItQuoted
<1>1. BuildsWhatItQuotes => NamesWhatItQuoted
  <2> SUFFICES ASSUME BuildsWhatItQuotes,
                      NEW request \in {Buy(amount) : amount \in Amounts}
                                        \union {Sell(amount) : amount \in Amounts},
                      Output(Answer(request)) > 0,
                      NEW slot \in QuotedFrom(request)
               PROVE  \E i \in DOMAIN GenerateSwapInstructionV2(venue, request,
                                                                "user").val.accounts :
                          /\ GenerateSwapInstructionV2(venue, request,
                                   "user").val.accounts[i].key = KeyOf(slot)
                          /\ slot \in Changed =>
                                 GenerateSwapInstructionV2(venue, request,
                                     "user").val.accounts[i].writable
    BY DEF NamesWhatItQuoted
  <2>. DEFINE accounts == GenerateSwapInstructionV2(venue, request, "user").val.accounts
  <2>1. request \in QuoteRequests
    BY DEF QuoteRequests, Buy, Sell
  <2>2. GenerateSwapInstructionV2(venue, request, "user").ok
    BY <2>1 DEF BuildsWhatItQuotes
  <2>3. Needed(accounts, venue)
    BY <2>2, BuiltNames
  <2>. HIDE DEF accounts
  <2>4. CASE slot \in {"offer", "token_in", "token_out", "pair", "vault", "vault_22"}
    <3>1. Lists(accounts, Writable(KeyOf(slot)))
      BY <2>3, <2>4 DEF Needed, QuotedFrom
    <3>2. PICK i \in DOMAIN accounts : accounts[i] = Writable(KeyOf(slot))
      BY <3>1 DEF Lists
    <3>3. accounts[i].key = KeyOf(slot) /\ accounts[i].writable
      BY <3>2 DEF Writable, Meta
    <3>. QED
      BY <3>3 DEF accounts
  <2>5. CASE slot \in {"state", "redemption", "excluded"}
    <3>1. Lists(accounts, Readonly(KeyOf(slot)))
      BY <2>3, <2>5 DEF Needed
    <3>2. PICK i \in DOMAIN accounts : accounts[i] = Readonly(KeyOf(slot))
      BY <3>1 DEF Lists
    <3>3. accounts[i].key = KeyOf(slot) /\ slot \notin Changed
      BY <2>5, <3>2 DEF Readonly, Meta, Changed
    <3>. QED
      BY <3>3 DEF accounts
  <2>. QED
    BY <2>4, <2>5 DEF QuotedFrom
<1>. QED
  BY <1>1, BuildsWhatItQuotesAlways, PTL
=============================================================================
