------------------------------- MODULE Venue -------------------------------
(***************************************************************************)
(* OnreVenue without time (trading_venue.rs): the accounts behind a venue, *)
(* the venue an update leaves, the update's result, status and quote.  An  *)
(* update stops at the first account it cannot read and keeps what it has  *)
(* assigned by then.                                                       *)
(***************************************************************************)
EXTENDS SellMath, PairState

CONSTANTS
    None,           \* an Option that holds nothing
    TokenIn,        \* the mints of the offer: the stable asset,
    TokenOut,       \* ONyc,
    OtherMint,      \* and a mint the offer does not trade
    Keys            \* the addresses a state account may name

Slots == {"offer", "state", "token_in", "token_out", "pair", "redemption",
          "vault", "vault_22", "excluded"}

\* How an account can fail the checks update_state makes on it.
FaultsOf(slot) ==
    CASE slot = "offer" -> {"missing", "foreign", "corrupt", "misplaced"}
      [] slot \in {"state", "token_in", "token_out"} -> {"missing", "foreign", "corrupt"}
      [] OTHER -> {"missing", "corrupt"}

Offers ==
    [vectors : Seq(PriceVector), disabled : BOOLEAN, allow_permissionless : BOOLEAN,
     fee_basis_points_permissionless : Nat]
States == [is_killed : BOOLEAN, max_supply : U64, boss : Keys, main_offer : Keys]
TokenInfos == [decimals : Nat, is_token_2022 : BOOLEAN, supply : U64]
RedemptionOffers ==
    [fee_basis_points_prop_amm_sell : Nat, vault_target_bps : Nat, disabled : BOOLEAN]

\* What an account of a slot holds; a vault and the excluded balance an amount.
DataOf(slot) ==
    CASE slot = "offer" -> Offers
      [] slot = "state" -> States
      [] slot \in {"token_in", "token_out"} -> TokenInfos
      [] slot = "pair" -> PropAmmPairState
      [] slot = "redemption" -> RedemptionOffers
      [] OTHER -> U64

AccountOf(slot) == [fault : FaultsOf(slot) \union {"none"}, data : DataOf(slot)]

ASSUME MintAssumption == TokenIn # TokenOut /\ OtherMint \notin {TokenIn, TokenOut}

\* What is read from an account is never mistaken for nothing.
ASSUME NoneAssumption ==
    /\ None \notin States
    /\ None \notin RedemptionOffers
    /\ None \notin PropAmmPairState
    /\ None \notin U64
    /\ None \notin Offers
    /\ None \notin TokenInfos \X TokenInfos \X U64
-----------------------------------------------------------------------------
(***************************************************************************)
(* update_state: each predicate says that the update gets past an account. *)
(***************************************************************************)
Sound(c, slot) == c[slot].fault = "none"

\* Mutant: the associated account of the legacy token program, always.
VaultSlot_Legacy(c) == "vault"

\* Only the vault under the token program of token_in is looked at.
VaultSlot(c) == IF c["token_in"].data.is_token_2022 THEN "vault_22" ELSE "vault"

\* Mutant: from_account's check on permissionless takers repeated here.
OfferRead_Open(c) == Sound(c, "offer") /\ c["offer"].data.allow_permissionless

OfferRead(c) == Sound(c, "offer")

\* Mutant: the state account is read after the mints.
StateRead_Late(c) ==
    OfferRead(c) /\ Sound(c, "token_in") /\ Sound(c, "token_out") /\ Sound(c, "state")

StateRead(c) == OfferRead(c) /\ Sound(c, "state")

\* Mutant: the mints are read whether or not the state account is.
TokensRead_Stateless(c) ==
    OfferRead(c) /\ Sound(c, "token_in") /\ Sound(c, "token_out")

TokensRead(c) == StateRead(c) /\ Sound(c, "token_in") /\ Sound(c, "token_out")
PairRead(c) == TokensRead(c) /\ Sound(c, "pair")
VaultRead(c) == PairRead(c) /\ Sound(c, VaultSlot(c))
RedemptionRead(c) == VaultRead(c) /\ Sound(c, "redemption")
ExcludedRead(c) == RedemptionRead(c) /\ Sound(c, "excluded")

\* Mutant: each mint is pushed as soon as it is read.
TokenInfoAfter_Pushed(v, c) ==
    IF TokensRead(c) THEN <<c["token_in"].data, c["token_out"].data>>
    ELSE IF StateRead(c) /\ Sound(c, "token_in") THEN <<c["token_in"].data>>
    ELSE v.token_info

\* Mutant: what was read before is kept.
TokenInfoAfter_Appended(v, c) ==
    IF TokensRead(c) THEN v.token_info \o <<c["token_in"].data, c["token_out"].data>>
    ELSE v.token_info

\* Both mints are read before either is assigned.
TokenInfoAfter(v, c) ==
    IF TokensRead(c) THEN <<c["token_in"].data, c["token_out"].data>> ELSE v.token_info

\* Mutant: the flag is set before the last two accounts are read.
InitializedAfter_Early(v, c) == v.initialized \/ VaultRead(c)

\* The last step of an update; never reset.
InitializedAfter(v, c) == v.initialized \/ ExcludedRead(c)

\* The venue after an update from c.
Updated(v, c) ==
    [offer |-> IF OfferRead(c) THEN c["offer"].data ELSE v.offer,
     state |-> IF StateRead(c) THEN c["state"].data ELSE v.state,
     token_info |-> TokenInfoAfter(v, c),
     token_out_supply |-> IF TokensRead(c) THEN c["token_out"].data.supply
                          ELSE v.token_out_supply,
     prop_amm_pair_state |-> IF PairRead(c) THEN c["pair"].data
                             ELSE v.prop_amm_pair_state,
     redemption_vault_token_in |-> IF VaultRead(c) THEN c[VaultSlot(c)].data
                                   ELSE v.redemption_vault_token_in,
     redemption_offer |-> IF RedemptionRead(c) THEN c["redemption"].data
                          ELSE v.redemption_offer,
     circulating_supply_excluded_balance |->
        IF ExcludedRead(c) THEN c["excluded"].data
        ELSE v.circulating_supply_excluded_balance,
     initialized |-> InitializedAfter(v, c)]

\* The order in which an update looks at the accounts.
ReadOrder(c) ==
    <<"offer", "state", "token_in", "token_out", "pair", VaultSlot(c), "redemption",
      "excluded">>

\* The error for an account that fails a check.
ErrorOf(slot, fault) ==
    CASE fault = "missing" -> "NoAccountFound"
      [] fault = "corrupt" -> "DeserializationFailed"
      [] fault = "misplaced" -> "InvalidPda"
      [] OTHER -> IF slot \in {"token_in", "token_out"} THEN "UnsupportedTokenProgram"
                  ELSE "InvalidAccountOwner"

\* The account an error names: for a vault that cannot be unpacked always the
\* one of the legacy token program, for a foreign mint none but its owner.
Blamed(slot, fault) ==
    IF slot = "vault_22" /\ fault = "corrupt" THEN "vault"
    ELSE IF slot \in {"token_in", "token_out"} /\ fault = "foreign" THEN None
    ELSE slot

\* What update_state returns: the first check that fails, and the account blamed.
UpdateResult(c) ==
    LET order == ReadOrder(c)
        Stops(i) == ~Sound(c, order[i]) /\ \A j \in 1..(i - 1) : Sound(c, order[j])
    IN  IF \A i \in DOMAIN order : Sound(c, order[i]) THEN Ok("updated")
        ELSE LET slot == order[CHOOSE i \in DOMAIN order : Stops(i)]
             IN  [ok |-> FALSE, val |-> Blamed(slot, c[slot].fault),
                  err |-> ErrorOf(slot, c[slot].fault)]

\* What from_account builds around an offer.
NewVenue(offer) ==
    [offer |-> offer, state |-> None, token_info |-> <<>>, token_out_supply |-> 0,
     prop_amm_pair_state |-> None, redemption_vault_token_in |-> None,
     redemption_offer |-> None, circulating_supply_excluded_balance |-> None,
     initialized |-> FALSE]
-----------------------------------------------------------------------------
(***************************************************************************)
(* status and quote: pure functions of the venue and the clock.            *)
(***************************************************************************)
Status(v) ==
    IF v.state # None /\ v.state.is_killed THEN "KillSwitchActive"
    ELSE IF v.offer.disabled THEN "OfferDisabled"
    ELSE "Active"

IsBuy(request) == request.input_mint = TokenIn /\ request.output_mint = TokenOut
IsSell(request) == request.input_mint = TokenOut /\ request.output_mint = TokenIn

QuoteResult(output, shortage) ==
    Ok([expected_output |-> output, not_enough_liquidity |-> shortage])
NotEnoughLiquidity == QuoteResult(0, TRUE)

\* The error of the pricing crate as one of the venue's: under its own name, or
\* wrapped.
FromPricing(error) ==
    IF error.err \in {"MathOverflow", "NoActiveVector", "ZeroPriceNotAllowed",
                      "ZeroPriceFixDurationNotAllowed", "DecimalsExceedMax"}
    THEN error
    ELSE [ok |-> FALSE, val |-> error.err, err |-> "CalculationError"]

\* The answer to a priced amount.
Priced(amountOut) ==
    IF amountOut.ok THEN QuoteResult(amountOut.val, FALSE) ELSE FromPricing(amountOut)

\* The answer to a buy of amountOut: the flag if it would pass the supply cap.
WithinMaxSupply(v, amountOut) ==
    LET supply == CheckedAdd(v.token_out_supply, amountOut.val)
    IN  IF ~amountOut.ok \/ v.state.max_supply = 0 THEN Priced(amountOut)
        ELSE IF ~supply.ok THEN Overflow
        ELSE IF supply.val > v.state.max_supply THEN NotEnoughLiquidity
        ELSE Priced(amountOut)

BuyQuote(v, vector, amount, time) ==
    IF v.state = None THEN Err("NotInitialized")
    ELSE WithinMaxSupply(v, BuyFromVector(vector, time, amount,
                                v.offer.fee_basis_points_permissionless,
                                v.token_info[1].decimals, v.token_info[2].decimals))

\* The vault is read as the payout, so the decimals swap places.
SellQuote(v, vector, amount, time) ==
    LET pair == v.prop_amm_pair_state
        params ==
            [liquidity |-> v.redemption_vault_token_in,
             liquidity_cap_target_bps |-> v.redemption_offer.vault_target_bps,
             circulating_supply |-> SatSub(v.token_out_supply,
                                           v.circulating_supply_excluded_balance),
             dampening |-> ToDampeningState(pair)]
    IN  IF pair = None THEN Err("NotInitialized")
        ELSE IF ~pair.enabled THEN NotEnoughLiquidity
        ELSE IF None \in {v.redemption_offer, v.circulating_supply_excluded_balance,
                          v.redemption_vault_token_in}
             THEN Err("NotInitialized")
        ELSE Priced(SellFromVector(vector, time, amount,
                        v.redemption_offer.fee_basis_points_prop_amm_sell,
                        v.token_info[2].decimals, v.token_info[1].decimals,
                        pair.minimum_sell_haircut_onyc, params))

Quote(v, request, time) ==
    LET vector == FindActiveVector(v.offer.vectors, time)
    IN  IF request.swap_type = "ExactOut" THEN Err("ExactOutNotSupported")
        ELSE IF ~IsBuy(request) /\ ~IsSell(request) THEN Err("InvalidMint")
        ELSE IF request.amount = 0 THEN QuoteResult(0, FALSE)
        ELSE IF Status(v) # "Active" THEN NotEnoughLiquidity
        ELSE IF ~vector.ok THEN NotEnoughLiquidity
        ELSE IF v.token_info = <<>> THEN Err("TokenInfoIndexError")
        ELSE IF IsBuy(request) THEN BuyQuote(v, vector.val, request.amount, time)
        ELSE SellQuote(v, vector.val, request.amount, time)
-----------------------------------------------------------------------------
(***************************************************************************)
(* What the properties say of a venue and the accounts it is read from.    *)
(***************************************************************************)
Buy(amount) == [input_mint |-> TokenIn, output_mint |-> TokenOut,
                amount |-> amount, swap_type |-> "ExactIn"]
Sell(amount) == [input_mint |-> TokenOut, output_mint |-> TokenIn,
                 amount |-> amount, swap_type |-> "ExactIn"]

Output(answer) == IF answer.ok THEN answer.val.expected_output ELSE 0

PayingVault(c) == IF c["token_in"].data.is_token_2022 THEN "vault_22" ELSE "vault"

\* Every account an update looks at is readable.
Readable(c) ==
    \A slot \in (Slots \ {"vault", "vault_22"}) \union {PayingVault(c)} : Sound(c, slot)

\* v holds what every account of c holds.
CopyOf(v, c) ==
    /\ v.initialized
    /\ v.offer = c["offer"].data
    /\ v.state = c["state"].data
    /\ v.token_info = <<c["token_in"].data, c["token_out"].data>>
    /\ v.token_out_supply = c["token_out"].data.supply
    /\ v.prop_amm_pair_state = c["pair"].data
    /\ v.redemption_vault_token_in = c[PayingVault(c)].data
    /\ v.redemption_offer = c["redemption"].data
    /\ v.circulating_supply_excluded_balance = c["excluded"].data
=============================================================================
