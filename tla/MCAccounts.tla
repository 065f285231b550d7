----------------------------- MODULE MCAccounts -----------------------------
(***************************************************************************)
(* The accounts of the instances: one offer at a price of 1.1 to 1.2, one  *)
(* decimal, under either token program.                                    *)
(***************************************************************************)
EXTENDS Venue

CONSTANTS Boss, MainOffer        \* the addresses in the state account

MCTenTo == [d \in 0..2 |-> 10 ^ d]

Vector(start, price) ==
    [start_time |-> start, base_time |-> 1, base_price |-> price, apr |-> 15,
     price_fix_duration |-> 3]

Offer(vectors, disabled, open) ==
    [vectors |-> vectors, disabled |-> disabled, allow_permissionless |-> open,
     fee_basis_points_permissionless |-> 5]
Vectors == <<Vector(2, 11), Vector(3, 7), Vector(0, 0)>>

State(killed, maxSupply) ==
    [is_killed |-> killed, max_supply |-> maxSupply, boss |-> Boss,
     main_offer |-> MainOffer]

Mint(decimals, is2022, supply) ==
    [decimals |-> decimals, is_token_2022 |-> is2022, supply |-> supply]

Redemption(fee, target, disabled) ==
    [fee_basis_points_prop_amm_sell |-> fee, vault_target_bps |-> target,
     disabled |-> disabled]

Pair(enabled, volume) ==
    [enabled |-> enabled, curve_peg_haircut_bps |-> 30,
     curve_exponent_scaled |-> 10, cadence_threshold |-> 2,
     cadence_wave_scaled |-> 10, epoch_duration_seconds |-> 2,
     wall_sensitivity_scaled |-> 10, minimum_sell_haircut_onyc |-> 1,
     curr_sell_value_stable |-> volume, curr_buy_value_stable |-> 0,
     prev_net_sell_value_stable |-> 4, curr_sell_trade_count |-> 1,
     epoch_start |-> 1]

Whole(data) == [fault |-> "none", data |-> data]

Chain(is2022) ==
    [offer |-> Whole(Offer(Vectors, FALSE, TRUE)),
     state |-> Whole(State(FALSE, 0)),
     token_in |-> Whole(Mint(0, is2022, 200)),
     token_out |-> Whole(Mint(1, FALSE, 60)),
     pair |-> Whole(Pair(TRUE, 0)),
     redemption |-> Whole(Redemption(5, 0, FALSE)),
     vault |-> Whole(200),
     vault_22 |-> Whole(12),
     excluded |-> Whole(0)]
=============================================================================
