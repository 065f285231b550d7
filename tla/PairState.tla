----------------------------- MODULE PairState -----------------------------
(***************************************************************************)
(* The pair account of the Prop AMM (prop_amm.rs): the fields that reach a *)
(* quote, and the DampeningState the pricing crate is given.               *)
(***************************************************************************)
EXTENDS RustInt

\* The i64 fields of the account.
I64 == (-U64Max)..U64Max

\* `as u64` keeps the bits of an i64: a negative value becomes a huge one.
AsU64(i) == i % (U64Max + 1)

PropAmmPairState ==
    [enabled : BOOLEAN,
     curve_peg_haircut_bps : Nat,
     curve_exponent_scaled : Nat,
     cadence_threshold : Nat,
     cadence_wave_scaled : Nat,
     epoch_duration_seconds : I64,
     wall_sensitivity_scaled : Nat,
     minimum_sell_haircut_onyc : U64,
     curr_sell_value_stable : U64,
     curr_buy_value_stable : U64,
     prev_net_sell_value_stable : U64,
     curr_sell_trade_count : Nat,
     epoch_start : I64]

ToDampeningState(pair) ==
    [max_haircut_bps |-> pair.curve_peg_haircut_bps,
     exponent_scaled |-> pair.curve_exponent_scaled,
     cadence_threshold |-> pair.cadence_threshold,
     cadence_wave_scaled |-> pair.cadence_wave_scaled,
     wall_sensitivity_scaled |-> pair.wall_sensitivity_scaled,
     epoch_start |-> AsU64(pair.epoch_start),
     epoch_duration_seconds |-> AsU64(pair.epoch_duration_seconds),
     sell_volume |-> pair.curr_sell_value_stable,
     buy_volume |-> pair.curr_buy_value_stable,
     sell_trade_count |-> pair.curr_sell_trade_count,
     prev_net_sell_volume |-> pair.prev_net_sell_value_stable]
=============================================================================
