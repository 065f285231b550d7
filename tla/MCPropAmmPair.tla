--------------------------- MODULE MCPropAmmPair ---------------------------
(***************************************************************************)
(* A small pair: at most one decimal, a wall scale of 1000, epochs of two  *)
(* seconds.  One starts with a negative epoch, which becomes a huge u64.   *)
(***************************************************************************)
EXTENDS PropAmmPair

MCTenTo == [d \in 0..2 |-> 10 ^ d]

Configured(peg, exponent, threshold, wave, sensitivity, start) ==
    [enabled |-> TRUE,
     curve_peg_haircut_bps |-> peg, curve_exponent_scaled |-> exponent,
     cadence_threshold |-> threshold, cadence_wave_scaled |-> wave,
     epoch_duration_seconds |-> 2, wall_sensitivity_scaled |-> sensitivity,
     minimum_sell_haircut_onyc |-> 0, curr_sell_value_stable |-> 0,
     curr_buy_value_stable |-> 0, prev_net_sell_value_stable |-> 0,
     curr_sell_trade_count |-> 0, epoch_start |-> start]

\* A quadratic curve under a wall and a wave, a linear one to the full peg
\* without a wall, the wave alone.
MCPairs ==
    {Configured(20, 20, 2, 10, 10, 0),
     Configured(100, 10, 1, 20, 0, 0),
     Configured(0, 0, 3, 30, 20, 0)}

\* Fractional exponents, 1.5 and 0.5.
MCFractionalPairs ==
    {Configured(50, 15, 2, 10, 20, 0), Configured(30, 5, 2, 0, 10, -3)}
=============================================================================
