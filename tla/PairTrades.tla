----------------------------- MODULE PairTrades -----------------------------
(***************************************************************************)
(* What the program does to the pair account when a trade lands: it rolls  *)
(* the epoch and records the trade.  External: the code only previews the  *)
(* roll (sell.rs), and these are the trades as that preview reads them.    *)
(***************************************************************************)
EXTENDS SellMath, PairState

NewEpoch(p, prev, time) ==
    [p EXCEPT !.curr_sell_value_stable = 0,
              !.curr_buy_value_stable = 0,
              !.curr_sell_trade_count = 0,
              !.prev_net_sell_value_stable = prev,
              !.epoch_start = time]

\* The account a trade at time starts from.
Rolled(p, time) ==
    LET d == ToDampeningState(p)
    IN  IF PressureLapsed(d, time) THEN NewEpoch(p, 0, time)
        ELSE IF Elapsed(d, time) >= d.epoch_duration_seconds
             THEN NewEpoch(p, CurrentNet(d), time)
        ELSE p

AfterSell(p, amount, time) ==
    [Rolled(p, time) EXCEPT !.curr_sell_value_stable = @ + amount,
                            !.curr_sell_trade_count = @ + 1]

AfterBuy(p, amount, time) ==
    [Rolled(p, time) EXCEPT !.curr_buy_value_stable = @ + amount]
=============================================================================
