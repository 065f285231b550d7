------------------------------ MODULE MCRouter ------------------------------
(***************************************************************************)
(* Two swaps of an offer whose asset is a Token-2022 mint; one account may *)
(* be published in between.                                                *)
(***************************************************************************)
EXTENDS Router, MCAccounts, TLC

Steep(start, price) ==
    [start_time |-> start, base_time |-> 1, base_price |-> price, apr |-> 180,
     price_fix_duration |-> 4]

SteepOffer(disabled, open) == Offer(<<Steep(1, 11), Steep(5, 10), Vector(0, 0)>>, disabled, open)

\* A pair that has seen sells in this epoch and the last.
Pressed ==
    [Pair(TRUE, 16) EXCEPT !.prev_net_sell_value_stable = 40, !.epoch_start = 2,
                           !.curve_peg_haircut_bps = 60]

RouterChain(is2022) ==
    [Chain(is2022) EXCEPT !["offer"].data = SteepOffer(FALSE, TRUE),
                          !["state"].data = State(FALSE, 360),
                          !["pair"].data = Pressed,
                          !["redemption"].data = Redemption(5, 80, FALSE),
                          !["token_out"].data = Mint(1, FALSE, 300),
                          !["vault"].data = 48,
                          !["vault_22"].data = 48]

MCChains == {RouterChain(TRUE)}

MCContents ==
    [offer |-> {SteepOffer(TRUE, FALSE)},
     state |-> {State(TRUE, 360)},
     token_in |-> {},
     token_out |-> {},
     pair |-> {},
     redemption |-> {Redemption(5, 80, TRUE)},
     vault |-> {},
     vault_22 |-> {},
     excluded |-> {}]

MCRequests == {Buy(6), Sell(160), Sell(12)}

\* The swaps are alike.
Symmetry == Permutations(Swaps)
=============================================================================
