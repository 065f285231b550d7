---------------------------- MODULE PropAmmPair ----------------------------
(***************************************************************************)
(* The sell side of one pair over time: the pair account and the           *)
(* redemption vault as they stand on chain, the trades that change them,   *)
(* and the payout the crate quotes from them at any moment.                *)
(*                                                                         *)
(* The crate never writes the pair.  The trades here are the program's, as *)
(* PairTrades has them.                                                    *)
(***************************************************************************)
EXTENDS PairTrades

CONSTANTS
    Pairs,      \* the pair accounts as first configured, no trade recorded
    Amounts,    \* trade sizes, in the payout asset
    CapTarget,  \* the TVL target for the vault, 0 when there is none
    MaxVault,   \* bound on the vault
    MaxVolume,  \* bound on the volume one epoch records
    MaxTime     \* bound on the clock

ASSUME PairAssumption ==
    /\ Pairs \subseteq PropAmmPairState
    /\ Amounts \subseteq U64 \ {0}
    /\ CapTarget \in U64
    /\ MaxVault \in U64
    /\ MaxVolume \in U64
    /\ MaxTime \in U64 \ {0}

\* The program refuses an epoch that is not positive.
ASSUME EpochAssumption == \A p \in Pairs : p.epoch_duration_seconds > 0

VARIABLES
    pair,       \* the pair account
    vault,      \* the balance of the redemption vault
    now         \* the chain's clock

vars == <<pair, vault, now>>

Cap(liquidity) == IF CapTarget = 0 THEN liquidity ELSE Lesser(CapTarget, liquidity)

\* What the crate pays for amount out of liquidity, for pair p at time.
Payout(p, liquidity, amount, time) ==
    ApplyHardWall(amount, liquidity, Cap(liquidity), ToDampeningState(p), time)

Init ==
    /\ pair \in Pairs
    /\ vault \in {0, MaxVault}
    /\ now = 1

Tick ==
    /\ now < MaxTime
    /\ now' = now + 1
    /\ UNCHANGED <<pair, vault>>

Sell(amount) ==
    LET payout == Payout(pair, vault, amount, now)
        next == AfterSell(pair, amount, now)
    IN  /\ payout.ok
        /\ payout.val > 0
        /\ next.curr_sell_value_stable <= MaxVolume
        /\ pair' = next
        /\ vault' = vault - payout.val
        /\ UNCHANGED now

\* The asset of a buy reaches the vault, or goes to the proceeds vault.
Buy(amount) ==
    LET next == AfterBuy(pair, amount, now)
    IN  /\ next.curr_buy_value_stable <= MaxVolume
        /\ pair' = next
        /\ vault' \in {vault, vault + amount}
        /\ vault' <= MaxVault
        /\ UNCHANGED now

\* The treasury fills the vault.
Fund ==
    /\ vault < MaxVault
    /\ vault' = MaxVault
    /\ UNCHANGED <<pair, now>>

Next ==
    \/ Tick
    \/ Fund
    \/ \E amount \in Amounts : Sell(amount) \/ Buy(amount)

Spec == Init /\ [][Next]_vars
-----------------------------------------------------------------------------
\* The vault is never overdrawn, and the counters stay in their widths.
TypeOK ==
    /\ pair \in PropAmmPairState
    /\ pair.epoch_duration_seconds > 0
    /\ vault \in 0..MaxVault
    /\ now \in 1..MaxTime

Quote(amount) == Payout(pair, vault, amount, now)

\* A sell is never quoted more than its undampened value, nor more than the
\* vault holds: the solvency bound survives the wall, the cap and the wave.
Solvent ==
    \A amount \in Amounts :
        Quote(amount).ok => Quote(amount).val <= Lesser(amount, vault)

\* The quote previews the roll of the epoch exactly: the program, which rolls
\* the counters before it prices the sell, reaches the same payout.  Broken by
\* any disagreement on an epoch's last second or on what decays.
RollTransparent ==
    \A amount \in Amounts :
        Quote(amount) = Payout(Rolled(pair, now), vault, amount, now)

\* One quote is as good as another for the seller; an error is worst.
NoWorse(after, before) ==
    before.ok => after.ok /\ after.val >= before.val

\* Waiting never costs the seller: as long as nobody trades, the pressure and
\* the cadence wave only fade, also across the two epoch boundaries.
WaitingNeverHurts ==
    \A amount \in Amounts, t \in now..MaxTime :
        NoWorse(Payout(pair, vault, amount, t + 1), Payout(pair, vault, amount, t))

\* A sell never improves the quote of the next seller, whatever epoch it lands
\* in and whether or not it rolls the counters.
SellNeverHelps ==
    \A sold, amount \in Amounts :
        Quote(sold).ok =>
            NoWorse(Quote(amount),
                    Payout(AfterSell(pair, sold, now), vault - Quote(sold).val,
                           amount, now))

\* A buy never worsens the sell quote of that moment, whether its asset reaches
\* the vault, whose balance is a u64, or not.
InflowNeverHurts ==
    \A bought, amount \in Amounts : \A liquidity \in {vault, vault + bought} \cap U64 :
        NoWorse(Payout(AfterBuy(pair, bought, now), liquidity, amount, now),
                Quote(amount))

\* A larger sell is never rated better than a smaller one of that moment: what
\* it is paid of its amount is no larger a share, but for the unit the smaller
\* one loses in rounding, and where it is priced the smaller one is too.
SizeNeverHelps ==
    \A small, large \in Amounts :
        small <= large /\ Quote(large).ok =>
            /\ Quote(small).ok
            /\ Quote(large).val * small < large * (Quote(small).val + 1)
=============================================================================
