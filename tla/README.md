# A formal model of the OnRe / Titan integration

TLA+ specifications of `onre-titan` (the trading venue in `src/`) and
`onre-pricing` (the pricing library in `crates/onre-pricing/`), TLC
configurations that check them on small instances, and TLAPS proofs of the
properties that matter most for every width, scale and schedule. Paths below
are relative to the repository.

## 1. The system

A router holds a venue, an in-memory copy of nine Solana accounts. It refreshes
the venue from its account cache, asks it for quotes, and asks it to build swap
instructions, which the OnRe program executes later against the chain as it is
then.

| Component | State | Operations |
|---|---|---|
| Vector selection and step pricing (`pricing.rs`, `math_utils.rs`) | none | `find_active_vector_at`, `calculate_step_price_at`, `calculate_vector_price`, `calculate_fee`, `deduct_fee`, `mul_div_round`, `pow_fixed` |
| Buy pricing (`buy.rs`) | none | `calculate_amount_out`, `calculate_amount_out_from_vector` |
| Sell pricing and dampening (`sell.rs`) | none; the caller's `DampeningState` | the same two, and the wall, volume, cadence and TVL-cap helpers |
| Hard wall mathematics (`hard_wall_math.rs`) | none | `dynamic_wall_position`, `redemption_haircut_scaled`, integer and fractional powers |
| Prop AMM pair (`prop_amm.rs`) | the pair account: curve, epoch, volumes, trade count | `load`, `to_dampening_state`; the program rolls the epoch and records trades |
| Trading venue (`trading_venue.rs`) | offer, state, two token infos, supply, pair, vault balance, redemption offer, excluded balance, `initialized` | `from_account`, `update_state`, `status`, `quote` |
| Swap instructions (`trading_venue.rs`, `util.rs`) | none | `generate_swap_instruction_v2`, the deprecated `generate_swap_instruction`, the address derivations |
| Account layouts (`state.rs`, `redemption.rs`, `prop_amm.rs`, `token_info.rs`) | none | `load` of each account |
| Error classification (`errors.rs`) | none | `classify_program_error`, `From<PricingError>` |

How they interact: `update_state` copies accounts into the venue one by one
(an early return at the first it cannot read); `quote` is a pure function of
that copy and the host's clock, and calls the pricing crate; the pricing crate
previews, without writing, what the program would do to the pair when a trade
lands. The instruction is built from the same copy, later, and the program
executes it later still: against the accounts and the clock of that moment. A
refusal comes back as an error code, which the router classifies before it
updates and asks `status` again.

### What is hard about it, and what makes each part correct

* **Torn updates.** A failed `update_state` leaves fields of different ages,
  with `initialized` still true. No mixture may bring quotes back under a kill
  switch, report an initialized venue as uninitialized, or price from the wrong
  vault (`OnreVenue`).
* **Previewing another program.** A quote must see the epoch roll the program
  will perform, to the second, and the pressure must never move the wrong way
  under a sequence of trades (`PropAmmPair`).
* **Rounding and saturation.** Prices round daily and inside the day, fees round
  up, powers saturate. No path may pay more than the undampened value or the
  vault, and nothing may be gained by splitting or reversing trades
  (`PriceSchedule`, `SellMath`, `OnreVenue`).
* **From quote to execution.** Other trades land, an account is published, two
  clocks drift, transactions get lost. What is left of the quote, for what may
  the swap be refused, and does the refusal agree with what the venue then says
  (`Router`)?
* **Size.** The wall falls with the amount that is sold, utilization rises with
  it, and both round: a larger sell must not be rated better than a smaller one,
  nor priced where the smaller one is refused (`PropAmmPair`).
* **Layouts counted by hand.** Offsets are literals, the offer is a `repr(C)`
  cast: no field may come from another's bytes, no read may pass the end of
  truncated data, and no byte but the one written for open may pass the switch
  by which an account stops trading (`AccountLayouts`).
* **Boundaries in time.** Vectors, intervals, days and epochs each have their
  own origin and end (`PriceSchedule`, `PropAmmPair`).

There is no shared-memory concurrency, nothing is persisted and there are no
retries: interleaving comes from the chain and the cache changing between and
during updates, and between a quote and its execution. `PROJECT.json` lists the hazards line by line.

## 2. The modules

```
RustInt                        u64/u128, Result, checked and saturating operations
 |- Pricing                    vectors, steps, compounding, fee
 |   |- BuyMath                buy.rs
 |   |   '- PriceSchedule      an offer's schedule as time passes
 |   |- HardWall               hard_wall_math.rs
 |   '- SellMath               sell.rs (on BuyMath and HardWall)
 '- PairState                  the pair account and to_dampening_state
     |- PairTrades             what a trade does to the pair (SellMath, PairState)
     |   '- PropAmmPair        the pair and its vault under trades
     '- Venue                  accounts, update, status, quote (SellMath, PairState)
         '- SwapInstruction    addresses and the two instruction builders
             |- OnreVenue      chain, cache and venue over time
             '- Router         quote, build, execute (PairTrades, ErrorCodes)

PrefixCopy                     what an update promises; OnreVenue implements it
ErrorCodes                     classify_program_error
AccountLayouts                 the loaders, down to the bytes of a field
```

* **RustInt** keeps widths as constants `U64Max`, `U128Max`. `Ok`/`Err` are
  records, so an operator returns the very error variant the code returns.
* **Pricing, BuyMath, HardWall, SellMath** are the pricing crate, one operator
  per function or named local, checks in the code's order. `PowFixed`'s loop
  and the integer power are recursive functions; the fixed-point series of
  log2/exp2 are recursive functions too (`Series`), on a mantissa between one
  and two (`Mantissa`, `HighestBit`) and a fraction of an octave.
* **PriceSchedule** has the offer's `vectors` and the clock `now`; its one
  action is the passing of a second. `PriceAt` is what a quote at that second
  is priced with.
* **PairTrades** is external, the program's part: `Rolled` is the roll the
  comments and the preview in `sell.rs` describe, `AfterSell` and `AfterBuy`
  record a trade after it.
* **PropAmmPair** has the pair account, the redemption vault and the chain's
  clock. The crate's own part is `Payout`. `Sell` takes the amount in the payout
  asset, as the wall receives it after fee and conversion.
* **Venue** has the accounts and the functions of the venue, without a state
  machine. An account is a content or a way to fail the loader's checks
  (missing, foreign owner, corrupt, wrong address). `OfferRead` ..
  `ExcludedRead` say how far an update gets, `Updated` is the venue it leaves,
  assigned or stale, field by field, and `UpdateResult` what it returns.
  `Quote` and `Status` are the functions of the same names.
* **SwapInstruction** derives addresses (an address is what it is derived from:
  seeds, or owner, mint and token program) and builds both instructions, account
  by account with its rights, and the data.
* **OnreVenue** sets the venue over a chain and a cache. `Write` and `Refresh`
  are external: any account may change or break, and the cache follows account
  by account. Updates are torn.
* **PrefixCopy** is the abstract venue: seven places read in order, an update
  that copies some initial segment of them, and `whole` once the last was
  reached. In `OnreVenue`, `SourcePlaces` and `CopyPlaces` line up the accounts
  and the fields in the order of `update_state` (both mints and the supply are
  one place, and the vault place is the vault that update looks at), and
  `initialized` stands for `whole`. `CopiesPrefix` says that every step of
  `OnreVenue` is a step of `PrefixCopy` or a stutter, so `PrefixCopy!Gapless`
  holds of the venue.
* **Router** follows swaps from `Ask` over `Send` to `LandBuy` or `LandSell`.
  Each remembers its request, its quote, whether the venue was in step with the
  chain, the second it was priced at, whether the chain's clock agreed on it
  and the kinds of events on chain since.
  `Publish`, both clocks, `Lose` and the landings are external. `Paid` prices
  with the pricing crate, as the README says the program does, but on the chain's
  accounts, after its own roll and by its own clock; `Refusals` collects the
  error codes an instruction may meet, missing accounts and rights included
  (`Admitted`). Updates here find every account readable; torn ones are
  `OnreVenue`'s subject.
* **AccountLayouts** is one account's data in a cache: any length, any
  discriminator, any byte for each of its switches, at any address. `Fields` is what the
  structures declare, `Reads` what the loaders read, `GoesOn` what a venue makes
  of the switches. They are decoded in three ways: the pair's strictly
  (`read_bool` refuses a byte other than 0 and 1, which stops the update and
  leaves the venue its earlier copy), `is_killed` and `disabled` with any
  non-zero byte as stopped, and `allow_permissionless` with any non-zero byte as
  open. The last one fails open on a malformed byte; the repository says nothing
  of such a byte, and `StopSwitchesFailClosed` is about the other three. A
  redemption offer's `disabled` stops no quote (see `venue_disabled_redemption`).
* **MC…** modules give the constants of the instances; `MCAccounts` has the
  contents the venue's and the router's share.
* **…_proofs** modules hold the TLAPS proofs.

Names follow the source. Operators named `X_Suffix` are plausible
bugs of `X`, kept beside it: each property has one with which TLC must refute
it (`mutants` in `PROJECT.json`).

## 3. The runs

| Run | What it asks |
|---|---|
| `pair` | Every order of sells, buys, refills and time over several epochs, three curves (48 519 states). `Solvent`: never more than the amount or the vault. `RollTransparent`: the preview of the epoch roll is exact. `WaitingNeverHurts`, `SellNeverHelps`, `InflowNeverHurts`: time, other sells and buys move the quote only in the fair direction. `SizeNeverHelps`: a larger sell is never rated better. |
| `pair_fractional` | The monotonicity properties with exponents 1.5 and 0.5 (the log2/exp2 approximation), a TVL target below the vault, and an epoch that starts before time zero (`epoch_start as u64`; 27 023 states). |
| `schedule` | Every schedule of three slots from seven vectors, 16 seconds, four compounding days. `Interpolated`, `CompoundsDaily` (fast power against the exact one), `StepsHold`, `LosesAtMostOneUnit`, `SwitchesOnTime`, `SplittingNeverPays`. |
| `venue` | Two writes or failures of any accounts, any cache lag, torn updates, a venue rebuilt at any time. `InitializedForGood`, `NoOutputOnUnreadSwitch`, `KillSwitchObeyed`, `QuotedFromPayingVault`, `RoundTripNeverProfits`; `OkMeansCurrent` (the result of an update can be relied on), `BuildsWhatItQuotes` and `NamesWhatItQuoted` (quote and builder agree on the same torn venue; what a swap changes is writable), and the refinement `CopiesPrefix`. |
| `venue_live` | Liveness: `KillSwitchSticks` and `CatchesUp`. |
| `router` | Two swaps between quote and execution, one publication, two clocks (104 364 states). `PaysAsQuoted` and `RefusedOnlyUnforeseen`: a swap nothing has overtaken pays its quote, or is refused for one of two states no quote looks at. `OvertakenBySells`, `OvertakenByBuys`: which way the trades of its own second may move it. `SkewWithinStep`: what clocks that differ may do. `RefusalsMatchStatus`: classified refusals and `status` never contradict each other. |
| `layouts` | Five loaders on data of every interesting length, discriminator, alignment and byte for each switch (22 176 states). `NoReadBeyond`, `ReadsWhatIsWritten`, `LoadsAsWritten`; `StopSwitchesFailClosed`: an offer, state or pair account a venue trades on has the program's byte for open in its stop switch. |
| `schedule_next_day` | *Violated.* The doc comment of `calculate_vector_price` says a fraction of a day is interpolated towards "the next daily-compounded price"; the code interpolates towards the rounded day's price times the factor, which may be one unit more. |
| `venue_disabled_redemption` | *Violated.* A disabled redemption offer is to be "surfaced as expected state"; `quote` never consults the flag it has loaded and quotes sells the program refuses. |
| `venue_blamed_vault` | *Violated.* A corrupt vault under the Token-2022 program is reported under the address of the legacy vault, which the update has not read. |
| `router_zero_minimum` | *Violated.* The README says execution enforces `minimum_out` and never to replace it with zero; the builder writes zero, and an overtaken swap executes for less than its quote. |

`SizeNeverHelps` is about the share of an amount that is paid, for amounts after
fee and conversion (the minimum fee takes a larger share of a small sell). A
larger sell may well be paid less in all: with a curve that rises to the full
peg, one that uses up the wall is paid nothing.

`SkewWithinStep` excludes one case, which is real: a host's clock behind the
last trade on chain. `now < epoch_start` counts as a lapsed epoch
(`sell.rs:251`), so such a quote sees none of the recorded pressure and the
program pays less.

`OvertakenBySells` and `OvertakenByBuys` are about swaps that are quoted, and
executed, in one second of the chain's clock (`Prompt`), so that whatever
overtook them landed in that second too. That restriction is real as well: a
trade that lands in an earlier second than the swap executes in may end an
epoch, and what is left of the pressure then decays from that second on, which
gives a sell more than its quote after a sell, and less after a buy. Without
the restriction TLC finds `OvertakenBySells` violated in this very instance.

### Bounds, and why they are enough

The arithmetic is scaled, not simplified: `U64Max` 200 to 1023, `U128Max`
1 000 000 for the schedule and 16 000 000 (24 bits) where there are powers
(TLC's integers have 32 bits), `Scale` 100, prices with one decimal, a wall
scale of 1000, Q with 6 bits and its constants to match, days of four seconds,
epochs of two. Rounding is far coarser than in the program, so a rounding that
could be exploited shows more, not less. Overflow, saturation and every error
branch stay within reach. What does not scale is a numerical tolerance:
`LosesAtMostOneUnit` and `CompoundsDaily` ("within one unit") are checked for
the scaled constants and compounding of up to four days only. They are not
claims about an apr or a duration of any size.

* `PropAmmPair`: 5 seconds cover the first epoch, decay inside the next, the
  roll at one duration and the lapse at two, also after a trade; `MaxVault` 12
  and `Amounts` {3, 7} put utilization below, at and above one under pressure;
  `MaxVolume` 10 bounds an epoch's recorded volume.
* `PriceSchedule`: the seven vectors include an unused slot, two that start
  together, intervals shorter and longer than a day, one whose price outgrows a
  u64 and one that cannot be priced yet. The clock stops at `MaxTime`, hence
  `CHECK_DEADLOCK FALSE` there and in the pair's runs.
* `OnreVenue`: `MaxWrites` 2 lets two accounts differ or break in any
  combination, which is what a torn update needs: one account to be stale, one
  to stop the update. Amounts reach the supply cap, the minimum fee and beyond
  the vault. `venue_live` keeps the contents that open and stop the venue.
* `Router`: two swaps are what overtaking needs. `MaxWrites` 1 publishes one of
  an offer both disabled and closed (the program may answer with either code), a
  kill switch, a disabled redemption offer; a vault runs short by the swaps
  themselves. Seconds 2 to 5 and `MaxSkew` 1 reach the end of
  a price interval, a switch of vectors and both ends of an epoch, from either
  side. `Requests` are a buy of 6, of which a second may meet the supply cap,
  a sell of 160, of which a second may find the vault short, and a small sell of
  12; all move the pair. The vector's apr is steep, so that its intervals differ in price.
* `AccountLayouts`: the lengths around every point at which an account, with or
  without its discriminator, just fits; the alignments are all eight. `Bytes` are
  the two the program writes for a switch and two it does not.

`router` and `router_zero_minimum` use symmetry in the swaps, which differ in
nothing. There is none elsewhere: mints and accounts have different roles.

### Fairness

`FairSpec` assumes weak fairness of `UpdateState` and of `Refresh(slot)` for
every account: the router polls, and its cache eventually holds what the chain
holds. Both are always possible, so weak fairness means nothing more than that
polling does not stop. A fetch that fails as a whole changes nothing and is a
stuttering step. Nothing is assumed of writers, of the clock or of rebuilding
the venue. `KillSwitchSticks` asks the offer and the state account to stay
readable, `CatchesUp` every account an update looks at: the code reads them in
order and an unreadable one stops the update. No liveness is asked of `Router`:
nothing in the repository makes a swap land.

## 4. What is proved

Every theorem holds for all values of the constants that satisfy the named
assumptions: `WidthAssumption` (a u128 holds a product of two u64 and one more
u64), `PricingAssumption`, `DecimalsAssumption`, `HardWallAssumption`,
`CadenceAssumption` (positive scales and divisors; the products the code forms
with plain `*` fit a u128), `ApproximationAssumption` (below) and the module's
own (`PairAssumption`, `EpochAssumption`, `ScheduleAssumption`,
`VenueAssumption`, `RouterAssumption`, `MintAssumption`, `NoneAssumption`,
`LayoutAssumption`). The
real constants satisfy them, and TLC evaluates them on every run.

Every invariant of the runs of `PropAmmPair`, `OnreVenue`, `Router` and
`AccountLayouts` is a theorem, and of `PriceSchedule` all but the two that are
numerical tolerances.

### Arithmetic

* `BuyMath_proofs`: quotients, ceilings and narrowing; `BuySplit`, a buy in two
  parts yields no more than in one.
* `PriceSchedule_proofs`: **TypeCorrect**, **InterpolatedAlways** (rounded
  products by a factor of at least one never shrink, by at most one never
  grow; hence the daily delta cannot underflow), **StepsHoldAlways** (a second
  that ends no interval has the step of the one before), **SwitchesOnTimeAlways**
  (that the active vector exists and is the latest rests on the well-foundedness
  of the naturals) and **SplittingNeverPaysAlways**.
* `SellMath_proofs`: **HardWallBounded**, whatever the curve's power does, what
  the wall lets through is at most the amount and at most the liquidity;
  **SellWithinVault** carries the bound through fee, conversion and TVL ceiling.
  `RollTransparentWall`: the previewed volume and trade count of the account as
  it stands are those of the rolled account, so rolling first changes no payout.

  **CurveRises**: the haircut never falls as utilization grows. For whole
  exponents that is an induction over the loop (`NatInduction` needs an
  operator, so it is done on the set of the `k` for which the power rises). For
  fractional exponents it is a fact about the approximation: the terms of both
  series rise with their argument, floors included, so log2 rises inside an
  octave and exp2 inside a unit; where one octave meets the next, they must not
  have overshot. That is what `ApproximationAssumption` says
  (`Log2Mantissa(2 * Q) <= Q`, `Exp2Fraction(Q) <= 2 * Q`), two comparisons of
  numbers. They hold of the code's Q40 constants, by 16 355 and 522 units of
  2^-40, and of the scaled ones TLC uses; other constants would have to be
  compared anew.

  **HardWallRises** puts volume, wall, utilization, curve and cadence wave
  together, with every error and saturation on the way: less pressure on a
  fuller vault never pays less. `Lighter` is that order on dampening records,
  each at a time of its own; waiting (`LighterLater`) and trades
  (`LighterTrades`) move a pair along it, across rolls. **SellFollows** is the
  order of whole sells.

  **HardWallRates** compares two amounts behind one wall. A larger one adds to
  the volume (`VolumeGrows`), so the wall stands lower and utilization is higher
  (`UtilizationFalls`, `UtilizationGrows`) and the factor that is left is no
  larger; one factor takes the same share of every amount but for the rounding
  (`PartsInProportion`).

### The machines

* `PropAmmPair_proofs`: **SizeNeverHelpsAlways** (from HardWallRates, for any
  state with its types), **TypeCorrect** (the type invariant is inductive; a sell
  is the only step that lowers the vault and HardWallBounded keeps it natural),
  **SolventAlways**, **RollTransparentAlways**, **SellNeverHelpsAlways**,
  **InflowNeverHurtsAlways** and **WaitingNeverHurtsAlways**. The last has a
  hypothesis, `NoneAhead`: no pair of the initial ones has an epoch that starts
  within the horizon but after the first second. The program starts epochs at
  its own `now`, so none does on chain (a negative start is cast beyond every
  horizon); `PairInv` carries it through the steps, which begin epochs only now.
* `Venue_proofs`: what a positive quote says of the venue (`QuotePriced`,
  `BuyQuotePriced`, `SellQuotePriced`), and which accounts the two instructions
  name with which rights (`BuiltNames`), through the concatenated lists.
* `OnreVenue_proofs`: `TypeOK` alone is inductive only together with
  `Slotted`; the properties need `ReadInOrder` as well (mints are held only
  where a state account is, and `initialized` vouches for every field), which
  rests on the order of the assignments in `update_state`. From the inductive
  `VenueInv` follow **TypeCorrect**, **InitializedForGoodAlways** (with lemmas
  that the pricing crate has no such error), **NoOutputOnUnreadSwitchAlways**,
  **KillSwitchObeyedAlways**, **QuotedFromPayingVaultAlways**
  (SellWithinVault on the copied vault, and the slot that was copied),
  **OkMeansCurrentAlways**, **BuildsWhatItQuotesAlways** (a positive quote
  needs the fields the builder reads), **NamesWhatItQuotedAlways** (the vault
  is the one under the token program of the same copy, and writable) and
  **RoundTripNeverProfitsAlways** (both conversions round down between the same
  two units, so what comes back is worth at most what went in; the wall and the
  fees only take). **CopiesPrefixAlways** is the refinement: the checks of an
  update are nested, so there is one `k` at which it stops, and that `k` is
  `PrefixCopy`'s.
  **GaplessAlways** says of `PrefixCopy`, with the seven places it has here,
  that no place is copied before its predecessors and a whole copy misses none
  (inductive together with: the source has no gaps). **VenueGapless** puts the
  two together: it holds of the venue.

### The layouts

`AccountLayouts_proofs` proves **NoReadBeyondAlways**,
**ReadsWhatIsWrittenAlways**, **LoadsAsWrittenAlways** and
**StopSwitchesFailClosedAlways** for data of any length, any bytes and any
address.
What has to be shown is that every literal offset in the loaders is the sum of
the widths declared before it, along up to thirty fields.

* Where fields end is a recursion (`Ends`). That it is defined, and is the only
  function with such sums (`EndsSum`, `SumsUnique`), is an induction over the
  naturals; so is that putting one structure behind another moves its fields by
  the width of the first (`ConcatEnds`, `ConcatPacked`).
* `Laid(p, width, reads)`: the structure `p` is so wide, and `reads` are among
  its bytes. `First`, `Then` and `ThenArray` lay one more field, and
  `StateLaid`, `PairLaid`, `RedemptionLaid` and `ExcludedLaid` follow the code's
  offsets field by field, as its authors must have counted them.
* An offer is cast. `OfferLaid` shows that every field of it ends where the next
  may begin by its alignment (`Aligned`), and `CastPacked` that the cast then
  inserts no padding, so that it reads what is written as well.
* No field reaches beyond the width of the whole (`PackedWithin`), and the length
  each loader asks for is that width (`LoaderReads`).

### From quote to execution

`Router_proofs` needs an invariant that remembers more than the state does. A
swap that has been overtaken was quoted from accounts that no longer exist, and
by a venue that has been updated since. `RouterInv` therefore keeps, for every
swap under way that was quoted in step, as an existential, *some* accounts `b`
and *some* venue that copied them and quoted this output (`QuotedFrom`), and how
the accounts came from `b` (`Reached`): they are `b` if nothing has happened;
they differ from `b` at most in supply, vault and pressure if nothing was
published (`Alike`); and, as long as the chain's clock stands at the second of
the quote, they are `Drained` if only sells have landed (vault no fuller, supply
the same, pressure no `Lighter`) and `Filled` if only buys have. Each landing
moves the comparison on by one step (`SellingDrains`, `BuyingFills`,
`LandedChain`), and a tick of the chain's clock ends it. Besides, the addresses
the venue derives are those of the accounts until something is published,
whatever updates come in between, so that what it has built is `Admitted`.
From it follow

* **NeverOverdrawn**: every landing pays out of the vault that pays, and the
  accounts keep their widths;
* **PaysAsQuotedAlways**: with nothing in between, `b` is the chain, and the
  program's roll changes nothing;
* **RefusedOnlyUnforeseenAlways**: such a swap's price is `Ok`, its instruction
  names what the program needs, the supply cap holds, and what the quote has
  looked at has not changed; there remain the two flags it does not look at;
* **OvertakenBySellsAlways** and **OvertakenByBuysAlways**: SellFollows between
  `b` and the chain, in either direction;
* **SkewWithinStepAlways**: SellFollows between two times on the same accounts;
* **RefusalsMatchStatusAlways**.

### Only model-checked

* The liveness properties `KillSwitchSticks` and `CatchesUp`: they need fairness
  and ENABLED, which the prover does not reason about.
* `CompoundsDaily` and `LosesAtMostOneUnit`: tolerances of one unit for the
  scaled constants and four days. They are not true of every scale and rate, so
  there is no general theorem to prove.
* `ApproximationAssumption` of the code's own constants is a computation in
  128-bit numbers, which TLC's 32 bits cannot carry out; it was made outside.

## 5. Not modelled, and why

* The OnRe program itself is not in the repository. Its roll, its record of a
  trade, the accounts it needs and its refusals are external definitions,
  written from what the crate, its comments and its tests say of it; what it
  does elsewhere (requests, administration, other AMM paths) is left out.
* The transfer-fee extension in `TokenInfo`: read, and used by no quote. The
  token program withholds that fee from whatever the OnRe program pays.
* Values of bytes other than the switches; a loader yields the bytes of its
  fields or rejects the account.
* The deprecated builder is modelled, and no property is stated of it: nothing
  in the repository says what it owes a sell.
* Constants, crate roots and re-exports: names and numbers. Each number a
  function uses is a constant of the module of that function.
* The integration tests: a harness around the deployed program, read for what
  the program does.

## 6. Plan

Done: pricing and its schedule, the sell side and the pair over time, the venue
with torn updates, its liveness and its refinement of `PrefixCopy`, the
instructions, the router from quote to execution, the layouts, and the proofs
above.

Next:

1. The trades that land in earlier seconds: which of the accounts' orders
   survives a tick, so that `OvertakenBySells` and `OvertakenByBuys` can be
   stated across seconds of one epoch.
2. What an update leaves of the router's guarantees when it is torn: `Router`
   over `OnreVenue`'s cache.
