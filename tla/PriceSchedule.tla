--------------------------- MODULE PriceSchedule ---------------------------
(***************************************************************************)
(* The price an offer's vectors give as time passes: which vector is       *)
(* active, the steps it prices in, daily compounding with intraday         *)
(* interpolation, and what a buyer gets for it.                            *)
(***************************************************************************)
EXTENDS BuyMath

CONSTANTS
    Schedules,  \* the vectors an offer may hold, as sequences
    Amounts,    \* the amounts of token_in a buyer splits an order into
    FeeBps,     \* the offer's fee
    MaxTime     \* bound on the clock

ASSUME ScheduleAssumption ==
    /\ \A s \in Schedules : s \in Seq(PriceVector)
    /\ Amounts \subseteq U64
    /\ FeeBps \in 0..MaxBasisPoints
    /\ MaxTime \in U64 \ {0}

VARIABLES
    vectors,    \* the offer's vectors
    now         \* seconds since the Unix epoch

vars == <<vectors, now>>

Init ==
    /\ vectors \in Schedules
    /\ now = 1

Tick ==
    /\ now < MaxTime
    /\ now' = now + 1
    /\ UNCHANGED vectors

Spec == Init /\ [][Tick]_vars
-----------------------------------------------------------------------------
ActiveAt(time) == FindActiveVector(vectors, time)

\* What an update of the venue publishes at time: the active vector's price.
PriceAt(time) ==
    LET active == ActiveAt(time)
    IN  IF active.ok THEN StepPrice(active.val, time) ELSE active

\* The seconds the active vector's price has compounded for.
PricedFor(time) == StepEnd(ActiveAt(time).val, time)

\* A price the code returns fits a u64, whatever it compounded to.
TypeOK ==
    /\ vectors \in Schedules
    /\ now \in 1..MaxTime
    /\ PriceAt(now).ok => PriceAt(now).val \in U64

\* Intraday interpolation stays between the price of the day and the next
\* day's, so the unchecked subtraction of the daily delta cannot underflow.
Interpolated ==
    PriceAt(now).ok =>
        LET vector == ActiveAt(now).val
            day == FullDayPrice(vector.apr, vector.base_price, PricedFor(now)).val
        IN  PriceAt(now).val \in day..Greater(day, NextDayPrice(vector.apr, day).val)

\* Fast exponentiation compounds like the exact power: on whole days the price
\* is within one unit of base_price * factor^days.
CompoundsDaily ==
    LET vector == ActiveAt(now).val
        days == PricedFor(now) \div SecondsInDay
        exact == vector.base_price * DailyFactor(vector.apr) ^ days
    IN  PriceAt(now).ok /\ PricedFor(now) % SecondsInDay = 0 =>
            /\ PriceAt(now).val * Scale ^ days <= exact + Scale ^ days
            /\ PriceAt(now).val * Scale ^ days >= exact - Scale ^ days

\* An order split in two never buys more than the order in one piece: neither
\* the rounding of the fee nor that of the conversion can be farmed.
SplittingNeverPays ==
    \A a, b \in Amounts :
        LET out(amount) == BuyAmountOut(amount, PriceAt(now).val, FeeBps, 1, 1)
        IN  PriceAt(now).ok /\ a + b \in U64 /\ out(a + b).ok =>
                /\ out(a).ok
                /\ out(b).ok
                /\ out(a).val + out(b).val <= out(a + b).val

SameVector == ActiveAt(now).ok /\ ActiveAt(now') = ActiveAt(now)

\* Under one vector the price changes only where an interval ends: a quote made
\* inside an interval executes at the same price until the interval is over.
StepsHold ==
    [][SameVector /\ PriceAt(now') # PriceAt(now) /\ (PriceAt(now).ok \/ PriceAt(now').ok) =>
        (now' - ActiveAt(now).val.base_time)
            % ActiveAt(now).val.price_fix_duration = 0]_vars

\* Under one vector the price may lose one unit of the smallest price digit to
\* rounding, where a day ends, and never more.
LosesAtMostOneUnit ==
    [][SameVector /\ PriceAt(now).ok /\ PriceAt(now').ok =>
        PriceAt(now').val >= PriceAt(now).val - 1]_vars

\* One vector follows another exactly at the second it was announced to start,
\* also when two start together, and a schedule never goes back to none.
SwitchesOnTime ==
    [][ActiveAt(now') # ActiveAt(now) =>
        ActiveAt(now').ok /\ ActiveAt(now').val.start_time = now']_vars

\* The doc comment of calculate_vector_price: a part of a day is interpolated
\* "between the current daily-compounded price and the next daily-compounded
\* price", so it never exceeds the price the next whole day compounds to.
BelowNextDailyPrice ==
    LET vector == ActiveAt(now).val
        elapsed == PricedFor(now)
        nextDay == FullDayPrice(vector.apr, vector.base_price,
                                (elapsed \div SecondsInDay + 1) * SecondsInDay)
    IN  PriceAt(now).ok /\ nextDay.ok => PriceAt(now).val <= nextDay.val
=============================================================================
