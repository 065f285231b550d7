------------------------------- MODULE Router -------------------------------
(***************************************************************************)
(* The life of a swap: the router asks the venue for a quote, has the      *)
(* venue build the instruction, sends it, and the program executes it      *)
(* against the accounts as they are then, by its own clock.  In between    *)
(* other swaps land, accounts are published, time passes on either clock,  *)
(* and transactions get lost.                                              *)
(*                                                                         *)
(* The venue is the one of Venue and SwapInstruction.  Torn updates are    *)
(* OnreVenue's subject: here an update finds every account readable.  The  *)
(* program is external, and is modelled from what the code says of it: the *)
(* accounts it is given, the failures it reports and that it prices like   *)
(* the pricing crate.                                                      *)
(***************************************************************************)
EXTENDS SwapInstruction, PairTrades, ErrorCodes

CONSTANTS
    Swaps,          \* the swaps the router may start, each once
    Chains,         \* the accounts on chain at the start
    Contents,       \* Contents[slot]: what may be published to an account
    Requests,       \* the quotes the router may ask for
    MaxWrites,      \* bound on the accounts published
    MinTime,        \* the first second of both clocks
    MaxTime,        \* the last
    MaxSkew         \* bound on how far the clocks are apart

ASSUME RouterAssumption ==
    /\ \A c \in Chains : /\ DOMAIN c = Slots
                         /\ \A slot \in Slots : c[slot] \in AccountOf(slot) /\ Sound(c, slot)
    /\ \A slot \in Slots : \A data \in Contents[slot] : data \in DataOf(slot)
    /\ \A c \in Chains : c["pair"].data.epoch_duration_seconds > 0
    /\ \A data \in Contents["pair"] : data.epoch_duration_seconds > 0
    /\ \A request \in Requests :
            request.amount \in U64 /\ request \in {Buy(request.amount), Sell(request.amount)}
    /\ {MaxWrites, MaxSkew} \subseteq Nat
    /\ {MinTime, MaxTime} \subseteq U64 \ {0}
    /\ MinTime <= MaxTime

VARIABLES
    chain,      \* the accounts on chain
    venue,      \* the OnreVenue
    swaps,      \* the swaps
    writes,     \* accounts published so far
    now,        \* the host's clock, by which quotes are made
    chain_now   \* the chain's clock, by which swaps execute

vars == <<chain, venue, swaps, writes, now, chain_now>>
-----------------------------------------------------------------------------
(***************************************************************************)
(* The program: external.                                                  *)
(***************************************************************************)
Direction(instruction) ==
    IF instruction.discriminator = "open_swap_buy" THEN "buy" ELSE "sell"

Names(instruction, key) ==
    \E i \in DOMAIN instruction.accounts : instruction.accounts[i].key = key

MayWrite(instruction, key) ==
    \E i \in DOMAIN instruction.accounts :
        instruction.accounts[i].key = key /\ instruction.accounts[i].writable

\* The program finds the accounts it reads and may change those it changes.
Admitted(c, instruction) ==
    /\ \A slot \in (Slots \ {"vault", "vault_22"}) \union {PayingVault(c)} :
            Names(instruction, KeyOf(slot))
    /\ Names(instruction, c["state"].data.main_offer)
    /\ \A slot \in {"pair", "token_out", PayingVault(c)} : MayWrite(instruction, KeyOf(slot))

Bought(c, vector, amount, time) ==
    BuyFromVector(vector, time, amount, c["offer"].data.fee_basis_points_permissionless,
                  c["token_in"].data.decimals, c["token_out"].data.decimals)

\* The pair is rolled into its epoch before it prices a sell.
Sold(c, vector, amount, time) ==
    LET pair == Rolled(c["pair"].data, time)
        redemption == c["redemption"].data
    IN  SellFromVector(vector, time, amount, redemption.fee_basis_points_prop_amm_sell,
            c["token_out"].data.decimals, c["token_in"].data.decimals,
            pair.minimum_sell_haircut_onyc,
            [liquidity |-> c[PayingVault(c)].data,
             liquidity_cap_target_bps |-> redemption.vault_target_bps,
             circulating_supply |-> SatSub(c["token_out"].data.supply, c["excluded"].data),
             dampening |-> ToDampeningState(pair)])

\* What the program pays out for an instruction, or the error it meets.
Paid(c, instruction, time) ==
    LET vector == FindActiveVector(c["offer"].data.vectors, time)
    IN  IF ~vector.ok THEN vector
        ELSE IF Direction(instruction) = "buy"
             THEN Bought(c, vector.val, instruction.amount, time)
        ELSE Sold(c, vector.val, instruction.amount, time)

\* A buy of ONyc that would mint beyond the cap.
BeyondMaxSupply(c, amount) ==
    /\ c["state"].data.max_supply > 0
    /\ c["token_out"].data.supply + amount > c["state"].data.max_supply

\* The error codes with which the program may refuse an instruction it would
\* pay so much for.
Refusals(c, instruction, paid) ==
    LET sell == Direction(instruction) = "sell"
    IN  {code \in {6024, 6025, 6112, 6113, Unclassified} :
            \/ code = 6024 /\ c["state"].data.is_killed
            \/ code = 6025 /\ ~c["offer"].data.allow_permissionless
            \/ code = 6112 /\ c["offer"].data.disabled
            \/ code = 6113 /\ sell /\ c["redemption"].data.disabled
            \/ code = Unclassified /\
                \/ ~Admitted(c, instruction)
                \/ sell /\ ~c["pair"].data.enabled
                \/ ~paid.ok
                \/ paid.ok /\ paid.val < instruction.minimum_out
                \/ paid.ok /\ ~sell /\ BeyondMaxSupply(c, paid.val)}

Judged(c, instruction, paid) ==
    [codes |-> Refusals(c, instruction, paid), paid |-> paid.val]

\* What comes of an instruction: a refusal with one of codes, or else paid.
Execution(c, instruction, time) == Judged(c, instruction, Paid(c, instruction, time))

\* The accounts after a buy has landed; its asset reaches the vault or not.
AfterBuying(c, amount, minted, vault, time) ==
    [c EXCEPT !["token_out"].data.supply = @ + minted,
              !["pair"].data = AfterBuy(@, amount, time),
              ![PayingVault(c)].data = vault]

\* The accounts after a sell has landed: what it paid has left the vault, and
\* the pair has recorded it at what it is worth undampened.
AfterSelling(c, worth, paid, time) ==
    [c EXCEPT !["pair"].data = AfterSell(@, worth, time), ![PayingVault(c)].data = @ - paid]

\* The program's arithmetic is checked: what it adds to these accounts has to
\* stay in its width.
Fits(c, slots) == \A slot \in slots : c[slot].data \in DataOf(slot)

\* What a sell is worth before the wall.
Worth(c, amount, time) ==
    LET vector == FindActiveVector(c["offer"].data.vectors, time).val
    IN  RawAmountOut(amount, StepPrice(vector, time).val,
            c["redemption"].data.fee_basis_points_prop_amm_sell,
            c["pair"].data.minimum_sell_haircut_onyc,
            c["token_out"].data.decimals, c["token_in"].data.decimals).val
-----------------------------------------------------------------------------
(***************************************************************************)
(* The router.  A swap under way remembers what it was quoted, whether the *)
(* venue was in step with the chain then, when that was, whether the two   *)
(* clocks agreed on it, and what has happened on chain since.              *)
(***************************************************************************)
Idle == [phase |-> "idle"]
Over == [phase |-> "over"]

Quoted(request, output, inStep) ==
    [phase |-> "quoted", request |-> request, output |-> output, in_step |-> inStep,
     at |-> now, agreed |-> now = chain_now, since |-> {}]

Dispatched(swap, instruction) ==
    [phase |-> "sent", request |-> swap.request, output |-> swap.output,
     in_step |-> swap.in_step, at |-> swap.at, agreed |-> swap.agreed,
     since |-> swap.since, instruction |-> instruction]

UnderWay(swap) == swap.phase \in {"quoted", "sent"}

\* The swaps under way once something has happened on chain.
After(event) ==
    [s \in Swaps |-> IF UnderWay(swaps[s]) THEN [swaps[s] EXCEPT !.since = @ \union {event}]
                     ELSE swaps[s]]

Init ==
    /\ chain \in Chains
    /\ venue = Updated(NewVenue(chain["offer"].data), chain)
    /\ swaps = [s \in Swaps |-> Idle]
    /\ writes = 0
    /\ now = MinTime
    /\ chain_now = MinTime

\* The protocol changes an account.
Publish(slot) ==
    /\ writes < MaxWrites
    /\ \E data \in Contents[slot] : chain' = [chain EXCEPT ![slot].data = data]
    /\ chain' # chain
    /\ swaps' = After("publish")
    /\ writes' = writes + 1
    /\ UNCHANGED <<venue, now, chain_now>>

UpdateState ==
    /\ venue' = Updated(venue, chain)
    /\ UNCHANGED <<chain, swaps, writes, now, chain_now>>

\* The router takes up a quote that gives something.
Ask(s, request) ==
    /\ swaps[s] = Idle
    /\ \E answer \in {Quote(venue, request, now)} :
            /\ Output(answer) > 0
            /\ swaps' = [swaps EXCEPT ![s] = Quoted(request, Output(answer),
                                                    CopyOf(venue, chain))]
    /\ UNCHANGED <<chain, venue, writes, now, chain_now>>

\* The instruction is built by the venue as it is by then.
Send(s) ==
    /\ swaps[s].phase = "quoted"
    /\ \E built \in {GenerateSwapInstructionV2(venue, swaps[s].request, "user")} :
            /\ built.ok
            /\ swaps' = [swaps EXCEPT ![s] = Dispatched(@, built.val)]
    /\ UNCHANGED <<chain, venue, writes, now, chain_now>>

\* A transaction never lands or is refused, or the router lets go of a quote.
Lose(s) ==
    /\ UnderWay(swaps[s])
    /\ swaps' = [swaps EXCEPT ![s] = Over]
    /\ UNCHANGED <<chain, venue, writes, now, chain_now>>

\* The program executes an instruction.
LandBuy(s) ==
    /\ swaps[s].phase = "sent"
    /\ Direction(swaps[s].instruction) = "buy"
    /\ \E executed \in {Execution(chain, swaps[s].instruction, chain_now)} :
        /\ executed.codes = {}
        /\ \E reached \in {0, swaps[s].instruction.amount} :
            chain' = AfterBuying(chain, swaps[s].instruction.amount, executed.paid,
                                 chain[PayingVault(chain)].data + reached, chain_now)
        /\ Fits(chain', {"pair", "token_out", PayingVault(chain)})
    /\ swaps' = [After("buy") EXCEPT ![s] = Over]
    /\ UNCHANGED <<venue, writes, now, chain_now>>

LandSell(s) ==
    /\ swaps[s].phase = "sent"
    /\ Direction(swaps[s].instruction) = "sell"
    /\ \E executed \in {Execution(chain, swaps[s].instruction, chain_now)} :
        /\ executed.codes = {}
        /\ chain' = AfterSelling(chain, Worth(chain, swaps[s].instruction.amount, chain_now),
                                 executed.paid, chain_now)
        /\ Fits(chain', {"pair"})
    /\ swaps' = [After("sell") EXCEPT ![s] = Over]
    /\ UNCHANGED <<venue, writes, now, chain_now>>

Tick ==
    /\ now < Lesser(MaxTime, chain_now + MaxSkew)
    /\ now' = now + 1
    /\ UNCHANGED <<chain, venue, swaps, writes, chain_now>>

ChainTick ==
    /\ chain_now < Lesser(MaxTime, now + MaxSkew)
    /\ chain_now' = chain_now + 1
    /\ UNCHANGED <<chain, venue, swaps, writes, now>>

Next ==
    \/ \E slot \in Slots : Publish(slot)
    \/ \E s \in Swaps : \/ \E request \in Requests : Ask(s, request)
                        \/ Send(s) \/ Lose(s) \/ LandBuy(s) \/ LandSell(s)
    \/ UpdateState \/ Tick \/ ChainTick

Spec == Init /\ [][Next]_vars
-----------------------------------------------------------------------------
\* The accounts stay in their widths and a vault is never overdrawn, whatever
\* lands in whatever order; the venue keeps two tokens however often it updates.
TypeOK ==
    /\ \A slot \in Slots : chain[slot] \in AccountOf(slot) /\ Sound(chain, slot)
    /\ venue.initialized /\ venue.token_info \in TokenInfos \X TokenInfos
    /\ writes \in 0..MaxWrites
    /\ {now, chain_now} \subseteq MinTime..MaxTime

Sent == {s \in Swaps : swaps[s].phase = "sent"}

\* Swaps with what would come of each now.
Fates(some) ==
    {[swap |-> swaps[s], executed |-> Execution(chain, swaps[s].instruction, chain_now)] :
        s \in some}

\* The swaps sent that were quoted in step with the chain and overtaken by
\* nothing but these events.
Overtaken(events) == {s \in Sent : swaps[s].in_step /\ swaps[s].since \subseteq events}

\* Of these, the ones priced at the chain's own time.
Timely(some) == {s \in some : swaps[s].at = chain_now}

\* Of these, the ones also quoted in that second of the chain's: what has
\* overtaken them landed within it.
Prompt(some) == {s \in Timely(some) : swaps[s].agreed}

\* The classes of the failures with which a swap may be refused.
Classes(executed) == {Classify(code) : code \in executed.codes}

Pays(executed) == executed.codes = {}

\* A swap quoted in step with the chain, on which nothing has happened since,
\* pays exactly its quote if it pays: by another computation than the quote's,
\* after the program's own roll of the epoch and from an instruction the venue
\* may have built after further updates.
PaysAsQuoted ==
    \A f \in Fates(Timely(Overtaken({}))) :
        Pays(f.executed) => f.executed.paid = f.swap.output

\* The classes of failure a venue in step with the chain does not foresee: it
\* consults neither the redemption offer's flag nor, once built, the offer's
\* openness to permissionless takers.
Unforeseen == {"RedemptionOfferDisabled", "PermissionlessNotAllowed"}

\* Such a swap is refused for the two expected failures that quote() does not
\* look at and for nothing else: its instruction names every account, each with
\* the rights the program needs, and what has been quoted can be paid.
RefusedOnlyUnforeseen ==
    \A f \in Fates(Timely(Overtaken({}))) : Classes(f.executed) \subseteq Unforeseen

\* A swap overtaken by sells within its second never pays more than its quote,
\* and a buy pays exactly that: a sell uses up vault and pressure and gives back
\* nothing.  Within its second: a sell that lands earlier may end an epoch, and
\* what is left of the pressure then decays from an earlier start.
OvertakenBySells ==
    \A f \in Fates(Prompt(Overtaken({"sell"}))) :
        Pays(f.executed) =>
            /\ f.executed.paid <= f.swap.output
            /\ IsBuy(f.swap.request) => f.executed.paid = f.swap.output

\* A sell overtaken by buys alone, within its second, pays no less than its
\* quote, and is refused for no other reason than before unless the grown supply
\* is worth more than fits; a buy pays its quote or is refused.
OvertakenByBuys ==
    \A f \in Fates(Prompt(Overtaken({"buy"}))) :
        /\ IsSell(f.swap.request) =>
              \/ Classes(f.executed) \subseteq Unforeseen
              \/ Paid(chain, f.swap.instruction, chain_now) = Overflow
        /\ Pays(f.executed) => f.executed.paid >= f.swap.output
        /\ IsBuy(f.swap.request) /\ Pays(f.executed) => f.executed.paid = f.swap.output

\* The vector and the price at a time, as the chain has them.
PricedAt(time) ==
    LET priced(vector) == <<vector, StepPrice(vector.val, time)>>
    IN  priced(FindActiveVector(chain["offer"].data.vectors, time))

\* No epoch begins after one time and by the later other.
WithoutBeginning(time, later) ==
    LET start == ToDampeningState(chain["pair"].data).epoch_start
    IN  time <= later /\ (start <= time \/ start > later)

\* Clocks that differ inside one price step do no harm: on unchanged accounts a
\* buy pays its quote, and a sell that executes later than it was quoted pays
\* no less, also across the end of an epoch.  Except by a host's clock that is
\* behind the last trade: a quote from before the epoch's start sees none of
\* the pressure that trade left, and the swap may meet it.
SkewWithinStep ==
    \A f \in Fates({s \in Overtaken({}) : PricedAt(swaps[s].at) = PricedAt(chain_now)}) :
        Pays(f.executed) =>
           /\ IsBuy(f.swap.request) => f.executed.paid = f.swap.output
           /\ IsSell(f.swap.request) /\ WithoutBeginning(f.swap.at, chain_now)
              => f.executed.paid >= f.swap.output

\* A router that stops on an expected failure and updates sees why: the class
\* of a kill switch or a disabled offer is what status() then reports, and the
\* other way round no swap is executed that status() would have stopped.
RefusalsMatchStatus ==
    \A f \in Fates(Sent) : \A status \in {Status(Updated(venue, chain))} :
        /\ (status = "KillSwitchActive") <=> "KillSwitchActivated" \in Classes(f.executed)
        /\ status = "OfferDisabled" => "OfferDisabled" \in Classes(f.executed)
        /\ "OfferDisabled" \in Classes(f.executed) => status # "Active"

\* README: "Sells recompute on chain and enforce `minimum_out`".  What executes
\* pays at least what was quoted.
NeverLessThanQuoted ==
    \A f \in Fates(Sent) : Pays(f.executed) => f.executed.paid >= f.swap.output
=============================================================================
