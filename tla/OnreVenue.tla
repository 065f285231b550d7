----------------------------- MODULE OnreVenue -----------------------------
(***************************************************************************)
(* The venue over time: the accounts on chain, the router's account cache  *)
(* behind the venue, and the venue that copies the cache field by field.   *)
(*                                                                         *)
(* The chain and the cache are external: any account may be written or     *)
(* broken at any time, and the cache refreshes account by account, so an   *)
(* update may read a mix of moments.                                       *)
(***************************************************************************)
EXTENDS SwapInstruction

CONSTANTS
    Chains,         \* the accounts on chain at the start
    Contents,       \* Contents[slot]: what may be written to an account
    Amounts,        \* the amounts of the quote requests
    MaxWrites,      \* bound on the writes to the chain
    MaxTime         \* bound on the clock

ASSUME VenueAssumption ==
    /\ \A c \in Chains : /\ DOMAIN c = Slots
                         /\ \A slot \in Slots : c[slot] \in AccountOf(slot)
                         /\ c["offer"].fault = "none"
                         /\ c["offer"].data.allow_permissionless
    /\ \A slot \in Slots : \A data \in Contents[slot] : data \in DataOf(slot)
    /\ Amounts \subseteq U64
    /\ MaxWrites \in Nat
    /\ MaxTime \in U64 \ {0}

VARIABLES
    chain,      \* the accounts on chain
    cache,      \* the accounts as the router's cache has them
    venue,      \* the OnreVenue
    writes,     \* writes to the chain so far
    now         \* the host's clock

vars == <<chain, cache, venue, writes, now>>
-----------------------------------------------------------------------------
QuoteRequests ==
    [input_mint : {TokenIn, TokenOut, OtherMint},
     output_mint : {TokenIn, TokenOut, OtherMint},
     amount : Amounts, swap_type : {"ExactIn", "ExactOut"}]

Init ==
    /\ chain \in Chains
    /\ cache = chain
    /\ venue = NewVenue(chain["offer"].data)
    /\ writes = 0
    /\ now = 1

\* The protocol writes an account, or an account becomes unreadable.
Write(slot) ==
    /\ writes < MaxWrites
    /\ \/ \E data \in Contents[slot] :
            chain' = [chain EXCEPT ![slot] = [fault |-> "none", data |-> data]]
       \/ \E fault \in FaultsOf(slot) :
            chain' = [chain EXCEPT ![slot].fault = fault]
    /\ chain' # chain
    /\ writes' = writes + 1
    /\ UNCHANGED <<cache, venue, now>>

\* The cache catches up with one account.
Refresh(slot) ==
    /\ cache' = [cache EXCEPT ![slot] = chain[slot]]
    /\ UNCHANGED <<chain, venue, writes, now>>

\* An offer that is unreadable, or closed to permissionless takers, is refused.
FromAccount ==
    /\ Sound(cache, "offer")
    /\ cache["offer"].data.allow_permissionless
    /\ venue' = NewVenue(cache["offer"].data)
    /\ UNCHANGED <<chain, cache, writes, now>>

\* A fetch that fails as a whole changes nothing: a stuttering step.
UpdateState ==
    /\ venue' = Updated(venue, cache)
    /\ UNCHANGED <<chain, cache, writes, now>>

Tick ==
    /\ now < MaxTime
    /\ now' = now + 1
    /\ UNCHANGED <<chain, cache, venue, writes>>

Next ==
    \/ \E slot \in Slots : Write(slot) \/ Refresh(slot)
    \/ FromAccount
    \/ UpdateState
    \/ Tick

\* The router polls: its cache follows every account, and the venue is updated.
Fairness ==
    /\ \A slot \in Slots : WF_vars(Refresh(slot))
    /\ WF_vars(UpdateState)

Spec == Init /\ [][Next]_vars
FairSpec == Spec /\ Fairness
-----------------------------------------------------------------------------
\* Every field of the venue holds nothing or the content of its account.
TypeOK ==
    /\ \A slot \in Slots : chain[slot] \in AccountOf(slot) /\ cache[slot] \in AccountOf(slot)
    /\ venue.offer \in Offers
    /\ venue.state \in States \union {None}
    /\ venue.token_info = <<>> \/ venue.token_info \in TokenInfos \X TokenInfos
    /\ venue.token_out_supply \in U64
    /\ venue.prop_amm_pair_state \in PropAmmPairState \union {None}
    /\ venue.redemption_vault_token_in \in U64 \union {None}
    /\ venue.redemption_offer \in RedemptionOffers \union {None}
    /\ venue.circulating_supply_excluded_balance \in U64 \union {None}
    /\ venue.initialized \in BOOLEAN
    /\ writes \in 0..MaxWrites
    /\ now \in 1..MaxTime

Answer(request) == Quote(venue, request, now)

\* No request gets anything out of the venue.
NoOutput(v, time) ==
    \A request \in QuoteRequests : Output(Quote(v, request, time)) = 0

\* Once initialized the venue never again answers that it is not, whatever
\* updates fail halfway afterwards.
InitializedForGood ==
    venue.initialized =>
        \A request \in QuoteRequests :
            Answer(request).err \notin {"NotInitialized", "TokenInfoIndexError"}

\* status() takes an unread state account for a kill switch that is off; no
\* quote may pay out on that guess, however an update was cut short.
NoOutputOnUnreadSwitch == venue.state = None => NoOutput(venue, now)

\* Buying ONyc and selling it back on the same copy of the accounts never
\* returns more than was paid: no rounding of fee, price or decimals is gained.
RoundTripNeverProfits ==
    \A buy \in {Buy(amount) : amount \in Amounts} :
        \A sell \in {Sell(Output(Answer(buy)))} :
            sell.amount > 0 => Output(Answer(sell)) <= buy.amount

\* The kill switch is on, and can be seen to be.
Killed(c) == Sound(c, "offer") /\ Sound(c, "state") /\ c["state"].data.is_killed

\* An update that gets as far as a state account with the kill switch on stops
\* every quote, also when a later account is unreadable.
KillSwitchObeyed ==
    Killed(cache) => \A updated \in {Updated(venue, cache)} : NoOutput(updated, now)

\* An update that reads every account never lets a sell be quoted beyond the
\* balance of the vault that pays it: the one under token_in's token program.
QuotedFromPayingVault ==
    Readable(cache) =>
        \A amount \in Amounts :
            Output(Quote(Updated(venue, cache), Sell(amount), now))
                <= cache[PayingVault(cache)].data

\* An update that returns Ok has copied every account, the vault that pays
\* included, whatever an earlier update left behind: the router may go by the
\* result alone.
OkMeansCurrent ==
    UpdateResult(cache).ok => Readable(cache) /\ CopyOf(Updated(venue, cache), cache)

\* OnreError::DeserializationFailed: "Failed to deserialize account data: {0}".
\* The account it names is one whose data the update could not read.
BlamesUnreadable ==
    \A result \in {UpdateResult(cache)} :
        result.err = "DeserializationFailed" => cache[result.val].fault = "corrupt"

\* Whatever a torn or stale venue quotes it can also build: no positive quote
\* is followed by an instruction builder that lacks an account.
BuildsWhatItQuotes ==
    \A request \in QuoteRequests :
        Output(Answer(request)) > 0 => GenerateSwapInstructionV2(venue, request, "user").ok

\* The accounts a quote to request was computed from.
QuotedFrom(request) ==
    {"offer", "state", "token_in", "token_out"}
        \union IF ~IsSell(request) THEN {}
               ELSE {"pair", "redemption", "excluded",
                     IF venue.token_info[1].is_token_2022 THEN "vault_22" ELSE "vault"}

\* Of these, the accounts a swap changes.
Changed == {"token_out", "pair", "vault", "vault_22"}

\* The instruction that follows a quote names every account the quote was
\* computed from, writable where the swap changes it, although from_account and
\* the builder derive the addresses apart: the vault under the right token
\* program, the redemption offer in its own order of the mints.
NamesWhatItQuoted ==
    \A request \in {Buy(amount) : amount \in Amounts} \union {Sell(amount) : amount \in Amounts} :
        Output(Answer(request)) > 0 =>
            \A accounts \in {GenerateSwapInstructionV2(venue, request, "user").val.accounts} :
                \A slot \in QuotedFrom(request) :
                    \E i \in DOMAIN accounts :
                        /\ accounts[i].key = KeyOf(slot)
                        /\ slot \in Changed => accounts[i].writable

\* If the kill switch stays on, the venue ends up quoting nothing and stays so:
\* neither accounts that break nor a venue built anew bring quotes back.
KillSwitchSticks == <>[]Killed(chain) => <>[]NoOutput(venue, now)

InSync == Readable(chain) /\ CopyOf(venue, chain)

\* If the accounts stay readable, the venue recovers from any torn update and
\* catches up again and again.
CatchesUp == <>[]Readable(chain) => []<>InSync

\* The accounts as an update finds them and as the venue holds them, in the
\* order in which they are read.
SourcePlaces ==
    <<cache["offer"].data, cache["state"].data,
      <<cache["token_in"].data, cache["token_out"].data, cache["token_out"].data.supply>>,
      cache["pair"].data, cache[VaultSlot(cache)].data, cache["redemption"].data,
      cache["excluded"].data>>
CopyPlaces ==
    <<venue.offer, venue.state,
      IF venue.token_info = <<>> THEN None
      ELSE <<venue.token_info[1], venue.token_info[2], venue.token_out_supply>>,
      venue.prop_amm_pair_state, venue.redemption_vault_token_in,
      venue.redemption_offer, venue.circulating_supply_excluded_balance>>

Copy == INSTANCE PrefixCopy
        WITH N <- 7, source <- SourcePlaces, copy <- CopyPlaces,
             whole <- venue.initialized

\* However an update is cut short, the venue is an ordered copy: everything
\* before the account that stopped it is current, everything from it on is as
\* it was, both mints go together, and initialized says the last was reached.
CopiesPrefix == Copy!Spec

\* The integration test of a disabled redemption offer: it "is surfaced as
\* expected state".  A venue in step with the chain, where the program refuses
\* every sell, quotes none.
DisabledRedemptionSurfaced ==
    InSync /\ chain["redemption"].data.disabled =>
        \A amount \in Amounts : Output(Answer(Sell(amount))) = 0
=============================================================================
