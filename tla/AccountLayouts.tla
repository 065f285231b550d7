--------------------------- MODULE AccountLayouts ---------------------------
(***************************************************************************)
(* The loaders of the five program accounts (state.rs, redemption.rs,      *)
(* prop_amm.rs): which data they accept and which bytes they take for      *)
(* which field.  Data is whatever a cache may hold under a key: any length, *)
(* any discriminator, any byte for each switch, at any address.            *)
(***************************************************************************)
EXTENDS Naturals, Sequences

CONSTANTS
    Lengths,    \* the lengths data may have
    Bytes       \* the values a switch may have

ASSUME LayoutAssumption == Lengths \subseteq Nat /\ Bytes \subseteq 0..255

VARIABLE data   \* what is loaded from

Kinds == {"offer", "state", "pair", "redemption", "excluded"}

\* The bytes of an account that stand for a boolean.
Switches(kind) ==
    CASE kind = "offer" -> {"needs_approval", "allow_permissionless", "disabled"}
      [] kind = "state" -> {"is_killed"}
      [] kind = "pair" -> {"enabled"}
      [] kind = "redemption" -> {"disabled"}
      [] kind = "excluded" -> {}

\* The switches of an account that is open to trading.
Opened(kind) ==
    [name \in Switches(kind) |-> IF name \in {"allow_permissionless", "enabled"} THEN 1 ELSE 0]

DiscriminatorLen == 8
Admins == 20
OfferVectors == 10
OfferAlign == 8         \* the alignment of Offer, which holds u64s

Declared(name, width) == <<[name |-> name, at |-> 0, width |-> width]>>
Array(name, n, width) == [i \in 1..n |-> [name |-> name, at |-> i - 1, width |-> width]]
-----------------------------------------------------------------------------
(***************************************************************************)
(* What is written: the fields of the accounts in the order in which the   *)
(* structures declare them.  The program writes them packed.               *)
(***************************************************************************)
OfferFields ==
    Declared("token_in_mint", 32) \o Declared("token_out_mint", 32)
    \o Array("vectors", OfferVectors, 40) \o Declared("fee_basis_points", 2)
    \o Declared("bump", 1) \o Declared("needs_approval", 1)
    \o Declared("allow_permissionless", 1) \o Declared("disabled", 1)
    \o Declared("fee_basis_points_permissionless", 2) \o Declared("reserved", 128)

StateFields ==
    Declared("boss", 32) \o Declared("proposed_boss", 32) \o Declared("is_killed", 1)
    \o Declared("onyc_mint", 32) \o Array("admins", Admins, 32)
    \o Declared("approver1", 32) \o Declared("approver2", 32) \o Declared("bump", 1)
    \o Declared("max_supply", 8) \o Declared("redemption_admin", 32)
    \o Declared("max_mint_amount", 8) \o Declared("main_offer", 32)
    \o Declared("reserved", 56)

PairFields ==
    Declared("offer", 32) \o Declared("asset_mint", 32) \o Declared("onyc_mint", 32)
    \o Declared("enabled", 1) \o Declared("curve_peg_haircut_bps", 2)
    \o Declared("curve_exponent_scaled", 4) \o Declared("cadence_threshold", 4)
    \o Declared("cadence_wave_scaled", 4) \o Declared("epoch_duration_seconds", 8)
    \o Declared("wall_sensitivity_scaled", 4) \o Declared("minimum_sell_haircut_onyc", 8)
    \o Declared("curr_sell_value_stable", 8) \o Declared("curr_buy_value_stable", 8)
    \o Declared("prev_net_sell_value_stable", 8) \o Declared("curr_sell_trade_count", 4)
    \o Declared("epoch_start", 8) \o Declared("bump", 1) \o Declared("reserved", 284)

RedemptionFields ==
    Declared("offer", 32) \o Declared("token_in_mint", 32) \o Declared("token_out_mint", 32)
    \o Declared("executed_redemptions", 16) \o Declared("requested_redemptions", 16)
    \o Declared("fee_basis_points", 2) \o Declared("request_counter", 8)
    \o Declared("bump", 1) \o Declared("vault_target_bps", 2) \o Declared("disabled", 1)
    \o Declared("fee_basis_points_prop_amm_sell", 2) \o Declared("reserved", 104)

ExcludedFields ==
    Declared("amount", 8) \o Declared("last_updated_at", 8)
    \o Declared("last_updated_slot", 8) \o Declared("bump", 1) \o Declared("reserved", 31)

Fields(kind) ==
    CASE kind = "offer" -> OfferFields
      [] kind = "state" -> StateFields
      [] kind = "pair" -> PairFields
      [] kind = "redemption" -> RedemptionFields
      [] kind = "excluded" -> ExcludedFields

\* Where the first i fields end if they stand one behind the other.
Ends(fields) ==
    LET end[i \in 0..Len(fields)] ==
            IF i = 0 THEN 0 ELSE end[i - 1] + fields[i].width
    IN  end

Width(fields) == Ends(fields)[Len(fields)]

Read(name, at, offset, width) ==
    [name |-> name, at |-> at, offset |-> offset, width |-> width]

\* The bytes behind each field, counted from the end of the discriminator.
Packed(fields) ==
    {Read(fields[i].name, fields[i].at, Ends(fields)[i - 1], fields[i].width) :
        i \in DOMAIN fields}
-----------------------------------------------------------------------------
(***************************************************************************)
(* What is read.                                                           *)
(***************************************************************************)
One(name, offset, width) == {Read(name, 0, offset, width)}
Pubkey(name, offset) == One(name, offset, 32)
U8(name, offset) == One(name, offset, 1)
U16(name, offset) == One(name, offset, 2)
U32(name, offset) == One(name, offset, 4)
Word(name, offset) == One(name, offset, 8)      \* u64 and i64
U128(name, offset) == One(name, offset, 16)

\* A field of repr(C) begins where its alignment allows.
Align(f) ==
    IF f.name = "vectors" THEN 8
    ELSE IF f.name \in {"fee_basis_points", "fee_basis_points_permissionless"} THEN 2
    ELSE 1

\* Mutant: every field in a word of its own.
RoundedUp_Wide(n, align) == ((n + OfferAlign - 1) \div OfferAlign) * OfferAlign

RoundedUp(n, align) == ((n + align - 1) \div align) * align

\* Where the first i fields of a structure of repr(C) end.
CastEnds(fields) ==
    LET end[i \in 0..Len(fields)] ==
            IF i = 0 THEN 0
            ELSE RoundedUp(end[i - 1], Align(fields[i])) + fields[i].width
    IN  end

OfferSize == RoundedUp(CastEnds(OfferFields)[Len(OfferFields)], OfferAlign)

\* The bytes behind the fields of Offer.
OfferReads ==
    {Read(OfferFields[i].name, OfferFields[i].at,
          RoundedUp(CastEnds(OfferFields)[i - 1], Align(OfferFields[i])),
          OfferFields[i].width) : i \in DOMAIN OfferFields}

\* Mutant: max_supply aligned as in a structure of C.
StateReads_Aligned ==
    Pubkey("boss", 0) \union U8("is_killed", 64) \union Word("max_supply", 808)
    \union Pubkey("main_offer", 850)

StateReads ==
    Pubkey("boss", 0) \union Pubkey("proposed_boss", 32) \union U8("is_killed", 64)
    \union Pubkey("onyc_mint", 65)
    \union {Read("admins", i, 97 + i * 32, 32) : i \in 0..(Admins - 1)}
    \union Pubkey("approver1", 737) \union Pubkey("approver2", 769) \union U8("bump", 801)
    \union Word("max_supply", 802) \union Pubkey("redemption_admin", 810)
    \union Word("max_mint_amount", 842) \union Pubkey("main_offer", 850)

PairReads ==
    Pubkey("offer", 0) \union Pubkey("asset_mint", 32) \union Pubkey("onyc_mint", 64)
    \union U8("enabled", 96) \union U16("curve_peg_haircut_bps", 97)
    \union U32("curve_exponent_scaled", 99) \union U32("cadence_threshold", 103)
    \union U32("cadence_wave_scaled", 107) \union Word("epoch_duration_seconds", 111)
    \union U32("wall_sensitivity_scaled", 119) \union Word("minimum_sell_haircut_onyc", 123)
    \union Word("curr_sell_value_stable", 131) \union Word("curr_buy_value_stable", 139)
    \union Word("prev_net_sell_value_stable", 147) \union U32("curr_sell_trade_count", 155)
    \union Word("epoch_start", 159) \union U8("bump", 167) \union One("reserved", 168, 284)

RedemptionReads ==
    Pubkey("offer", 0) \union Pubkey("token_in_mint", 32) \union Pubkey("token_out_mint", 64)
    \union U128("executed_redemptions", 96) \union U128("requested_redemptions", 112)
    \union U16("fee_basis_points", 128) \union Word("request_counter", 130)
    \union U8("bump", 138) \union U16("vault_target_bps", 139) \union U8("disabled", 141)
    \union U16("fee_basis_points_prop_amm_sell", 142)

ExcludedReads ==
    Word("amount", 0) \union Word("last_updated_at", 8) \union Word("last_updated_slot", 16)
    \union U8("bump", 24) \union One("reserved", 25, 31)

Reads(kind) ==
    CASE kind = "offer" -> OfferReads
      [] kind = "state" -> StateReads
      [] kind = "pair" -> PairReads
      [] kind = "redemption" -> RedemptionReads
      [] kind = "excluded" -> ExcludedReads

\* The length the check asks for, without the discriminator.
SerializedLen(kind) ==
    CASE kind = "offer" -> OfferSize
      [] kind = "state" ->
            32 + 32 + 1 + 32 + Admins * 32 + 32 + 32 + 1 + 8 + 32 + 8 + 32 + 56
      [] kind = "pair" -> 452
      [] kind = "redemption" -> 32 + 32 + 32 + 16 + 16 + 2 + 8 + 1 + 2 + 1 + 2 + 104
      [] kind = "excluded" -> 8 + 8 + 8 + 1 + 31

\* Mutant: the discriminator not counted.
LongEnough_Bare(kind, d) == d.length >= SerializedLen(kind)

LongEnough(kind, d) == d.length >= DiscriminatorLen + SerializedLen(kind)

\* Only the cast of an offer depends on the address.
Castable(d) == (d.address + DiscriminatorLen) % OfferAlign = 0

\* Mutant: anything but 0 is true.
ReadBool_Lax(byte) == [ok |-> TRUE, val |-> byte # 0]

\* read_bool.
ReadBool(byte) == [ok |-> byte \in {0, 1}, val |-> byte = 1]

\* Whether data passes a loader's checks and is read.
Accepted(kind, d) ==
    /\ LongEnough(kind, d)
    /\ d.stamp = kind
    /\ kind = "offer" => Castable(d)
    /\ kind = "pair" => ReadBool(d.switches["enabled"]).ok

\* allow_permissionless, is_disabled and is_killed of the other accounts.
NonZero(byte) == byte # 0

\* Whether a venue trades on what it has loaded, as far as this account goes:
\* an offer must be open when the venue is built and not disabled, a pair that
\* is not enabled stops sells, and a redemption offer's flag stops no quote.
GoesOn(kind, d) ==
    /\ kind = "offer" =>
           NonZero(d.switches["allow_permissionless"]) /\ ~NonZero(d.switches["disabled"])
    /\ kind = "state" => ~NonZero(d.switches["is_killed"])
    /\ kind = "pair" => ReadBool(d.switches["enabled"]).val
-----------------------------------------------------------------------------
\* What a cache may hold under a key.
Data ==
    UNION {[stamp : {kind}, length : Nat, switches : [Switches(kind) -> 0..255],
            address : 0..(OfferAlign - 1)] : kind \in Kinds}

\* An account as the program creates it.
Init == \E kind \in Kinds :
    data = [stamp |-> kind, length |-> DiscriminatorLen + Width(Fields(kind)),
            switches |-> Opened(kind), address |-> 0]

\* The account is reallocated, or the cache holds a part of it only.
Resize(length) == data' = [data EXCEPT !.length = length]

\* Another account is found under the key.
Replace(kind) == data' = [data EXCEPT !.stamp = kind, !.switches = Opened(kind)]

Set(name, byte) == data' = [data EXCEPT !.switches[name] = byte]

\* The cache moves its buffer.
Move(address) == data' = [data EXCEPT !.address = address]

Next ==
    \/ \E length \in Lengths : Resize(length)
    \/ \E kind \in Kinds : Replace(kind)
    \/ \E name \in DOMAIN data.switches, byte \in Bytes : Set(name, byte)
    \/ \E address \in 0..(OfferAlign - 1) : Move(address)

Spec == Init /\ [][Next]_data
-----------------------------------------------------------------------------
\* state.rs: "defensive (no panics on malformed data)".  Whatever the data, what
\* passes the checks is long enough for every read that follows them.
NoReadBeyond ==
    \A kind \in Kinds : Accepted(kind, data) =>
        \A r \in Reads(kind) : DiscriminatorLen + r.offset + r.width <= data.length

\* From an account the program has written every field is read from its own
\* bytes, all of them: by hand from packed data, by the cast without padding.
ReadsWhatIsWritten ==
    \A kind \in Kinds : Accepted(kind, data) => Reads(kind) \subseteq Packed(Fields(kind))

\* An account the program has written is accepted by its loader, and by no
\* other, at whatever length it has been reallocated to; an offer only where its
\* buffer happens to be aligned.
LoadsAsWritten ==
    LET whole(kind) == data.length >= DiscriminatorLen + Width(Fields(kind))
    IN  \A kind \in Kinds :
            /\ \A name \in DOMAIN data.switches : data.switches[name] \in {0, 1}
            /\ kind = "offer" => data.address = 0
            => (Accepted(kind, data) <=> data.stamp = kind /\ whole(kind))

\* The switch by which an account stops trading.  allow_permissionless is not
\* among them: it reads any byte but 0 as open.
StopSwitch == [offer |-> "disabled", state |-> "is_killed", pair |-> "enabled"]

\* A venue trades on an account only if its stop switch is the very byte the
\* program writes for open (0 for two of them, 1 for the third): every other
\* byte, malformed ones included, stops it or has the account refused.
StopSwitchesFailClosed ==
    \A kind \in DOMAIN StopSwitch :
        Accepted(kind, data) /\ GoesOn(kind, data) =>
            data.switches[StopSwitch[kind]] = Opened(kind)[StopSwitch[kind]]
=============================================================================
