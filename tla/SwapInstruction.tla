-------------------------- MODULE SwapInstruction --------------------------
(***************************************************************************)
(* The addresses a venue is read from and the instructions it builds       *)
(* (trading_venue.rs): which accounts, in which order and with which       *)
(* rights, and the data.                                                   *)
(*                                                                         *)
(* An address is what it is derived from: a program address by its seeds,  *)
(* an associated token account by owner, mint and token program.           *)
(***************************************************************************)
EXTENDS Venue, Sequences

Pda(seed, parents) == <<"pda", seed, parents>>
Ata(owner, token) == <<"ata", owner, token.mint, token.program>>
Wallet(user) == <<"wallet", user>>
Program(name) == <<"program", name>>
ConfigurableVault(name) == Pda("configurable_vault", <<name>>)

OfferPda == Pda("offer", <<TokenIn, TokenOut>>)
StatePda == Pda("state", <<>>)
PairPda == Pda("prop_amm_pair", <<OfferPda>>)
ExcludedPda == Pda("circ_supply_excl_balance", <<>>)
OfferVaultAuthority == Pda("offer_vault_authority", <<>>)
RedemptionVaultAuthority == Pda("redemption_offer_vault_authority", <<>>)
PermissionlessAuthority == Pda("permissionless-1", <<>>)
MintAuthority == Pda("mint_authority", <<>>)

\* The keys from_account derives and an update asks the cache for.
KeyOf(slot) ==
    CASE slot = "offer" -> OfferPda
      [] slot = "state" -> StatePda
      [] slot = "token_in" -> TokenIn
      [] slot = "token_out" -> TokenOut
      [] slot = "pair" -> PairPda
      [] slot = "redemption" -> Pda("redemption_offer", <<TokenOut, TokenIn>>)
      [] slot = "vault" ->
            Ata(RedemptionVaultAuthority, [mint |-> TokenIn, program |-> Program("token")])
      [] slot = "vault_22" ->
            Ata(RedemptionVaultAuthority,
                [mint |-> TokenIn, program |-> Program("token_2022")])
      [] slot = "excluded" -> ExcludedPda

\* Mutant: the token program of the mint is not looked at.
TokenProgram_Legacy(info) == Program("token")

TokenProgram(info) == Program(IF info.is_token_2022 THEN "token_2022" ELSE "token")

\* get_token of an updated venue: the mint it was read from, and its program.
Token(v, i) ==
    [mint |-> <<TokenIn, TokenOut>>[i], program |-> TokenProgram(v.token_info[i])]

Meta(key, writable) == [key |-> key, writable |-> writable, signer |-> FALSE]
Writable(key) == Meta(key, TRUE)
Readonly(key) == Meta(key, FALSE)

Mints(in, out) ==
    <<Writable(in.mint), Readonly(in.program), Writable(out.mint), Readonly(out.program)>>

\* The token accounts of an owner for both sides.
Accounts(owner, in, out) == <<Writable(Ata(owner, in)), Writable(Ata(owner, out))>>

User(user) == [Writable(Wallet(user)) EXCEPT !.signer = TRUE]
Programs == <<Readonly(Program("associated_token")), Readonly(Program("system"))>>
Sysvar == <<Readonly(<<"sysvar", "instructions">>)>>
-----------------------------------------------------------------------------
(***************************************************************************)
(* generate_swap_instruction_v2.                                           *)
(***************************************************************************)
\* The redemption offer runs against the offer, whichever way the request goes.
RedemptionSeeds == <<TokenOut, TokenIn>>

\* Both lists begin with the shared program addresses.
SharedPdas ==
    <<Writable(OfferPda), Writable(PairPda),
      Readonly(Pda("redemption_offer", RedemptionSeeds)), Readonly(StatePda),
      Readonly(OfferVaultAuthority), Readonly(RedemptionVaultAuthority)>>

\* A configurable vault and its token account.
WithAccount(vault, token) == <<Writable(vault), Writable(Ata(vault, token))>>

\* Where the input goes: the proceeds, and the fee of the direction.
Collected(feeVault, in) ==
    WithAccount(ConfigurableVault("prop_amm_proceeds"), in)
        \o WithAccount(ConfigurableVault(feeVault), in)

\* BufferAccrualAccounts, and the end both lists share.
Accrual(v, user) ==
    LET onyc == Token(v, 2)
    IN  <<Writable(Pda("buffer_state", <<>>)),
          Writable(Ata(Pda("reserve_vault_authority", <<>>), onyc)),
          Writable(Ata(ConfigurableVault("management_fee"), onyc)),
          Writable(Ata(ConfigurableVault("performance_fee"), onyc)),
          Writable(Pda("market_stats", <<>>)), Readonly(ExcludedPda)>>
        \o Sysvar \o <<User(user)>> \o Programs \o <<Readonly(v.state.main_offer)>>

BuyAccounts(v, in, out, user) ==
    SharedPdas
        \o Accounts(OfferVaultAuthority, in, out)
        \o <<Writable(Ata(RedemptionVaultAuthority, in))>>
        \o Mints(in, out) \o Accounts(Wallet(user), in, out)
        \o Collected("prop_amm_buy_fee", in)
        \o <<Readonly(PermissionlessAuthority)>>
        \o Accounts(PermissionlessAuthority, in, out)
        \o <<Readonly(MintAuthority)>>
        \o Accrual(v, user)

\* Mutant: the vault that pays is not writable.
SellAccounts_Frozen(v, in, out, user) ==
    SharedPdas
        \o <<Writable(Ata(RedemptionVaultAuthority, in)),
             Readonly(Ata(RedemptionVaultAuthority, out))>>
        \o Mints(in, out) \o Accounts(Wallet(user), in, out)
        \o Collected("prop_amm_sell_fee", in)
        \o <<Readonly(MintAuthority)>>
        \o Accrual(v, user)
        \o <<Readonly(Ata(OfferVaultAuthority, Token(v, 2)))>>

SellAccounts(v, in, out, user) ==
    SharedPdas
        \o Accounts(RedemptionVaultAuthority, in, out)
        \o Mints(in, out) \o Accounts(Wallet(user), in, out)
        \o Collected("prop_amm_sell_fee", in)
        \o <<Readonly(MintAuthority)>>
        \o Accrual(v, user)
        \o <<Readonly(Ata(OfferVaultAuthority, Token(v, 2)))>>

Instruction(discriminator, amount, minimum, accounts) ==
    Ok([discriminator |-> discriminator, amount |-> amount, minimum_out |-> minimum,
        accounts |-> accounts])

GenerateSwapInstructionV2(v, request, user) ==
    IF v.state = None THEN Err("StateMissing")
    ELSE IF ~IsBuy(request) /\ ~IsSell(request) THEN Err("InvalidMint")
    ELSE IF v.token_info = <<>> THEN Err("TokenInfoIndexError")
    ELSE IF IsBuy(request)
         THEN Instruction("open_swap_buy", request.amount, 0,
                          BuyAccounts(v, Token(v, 1), Token(v, 2), user))
    ELSE Instruction("open_swap_sell", request.amount, 0,
                     SellAccounts(v, Token(v, 2), Token(v, 1), user))
-----------------------------------------------------------------------------
(***************************************************************************)
(* generate_swap_instruction, deprecated: always spends token_in, whichever *)
(* way the request goes, and its data has no minimum.                      *)
(***************************************************************************)
TakeAccounts(v, in, out, user) ==
    LET boss == v.state.boss
    IN  <<Writable(OfferPda), Readonly(StatePda), Readonly(boss),
          Readonly(OfferVaultAuthority)>>
        \o Accounts(OfferVaultAuthority, in, out)
        \o <<Readonly(PermissionlessAuthority)>>
        \o Accounts(PermissionlessAuthority, in, out)
        \o Mints(in, out) \o Accounts(Wallet(user), in, out)
        \o <<Writable(Ata(boss, in)), Readonly(MintAuthority)>>
        \o Sysvar \o <<User(user)>> \o Programs

GenerateSwapInstruction(v, request, user) ==
    IF v.state = None THEN Err("StateMissing")
    ELSE IF v.token_info = <<>> THEN Err("TokenInfoIndexError")
    ELSE Instruction("take_offer_permissionless", request.amount, None,
                     TakeAccounts(v, Token(v, 1), Token(v, 2), user))
=============================================================================
