---------------------------- MODULE Venue_proofs ----------------------------
(***************************************************************************)
(* What a venue's answer says of the venue, whatever accounts it was read  *)
(* from, and which accounts the instruction after it names.                *)
(***************************************************************************)
EXTENDS SwapInstruction, SellMath_proofs

\* An answer that gives something is one the venue has priced: every check
\* before the price has been passed.
LEMMA QuotePriced ==
    ASSUME NEW v, NEW request, NEW time, Output(Quote(v, request, time)) # 0
    PROVE  LET vector == FindActiveVector(v.offer.vectors, time)
           IN  /\ vector.ok
               /\ Status(v) = "Active"
               /\ \/ /\ IsBuy(request)
                     /\ Quote(v, request, time)
                          = BuyQuote(v, vector.val, request.amount, time)
                  \/ /\ IsSell(request)
                     /\ Quote(v, request, time)
                          = SellQuote(v, vector.val, request.amount, time)
<1>. DEFINE vector == FindActiveVector(v.offer.vectors, time)
<1>1. \A e : Output(Err(e)) = 0
  BY DEF Output, Err
<1>2. \A shortage : Output(QuoteResult(0, shortage)) = 0
  BY DEF Output, QuoteResult, Ok
<1>3. Output(NotEnoughLiquidity) = 0
  BY <1>2 DEF NotEnoughLiquidity
<1>. HIDE DEF vector
<1>4. /\ vector.ok
      /\ Status(v) = "Active"
      /\ IsBuy(request) \/ IsSell(request)
      /\ IsBuy(request) => Quote(v, request, time)
                             = BuyQuote(v, vector.val, request.amount, time)
      /\ ~IsBuy(request) => Quote(v, request, time)
                              = SellQuote(v, vector.val, request.amount, time)
  BY <1>1, <1>2, <1>3, Zenon DEF Quote, vector
<1>. QED
  BY <1>4 DEF vector

\* What is quoted is what the pricing crate gives.
LEMMA PricedOutput ==
    ASSUME NEW priced, Output(Priced(priced)) # 0
    PROVE  priced.ok /\ Output(Priced(priced)) = priced.val
BY DEF Priced, FromPricing, Output, QuoteResult, Ok, Err

\* A buy that is quoted at something is quoted what the pricing crate gives, and
\* stays within the cap on the supply.
LEMMA BuyQuotePriced ==
    ASSUME NEW v, NEW vector, NEW amount, NEW time,
           Output(BuyQuote(v, vector, amount, time)) > 0
    PROVE  LET bought == BuyFromVector(vector, time, amount,
                              v.offer.fee_basis_points_permissionless,
                              v.token_info[1].decimals, v.token_info[2].decimals)
           IN  /\ bought.ok
               /\ Output(BuyQuote(v, vector, amount, time)) = bought.val
               /\ ~ /\ v.state.max_supply > 0
                    /\ v.token_out_supply + bought.val > v.state.max_supply
<1>. DEFINE bought == BuyFromVector(vector, time, amount,
                          v.offer.fee_basis_points_permissionless,
                          v.token_info[1].decimals, v.token_info[2].decimals)
<1>1. \A e : Output(Err(e)) = 0
  BY DEF Output, Err
<1>2. Output(NotEnoughLiquidity) = 0 /\ Output(Overflow) = 0
  BY DEF NotEnoughLiquidity, Output, QuoteResult, Ok, Overflow, Err
<1>3. Output(BuyQuote(v, vector, amount, time)) # 0
  OBVIOUS
<1>. HIDE DEF bought
<1>4. BuyQuote(v, vector, amount, time) = WithinMaxSupply(v, bought)
  BY <1>1, <1>3, Zenon DEF BuyQuote, bought
<1>. DEFINE supply == CheckedAdd(v.token_out_supply, bought.val)
<1>5. /\ WithinMaxSupply(v, bought) = Priced(bought)
      /\ \/ ~bought.ok
         \/ v.state.max_supply = 0
         \/ supply.ok /\ ~(supply.val > v.state.max_supply)
  <2>. HIDE DEF supply
  <2>. QED
    BY <1>2, <1>3, <1>4, Zenon DEF WithinMaxSupply, supply
<1>6. bought.ok /\ Output(BuyQuote(v, vector, amount, time)) = bought.val
  BY <1>4, <1>5, PricedOutput
<1>7. supply.ok => supply.val = v.token_out_supply + bought.val
  BY DEF CheckedAdd, Narrow, Ok, Overflow, Err
<1>8. ~ /\ v.state.max_supply > 0
        /\ v.token_out_supply + bought.val > v.state.max_supply
  <2>. HIDE DEF supply
  <2>. QED
    BY <1>5, <1>6, <1>7
<1>. QED
  BY <1>6, <1>8 DEF bought

\* So is a sell, once the pair, the redemption offer and both balances have
\* been read and the pair is enabled.
LEMMA SellQuotePriced ==
    ASSUME NEW v, NEW vector, NEW amount, NEW time,
           Output(SellQuote(v, vector, amount, time)) # 0
    PROVE  LET pair == v.prop_amm_pair_state
               sold == SellFromVector(vector, time, amount,
                          v.redemption_offer.fee_basis_points_prop_amm_sell,
                          v.token_info[2].decimals, v.token_info[1].decimals,
                          pair.minimum_sell_haircut_onyc,
                          [liquidity |-> v.redemption_vault_token_in,
                           liquidity_cap_target_bps |-> v.redemption_offer.vault_target_bps,
                           circulating_supply |-> SatSub(v.token_out_supply,
                                              v.circulating_supply_excluded_balance),
                           dampening |-> ToDampeningState(pair)])
           IN  /\ None \notin {pair, v.redemption_offer, v.redemption_vault_token_in,
                               v.circulating_supply_excluded_balance}
               /\ pair.enabled
               /\ sold.ok
               /\ Output(SellQuote(v, vector, amount, time)) = sold.val
<1>. DEFINE pair == v.prop_amm_pair_state
            sold == SellFromVector(vector, time, amount,
                        v.redemption_offer.fee_basis_points_prop_amm_sell,
                        v.token_info[2].decimals, v.token_info[1].decimals,
                        pair.minimum_sell_haircut_onyc,
                        [liquidity |-> v.redemption_vault_token_in,
                         liquidity_cap_target_bps |-> v.redemption_offer.vault_target_bps,
                         circulating_supply |-> SatSub(v.token_out_supply,
                                            v.circulating_supply_excluded_balance),
                         dampening |-> ToDampeningState(pair)])
<1>1. \A e : Output(Err(e)) = 0
  BY DEF Output, Err
<1>2. Output(NotEnoughLiquidity) = 0
  BY DEF NotEnoughLiquidity, Output, QuoteResult, Ok
<1>. HIDE DEF sold
<1>3. /\ pair # None
      /\ pair.enabled
      /\ None \notin {v.redemption_offer, v.circulating_supply_excluded_balance,
                      v.redemption_vault_token_in}
      /\ SellQuote(v, vector, amount, time) = Priced(sold)
  BY <1>1, <1>2, Zenon DEF SellQuote, sold
<1>4. sold.ok /\ Output(SellQuote(v, vector, amount, time)) = sold.val
  BY <1>3, PricedOutput
<1>. QED
  BY <1>3, <1>4 DEF sold

\* A request goes one way only.
LEMMA OneWay ==
    ASSUME NEW request PROVE ~(IsBuy(request) /\ IsSell(request))
BY MintAssumption DEF IsBuy, IsSell
-----------------------------------------------------------------------------
(***************************************************************************)
(* Which accounts the instruction names, and with which rights.            *)
(***************************************************************************)
\* An entry is in a list.
Lists(accounts, meta) == \E i \in DOMAIN accounts : accounts[i] = meta

\* A list of something.
IsList(accounts) == \E S : accounts \in Seq(S)

\* A list made of two holds what either holds, and nothing gets lost.
LEMMA ListsJoined ==
    ASSUME NEW s, IsList(s), NEW t, IsList(t)
    PROVE  /\ IsList(s \o t)
           /\ \A meta : Lists(s, meta) \/ Lists(t, meta) => Lists(s \o t, meta)
<1>1. PICK S : s \in Seq(S)
  BY DEF IsList
<1>2. PICK T : t \in Seq(T)
  BY DEF IsList
<1>3. s \in Seq(S \union T) /\ t \in Seq(S \union T)
  BY <1>1, <1>2
<1>4. /\ s \o t \in Seq(S \union T)
      /\ Len(s \o t) = Len(s) + Len(t)
      /\ \A i \in 1..Len(s) : (s \o t)[i] = s[i]
      /\ \A i \in 1..Len(t) : (s \o t)[Len(s) + i] = t[i]
  BY <1>3
<1>5. Len(s) \in Nat /\ Len(t) \in Nat
  BY <1>3
<1>6. DOMAIN s = 1..Len(s) /\ DOMAIN t = 1..Len(t) /\ DOMAIN (s \o t) = 1..(Len(s) + Len(t))
  BY <1>3, <1>4
<1>7. ASSUME NEW meta, Lists(s, meta) PROVE Lists(s \o t, meta)
  <2>1. PICK i \in 1..Len(s) : s[i] = meta
    BY <1>6, <1>7 DEF Lists
  <2>2. i \in 1..(Len(s) + Len(t)) /\ (s \o t)[i] = meta
    BY <1>4, <1>5, <2>1
  <2>. QED
    BY <1>6, <2>2 DEF Lists
<1>8. ASSUME NEW meta, Lists(t, meta) PROVE Lists(s \o t, meta)
  <2>1. PICK i \in 1..Len(t) : t[i] = meta
    BY <1>6, <1>8 DEF Lists
  <2>2. Len(s) + i \in 1..(Len(s) + Len(t)) /\ (s \o t)[Len(s) + i] = meta
    BY <1>4, <1>5, <2>1
  <2>. QED
    BY <1>6, <2>2 DEF Lists
<1>9. IsList(s \o t)
  BY <1>4 DEF IsList
<1>. QED
  BY <1>7, <1>8, <1>9

\* A list written out holds its entries.
LEMMA ShortLists ==
    /\ \A a : IsList(<<a>>) /\ Lists(<<a>>, a)
    /\ \A a, b : IsList(<<a, b>>) /\ \A x \in {a, b} : Lists(<<a, b>>, x)
    /\ \A a, b, c, d :
          IsList(<<a, b, c, d>>) /\ \A x \in {a, b, c, d} : Lists(<<a, b, c, d>>, x)
    /\ \A a, b, c, d, e, f :
          /\ IsList(<<a, b, c, d, e, f>>)
          /\ \A x \in {a, b, c, d, e, f} : Lists(<<a, b, c, d, e, f>>, x)
<1>1. ASSUME NEW a PROVE IsList(<<a>>) /\ Lists(<<a>>, a)
  <2>1. <<a>> \in Seq({a}) /\ 1 \in DOMAIN <<a>> /\ <<a>>[1] = a
    OBVIOUS
  <2>. QED
    BY <2>1 DEF IsList, Lists
<1>2. ASSUME NEW a, NEW b PROVE IsList(<<a, b>>) /\ \A x \in {a, b} : Lists(<<a, b>>, x)
  <2>1. <<a, b>> \in Seq({a, b}) /\ {1, 2} \subseteq DOMAIN <<a, b>>
    OBVIOUS
  <2>2. <<a, b>>[1] = a /\ <<a, b>>[2] = b
    OBVIOUS
  <2>. QED
    BY <2>1, <2>2 DEF IsList, Lists
<1>3. ASSUME NEW a, NEW b, NEW c, NEW d
      PROVE  IsList(<<a, b, c, d>>) /\ \A x \in {a, b, c, d} : Lists(<<a, b, c, d>>, x)
  <2>. DEFINE list == <<a, b, c, d>>
  <2>1. list \in Seq({a, b, c, d}) /\ {1, 2, 3, 4} \subseteq DOMAIN list
    OBVIOUS
  <2>2. list[1] = a /\ list[2] = b /\ list[3] = c /\ list[4] = d
    OBVIOUS
  <2>. HIDE DEF list
  <2>3. IsList(list)
    BY <2>1 DEF IsList
  <2>4. Lists(list, a) /\ Lists(list, b) /\ Lists(list, c) /\ Lists(list, d)
    BY <2>1, <2>2 DEF Lists
  <2>5. \A x \in {a, b, c, d} : Lists(list, x)
    BY <2>4
  <2>. QED
    BY <2>3, <2>5 DEF list
<1>4. ASSUME NEW a, NEW b, NEW c, NEW d, NEW e, NEW f
      PROVE  /\ IsList(<<a, b, c, d, e, f>>)
             /\ \A x \in {a, b, c, d, e, f} : Lists(<<a, b, c, d, e, f>>, x)
  <2>. DEFINE list == <<a, b, c, d, e, f>>
  <2>1. list \in Seq({a, b, c, d, e, f}) /\ {1, 2, 3, 4, 5, 6} \subseteq DOMAIN list
    OBVIOUS
  <2>2. /\ list[1] = a /\ list[2] = b /\ list[3] = c
        /\ list[4] = d /\ list[5] = e /\ list[6] = f
    OBVIOUS
  <2>. HIDE DEF list
  <2>3. IsList(list)
    BY <2>1 DEF IsList
  <2>4. /\ Lists(list, a) /\ Lists(list, b) /\ Lists(list, c)
        /\ Lists(list, d) /\ Lists(list, e) /\ Lists(list, f)
    BY <2>1, <2>2 DEF Lists
  <2>5. \A x \in {a, b, c, d, e, f} : Lists(list, x)
    BY <2>4
  <2>. QED
    BY <2>3, <2>5 DEF list
<1>. QED
  BY <1>1, <1>2, <1>3, <1>4

\* The addresses both instructions name: the accounts the program changes with
\* the right to, those it only reads.
Needed(accounts, v) ==
    LET paying == IF v.token_info[1].is_token_2022 THEN "vault_22" ELSE "vault"
    IN  /\ \A slot \in {"offer", "pair", "token_in", "token_out", paying} :
              Lists(accounts, Writable(KeyOf(slot)))
        /\ \A slot \in {"state", "redemption", "excluded"} :
              Lists(accounts, Readonly(KeyOf(slot)))
        /\ Lists(accounts, Readonly(v.state.main_offer))

\* What the lists begin with.
LEMMA SharedNamed ==
    /\ IsList(SharedPdas)
    /\ Lists(SharedPdas, Writable(KeyOf("offer")))
    /\ Lists(SharedPdas, Writable(KeyOf("pair")))
    /\ Lists(SharedPdas, Readonly(KeyOf("state")))
    /\ Lists(SharedPdas, Readonly(KeyOf("redemption")))
<1>1. /\ KeyOf("offer") = OfferPda
      /\ KeyOf("pair") = PairPda
      /\ KeyOf("state") = StatePda
      /\ KeyOf("redemption") = Pda("redemption_offer", RedemptionSeeds)
  BY DEF KeyOf, RedemptionSeeds
<1>. QED
  BY <1>1, ShortLists, Zenon DEF SharedPdas

\* What the lists end with.
LEMMA AccrualNamed ==
    ASSUME NEW v, NEW user
    PROVE  /\ IsList(Accrual(v, user))
           /\ Lists(Accrual(v, user), Readonly(KeyOf("excluded")))
           /\ Lists(Accrual(v, user), Readonly(v.state.main_offer))
<1>. DEFINE onyc == Token(v, 2)
            head == <<Writable(Pda("buffer_state", <<>>)),
                      Writable(Ata(Pda("reserve_vault_authority", <<>>), onyc)),
                      Writable(Ata(ConfigurableVault("management_fee"), onyc)),
                      Writable(Ata(ConfigurableVault("performance_fee"), onyc)),
                      Writable(Pda("market_stats", <<>>)), Readonly(ExcludedPda)>>
            last == <<Readonly(v.state.main_offer)>>
            one == head \o Sysvar
            two == one \o <<User(user)>>
            three == two \o Programs
<1>1. Accrual(v, user) = three \o last
  BY DEF Accrual
<1>2. IsList(head) /\ Lists(head, Readonly(ExcludedPda))
  BY ShortLists, Zenon
<1>3. IsList(last) /\ Lists(last, Readonly(v.state.main_offer))
  BY ShortLists, Zenon
<1>4. IsList(Sysvar) /\ IsList(<<User(user)>>) /\ IsList(Programs)
  BY ShortLists, Zenon DEF Sysvar, Programs
<1>. HIDE DEF head, last
<1>5. IsList(one) /\ Lists(one, Readonly(ExcludedPda))
  BY <1>2, <1>4, ListsJoined
<1>. HIDE DEF one
<1>6. IsList(two) /\ Lists(two, Readonly(ExcludedPda))
  BY <1>4, <1>5, ListsJoined
<1>. HIDE DEF two
<1>7. IsList(three) /\ Lists(three, Readonly(ExcludedPda))
  BY <1>4, <1>6, ListsJoined
<1>. HIDE DEF three
<1>8. KeyOf("excluded") = ExcludedPda
  BY DEF KeyOf
<1>. QED
  BY <1>1, <1>3, <1>7, <1>8, ListsJoined

\* What stands in the middle of both.
LEMMA PartsNamed ==
    ASSUME NEW in, NEW out
    PROVE  /\ \A owner : /\ IsList(Accounts(owner, in, out))
                         /\ Lists(Accounts(owner, in, out), Writable(Ata(owner, out)))
           /\ IsList(Mints(in, out))
           /\ Lists(Mints(in, out), Writable(in.mint))
           /\ Lists(Mints(in, out), Writable(out.mint))
           /\ \A feeVault : IsList(Collected(feeVault, in))
<1>1. \A owner : /\ IsList(Accounts(owner, in, out))
                 /\ Lists(Accounts(owner, in, out), Writable(Ata(owner, out)))
  BY ShortLists, Zenon DEF Accounts
<1>2. /\ IsList(Mints(in, out))
      /\ Lists(Mints(in, out), Writable(in.mint))
      /\ Lists(Mints(in, out), Writable(out.mint))
  BY ShortLists, Zenon DEF Mints
<1>3. \A vault, token : IsList(WithAccount(vault, token))
  BY ShortLists, Zenon DEF WithAccount
<1>4. \A feeVault : IsList(Collected(feeVault, in))
  BY <1>3, ListsJoined DEF Collected
<1>. QED
  BY <1>1, <1>2, <1>4

\* The vault that pays is the one of the redemption authority under the token
\* program of the asset.
LEMMA PayingKey ==
    ASSUME NEW v
    PROVE  /\ KeyOf(IF v.token_info[1].is_token_2022 THEN "vault_22" ELSE "vault")
                = Ata(RedemptionVaultAuthority, Token(v, 1))
           /\ KeyOf("token_in") = Token(v, 1).mint
           /\ KeyOf("token_out") = Token(v, 2).mint
BY DEF KeyOf, Ata, Token, TokenProgram

\* A buy is given the vault its asset goes to and everything it is priced from.
LEMMA BuyNames ==
    ASSUME NEW v, NEW user
    PROVE  Needed(BuyAccounts(v, Token(v, 1), Token(v, 2), user), v)
<1>. DEFINE in == Token(v, 1)
            out == Token(v, 2)
            vault == Writable(Ata(RedemptionVaultAuthority, in))
            one == SharedPdas \o Accounts(OfferVaultAuthority, in, out)
            two == one \o <<vault>>
            three == two \o Mints(in, out)
            four == three \o Accounts(Wallet(user), in, out)
            five == four \o Collected("prop_amm_buy_fee", in)
            six == five \o <<Readonly(PermissionlessAuthority)>>
            seven == six \o Accounts(PermissionlessAuthority, in, out)
            eight == seven \o <<Readonly(MintAuthority)>>
            pdas == {Writable(KeyOf("offer")), Writable(KeyOf("pair")),
                     Readonly(KeyOf("state")), Readonly(KeyOf("redemption"))}
            middle == pdas \union {vault, Writable(in.mint), Writable(out.mint)}
<1>1. BuyAccounts(v, in, out, user) = eight \o Accrual(v, user)
  BY DEF BuyAccounts
<1>2. /\ \A owner : IsList(Accounts(owner, in, out))
      /\ IsList(Mints(in, out))
      /\ Lists(Mints(in, out), Writable(in.mint))
      /\ Lists(Mints(in, out), Writable(out.mint))
      /\ IsList(Collected("prop_amm_buy_fee", in))
  BY PartsNamed
<1>3. \A meta : IsList(<<meta>>) /\ Lists(<<meta>>, meta)
  BY ShortLists
<1>. HIDE DEF in, out, vault
<1>4. IsList(one) /\ \A meta \in pdas : Lists(one, meta)
  BY <1>2, ListsJoined, SharedNamed
<1>. HIDE DEF one
<1>5. IsList(two) /\ \A meta \in pdas \union {vault} : Lists(two, meta)
  BY <1>3, <1>4, ListsJoined
<1>. HIDE DEF two
<1>6. IsList(three) /\ \A meta \in middle : Lists(three, meta)
  BY <1>2, <1>5, ListsJoined
<1>. HIDE DEF three, pdas, middle
<1>7. IsList(four) /\ \A meta \in middle : Lists(four, meta)
  BY <1>2, <1>6, ListsJoined
<1>. HIDE DEF four
<1>8. IsList(five) /\ \A meta \in middle : Lists(five, meta)
  BY <1>2, <1>7, ListsJoined
<1>. HIDE DEF five
<1>9. IsList(six) /\ \A meta \in middle : Lists(six, meta)
  BY <1>3, <1>8, ListsJoined
<1>. HIDE DEF six
<1>10. IsList(seven) /\ \A meta \in middle : Lists(seven, meta)
  BY <1>2, <1>9, ListsJoined
<1>. HIDE DEF seven
<1>11. IsList(eight) /\ \A meta \in middle : Lists(eight, meta)
  BY <1>3, <1>10, ListsJoined
<1>. HIDE DEF eight
<1>12. /\ \A meta \in middle : Lists(eight \o Accrual(v, user), meta)
       /\ Lists(eight \o Accrual(v, user), Readonly(KeyOf("excluded")))
       /\ Lists(eight \o Accrual(v, user), Readonly(v.state.main_offer))
  BY <1>11, AccrualNamed, ListsJoined
<1>. QED
  BY <1>1, <1>12, PayingKey DEF Needed, middle, pdas, vault, in, out

\* A sell is given the vault that pays it and everything it is priced from.
LEMMA SellNames ==
    ASSUME NEW v, NEW user
    PROVE  Needed(SellAccounts(v, Token(v, 2), Token(v, 1), user), v)
<1>. DEFINE in == Token(v, 2)
            out == Token(v, 1)
            vault == Writable(Ata(RedemptionVaultAuthority, out))
            reserve == <<Readonly(Ata(OfferVaultAuthority, Token(v, 2)))>>
            one == SharedPdas \o Accounts(RedemptionVaultAuthority, in, out)
            two == one \o Mints(in, out)
            three == two \o Accounts(Wallet(user), in, out)
            four == three \o Collected("prop_amm_sell_fee", in)
            five == four \o <<Readonly(MintAuthority)>>
            six == five \o Accrual(v, user)
            pdas == {Writable(KeyOf("offer")), Writable(KeyOf("pair")),
                     Readonly(KeyOf("state")), Readonly(KeyOf("redemption"))}
            middle == pdas \union {vault, Writable(in.mint), Writable(out.mint)}
            late == {Readonly(KeyOf("excluded")), Readonly(v.state.main_offer)}
<1>1. SellAccounts(v, in, out, user) = six \o reserve
  BY DEF SellAccounts
<1>2. /\ \A owner : /\ IsList(Accounts(owner, in, out))
                    /\ Lists(Accounts(owner, in, out), Writable(Ata(owner, out)))
      /\ IsList(Mints(in, out))
      /\ Lists(Mints(in, out), Writable(in.mint))
      /\ Lists(Mints(in, out), Writable(out.mint))
      /\ IsList(Collected("prop_amm_sell_fee", in))
  BY PartsNamed
<1>3. IsList(<<Readonly(MintAuthority)>>) /\ IsList(reserve)
  BY ShortLists, Zenon
<1>. HIDE DEF in, out, reserve
<1>4. IsList(one) /\ \A meta \in pdas \union {vault} : Lists(one, meta)
  BY <1>2, ListsJoined, SharedNamed
<1>. HIDE DEF one, vault
<1>5. IsList(two) /\ \A meta \in middle : Lists(two, meta)
  BY <1>2, <1>4, ListsJoined
<1>. HIDE DEF two, pdas, middle
<1>6. IsList(three) /\ \A meta \in middle : Lists(three, meta)
  BY <1>2, <1>5, ListsJoined
<1>. HIDE DEF three
<1>7. IsList(four) /\ \A meta \in middle : Lists(four, meta)
  BY <1>2, <1>6, ListsJoined
<1>. HIDE DEF four
<1>8. IsList(five) /\ \A meta \in middle : Lists(five, meta)
  BY <1>3, <1>7, ListsJoined
<1>. HIDE DEF five
<1>9. IsList(six) /\ \A meta \in middle \union late : Lists(six, meta)
  BY <1>8, AccrualNamed, ListsJoined
<1>. HIDE DEF six
<1>10. \A meta \in middle \union late : Lists(six \o reserve, meta)
  BY <1>3, <1>9, ListsJoined
<1>. QED
  BY <1>1, <1>10, PayingKey DEF Needed, middle, pdas, late, vault, in, out

\* Whatever the venue holds: the instruction it builds is for the amount of the
\* request, has no minimum, and names what it is priced from and what it changes.
LEMMA BuiltNames ==
    ASSUME NEW v, NEW request, NEW user, GenerateSwapInstructionV2(v, request, user).ok
    PROVE  LET built == GenerateSwapInstructionV2(v, request, user).val
           IN  /\ built.amount = request.amount
               /\ built.minimum_out = 0
               /\ IsBuy(request) => built.discriminator = "open_swap_buy"
               /\ IsSell(request) => built.discriminator = "open_swap_sell"
               /\ Needed(built.accounts, v)
<1>. DEFINE built == GenerateSwapInstructionV2(v, request, user)
            buy == BuyAccounts(v, Token(v, 1), Token(v, 2), user)
            sell == SellAccounts(v, Token(v, 2), Token(v, 1), user)
<1>1. \A e : ~Err(e).ok
  BY DEF Err
<1>2. Needed(buy, v) /\ Needed(sell, v)
  BY BuyNames, SellNames
<1>. HIDE DEF buy, sell
<1>3. \/ /\ IsBuy(request)
         /\ built = Instruction("open_swap_buy", request.amount, 0, buy)
      \/ /\ ~IsBuy(request)
         /\ built = Instruction("open_swap_sell", request.amount, 0, sell)
  BY <1>1, Zenon DEF GenerateSwapInstructionV2, buy, sell
<1>. HIDE DEF built
<1>4. \/ /\ IsBuy(request)
         /\ built.val = [discriminator |-> "open_swap_buy", amount |-> request.amount,
                         minimum_out |-> 0, accounts |-> buy]
      \/ /\ ~IsBuy(request)
         /\ built.val = [discriminator |-> "open_swap_sell", amount |-> request.amount,
                         minimum_out |-> 0, accounts |-> sell]
  BY <1>3 DEF Instruction, Ok
<1>. QED
  BY <1>2, <1>4, OneWay DEF built
=============================================================================
