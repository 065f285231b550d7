---------------------------- MODULE MCOnreVenue ----------------------------
(***************************************************************************)
(* A venue of an offer under either token program; a few contents for      *)
(* every account.                                                          *)
(***************************************************************************)
EXTENDS OnreVenue, MCAccounts

MCContents ==
    [offer |-> {Offer(Vectors, FALSE, TRUE), Offer(Vectors, TRUE, TRUE),
                Offer(Vectors, FALSE, FALSE)},
     state |-> {State(FALSE, 0), State(TRUE, 0), State(FALSE, 70)},
     token_in |-> {},
     token_out |-> {Mint(1, FALSE, 50)},
     pair |-> {Pair(TRUE, 0), Pair(FALSE, 0), Pair(TRUE, 9)},
     redemption |-> {Redemption(5, 0, FALSE), Redemption(5, 20, FALSE),
                     Redemption(5, 0, TRUE)},
     vault |-> {0, 30},
     vault_22 |-> {2},
     excluded |-> {0, 10}]

MCChains == {Chain(FALSE), Chain(TRUE)}

\* For liveness: the contents that open and stop the venue, nothing else.
MCFewContents ==
    [MCContents EXCEPT
        !.offer = {Offer(Vectors, FALSE, TRUE), Offer(Vectors, FALSE, FALSE)},
        !.state = {State(FALSE, 0), State(TRUE, 0)},
        !.token_out = {Mint(1, FALSE, 60)},
        !.pair = {Pair(TRUE, 0)},
        !.redemption = {Redemption(5, 0, FALSE)},
        !.vault = {200}, !.vault_22 = {}, !.excluded = {0}]
MCFewChains == {Chain(FALSE)}
=============================================================================
