----------------------------- MODULE ErrorCodes -----------------------------
(***************************************************************************)
(* The custom errors of the program and what classify_program_error makes  *)
(* of them (errors.rs).                                                    *)
(***************************************************************************)
EXTENDS Naturals

\* Errors without a class; the program has many, and one stands for all.
Unclassified == 1

\* Mutant: the codes of the two disabled offers swapped.
Classify_Swapped(code) ==
    CASE code = 6024 -> "KillSwitchActivated"
      [] code = 6025 -> "PermissionlessNotAllowed"
      [] code = 6113 -> "OfferDisabled"
      [] code = 6112 -> "RedemptionOfferDisabled"
      [] OTHER -> "None"

Classify(code) ==
    CASE code = 6024 -> "KillSwitchActivated"
      [] code = 6025 -> "PermissionlessNotAllowed"
      [] code = 6112 -> "OfferDisabled"
      [] code = 6113 -> "RedemptionOfferDisabled"
      [] OTHER -> "None"
=============================================================================
