-------------------------- MODULE MCAccountLayouts --------------------------
(***************************************************************************)
(* The lengths at which some account, or its discriminator, just fits or   *)
(* does not, and one beyond them all.                                      *)
(***************************************************************************)
EXTENDS AccountLayouts

MCLengths ==
    UNION {{n - 1, n, n + 1} :
        n \in {1, DiscriminatorLen} \union
              {DiscriminatorLen + Width(Fields(kind)) : kind \in Kinds} \union
              {Width(Fields(kind)) : kind \in Kinds}}
=============================================================================
