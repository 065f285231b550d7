----------------------------- MODULE PrefixCopy -----------------------------
(***************************************************************************)
(* What an update that may stop anywhere still promises: a copy of N       *)
(* places, read in order.  An update copies the first k places as they are *)
(* at that moment and leaves the rest; a copy is whole once an update has  *)
(* reached the last place.  A copy can be thrown away and begun anew from  *)
(* the first place.  Nothing is said of what the places hold or of why an  *)
(* update stops.                                                           *)
(***************************************************************************)
EXTENDS Naturals

CONSTANTS
    N,      \* the number of places
    None    \* nothing copied yet

VARIABLES
    source,     \* the places as they are
    copy,       \* the places as they were copied
    whole       \* whether every place has been copied

vars == <<source, copy, whole>>

Places == 1..N
Present == \A i \in Places : source[i] # None
Blank == [i \in Places |-> IF i = 1 THEN source[1] ELSE None]

Init ==
    /\ Present
    /\ copy = Blank
    /\ whole = FALSE

Change ==
    /\ Present'
    /\ UNCHANGED <<copy, whole>>

Begin ==
    /\ copy' = Blank
    /\ whole' = FALSE
    /\ UNCHANGED source

Update(k) ==
    /\ copy' = [i \in Places |-> IF i <= k THEN source[i] ELSE copy[i]]
    /\ whole' = (whole \/ k = N)
    /\ UNCHANGED source

Next == Change \/ Begin \/ \E k \in 0..N : Update(k)

Spec == Init /\ [][Next]_vars
-----------------------------------------------------------------------------
\* A place is copied only after every place before it, and a whole copy misses
\* none.
Gapless ==
    /\ \A i, j \in Places : i < j /\ copy[j] # None => copy[i] # None
    /\ whole => \A i \in Places : copy[i] # None
=============================================================================
