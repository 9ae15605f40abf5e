------------------------------- MODULE Listing -------------------------------
(***************************************************************************)
(* What a native lister promises runJob: everything the account holds of a *)
(* type in a region and no error, or any part of it with an error.  Never  *)
(* a part without an error, and never anything that is not there.          *)
(***************************************************************************)
CONSTANT Things

VARIABLES held, returned, err, over

vars == <<held, returned, err, over>>

Init ==
    /\ held \in SUBSET Things
    /\ returned = {} /\ err = FALSE /\ over = FALSE

Return ==
    /\ ~over /\ over' = TRUE
    /\ returned' \in SUBSET held /\ err' \in BOOLEAN
    /\ err' \/ returned' = held
    /\ UNCHANGED held

Spec == Init /\ [][Return]_vars
=============================================================================
