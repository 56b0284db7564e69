------------------------------ MODULE MCSwiftTx ------------------------------
(* Two transactions with one input in common.                                *)
EXTENDS SwiftTx, TLC
CONSTANTS t, u, i, j, m1, m2

Inputs == t :> <<i>> @@ u :> <<i, j>>
InputHeights == t :> 1 @@ u :> 1
Ranked == 0 :> {m1} @@ 1 :> {m1, m2}
=============================================================================
