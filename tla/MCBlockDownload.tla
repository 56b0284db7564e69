--------------------------- MODULE MCBlockDownload ---------------------------
(* Two peers, a chain of two blocks and a rival of the first.               *)
EXTENDS BlockDownload, TLC
CONSTANTS g, a1, a2, b1, p1, p2

Ancestors == g :> {g} @@ a1 :> {g, a1} @@ a2 :> {g, a1, a2} @@ b1 :> {g, b1}
Heights == g :> 0 @@ a1 :> 1 @@ a2 :> 2 @@ b1 :> 1
Inventory == p1 :> {a2} @@ p2 :> {b1, a2}
=============================================================================
