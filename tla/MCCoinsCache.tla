---------------------------- MODULE MCCoinsCache ----------------------------
(* CoinsCache with model values for transactions, coins and blocks. *)
EXTENDS CoinsCache
=============================================================================
