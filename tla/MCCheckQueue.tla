---------------------------- MODULE MCCheckQueue ----------------------------
(* A script-check thread and the checks of a block as model values. *)
EXTENDS CheckQueue
CONSTANTS w1, c1, c2, c3, c4
=============================================================================
