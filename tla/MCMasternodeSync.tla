-------------------------- MODULE MCMasternodeSync --------------------------
(* Two sporks messages with the same number, one peer with a recent version. *)
EXTENDS MasternodeSync
CONSTANTS h, p1, p2, s8

TwoSporks == {[nSporkID |-> s8, nValue |-> "off", nTimeSigned |-> 1],
              [nSporkID |-> s8, nValue |-> "on", nTimeSigned |-> 2]}
=============================================================================
