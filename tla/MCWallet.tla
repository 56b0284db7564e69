------------------------------ MODULE MCWallet ------------------------------
(* Two branches above the blocks in which the first coins become mature.    *)
(* Branch a has a coinstake, a chain of two transactions and, as soon as it  *)
(* is mature, a spend of its reward; branch b has a double spend of one of   *)
(* them.  The wallet owns two outputs of the first transaction, one of t1,   *)
(* the coinbase of a1 and the reward of the coinstake.                       *)
(*                                                                           *)
(* The first output of the coinstake is the empty marker of IsCoinStake.     *)
(* Its script and its value are empty, so anyone may spend it: in the        *)
(* instance of MCUndoCoinstake.cfg the last block of branch a does, with z.  *)
EXTENDS Wallet, TLC
CONSTANTS fd, cA, cB, cC, cD, cE, cF, s, t1, t2, t3, t4, t5, x, z,
          g, d, e, a1, a2, a3, b1, p1, p2

Transactions == {fd, cA, cB, cC, cD, cE, cF, s, t1, t2, t3, t4, t5, x}
Inputs == fd :> <<>> @@ cA :> <<>> @@ cB :> <<>> @@ cC :> <<>> @@ cD :> <<>> @@ cE :> <<>> @@ cF :> <<>>
          @@ s :> <<<<fd, 0>>>>               \* coinstake
          @@ t1 :> <<<<fd, 1>>, <<fd, 2>>>>
          @@ t2 :> <<<<t1, 0>>, <<t1, 1>>>>  \* both outputs of t1
          @@ t3 :> <<<<cA, 0>>, <<t1, 0>>>>  \* spends a coinbase, conflicts with t2
          @@ t4 :> <<<<s, 1>>>>              \* spends the reward of the coinstake
          @@ z :> <<<<s, 0>>>>               \* spends its empty marker
          @@ t5 :> <<<<t2, 0>>>>
          @@ x :> <<<<fd, 1>>>>               \* conflicts with t1
Outputs == [t \in Transactions \cup {z} |-> CASE t = fd -> 3 [] t \in {s, t1} -> 2 [] OTHER -> 1]
Tree == {g, d, e, a1, a2, a3, b1}
TreeParent == d :> g @@ e :> d @@ a1 :> e @@ a2 :> a1 @@ a3 :> a2 @@ b1 :> e
TreeHeight == g :> 1 @@ d :> 2 @@ e :> 3 @@ a1 :> 4 @@ a2 :> 5 @@ a3 :> 6 @@ b1 :> 4
TreeVtx == g :> <<fd>> @@ d :> <<cF>> @@ e :> <<cE>> @@ a1 :> <<cA, s, t1>> @@ a2 :> <<cB, t2>>
           @@ a3 :> <<cD, t4>> @@ b1 :> <<cC, x>>
Owned == {<<fd, 1>>, <<fd, 2>>, <<t1, 0>>, <<cA, 0>>, <<s, 1>>}
ByHash == {<<s, t1, t2, t3, t4, t5, x>>, <<x, t5, t4, t3, t2, t1, s>>}

MarkerTransactions == Transactions \cup {z}
MarkerVtx == [TreeVtx EXCEPT ![a3] = <<cD, t4, z>>]
MarkerByHash == {<<s, t1, t2, t3, t4, t5, x, z>>}

Symmetry == Permutations({p1, p2})
=============================================================================
