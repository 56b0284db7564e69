---------------------------- MODULE LayeredCoins ----------------------------
(***************************************************************************)
(* What the stack of coin views promises (coins.h): the database, the      *)
(* node's view pcoinsTip above it and a short-lived view above that are    *)
(* three plain maps from transaction to unspent outputs, each with the     *)
(* block it represents.  Nothing is said about caches and flags.           *)
(***************************************************************************)
CONSTANTS Txids, Values, Pruned, BlockHashes, Genesis,
          MayLose           \* may a write to disk fail?

VARIABLES db, dbBest,       \* what is on disk
          tip, tipBest,     \* what pcoinsTip answers
          view,             \* what the view on top of it answers
          open              \* is there such a view?

vars == <<db, dbBest, tip, tipBest, view, open>>

Contents == [Txids -> Values \cup {Pruned}]

Init == /\ db = [t \in Txids |-> Pruned] /\ dbBest = Genesis
        /\ tip = db /\ tipBest = Genesis
        /\ view = db /\ open = FALSE

OpenView == ~open /\ open' = TRUE /\ view' = tip /\ UNCHANGED <<db, dbBest, tip, tipBest>>

Modify == /\ open
          /\ \E t \in Txids, v \in Values \cup {Pruned} : view' = [view EXCEPT ![t] = v]
          /\ UNCHANGED <<db, dbBest, tip, tipBest, open>>

\* A block has been connected or disconnected.
Commit == /\ open /\ open' = FALSE
          /\ tip' = view
          /\ \E b \in BlockHashes : tipBest' = b
          /\ UNCHANGED <<db, dbBest, view>>

Discard == open /\ open' = FALSE /\ view' = tip /\ UNCHANGED <<db, dbBest, tip, tipBest>>

Persist == ~open /\ db' = tip /\ dbBest' = tipBest /\ UNCHANGED <<tip, tipBest, view, open>>

Crash == /\ tip' = db /\ tipBest' = dbBest /\ view' = db /\ open' = FALSE
         /\ UNCHANGED <<db, dbBest>>

\* A failed write loses what was not on disk, but not the name of the block:
\* "the state of this cache (and its backing view) will be undefined".
Lose == /\ MayLose /\ ~open
        /\ tip' = db
        /\ UNCHANGED <<db, dbBest, tipBest, view, open>>

Next == OpenView \/ Modify \/ Commit \/ Discard \/ Persist \/ Crash \/ Lose

Spec == Init /\ [][Next]_vars
=============================================================================
