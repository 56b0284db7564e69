--------------------------- MODULE ScriptVerifier ---------------------------
(***************************************************************************)
(* What ConnectBlock relies on when it hands script checks to a            *)
(* CCheckQueueControl: it opens a control, adds checks, and either asks    *)
(* for the conjunction of exactly the checks it added or abandons the      *)
(* block.  No thread, batch or lock is visible here.                       *)
(***************************************************************************)
CONSTANT Checks

VARIABLES open,     \* is a CCheckQueueControl alive?
          added,    \* checks added through it
          bad,      \* the checks of this block whose operator() is false
          verdict   \* of the last control: "ok", "failed", or "dropped" if never asked

vvars == <<open, added, bad, verdict>>

Init == /\ ~open
        /\ added = {}
        /\ bad = {}
        /\ verdict = "dropped"

Open == /\ ~open
        /\ open'
        /\ added' = {}
        /\ bad' \in SUBSET Checks
        /\ verdict' = "dropped"

Add == /\ open
       /\ \E s \in SUBSET (Checks \ added) : added' = added \cup s
       /\ UNCHANGED <<open, bad, verdict>>

Close == /\ open
         /\ ~open'
         /\ verdict' \in {"dropped",
                          IF added \cap bad = {} THEN "ok" ELSE "failed"}
         /\ UNCHANGED <<added, bad>>

Next == Open \/ Add \/ Close

Spec == Init /\ [][Next]_vvars
=============================================================================
