----------------------------- MODULE CoinsCache -----------------------------
(***************************************************************************)
(* The coin views of coins.cpp and txdb.cpp: CCoinsViewDB, pcoinsTip (a    *)
(* CCoinsViewCache on the database) and the CCoinsViewCache on pcoinsTip   *)
(* that ConnectTip, DisconnectTip, the mempool and the miner make for the  *)
(* time of one critical section of cs_main.                                *)
(*                                                                         *)
(* A CCoins is a value or Pruned (no output left); no entry in the         *)
(* database is Pruned too.  What a transaction's outputs are is left open. *)
(***************************************************************************)
EXTENDS Integers, FiniteSets

CONSTANTS
    Txids,
    Values,        \* the CCoins that are not pruned
    Pruned,
    BlockHashes, Genesis,
    Null,          \* uint256(0): the best block has not been asked for yet
    None,          \* no entry in cacheCoins
    DiskMayFail,   \* may the write of the batch fail?
    MaxCommits     \* bound: how many blocks are connected or disconnected

ASSUME CoinsAssumption ==
    /\ Pruned \notin Values
    /\ Genesis \in BlockHashes /\ Null \notin BlockHashes
    /\ None \notin [coins : Values \cup {Pruned}, dirty : BOOLEAN, fresh : BOOLEAN]
    /\ DiskMayFail \in BOOLEAN /\ MaxCommits \in Nat

VARIABLES
    db,            \* CCoinsViewDB: the coins
    dbBest,        \* and DB_BEST_BLOCK
    cacheTip,      \* pcoinsTip->cacheCoins
    hashTip,       \* pcoinsTip->hashBlock
    cacheView,     \* cacheCoins of the view on pcoinsTip
    hashView,
    open,          \* there is such a view
    commits,
    wrote,         \* history: the view's coins as its user has written them
    committed      \* history: every block the node was at, with its coins

history == <<wrote, committed>>
vars == <<db, dbBest, cacheTip, hashTip, cacheView, hashView, open, commits, history>>

Coins == Values \cup {Pruned}
Entry == [coins : Coins, dirty : BOOLEAN, fresh : BOOLEAN]
Empty == [t \in Txids |-> None]

-----------------------------------------------------------------------------
(* What a view answers *)

\* GetCoins of pcoinsTip and of the view.
TipCoins(t) == IF cacheTip[t] = None THEN db[t] ELSE cacheTip[t].coins
ViewCoins(t) == IF cacheView[t] = None THEN TipCoins(t) ELSE cacheView[t].coins
TipContent == [t \in Txids |-> TipCoins(t)]
ViewContent == [t \in Txids |-> ViewCoins(t)]

TipBest == IF hashTip = Null THEN dbBest ELSE hashTip

-----------------------------------------------------------------------------
(* Reading fills the caches: FetchCoins. *)

\* cacheTip after pcoinsTip looked t up; the database has no pruned entries.
TipFetched(t) ==
    IF cacheTip[t] # None \/ db[t] = Pruned THEN cacheTip
    ELSE [cacheTip EXCEPT ![t] = [coins |-> db[t], dirty |-> FALSE, fresh |-> FALSE]]

\* Mutant: everything that is read counts as fresh.
FetchedEntry_AlwaysFresh(parent) ==
    [coins |-> parent.coins, dirty |-> FALSE, fresh |-> TRUE]

\* What a view puts into its cache for an entry of its parent.
FetchedEntry(parent) ==
    [coins |-> parent.coins, dirty |-> FALSE, fresh |-> parent.coins = Pruned]

AccessTip(t) ==
    /\ cacheTip' = TipFetched(t)
    /\ UNCHANGED <<db, dbBest, hashTip, cacheView, hashView, open, commits, history>>

AccessCoins(t) ==
    /\ open /\ cacheView[t] = None
    /\ cacheTip' = TipFetched(t)
    /\ cacheView' = IF cacheTip'[t] = None THEN cacheView
                    ELSE [cacheView EXCEPT ![t] = FetchedEntry(cacheTip'[t])]
    /\ UNCHANGED <<db, dbBest, hashTip, hashView, open, commits, history>>

GetBestBlock ==
    /\ open
    /\ hashTip' = TipBest
    /\ hashView' = IF hashView = Null THEN TipBest ELSE hashView
    /\ UNCHANGED <<db, dbBest, cacheTip, cacheView, open, commits, history>>

-----------------------------------------------------------------------------
(* Changing the view *)

OpenView ==
    /\ ~open /\ open' = TRUE
    /\ cacheView' = Empty /\ hashView' = Null
    /\ wrote' = TipContent
    /\ UNCHANGED <<db, dbBest, cacheTip, hashTip, commits, committed>>

\* The entry ModifyCoins starts from when t is not cached yet.
InsertedEntry(parent) ==
    IF parent = None THEN [coins |-> Pruned, dirty |-> FALSE, fresh |-> TRUE]
    ELSE FetchedEntry(parent)

\* ~CCoinsModifier: an entry that is fresh and pruned is forgotten.
Released(e) == IF e.fresh /\ e.coins = Pruned THEN None ELSE e

\* ModifyCoins, the assignment of v by its caller and ~CCoinsModifier.
ModifyCoins(t, v) ==
    /\ open
    /\ cacheTip' = IF cacheView[t] = None THEN TipFetched(t) ELSE cacheTip
    /\ LET e == IF cacheView[t] = None THEN InsertedEntry(cacheTip'[t]) ELSE cacheView[t]
       IN  cacheView' = [cacheView EXCEPT
                           ![t] = Released([e EXCEPT !.coins = v, !.dirty = TRUE])]
    /\ wrote' = [wrote EXCEPT ![t] = v]
    /\ UNCHANGED <<db, dbBest, hashTip, hashView, open, commits, committed>>

\* Mutant: an entry of the parent that is not fresh is erased as well.
Merge_Erases(child, parent) ==
    IF child = None \/ ~child.dirty THEN parent
    ELSE IF child.coins = Pruned THEN None
    ELSE [coins |-> child.coins, dirty |-> TRUE, fresh |-> parent = None \/ parent.fresh]

\* BatchWrite of pcoinsTip, for one transaction.
Merge(child, parent) ==
    IF child = None \/ ~child.dirty THEN parent
    ELSE IF parent = None
    THEN IF child.coins = Pruned THEN None
         ELSE [coins |-> child.coins, dirty |-> TRUE, fresh |-> TRUE]
    ELSE IF parent.fresh /\ child.coins = Pruned THEN None
    ELSE [parent EXCEPT !.coins = child.coins, !.dirty = TRUE]

\* ConnectBlock or DisconnectBlock ends with SetBestBlock(b); Flush follows.
Commit(b) ==
    /\ open /\ commits < MaxCommits
    /\ cacheTip' = [t \in Txids |-> Merge(cacheView[t], cacheTip[t])]
    /\ hashTip' = b
    /\ cacheView' = Empty /\ hashView' = Null
    /\ open' = FALSE
    /\ commits' = commits + 1
    /\ committed' = committed \cup {<<b, wrote>>}
    /\ UNCHANGED <<db, dbBest, wrote>>

\* The view goes out of scope: the block was invalid, or the view was made
\* for the mempool, the miner or an RPC.
Discard ==
    /\ open /\ open' = FALSE
    /\ cacheView' = Empty /\ hashView' = Null
    /\ wrote' = TipContent
    /\ UNCHANGED <<db, dbBest, cacheTip, hashTip, commits, committed>>

-----------------------------------------------------------------------------
(* pcoinsTip->Flush(), under cs_main, so not while a view is in use *)

\* Mutant: the flush does not wait until the view is gone.
NoViewInUse_Never == TRUE

NoViewInUse == ~open

\* CCoinsViewDB::BatchWrite writes one batch.
Flush ==
    /\ NoViewInUse
    /\ db' = [t \in Txids |-> IF cacheTip[t] # None /\ cacheTip[t].dirty
                              THEN cacheTip[t].coins ELSE db[t]]
    /\ dbBest' = TipBest
    /\ cacheTip' = Empty
    /\ UNCHANGED <<hashTip, cacheView, hashView, open, commits, history>>

\* BatchWrite has moved the entries into the batch when the write fails.
FlushFails ==
    /\ DiskMayFail
    /\ NoViewInUse
    /\ cacheTip' = Empty
    /\ UNCHANGED <<db, dbBest, hashTip, cacheView, hashView, open, commits, history>>

Crash ==
    /\ cacheTip' = Empty /\ hashTip' = Null
    /\ cacheView' = Empty /\ hashView' = Null
    /\ open' = FALSE
    /\ wrote' = db
    /\ UNCHANGED <<db, dbBest, commits, committed>>

-----------------------------------------------------------------------------
Init ==
    /\ db = [t \in Txids |-> Pruned] /\ dbBest = Genesis
    /\ cacheTip = Empty /\ hashTip = Null
    /\ cacheView = Empty /\ hashView = Null
    /\ open = FALSE
    /\ commits = 0
    /\ wrote = db
    /\ committed = {<<Genesis, db>>}

Next ==
    \/ \E t \in Txids : AccessTip(t) \/ AccessCoins(t) \/ \E v \in Coins : ModifyCoins(t, v)
    \/ \E b \in BlockHashes : Commit(b)
    \/ OpenView \/ GetBestBlock \/ Discard
    \/ Flush \/ FlushFails \/ Crash

Spec == Init /\ [][Next]_vars

-----------------------------------------------------------------------------
(* Properties *)

\* Type invariant: the coins, entries, flags and hashes the views keep.
TypeOK ==
    /\ db \in [Txids -> Coins] /\ dbBest \in BlockHashes
    /\ cacheTip \in [Txids -> Entry \cup {None}] /\ hashTip \in BlockHashes \cup {Null}
    /\ cacheView \in [Txids -> Entry \cup {None}] /\ hashView \in BlockHashes \cup {Null}
    /\ open \in BOOLEAN /\ commits \in 0..MaxCommits
    /\ wrote \in [Txids -> Coins] /\ committed \subseteq BlockHashes \X [Txids -> Coins]

\* The assertion of BatchWrite (coins.cpp:178): a changed entry that
\* pcoinsTip does not have is fresh, "if the grandparent did have it, we
\* would have pulled it in at first GetCoins".
FlushAssertHolds ==
    \A t \in Txids :
       cacheView[t] # None /\ cacheTip[t] = None =>
          (cacheView[t].dirty /\ cacheView[t].coins # Pruned => cacheView[t].fresh)

\* GetBestBlock is the "block hash whose state this CCoinsView currently
\* represents" (coins.h:345): the database always holds the coins of a block
\* the node was at, all of them, and names that block.
DatabaseAtBlock == <<dbBest, db>> \in committed

\* A view answers what was written to it, whatever is cached where, and what
\* pcoinsTip answers otherwise.
ViewAnswers == open => ViewContent = wrote

\* The caches are invisible: the three views behave like three plain maps,
\* of which a failed flush loses what is not on disk yet.
Layers == INSTANCE LayeredCoins WITH
             tip <- TipContent, tipBest <- TipBest, view <- wrote, MayLose <- DiskMayFail
ImplementsLayers == Layers!Spec
=============================================================================
