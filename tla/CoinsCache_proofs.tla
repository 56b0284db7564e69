-------------------------- MODULE CoinsCache_proofs --------------------------
(***************************************************************************)
(* Proofs about CoinsCache, for any transactions, coins and blocks.        *)
(*                                                                         *)
(* The argument is what the flags of a cache entry mean: one that is not   *)
(* dirty repeats what the layer below answers, and one that is fresh hides *)
(* nothing, the layer below has no such coins.  With that, dropping a      *)
(* fresh and pruned entry changes no answer, and merging a view into       *)
(* pcoinsTip makes pcoinsTip answer what the view answered.                *)
(***************************************************************************)
EXTENDS CoinsCache, TLAPS

\* What the flags of an entry of pcoinsTip say about the database.
TipFlags ==
    \A t \in Txids : cacheTip[t] # None =>
       /\ ~cacheTip[t].dirty => cacheTip[t].coins = db[t]
       /\ cacheTip[t].fresh => db[t] = Pruned

\* What the flags of an entry of the view say about pcoinsTip.
ViewFlags ==
    \A t \in Txids : cacheView[t] # None =>
       /\ ~cacheView[t].dirty => cacheView[t].coins = TipCoins(t)
       /\ cacheView[t].fresh => TipCoins(t) = Pruned
       /\ cacheTip[t] = None => cacheView[t].fresh

ClosedViewEmpty == ~open => cacheView = Empty

ViewWrote == open => \A t \in Txids : ViewCoins(t) = wrote[t]

IndInv == TypeOK /\ TipFlags /\ ViewFlags /\ ClosedViewEmpty /\ ViewWrote

USE CoinsAssumption DEF Coins, Entry, history

\* Looking coins up in pcoinsTip keeps every answer and every flag true.
LEMMA FetchTip ==
    ASSUME TypeOK, TipFlags, NEW t \in Txids, cacheTip' = TipFetched(t), db' = db
    PROVE  /\ cacheTip' \in [Txids -> Entry \cup {None}]
           /\ TipFlags'
           /\ \A s \in Txids : /\ TipCoins(s)' = TipCoins(s)
                               /\ cacheTip'[s] = None => cacheTip[s] = None
<1>1. \/ cacheTip' = cacheTip
      \/ /\ cacheTip[t] = None
         /\ cacheTip' = [cacheTip EXCEPT
                           ![t] = [coins |-> db[t], dirty |-> FALSE, fresh |-> FALSE]]
    BY DEF TipFetched
<1>2. CASE cacheTip' = cacheTip
    BY <1>2 DEF TypeOK, TipFlags, TipCoins
<1>3. CASE /\ cacheTip[t] = None
           /\ cacheTip' = [cacheTip EXCEPT
                             ![t] = [coins |-> db[t], dirty |-> FALSE, fresh |-> FALSE]]
    <2> DEFINE e == [coins |-> db[t], dirty |-> FALSE, fresh |-> FALSE]
    <2>1. e \in Entry
        BY DEF TypeOK
    <2>2. cacheTip' \in [Txids -> Entry \cup {None}]
        BY <1>3, <2>1 DEF TypeOK
    <2>3. /\ cacheTip'[t] = e /\ e # None
          /\ \A s \in Txids \ {t} : cacheTip'[s] = cacheTip[s]
        BY <1>3, <2>1 DEF TypeOK
    <2>4. TipFlags'
        BY <2>3 DEF TipFlags
    <2>5. ASSUME NEW s \in Txids
          PROVE  /\ TipCoins(s)' = TipCoins(s)
                 /\ cacheTip'[s] = None => cacheTip[s] = None
        BY <1>3, <2>3 DEF TipCoins
    <2> QED BY <2>2, <2>4, <2>5
<1> QED BY <1>1, <1>2, <1>3

\* Merging one entry of the view: pcoinsTip answers what the view answered,
\* and the flags of the merged entry are true.
LEMMA MergeEntry ==
    ASSUME TypeOK, TipFlags, ViewFlags, NEW t \in Txids
    PROVE  LET m == Merge(cacheView[t], cacheTip[t])
           IN  /\ m \in Entry \cup {None}
               /\ (IF m = None THEN db[t] ELSE m.coins) = ViewCoins(t)
               /\ m # None => /\ ~m.dirty => m.coins = db[t]
                              /\ m.fresh => db[t] = Pruned
<1> DEFINE c == cacheView[t]
           p == cacheTip[t]
           m == Merge(c, p)
           Good == /\ m \in Entry \cup {None}
                   /\ (IF m = None THEN db[t] ELSE m.coins) = ViewCoins(t)
                   /\ m # None => /\ ~m.dirty => m.coins = db[t]
                                  /\ m.fresh => db[t] = Pruned
<1>0. c \in Entry \cup {None} /\ p \in Entry \cup {None} /\ db[t] \in Coins
    BY DEF TypeOK
<1>1. CASE c = None \/ ~c.dirty
    <2>1. m = p
        BY <1>1 DEF Merge
    <2>2. ViewCoins(t) = TipCoins(t)
        BY <1>1 DEF ViewFlags, ViewCoins
    <2> QED BY <1>0, <2>1, <2>2 DEF TipFlags, TipCoins
<1>2. CASE c # None /\ c.dirty /\ p = None
    <2>1. c \in Entry /\ c.fresh /\ TipCoins(t) = Pruned /\ db[t] = Pruned
        BY <1>0, <1>2 DEF ViewFlags, TipCoins
    <2>2. CASE c.coins = Pruned
        BY <1>2, <2>1, <2>2 DEF Merge, ViewCoins
    <2>3. CASE c.coins # Pruned
        <3> DEFINE e == [coins |-> c.coins, dirty |-> TRUE, fresh |-> TRUE]
        <3>1. m = e
            BY <1>2, <2>3 DEF Merge
        <3>0. c.coins \in Coins
            BY <2>1
        <3>2. e \in Entry /\ e # None
            <4> HIDE DEF c
            <4>1. e \in Entry
                BY <3>0
            <4> QED BY <4>1
        <3>3. ViewCoins(t) = c.coins
            BY <1>2 DEF ViewCoins
        <3> QED BY <2>1, <3>1, <3>2, <3>3
    <2> QED BY <2>2, <2>3
<1>3. CASE c # None /\ c.dirty /\ p # None
    <2>1. c \in Entry /\ p \in Entry /\ ViewCoins(t) = c.coins
        BY <1>0, <1>3 DEF ViewCoins
    <2>2. CASE p.fresh /\ c.coins = Pruned
        <3>1. m = None
            BY <1>3, <2>2 DEF Merge
        <3> QED BY <1>3, <2>1, <2>2, <3>1 DEF TipFlags
    <2>3. CASE ~(p.fresh /\ c.coins = Pruned)
        <3> DEFINE e == [p EXCEPT !.coins = c.coins, !.dirty = TRUE]
        <3>1. m = e
            BY <1>3, <2>3 DEF Merge
        <3>2. e \in Entry /\ e.coins = c.coins /\ e.dirty /\ e.fresh = p.fresh
            BY <2>1
        <3>3. e # None
            BY <3>2
        <3> QED BY <1>3, <2>1, <3>1, <3>2, <3>3 DEF TipFlags
    <2> QED BY <2>2, <2>3
<1> QED BY <1>1, <1>2, <1>3

\* A view that is committed makes pcoinsTip answer what the view answered.
LEMMA CommitMerges ==
    ASSUME IndInv, NEW b \in BlockHashes, Commit(b)
    PROVE  /\ cacheTip' \in [Txids -> Entry \cup {None}]
           /\ TipFlags'
           /\ \A t \in Txids : TipCoins(t)' = wrote[t]
<1>1. ASSUME NEW t \in Txids
      PROVE  /\ cacheTip'[t] \in Entry \cup {None}
             /\ (IF cacheTip'[t] = None THEN db[t] ELSE cacheTip'[t].coins) = wrote[t]
             /\ cacheTip'[t] # None =>
                  /\ ~cacheTip'[t].dirty => cacheTip'[t].coins = db[t]
                  /\ cacheTip'[t].fresh => db[t] = Pruned
    <2>1. cacheTip'[t] = Merge(cacheView[t], cacheTip[t])
        BY DEF Commit
    <2>2. ViewCoins(t) = wrote[t]
        BY DEF IndInv, ViewWrote, Commit
    <2> QED BY <2>1, <2>2, MergeEntry DEF IndInv
<1>2. cacheTip' \in [Txids -> Entry \cup {None}]
    BY <1>1 DEF Commit
<1>3. db' = db
    BY DEF Commit
<1> QED BY <1>1, <1>2, <1>3 DEF TipFlags, TipCoins

\* ModifyCoins, from what the view caches or from what it fetches.
LEMMA ModifyPreserves ==
    ASSUME IndInv, NEW t \in Txids, NEW v \in Coins, ModifyCoins(t, v)
    PROVE  IndInv'
<1> USE DEF IndInv
<1> DEFINE e == IF cacheView[t] = None THEN InsertedEntry(cacheTip'[t]) ELSE cacheView[t]
           n == [e EXCEPT !.coins = v, !.dirty = TRUE]
<1>1. /\ cacheTip' \in [Txids -> Entry \cup {None}]
      /\ TipFlags'
      /\ \A s \in Txids : /\ TipCoins(s)' = TipCoins(s)
                          /\ cacheTip'[s] = None => cacheTip[s] = None
    <2>1. db' = db
        BY DEF ModifyCoins
    <2>2. CASE cacheView[t] = None
        BY <2>1, <2>2, FetchTip DEF ModifyCoins
    <2>3. CASE cacheView[t] # None
        <3>1. cacheTip' = cacheTip
            BY <2>3 DEF ModifyCoins
        <3> QED BY <2>1, <3>1 DEF TypeOK, TipFlags, TipCoins
    <2> QED BY <2>2, <2>3
<1>2. /\ e \in Entry
      /\ e.fresh => TipCoins(t)' = Pruned
      /\ cacheTip'[t] = None => e.fresh
    <2>1. CASE cacheView[t] = None /\ cacheTip'[t] = None
        <3>1. e = [coins |-> Pruned, dirty |-> FALSE, fresh |-> TRUE]
            BY <2>1 DEF InsertedEntry
        <3>2. cacheTip[t] = None /\ cacheTip' = TipFetched(t) /\ db' = db
            BY <2>1, <1>1 DEF ModifyCoins
        <3>3. db[t] = Pruned
            <4>1. SUFFICES ASSUME db[t] # Pruned PROVE FALSE
                OBVIOUS
            <4>2. cacheTip'[t] = [coins |-> db[t], dirty |-> FALSE, fresh |-> FALSE]
                BY <3>2, <4>1 DEF TipFetched, TypeOK
            <4>3. cacheTip'[t] \in Entry
                BY <4>2 DEF TypeOK
            <4> QED BY <4>3, <2>1
        <3>4. TipCoins(t)' = Pruned
            BY <3>2, <3>3, <2>1 DEF TipCoins
        <3>5. e.fresh /\ e \in Entry
            <4> HIDE DEF e
            <4> QED BY <3>1
        <3> QED BY <3>4, <3>5
    <2>2. CASE cacheView[t] = None /\ cacheTip'[t] # None
        <3>1. cacheTip'[t] \in Entry /\ TipCoins(t)' = cacheTip'[t].coins
            BY <1>1, <2>2 DEF TipCoins
        <3>2. e = [coins |-> cacheTip'[t].coins, dirty |-> FALSE,
                   fresh |-> cacheTip'[t].coins = Pruned]
            BY <2>2 DEF InsertedEntry, FetchedEntry
        <3>3. e \in Entry /\ (e.fresh => cacheTip'[t].coins = Pruned)
            <4> HIDE DEF e
            <4> QED BY <3>1, <3>2
        <3> QED BY <2>2, <3>1, <3>3
    <2>3. CASE cacheView[t] # None
        BY <2>3, <1>1 DEF TypeOK, ViewFlags
    <2> QED BY <2>1, <2>2, <2>3
<1>3. /\ n \in Entry /\ n.coins = v /\ n.dirty /\ n.fresh = e.fresh /\ n # None
    <2>1. n \in Entry /\ n.coins = v /\ n.dirty /\ n.fresh = e.fresh
        BY <1>2
    <2> QED BY <2>1
<1>4. /\ cacheView' = [cacheView EXCEPT ![t] = Released(n)]
      /\ Released(n) = IF n.fresh /\ v = Pruned THEN None ELSE n
    BY <1>3 DEF ModifyCoins, Released
<1>5. /\ cacheView' \in [Txids -> Entry \cup {None}]
      /\ cacheView'[t] = Released(n)
      /\ \A s \in Txids \ {t} : cacheView'[s] = cacheView[s]
    BY <1>3, <1>4 DEF TypeOK
<1>6. TypeOK'
    BY <1>1, <1>5 DEF TypeOK, ModifyCoins
<1>7. ViewFlags'
    <2>1. ASSUME NEW s \in Txids \ {t}, cacheView'[s] # None
          PROVE  /\ ~cacheView'[s].dirty => cacheView'[s].coins = TipCoins(s)'
                 /\ cacheView'[s].fresh => TipCoins(s)' = Pruned
                 /\ cacheTip'[s] = None => cacheView'[s].fresh
        BY <1>1, <1>5, <2>1 DEF ViewFlags
    <2>2. cacheView'[t] # None =>
                 /\ cacheView'[t].dirty
                 /\ cacheView'[t].fresh => TipCoins(t)' = Pruned
                 /\ cacheTip'[t] = None => cacheView'[t].fresh
        BY <1>2, <1>3, <1>4, <1>5
    <2> QED BY <2>1, <2>2 DEF ViewFlags
<1>8. ClosedViewEmpty'
    BY DEF ClosedViewEmpty, ModifyCoins
<1>9. ViewWrote'
    <2>1. ASSUME NEW s \in Txids \ {t} PROVE ViewCoins(s)' = wrote'[s]
        <3>1. ViewCoins(s)' = ViewCoins(s)
            BY <1>1, <1>5 DEF ViewCoins
        <3>2. ViewCoins(s) = wrote[s] /\ wrote'[s] = wrote[s]
            BY DEF ViewWrote, ModifyCoins, TypeOK
        <3> QED BY <3>1, <3>2
    <2>2. ViewCoins(t)' = v
        <3>1. CASE n.fresh /\ v = Pruned
            <4>1. cacheView'[t] = None
                BY <1>4, <1>5, <3>1
            <4>2. TipCoins(t)' = Pruned
                BY <1>2, <1>3, <3>1
            <4> QED BY <3>1, <4>1, <4>2 DEF ViewCoins
        <3>2. CASE ~(n.fresh /\ v = Pruned)
            <4>1. cacheView'[t] = n
                BY <1>4, <1>5, <3>2
            <4> QED BY <1>3, <4>1 DEF ViewCoins
        <3> QED BY <3>1, <3>2
    <2>3. wrote'[t] = v
        BY DEF ModifyCoins, TypeOK
    <2> QED BY <2>1, <2>2, <2>3 DEF ViewWrote
<1> QED BY <1>1, <1>6, <1>7, <1>8, <1>9

\* Reading through the view copies pcoinsTip's entry.
LEMMA AccessPreserves ==
    ASSUME IndInv, NEW t \in Txids, AccessCoins(t)
    PROVE  IndInv'
<1> USE DEF IndInv
<1>0. db' = db /\ cacheTip' = TipFetched(t) /\ cacheView[t] = None
    BY DEF AccessCoins
<1>1. /\ cacheTip' \in [Txids -> Entry \cup {None}]
      /\ TipFlags'
      /\ \A s \in Txids : /\ TipCoins(s)' = TipCoins(s)
                          /\ cacheTip'[s] = None => cacheTip[s] = None
    BY <1>0, FetchTip
<1>2. /\ cacheView' \in [Txids -> Entry \cup {None}]
      /\ \A s \in Txids \ {t} : cacheView'[s] = cacheView[s]
      /\ cacheView'[t] # None =>
            /\ cacheTip'[t] # None
            /\ cacheView'[t].coins = TipCoins(t)'
            /\ cacheView'[t].fresh => TipCoins(t)' = Pruned
    <2>1. CASE cacheTip'[t] = None
        BY <2>1, <1>0 DEF AccessCoins, TypeOK
    <2>2. CASE cacheTip'[t] # None
        <3> DEFINE e == [coins |-> cacheTip'[t].coins, dirty |-> FALSE,
                         fresh |-> cacheTip'[t].coins = Pruned]
        <3>1. e \in Entry /\ TipCoins(t)' = cacheTip'[t].coins
            BY <1>1, <2>2 DEF TipCoins
        <3>2. cacheView' = [cacheView EXCEPT ![t] = e]
            BY <2>2 DEF AccessCoins, FetchedEntry
        <3>3. cacheView'[t] = e
            BY <3>2 DEF TypeOK
        <3>4. /\ cacheView' \in [Txids -> Entry \cup {None}]
              /\ \A s \in Txids \ {t} : cacheView'[s] = cacheView[s]
            BY <3>1, <3>2 DEF TypeOK
        <3> QED BY <2>2, <3>1, <3>3, <3>4
    <2> QED BY <2>1, <2>2
<1>3. TypeOK'
    BY <1>1, <1>2 DEF TypeOK, AccessCoins
<1>4. ViewFlags'
    <2>1. ASSUME NEW s \in Txids \ {t}, cacheView'[s] # None
          PROVE  /\ ~cacheView'[s].dirty => cacheView'[s].coins = TipCoins(s)'
                 /\ cacheView'[s].fresh => TipCoins(s)' = Pruned
                 /\ cacheTip'[s] = None => cacheView'[s].fresh
        BY <1>1, <1>2, <2>1 DEF ViewFlags
    <2> QED BY <2>1, <1>2 DEF ViewFlags
<1>5. ClosedViewEmpty'
    BY DEF ClosedViewEmpty, AccessCoins
<1>6. ViewWrote'
    <2>1. ASSUME NEW s \in Txids PROVE ViewCoins(s)' = wrote[s]
        <3>1. ViewCoins(s) = wrote[s]
            BY DEF ViewWrote, AccessCoins
        <3>2. CASE s = t
            <4>1. ViewCoins(t) = TipCoins(t)
                BY <1>0 DEF ViewCoins
            <4>2. ViewCoins(t)' = TipCoins(t)'
                BY <1>2 DEF ViewCoins
            <4> QED BY <3>1, <3>2, <4>1, <4>2, <1>1
        <3>3. CASE s # t
            BY <1>1, <1>2, <3>1, <3>3 DEF ViewCoins
        <3> QED BY <3>2, <3>3
    <2> QED BY <2>1 DEF ViewWrote, AccessCoins
<1> QED BY <1>1, <1>3, <1>4, <1>5, <1>6

\* The entries mean what their flags say, in every reachable state.
THEOREM Inductive == Spec => []IndInv
<1>1. Init => IndInv
    <2> SUFFICES ASSUME Init PROVE IndInv
        OBVIOUS
    <2> USE DEF Init
    <2>1. TypeOK
        <3>1. db \in [Txids -> Coins] /\ Empty \in [Txids -> Entry \cup {None}]
            BY DEF Empty
        <3>2. committed \subseteq BlockHashes \X [Txids -> Coins]
            BY <3>1
        <3>3. commits \in 0..MaxCommits
            OBVIOUS
        <3>4. /\ cacheTip \in [Txids -> Entry \cup {None}]
              /\ cacheView \in [Txids -> Entry \cup {None}]
            BY <3>1
        <3>5. wrote \in [Txids -> Coins]
            BY <3>1
        <3>6. open \in BOOLEAN /\ dbBest \in BlockHashes /\ hashTip = Null /\ hashView = Null
            OBVIOUS
        <3> HIDE DEF Init
        <3> QED BY <3>1, <3>2, <3>3, <3>4, <3>5, <3>6 DEF TypeOK
    <2>2. TipFlags /\ ViewFlags
        BY DEF TipFlags, ViewFlags, Empty
    <2> QED BY <2>1, <2>2 DEF IndInv, ClosedViewEmpty, ViewWrote
<1>2. IndInv /\ [Next]_vars => IndInv'
    <2> SUFFICES ASSUME IndInv, [Next]_vars PROVE IndInv'
        OBVIOUS
    <2> USE DEF IndInv
    <2>1. ASSUME NEW t \in Txids, AccessTip(t) PROVE IndInv'
        <3>0. db' = db /\ cacheTip' = TipFetched(t) /\ cacheView' = cacheView
            BY <2>1 DEF AccessTip
        <3>1. /\ cacheTip' \in [Txids -> Entry \cup {None}]
              /\ TipFlags'
              /\ \A s \in Txids : /\ TipCoins(s)' = TipCoins(s)
                                  /\ cacheTip'[s] = None => cacheTip[s] = None
            BY <3>0, FetchTip
        <3>2. TypeOK'
            BY <2>1, <3>1 DEF TypeOK, AccessTip
        <3>3. ViewFlags'
            BY <3>0, <3>1 DEF ViewFlags
        <3>4. \A s \in Txids : ViewCoins(s)' = ViewCoins(s)
            BY <3>0, <3>1 DEF ViewCoins
        <3> QED BY <2>1, <3>1, <3>2, <3>3, <3>4 DEF ClosedViewEmpty, ViewWrote, AccessTip
    <2>2. ASSUME NEW t \in Txids, AccessCoins(t) PROVE IndInv'
        BY <2>2, AccessPreserves
    <2>3. ASSUME NEW t \in Txids, NEW v \in Coins, ModifyCoins(t, v) PROVE IndInv'
        BY <2>3, ModifyPreserves
    <2>4. ASSUME NEW b \in BlockHashes, Commit(b) PROVE IndInv'
        <3>1. cacheTip' \in [Txids -> Entry \cup {None}] /\ TipFlags'
            BY <2>4, CommitMerges
        <3>2. <<b, wrote>> \in BlockHashes \X [Txids -> Coins]
            BY DEF TypeOK
        <3>3. TypeOK'
            <4>1. committed' \subseteq BlockHashes \X [Txids -> Coins]
                BY <2>4, <3>2 DEF TypeOK, Commit
            <4>2. commits' \in 0..MaxCommits
                BY <2>4 DEF TypeOK, Commit
            <4>3. cacheView' \in [Txids -> Entry \cup {None}]
                BY <2>4 DEF Commit, Empty
            <4> QED BY <2>4, <3>1, <4>1, <4>2, <4>3 DEF TypeOK, Commit
        <3>4. ViewFlags' /\ ClosedViewEmpty' /\ ViewWrote'
            BY <2>4 DEF Commit, Empty, ViewFlags, ClosedViewEmpty, ViewWrote
        <3> QED BY <3>1, <3>3, <3>4
    <2>5. CASE OpenView
        <3>1. \A s \in Txids : TipCoins(s) \in Coins
            BY DEF TipCoins, TypeOK
        <3>2. TypeOK'
            BY <2>5, <3>1 DEF TypeOK, OpenView, TipContent, Empty
        <3>3. TipFlags'
            BY <2>5 DEF TipFlags, OpenView
        <3>4. ViewFlags' /\ ClosedViewEmpty'
            BY <2>5 DEF OpenView, Empty, ViewFlags, ClosedViewEmpty
        <3>5. ViewWrote'
            BY <2>5 DEF OpenView, Empty, ViewWrote, ViewCoins, TipContent, TipCoins
        <3> QED BY <3>2, <3>3, <3>4, <3>5
    <2>6. CASE GetBestBlock
        <3>1. TypeOK'
            BY <2>6 DEF TypeOK, GetBestBlock, TipBest
        <3> QED BY <2>6, <3>1 DEF GetBestBlock, TipFlags, ViewFlags, ClosedViewEmpty,
                                  ViewWrote, ViewCoins, TipCoins
    <2>7. CASE Discard
        <3>1. \A s \in Txids : TipCoins(s) \in Coins
            BY DEF TipCoins, TypeOK
        <3>2. TypeOK'
            BY <2>7, <3>1 DEF TypeOK, Discard, TipContent, Empty
        <3>3. TipFlags'
            BY <2>7 DEF TipFlags, Discard
        <3> QED BY <2>7, <3>2, <3>3 DEF Discard, Empty, ViewFlags, ClosedViewEmpty, ViewWrote
    <2>8. CASE Flush
        <3>1. cacheView = Empty
            BY <2>8 DEF Flush, NoViewInUse, ClosedViewEmpty
        <3>2. TypeOK'
            BY <2>8 DEF Flush, TypeOK, TipBest, Empty
        <3>3. TipFlags'
            BY <2>8 DEF Flush, TipFlags, Empty
        <3> QED BY <2>8, <3>1, <3>2, <3>3
                DEF Flush, NoViewInUse, Empty, ViewFlags, ClosedViewEmpty, ViewWrote
    <2>9. CASE FlushFails
        <3>1. cacheView = Empty
            BY <2>9 DEF FlushFails, NoViewInUse, ClosedViewEmpty
        <3>2. TypeOK'
            BY <2>9 DEF FlushFails, TypeOK, Empty
        <3>3. TipFlags'
            BY <2>9 DEF FlushFails, TipFlags, Empty
        <3> QED BY <2>9, <3>1, <3>2, <3>3
                DEF FlushFails, NoViewInUse, Empty, ViewFlags, ClosedViewEmpty, ViewWrote
    <2>10. CASE Crash
        <3>1. TypeOK'
            BY <2>10 DEF Crash, TypeOK, Empty
        <3> QED BY <2>10, <3>1
                DEF Crash, Empty, TipFlags, ViewFlags, ClosedViewEmpty, ViewWrote
    <2>11. CASE UNCHANGED vars
        BY <2>11 DEF vars, TypeOK, TipFlags, ViewFlags, ClosedViewEmpty, ViewWrote,
                     ViewCoins, TipCoins
    <2> QED BY <2>1, <2>2, <2>3, <2>4, <2>5, <2>6, <2>7, <2>8, <2>9, <2>10, <2>11 DEF Next
<1> QED BY <1>1, <1>2, PTL DEF Spec

\* The assertion of BatchWrite (coins.cpp:178) cannot fail: an entry the view
\* has changed and pcoinsTip does not hold is fresh, failed flushes included.
THEOREM BatchWriteAssert == Spec => []FlushAssertHolds
<1>1. IndInv => FlushAssertHolds
    BY DEF IndInv, ViewFlags, FlushAssertHolds
<1> QED BY <1>1, Inductive, PTL

\* A view answers what was written to it, and what pcoinsTip answered when it
\* was made for everything else, whatever is cached in between.
THEOREM AnswersCorrect == Spec => []ViewAnswers
<1>1. IndInv => ViewAnswers
    <2> SUFFICES ASSUME IndInv, open PROVE ViewContent = wrote
        BY DEF ViewAnswers
    <2>1. \A t \in Txids : ViewCoins(t) = wrote[t]
        BY DEF IndInv, ViewWrote
    <2>2. wrote = [t \in Txids |-> wrote[t]]
        BY DEF IndInv, TypeOK
    <2> QED BY <2>1, <2>2 DEF ViewContent
<1> QED BY <1>1, Inductive, PTL

-----------------------------------------------------------------------------
(* What the views contain.  While no write fails, pcoinsTip and the         *)
(* database always hold the coins of the block they name.                   *)

LayerInv ==
    /\ <<TipBest, TipContent>> \in committed
    /\ <<dbBest, db>> \in committed
    /\ ~open => wrote = TipContent

\* The type of what pcoinsTip answers.
LEMMA TipContentType ==
    ASSUME TypeOK
    PROVE  /\ TipContent \in [Txids -> Coins]
           /\ TipBest \in BlockHashes
<1>1. \A t \in Txids : TipCoins(t) \in Coins
    BY DEF TypeOK, TipCoins
<1> QED BY <1>1 DEF TipContent, TipBest, TypeOK

\* After a commit pcoinsTip answers what its user wrote to the view.
LEMMA CommitContent ==
    ASSUME IndInv, NEW b \in BlockHashes, Commit(b)
    PROVE  TipContent' = wrote /\ TipBest' = b
<1>1. \A t \in Txids : TipCoins(t)' = wrote[t]
    BY CommitMerges
<1>2. wrote = [t \in Txids |-> wrote[t]]
    BY DEF IndInv, TypeOK
<1>3. TipContent' = [t \in Txids |-> TipCoins(t)']
    BY DEF TipContent
<1>4. TipContent' = wrote
    BY <1>1, <1>2, <1>3
<1> QED BY <1>4 DEF Commit, TipBest

\* A flush moves all of pcoinsTip into the database.
LEMMA FlushContent ==
    ASSUME IndInv, Flush
    PROVE  /\ db' = TipContent /\ dbBest' = TipBest
           /\ TipContent' = TipContent /\ TipBest' = TipBest
<1>1. ASSUME NEW t \in Txids
      PROVE  (IF cacheTip[t] # None /\ cacheTip[t].dirty
              THEN cacheTip[t].coins ELSE db[t]) = TipCoins(t)
    BY DEF IndInv, TipFlags, TipCoins
<1>2. db' = TipContent
    BY <1>1 DEF Flush, TipContent
<1>3. \A t \in Txids : TipCoins(t)' = db'[t]
    BY DEF Flush, TipCoins, Empty
<1>4. \A t \in Txids : TipCoins(t)' = TipCoins(t)
    BY <1>2, <1>3 DEF TipContent
<1>5. TipContent' = TipContent
    BY <1>4 DEF TipContent
<1> QED BY <1>2, <1>5 DEF Flush, TipBest

\* Steps that look something up, and steps that only concern the view, leave
\* what pcoinsTip answers alone.
LEMMA TipContentKept ==
    ASSUME IndInv, NEW t \in Txids, db' = db, cacheTip' = TipFetched(t) \/ cacheTip' = cacheTip
    PROVE  TipContent' = TipContent
<1>1. CASE cacheTip' = TipFetched(t)
    <2>1. \A s \in Txids : TipCoins(s)' = TipCoins(s)
        BY <1>1, FetchTip DEF IndInv
    <2> QED BY <2>1 DEF TipContent
<1>2. CASE cacheTip' = cacheTip
    BY <1>2 DEF TipContent, TipCoins
<1> QED BY <1>1, <1>2

\* With nothing cached pcoinsTip answers what the database holds.
LEMMA EmptyContent ==
    ASSUME IndInv, db' = db, cacheTip' = Empty
    PROVE  TipContent' = db
<1>1. \A t \in Txids : TipCoins(t)' = db[t]
    BY DEF TipCoins, Empty
<1>2. db = [t \in Txids |-> db[t]]
    BY DEF IndInv, TypeOK
<1>3. TipContent' = [t \in Txids |-> TipCoins(t)']
    BY DEF TipContent
<1> QED BY <1>1, <1>2, <1>3

\* Nothing is cached after a crash.
LEMMA CrashContent ==
    ASSUME IndInv, Crash
    PROVE  TipContent' = db /\ TipBest' = dbBest
BY EmptyContent DEF Crash, TipBest

\* The initial content of pcoinsTip.
LEMMA InitContent ==
    ASSUME Init
    PROVE  TipContent = db /\ TipBest = Genesis
<1>1. \A t \in Txids : TipCoins(t) = db[t]
    BY DEF Init, TipCoins, Empty
<1> QED BY <1>1 DEF Init, TipContent, TipBest

\* pcoinsTip and the database hold the coins of the blocks they name.
THEOREM LayersMatchBlocks ==
    ASSUME ~DiskMayFail
    PROVE  Spec => []LayerInv
<1>1. Init => LayerInv
    BY InitContent DEF LayerInv, Init
<1>2. IndInv /\ LayerInv /\ [Next]_vars => LayerInv'
    <2> SUFFICES ASSUME IndInv, LayerInv, [Next]_vars PROVE LayerInv'
        OBVIOUS
    <2>1. ASSUME NEW t \in Txids, AccessTip(t) PROVE LayerInv'
        <3>1. TipContent' = TipContent
            BY <2>1, TipContentKept DEF AccessTip
        <3> QED BY <2>1, <3>1 DEF LayerInv, AccessTip, TipBest
    <2>2. ASSUME NEW t \in Txids, AccessCoins(t) PROVE LayerInv'
        <3>1. TipContent' = TipContent
            BY <2>2, TipContentKept DEF AccessCoins
        <3> QED BY <2>2, <3>1 DEF LayerInv, AccessCoins, TipBest
    <2>3. ASSUME NEW t \in Txids, NEW v \in Coins, ModifyCoins(t, v) PROVE LayerInv'
        <3>1. TipContent' = TipContent
            BY <2>3, TipContentKept DEF ModifyCoins
        <3> QED BY <2>3, <3>1 DEF LayerInv, ModifyCoins, TipBest
    <2>4. ASSUME NEW b \in BlockHashes, Commit(b) PROVE LayerInv'
        <3>1. TipContent' = wrote /\ TipBest' = b
            BY <2>4, CommitContent
        <3> QED BY <2>4, <3>1 DEF LayerInv, Commit
    <2>5. CASE OpenView
        BY <2>5 DEF OpenView, LayerInv, TipContent, TipCoins, TipBest
    <2>6. CASE GetBestBlock
        BY <2>6 DEF GetBestBlock, LayerInv, TipContent, TipCoins, TipBest, IndInv, TypeOK
    <2>7. CASE Discard
        BY <2>7 DEF Discard, LayerInv, TipContent, TipCoins, TipBest
    <2>8. CASE Flush
        <3>1. /\ db' = TipContent /\ dbBest' = TipBest
              /\ TipContent' = TipContent /\ TipBest' = TipBest
            BY <2>8, FlushContent
        <3> QED BY <2>8, <3>1 DEF LayerInv, Flush
    <2>9. CASE FlushFails
        BY <2>9 DEF FlushFails
    <2>10. CASE Crash
        <3>1. TipContent' = db /\ TipBest' = dbBest
            BY <2>10, CrashContent
        <3> QED BY <2>10, <3>1 DEF LayerInv, Crash
    <2>11. CASE UNCHANGED vars
        BY <2>11 DEF vars, LayerInv, TipContent, TipCoins, TipBest
    <2> QED BY <2>1, <2>2, <2>3, <2>4, <2>5, <2>6, <2>7, <2>8, <2>9, <2>10, <2>11 DEF Next
<1> QED BY <1>1, <1>2, Inductive, PTL DEF Spec

\* The coin database always holds all the coins of the block it names
\* (coins.h:345), after a crash at any point too.
THEOREM DatabaseConsistent ==
    ASSUME ~DiskMayFail
    PROVE  Spec => []DatabaseAtBlock
<1>1. LayerInv => DatabaseAtBlock
    BY DEF LayerInv, DatabaseAtBlock
<1> QED BY <1>1, LayersMatchBlocks, PTL

\* The caches, their flags and the order of fetches, merges and flushes are
\* invisible: the stack of views implements three plain maps, of which a
\* failed flush loses what is not on disk yet.
THEOREM Refinement == Spec => ImplementsLayers
<1>1. Init => Layers!Init
    BY InitContent DEF Init, Layers!Init
<1>2. IndInv /\ [Next]_vars => [Layers!Next]_Layers!vars
    <2> SUFFICES ASSUME IndInv, [Next]_vars PROVE [Layers!Next]_Layers!vars
        OBVIOUS
    <2>1. ASSUME NEW t \in Txids, AccessTip(t) PROVE UNCHANGED Layers!vars
        <3>1. TipContent' = TipContent
            BY <2>1, TipContentKept DEF AccessTip
        <3> QED BY <2>1, <3>1 DEF Layers!vars, AccessTip, TipBest
    <2>2. ASSUME NEW t \in Txids, AccessCoins(t) PROVE UNCHANGED Layers!vars
        <3>1. TipContent' = TipContent
            BY <2>2, TipContentKept DEF AccessCoins
        <3> QED BY <2>2, <3>1 DEF Layers!vars, AccessCoins, TipBest
    <2>3. ASSUME NEW t \in Txids, NEW v \in Coins, ModifyCoins(t, v) PROVE Layers!Modify
        <3>1. TipContent' = TipContent
            BY <2>3, TipContentKept DEF ModifyCoins
        <3>2. TipBest' = TipBest
            BY <2>3 DEF ModifyCoins, TipBest
        <3> QED BY <2>3, <3>1, <3>2 DEF Layers!Modify, ModifyCoins
    <2>4. ASSUME NEW b \in BlockHashes, Commit(b) PROVE Layers!Commit
        <3>1. TipContent' = wrote /\ TipBest' = b
            BY <2>4, CommitContent
        <3> QED BY <2>4, <3>1 DEF Layers!Commit, Commit
    <2>5. CASE OpenView
        <3>1. TipContent' = TipContent /\ TipBest' = TipBest
            BY <2>5 DEF OpenView, TipContent, TipCoins, TipBest
        <3>2. Layers!OpenView
            BY <2>5, <3>1 DEF OpenView, Layers!OpenView
        <3> QED BY <3>2 DEF Layers!Next
    <2>6. CASE GetBestBlock
        <3>1. TipContent' = TipContent /\ TipBest' = TipBest
            BY <2>6 DEF GetBestBlock, TipContent, TipCoins, TipBest, IndInv, TypeOK
        <3> QED BY <2>6, <3>1 DEF GetBestBlock, Layers!vars
    <2>7. CASE Discard
        <3>1. TipContent' = TipContent /\ TipBest' = TipBest
            BY <2>7 DEF Discard, TipContent, TipCoins, TipBest
        <3>2. Layers!Discard
            BY <2>7, <3>1 DEF Discard, Layers!Discard
        <3> QED BY <3>2 DEF Layers!Next
    <2>8. CASE Flush
        <3>1. /\ db' = TipContent /\ dbBest' = TipBest
              /\ TipContent' = TipContent /\ TipBest' = TipBest
            BY <2>8, FlushContent
        <3>2. Layers!Persist
            BY <2>8, <3>1 DEF Flush, NoViewInUse, Layers!Persist
        <3> QED BY <3>2 DEF Layers!Next
    <2>9. CASE FlushFails
        <3>1. TipContent' = db
            BY <2>9, EmptyContent DEF FlushFails
        <3>2. Layers!Lose
            BY <2>9, <3>1 DEF FlushFails, NoViewInUse, TipBest, Layers!Lose
        <3> QED BY <3>2 DEF Layers!Next
    <2>10. CASE Crash
        <3>1. TipContent' = db /\ TipBest' = dbBest
            BY <2>10, CrashContent
        <3>2. Layers!Crash
            BY <2>10, <3>1 DEF Crash, Layers!Crash
        <3> QED BY <3>2 DEF Layers!Next
    <2>11. CASE UNCHANGED vars
        BY <2>11 DEF vars, Layers!vars, TipContent, TipCoins, TipBest
    <2> QED BY <2>1, <2>2, <2>3, <2>4, <2>5, <2>6, <2>7, <2>8, <2>9, <2>10, <2>11
            DEF Next, Layers!Next
<1> QED BY <1>1, <1>2, Inductive, PTL
        DEF Spec, ImplementsLayers, Layers!Spec
=============================================================================
