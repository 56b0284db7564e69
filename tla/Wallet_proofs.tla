--------------------------- MODULE Wallet_proofs ---------------------------
(***************************************************************************)
(* Proofs about the orphan transactions, the coins and their undo data,    *)
(* the memory pool and the wallet, for every set of transactions, every    *)
(* block tree and every number of peers.                                   *)
(***************************************************************************)
EXTENDS Wallet, FiniteSetTheorems, TLAPS

-----------------------------------------------------------------------------
(* Induction over a range, and folds *)

\* "Less than" on the natural numbers is well-founded.
LEMMA LessThan ==
    \E R : IsWellFoundedOn(R, Nat) /\ \A i, j \in Nat : i < j => <<i, j>> \in R
<1> DEFINE R == OpToRel(<, Nat)
<1>1. IsWellFoundedOn(R, Nat)
  BY NatLessThanWellFounded
<1>2. \A i, j \in Nat : i < j => <<i, j>> \in R
  BY Zenon DEF OpToRel
<1> HIDE DEF R
<1> QED BY <1>1, <1>2

\* A set of natural numbers has a least element.
LEMMA Least ==
    ASSUME NEW T \in SUBSET Nat, T # {}
    PROVE  \E n \in T : \A k \in T : n <= k
<1>1. PICK R : IsWellFoundedOn(R, Nat) /\ \A i, j \in Nat : i < j => <<i, j>> \in R
  BY LessThan
<1>2. PICK n \in T : \A k \in T : ~(<<k, n>> \in R)
  <2>1. IsWellFoundedOn(R, Nat) /\ T \subseteq Nat /\ T # {}
    BY <1>1
  <2> QED BY <2>1, WFMin, Zenon
<1>3. n \in Int /\ \A k \in T : k \in Int
  OBVIOUS
<1>4. \A k \in T : ~(k < n)
  BY <1>1, <1>2
<1> QED BY <1>3, <1>4

\* Induction over 0..n: a set that holds 0 and the successors of its
\* members holds all of 0..n.
LEMMA Upwards ==
    ASSUME NEW n \in Nat, NEW S, 0 \in S, \A i \in 0..n : i \in S /\ i < n => i + 1 \in S
    PROVE  \A i \in 0..n : i \in S
<1> SUFFICES ASSUME (0..n) \ S # {} PROVE FALSE
  OBVIOUS
<1>1. (0..n) \ S \in SUBSET Nat
  OBVIOUS
<1>2. PICK m \in (0..n) \ S : \A k \in (0..n) \ S : m <= k
  BY <1>1, Least
<1>3. m \in Nat /\ 0 < m /\ m <= n
  BY <1>2
<1>4. m - 1 \in 0..n /\ m - 1 < n /\ m - 1 + 1 = m /\ ~(m <= m - 1)
  BY <1>3
<1>5. m - 1 \in S
  BY <1>2, <1>4
<1> QED BY <1>2, <1>4, <1>5

\* g[1], ..., g[n] map A to itself; f are their values one after the other.
Maps(g, n, A) == \A i \in 1..n : g[i] \in [A -> A]
Runs(f, n, A, start, g) ==
    f \in [0..n -> A] /\ f[0] = start /\ \A i \in 1..n : f[i] = g[i][f[i - 1]]

\* The values of a fold exist.
LEMMA Iterates ==
    ASSUME NEW n \in Nat, NEW A, NEW start \in A, NEW g, Maps(g, n, A)
    PROVE  \E f : Runs(f, n, A, start, g)
<1> DEFINE Upto(m, f) == f \in [0..m -> A] /\ f[0] = start /\ \A i \in 1..m : f[i] = g[i][f[i - 1]]
           S == {m \in 0..n : \E f : Upto(m, f)}
<1>1. 0 \in S
  <2> DEFINE f == [i \in 0..0 |-> start]
  <2>1. f \in [0..0 -> A] /\ f[0] = start /\ 1..0 = {}
    OBVIOUS
  <2>2. Upto(0, f)
    BY <2>1
  <2> HIDE DEF Upto, f
  <2> QED BY <2>2
<1>2. ASSUME NEW m \in 0..n, m \in S, m < n PROVE m + 1 \in S
  <2>1. PICK f : Upto(m, f)
    BY <1>2
  <2> DEFINE e == [i \in 0..(m + 1) |-> IF i = m + 1 THEN g[m + 1][f[m]] ELSE f[i]]
  <2>2. m \in Nat /\ m + 1 \in 1..n /\ m + 1 \in 0..n /\ m \in 0..m
    BY <1>2
  <2>3. g[m + 1][f[m]] \in A
    BY <2>1, <2>2 DEF Maps
  <2>4. e \in [0..(m + 1) -> A]
    <3>1. \A i \in 0..(m + 1) : i # m + 1 => i \in 0..m
      BY <2>2
    <3> QED BY <2>1, <2>3, <3>1
  <2>5. e[0] = start
    BY <2>1, <2>2
  <2>6. \A i \in 1..(m + 1) : e[i] = g[i][e[i - 1]]
    <3> SUFFICES ASSUME NEW i \in 1..(m + 1) PROVE e[i] = g[i][e[i - 1]]
      OBVIOUS
    <3>1. i \in 0..(m + 1) /\ i - 1 \in 0..(m + 1) /\ i - 1 # m + 1 /\ e[i - 1] = f[i - 1]
      BY <2>2
    <3>2. CASE i = m + 1
      <4>1. i - 1 = m
        BY <2>2, <3>2
      <4> QED BY <3>1, <3>2, <4>1
    <3>3. CASE i # m + 1
      <4>1. i \in 1..m
        BY <2>2, <3>3
      <4> QED BY <2>1, <3>1, <3>3, <4>1
    <3> QED BY <3>2, <3>3
  <2> HIDE DEF e
  <2>7. Upto(m + 1, e)
    BY <2>4, <2>5, <2>6
  <2> HIDE DEF Upto
  <2> QED BY <2>2, <2>7
<1> HIDE DEF S
<1>3. \A i \in 0..n : i \in S
  BY <1>1, <1>2, Upwards
<1>4. n \in S
  BY <1>3
<1> QED BY <1>4 DEF S, Runs

-----------------------------------------------------------------------------
(* Orphans *)

\* The maps have their types, and only finitely many orphans are kept.
OrphanInv ==
    /\ orphans \in [Txs -> Peers \cup {None}]
    /\ byPrev \in [Txs -> SUBSET Txs]
    /\ IsFiniteSet(Orphans)
    /\ OrphansConsistent

LEMMA OrphanInit ==
    ASSUME orphans = [t \in Txs |-> None], byPrev = [t \in Txs |-> {}]
    PROVE  OrphanInv
<1>1. Orphans = {}
  BY DEF Orphans
<1>2. IsFiniteSet({}) /\ Cardinality({}) = 0
  BY FS_EmptySet
<1> QED BY <1>1, <1>2, MempoolAssumption DEF OrphanInv, OrphansConsistent

\* A step that leaves the maps alone and loses no peer.
LEMMA OrphanQuiet ==
    ASSUME OrphanInv, orphans' = orphans, byPrev' = byPrev, peers \subseteq peers'
    PROVE  OrphanInv'
<1>1. Orphans' = Orphans
  BY DEF Orphans
<1> QED BY <1>1 DEF OrphanInv, OrphansConsistent

\* EraseOrphanTx takes the same transactions out of both maps.
LEMMA OrphanErase ==
    ASSUME OrphanInv, NEW S, EraseOrphans(S),
           \A t \in Orphans \ S : orphans[t] \in peers'
    PROVE  OrphanInv'
<1>1. Orphans' = Orphans \ S
  BY DEF Orphans, EraseOrphans
<1>2. IsFiniteSet(Orphans') /\ Cardinality(Orphans') <= MaxOrphanTx
  <2>1. IsFiniteSet(Orphans) /\ Cardinality(Orphans) <= MaxOrphanTx
    BY DEF OrphanInv, OrphansConsistent
  <2>2. Orphans' \subseteq Orphans
    BY <1>1
  <2>3. IsFiniteSet(Orphans') /\ Cardinality(Orphans') <= Cardinality(Orphans)
    BY <2>1, <2>2, FS_Subset
  <2>4. Cardinality(Orphans) \in Nat /\ Cardinality(Orphans') \in Nat
    BY <2>1, <2>3, FS_CardinalityType
  <2> QED BY <2>1, <2>3, <2>4, MempoolAssumption
<1>3. byPrev' \in [Txs -> SUBSET Txs] /\ orphans' \in [Txs -> Peers \cup {None}]
  BY DEF OrphanInv, EraseOrphans, Unlisted
<1>4. \A q \in Txs : byPrev'[q] = {t \in Orphans' : q \in ParentTxs(t)}
  <2> SUFFICES ASSUME NEW q \in Txs PROVE byPrev'[q] = {t \in Orphans' : q \in ParentTxs(t)}
    OBVIOUS
  <2>1. byPrev[q] = {t \in Orphans : q \in ParentTxs(t)}
    BY DEF OrphanInv, OrphansConsistent
  <2>2. byPrev'[q] = byPrev[q] \ {t \in S \cap Orphans : q \in ParentTxs(t)}
    BY DEF EraseOrphans, Unlisted
  <2> QED BY <1>1, <2>1, <2>2
<1>5. \A t \in Orphans' : orphans'[t] \in peers'
  BY <1>1 DEF EraseOrphans, Orphans
<1> QED BY <1>2, <1>3, <1>4, <1>5 DEF OrphanInv, OrphansConsistent

\* AddOrphanTx lists the orphan under each of its parents once, and evicts
\* exactly as many as are too many.
LEMMA OrphanAdd ==
    ASSUME OrphanInv, NEW p \in Peers, p \in peers, NEW t \in Txs, AddOrphanTx(p, t), peers' = peers
    PROVE  OrphanInv'
<1>1. CASE t \in Orphans \cup BigTxs
  BY <1>1, OrphanQuiet DEF AddOrphanTx
<1>2. CASE t \notin Orphans \cup BigTxs
  <2> DEFINE all == Orphans \cup {t}
             listed == [q \in Txs |-> byPrev[q] \cup (IF q \in ParentTxs(t) THEN {t} ELSE {})]
             excess == IF Cardinality(all) > MaxOrphanTx THEN Cardinality(all) - MaxOrphanTx ELSE 0
  <2>1. PICK evicted \in SUBSET all :
           /\ Cardinality(evicted) = excess
           /\ orphans' = [u \in Txs |-> IF u \in evicted THEN None
                                         ELSE IF u = t THEN p ELSE orphans[u]]
           /\ byPrev' = Unlisted(listed, evicted)
    BY <1>2 DEF AddOrphanTx
  <2>2. p # None /\ Orphans \subseteq Txs
    BY MempoolAssumption DEF Orphans
  <2>3. Orphans' = all \ evicted
    BY <2>1, <2>2 DEF Orphans
  <2>4. IsFiniteSet(all)
    BY FS_AddElement DEF OrphanInv
  <2>5. IsFiniteSet(Orphans') /\ Cardinality(Orphans') <= MaxOrphanTx
    <3>1. /\ IsFiniteSet(all \ evicted) /\ IsFiniteSet(all \cap evicted)
          /\ Cardinality(all \ evicted) = Cardinality(all) - Cardinality(all \cap evicted)
      BY <2>4, FS_Difference, FS_Intersection
    <3>2. all \cap evicted = evicted
      OBVIOUS
    <3>3. Cardinality(all) \in Nat /\ MaxOrphanTx \in Nat
      BY <2>4, FS_CardinalityType, MempoolAssumption
    <3>4. Cardinality(evicted) = excess /\ Orphans' = all \ evicted
      BY <2>1, <2>3
    <3>5. Cardinality(all \ evicted) = Cardinality(all) - excess
      BY <3>1, <3>2, <3>4
    <3>6. Cardinality(all \ evicted) <= MaxOrphanTx
      <4> HIDE DEF all
      <4> QED BY <3>3, <3>5
    <3> QED BY <3>1, <3>4, <3>6
  <2>6. byPrev' \in [Txs -> SUBSET Txs] /\ orphans' \in [Txs -> Peers \cup {None}]
    BY <2>1 DEF OrphanInv, Unlisted
  <2>7. \A q \in Txs : byPrev'[q] = {u \in Orphans' : q \in ParentTxs(u)}
    <3> SUFFICES ASSUME NEW q \in Txs PROVE byPrev'[q] = {u \in Orphans' : q \in ParentTxs(u)}
      OBVIOUS
    <3>1. byPrev[q] = {u \in Orphans : q \in ParentTxs(u)}
      BY DEF OrphanInv, OrphansConsistent
    <3>2. byPrev'[q] = (byPrev[q] \cup (IF q \in ParentTxs(t) THEN {t} ELSE {}))
                       \ {u \in evicted : q \in ParentTxs(u)}
      BY <2>1 DEF Unlisted
    <3> QED BY <2>3, <3>1, <3>2
  <2>8. \A u \in Orphans' : orphans'[u] \in peers'
    BY <2>1, <2>2, <2>3 DEF OrphanInv, OrphansConsistent
  <2> QED BY <2>5, <2>6, <2>7, <2>8 DEF OrphanInv, OrphansConsistent
<1> QED BY <1>1, <1>2

LEMMA OrphanNext ==
    ASSUME OrphanInv, WalletNext
    PROVE  OrphanInv'
<1>1. ASSUME NEW p \in Peers, InitializeNode(p) PROVE OrphanInv'
  BY <1>1, OrphanQuiet DEF InitializeNode
<1>2. ASSUME NEW p \in Peers, FinalizeNode(p) PROVE OrphanInv'
  <2> DEFINE S == {t \in Orphans : orphans[t] = p}
  <2>1. EraseOrphans(S) /\ peers' = peers \ {p}
    BY <1>2 DEF FinalizeNode
  <2>2. \A t \in Orphans \ S : orphans[t] \in peers'
    BY <2>1 DEF OrphanInv, OrphansConsistent
  <2> QED BY <2>1, <2>2, OrphanErase
<1>3. ASSUME NEW p \in Peers, NEW t \in Txs, NEW refused, ProcessTx(p, t, refused) PROVE OrphanInv'
  <2>1. CASE AddOrphanTx(p, t)
    BY <1>3, <2>1, OrphanAdd DEF ProcessTx
  <2>2. CASE UNCHANGED <<orphans, byPrev>>
    BY <1>3, <2>2, OrphanQuiet DEF ProcessTx
  <2> QED BY <1>3, <2>1, <2>2 DEF ProcessTx
<1>4. ASSUME NEW t \in Txs, NEW refused, NEW punish, TryOrphan(t, refused, punish) PROVE OrphanInv'
  BY <1>4, OrphanQuiet DEF TryOrphan
<1>5. ASSUME NEW t \in Txs, NEW refused, SubmitTx(t, refused) PROVE OrphanInv'
  BY <1>5, OrphanQuiet DEF SubmitTx
<1>6. ASSUME NextWork PROVE OrphanInv'
  <2>1. CASE EraseOrphans(loop.erase)
    <3>1. \A t \in Orphans \ loop.erase : orphans[t] \in peers'
      BY <1>6 DEF NextWork, OrphanInv, OrphansConsistent
    <3> QED BY <2>1, <3>1, OrphanErase
  <2>2. CASE UNCHANGED <<orphans, byPrev>>
    BY <1>6, <2>2, OrphanQuiet DEF NextWork
  <2> QED BY <1>6, <2>1, <2>2 DEF NextWork
<1>7. ASSUME NEW t \in Made, NEW refused, CommitTransaction(t, refused) PROVE OrphanInv'
  BY <1>7, OrphanQuiet DEF CommitTransaction
<1>8. ASSUME NEW refused, WalletDisconnectTip(refused) PROVE OrphanInv'
  BY <1>8, OrphanQuiet DEF WalletDisconnectTip, DisconnectTip
<1>9. ASSUME NEW b \in Blocks, WalletConnectTip(b) PROVE OrphanInv'
  BY <1>9, OrphanQuiet DEF WalletConnectTip, ConnectTip
<1>10. ASSUME NEW order \in HashOrders, Restart(order) PROVE OrphanInv'
  <2>1. orphans' = [t \in Txs |-> None] /\ byPrev' = [t \in Txs |-> {}]
    BY <1>10 DEF Restart
  <2>2. Orphans' = {}
    BY <2>1 DEF Orphans
  <2>3. IsFiniteSet({}) /\ Cardinality({}) = 0
    BY FS_EmptySet
  <2> QED BY <2>1, <2>2, <2>3, MempoolAssumption DEF OrphanInv, OrphansConsistent
<1> QED BY <1>1, <1>2, <1>3, <1>4, <1>5, <1>6, <1>7, <1>8, <1>9, <1>10 DEF WalletNext

\* In every reachable state mapOrphanTransactions and
\* mapOrphanTransactionsByPrev describe the same transactions, at most
\* -maxorphantx of them, each of a peer that is still there (main.cpp
\* AddOrphanTx, EraseOrphanTx, EraseOrphansFor, LimitOrphanTxSize).
THEOREM OrphansStayConsistent == WalletSpec => []OrphansConsistent
<1>1. WalletInit => OrphanInv
  BY OrphanInit DEF WalletInit, Init
<1>2. OrphanInv /\ [WalletNext]_walletVars => OrphanInv'
  <2> SUFFICES ASSUME OrphanInv, [WalletNext]_walletVars PROVE OrphanInv'
    OBVIOUS
  <2>1. CASE WalletNext
    BY <2>1, OrphanNext
  <2>2. CASE UNCHANGED walletVars
    BY <2>2, OrphanQuiet DEF walletVars, vars
  <2> QED BY <2>1, <2>2
<1>3. OrphanInv => OrphansConsistent
  BY DEF OrphanInv
<1> QED BY <1>1, <1>2, <1>3, PTL DEF WalletSpec

-----------------------------------------------------------------------------
(* Coins *)

\* CCoins, pcoinsTip, and what Spend works on.
CoinRec == [vout : SUBSET Nat, nHeight : Nat, fCoinBase : BOOLEAN, fCoinStake : BOOLEAN]
CoinMaps == [Txs -> CoinRec]
SpendAcc == [coins : CoinMaps, undo : Seq(CoinRec)]

LEMMA PrunedType == Pruned \in CoinRec /\ Pruned.vout = {} /\ Pruned.nHeight = 0
  BY DEF Pruned, CoinRec

LEMMA FromTxType ==
    ASSUME NEW t \in Txs, NEW h \in Nat
    PROVE  /\ FromTx(t, h) \in CoinRec
           /\ FromTx(t, h).vout = 0..(NOut[t] - 1)
           /\ FromTx(t, h).nHeight = h
<1>1. NOut[t] \in Nat /\ 0..(NOut[t] - 1) \subseteq Nat
  BY MempoolAssumption
<1>2. (t \in CoinBases) \in BOOLEAN /\ (t \in CoinStakes) \in BOOLEAN
  OBVIOUS
<1> QED BY <1>1, <1>2 DEF FromTx, CoinRec

LEMMA VinType ==
    ASSUME NEW t \in Txs
    PROVE  /\ Len(Vin[t]) \in Nat
           /\ \A i \in 1..Len(Vin[t]) : Vin[t][i] \in Txs \X Nat /\ Vin[t][i][1] \in Txs
                                        /\ Vin[t][i][2] \in Nat
<1>1. Vin[t] \in Seq(Txs \X Nat)
  BY MempoolAssumption
<1> QED BY <1>1

\* The undo entry that Spend makes.
Entry(acc, o) ==
    IF acc.coins[o[1]].vout \ {o[2]} = {} THEN [acc.coins[o[1]] EXCEPT !.vout = {o[2]}]
                                          ELSE [Pruned EXCEPT !.vout = {o[2]}]

\* What Spend does to the transaction it spends from, and to the others.
LEMMA SpendFacts ==
    ASSUME NEW acc \in SpendAcc, NEW o \in Txs \X Nat
    PROVE  /\ Spend(acc, o) \in SpendAcc
           /\ \A q \in Txs \ {o[1]} : Spend(acc, o).coins[q] = acc.coins[q]
           /\ Spend(acc, o).coins[o[1]] =
                 IF acc.coins[o[1]].vout \ {o[2]} = {} THEN Pruned
                 ELSE [acc.coins[o[1]] EXCEPT !.vout = acc.coins[o[1]].vout \ {o[2]}]
           /\ Spend(acc, o).undo = Append(acc.undo, Entry(acc, o))
<1> DEFINE c == acc.coins[o[1]]
           rest == c.vout \ {o[2]}
           spent == IF rest = {} THEN Pruned ELSE [c EXCEPT !.vout = rest]
           entry == IF rest = {} THEN [c EXCEPT !.vout = {o[2]}] ELSE [Pruned EXCEPT !.vout = {o[2]}]
<1>1. o[1] \in Txs /\ o[2] \in Nat
  OBVIOUS
<1>2. acc.coins \in CoinMaps /\ acc.undo \in Seq(CoinRec) /\ c \in CoinRec
  BY <1>1 DEF SpendAcc, CoinMaps
<1>3. spent \in CoinRec
  <2>1. rest \in SUBSET Nat
    BY <1>2 DEF CoinRec
  <2> HIDE DEF c, rest
  <2> QED BY <1>2, <2>1, PrunedType DEF CoinRec
<1>4. entry \in CoinRec
  <2>1. {o[2]} \in SUBSET Nat
    BY <1>1
  <2> HIDE DEF c, rest
  <2> QED BY <1>2, <2>1, PrunedType DEF CoinRec
<1>5. Spend(acc, o) = [coins |-> [acc.coins EXCEPT ![o[1]] = spent], undo |-> Append(acc.undo, entry)]
  BY DEF Spend
<1> HIDE DEF spent, entry
<1>6. Spend(acc, o).coins = [acc.coins EXCEPT ![o[1]] = spent] /\ Spend(acc, o).undo = Append(acc.undo, entry)
  BY <1>5
<1>7. Spend(acc, o).coins \in CoinMaps /\ Spend(acc, o).undo \in Seq(CoinRec)
  BY <1>2, <1>3, <1>4, <1>6 DEF CoinMaps
<1>8. Spend(acc, o) \in SpendAcc
  BY <1>5, <1>6, <1>7 DEF SpendAcc
<1>9. Spend(acc, o).coins[o[1]] = spent /\ \A q \in Txs \ {o[1]} : Spend(acc, o).coins[q] = acc.coins[q]
  BY <1>1, <1>2, <1>6 DEF CoinMaps
<1>10. entry = Entry(acc, o)
  BY DEF entry, Entry
<1> QED BY <1>6, <1>8, <1>9, <1>10 DEF spent

\* The inputs of a transaction are spent one after the other.
SpendRun(f, c, t) ==
    /\ f \in [0..Len(Vin[t]) -> SpendAcc] /\ f[0] = [coins |-> c, undo |-> <<>>]
    /\ \A i \in 1..Len(Vin[t]) : f[i] = Spend(f[i - 1], Vin[t][i])

LEMMA SpendTrace ==
    ASSUME NEW c \in CoinMaps, NEW t \in Txs
    PROVE  \E f : SpendRun(f, c, t) /\ Fold(Spend, [coins |-> c, undo |-> <<>>], Vin[t]) = f[Len(Vin[t])]
<1> DEFINE n == Len(Vin[t])
           A == SpendAcc
           from == [coins |-> c, undo |-> <<>>]
           Step(x, i) == Spend(x, Vin[t][i])
           Body(f, i) == IF i = 0 THEN from ELSE Step(f[i - 1], i)
           F == CHOOSE f : f = [i \in 0..n |-> Body(f, i)]
           g == [i \in 1..n |-> [x \in A |-> Step(x, i)]]
<1>1. n \in Nat /\ from \in A /\ \A x \in A : \A i \in 1..n : Step(x, i) \in A
  <2>1. <<>> \in Seq(CoinRec)
    OBVIOUS
  <2>2. from \in A
    BY <2>1 DEF SpendAcc
  <2> QED BY <2>2, VinType, SpendFacts
<1>2. Fold(Spend, [coins |-> c, undo |-> <<>>], Vin[t]) = F[n]
  BY DEF Fold
<1> HIDE DEF n, A, from, Step
<1>3. \E f : f = [i \in 0..n |-> Body(f, i)]
  <2>1. Maps(g, n, A)
    BY <1>1 DEF Maps
  <2> HIDE DEF g
  <2>2. PICK f : Runs(f, n, A, from, g)
    BY <1>1, <2>1, Iterates
  <2>3. \A i \in 1..n : i - 1 \in 0..n /\ f[i - 1] \in A
    BY <1>1, <2>2 DEF Runs
  <2>4. \A i \in 1..n : g[i][f[i - 1]] = Step(f[i - 1], i)
    BY <2>3 DEF g
  <2>5. \A i \in 0..n : f[i] = Body(f, i)
    <3>1. \A i \in 0..n : i = 0 \/ i \in 1..n
      BY <1>1
    <3> QED BY <2>2, <2>4, <3>1 DEF Runs
  <2>6. f = [i \in 0..n |-> f[i]]
    BY <2>2 DEF Runs
  <2> HIDE DEF Body
  <2> QED BY <2>5, <2>6
<1>4. F = [i \in 0..n |-> Body(F, i)]
  <2> HIDE DEF Body
  <2> QED BY <1>3
<1> HIDE DEF F
<1>5. F[0] = from /\ \A i \in 1..n : F[i] = Step(F[i - 1], i)
  <2>1. \A i \in 0..n : F[i] = Body(F, i)
    <3> HIDE DEF Body
    <3> QED BY <1>4
  <2>2. 0 \in 0..n /\ \A i \in 1..n : i \in 0..n /\ i # 0
    BY <1>1
  <2> QED BY <2>1, <2>2
<1>6. \A i \in 0..n : F[i] \in A
  <2> DEFINE S == {i \in 0..n : F[i] \in A}
  <2>1. 0 \in S
    BY <1>1, <1>5
  <2>2. ASSUME NEW i \in 0..n, i \in S, i < n PROVE i + 1 \in S
    <3>1. i + 1 \in 1..n /\ i + 1 \in 0..n /\ i + 1 - 1 = i
      BY <1>1, <2>2
    <3>2. F[i + 1] = Step(F[i], i + 1)
      BY <1>5, <3>1
    <3> QED BY <1>1, <2>2, <3>1, <3>2
  <2> HIDE DEF S
  <2>3. \A i \in 0..n : i \in S
    BY <1>1, <2>1, <2>2, Upwards
  <2> QED BY <2>3 DEF S
<1>7. F \in [0..n -> A]
  <2>1. F = [i \in 0..n |-> F[i]]
    BY <1>4
  <2> QED BY <1>6, <2>1
<1> QED BY <1>2, <1>5, <1>7 DEF n, A, from, Step, SpendRun

\* Height and flags of r are those of s.
Kept(r, s) == r.nHeight = s.nHeight /\ r.fCoinBase = s.fCoinBase /\ r.fCoinStake = s.fCoinStake

\* d are the coins c without the first i inputs of t.
Without(d, c, t, i) ==
    \A q \in Txs :
       /\ \A m \in Nat : m \in d[q].vout <=> m \in c[q].vout /\ \A k \in 1..i : Vin[t][k] # <<q, m>>
       /\ d[q].vout # {} => Kept(d[q], c[q])
       /\ d[q].vout = {} => d[q] \in {c[q], Pruned}

LEMMA SpendWithout ==
    ASSUME NEW acc \in SpendAcc, NEW c \in CoinMaps, NEW t \in Txs, NEW i \in Nat,
           i + 1 \in 1..Len(Vin[t]), Without(acc.coins, c, t, i)
    PROVE  Without(Spend(acc, Vin[t][i + 1]).coins, c, t, i + 1)
<1> DEFINE o == Vin[t][i + 1]
           d == acc.coins
           e == Spend(acc, o).coins
<1>1. o \in Txs \X Nat /\ o[1] \in Txs /\ o[2] \in Nat /\ o = <<o[1], o[2]>>
  BY VinType
<1>2. d \in CoinMaps
  BY DEF SpendAcc
<1>3. /\ \A q \in Txs \ {o[1]} : e[q] = d[q]
      /\ e[o[1]] = IF d[o[1]].vout \ {o[2]} = {} THEN Pruned
                   ELSE [d[o[1]] EXCEPT !.vout = d[o[1]].vout \ {o[2]}]
  BY <1>1, SpendFacts
<1>4. \A k : k \in 1..(i + 1) <=> k \in 1..i \/ k = i + 1
  OBVIOUS
<1> SUFFICES ASSUME NEW q \in Txs
             PROVE  /\ \A m \in Nat : m \in e[q].vout <=>
                          m \in c[q].vout /\ \A k \in 1..(i + 1) : Vin[t][k] # <<q, m>>
                    /\ e[q].vout # {} => Kept(e[q], c[q])
                    /\ e[q].vout = {} => e[q] \in {c[q], Pruned}
  BY DEF Without
<1>5. /\ \A m \in Nat : m \in d[q].vout <=> m \in c[q].vout /\ \A k \in 1..i : Vin[t][k] # <<q, m>>
      /\ d[q].vout # {} => Kept(d[q], c[q])
      /\ d[q].vout = {} => d[q] \in {c[q], Pruned}
  BY DEF Without
<1>6. d[q] \in CoinRec /\ d[q].vout \in SUBSET Nat
  BY <1>2 DEF CoinMaps, CoinRec
<1>7. CASE q # o[1]
  <2>1. e[q] = d[q]
    BY <1>3, <1>7
  <2>2. \A m \in Nat : o # <<q, m>>
    BY <1>1, <1>7
  <2> HIDE DEF e, d, o
  <2>3. \A m \in Nat : m \in e[q].vout <=>
                          m \in c[q].vout /\ \A k \in 1..(i + 1) : Vin[t][k] # <<q, m>>
    BY <1>4, <1>5, <2>1, <2>2 DEF o
  <2> QED BY <1>5, <2>1, <2>3
<1>8. CASE q = o[1]
  <2>1. \A m \in Nat : o = <<q, m>> <=> m = o[2]
    BY <1>1, <1>8
  <2>2. e[q].vout = d[q].vout \ {o[2]} /\ (e[q].vout # {} => Kept(e[q], d[q])) /\ (e[q].vout = {} => e[q] = Pruned)
    <3>1. CASE d[q].vout \ {o[2]} = {}
      BY <1>3, <1>8, <3>1, PrunedType
    <3>2. CASE d[q].vout \ {o[2]} # {}
      <4>1. e[q] = [d[q] EXCEPT !.vout = d[q].vout \ {o[2]}]
        BY <1>3, <1>8, <3>2
      <4> HIDE DEF e, d, o
      <4> QED BY <1>6, <3>2, <4>1 DEF CoinRec, Kept
    <3> QED BY <3>1, <3>2
  <2> HIDE DEF e, d, o
  <2>3. \A m \in Nat : m \in e[q].vout <=>
                          m \in c[q].vout /\ \A k \in 1..(i + 1) : Vin[t][k] # <<q, m>>
    BY <1>4, <1>5, <2>1, <2>2 DEF o
  <2>4. e[q].vout # {} => d[q].vout # {}
    BY <2>2
  <2> QED BY <1>5, <2>2, <2>3, <2>4 DEF Kept
<1> QED BY <1>7, <1>8

LEMMA RunWithout ==
    ASSUME NEW c \in CoinMaps, NEW t \in Txs, NEW f, SpendRun(f, c, t)
    PROVE  \A i \in 0..Len(Vin[t]) : f[i] \in SpendAcc /\ Without(f[i].coins, c, t, i)
<1> DEFINE n == Len(Vin[t])
           S == {i \in 0..n : Without(f[i].coins, c, t, i)}
<1>1. n \in Nat /\ \A i \in 0..n : f[i] \in SpendAcc
  BY VinType DEF SpendRun
<1>2. 0 \in S
  <2>1. f[0].coins = c
    BY DEF SpendRun
  <2>2. \A k \in 1..0 : FALSE
    OBVIOUS
  <2>3. Without(c, c, t, 0)
    BY <2>2 DEF Without, Kept
  <2> QED BY <1>1, <2>1, <2>3
<1>3. ASSUME NEW i \in 0..n, i \in S, i < n PROVE i + 1 \in S
  <2>1. i \in Nat /\ i + 1 \in 1..n /\ i + 1 \in 0..n /\ i + 1 - 1 = i
    BY <1>1, <1>3
  <2>2. f[i + 1] = Spend(f[i], Vin[t][i + 1])
    BY <2>1 DEF SpendRun
  <2> QED BY <1>1, <1>3, <2>1, <2>2, SpendWithout
<1> HIDE DEF S
<1>4. \A i \in 0..n : i \in S
  BY <1>1, <1>2, <1>3, Upwards
<1> QED BY <1>1, <1>4 DEF S

LEMMA RunUndo ==
    ASSUME NEW c \in CoinMaps, NEW t \in Txs, NEW f, SpendRun(f, c, t)
    PROVE  \A i \in 0..Len(Vin[t]) :
              Len(f[i].undo) = i /\ \A k \in 1..i : f[i].undo[k] = Entry(f[k - 1], Vin[t][k])
<1> DEFINE n == Len(Vin[t])
           S == {i \in 0..n : Len(f[i].undo) = i /\ \A k \in 1..i : f[i].undo[k] = Entry(f[k - 1], Vin[t][k])}
<1>1. n \in Nat /\ \A i \in 0..n : f[i] \in SpendAcc
  BY VinType DEF SpendRun
<1>2. 0 \in S
  <2>1. f[0].undo = <<>>
    BY DEF SpendRun
  <2>2. \A k \in 1..0 : FALSE
    OBVIOUS
  <2>3. Len(f[0].undo) = 0
    BY <2>1
  <2> QED BY <1>1, <2>2, <2>3
<1>3. ASSUME NEW i \in 0..n, i \in S, i < n PROVE i + 1 \in S
  <2>1. i \in Nat /\ i + 1 \in 1..n /\ i + 1 \in 0..n /\ i + 1 - 1 = i
    BY <1>1, <1>3
  <2>2. f[i + 1] = Spend(f[i], Vin[t][i + 1]) /\ f[i].undo \in Seq(CoinRec)
    BY <1>1, <2>1 DEF SpendRun, SpendAcc
  <2>3. f[i + 1].undo = Append(f[i].undo, Entry(f[i], Vin[t][i + 1]))
    <3>1. f[i] \in SpendAcc /\ Vin[t][i + 1] \in Txs \X Nat
      BY <1>1, <2>1, VinType
    <3>2. Spend(f[i], Vin[t][i + 1]).undo = Append(f[i].undo, Entry(f[i], Vin[t][i + 1]))
      BY <3>1, SpendFacts
    <3> QED BY <2>2, <3>2
  <2>4. Len(f[i].undo) = i /\ \A k \in 1..i : f[i].undo[k] = Entry(f[k - 1], Vin[t][k])
    BY <1>3
  <2>5. Len(f[i + 1].undo) = i + 1
    BY <2>2, <2>3, <2>4
  <2>6. ASSUME NEW k \in 1..(i + 1) PROVE f[i + 1].undo[k] = Entry(f[k - 1], Vin[t][k])
    <3>1. CASE k = i + 1
      BY <2>1, <2>2, <2>3, <2>4, <3>1
    <3>2. CASE k # i + 1
      <4>1. k \in 1..i
        BY <2>1, <3>2
      <4> QED BY <2>2, <2>3, <2>4, <4>1
    <3> QED BY <3>1, <3>2
  <2> QED BY <2>1, <2>5, <2>6
<1> HIDE DEF S
<1>4. \A i \in 0..n : i \in S
  BY <1>1, <1>2, <1>3, Upwards
<1> QED BY <1>4 DEF S

\* f spends the inputs of t, and then its outputs come into being.
Updates(f, c, t, h) ==
    /\ SpendRun(f, c, t)
    /\ UpdateCoins(c, t, h).coins = [f[Len(Vin[t])].coins EXCEPT ![t] = FromTx(t, h)]
    /\ UpdateCoins(c, t, h).undo = f[Len(Vin[t])].undo

LEMMA UpdateFacts ==
    ASSUME NEW c \in CoinMaps, NEW t \in Txs, NEW h \in Nat
    PROVE  \E f : Updates(f, c, t, h)
<1>1. PICK f : SpendRun(f, c, t) /\ Fold(Spend, [coins |-> c, undo |-> <<>>], Vin[t]) = f[Len(Vin[t])]
  BY SpendTrace
<1> DEFINE a == f[Len(Vin[t])]
<1>2. a \in SpendAcc
  BY <1>1, VinType DEF SpendRun
<1>3. UpdateCoins(c, t, h) = [a EXCEPT !.coins[t] = FromTx(t, h)]
  BY <1>1 DEF UpdateCoins
<1> HIDE DEF a
<1>4. UpdateCoins(c, t, h).coins = [a.coins EXCEPT ![t] = FromTx(t, h)] /\ UpdateCoins(c, t, h).undo = a.undo
  BY <1>2, <1>3 DEF SpendAcc
<1> QED BY <1>1, <1>4 DEF a, Updates

\* r and s agree in everything but the coinstake flag; so do the coins c and d.
Alike(r, s) == r.vout = s.vout /\ r.nHeight = s.nHeight /\ r.fCoinBase = s.fCoinBase
Same(c, d) == \A q \in Txs : Alike(c[q], d[q])

\* Coins as the code keeps them at height h: a transaction without unspent
\* outputs is pruned, the others know their height.
WF(c, h) ==
    \A q \in Txs : /\ c[q].vout \subseteq 0..(NOut[q] - 1)
                   /\ c[q].vout = {} => Alike(c[q], Pruned)
                   /\ c[q].vout # {} => c[q].nHeight \in 1..h

LEMMA PrevoutsRange ==
    ASSUME NEW t \in Txs
    PROVE  /\ Prevouts(t) \subseteq Txs \X Nat
           /\ \A o \in Prevouts(t) : o[1] \in Txs /\ o[2] \in Nat /\ o = <<o[1], o[2]>> /\ o[1] \in ParentTxs(t)
           /\ \A o : o \in Prevouts(t) <=> \E k \in 1..Len(Vin[t]) : Vin[t][k] = o
<1>1. \A o : o \in Prevouts(t) <=> \E k \in 1..Len(Vin[t]) : Vin[t][k] = o
  BY DEF Prevouts
<1>2. Prevouts(t) \subseteq Txs \X Nat
  BY <1>1, VinType
<1>3. \A o \in Prevouts(t) : o[1] \in ParentTxs(t)
  BY DEF ParentTxs
<1> QED BY <1>1, <1>2, <1>3

LEMMA UpdateSummary ==
    ASSUME NEW c \in CoinMaps, NEW t \in Txs, NEW h \in Nat
    PROVE  /\ UpdateCoins(c, t, h).coins \in CoinMaps
           /\ UpdateCoins(c, t, h).coins[t] = FromTx(t, h)
           /\ \A q \in Txs \ {t} :
                 /\ \A m \in Nat : m \in UpdateCoins(c, t, h).coins[q].vout <=>
                                      m \in c[q].vout /\ <<q, m>> \notin Prevouts(t)
                 /\ UpdateCoins(c, t, h).coins[q].vout # {} => Kept(UpdateCoins(c, t, h).coins[q], c[q])
                 /\ UpdateCoins(c, t, h).coins[q].vout = {} =>
                       UpdateCoins(c, t, h).coins[q] \in {c[q], Pruned}
<1> DEFINE e == UpdateCoins(c, t, h).coins
           n == Len(Vin[t])
<1>1. PICK f : Updates(f, c, t, h)
  BY UpdateFacts
<1>2. n \in Nat /\ n \in 0..n
  BY VinType
<1>3. f[n] \in SpendAcc /\ Without(f[n].coins, c, t, n)
  BY <1>1, <1>2, RunWithout DEF Updates
<1>4. f[n].coins \in CoinMaps
  BY <1>3 DEF SpendAcc
<1>5. e \in CoinMaps /\ e[t] = FromTx(t, h) /\ \A q \in Txs \ {t} : e[q] = f[n].coins[q]
  BY <1>1, <1>4, FromTxType DEF CoinMaps, Updates
<1>6. ASSUME NEW q \in Txs \ {t}
      PROVE  /\ \A m \in Nat : m \in e[q].vout <=> m \in c[q].vout /\ <<q, m>> \notin Prevouts(t)
             /\ e[q].vout # {} => Kept(e[q], c[q])
             /\ e[q].vout = {} => e[q] \in {c[q], Pruned}
  <2>1. e[q] = f[n].coins[q]
    BY <1>5
  <2>2. /\ \A m \in Nat : m \in e[q].vout <=> m \in c[q].vout /\ \A k \in 1..n : Vin[t][k] # <<q, m>>
        /\ e[q].vout # {} => Kept(e[q], c[q])
        /\ e[q].vout = {} => e[q] \in {c[q], Pruned}
    BY <1>3, <2>1 DEF Without
  <2>3. \A m \in Nat : <<q, m>> \in Prevouts(t) <=> \E k \in 1..n : Vin[t][k] = <<q, m>>
    BY PrevoutsRange
  <2> QED BY <2>2, <2>3
<1> QED BY <1>5, <1>6 DEF e

LEMMA WithoutWF ==
    ASSUME NEW c \in CoinMaps, NEW d \in CoinMaps, NEW t \in Txs, NEW i, NEW h \in Nat,
           WF(c, h), Without(d, c, t, i)
    PROVE  WF(d, h)
<1> SUFFICES ASSUME NEW q \in Txs
             PROVE  /\ d[q].vout \subseteq 0..(NOut[q] - 1)
                    /\ d[q].vout = {} => Alike(d[q], Pruned)
                    /\ d[q].vout # {} => d[q].nHeight \in 1..h
  BY DEF WF
<1>1. d[q].vout \subseteq Nat /\ c[q].vout \subseteq Nat
  BY DEF CoinMaps, CoinRec
<1>2. d[q].vout \subseteq c[q].vout
  BY <1>1 DEF Without
<1>3. /\ c[q].vout \subseteq 0..(NOut[q] - 1)
      /\ c[q].vout = {} => Alike(c[q], Pruned)
      /\ c[q].vout # {} => c[q].nHeight \in 1..h
  BY DEF WF
<1>4. d[q].vout # {} => Kept(d[q], c[q])
  BY DEF Without
<1>5. d[q].vout = {} => d[q] \in {c[q], Pruned}
  BY DEF Without
<1>6. d[q].vout # {} => c[q].vout # {} /\ d[q].nHeight = c[q].nHeight
  BY <1>2, <1>4 DEF Kept
<1>7. d[q].vout = {} => Alike(d[q], Pruned)
  <2>1. Alike(Pruned, Pruned)
    BY DEF Alike
  <2> QED BY <1>3, <1>5, <2>1
<1> QED BY <1>2, <1>3, <1>6, <1>7

LEMMA UpdateWF ==
    ASSUME NEW c \in CoinMaps, NEW t \in Txs, NEW h \in Nat \ {0}, WF(c, h)
    PROVE  WF(UpdateCoins(c, t, h).coins, h)
<1> DEFINE e == UpdateCoins(c, t, h).coins
           n == Len(Vin[t])
<1>1. PICK f : Updates(f, c, t, h)
  BY UpdateFacts
<1>2. n \in Nat /\ n \in 0..n
  BY VinType
<1>3. f[n] \in SpendAcc /\ Without(f[n].coins, c, t, n)
  BY <1>1, <1>2, RunWithout DEF Updates
<1>4. f[n].coins \in CoinMaps
  BY <1>3 DEF SpendAcc
<1>5. WF(f[n].coins, h)
  BY <1>3, <1>4, WithoutWF
<1>6. e[t] = FromTx(t, h) /\ \A q \in Txs \ {t} : e[q] = f[n].coins[q]
  BY <1>1, <1>4 DEF CoinMaps, Updates
<1>7. /\ FromTx(t, h).vout = 0..(NOut[t] - 1) /\ FromTx(t, h).vout # {}
      /\ FromTx(t, h).nHeight \in 1..h
  <2>1. NOut[t] \in Nat \ {0}
    BY MempoolAssumption
  <2>2. 0 \in 0..(NOut[t] - 1)
    BY <2>1
  <2>3. FromTx(t, h).vout = 0..(NOut[t] - 1) /\ FromTx(t, h).nHeight = h
    BY FromTxType
  <2>4. h \in 1..h
    OBVIOUS
  <2> QED BY <2>2, <2>3, <2>4
<1>8. WF(e, h)
  BY <1>5, <1>6, <1>7 DEF WF
<1> QED BY <1>8 DEF e

LEMMA WithoutSame ==
    ASSUME NEW c \in CoinMaps, NEW d \in CoinMaps, NEW a \in CoinMaps, NEW b \in CoinMaps,
           NEW t \in Txs, NEW i, NEW h \in Nat, WF(c, h), WF(d, h), Same(c, d),
           Without(a, c, t, i), Without(b, d, t, i)
    PROVE  Same(a, b)
<1> SUFFICES ASSUME NEW q \in Txs PROVE Alike(a[q], b[q])
  BY DEF Same
<1>1. WF(a, h) /\ WF(b, h)
  BY WithoutWF
<1>2. Alike(c[q], d[q])
  BY DEF Same
<1>3. a[q].vout \subseteq Nat /\ b[q].vout \subseteq Nat
  BY DEF CoinMaps, CoinRec
<1>4. /\ \A m \in Nat : m \in a[q].vout <=> m \in c[q].vout /\ \A k \in 1..i : Vin[t][k] # <<q, m>>
      /\ \A m \in Nat : m \in b[q].vout <=> m \in d[q].vout /\ \A k \in 1..i : Vin[t][k] # <<q, m>>
  BY DEF Without
<1>5. a[q].vout = b[q].vout
  BY <1>2, <1>3, <1>4 DEF Alike
<1>6. CASE a[q].vout = {}
  <2>1. Alike(a[q], Pruned) /\ Alike(b[q], Pruned)
    BY <1>1, <1>5, <1>6 DEF WF
  <2> QED BY <2>1 DEF Alike
<1>7. CASE a[q].vout # {}
  <2>1. Kept(a[q], c[q]) /\ Kept(b[q], d[q])
    BY <1>5, <1>7 DEF Without
  <2> QED BY <1>2, <1>5, <2>1 DEF Alike, Kept
<1> QED BY <1>6, <1>7

\* Two spends of the same input from coins that are alike.
LEMMA EntrySame ==
    ASSUME NEW a \in SpendAcc, NEW b \in SpendAcc, NEW o \in Txs \X Nat, Same(a.coins, b.coins)
    PROVE  Alike(Entry(a, o), Entry(b, o)) /\ Entry(a, o) \in CoinRec /\ Entry(b, o) \in CoinRec
<1> DEFINE c == a.coins[o[1]]
           d == b.coins[o[1]]
<1>1. o[1] \in Txs /\ o[2] \in Nat
  OBVIOUS
<1>2. c \in CoinRec /\ d \in CoinRec
  BY <1>1 DEF SpendAcc, CoinMaps
<1>3. Alike(c, d)
  BY <1>1 DEF Same
<1>4. /\ Entry(a, o) = IF c.vout \ {o[2]} = {} THEN [c EXCEPT !.vout = {o[2]}] ELSE [Pruned EXCEPT !.vout = {o[2]}]
      /\ Entry(b, o) = IF d.vout \ {o[2]} = {} THEN [d EXCEPT !.vout = {o[2]}] ELSE [Pruned EXCEPT !.vout = {o[2]}]
  BY DEF Entry
<1> HIDE DEF c, d
<1>5. {o[2]} \in SUBSET Nat
  BY <1>1
<1>6. [c EXCEPT !.vout = {o[2]}] \in CoinRec /\ [d EXCEPT !.vout = {o[2]}] \in CoinRec
      /\ [Pruned EXCEPT !.vout = {o[2]}] \in CoinRec
  BY <1>2, <1>5, PrunedType DEF CoinRec
<1>7. Alike([c EXCEPT !.vout = {o[2]}], [d EXCEPT !.vout = {o[2]}])
  BY <1>2, <1>3 DEF Alike, CoinRec
<1>8. c.vout = d.vout
  BY <1>3 DEF Alike
<1>9. \A r : Alike(r, r)
  BY DEF Alike
<1> QED BY <1>4, <1>6, <1>7, <1>8, <1>9

\* UpdateCoins does the same to coins that are alike.
LEMMA UpdateSame ==
    ASSUME NEW c \in CoinMaps, NEW d \in CoinMaps, NEW t \in Txs, NEW h \in Nat,
           WF(c, h), WF(d, h), Same(c, d)
    PROVE  /\ Same(UpdateCoins(c, t, h).coins, UpdateCoins(d, t, h).coins)
           /\ \A j \in 1..Len(Vin[t]) :
                 /\ UpdateCoins(c, t, h).undo[j] \in CoinRec
                 /\ Alike(UpdateCoins(c, t, h).undo[j], UpdateCoins(d, t, h).undo[j])
<1> DEFINE n == Len(Vin[t])
           x == UpdateCoins(c, t, h)
           y == UpdateCoins(d, t, h)
<1>1. PICK f : Updates(f, c, t, h)
  BY UpdateFacts
<1>2. PICK g : Updates(g, d, t, h)
  BY UpdateFacts
<1>3. n \in Nat /\ n \in 0..n
  BY VinType
<1>4. \A i \in 0..n : f[i] \in SpendAcc /\ g[i] \in SpendAcc /\ Same(f[i].coins, g[i].coins)
  <2> SUFFICES ASSUME NEW i \in 0..n PROVE f[i] \in SpendAcc /\ g[i] \in SpendAcc /\ Same(f[i].coins, g[i].coins)
    OBVIOUS
  <2>1. f[i] \in SpendAcc /\ Without(f[i].coins, c, t, i) /\ g[i] \in SpendAcc /\ Without(g[i].coins, d, t, i)
    BY <1>1, <1>2, RunWithout DEF Updates
  <2>2. f[i].coins \in CoinMaps /\ g[i].coins \in CoinMaps
    BY <2>1 DEF SpendAcc
  <2> QED BY <2>1, <2>2, WithoutSame
<1>5. Same(x.coins, y.coins)
  <2>1. f[n].coins \in CoinMaps /\ g[n].coins \in CoinMaps /\ Same(f[n].coins, g[n].coins)
    BY <1>3, <1>4 DEF SpendAcc
  <2>2. \A r : Alike(r, r)
    BY DEF Alike
  <2> QED BY <1>1, <1>2, <2>1, <2>2 DEF Same, CoinMaps, Updates
<1>6. ASSUME NEW j \in 1..n PROVE x.undo[j] \in CoinRec /\ Alike(x.undo[j], y.undo[j])
  <2>1. x.undo[j] = Entry(f[j - 1], Vin[t][j]) /\ y.undo[j] = Entry(g[j - 1], Vin[t][j])
    BY <1>1, <1>2, <1>3, RunUndo, SMTT(30) DEF Updates
  <2>2. j - 1 \in 0..n
    BY <1>3
  <2>3. Vin[t][j] \in Txs \X Nat
    BY VinType
  <2>4. f[j - 1] \in SpendAcc /\ g[j - 1] \in SpendAcc /\ Same(f[j - 1].coins, g[j - 1].coins)
    BY <1>4, <2>2
  <2> QED BY <2>1, <2>3, <2>4, EntrySame
<1> QED BY <1>5, <1>6 DEF x, y

LEMMA VtxType ==
    ASSUME NEW b \in Blocks
    PROVE  Len(Vtx[b]) \in Nat /\ \A i \in 1..Len(Vtx[b]) : Vtx[b][i] \in Txs
<1>1. Vtx[b] \in Seq(Txs)
  BY MempoolAssumption
<1> QED BY <1>1

LEMMA UpdateUndoType ==
    ASSUME NEW c \in CoinMaps, NEW t \in Txs, NEW h \in Nat
    PROVE  UpdateCoins(c, t, h).undo \in Seq(CoinRec)
<1>1. PICK f : Updates(f, c, t, h)
  BY UpdateFacts
<1>2. Len(Vin[t]) \in 0..Len(Vin[t])
  BY VinType
<1>3. f[Len(Vin[t])] \in SpendAcc
  BY <1>1, <1>2 DEF Updates, SpendRun
<1> QED BY <1>1, <1>3 DEF Updates, SpendAcc

\* The transactions of a block are applied one after the other.
ApplyRun(f, c, b, h) ==
    /\ f \in [0..Len(Vtx[b]) -> CoinMaps] /\ f[0] = c
    /\ \A i \in 1..Len(Vtx[b]) : f[i] = UpdateCoins(f[i - 1], Vtx[b][i], h).coins

LEMMA ApplyTrace ==
    ASSUME NEW c \in CoinMaps, NEW b \in Blocks, NEW h \in Nat
    PROVE  \E f : ApplyRun(f, c, b, h) /\ ApplyTxs(c, b, h) = f[Len(Vtx[b])]
<1> DEFINE n == Len(Vtx[b])
           A == CoinMaps
           from == c
           Step(x, i) == UpdateCoins(x, Vtx[b][i], h).coins
           Body(f, i) == IF i = 0 THEN from ELSE Step(f[i - 1], i)
           F == CHOOSE f : f = [i \in 0..n |-> Body(f, i)]
           g == [i \in 1..n |-> [x \in A |-> Step(x, i)]]
<1>1. n \in Nat /\ from \in A /\ \A x \in A : \A i \in 1..n : Step(x, i) \in A
  BY VtxType, UpdateSummary
<1>2. ApplyTxs(c, b, h) = F[n]
  BY DEF Fold, ApplyTxs
<1> HIDE DEF n, A, from, Step
<1>3. \E f : f = [i \in 0..n |-> Body(f, i)]
  <2>1. Maps(g, n, A)
    BY <1>1 DEF Maps
  <2> HIDE DEF g
  <2>2. PICK f : Runs(f, n, A, from, g)
    BY <1>1, <2>1, Iterates
  <2>3. \A i \in 1..n : i - 1 \in 0..n /\ f[i - 1] \in A
    BY <1>1, <2>2 DEF Runs
  <2>4. \A i \in 1..n : g[i][f[i - 1]] = Step(f[i - 1], i)
    BY <2>3 DEF g
  <2>5. \A i \in 0..n : f[i] = Body(f, i)
    <3>1. \A i \in 0..n : i = 0 \/ i \in 1..n
      BY <1>1
    <3> QED BY <2>2, <2>4, <3>1 DEF Runs
  <2>6. f = [i \in 0..n |-> f[i]]
    BY <2>2 DEF Runs
  <2> HIDE DEF Body
  <2> QED BY <2>5, <2>6
<1>4. F = [i \in 0..n |-> Body(F, i)]
  <2> HIDE DEF Body
  <2> QED BY <1>3
<1> HIDE DEF F
<1>5. F[0] = from /\ \A i \in 1..n : F[i] = Step(F[i - 1], i)
  <2>1. \A i \in 0..n : F[i] = Body(F, i)
    <3> HIDE DEF Body
    <3> QED BY <1>4
  <2>2. 0 \in 0..n /\ \A i \in 1..n : i \in 0..n /\ i # 0
    BY <1>1
  <2> QED BY <2>1, <2>2
<1>6. \A i \in 0..n : F[i] \in A
  <2> DEFINE S == {i \in 0..n : F[i] \in A}
  <2>1. 0 \in S
    BY <1>1, <1>5
  <2>2. ASSUME NEW i \in 0..n, i \in S, i < n PROVE i + 1 \in S
    <3>1. i + 1 \in 1..n /\ i + 1 \in 0..n /\ i + 1 - 1 = i
      BY <1>1, <2>2
    <3>2. F[i + 1] = Step(F[i], i + 1)
      BY <1>5, <3>1
    <3> QED BY <1>1, <2>2, <3>1, <3>2
  <2> HIDE DEF S
  <2>3. \A i \in 0..n : i \in S
    BY <1>1, <2>1, <2>2, Upwards
  <2> QED BY <2>3 DEF S
<1>7. F \in [0..n -> A]
  <2>1. F = [i \in 0..n |-> F[i]]
    BY <1>4
  <2> QED BY <1>6, <2>1
<1> QED BY <1>2, <1>5, <1>7 DEF n, A, from, Step, ApplyRun

\* The states of a run of ConnectBlock.
ConnectAcc == [ok : BOOLEAN, coins : CoinMaps, undo : Seq(Seq(CoinRec))]

\* The inputs of t are there, and old enough.
Spendable(c, t, h) ==
    /\ \A o \in Prevouts(t) : IsAvailable(c, o)
    /\ t \in CoinStakes => \A p \in ParentTxs(t) : h - c[p].nHeight >= COINBASE_MATURITY
    /\ Mature(c, t, h)

LEMMA ConnectTxFacts ==
    ASSUME NEW acc \in ConnectAcc, NEW t \in Txs, NEW h \in Nat
    PROVE  /\ ConnectTx(acc, t, h) \in ConnectAcc
           /\ ConnectTx(acc, t, h).ok =>
                 /\ acc.ok /\ Spendable(acc.coins, t, h)
                 /\ ConnectTx(acc, t, h).coins = UpdateCoins(acc.coins, t, h).coins
                 /\ ConnectTx(acc, t, h).undo = Append(acc.undo, UpdateCoins(acc.coins, t, h).undo)
<1> DEFINE new == UpdateCoins(acc.coins, t, h)
           good == [ok |-> TRUE, coins |-> new.coins, undo |-> Append(acc.undo, new.undo)]
           bad == [acc EXCEPT !.ok = FALSE]
<1>1. acc.coins \in CoinMaps /\ acc.undo \in Seq(Seq(CoinRec)) /\ acc.ok \in BOOLEAN
  BY DEF ConnectAcc
<1>2. new.coins \in CoinMaps /\ new.undo \in Seq(CoinRec)
  BY <1>1, UpdateSummary, UpdateUndoType
<1>3. ConnectTx(acc, t, h) = IF acc.ok /\ Spendable(acc.coins, t, h) THEN good ELSE bad
  BY DEF ConnectTx, Spendable
<1> HIDE DEF new
<1>4. good \in ConnectAcc /\ bad \in ConnectAcc /\ ~bad.ok
  <2>1. Append(acc.undo, new.undo) \in Seq(Seq(CoinRec))
    BY <1>1, <1>2
  <2>2. good \in ConnectAcc
    BY <1>2, <2>1 DEF ConnectAcc
  <2>3. bad \in ConnectAcc
    BY DEF ConnectAcc
  <2>4. bad.ok = FALSE
    BY DEF ConnectAcc
  <2> QED BY <2>2, <2>3, <2>4
<1>5. good.coins = new.coins /\ good.undo = Append(acc.undo, new.undo)
  OBVIOUS
<1> HIDE DEF good, bad
<1> QED BY <1>3, <1>4, <1>5 DEF new

\* BIP30: no transaction of b has unspent outputs in c.
Fresh(c, b) == \A i \in 1..Len(Vtx[b]) : ~HaveCoins(c, Vtx[b][i])

\* ConnectBlock connects them one after the other.
ConnectRun(f, c, b, h) ==
    /\ f \in [0..Len(Vtx[b]) -> ConnectAcc] /\ f[0] = [ok |-> Fresh(c, b), coins |-> c, undo |-> <<>>]
    /\ \A i \in 1..Len(Vtx[b]) : f[i] = ConnectTx(f[i - 1], Vtx[b][i], h)

LEMMA ConnectTrace ==
    ASSUME NEW c \in CoinMaps, NEW b \in Blocks, NEW h \in Nat
    PROVE  \E f : ConnectRun(f, c, b, h) /\ ConnectBlock(c, b, h) = f[Len(Vtx[b])]
<1> DEFINE n == Len(Vtx[b])
           A == ConnectAcc
           from == [ok |-> Fresh(c, b), coins |-> c, undo |-> <<>>]
           Step(x, i) == ConnectTx(x, Vtx[b][i], h)
           Body(f, i) == IF i = 0 THEN from ELSE Step(f[i - 1], i)
           F == CHOOSE f : f = [i \in 0..n |-> Body(f, i)]
           g == [i \in 1..n |-> [x \in A |-> Step(x, i)]]
<1>1. n \in Nat /\ from \in A /\ \A x \in A : \A i \in 1..n : Step(x, i) \in A
  <2>1. <<>> \in Seq(Seq(CoinRec)) /\ Fresh(c, b) \in BOOLEAN
    BY DEF Fresh
  <2>2. from \in A
    BY <2>1 DEF ConnectAcc
  <2> QED BY <2>2, VtxType, ConnectTxFacts
<1>2. ConnectBlock(c, b, h) = F[n]
  BY DEF Fold, ConnectBlock, Fresh
<1> HIDE DEF n, A, from, Step
<1>3. \E f : f = [i \in 0..n |-> Body(f, i)]
  <2>1. Maps(g, n, A)
    BY <1>1 DEF Maps
  <2> HIDE DEF g
  <2>2. PICK f : Runs(f, n, A, from, g)
    BY <1>1, <2>1, Iterates
  <2>3. \A i \in 1..n : i - 1 \in 0..n /\ f[i - 1] \in A
    BY <1>1, <2>2 DEF Runs
  <2>4. \A i \in 1..n : g[i][f[i - 1]] = Step(f[i - 1], i)
    BY <2>3 DEF g
  <2>5. \A i \in 0..n : f[i] = Body(f, i)
    <3>1. \A i \in 0..n : i = 0 \/ i \in 1..n
      BY <1>1
    <3> QED BY <2>2, <2>4, <3>1 DEF Runs
  <2>6. f = [i \in 0..n |-> f[i]]
    BY <2>2 DEF Runs
  <2> HIDE DEF Body
  <2> QED BY <2>5, <2>6
<1>4. F = [i \in 0..n |-> Body(F, i)]
  <2> HIDE DEF Body
  <2> QED BY <1>3
<1> HIDE DEF F
<1>5. F[0] = from /\ \A i \in 1..n : F[i] = Step(F[i - 1], i)
  <2>1. \A i \in 0..n : F[i] = Body(F, i)
    <3> HIDE DEF Body
    <3> QED BY <1>4
  <2>2. 0 \in 0..n /\ \A i \in 1..n : i \in 0..n /\ i # 0
    BY <1>1
  <2> QED BY <2>1, <2>2
<1>6. \A i \in 0..n : F[i] \in A
  <2> DEFINE S == {i \in 0..n : F[i] \in A}
  <2>1. 0 \in S
    BY <1>1, <1>5
  <2>2. ASSUME NEW i \in 0..n, i \in S, i < n PROVE i + 1 \in S
    <3>1. i + 1 \in 1..n /\ i + 1 \in 0..n /\ i + 1 - 1 = i
      BY <1>1, <2>2
    <3>2. F[i + 1] = Step(F[i], i + 1)
      BY <1>5, <3>1
    <3> QED BY <1>1, <2>2, <3>1, <3>2
  <2> HIDE DEF S
  <2>3. \A i \in 0..n : i \in S
    BY <1>1, <2>1, <2>2, Upwards
  <2> QED BY <2>3 DEF S
<1>7. F \in [0..n -> A]
  <2>1. F = [i \in 0..n |-> F[i]]
    BY <1>4
  <2> QED BY <1>6, <2>1
<1> QED BY <1>2, <1>5, <1>7 DEF n, A, from, Step, ConnectRun

\* The block b can be connected to the coins c, and f are the coins after
\* each of its transactions.
ValidRun(f, c, b, h) ==
    /\ ApplyRun(f, c, b, h) /\ Fresh(c, b)
    /\ \A k \in 1..Len(Vtx[b]) : \A o \in Prevouts(Vtx[b][k]) : IsAvailable(f[k - 1], o)

\* u is the undo data of that run.
MadeUndo(u, f, b, h) ==
    \A k \in 1..Len(Vtx[b]) : u[k] = UpdateCoins(f[k - 1], Vtx[b][k], h).undo

\* What ConnectBlock has done when it succeeds.
Connected(f, c, b, h) ==
    /\ ValidRun(f, c, b, h)
    /\ ConnectBlock(c, b, h).coins = f[Len(Vtx[b])]
    /\ MadeUndo(ConnectBlock(c, b, h).undo, f, b, h)

LEMMA ConnectFacts ==
    ASSUME NEW c \in CoinMaps, NEW b \in Blocks, NEW h \in Nat, ConnectBlock(c, b, h).ok
    PROVE  \E f : Connected(f, c, b, h)
<1> DEFINE n == Len(Vtx[b])
<1>1. PICK F : ConnectRun(F, c, b, h) /\ ConnectBlock(c, b, h) = F[n]
  BY ConnectTrace
<1>2. n \in Nat /\ n \in 0..n
  BY VtxType
<1> DEFINE Good(i) == /\ F[i].ok => Fresh(c, b)
                      /\ F[i].ok => \A k \in 1..i :
                            /\ F[k].coins = UpdateCoins(F[k - 1].coins, Vtx[b][k], h).coins
                            /\ Spendable(F[k - 1].coins, Vtx[b][k], h)
                      /\ F[i].ok => /\ Len(F[i].undo) = i
                                    /\ \A k \in 1..i : F[i].undo[k] = UpdateCoins(F[k - 1].coins, Vtx[b][k], h).undo
           S == {i \in 0..n : Good(i)}
<1>3. 0 \in S
  <2>1. F[0] = [ok |-> Fresh(c, b), coins |-> c, undo |-> <<>>]
    BY <1>1 DEF ConnectRun
  <2>2. (F[0].ok => Fresh(c, b)) /\ F[0].undo = <<>>
    BY <2>1
  <2>3. Len(F[0].undo) = 0 /\ \A k \in 1..0 : FALSE
    BY <2>2
  <2> QED BY <1>2, <2>2, <2>3
<1>4. ASSUME NEW i \in 0..n, i \in S, i < n PROVE i + 1 \in S
  <2>1. i \in Nat /\ i + 1 \in 1..n /\ i + 1 \in 0..n /\ i + 1 - 1 = i
    BY <1>2, <1>4
  <2>2. F[i + 1] = ConnectTx(F[i], Vtx[b][i + 1], h) /\ F[i] \in ConnectAcc /\ Vtx[b][i + 1] \in Txs
    <3>1. \A k \in 1..n : F[k] = ConnectTx(F[k - 1], Vtx[b][k], h)
      BY <1>1 DEF ConnectRun
    <3>2. F[i] \in ConnectAcc
      BY <1>1 DEF ConnectRun
    <3>3. Vtx[b][i + 1] \in Txs
      BY <2>1, VtxType
    <3> QED BY <2>1, <3>1, <3>2, <3>3
  <2> SUFFICES ASSUME F[i + 1].ok PROVE Good(i + 1)
    BY <2>1
  <2>3. /\ F[i].ok /\ Spendable(F[i].coins, Vtx[b][i + 1], h)
        /\ F[i + 1].coins = UpdateCoins(F[i].coins, Vtx[b][i + 1], h).coins
        /\ F[i + 1].undo = Append(F[i].undo, UpdateCoins(F[i].coins, Vtx[b][i + 1], h).undo)
    <3> DEFINE t == Vtx[b][i + 1]
    <3>1. ConnectTx(F[i], t, h).ok =>
                 /\ F[i].ok /\ Spendable(F[i].coins, t, h)
                 /\ ConnectTx(F[i], t, h).coins = UpdateCoins(F[i].coins, t, h).coins
                 /\ ConnectTx(F[i], t, h).undo = Append(F[i].undo, UpdateCoins(F[i].coins, t, h).undo)
      BY <2>2, ConnectTxFacts
    <3> QED BY <2>2, <3>1
  <2>4. Good(i)
    BY <1>4
  <2>5. F[i].undo \in Seq(Seq(CoinRec))
    BY <2>2 DEF ConnectAcc
  <2>6. \A k \in 1..(i + 1) : k = i + 1 \/ k \in 1..i
    BY <2>1
  <2>7. \A k \in 1..(i + 1) :
            /\ F[k].coins = UpdateCoins(F[k - 1].coins, Vtx[b][k], h).coins
            /\ Spendable(F[k - 1].coins, Vtx[b][k], h)
    BY <2>1, <2>3, <2>4, <2>6
  <2>8. Len(F[i + 1].undo) = i + 1
    BY <2>3, <2>4, <2>5
  <2>9. ASSUME NEW k \in 1..(i + 1)
        PROVE  F[i + 1].undo[k] = UpdateCoins(F[k - 1].coins, Vtx[b][k], h).undo
    <3>1. CASE k = i + 1
      BY <2>1, <2>3, <2>4, <2>5, <3>1
    <3>2. CASE k \in 1..i
      <4>1. Len(F[i].undo) = i /\ F[i].undo[k] = UpdateCoins(F[k - 1].coins, Vtx[b][k], h).undo
        BY <2>3, <2>4, <3>2
      <4>2. F[i + 1].undo[k] = F[i].undo[k]
        BY <2>3, <2>5, <3>2, <4>1
      <4> QED BY <4>1, <4>2
    <3> QED BY <2>6, <3>1, <3>2
  <2> QED BY <2>3, <2>4, <2>7, <2>8, <2>9
<1> HIDE DEF S
<1>5. \A i \in 0..n : i \in S
  BY <1>2, <1>3, <1>4, Upwards
<1>6. Good(n) /\ F[n].ok
  BY <1>1, <1>2, <1>5 DEF S
<1> DEFINE f == [i \in 0..n |-> F[i].coins]
<1>7. \A i \in 0..n : F[i].coins \in CoinMaps
  BY <1>1 DEF ConnectRun, ConnectAcc
<1>8. \A k \in 1..n : k \in 0..n /\ k - 1 \in 0..n /\ f[k] = F[k].coins /\ f[k - 1] = F[k - 1].coins
  BY <1>2
<1>9. f \in [0..n -> CoinMaps] /\ f[n] = F[n].coins
  BY <1>2, <1>7
<1>10. f[0] = c
  <2>1. F[0].coins = c
    BY <1>1 DEF ConnectRun
  <2>2. 0 \in 0..n
    BY <1>2
  <2> QED BY <2>1, <2>2
<1> HIDE DEF f
<1>11. ApplyRun(f, c, b, h)
  BY <1>6, <1>8, <1>9, <1>10 DEF ApplyRun
<1>12. ValidRun(f, c, b, h)
  BY <1>6, <1>8, <1>11 DEF ValidRun, Spendable
<1>13. MadeUndo(ConnectBlock(c, b, h).undo, f, b, h)
  BY <1>1, <1>6, <1>8 DEF MadeUndo
<1> QED BY <1>1, <1>9, <1>12, <1>13 DEF Connected

LEMMA ApplyWF ==
    ASSUME NEW c \in CoinMaps, NEW b \in Blocks, NEW h \in Nat \ {0}, WF(c, h),
           NEW f, ApplyRun(f, c, b, h)
    PROVE  \A i \in 0..Len(Vtx[b]) : f[i] \in CoinMaps /\ WF(f[i], h)
<1> DEFINE n == Len(Vtx[b])
           S == {i \in 0..n : WF(f[i], h)}
<1>1. n \in Nat /\ f[0] = c /\ \A i \in 0..n : f[i] \in CoinMaps
  BY VtxType DEF ApplyRun
<1>2. 0 \in S
  BY <1>1
<1>3. ASSUME NEW i \in 0..n, i \in S, i < n PROVE i + 1 \in S
  <2>1. i + 1 \in 1..n /\ i + 1 \in 0..n /\ i + 1 - 1 = i
    BY <1>1, <1>3
  <2>2. f[i + 1] = UpdateCoins(f[i], Vtx[b][i + 1], h).coins
    BY <2>1 DEF ApplyRun
  <2>3. Vtx[b][i + 1] \in Txs /\ f[i] \in CoinMaps /\ WF(f[i], h)
    BY <1>1, <1>3, <2>1, VtxType
  <2>4. WF(f[i + 1], h)
    BY <2>2, <2>3, UpdateWF
  <2> QED BY <2>1, <2>4
<1> HIDE DEF S
<1>4. \A i \in 0..n : i \in S
  BY <1>1, <1>2, <1>3, Upwards
<1> QED BY <1>1, <1>4 DEF S

\* The same block applied to coins that are alike.
LEMMA ApplySame ==
    ASSUME NEW c \in CoinMaps, NEW d \in CoinMaps, NEW b \in Blocks, NEW h \in Nat \ {0},
           WF(c, h), WF(d, h), Same(c, d),
           NEW f, ApplyRun(f, c, b, h), NEW g, ApplyRun(g, d, b, h)
    PROVE  \A i \in 0..Len(Vtx[b]) : Same(f[i], g[i])
<1> DEFINE n == Len(Vtx[b])
           S == {i \in 0..n : Same(f[i], g[i])}
<1>1. n \in Nat /\ f[0] = c /\ g[0] = d
  BY VtxType DEF ApplyRun
<1>2. \A i \in 0..n : f[i] \in CoinMaps /\ WF(f[i], h) /\ g[i] \in CoinMaps /\ WF(g[i], h)
  BY ApplyWF
<1>3. 0 \in S
  BY <1>1
<1>4. ASSUME NEW i \in 0..n, i \in S, i < n PROVE i + 1 \in S
  <2>1. i + 1 \in 1..n /\ i + 1 \in 0..n /\ i + 1 - 1 = i
    BY <1>1, <1>4
  <2>2. f[i + 1] = UpdateCoins(f[i], Vtx[b][i + 1], h).coins /\ g[i + 1] = UpdateCoins(g[i], Vtx[b][i + 1], h).coins
    BY <2>1 DEF ApplyRun
  <2>3. Vtx[b][i + 1] \in Txs /\ Same(f[i], g[i])
    BY <1>4, <2>1, VtxType
  <2>4. Same(f[i + 1], g[i + 1])
    BY <1>2, <2>2, <2>3, UpdateSame
  <2> QED BY <2>1, <2>4
<1> HIDE DEF S
<1>5. \A i \in 0..n : i \in S
  BY <1>1, <1>3, <1>4, Upwards
<1> QED BY <1>5 DEF S

\* q is none of the transactions i + 1 to j of b.
NotIn(b, i, j, q) == \A k \in 1..Len(Vtx[b]) : i < k /\ k <= j => Vtx[b][k] # q

LEMMA UpdateShrinks ==
    ASSUME NEW c \in CoinMaps, NEW t \in Txs, NEW h \in Nat, NEW q \in Txs \ {t}, NEW m \in Nat,
           m \in UpdateCoins(c, t, h).coins[q].vout
    PROVE  m \in c[q].vout /\ <<q, m>> \notin Prevouts(t)
  BY UpdateSummary

\* An output that is not there after i transactions is not there after j,
\* unless its transaction is one of those between.
LEMMA NotAdded ==
    ASSUME NEW c \in CoinMaps, NEW b \in Blocks, NEW h \in Nat,
           NEW f, ApplyRun(f, c, b, h), NEW i \in 0..Len(Vtx[b]), NEW j \in 0..Len(Vtx[b]), i <= j,
           NEW q \in Txs, NEW m \in Nat, m \notin f[i][q].vout,
           NotIn(b, i, j, q)
    PROVE  m \notin f[j][q].vout
<1> DEFINE n == Len(Vtx[b])
           S == {e \in 0..(j - i) : m \notin f[i + e][q].vout}
<1>1. n \in Nat /\ i \in Nat /\ j \in Nat /\ j - i \in Nat /\ \A e \in 0..n : f[e] \in CoinMaps
  BY VtxType DEF ApplyRun
<1>2. 0 \in S
  BY <1>1
<1>3. ASSUME NEW e \in 0..(j - i), e \in S, e < j - i PROVE e + 1 \in S
  <2>1. i + e \in 0..n /\ i + e + 1 \in 1..n /\ i + (e + 1) = i + e + 1 /\ i + e + 1 - 1 = i + e
        /\ i < i + e + 1 /\ i + e + 1 <= j /\ e + 1 \in 0..(j - i)
    BY <1>1, <1>3
  <2> DEFINE t == Vtx[b][i + e + 1]
  <2>2. f[i + e + 1] = UpdateCoins(f[i + e], t, h).coins /\ t \in Txs /\ f[i + e] \in CoinMaps
    <3>1. \A k \in 1..n : f[k] = UpdateCoins(f[k - 1], Vtx[b][k], h).coins
      BY DEF ApplyRun
    <3>2. t \in Txs
      BY <2>1, VtxType
    <3>3. f[i + e + 1] = UpdateCoins(f[i + e + 1 - 1], Vtx[b][i + e + 1], h).coins
      BY <2>1, <3>1
    <3> QED BY <1>1, <2>1, <3>2, <3>3
  <2>3. q \in Txs \ {t}
    BY <2>1 DEF NotIn
  <2>4. m \notin f[i + e][q].vout
    BY <1>3
  <2> HIDE DEF t
  <2>5. m \notin f[i + e + 1][q].vout
    <3> SUFFICES ASSUME m \in UpdateCoins(f[i + e], t, h).coins[q].vout PROVE FALSE
      BY <2>2
    <3> QED BY <2>2, <2>3, <2>4, UpdateShrinks
  <2> QED BY <2>1, <2>5
<1> HIDE DEF S
<1>4. \A e \in 0..(j - i) : e \in S
  BY <1>1, <1>2, <1>3, Upwards
<1>5. j - i \in S /\ i + (j - i) = j
  BY <1>1, <1>4
<1> QED BY <1>5 DEF S

\* A transaction has no unspent outputs when its block connects it: there
\* are none before the block (BIP30), and no transaction is twice in a block,
\* for the inputs of the second are spent and only the first transaction of a
\* block has none.
LEMMA NothingTwice ==
    ASSUME NEW c \in CoinMaps, NEW b \in Blocks, NEW h \in Nat, NEW f, ValidRun(f, c, b, h)
    PROVE  \A k \in 1..Len(Vtx[b]) : f[k - 1][Vtx[b][k]].vout = {}
<1> DEFINE n == Len(Vtx[b])
           Twice == {i \in 1..n : \E j \in 1..n : i < j /\ Vtx[b][i] = Vtx[b][j]}
<1>1. n \in Nat /\ ApplyRun(f, c, b, h) /\ f[0] = c /\ \A e \in 0..n : f[e] \in CoinMaps
  BY VtxType DEF ValidRun, ApplyRun
<1>2. \A k \in 1..n : k \in 0..n /\ k - 1 \in 0..n /\ Vtx[b][k] \in Txs /\ c[Vtx[b][k]].vout = {}
  <2>1. \A k \in 1..n : c[Vtx[b][k]].vout = {}
    BY DEF ValidRun, Fresh, HaveCoins
  <2>2. \A k \in 1..n : k \in 0..n /\ k - 1 \in 0..n
    BY <1>1
  <2>3. \A k \in 1..n : Vtx[b][k] \in Txs
    BY VtxType
  <2> QED BY <2>1, <2>2, <2>3
\* What has unspent outputs inside the block, and none before it, was added by it.
<1>3. ASSUME NEW k \in 1..n, NEW q \in Txs, NEW m \in Nat, m \in f[k - 1][q].vout, c[q].vout = {}
      PROVE  \E i \in 1..n : i < k /\ Vtx[b][i] = q
  <2> SUFFICES ASSUME \A i \in 1..n : i < k => Vtx[b][i] # q PROVE FALSE
    OBVIOUS
  <2>1. 0 \in 0..n /\ k - 1 \in 0..n /\ 0 <= k - 1 /\ m \notin f[0][q].vout
    BY <1>1, <1>3
  <2>2. NotIn(b, 0, k - 1, q)
    BY <1>1 DEF NotIn
  <2>3. m \notin f[k - 1][q].vout
    <3> HIDE DEF n
    <3> QED BY <1>1, <2>1, <2>2, NotAdded DEF n
  <2> QED BY <1>3, <2>3
<1>4. Twice = {}
  <2> SUFFICES ASSUME Twice # {} PROVE FALSE
    OBVIOUS
  <2>1. Twice \in SUBSET Nat
    OBVIOUS
  <2>2. PICK i \in Twice : \A k \in Twice : i <= k
    BY <2>1, Least
  <2>3. PICK j \in 1..n : i < j /\ Vtx[b][i] = Vtx[b][j]
    BY <2>2
  <2>4. \A k \in 1..n : \A e \in 1..n : k < i /\ k < e => Vtx[b][k] # Vtx[b][e]
    BY <2>2
  <2> DEFINE t == Vtx[b][i]
             o == Vin[t][1]
             q == o[1]
  <2>5. t \in Txs /\ i \in 1..n /\ j \in 2..n /\ t \notin CoinBases
    BY <1>1, <1>2, <2>2, <2>3, MempoolAssumption
  <2>6. 1 \in 1..Len(Vin[t])
    <3>1. Vin[t] \in Seq(Txs \X Nat) /\ Vin[t] # <<>>
      BY <2>5, MempoolAssumption
    <3> QED BY <3>1
  <2>7. o \in Prevouts(t) /\ q \in Txs /\ o[2] \in Nat /\ o = <<q, o[2]>>
    BY <2>5, <2>6, PrevoutsRange, VinType
  <2>8. o[2] \in f[i - 1][q].vout /\ o[2] \in f[j - 1][q].vout
    BY <2>3, <2>5, <2>7 DEF ValidRun, IsAvailable
  <2>9. q # t
    <3> SUFFICES ASSUME q = t PROVE FALSE
      OBVIOUS
    <3>1. c[q].vout = {}
      BY <1>2, <2>5
    <3>2. PICK k \in 1..n : k < i /\ Vtx[b][k] = q
      BY <1>3, <2>5, <2>7, <2>8, <3>1
    <3> QED BY <2>4, <2>5, <3>2
  <2>10. o[2] \notin f[i][q].vout
    <3>1. \A k \in 1..n : f[k] = UpdateCoins(f[k - 1], Vtx[b][k], h).coins
      BY <1>1 DEF ApplyRun
    <3>2. f[i] = UpdateCoins(f[i - 1], t, h).coins /\ f[i - 1] \in CoinMaps
      BY <1>1, <1>2, <2>5, <3>1
    <3>3. q \in Txs \ {t}
      BY <2>7, <2>9
    <3> HIDE DEF t, o, q
    <3>4. <<q, o[2]>> \in Prevouts(t)
      BY <2>7
    <3> SUFFICES ASSUME o[2] \in UpdateCoins(f[i - 1], t, h).coins[q].vout PROVE FALSE
      BY <3>2
    <3> QED BY <2>5, <2>7, <3>2, <3>3, <3>4, UpdateShrinks
  <2>11. PICK k \in 1..n : i < k /\ k <= j - 1 /\ Vtx[b][k] = q
    <3> SUFFICES ASSUME \A k \in 1..n : i < k /\ k <= j - 1 => Vtx[b][k] # q PROVE FALSE
      OBVIOUS
    <3>1. i \in 0..n /\ j - 1 \in 0..n /\ i <= j - 1
      BY <1>1, <2>3, <2>5
    <3>2. NotIn(b, i, j - 1, q)
      BY DEF NotIn
    <3> HIDE DEF t, o, q
    <3> QED BY <1>1, <2>7, <2>8, <2>10, <3>1, <3>2, NotAdded
  <2>12. c[q].vout = {}
    BY <1>2, <2>11
  <2>13. PICK e \in 1..n : e < i /\ Vtx[b][e] = q
    BY <1>3, <2>5, <2>7, <2>8, <2>12
  <2>14. e < k
    BY <2>5, <2>11, <2>13
  <2> QED BY <2>4, <2>11, <2>13, <2>14
<1> SUFFICES ASSUME NEW k \in 1..n, f[k - 1][Vtx[b][k]].vout # {} PROVE FALSE
  OBVIOUS
<1>5. f[k - 1] \in CoinMaps /\ Vtx[b][k] \in Txs
  BY <1>1, <1>2
<1>6. PICK m \in Nat : m \in f[k - 1][Vtx[b][k]].vout
  BY <1>5 DEF CoinMaps, CoinRec
<1>7. PICK i \in 1..n : i < k /\ Vtx[b][i] = Vtx[b][k]
  BY <1>2, <1>3, <1>6
<1> QED BY <1>4, <1>7

-----------------------------------------------------------------------------
(* DisconnectBlock undoes what ConnectBlock did *)

UndoAcc == [fClean : BOOLEAN, coins : CoinMaps]

LEMMA ElementsType ==
    ASSUME NEW X, NEW s \in Seq(X)
    PROVE  Len(s) \in Nat /\ \A i \in 1..Len(s) : s[i] \in X
  OBVIOUS

LEMMA ReversedFacts ==
    ASSUME NEW X, NEW s \in Seq(X)
    PROVE  /\ Reversed(s) \in Seq(X) /\ Len(Reversed(s)) = Len(s)
           /\ \A i \in 1..Len(s) : Reversed(s)[i] = s[Len(s) + 1 - i]
<1>1. Len(s) \in Nat /\ \A i \in 1..Len(s) : Len(s) + 1 - i \in 1..Len(s)
  OBVIOUS
<1>2. Reversed(s) \in [1..Len(s) -> X]
  BY <1>1 DEF Reversed
<1> QED BY <1>1, <1>2 DEF Reversed

\* What RestoreInput makes of the transaction whose output it restores.
Restored(r, u) ==
    LET kept == IF u.nHeight # 0 THEN [Pruned EXCEPT !.nHeight = u.nHeight, !.fCoinBase = u.fCoinBase] ELSE r
    IN  [kept EXCEPT !.vout = @ \cup u.vout]

LEMMA RestoreFacts ==
    ASSUME NEW acc \in UndoAcc, NEW o \in Txs \X Nat, NEW u \in CoinRec
    PROVE  /\ RestoreInput(acc, [out |-> o, undo |-> u]) \in UndoAcc
           /\ \A q \in Txs \ {o[1]} : RestoreInput(acc, [out |-> o, undo |-> u]).coins[q] = acc.coins[q]
           /\ RestoreInput(acc, [out |-> o, undo |-> u]).coins[o[1]] = Restored(acc.coins[o[1]], u)
<1> DEFINE e == [out |-> o, undo |-> u]
           c == acc.coins[o[1]]
           kept == IF u.nHeight # 0 THEN [Pruned EXCEPT !.nHeight = u.nHeight, !.fCoinBase = u.fCoinBase] ELSE c
           clean == /\ acc.fClean
                    /\ u.nHeight # 0 <=> c.vout = {}
                    /\ o[2] \notin kept.vout
<1>1. o[1] \in Txs /\ acc.coins \in CoinMaps /\ c \in CoinRec
  BY DEF UndoAcc, CoinMaps
<1>2. e.out = o /\ e.undo = u
  OBVIOUS
<1>3. RestoreInput(acc, e) = [fClean |-> clean, coins |-> [acc.coins EXCEPT ![o[1]] = Restored(c, u)]]
  BY <1>2 DEF RestoreInput, Restored
<1>4. kept \in CoinRec
  BY <1>1, PrunedType DEF CoinRec
<1>5. Restored(c, u) \in CoinRec
  <2>1. Restored(c, u) = [kept EXCEPT !.vout = @ \cup u.vout]
    BY DEF Restored
  <2> HIDE DEF kept
  <2>2. kept.vout \cup u.vout \in SUBSET Nat
    BY <1>4 DEF CoinRec
  <2> QED BY <1>4, <2>1, <2>2 DEF CoinRec
<1>6. clean \in BOOLEAN
  OBVIOUS
<1> HIDE DEF clean, kept, c, e
<1>7. [acc.coins EXCEPT ![o[1]] = Restored(c, u)] \in CoinMaps
  BY <1>1, <1>5 DEF CoinMaps
<1>8. RestoreInput(acc, e) \in UndoAcc
  BY <1>3, <1>6, <1>7 DEF UndoAcc
<1>9. RestoreInput(acc, e).coins = [acc.coins EXCEPT ![o[1]] = Restored(c, u)]
  BY <1>3
<1>10. RestoreInput(acc, e).coins[o[1]] = Restored(c, u)
       /\ \A q \in Txs \ {o[1]} : RestoreInput(acc, e).coins[q] = acc.coins[q]
  BY <1>1, <1>9 DEF CoinMaps
<1> QED BY <1>8, <1>10 DEF e, c

\* RestoreInput is the inverse of Spend.
LEMMA RestoreInverse ==
    ASSUME NEW a \in SpendAcc, NEW h \in Nat, WF(a.coins, h), NEW o \in Txs \X Nat, IsAvailable(a.coins, o),
           NEW acc \in UndoAcc, Same(acc.coins, Spend(a, o).coins),
           NEW u \in CoinRec, Alike(u, Entry(a, o))
    PROVE  Same(RestoreInput(acc, [out |-> o, undo |-> u]).coins, a.coins)
<1> DEFINE e == [out |-> o, undo |-> u]
           p == o[1]
           v == a.coins[p]
           w == acc.coins[p]
           rest == v.vout \ {o[2]}
<1>1. p \in Txs /\ o[2] \in Nat /\ o[2] \in v.vout
  BY DEF IsAvailable
<1>2. a.coins \in CoinMaps /\ v \in CoinRec /\ acc.coins \in CoinMaps /\ w \in CoinRec
  BY <1>1 DEF SpendAcc, UndoAcc, CoinMaps
<1>3. v.nHeight \in 1..h
  BY <1>1 DEF WF
<1>4. ASSUME NEW q \in Txs \ {p} PROVE Alike(RestoreInput(acc, e).coins[q], a.coins[q])
  <2>1. RestoreInput(acc, e).coins[q] = acc.coins[q]
    BY RestoreFacts
  <2>2. Spend(a, o).coins[q] = a.coins[q]
    BY SpendFacts
  <2>3. Alike(acc.coins[q], Spend(a, o).coins[q])
    BY DEF Same
  <2> QED BY <2>1, <2>2, <2>3
<1>5. RestoreInput(acc, e).coins[p] = Restored(w, u)
  BY RestoreFacts
<1>6. Spend(a, o).coins[p] = IF rest = {} THEN Pruned ELSE [v EXCEPT !.vout = rest]
  BY SpendFacts
<1>7. Alike(w, Spend(a, o).coins[p])
  BY <1>1 DEF Same
<1>8. Entry(a, o) = IF rest = {} THEN [v EXCEPT !.vout = {o[2]}] ELSE [Pruned EXCEPT !.vout = {o[2]}]
  BY DEF Entry
<1> HIDE DEF e, p, v, w
<1>9. CASE rest = {}
  <2>1. u.vout = {o[2]} /\ u.nHeight = v.nHeight /\ u.fCoinBase = v.fCoinBase
    BY <1>2, <1>8, <1>9 DEF Alike, CoinRec
  <2>2. u.nHeight # 0 /\ v.vout = {o[2]}
    BY <1>1, <1>3, <1>9, <2>1
  <2>3. Restored(w, u) = [[Pruned EXCEPT !.nHeight = u.nHeight, !.fCoinBase = u.fCoinBase] EXCEPT !.vout = @ \cup u.vout]
    BY <2>2 DEF Restored
  <2>4. Restored(w, u).vout = u.vout /\ Restored(w, u).nHeight = u.nHeight /\ Restored(w, u).fCoinBase = u.fCoinBase
    BY <2>3 DEF Pruned
  <2>5. Alike(Restored(w, u), v)
    BY <2>1, <2>2, <2>4 DEF Alike
  <2> QED BY <1>4, <1>5, <2>5 DEF Same, v, e
<1>10. CASE rest # {}
  <2>1. u.vout = {o[2]} /\ u.nHeight = 0
    BY <1>8, <1>10 DEF Alike, Pruned
  <2>2. w.vout = rest /\ w.nHeight = v.nHeight /\ w.fCoinBase = v.fCoinBase
    BY <1>2, <1>6, <1>7, <1>10 DEF Alike, CoinRec
  <2>3. Restored(w, u) = [w EXCEPT !.vout = @ \cup u.vout]
    BY <2>1 DEF Restored
  <2>4. /\ Restored(w, u).vout = rest \cup {o[2]}
        /\ Restored(w, u).nHeight = v.nHeight /\ Restored(w, u).fCoinBase = v.fCoinBase
    BY <1>2, <2>1, <2>2, <2>3 DEF CoinRec
  <2>5. rest \cup {o[2]} = v.vout
    BY <1>1
  <2>6. Alike(Restored(w, u), v)
    BY <2>4, <2>5 DEF Alike
  <2> QED BY <1>4, <1>5, <2>6 DEF Same, v, e
<1> QED BY <1>9, <1>10

\* The inputs of t with their undo entries.
Inputs(t, u) == [j \in 1..Len(Vin[t]) |-> [out |-> Vin[t][j], undo |-> u[j]]]
Removed(acc, t, h) ==
    [fClean |-> acc.fClean /\ acc.coins[t] = FromTx(t, h), coins |-> [acc.coins EXCEPT ![t] = Pruned]]

LEMMA InputsType ==
    ASSUME NEW t \in Txs, NEW u, \A j \in 1..Len(Vin[t]) : u[j] \in CoinRec
    PROVE  /\ Inputs(t, u) \in Seq([out : Txs \X Nat, undo : CoinRec])
           /\ Len(Inputs(t, u)) = Len(Vin[t])
           /\ \A j \in 1..Len(Vin[t]) : Inputs(t, u)[j] = [out |-> Vin[t][j], undo |-> u[j]]
<1>1. Len(Vin[t]) \in Nat /\ \A j \in 1..Len(Vin[t]) : Vin[t][j] \in Txs \X Nat
  BY VinType
<1>2. Inputs(t, u) \in [1..Len(Vin[t]) -> [out : Txs \X Nat, undo : CoinRec]]
  BY <1>1 DEF Inputs
<1> QED BY <1>1, <1>2 DEF Inputs

LEMMA RestoreType ==
    ASSUME NEW acc \in UndoAcc, NEW e \in [out : Txs \X Nat, undo : CoinRec]
    PROVE  RestoreInput(acc, e) \in UndoAcc
<1>1. e = [out |-> e.out, undo |-> e.undo] /\ e.out \in Txs \X Nat /\ e.undo \in CoinRec
  OBVIOUS
<1>2. RestoreInput(acc, [out |-> e.out, undo |-> e.undo]) \in UndoAcc
  BY <1>1, RestoreFacts
<1> QED BY <1>1, <1>2

LEMMA RemovedFacts ==
    ASSUME NEW acc \in UndoAcc, NEW t \in Txs, NEW h
    PROVE  /\ Removed(acc, t, h) \in UndoAcc
           /\ Removed(acc, t, h).coins[t] = Pruned
           /\ \A q \in Txs \ {t} : Removed(acc, t, h).coins[q] = acc.coins[q]
<1>1. acc.coins \in CoinMaps
  BY DEF UndoAcc
<1>2. [acc.coins EXCEPT ![t] = Pruned] \in CoinMaps
  BY <1>1, PrunedType DEF CoinMaps
<1>3. (acc.fClean /\ acc.coins[t] = FromTx(t, h)) \in BOOLEAN
  OBVIOUS
<1>4. Removed(acc, t, h) \in UndoAcc
  BY <1>2, <1>3 DEF Removed, UndoAcc
<1>5. Removed(acc, t, h).coins = [acc.coins EXCEPT ![t] = Pruned]
  BY DEF Removed
<1> QED BY <1>1, <1>4, <1>5 DEF CoinMaps

\* The inputs of a transaction are restored in reverse order.
RestoreRun(f, acc, t, u, h) ==
    /\ f \in [0..Len(Reversed(Inputs(t, u))) -> UndoAcc] /\ f[0] = Removed(acc, t, h)
    /\ \A i \in 1..Len(Reversed(Inputs(t, u))) : f[i] = RestoreInput(f[i - 1], Reversed(Inputs(t, u))[i])

LEMMA RestoreTrace ==
    ASSUME NEW acc \in UndoAcc, NEW t \in Txs, NEW h, NEW u,
           \A j \in 1..Len(Vin[t]) : u[j] \in CoinRec
    PROVE  \E f : RestoreRun(f, acc, t, u, h) /\ UndoTx(acc, t, u, h) = f[Len(Reversed(Inputs(t, u)))]
<1> DEFINE n == Len(Reversed(Inputs(t, u)))
           A == UndoAcc
           from == Removed(acc, t, h)
           Step(x, i) == RestoreInput(x, Reversed(Inputs(t, u))[i])
           Body(f, i) == IF i = 0 THEN from ELSE Step(f[i - 1], i)
           F == CHOOSE f : f = [i \in 0..n |-> Body(f, i)]
           g == [i \in 1..n |-> [x \in A |-> Step(x, i)]]
<1>1. n \in Nat /\ from \in A /\ \A x \in A : \A i \in 1..n : Step(x, i) \in A
  <2>1. Reversed(Inputs(t, u)) \in Seq([out : Txs \X Nat, undo : CoinRec])
    BY InputsType, ReversedFacts
  <2>2. n \in Nat /\ \A i \in 1..n : Reversed(Inputs(t, u))[i] \in [out : Txs \X Nat, undo : CoinRec]
    <3> DEFINE s == Reversed(Inputs(t, u))
    <3> HIDE DEF s
    <3> QED BY <2>1, ElementsType DEF s
  <2> QED BY <2>2, RemovedFacts, RestoreType
<1>2. UndoTx(acc, t, u, h) = F[n]
  BY DEF Fold, UndoTx, Removed, Inputs
<1> HIDE DEF n, A, from, Step
<1>3. \E f : f = [i \in 0..n |-> Body(f, i)]
  <2>1. Maps(g, n, A)
    BY <1>1 DEF Maps
  <2> HIDE DEF g
  <2>2. PICK f : Runs(f, n, A, from, g)
    BY <1>1, <2>1, Iterates
  <2>3. \A i \in 1..n : i - 1 \in 0..n /\ f[i - 1] \in A
    BY <1>1, <2>2 DEF Runs
  <2>4. \A i \in 1..n : g[i][f[i - 1]] = Step(f[i - 1], i)
    BY <2>3 DEF g
  <2>5. \A i \in 0..n : f[i] = Body(f, i)
    <3>1. \A i \in 0..n : i = 0 \/ i \in 1..n
      BY <1>1
    <3> QED BY <2>2, <2>4, <3>1 DEF Runs
  <2>6. f = [i \in 0..n |-> f[i]]
    BY <2>2 DEF Runs
  <2> HIDE DEF Body
  <2> QED BY <2>5, <2>6
<1>4. F = [i \in 0..n |-> Body(F, i)]
  <2> HIDE DEF Body
  <2> QED BY <1>3
<1> HIDE DEF F
<1>5. F[0] = from /\ \A i \in 1..n : F[i] = Step(F[i - 1], i)
  <2>1. \A i \in 0..n : F[i] = Body(F, i)
    <3> HIDE DEF Body
    <3> QED BY <1>4
  <2>2. 0 \in 0..n /\ \A i \in 1..n : i \in 0..n /\ i # 0
    BY <1>1
  <2> QED BY <2>1, <2>2
<1>6. \A i \in 0..n : F[i] \in A
  <2> DEFINE S == {i \in 0..n : F[i] \in A}
  <2>1. 0 \in S
    BY <1>1, <1>5
  <2>2. ASSUME NEW i \in 0..n, i \in S, i < n PROVE i + 1 \in S
    <3>1. i + 1 \in 1..n /\ i + 1 \in 0..n /\ i + 1 - 1 = i
      BY <1>1, <2>2
    <3>2. F[i + 1] = Step(F[i], i + 1)
      BY <1>5, <3>1
    <3> QED BY <1>1, <2>2, <3>1, <3>2
  <2> HIDE DEF S
  <2>3. \A i \in 0..n : i \in S
    BY <1>1, <2>1, <2>2, Upwards
  <2> QED BY <2>3 DEF S
<1>7. F \in [0..n -> A]
  <2>1. F = [i \in 0..n |-> F[i]]
    BY <1>4
  <2> QED BY <1>6, <2>1
<1> QED BY <1>2, <1>5, <1>7 DEF n, A, from, Step, RestoreRun

LEMMA SameFacts ==
    /\ \A c : Same(c, c)
    /\ \A c, d : Same(c, d) => Same(d, c)
    /\ \A c, d, e : Same(c, d) /\ Same(d, e) => Same(c, e)
  BY DEF Same, Alike

LEMMA InputsDiffer ==
    ASSUME NEW t \in Txs, NEW i \in 1..Len(Vin[t]), NEW j \in 1..Len(Vin[t]), i # j
    PROVE  Vin[t][i] # Vin[t][j]
  BY MempoolAssumption

\* Counting down from m while k counts up.
LEMMA Countdown ==
    ASSUME NEW m \in Nat, NEW k \in 0..m, k < m
    PROVE  /\ m - k \in 1..m /\ m - k - 1 \in 0..m /\ k + 1 \in 1..m /\ k + 1 \in 0..m
           /\ m + 1 - (k + 1) = m - k /\ k + 1 - 1 = k /\ m - (k + 1) = m - k - 1
  OBVIOUS

\* Undoing a transaction restores the coins before it.
LEMMA UndoTxInverse ==
    ASSUME NEW c \in CoinMaps, NEW h \in Nat, WF(c, h), NEW t \in Txs,
           \A o \in Prevouts(t) : IsAvailable(c, o), c[t].vout = {},
           NEW acc \in UndoAcc, Same(acc.coins, UpdateCoins(c, t, h).coins), NEW u,
           \A j \in 1..Len(Vin[t]) : u[j] \in CoinRec /\ Alike(u[j], UpdateCoins(c, t, h).undo[j])
    PROVE  UndoTx(acc, t, u, h) \in UndoAcc /\ Same(UndoTx(acc, t, u, h).coins, c)
<1> DEFINE m == Len(Vin[t])
           s == Reversed(Inputs(t, u))
<1>1. m \in Nat /\ m \in 0..m
  BY VinType
<1>2. PICK f : Updates(f, c, t, h)
  BY UpdateFacts
<1>3. PICK r : RestoreRun(r, acc, t, u, h) /\ UndoTx(acc, t, u, h) = r[Len(s)]
  BY RestoreTrace
<1>4. Len(s) = m /\ \A i \in 1..m : s[i] = [out |-> Vin[t][m + 1 - i], undo |-> u[m + 1 - i]]
  <2>1. /\ Inputs(t, u) \in Seq([out : Txs \X Nat, undo : CoinRec])
        /\ Len(Inputs(t, u)) = m
        /\ \A j \in 1..m : Inputs(t, u)[j] = [out |-> Vin[t][j], undo |-> u[j]]
    BY InputsType
  <2>2. Len(s) = m /\ \A i \in 1..m : s[i] = Inputs(t, u)[m + 1 - i]
    BY <2>1, ReversedFacts
  <2>3. \A i \in 1..m : m + 1 - i \in 1..m
    BY <1>1
  <2> QED BY <2>1, <2>2, <2>3
<1> HIDE DEF s
<1>5. /\ \A i \in 0..m : r[i] \in UndoAcc
      /\ r[0] = Removed(acc, t, h)
      /\ \A i \in 1..m : r[i] = RestoreInput(r[i - 1], s[i])
  BY <1>3, <1>4 DEF RestoreRun, s
<1>6. \A i \in 0..m : /\ f[i] \in SpendAcc /\ Without(f[i].coins, c, t, i)
                      /\ f[i].coins \in CoinMaps /\ WF(f[i].coins, h)
  <2>1. \A i \in 0..m : f[i] \in SpendAcc /\ Without(f[i].coins, c, t, i)
    BY <1>2, RunWithout DEF Updates
  <2>2. \A i \in 0..m : f[i].coins \in CoinMaps
    BY <2>1 DEF SpendAcc
  <2> QED BY <2>1, <2>2, WithoutWF
<1>7. ASSUME NEW i \in 1..m
      PROVE  /\ Vin[t][i] \in Txs \X Nat /\ IsAvailable(f[i - 1].coins, Vin[t][i])
             /\ f[i - 1] \in SpendAcc /\ WF(f[i - 1].coins, h)
             /\ f[i] = Spend(f[i - 1], Vin[t][i]) /\ Alike(u[i], Entry(f[i - 1], Vin[t][i])) /\ u[i] \in CoinRec
  <2> DEFINE o == Vin[t][i]
  <2>1. i - 1 \in 0..m /\ \A k \in 1..(i - 1) : k \in 1..m /\ k # i
    BY <1>1
  <2>2. o \in Txs \X Nat /\ o[1] \in Txs /\ o[2] \in Nat /\ o = <<o[1], o[2]>> /\ o \in Prevouts(t)
    BY VinType, PrevoutsRange
  <2>3. \A k \in 1..(i - 1) : Vin[t][k] # <<o[1], o[2]>>
    BY <2>1, <2>2, InputsDiffer
  <2>4. o[2] \in c[o[1]].vout
    BY <2>2 DEF IsAvailable
  <2>5. o[2] \in f[i - 1].coins[o[1]].vout
    BY <1>6, <2>1, <2>2, <2>3, <2>4 DEF Without
  <2>6. f[i] = Spend(f[i - 1], o)
    BY <1>2 DEF Updates, SpendRun
  <2>7. UpdateCoins(c, t, h).undo[i] = Entry(f[i - 1], o)
    BY <1>1, <1>2, RunUndo DEF Updates
  <2> QED BY <1>6, <2>1, <2>2, <2>5, <2>6, <2>7 DEF IsAvailable
<1>8. Same(r[0].coins, f[m].coins)
  <2> SUFFICES ASSUME NEW q \in Txs PROVE Alike(r[0].coins[q], f[m].coins[q])
    BY DEF Same
  <2>1. CASE q = t
    <3>1. r[0].coins[t] = Pruned
      BY <1>5, RemovedFacts
    <3>2. f[m].coins[t].vout \subseteq Nat
      BY <1>1, <1>6 DEF CoinMaps, CoinRec
    <3>3. f[m].coins[t].vout = {}
      BY <1>1, <1>6, <3>2 DEF Without
    <3>4. Alike(f[m].coins[t], Pruned)
      BY <1>1, <1>6, <3>3 DEF WF
    <3> QED BY <2>1, <3>1, <3>4 DEF Alike
  <2>2. CASE q # t
    <3>1. r[0].coins[q] = acc.coins[q]
      BY <1>5, <2>2, RemovedFacts
    <3>2. UpdateCoins(c, t, h).coins[q] = f[m].coins[q]
      BY <1>1, <1>2, <1>6, <2>2 DEF Updates, CoinMaps
    <3>3. Alike(acc.coins[q], UpdateCoins(c, t, h).coins[q])
      BY DEF Same
    <3> QED BY <3>1, <3>2, <3>3
  <2> QED BY <2>1, <2>2
<1> DEFINE S == {k \in 0..m : Same(r[k].coins, f[m - k].coins)}
<1>9. 0 \in S
  BY <1>1, <1>8
<1>10. ASSUME NEW k \in 0..m, k \in S, k < m PROVE k + 1 \in S
  <2> DEFINE i == m - k
  <2>1. i \in 1..m /\ m + 1 - (k + 1) = i /\ k + 1 \in 1..m /\ k + 1 - 1 = k /\ m - (k + 1) = i - 1 /\ k + 1 \in 0..m
    BY <1>1, <1>10, Countdown
  <2>2. r[k + 1] = RestoreInput(r[k], [out |-> Vin[t][i], undo |-> u[i]])
    <3>1. r[k + 1] = RestoreInput(r[k], s[k + 1])
      BY <1>5, <2>1
    <3>2. s[k + 1] = [out |-> Vin[t][i], undo |-> u[i]]
      BY <1>4, <2>1
    <3> QED BY <3>1, <3>2
  <2>3. Same(r[k].coins, f[i].coins) /\ r[k] \in UndoAcc
    BY <1>5, <1>10
  <2>4. /\ Vin[t][i] \in Txs \X Nat /\ IsAvailable(f[i - 1].coins, Vin[t][i])
        /\ f[i - 1] \in SpendAcc /\ WF(f[i - 1].coins, h)
        /\ f[i] = Spend(f[i - 1], Vin[t][i]) /\ Alike(u[i], Entry(f[i - 1], Vin[t][i])) /\ u[i] \in CoinRec
    BY <1>7, <2>1
  <2> HIDE DEF i
  <2>5. Same(r[k + 1].coins, f[i - 1].coins)
    BY <2>2, <2>3, <2>4, RestoreInverse
  <2> QED BY <2>1, <2>5
<1> HIDE DEF S
<1>11. \A k \in 0..m : k \in S
  BY <1>1, <1>9, <1>10, Upwards
<1>12. Same(r[m].coins, f[0].coins) /\ f[0].coins = c /\ r[m] \in UndoAcc
  <2>1. m - m = 0
    BY <1>1
  <2>2. f[0].coins = c
    BY <1>2 DEF Updates, SpendRun
  <2> QED BY <1>1, <1>5, <1>11, <2>1, <2>2 DEF S
<1> QED BY <1>3, <1>4, <1>12

\* Undo data has an entry for every input of the block.
UndoTyped(u, b) ==
    \A k \in 1..Len(Vtx[b]) : \A j \in 1..Len(Vin[Vtx[b][k]]) : u[k][j] \in CoinRec

\* u fits the run f of block b.
UndoOf(u, f, b, h) ==
    \A k \in 1..Len(Vtx[b]) : \A j \in 1..Len(Vin[Vtx[b][k]]) :
       Alike(u[k][j], UpdateCoins(f[k - 1], Vtx[b][k], h).undo[j])

\* u is the undo data of the block b on top of the coins c, up to the
\* coinstake flag.
UndoFits(u, c, b, h) == UndoTyped(u, b) /\ \E f : ValidRun(f, c, b, h) /\ UndoOf(u, f, b, h)

Indices(n) == [i \in 1..n |-> i]

LEMMA IndicesType ==
    ASSUME NEW n \in Nat
    PROVE  /\ Reversed(Indices(n)) \in Seq(1..n) /\ Len(Reversed(Indices(n))) = n
           /\ \A i \in 1..n : Reversed(Indices(n))[i] = n + 1 - i
<1>1. Indices(n) \in [1..n -> 1..n]
  BY DEF Indices
<1>2. Indices(n) \in Seq(1..n) /\ Len(Indices(n)) = n
  BY <1>1
<1>3. \A i \in 1..n : n + 1 - i \in 1..n /\ Indices(n)[n + 1 - i] = n + 1 - i
  BY DEF Indices
<1> DEFINE s == Indices(n)
<1>4. /\ Reversed(s) \in Seq(1..n) /\ Len(Reversed(s)) = Len(s)
      /\ \A i \in 1..Len(s) : Reversed(s)[i] = s[Len(s) + 1 - i]
  BY <1>2, ReversedFacts
<1> HIDE DEF s
<1>5. Len(s) = n /\ \A i \in 1..n : s[n + 1 - i] = n + 1 - i
  BY <1>2, <1>3 DEF s
<1>6. \A i \in 1..n : Reversed(s)[i] = n + 1 - i
  BY <1>4, <1>5
<1> QED BY <1>4, <1>5, <1>6 DEF s

LEMMA UndoTxType ==
    ASSUME NEW acc \in UndoAcc, NEW t \in Txs, NEW h, NEW u, \A j \in 1..Len(Vin[t]) : u[j] \in CoinRec
    PROVE  UndoTx(acc, t, u, h) \in UndoAcc
<1> DEFINE s == Reversed(Inputs(t, u))
<1>1. PICK r : RestoreRun(r, acc, t, u, h) /\ UndoTx(acc, t, u, h) = r[Len(s)]
  BY RestoreTrace
<1>2. s \in Seq([out : Txs \X Nat, undo : CoinRec])
  BY InputsType, ReversedFacts
<1>3. Len(s) \in Nat /\ Len(s) \in 0..Len(s)
  BY <1>2
<1> QED BY <1>1, <1>3 DEF RestoreRun

\* DisconnectBlock undoes the transactions in reverse order.
DisconnectRun(f, c, b, u, h) ==
    /\ f \in [0..Len(Reversed(Indices(Len(Vtx[b])))) -> UndoAcc] /\ f[0] = [fClean |-> TRUE, coins |-> c]
    /\ \A i \in 1..Len(Reversed(Indices(Len(Vtx[b])))) : f[i] = UndoTx(f[i - 1], Vtx[b][Reversed(Indices(Len(Vtx[b])))[i]], u[Reversed(Indices(Len(Vtx[b])))[i]], h)

LEMMA DisconnectTrace ==
    ASSUME NEW c \in CoinMaps, NEW b \in Blocks, NEW h, NEW u, UndoTyped(u, b)
    PROVE  \E f : DisconnectRun(f, c, b, u, h) /\ DisconnectBlock(c, b, u, h) = f[Len(Reversed(Indices(Len(Vtx[b]))))]
<1> DEFINE n == Len(Reversed(Indices(Len(Vtx[b]))))
           A == UndoAcc
           from == [fClean |-> TRUE, coins |-> c]
           Step(x, i) == UndoTx(x, Vtx[b][Reversed(Indices(Len(Vtx[b])))[i]], u[Reversed(Indices(Len(Vtx[b])))[i]], h)
           Body(f, i) == IF i = 0 THEN from ELSE Step(f[i - 1], i)
           F == CHOOSE f : f = [i \in 0..n |-> Body(f, i)]
           g == [i \in 1..n |-> [x \in A |-> Step(x, i)]]
<1>1. n \in Nat /\ from \in A /\ \A x \in A : \A i \in 1..n : Step(x, i) \in A
  <2>1. from \in A
    BY DEF UndoAcc
  <2>2. Len(Vtx[b]) \in Nat
    BY VtxType
  <2>3. n = Len(Vtx[b]) /\ Reversed(Indices(Len(Vtx[b]))) \in Seq(1..Len(Vtx[b]))
    BY <2>2, IndicesType
  <2>4. n \in Nat /\ \A i \in 1..n : Reversed(Indices(Len(Vtx[b])))[i] \in 1..Len(Vtx[b])
    <3> DEFINE s == Reversed(Indices(Len(Vtx[b])))
    <3> HIDE DEF s
    <3> QED BY <2>3, ElementsType DEF s
  <2>5. ASSUME NEW x \in A, NEW k \in 1..Len(Vtx[b]) PROVE UndoTx(x, Vtx[b][k], u[k], h) \in A
    BY VtxType, UndoTxType DEF UndoTyped
  <2> QED BY <2>1, <2>4, <2>5
<1>2. DisconnectBlock(c, b, u, h) = F[n]
  BY DEF Fold, DisconnectBlock, Indices
<1> HIDE DEF n, A, from, Step
<1>3. \E f : f = [i \in 0..n |-> Body(f, i)]
  <2>1. Maps(g, n, A)
    BY <1>1 DEF Maps
  <2> HIDE DEF g
  <2>2. PICK f : Runs(f, n, A, from, g)
    BY <1>1, <2>1, Iterates
  <2>3. \A i \in 1..n : i - 1 \in 0..n /\ f[i - 1] \in A
    BY <1>1, <2>2 DEF Runs
  <2>4. \A i \in 1..n : g[i][f[i - 1]] = Step(f[i - 1], i)
    BY <2>3 DEF g
  <2>5. \A i \in 0..n : f[i] = Body(f, i)
    <3>1. \A i \in 0..n : i = 0 \/ i \in 1..n
      BY <1>1
    <3> QED BY <2>2, <2>4, <3>1 DEF Runs
  <2>6. f = [i \in 0..n |-> f[i]]
    BY <2>2 DEF Runs
  <2> HIDE DEF Body
  <2> QED BY <2>5, <2>6
<1>4. F = [i \in 0..n |-> Body(F, i)]
  <2> HIDE DEF Body
  <2> QED BY <1>3
<1> HIDE DEF F
<1>5. F[0] = from /\ \A i \in 1..n : F[i] = Step(F[i - 1], i)
  <2>1. \A i \in 0..n : F[i] = Body(F, i)
    <3> HIDE DEF Body
    <3> QED BY <1>4
  <2>2. 0 \in 0..n /\ \A i \in 1..n : i \in 0..n /\ i # 0
    BY <1>1
  <2> QED BY <2>1, <2>2
<1>6. \A i \in 0..n : F[i] \in A
  <2> DEFINE S == {i \in 0..n : F[i] \in A}
  <2>1. 0 \in S
    BY <1>1, <1>5
  <2>2. ASSUME NEW i \in 0..n, i \in S, i < n PROVE i + 1 \in S
    <3>1. i + 1 \in 1..n /\ i + 1 \in 0..n /\ i + 1 - 1 = i
      BY <1>1, <2>2
    <3>2. F[i + 1] = Step(F[i], i + 1)
      BY <1>5, <3>1
    <3> QED BY <1>1, <2>2, <3>1, <3>2
  <2> HIDE DEF S
  <2>3. \A i \in 0..n : i \in S
    BY <1>1, <2>1, <2>2, Upwards
  <2> QED BY <2>3 DEF S
<1>7. F \in [0..n -> A]
  <2>1. F = [i \in 0..n |-> F[i]]
    BY <1>4
  <2> QED BY <1>6, <2>1
<1> QED BY <1>2, <1>5, <1>7 DEF n, A, from, Step, DisconnectRun

\* DisconnectBlock with undo data that fits is the inverse of connecting the
\* block, up to the coinstake flag.
LEMMA DisconnectInverse ==
    ASSUME NEW c \in CoinMaps, NEW b \in Blocks, NEW h \in Nat \ {0}, WF(c, h), NEW u, UndoFits(u, c, b, h),
           NEW d \in CoinMaps, Same(d, ApplyTxs(c, b, h))
    PROVE  DisconnectBlock(d, b, u, h).coins \in CoinMaps /\ Same(DisconnectBlock(d, b, u, h).coins, c)
<1> DEFINE n == Len(Vtx[b])
           s == Reversed(Indices(n))
<1>1. n \in Nat /\ n \in 0..n /\ \A k \in 1..n : Vtx[b][k] \in Txs
  BY VtxType
<1>2. PICK f : ValidRun(f, c, b, h) /\ UndoOf(u, f, b, h)
  BY DEF UndoFits
<1>3. PICK g : ApplyRun(g, c, b, h) /\ ApplyTxs(c, b, h) = g[n]
  BY ApplyTrace
<1>4. UndoTyped(u, b)
  BY DEF UndoFits
<1>5. PICK r : DisconnectRun(r, d, b, u, h) /\ DisconnectBlock(d, b, u, h) = r[Len(s)]
  BY <1>4, DisconnectTrace
<1>6. Len(s) = n /\ \A i \in 1..n : s[i] = n + 1 - i
  BY <1>1, IndicesType
<1> HIDE DEF s
<1>7. /\ \A i \in 0..n : r[i] \in UndoAcc
      /\ r[0].coins = d
      /\ \A i \in 1..n : r[i] = UndoTx(r[i - 1], Vtx[b][s[i]], u[s[i]], h)
  <2>1. /\ r \in [0..Len(s) -> UndoAcc] /\ r[0] = [fClean |-> TRUE, coins |-> d]
        /\ \A i \in 1..Len(s) : r[i] = UndoTx(r[i - 1], Vtx[b][s[i]], u[s[i]], h)
    BY <1>5 DEF DisconnectRun, s
  <2> QED BY <1>6, <2>1
<1>8. ApplyRun(f, c, b, h)
  BY <1>2 DEF ValidRun
<1>9. \A i \in 0..n : f[i] \in CoinMaps /\ WF(f[i], h)
  BY <1>8, ApplyWF
<1>10. Same(r[0].coins, f[n])
  <2>1. Same(f[n], g[n])
    BY <1>1, <1>3, <1>8, ApplySame, SameFacts
  <2> QED BY <1>3, <1>7, <2>1, SameFacts
<1> DEFINE S == {k \in 0..n : Same(r[k].coins, f[n - k])}
<1>11. 0 \in S
  BY <1>1, <1>10
<1>12. ASSUME NEW k \in 0..n, k \in S, k < n PROVE k + 1 \in S
  <2> DEFINE i == n - k
             t == Vtx[b][i]
  <2>1. i \in 1..n /\ n + 1 - (k + 1) = i /\ k + 1 \in 1..n /\ k + 1 - 1 = k /\ n - (k + 1) = i - 1
        /\ k + 1 \in 0..n /\ i - 1 \in 0..n
    BY <1>1, <1>12, Countdown
  <2>2. r[k + 1] = UndoTx(r[k], t, u[i], h)
    <3>1. r[k + 1] = UndoTx(r[k], Vtx[b][s[k + 1]], u[s[k + 1]], h)
      BY <1>7, <2>1
    <3>2. s[k + 1] = i
      BY <1>6, <2>1
    <3> QED BY <3>1, <3>2
  <2>3. Same(r[k].coins, f[i]) /\ r[k] \in UndoAcc
    BY <1>7, <1>12
  <2>4. f[i] = UpdateCoins(f[i - 1], t, h).coins
    BY <1>8, <2>1 DEF ApplyRun
  <2>5. t \in Txs /\ f[i - 1] \in CoinMaps /\ WF(f[i - 1], h)
    BY <1>1, <1>9, <2>1
  <2>6. (\A o \in Prevouts(t) : IsAvailable(f[i - 1], o)) /\ f[i - 1][t].vout = {}
    BY <1>2, <2>1, NothingTwice DEF ValidRun
  <2>7. \A j \in 1..Len(Vin[t]) : u[i][j] \in CoinRec /\ Alike(u[i][j], UpdateCoins(f[i - 1], t, h).undo[j])
    BY <1>2, <1>4, <2>1 DEF UndoTyped, UndoOf
  <2> HIDE DEF i, t
  <2>8. Same(r[k + 1].coins, f[i - 1])
    BY <2>2, <2>3, <2>4, <2>5, <2>6, <2>7, UndoTxInverse
  <2> QED BY <2>1, <2>8
<1> HIDE DEF S
<1>13. \A k \in 0..n : k \in S
  BY <1>1, <1>11, <1>12, Upwards
<1>14. Same(r[n].coins, f[0]) /\ f[0] = c /\ r[n] \in UndoAcc
  <2>1. n - n = 0
    BY <1>1
  <2>2. f[0] = c
    BY <1>8 DEF ApplyRun
  <2> QED BY <1>1, <1>7, <1>13, <2>1, <2>2 DEF S
<1> QED BY <1>5, <1>6, <1>14 DEF UndoAcc

-----------------------------------------------------------------------------
(* The coins of a chain *)

Nothing == [t \in Txs |-> Pruned]

LEMMA NothingFacts == Nothing \in CoinMaps /\ WF(Nothing, 0)
<1>1. \A t \in Txs : Nothing[t] = Pruned
  BY DEF Nothing
<1>2. Nothing \in CoinMaps
  BY PrunedType DEF Nothing, CoinMaps
<1> QED BY <1>1, <1>2, PrunedType DEF WF, Alike

LEMMA WFHigher ==
    ASSUME NEW c \in CoinMaps, NEW h \in Nat, NEW g \in Nat, h <= g, WF(c, h)
    PROVE  WF(c, g)
<1>1. 1..h \subseteq 1..g
  OBVIOUS
<1> QED BY <1>1 DEF WF

LEMMA ApplyType ==
    ASSUME NEW c \in CoinMaps, NEW b \in Blocks, NEW h \in Nat
    PROVE  /\ ApplyTxs(c, b, h) \in CoinMaps
           /\ h # 0 /\ WF(c, h) => WF(ApplyTxs(c, b, h), h)
<1>1. PICK f : ApplyRun(f, c, b, h) /\ ApplyTxs(c, b, h) = f[Len(Vtx[b])]
  BY ApplyTrace
<1>2. Len(Vtx[b]) \in 0..Len(Vtx[b])
  BY VtxType
<1>3. f[Len(Vtx[b])] \in CoinMaps
  BY <1>1, <1>2 DEF ApplyRun
<1>4. h # 0 /\ WF(c, h) => WF(f[Len(Vtx[b])], h)
  BY <1>1, <1>2, ApplyWF
<1> QED BY <1>1, <1>3, <1>4

\* The same block on top of coins that are alike.
LEMMA ApplyTxsSame ==
    ASSUME NEW c \in CoinMaps, NEW d \in CoinMaps, NEW b \in Blocks, NEW h \in Nat \ {0},
           WF(c, h), WF(d, h), Same(c, d), NEW f, ApplyRun(f, c, b, h)
    PROVE  Same(f[Len(Vtx[b])], ApplyTxs(d, b, h))
<1>1. PICK g : ApplyRun(g, d, b, h) /\ ApplyTxs(d, b, h) = g[Len(Vtx[b])]
  BY ApplyTrace
<1>2. Len(Vtx[b]) \in 0..Len(Vtx[b])
  BY VtxType
<1> QED BY <1>1, <1>2, ApplySame

\* The blocks of a path one after the other.
ReplayRun(f, path) ==
    /\ f \in [0..Len(Indices(Len(path))) -> CoinMaps] /\ f[0] = Nothing
    /\ \A i \in 1..Len(Indices(Len(path))) : f[i] = ApplyTxs(f[i - 1], path[Indices(Len(path))[i]], Indices(Len(path))[i])

LEMMA ReplayTrace ==
    ASSUME NEW path \in Seq(Blocks)
    PROVE  \E f : ReplayRun(f, path) /\ ReplayOf(path) = f[Len(Indices(Len(path)))]
<1> DEFINE n == Len(Indices(Len(path)))
           A == CoinMaps
           from == Nothing
           Step(x, i) == ApplyTxs(x, path[Indices(Len(path))[i]], Indices(Len(path))[i])
           Body(f, i) == IF i = 0 THEN from ELSE Step(f[i - 1], i)
           F == CHOOSE f : f = [i \in 0..n |-> Body(f, i)]
           g == [i \in 1..n |-> [x \in A |-> Step(x, i)]]
<1>1. n \in Nat /\ from \in A /\ \A x \in A : \A i \in 1..n : Step(x, i) \in A
  <2>1. Len(path) \in Nat
    OBVIOUS
  <2>2. Indices(Len(path)) \in [1..Len(path) -> 1..Len(path)]
    BY <2>1 DEF Indices
  <2>3. n = Len(path) /\ \A i \in 1..n : Indices(Len(path))[i] \in 1..Len(path)
    BY <2>1, <2>2
  <2>4. ASSUME NEW x \in A, NEW k \in 1..Len(path) PROVE ApplyTxs(x, path[k], k) \in A
    BY ApplyType
  <2> QED BY <2>1, <2>3, <2>4, NothingFacts
<1>2. ReplayOf(path) = F[n]
  BY DEF Fold, ReplayOf, Indices, Nothing
<1> HIDE DEF n, A, from, Step
<1>3. \E f : f = [i \in 0..n |-> Body(f, i)]
  <2>1. Maps(g, n, A)
    BY <1>1 DEF Maps
  <2> HIDE DEF g
  <2>2. PICK f : Runs(f, n, A, from, g)
    BY <1>1, <2>1, Iterates
  <2>3. \A i \in 1..n : i - 1 \in 0..n /\ f[i - 1] \in A
    BY <1>1, <2>2 DEF Runs
  <2>4. \A i \in 1..n : g[i][f[i - 1]] = Step(f[i - 1], i)
    BY <2>3 DEF g
  <2>5. \A i \in 0..n : f[i] = Body(f, i)
    <3>1. \A i \in 0..n : i = 0 \/ i \in 1..n
      BY <1>1
    <3> QED BY <2>2, <2>4, <3>1 DEF Runs
  <2>6. f = [i \in 0..n |-> f[i]]
    BY <2>2 DEF Runs
  <2> HIDE DEF Body
  <2> QED BY <2>5, <2>6
<1>4. F = [i \in 0..n |-> Body(F, i)]
  <2> HIDE DEF Body
  <2> QED BY <1>3
<1> HIDE DEF F
<1>5. F[0] = from /\ \A i \in 1..n : F[i] = Step(F[i - 1], i)
  <2>1. \A i \in 0..n : F[i] = Body(F, i)
    <3> HIDE DEF Body
    <3> QED BY <1>4
  <2>2. 0 \in 0..n /\ \A i \in 1..n : i \in 0..n /\ i # 0
    BY <1>1
  <2> QED BY <2>1, <2>2
<1>6. \A i \in 0..n : F[i] \in A
  <2> DEFINE S == {i \in 0..n : F[i] \in A}
  <2>1. 0 \in S
    BY <1>1, <1>5
  <2>2. ASSUME NEW i \in 0..n, i \in S, i < n PROVE i + 1 \in S
    <3>1. i + 1 \in 1..n /\ i + 1 \in 0..n /\ i + 1 - 1 = i
      BY <1>1, <2>2
    <3>2. F[i + 1] = Step(F[i], i + 1)
      BY <1>5, <3>1
    <3> QED BY <1>1, <2>2, <3>1, <3>2
  <2> HIDE DEF S
  <2>3. \A i \in 0..n : i \in S
    BY <1>1, <2>1, <2>2, Upwards
  <2> QED BY <2>3 DEF S
<1>7. F \in [0..n -> A]
  <2>1. F = [i \in 0..n |-> F[i]]
    BY <1>4
  <2> QED BY <1>6, <2>1
<1> QED BY <1>2, <1>5, <1>7 DEF n, A, from, Step, ReplayRun

\* R are the coins after each of the blocks of path.
CoinsAlong(R, path) ==
    /\ R \in [0..Len(path) -> CoinMaps] /\ R[0] = Nothing
    /\ \A k \in 1..Len(path) : R[k] = ApplyTxs(R[k - 1], path[k], k)

LEMMA ReplayFacts ==
    ASSUME NEW path \in Seq(Blocks)
    PROVE  \E R : CoinsAlong(R, path) /\ ReplayOf(path) = R[Len(path)]
<1> DEFINE s == Indices(Len(path))
<1>1. PICK R : ReplayRun(R, path) /\ ReplayOf(path) = R[Len(s)]
  BY ReplayTrace
<1>2. Len(path) \in Nat
  OBVIOUS
<1>3. s \in [1..Len(path) -> 1..Len(path)]
  BY <1>2 DEF Indices
<1>4. Len(s) = Len(path) /\ \A k \in 1..Len(path) : s[k] = k
  BY <1>2, <1>3 DEF Indices
<1> HIDE DEF s
<1>5. /\ R \in [0..Len(s) -> CoinMaps] /\ R[0] = Nothing
      /\ \A k \in 1..Len(s) : R[k] = ApplyTxs(R[k - 1], path[s[k]], s[k])
  BY <1>1 DEF ReplayRun, s
<1>6. CoinsAlong(R, path)
  BY <1>4, <1>5 DEF CoinsAlong
<1> QED BY <1>1, <1>4, <1>6 DEF s

LEMMA AlongWF ==
    ASSUME NEW path \in Seq(Blocks), NEW R, CoinsAlong(R, path)
    PROVE  \A k \in 0..Len(path) : R[k] \in CoinMaps /\ WF(R[k], k)
<1> DEFINE n == Len(path)
           S == {k \in 0..n : WF(R[k], k)}
<1>1. n \in Nat /\ \A k \in 0..n : R[k] \in CoinMaps
  BY DEF CoinsAlong
<1>2. 0 \in S
  BY <1>1, NothingFacts DEF CoinsAlong
<1>3. ASSUME NEW k \in 0..n, k \in S, k < n PROVE k + 1 \in S
  <2>1. k \in Nat /\ k + 1 \in 1..n /\ k + 1 \in 0..n /\ k + 1 - 1 = k /\ k <= k + 1 /\ k + 1 # 0 /\ k + 1 \in Nat
    BY <1>1, <1>3
  <2>2. R[k + 1] = ApplyTxs(R[k], path[k + 1], k + 1) /\ path[k + 1] \in Blocks
    BY <2>1 DEF CoinsAlong
  <2>3. WF(R[k], k + 1) /\ R[k] \in CoinMaps
    BY <1>1, <1>3, <2>1, WFHigher
  <2>4. WF(R[k + 1], k + 1)
    BY <2>1, <2>2, <2>3, ApplyType
  <2> QED BY <2>1, <2>4
<1> HIDE DEF S
<1>4. \A k \in 0..n : k \in S
  BY <1>1, <1>2, <1>3, Upwards
<1> QED BY <1>1, <1>4 DEF S

LEMMA ReplayWF ==
    ASSUME NEW path \in Seq(Blocks)
    PROVE  ReplayOf(path) \in CoinMaps /\ WF(ReplayOf(path), Len(path))
<1>1. PICK R : CoinsAlong(R, path) /\ ReplayOf(path) = R[Len(path)]
  BY ReplayFacts
<1>2. Len(path) \in 0..Len(path)
  OBVIOUS
<1> QED BY <1>1, <1>2, AlongWF

LEMMA ReplayAppend ==
    ASSUME NEW path \in Seq(Blocks), NEW b \in Blocks
    PROVE  ReplayOf(Append(path, b)) = ApplyTxs(ReplayOf(path), b, Len(path) + 1)
<1> DEFINE n == Len(path)
           long == Append(path, b)
<1>1. n \in Nat /\ n \in 0..n /\ n + 1 \in 1..(n + 1) /\ n + 1 - 1 = n
  OBVIOUS
<1>2. long \in Seq(Blocks) /\ Len(long) = n + 1 /\ long[n + 1] = b /\ \A k \in 1..n : long[k] = path[k]
  OBVIOUS
<1>3. PICK R : CoinsAlong(R, path) /\ ReplayOf(path) = R[n]
  BY ReplayFacts
<1>4. PICK Q : CoinsAlong(Q, long) /\ ReplayOf(long) = Q[n + 1]
  BY <1>2, ReplayFacts
<1> HIDE DEF long
<1> DEFINE S == {k \in 0..n : R[k] = Q[k]}
<1>5. 0 \in S
  BY <1>1, <1>3, <1>4 DEF CoinsAlong
<1>6. ASSUME NEW k \in 0..n, k \in S, k < n PROVE k + 1 \in S
  <2>1. k + 1 \in 1..n /\ k + 1 \in 1..(n + 1) /\ k + 1 \in 0..n /\ k + 1 - 1 = k
    BY <1>1, <1>6
  <2>2. R[k + 1] = ApplyTxs(R[k], path[k + 1], k + 1)
    BY <1>3, <2>1 DEF CoinsAlong
  <2>3. Q[k + 1] = ApplyTxs(Q[k], long[k + 1], k + 1)
    BY <1>2, <1>4, <2>1 DEF CoinsAlong
  <2>4. R[k] = Q[k] /\ long[k + 1] = path[k + 1]
    BY <1>2, <1>6, <2>1
  <2> QED BY <2>1, <2>2, <2>3, <2>4
<1> HIDE DEF S
<1>7. \A k \in 0..n : k \in S
  BY <1>1, <1>5, <1>6, Upwards
<1>8. R[n] = Q[n]
  BY <1>1, <1>7 DEF S
<1>9. Q[n + 1] = ApplyTxs(Q[n], b, n + 1)
  BY <1>1, <1>2, <1>4 DEF CoinsAlong
<1> QED BY <1>3, <1>4, <1>8, <1>9 DEF long

\* A path of the block tree from the block that stays for ever.
IsPath(s) ==
    /\ s \in Seq(Blocks) /\ s # <<>> /\ s[1] = Base
    /\ \A i \in 1..(Len(s) - 1) : s[i + 1] # Base /\ Parent[s[i + 1]] = s[i]

LEMMA PathsAgree ==
    ASSUME NEW s, IsPath(s), NEW r, IsPath(r), s[Len(s)] = r[Len(r)], Len(s) <= Len(r)
    PROVE  s = r
<1> DEFINE n == Len(s)
           m == Len(r)
           S == {k \in 0..(n - 1) : s[n - k] = r[m - k]}
<1>1. s \in Seq(Blocks) /\ r \in Seq(Blocks) /\ n \in Nat \ {0} /\ m \in Nat \ {0} /\ n <= m
  BY DEF IsPath
<1>2. n - 1 \in Nat /\ 0 \in S
  BY <1>1
<1>3. ASSUME NEW k \in 0..(n - 1), k \in S, k < n - 1 PROVE k + 1 \in S
  <2> DEFINE i == n - (k + 1)
             j == m - (k + 1)
  <2>1. i \in 1..(n - 1) /\ j \in 1..(m - 1) /\ i + 1 = n - k /\ j + 1 = m - k /\ k + 1 \in 0..(n - 1)
    BY <1>1, <1>3
  <2>2. Parent[s[i + 1]] = s[i] /\ Parent[r[j + 1]] = r[j]
    BY <2>1 DEF IsPath
  <2>3. s[i + 1] = r[j + 1]
    BY <1>3, <2>1
  <2>4. s[i] = r[j]
    BY <2>2, <2>3
  <2> QED BY <2>1, <2>4
<1> HIDE DEF S
<1>4. \A k \in 0..(n - 1) : k \in S
  BY <1>2, <1>3, Upwards
<1>5. \A k \in 0..(n - 1) : s[n - k] = r[m - k]
  BY <1>4 DEF S
<1>6. n = m
  <2> SUFFICES ASSUME n < m PROVE FALSE
    BY <1>1
  <2>1. n - 1 \in 0..(n - 1) /\ n - (n - 1) = 1 /\ m - (n - 1) = m - n + 1 /\ m - n \in 1..(m - 1)
    BY <1>1
  <2>2. s[1] = r[m - n + 1]
    BY <1>5, <2>1
  <2> QED BY <2>1, <2>2 DEF IsPath
<1>7. ASSUME NEW i \in 1..n PROVE s[i] = r[i]
  <2>1. n - i \in 0..(n - 1) /\ n - (n - i) = i
    BY <1>1
  <2> QED BY <1>5, <1>6, <2>1
<1> HIDE DEF n, m
<1>8. s = [i \in 1..n |-> s[i]] /\ r = [i \in 1..m |-> r[i]]
  BY <1>1 DEF n, m
<1> QED BY <1>6, <1>7, <1>8

\* There is only one path to a block.
LEMMA PathUnique ==
    ASSUME NEW s, IsPath(s), NEW r, IsPath(r), s[Len(s)] = r[Len(r)]
    PROVE  s = r
<1>1. Len(s) \in Nat /\ Len(r) \in Nat
  BY DEF IsPath
<1> QED BY <1>1, PathsAgree

LEMMA SameWF ==
    ASSUME NEW c \in CoinMaps, NEW d \in CoinMaps, NEW h, WF(d, h), Same(c, d)
    PROVE  WF(c, h)
<1> SUFFICES ASSUME NEW q \in Txs
             PROVE  /\ c[q].vout \subseteq 0..(NOut[q] - 1)
                    /\ c[q].vout = {} => Alike(c[q], Pruned)
                    /\ c[q].vout # {} => c[q].nHeight \in 1..h
  BY DEF WF
<1>1. Alike(c[q], d[q])
  BY DEF Same
<1>2. /\ d[q].vout \subseteq 0..(NOut[q] - 1)
      /\ d[q].vout = {} => Alike(d[q], Pruned)
      /\ d[q].vout # {} => d[q].nHeight \in 1..h
  BY DEF WF
<1> QED BY <1>1, <1>2 DEF Alike

\* The undo data that ConnectBlock makes fits coins that are alike.
LEMMA ConnectUndoFits ==
    ASSUME NEW c \in CoinMaps, NEW d \in CoinMaps, NEW b \in Blocks, NEW h \in Nat \ {0},
           WF(c, h), WF(d, h), Same(c, d), NEW f, Connected(f, c, b, h)
    PROVE  UndoFits(ConnectBlock(c, b, h).undo, d, b, h)
<1> DEFINE n == Len(Vtx[b])
           u == ConnectBlock(c, b, h).undo
<1>1. ValidRun(f, c, b, h) /\ ApplyRun(f, c, b, h) /\ MadeUndo(u, f, b, h)
  BY DEF Connected, ValidRun
<1> HIDE DEF u
<1>2. PICK g : ApplyRun(g, d, b, h) /\ ApplyTxs(d, b, h) = g[n]
  BY ApplyTrace
<1>3. \A i \in 0..n : /\ f[i] \in CoinMaps /\ WF(f[i], h) /\ g[i] \in CoinMaps /\ WF(g[i], h)
                      /\ Same(f[i], g[i])
  BY <1>1, <1>2, ApplyWF, ApplySame
<1>4. n \in Nat /\ \A k \in 1..n : k - 1 \in 0..n /\ Vtx[b][k] \in Txs
  <2>1. n \in Nat
    BY VtxType
  <2>2. \A k \in 1..n : Vtx[b][k] \in Txs
    BY VtxType
  <2> QED BY <2>1, <2>2
<1>5. Fresh(d, b)
  <2>1. Fresh(c, b)
    BY <1>1 DEF ValidRun
  <2>2. \A q \in Txs : c[q].vout = d[q].vout
    BY DEF Same, Alike
  <2> QED BY <1>4, <2>1, <2>2 DEF Fresh, HaveCoins
<1>6. ASSUME NEW k \in 1..n, NEW o \in Prevouts(Vtx[b][k]) PROVE IsAvailable(g[k - 1], o)
  <2>1. IsAvailable(f[k - 1], o)
    BY <1>1 DEF ValidRun
  <2>2. o[1] \in Txs
    BY <1>4, PrevoutsRange
  <2>3. Same(f[k - 1], g[k - 1])
    BY <1>3, <1>4
  <2> QED BY <2>1, <2>2, <2>3 DEF IsAvailable, Same, Alike
<1>7. ValidRun(g, d, b, h)
  BY <1>2, <1>5, <1>6 DEF ValidRun
<1>8. ASSUME NEW k \in 1..n, NEW j \in 1..Len(Vin[Vtx[b][k]])
      PROVE  u[k][j] \in CoinRec /\ Alike(u[k][j], UpdateCoins(g[k - 1], Vtx[b][k], h).undo[j])
  <2>1. u[k] = UpdateCoins(f[k - 1], Vtx[b][k], h).undo
    BY <1>1 DEF MadeUndo
  <2>2. /\ f[k - 1] \in CoinMaps /\ WF(f[k - 1], h) /\ g[k - 1] \in CoinMaps /\ WF(g[k - 1], h)
        /\ Same(f[k - 1], g[k - 1]) /\ Vtx[b][k] \in Txs
    BY <1>3, <1>4
  <2> QED BY <2>1, <2>2, UpdateSame
<1>9. UndoTyped(u, b) /\ UndoOf(u, g, b, h)
  BY <1>8 DEF UndoTyped, UndoOf
<1> QED BY <1>7, <1>9 DEF UndoFits, u

\* u is the undo data of b on top of the coins of the path to its parent.
UndoOK(u, b) ==
    \E s : IsPath(s) /\ IsPath(Append(s, b)) /\ UndoFits(u, ReplayOf(s), b, Len(s) + 1)

\* The coins are those of the chain, and the undo data on disk fits.
CoinInv ==
    /\ IsPath(chain)
    /\ coins \in CoinMaps /\ Same(coins, ReplayOf(chain))
    /\ undo = [b \in Blocks |-> undo[b]]
    /\ \A b \in Blocks : undo[b] = None \/ UndoOK(undo[b], b)
    /\ \A k \in 2..Len(chain) : UndoOK(undo[chain[k]], chain[k])

LEMMA CoinInvWF == CoinInv => WF(coins, Len(chain)) /\ chain \in Seq(Blocks) /\ Len(chain) \in Nat \ {0}
<1> SUFFICES ASSUME CoinInv PROVE WF(coins, Len(chain)) /\ chain \in Seq(Blocks) /\ Len(chain) \in Nat \ {0}
  OBVIOUS
<1>1. chain \in Seq(Blocks) /\ chain # <<>>
  BY DEF CoinInv, IsPath
<1>2. Len(chain) \in Nat \ {0}
  BY <1>1
<1>3. ReplayOf(chain) \in CoinMaps /\ WF(ReplayOf(chain), Len(chain))
  BY <1>1, ReplayWF
<1> QED BY <1>1, <1>2, <1>3, SameWF DEF CoinInv

LEMMA CoinInit == Init => CoinInv
<1> SUFFICES ASSUME Init PROVE CoinInv
  OBVIOUS
<1>1. Base \in Blocks /\ chain = <<Base>> /\ chain = Append(<<>>, Base) /\ <<>> \in Seq(Blocks)
  BY MempoolAssumption DEF Init
<1>2. Len(chain) = 1 /\ chain[1] = Base /\ chain \in Seq(Blocks) /\ chain # <<>>
  BY <1>1
<1>3. IsPath(chain)
  BY <1>2 DEF IsPath
<1>4. coins = ApplyTxs(Nothing, Base, 1)
  BY DEF Init, Nothing
<1>5. ReplayOf(<<>>) = Nothing
  <2>1. PICK R : CoinsAlong(R, <<>>) /\ ReplayOf(<<>>) = R[Len(<<>>)]
    BY <1>1, ReplayFacts
  <2>2. Len(<<>>) = 0
    OBVIOUS
  <2> QED BY <2>1, <2>2 DEF CoinsAlong
<1>6. ReplayOf(chain) = ApplyTxs(Nothing, Base, 1)
  <2>1. Len(<<>>) + 1 = 1
    OBVIOUS
  <2> QED BY <1>1, <1>5, <2>1, ReplayAppend
<1>7. coins \in CoinMaps /\ Same(coins, ReplayOf(chain))
  BY <1>1, <1>4, <1>6, NothingFacts, ApplyType, SameFacts
<1>8. undo = [b \in Blocks |-> None]
  BY DEF Init
<1> QED BY <1>2, <1>3, <1>7, <1>8 DEF CoinInv

LEMMA CoinConnect ==
    ASSUME CoinInv, NEW b \in Blocks, ConnectTip(b)
    PROVE  CoinInv'
<1> DEFINE h == Len(chain) + 1
           new == ConnectBlock(coins, b, h)
           R == ReplayOf(chain)
<1>1. /\ b # Base /\ Parent[b] = chain[Len(chain)] /\ new.ok
      /\ coins' = new.coins /\ chain' = Append(chain, b)
      /\ undo' = IF undo[b] = None THEN [undo EXCEPT ![b] = new.undo] ELSE undo
  BY DEF ConnectTip, Tip
<1>2. /\ IsPath(chain) /\ coins \in CoinMaps /\ Same(coins, R)
      /\ chain \in Seq(Blocks) /\ Len(chain) \in Nat \ {0}
  BY CoinInvWF DEF CoinInv
<1>3. h \in Nat \ {0} /\ Len(chain) <= h /\ h \in Nat /\ Len(chain) \in Nat
  BY <1>2
<1>4. R \in CoinMaps /\ WF(R, h) /\ WF(coins, h)
  <2>1. R \in CoinMaps /\ WF(R, Len(chain)) /\ WF(coins, Len(chain))
    BY <1>2, CoinInvWF, ReplayWF
  <2> QED BY <1>2, <1>3, <2>1, WFHigher
<1>5. PICK f : Connected(f, coins, b, h)
  BY <1>1, <1>2, <1>3, ConnectFacts
<1>6. coins' \in CoinMaps /\ Same(coins', ReplayOf(chain'))
  <2>1. coins' = f[Len(Vtx[b])] /\ ApplyRun(f, coins, b, h)
    BY <1>1, <1>5 DEF Connected, ValidRun
  <2>2. f[Len(Vtx[b])] \in CoinMaps
    BY <2>1, VtxType DEF ApplyRun
  <2>3. ReplayOf(chain') = ApplyTxs(R, b, h)
    BY <1>1, <1>2, ReplayAppend
  <2> HIDE DEF h, R
  <2>4. Same(f[Len(Vtx[b])], ApplyTxs(R, b, h))
    BY <1>2, <1>3, <1>4, <2>1, ApplyTxsSame
  <2> QED BY <2>1, <2>2, <2>3, <2>4
<1>7. IsPath(Append(chain, b))
  <2> DEFINE s == Append(chain, b)
  <2>1. s \in Seq(Blocks) /\ s # <<>> /\ Len(s) = Len(chain) + 1 /\ s[Len(chain) + 1] = b
        /\ \A i \in 1..Len(chain) : s[i] = chain[i]
    BY <1>2
  <2>2. 1 \in 1..Len(chain) /\ Len(s) - 1 = Len(chain)
    BY <1>2, <2>1
  <2>3. ASSUME NEW i \in 1..Len(chain) PROVE s[i + 1] # Base /\ Parent[s[i + 1]] = s[i]
    <3>1. CASE i = Len(chain)
      BY <1>1, <2>1, <3>1
    <3>2. CASE i # Len(chain)
      <4>1. i \in 1..(Len(chain) - 1) /\ i + 1 \in 1..Len(chain)
        BY <1>2, <3>2
      <4>2. chain[i + 1] # Base /\ Parent[chain[i + 1]] = chain[i]
        BY <1>2, <4>1 DEF IsPath
      <4> QED BY <2>1, <4>1, <4>2
    <3> QED BY <3>1, <3>2
  <2> HIDE DEF s
  <2>4. s[1] = Base
    BY <1>2, <2>1, <2>2 DEF IsPath
  <2>5. IsPath(s)
    BY <2>1, <2>2, <2>3, <2>4 DEF IsPath
  <2> QED BY <2>5 DEF s
<1>8. UndoOK(new.undo, b)
  <2>1. UndoFits(new.undo, R, b, h)
    <3> HIDE DEF h, R
    <3> QED BY <1>2, <1>3, <1>4, <1>5, ConnectUndoFits
  <2> QED BY <1>2, <1>7, <2>1 DEF UndoOK
<1> HIDE DEF new
<1>9. /\ undo' = [x \in Blocks |-> undo'[x]]
      /\ UndoOK(undo'[b], b)
      /\ \A x \in Blocks \ {b} : undo'[x] = undo[x]
  <2>1. undo = [x \in Blocks |-> undo[x]]
    BY DEF CoinInv
  <2>2. CASE undo[b] = None
    <3>1. undo' = [undo EXCEPT ![b] = new.undo]
      BY <1>1, <2>2
    <3>2. undo'[b] = new.undo /\ \A x \in Blocks \ {b} : undo'[x] = undo[x]
      BY <2>1, <3>1
    <3>3. undo' = [x \in Blocks |-> undo'[x]]
      BY <2>1, <3>1
    <3> QED BY <1>8, <3>2, <3>3
  <2>3. CASE undo[b] # None
    <3>1. undo' = undo
      BY <1>1, <2>3
    <3>2. UndoOK(undo[b], b)
      BY <2>3 DEF CoinInv
    <3> QED BY <2>1, <3>1, <3>2
  <2> QED BY <2>2, <2>3
<1>10. \A x \in Blocks : undo'[x] = None \/ UndoOK(undo'[x], x)
  BY <1>9 DEF CoinInv
<1>11. ASSUME NEW k \in 2..Len(chain') PROVE UndoOK(undo'[chain'[k]], chain'[k])
  <2>1. CASE chain'[k] = b
    BY <1>9, <2>1
  <2>2. CASE chain'[k] # b
    <3>1. Len(chain') = Len(chain) + 1 /\ chain'[Len(chain) + 1] = b
          /\ \A i \in 1..Len(chain) : chain'[i] = chain[i] /\ chain[i] \in Blocks
      BY <1>1, <1>2
    <3>2. k \in 2..Len(chain) /\ k \in 1..Len(chain)
      BY <1>2, <2>2, <3>1
    <3>3. UndoOK(undo[chain[k]], chain[k])
      BY <3>2 DEF CoinInv
    <3>4. chain[k] \in Blocks \ {b} /\ chain'[k] = chain[k]
      BY <2>2, <3>1, <3>2
    <3> QED BY <1>9, <3>3, <3>4
  <2> QED BY <2>1, <2>2
<1> QED BY <1>1, <1>6, <1>7, <1>9, <1>10, <1>11 DEF CoinInv

\* What DisconnectTip finds: the chain is a shorter path and the tip, whose
\* undo data fits the coins of that path.
LEMMA TipOnPath ==
    ASSUME CoinInv, Tip # Base
    PROVE  LET h == Len(chain)
               front == SubSeq(chain, 1, h - 1)
           IN  /\ h \in Nat \ {0, 1} /\ Tip \in Blocks
               /\ front \in Seq(Blocks) /\ IsPath(front) /\ Len(front) = h - 1 /\ chain = Append(front, Tip)
               /\ \A i \in 1..(h - 1) : front[i] = chain[i]
               /\ ReplayOf(front) \in CoinMaps /\ WF(ReplayOf(front), h) /\ WF(ReplayOf(front), h - 1)
               /\ Same(coins, ApplyTxs(ReplayOf(front), Tip, h))
               /\ UndoFits(undo[Tip], ReplayOf(front), Tip, h)
<1> DEFINE h == Len(chain)
           front == SubSeq(chain, 1, h - 1)
<1>1. IsPath(chain) /\ chain \in Seq(Blocks) /\ h \in Nat \ {0}
  BY CoinInvWF DEF CoinInv
<1>2. h # 1
  BY <1>1 DEF Tip, IsPath
<1>3. h \in Nat \ {0, 1} /\ Tip \in Blocks /\ h \in 2..h
  <2>1. h \in Nat /\ h # 0 /\ h # 1 /\ h \in 1..h
    BY <1>1, <1>2
  <2>2. chain[h] \in Blocks
    BY <1>1, <2>1
  <2>3. Tip \in Blocks
    BY <2>2 DEF Tip
  <2>4. h \in Nat \ {0, 1} /\ h \in 2..h
    <3> HIDE DEF h
    <3> QED BY <2>1
  <2> QED BY <2>3, <2>4
<1>4. front \in Seq(Blocks) /\ Len(front) = h - 1 /\ \A i \in 1..(h - 1) : front[i] = chain[i]
  BY <1>1, <1>3
<1> HIDE DEF front
<1>5. chain = Append(front, Tip)
  <2> DEFINE s == Append(front, Tip)
  <2>1. s \in Seq(Blocks) /\ Len(s) = h /\ s[h] = Tip /\ \A i \in 1..(h - 1) : s[i] = front[i]
    BY <1>3, <1>4
  <2> HIDE DEF s
  <2>2. \A i \in 1..h : s[i] = chain[i]
    <3>1. \A i \in 1..h : i = h \/ i \in 1..(h - 1)
      BY <1>3
    <3>2. s[h] = chain[h]
      BY <2>1 DEF Tip
    <3> QED BY <1>4, <2>1, <3>1, <3>2
  <2>3. s = [i \in 1..h |-> s[i]] /\ chain = [i \in 1..h |-> chain[i]]
    BY <1>1, <2>1
  <2>4. s = chain
    BY <2>2, <2>3
  <2> QED BY <2>4 DEF s
<1>6. IsPath(front)
  <2>1. front # <<>> /\ 1 \in 1..(h - 1)
    BY <1>3, <1>4
  <2>2. front[1] = Base
    BY <1>1, <1>4, <2>1 DEF IsPath
  <2>3. ASSUME NEW i \in 1..(Len(front) - 1) PROVE front[i + 1] # Base /\ Parent[front[i + 1]] = front[i]
    <3>1. i \in 1..(h - 1) /\ i + 1 \in 1..(h - 1)
      BY <1>3, <1>4
    <3> QED BY <1>1, <1>4, <3>1 DEF IsPath
  <2> QED BY <1>4, <2>1, <2>2, <2>3 DEF IsPath
<1>7. ReplayOf(front) \in CoinMaps /\ WF(ReplayOf(front), h - 1)
  BY <1>4, ReplayWF
<1>8. WF(ReplayOf(front), h)
  <2>1. h - 1 \in Nat /\ h \in Nat /\ h - 1 <= h
    BY <1>3
  <2> QED BY <1>7, <2>1, WFHigher
<1>9. Len(front) + 1 = h
  BY <1>3, <1>4
<1>10. Same(coins, ApplyTxs(ReplayOf(front), Tip, h))
  <2>1. ReplayOf(Append(front, Tip)) = ApplyTxs(ReplayOf(front), Tip, h)
    BY <1>3, <1>4, <1>9, ReplayAppend
  <2>2. Same(coins, ReplayOf(chain))
    BY DEF CoinInv
  <2> QED BY <1>5, <2>1, <2>2
<1>11. UndoFits(undo[Tip], ReplayOf(front), Tip, h)
  <2>1. UndoOK(undo[Tip], Tip)
    BY <1>3 DEF CoinInv, Tip
  <2>2. PICK s : IsPath(s) /\ IsPath(Append(s, Tip)) /\ UndoFits(undo[Tip], ReplayOf(s), Tip, Len(s) + 1)
    BY <2>1 DEF UndoOK
  <2> DEFINE r == Append(s, Tip)
  <2>3. s \in Seq(Blocks) /\ Len(s) \in Nat /\ r \in Seq(Blocks) /\ Len(r) = Len(s) + 1 /\ r[Len(s) + 1] = Tip
        /\ \A i \in 1..Len(s) : r[i] = s[i]
    BY <1>3, <2>2 DEF IsPath
  <2>4. r = chain
    <3>1. chain[Len(chain)] = Tip /\ r[Len(r)] = Tip
      BY <2>3 DEF Tip
    <3> HIDE DEF r
    <3>2. IsPath(r)
      BY <2>2 DEF r
    <3> QED BY <1>1, <3>1, <3>2, PathUnique
  <2>5. Len(s) = h - 1 /\ \A i \in 1..(h - 1) : s[i] = front[i]
    <3> HIDE DEF r
    <3>1. Len(s) = h - 1
      BY <1>3, <2>3, <2>4
    <3> QED BY <1>4, <2>3, <2>4, <3>1
  <2>6. s = [i \in 1..(h - 1) |-> s[i]] /\ front = [i \in 1..(h - 1) |-> front[i]]
    BY <1>4, <2>3, <2>5
  <2>7. s = front
    BY <2>5, <2>6
  <2> QED BY <1>9, <2>2, <2>7
<1> QED BY <1>3, <1>4, <1>5, <1>6, <1>7, <1>8, <1>10, <1>11 DEF front

LEMMA CoinDisconnect ==
    ASSUME CoinInv, NEW refused, DisconnectTip(refused)
    PROVE  CoinInv'
<1> DEFINE h == Len(chain)
           front == SubSeq(chain, 1, h - 1)
           old == DisconnectBlock(coins, Tip, undo[Tip], h)
<1>1. Tip # Base /\ coins' = old.coins /\ chain' = front /\ undo' = undo
  BY DEF DisconnectTip
<1>2. /\ h \in Nat \ {0, 1} /\ Tip \in Blocks
      /\ front \in Seq(Blocks) /\ IsPath(front) /\ Len(front) = h - 1
      /\ \A i \in 1..(h - 1) : front[i] = chain[i]
      /\ ReplayOf(front) \in CoinMaps /\ WF(ReplayOf(front), h)
      /\ Same(coins, ApplyTxs(ReplayOf(front), Tip, h))
      /\ UndoFits(undo[Tip], ReplayOf(front), Tip, h)
  BY <1>1, TipOnPath
<1>3. coins \in CoinMaps /\ h \in Nat \ {0}
  BY <1>2 DEF CoinInv
<1> HIDE DEF front
<1>4. old.coins \in CoinMaps /\ Same(old.coins, ReplayOf(front))
  <2> HIDE DEF h
  <2> QED BY <1>2, <1>3, DisconnectInverse
<1> HIDE DEF old
<1>5. ASSUME NEW k \in 2..Len(chain') PROVE UndoOK(undo'[chain'[k]], chain'[k])
  <2>1. k \in 2..h /\ k \in 1..(h - 1)
    BY <1>1, <1>2
  <2>2. UndoOK(undo[chain[k]], chain[k]) /\ front[k] = chain[k]
    BY <1>2, <2>1 DEF CoinInv
  <2> QED BY <1>1, <2>2
<1>6. IsPath(chain)' /\ (coins \in CoinMaps)' /\ Same(coins, ReplayOf(chain))'
  BY <1>1, <1>2, <1>4
<1>7. /\ undo' = [b \in Blocks |-> undo'[b]]
      /\ \A b \in Blocks : undo'[b] = None \/ UndoOK(undo'[b], b)
  BY <1>1 DEF CoinInv
<1> QED BY <1>5, <1>6, <1>7 DEF CoinInv

LEMMA CoinQuiet ==
    ASSUME CoinInv, UNCHANGED <<chain, coins, undo>>
    PROVE  CoinInv'
  BY DEF CoinInv

LEMMA CoinNext ==
    ASSUME CoinInv, [WalletNext]_walletVars
    PROVE  CoinInv'
<1>1. CASE \E b \in Blocks : WalletConnectTip(b)
  BY <1>1, CoinConnect DEF WalletConnectTip
<1>2. CASE \E refused \in SUBSET {Vtx[Tip][i] : i \in 1..Len(Vtx[Tip])} : WalletDisconnectTip(refused)
  BY <1>2, CoinDisconnect DEF WalletDisconnectTip
<1>3. CASE UNCHANGED <<chain, coins, undo>>
  BY <1>3, CoinQuiet
<1>4. CASE WalletNext
  <2>1. ASSUME NEW p \in Peers, InitializeNode(p) \/ FinalizeNode(p) PROVE UNCHANGED <<chain, coins, undo>>
    BY <2>1 DEF InitializeNode, FinalizeNode
  <2>2. ASSUME NEW p \in Peers, NEW t \in Txs, NEW refused, ProcessTx(p, t, refused)
        PROVE  UNCHANGED <<chain, coins, undo>>
    BY <2>2 DEF ProcessTx
  <2>3. ASSUME NEW t \in Txs, NEW refused, NEW punish, TryOrphan(t, refused, punish)
        PROVE  UNCHANGED <<chain, coins, undo>>
    BY <2>3 DEF TryOrphan
  <2>4. ASSUME NEW t \in Txs, NEW refused, SubmitTx(t, refused) PROVE UNCHANGED <<chain, coins, undo>>
    BY <2>4 DEF SubmitTx
  <2>5. NextWork => UNCHANGED <<chain, coins, undo>>
    BY DEF NextWork
  <2>6. ASSUME NEW t \in Made, NEW refused, CommitTransaction(t, refused) PROVE UNCHANGED <<chain, coins, undo>>
    BY <2>6 DEF CommitTransaction
  <2>7. ASSUME NEW order \in HashOrders, Restart(order) PROVE UNCHANGED <<chain, coins, undo>>
    BY <2>7 DEF Restart
  <2> QED BY <1>1, <1>2, <1>3, <1>4, <2>1, <2>2, <2>3, <2>4, <2>5, <2>6, <2>7 DEF WalletNext
<1>5. CASE UNCHANGED walletVars
  BY <1>3, <1>5 DEF walletVars, vars
<1> QED BY <1>4, <1>5

LEMMA CoinsExact ==
    ASSUME CoinInv PROVE CoinsMatchChain
<1> SUFFICES ASSUME NEW t \in Txs
             PROVE  [coins[t] EXCEPT !.fCoinStake = FALSE] = [Replay[t] EXCEPT !.fCoinStake = FALSE]
  BY DEF CoinsMatchChain
<1>1. Replay \in CoinMaps
  BY CoinInvWF, ReplayWF DEF Replay
<1>2. coins[t] \in CoinRec /\ Replay[t] \in CoinRec
  BY <1>1 DEF CoinInv, CoinMaps
<1>3. Alike(coins[t], Replay[t])
  BY DEF CoinInv, Same, Replay
<1> QED BY <1>2, <1>3 DEF CoinRec, Alike

\* In every reachable state the coin records and the undo data on disk are
\* those of the active chain and of the block tree, whatever was connected
\* and disconnected before.
THEOREM CoinInvariant == WalletSpec => []CoinInv
<1>1. WalletInit => CoinInv
  BY CoinInit DEF WalletInit
<1>2. CoinInv /\ [WalletNext]_walletVars => CoinInv'
  BY CoinNext
<1> QED BY <1>1, <1>2, PTL DEF WalletSpec

\* However blocks were connected and disconnected, every unspent output,
\* its height and its coinbase flag are what connecting the blocks of the
\* active chain gives (main.cpp ConnectBlock, DisconnectBlock, UpdateCoins;
\* coins.cpp Spend): the undo data that was written when a block was first
\* connected fits whenever the block is disconnected.
THEOREM CoinsFollowChain == WalletSpec => []CoinsMatchChain
  BY CoinInvariant, CoinsExact, PTL

-----------------------------------------------------------------------------
(* CTxMemPool *)

Pools == [mapTx : SUBSET Txs, mapNextTx : [Outpoints -> Txs \cup {None}]]

\* mapNextTx holds exactly the inputs of the transactions of the pool.
Linked(p) ==
    /\ p.mapTx \cap (CoinBases \cup CoinStakes) = {}
    /\ \A u \in p.mapTx : \A o \in Prevouts(u) : p.mapNextTx[o] = u
    /\ \A o \in Outpoints : p.mapNextTx[o] # None =>
          p.mapNextTx[o] \in p.mapTx /\ o \in Prevouts(p.mapNextTx[o])

\* Inputs of the pool come from the pool or are outpoints of W.
Covered(p, W) ==
    \A u \in p.mapTx : \A o \in Prevouts(u) :
       IF o[1] \in p.mapTx THEN o[2] < NOut[o[1]] ELSE o \in W

\* gone contains what depends on its transactions.
Closed(p, gone) == gone \subseteq p.mapTx /\ \A d \in gone : Spenders(p, d) \cap p.mapTx \subseteq gone

LEMMA PoolTypes ==
    ASSUME NEW p \in Pools
    PROVE  /\ p.mapTx \subseteq Txs /\ p.mapNextTx \in [Outpoints -> Txs \cup {None}]
           /\ \A o \in Outpoints : p.mapNextTx[o] \in Txs \cup {None}
           /\ \A t \in Txs : Prevouts(t) \subseteq Outpoints
  BY DEF Pools, Outpoints

LEMMA EmptyFacts ==
    /\ EmptyPool \in Pools /\ Linked(EmptyPool) /\ \A W : Covered(EmptyPool, W)
<1>1. EmptyPool.mapTx = {} /\ EmptyPool.mapNextTx = [o \in Outpoints |-> None]
  BY DEF EmptyPool
<1>2. EmptyPool \in Pools
  BY DEF EmptyPool, Pools
<1> QED BY <1>1, <1>2 DEF Linked, Covered

LEMMA SpendsFrom ==
    ASSUME NEW p \in Pools, Linked(p), NEW u \in p.mapTx, NEW o \in Prevouts(u), o[2] < NOut[o[1]]
    PROVE  u \in Spenders(p, o[1])
<1>1. o \in Outpoints /\ p.mapNextTx[o] = u /\ u \in Txs
  BY PoolTypes DEF Linked
<1>2. u # None
  BY <1>1, MempoolAssumption
<1> QED BY <1>1, <1>2 DEF Spenders

\* WithDependants is closed, and contains what it was asked for.
LEMMA DependantsClosed ==
    ASSUME NEW p \in Pools, NEW S
    PROVE  Closed(p, WithDependants(p, S)) /\ S \cap p.mapTx \subseteq WithDependants(p, S)
<1> DEFINE Good(D) == S \cap p.mapTx \subseteq D /\ \A d \in D : Spenders(p, d) \cap p.mapTx \subseteq D
<1>1. WithDependants(p, S) = {u \in p.mapTx : \A D \in SUBSET p.mapTx : Good(D) => u \in D}
  BY DEF WithDependants
<1>2. ASSUME NEW d \in WithDependants(p, S), NEW u \in Spenders(p, d) \cap p.mapTx
      PROVE  u \in WithDependants(p, S)
  <2>1. \A D \in SUBSET p.mapTx : Good(D) => d \in D
    BY <1>1, <1>2
  <2>2. \A D \in SUBSET p.mapTx : Good(D) => u \in D
    BY <1>2, <2>1
  <2> HIDE DEF Good
  <2> QED BY <1>1, <1>2, <2>2
<1>3. ASSUME NEW u \in S \cap p.mapTx PROVE u \in WithDependants(p, S)
  <2>1. \A D \in SUBSET p.mapTx : Good(D) => u \in D
    OBVIOUS
  <2> HIDE DEF Good
  <2> QED BY <1>1, <2>1
<1>4. WithDependants(p, S) \subseteq p.mapTx
  BY DEF WithDependants
<1> QED BY <1>2, <1>3, <1>4 DEF Closed

LEMMA ErasedType ==
    ASSUME NEW p \in Pools, NEW gone
    PROVE  /\ Erased(p, gone) \in Pools
           /\ Erased(p, gone).mapTx = p.mapTx \ gone
           /\ \A o \in Outpoints : Erased(p, gone).mapNextTx[o] =
                 IF \E u \in gone : o \in Prevouts(u) THEN None ELSE p.mapNextTx[o]
<1> DEFINE next == [o \in Outpoints |-> IF \E u \in gone : o \in Prevouts(u) THEN None ELSE p.mapNextTx[o]]
<1>1. Erased(p, gone) = [mapTx |-> p.mapTx \ gone, mapNextTx |-> next]
  BY DEF Erased
<1>2. next \in [Outpoints -> Txs \cup {None}] /\ p.mapTx \ gone \in SUBSET Txs
  BY PoolTypes
<1>3. \A o \in Outpoints : next[o] = IF \E u \in gone : o \in Prevouts(u) THEN None ELSE p.mapNextTx[o]
  OBVIOUS
<1> HIDE DEF next
<1>4. Erased(p, gone).mapNextTx = next /\ Erased(p, gone).mapTx = p.mapTx \ gone
  BY <1>1
<1> QED BY <1>1, <1>2, <1>3, <1>4 DEF Pools

\* Whatever leaves the pool takes its entries of mapNextTx along.
LEMMA ErasedLinked ==
    ASSUME NEW p \in Pools, Linked(p), NEW gone \in SUBSET p.mapTx
    PROVE  Linked(Erased(p, gone))
<1> DEFINE q == Erased(p, gone)
<1>1. /\ q \in Pools /\ q.mapTx = p.mapTx \ gone
      /\ \A o \in Outpoints : q.mapNextTx[o] = IF \E u \in gone : o \in Prevouts(u) THEN None ELSE p.mapNextTx[o]
  BY ErasedType
<1> HIDE DEF q
<1>2. ASSUME NEW u \in q.mapTx, NEW o \in Prevouts(u) PROVE q.mapNextTx[o] = u
  <2>1. u \in p.mapTx /\ u \notin gone /\ o \in Outpoints /\ p.mapNextTx[o] = u
    BY <1>1, PoolTypes DEF Linked
  <2>2. ASSUME NEW v \in gone, o \in Prevouts(v) PROVE FALSE
    BY <2>1, <2>2 DEF Linked
  <2> QED BY <1>1, <2>1, <2>2
<1>3. ASSUME NEW o \in Outpoints, q.mapNextTx[o] # None
      PROVE  q.mapNextTx[o] \in q.mapTx /\ o \in Prevouts(q.mapNextTx[o])
  <2>1. q.mapNextTx[o] = p.mapNextTx[o] /\ \A u \in gone : o \notin Prevouts(u)
    BY <1>1, <1>3
  <2>2. p.mapNextTx[o] \in p.mapTx /\ o \in Prevouts(p.mapNextTx[o])
    BY <1>3, <2>1 DEF Linked
  <2> QED BY <1>1, <2>1, <2>2
<1>4. q.mapTx \cap (CoinBases \cup CoinStakes) = {}
  BY <1>1 DEF Linked
<1> QED BY <1>2, <1>3, <1>4 DEF Linked, q

\* When everything that depends on the erased transactions goes with them,
\* no input is left without its output.
LEMMA ErasedCovered ==
    ASSUME NEW p \in Pools, Linked(p), NEW W, Covered(p, W), NEW gone, Closed(p, gone)
    PROVE  /\ Erased(p, gone) \in Pools /\ Linked(Erased(p, gone)) /\ Covered(Erased(p, gone), W)
           /\ \A u \in Erased(p, gone).mapTx : \A o \in Prevouts(u) : o[1] \notin gone
<1> DEFINE q == Erased(p, gone)
<1>1. gone \in SUBSET p.mapTx
  BY DEF Closed
<1>2. q \in Pools /\ q.mapTx = p.mapTx \ gone /\ Linked(q)
  BY <1>1, ErasedType, ErasedLinked
<1> HIDE DEF q
<1>3. ASSUME NEW u \in q.mapTx, NEW o \in Prevouts(u) PROVE o[1] \notin gone
  <2>1. u \in p.mapTx \ gone
    BY <1>2
  <2>2. SUFFICES ASSUME o[1] \in gone PROVE FALSE
    OBVIOUS
  <2>3. o[2] < NOut[o[1]]
    BY <1>1, <2>1, <2>2 DEF Covered
  <2>4. u \in Spenders(p, o[1])
    BY <2>1, <2>3, SpendsFrom
  <2> QED BY <2>1, <2>2, <2>4 DEF Closed
<1>4. Covered(q, W)
  <2> SUFFICES ASSUME NEW u \in q.mapTx, NEW o \in Prevouts(u)
               PROVE  IF o[1] \in q.mapTx THEN o[2] < NOut[o[1]] ELSE o \in W
    BY DEF Covered
  <2>1. o[1] \notin gone /\ u \in p.mapTx
    BY <1>2, <1>3
  <2>2. o[1] \in q.mapTx <=> o[1] \in p.mapTx
    BY <1>2, <2>1
  <2> QED BY <2>1, <2>2 DEF Covered
<1> QED BY <1>2, <1>3, <1>4 DEF q

LEMMA CoveredMore ==
    ASSUME NEW p, NEW W, NEW V, Covered(p, W), W \subseteq V
    PROVE  Covered(p, V)
  BY DEF Covered

\* remove with fRecursive leaves nothing that spends an output of t.
LEMMA RemoveFacts ==
    ASSUME NEW p \in Pools, Linked(p), NEW W, Covered(p, W), NEW t
    PROVE  /\ removeRecursive(p, t) \in Pools /\ Linked(removeRecursive(p, t))
           /\ Covered(removeRecursive(p, t), W)
           /\ removeRecursive(p, t).mapTx \subseteq p.mapTx \ {t}
           /\ \A u \in removeRecursive(p, t).mapTx : \A o \in Prevouts(u) :
                 o[1] = t => ~(o[2] < NOut[t])
           /\ \A o \in Outpoints : p.mapNextTx[o] = None => removeRecursive(p, t).mapNextTx[o] = None
           /\ t \in p.mapTx => \A o \in Prevouts(t) : removeRecursive(p, t).mapNextTx[o] = None
<1> DEFINE S == {t} \cup (IF t \in p.mapTx THEN {} ELSE Spenders(p, t))
           gone == WithDependants(p, S)
           q == Erased(p, gone)
<1>1. removeRecursive(p, t) = q
  BY DEF removeRecursive
<1>2. Closed(p, gone) /\ S \cap p.mapTx \subseteq gone
  <2> HIDE DEF S
  <2> QED BY DependantsClosed
<1> HIDE DEF gone
<1>3. q \in Pools /\ Linked(q) /\ Covered(q, W) /\ \A u \in q.mapTx : \A o \in Prevouts(u) : o[1] \notin gone
  BY <1>2, ErasedCovered
<1>4. /\ q.mapTx = p.mapTx \ gone
      /\ \A o \in Outpoints : q.mapNextTx[o] = IF \E u \in gone : o \in Prevouts(u) THEN None ELSE p.mapNextTx[o]
  BY ErasedType
<1> HIDE DEF q
<1>5. q.mapTx \subseteq p.mapTx \ {t}
  BY <1>2, <1>4
<1>6. ASSUME NEW u \in q.mapTx, NEW o \in Prevouts(u), o[1] = t PROVE ~(o[2] < NOut[t])
  <2>1. SUFFICES ASSUME o[2] < NOut[t] PROVE FALSE
    OBVIOUS
  <2>2. u \in p.mapTx /\ u \notin gone
    BY <1>4
  <2>3. u \in Spenders(p, t)
    BY <1>6, <2>1, <2>2, SpendsFrom
  <2>4. t \in gone \/ t \notin p.mapTx
    BY <1>2
  <2> QED BY <1>2, <1>3, <1>6, <2>2, <2>3, <2>4
<1>7. ASSUME t \in p.mapTx, NEW o \in Prevouts(t) PROVE q.mapNextTx[o] = None
  <2>1. t \in gone /\ o \in Outpoints
    BY <1>2, <1>7, PoolTypes
  <2> QED BY <1>4, <2>1
<1>8. \A o \in Outpoints : p.mapNextTx[o] = None => q.mapNextTx[o] = None
  BY <1>4
<1> QED BY <1>1, <1>3, <1>5, <1>6, <1>7, <1>8

LEMMA AddedType ==
    ASSUME NEW p \in Pools, NEW t \in Txs
    PROVE  /\ addUnchecked(p, t) \in Pools
           /\ addUnchecked(p, t).mapTx = p.mapTx \cup {t}
           /\ \A o \in Outpoints : addUnchecked(p, t).mapNextTx[o] =
                 IF o \in Prevouts(t) THEN t ELSE p.mapNextTx[o]
<1> DEFINE next == [o \in Outpoints |-> IF o \in Prevouts(t) THEN t ELSE p.mapNextTx[o]]
<1>1. addUnchecked(p, t) = [mapTx |-> p.mapTx \cup {t}, mapNextTx |-> next]
  BY DEF addUnchecked
<1>2. next \in [Outpoints -> Txs \cup {None}] /\ p.mapTx \cup {t} \in SUBSET Txs
  BY PoolTypes
<1>3. \A o \in Outpoints : next[o] = IF o \in Prevouts(t) THEN t ELSE p.mapNextTx[o]
  OBVIOUS
<1> HIDE DEF next
<1>4. addUnchecked(p, t).mapNextTx = next /\ addUnchecked(p, t).mapTx = p.mapTx \cup {t}
  BY <1>1
<1> QED BY <1>1, <1>2, <1>3, <1>4 DEF Pools

\* The outputs of q are old enough for a block at height h.
Ripe(c, q, h) == c[q].fCoinBase \/ c[q].fCoinStake => h - c[q].nHeight >= COINBASE_MATURITY

\* The outputs that a transaction in a block at height h may spend.
Fine(c, h) == {o \in Outpoints : IsAvailable(c, o) /\ Ripe(c, o[1], h)}

\* t may join the pool p on top of the coins c.
Acceptable(p, c, t, h) ==
    /\ t \notin CoinBases \cup CoinStakes /\ t \notin p.mapTx /\ ~HaveCoins(c, t)
    /\ \A o \in Prevouts(t) : p.mapNextTx[o] = None
    /\ \A o \in Prevouts(t) : IF o[1] \in p.mapTx THEN o[2] < NOut[o[1]] ELSE o \in Fine(c, h)

\* What AcceptToMemoryPool has found when it accepts.
LEMMA AcceptFacts ==
    ASSUME NEW p \in Pools, NEW c, NEW t \in Txs, NEW refused, NEW h,
           AcceptToMemoryPool(p, c, t, refused, h) = "accepted"
    PROVE  Acceptable(p, c, t, h)
<1>1. /\ ~(t \in CoinBases \cup CoinStakes \cup refused \cup p.mapTx)
      /\ ~(\E o \in Prevouts(t) : p.mapNextTx[o] # None)
      /\ ~HaveCoins(c, t)
      /\ \A o \in Prevouts(t) : IF o[1] \in p.mapTx THEN o[2] < NOut[o[1]] ELSE IsAvailable(c, o)
      /\ \A q \in ParentTxs(t) \ p.mapTx : Ripe(c, q, h)
  BY Zenon DEF AcceptToMemoryPool, Ripe
<1>2. ASSUME NEW o \in Prevouts(t), o[1] \notin p.mapTx PROVE o \in Fine(c, h)
  <2>1. o \in Outpoints /\ o[1] \in ParentTxs(t)
    BY PoolTypes, PrevoutsRange
  <2> QED BY <1>1, <1>2, <2>1 DEF Fine
<1> QED BY <1>1, <1>2 DEF Acceptable

\* An accepted transaction joins a consistent pool.
LEMMA AddAccepted ==
    ASSUME NEW p \in Pools, Linked(p), NEW W, Covered(p, W), NEW t \in Txs, NEW c, NEW h, Acceptable(p, c, t, h),
           Fine(c, h) \subseteq W, \A o \in W : o[1] = t => o[2] < NOut[t]
    PROVE  addUnchecked(p, t) \in Pools /\ Linked(addUnchecked(p, t)) /\ Covered(addUnchecked(p, t), W)
<1> DEFINE q == addUnchecked(p, t)
<1>1. /\ q \in Pools /\ q.mapTx = p.mapTx \cup {t}
      /\ \A o \in Outpoints : q.mapNextTx[o] = IF o \in Prevouts(t) THEN t ELSE p.mapNextTx[o]
  BY AddedType
<1>2. /\ t \notin CoinBases \cup CoinStakes /\ t \notin p.mapTx
      /\ \A o \in Prevouts(t) : p.mapNextTx[o] = None
      /\ \A o \in Prevouts(t) : IF o[1] \in p.mapTx THEN o[2] < NOut[o[1]] ELSE o \in Fine(c, h)
  BY DEF Acceptable
<1> HIDE DEF q
<1>3. ASSUME NEW u \in p.mapTx, NEW o \in Prevouts(u) PROVE o \notin Prevouts(t) /\ o \in Outpoints
  <2>1. p.mapNextTx[o] = u /\ u \in Txs /\ u # None
    BY PoolTypes, MempoolAssumption DEF Linked
  <2> QED BY <1>2, <2>1, PoolTypes
<1>4. \A u \in q.mapTx : \A o \in Prevouts(u) : q.mapNextTx[o] = u
  <2>1. ASSUME NEW u \in p.mapTx, NEW o \in Prevouts(u) PROVE q.mapNextTx[o] = u
    BY <1>1, <1>3 DEF Linked
  <2>2. ASSUME NEW o \in Prevouts(t) PROVE q.mapNextTx[o] = t
    BY <1>1, PoolTypes
  <2> QED BY <1>1, <2>1, <2>2
<1>5. \A o \in Outpoints : q.mapNextTx[o] # None => q.mapNextTx[o] \in q.mapTx /\ o \in Prevouts(q.mapNextTx[o])
  BY <1>1 DEF Linked
<1>6. Linked(q)
  <2>1. q.mapTx \cap (CoinBases \cup CoinStakes) = {}
    BY <1>1, <1>2 DEF Linked
  <2> QED BY <1>4, <1>5, <2>1 DEF Linked
<1>7. ASSUME NEW u \in q.mapTx, NEW o \in Prevouts(u)
      PROVE  IF o[1] \in q.mapTx THEN o[2] < NOut[o[1]] ELSE o \in W
  <2>1. IF o[1] \in p.mapTx THEN o[2] < NOut[o[1]] ELSE o \in W
    <3>1. CASE u = t
      BY <1>2, <3>1
    <3>2. CASE u \in p.mapTx
      BY <3>2 DEF Covered
    <3> QED BY <1>1, <3>1, <3>2
  <2> QED BY <1>1, <2>1
<1> QED BY <1>1, <1>6, <1>7 DEF Covered, q

-----------------------------------------------------------------------------
(* The pool when a block is connected *)

LEMMA ConflictType ==
    ASSUME NEW p \in Pools, NEW t, NEW o
    PROVE  removeConflict(p, t, o) \in Pools
<1>1. \A m : removeRecursive(p, m) \in Pools
  BY ErasedType DEF removeRecursive
<1> QED BY <1>1 DEF removeConflict

\* The conflicts of t are removed input by input.
ConflictRun(f, p, t) ==
    /\ f \in [0..Len(Vin[t]) -> Pools] /\ f[0] = p
    /\ \A i \in 1..Len(Vin[t]) : f[i] = removeConflict(f[i - 1], t, Vin[t][i])

LEMMA ConflictTrace ==
    ASSUME NEW p \in Pools, NEW t \in Txs
    PROVE  \E f : ConflictRun(f, p, t) /\ removeConflicts(p, t) = f[Len(Vin[t])]
<1> DEFINE n == Len(Vin[t])
           A == Pools
           from == p
           Step(x, i) == removeConflict(x, t, Vin[t][i])
           Body(f, i) == IF i = 0 THEN from ELSE Step(f[i - 1], i)
           F == CHOOSE f : f = [i \in 0..n |-> Body(f, i)]
           g == [i \in 1..n |-> [x \in A |-> Step(x, i)]]
<1>1. n \in Nat /\ from \in A /\ \A x \in A : \A i \in 1..n : Step(x, i) \in A
  BY VinType, ConflictType
<1>2. removeConflicts(p, t) = F[n]
  BY DEF Fold, removeConflicts
<1> HIDE DEF n, A, from, Step
<1>3. \E f : f = [i \in 0..n |-> Body(f, i)]
  <2>1. Maps(g, n, A)
    BY <1>1 DEF Maps
  <2> HIDE DEF g
  <2>2. PICK f : Runs(f, n, A, from, g)
    BY <1>1, <2>1, Iterates
  <2>3. \A i \in 1..n : i - 1 \in 0..n /\ f[i - 1] \in A
    BY <1>1, <2>2 DEF Runs
  <2>4. \A i \in 1..n : g[i][f[i - 1]] = Step(f[i - 1], i)
    BY <2>3 DEF g
  <2>5. \A i \in 0..n : f[i] = Body(f, i)
    <3>1. \A i \in 0..n : i = 0 \/ i \in 1..n
      BY <1>1
    <3> QED BY <2>2, <2>4, <3>1 DEF Runs
  <2>6. f = [i \in 0..n |-> f[i]]
    BY <2>2 DEF Runs
  <2> HIDE DEF Body
  <2> QED BY <2>5, <2>6
<1>4. F = [i \in 0..n |-> Body(F, i)]
  <2> HIDE DEF Body
  <2> QED BY <1>3
<1> HIDE DEF F
<1>5. F[0] = from /\ \A i \in 1..n : F[i] = Step(F[i - 1], i)
  <2>1. \A i \in 0..n : F[i] = Body(F, i)
    <3> HIDE DEF Body
    <3> QED BY <1>4
  <2>2. 0 \in 0..n /\ \A i \in 1..n : i \in 0..n /\ i # 0
    BY <1>1
  <2> QED BY <2>1, <2>2
<1>6. \A i \in 0..n : F[i] \in A
  <2> DEFINE S == {i \in 0..n : F[i] \in A}
  <2>1. 0 \in S
    BY <1>1, <1>5
  <2>2. ASSUME NEW i \in 0..n, i \in S, i < n PROVE i + 1 \in S
    <3>1. i + 1 \in 1..n /\ i + 1 \in 0..n /\ i + 1 - 1 = i
      BY <1>1, <2>2
    <3>2. F[i + 1] = Step(F[i], i + 1)
      BY <1>5, <3>1
    <3> QED BY <1>1, <2>2, <3>1, <3>2
  <2> HIDE DEF S
  <2>3. \A i \in 0..n : i \in S
    BY <1>1, <2>1, <2>2, Upwards
  <2> QED BY <2>3 DEF S
<1>7. F \in [0..n -> A]
  <2>1. F = [i \in 0..n |-> F[i]]
    BY <1>4
  <2> QED BY <1>6, <2>1
<1> QED BY <1>2, <1>5, <1>7 DEF n, A, from, Step, ConflictRun

LEMMA ConflictFacts ==
    ASSUME NEW p \in Pools, Linked(p), NEW W, Covered(p, W), NEW t \in Txs, t \notin p.mapTx, NEW o \in Outpoints
    PROVE  LET q == removeConflict(p, t, o)
           IN  /\ q \in Pools /\ Linked(q) /\ Covered(q, W) /\ t \notin q.mapTx
               /\ q.mapNextTx[o] = None
               /\ \A r \in Outpoints : p.mapNextTx[r] = None => q.mapNextTx[r] = None
<1>1. CASE p.mapNextTx[o] = None
  BY <1>1 DEF removeConflict
<1>2. CASE p.mapNextTx[o] # None
  <2> DEFINE m == p.mapNextTx[o]
  <2>1. m \in p.mapTx /\ o \in Prevouts(m) /\ m # t
    BY <1>2 DEF Linked
  <2>2. removeConflict(p, t, o) = removeRecursive(p, m)
    BY <1>2, <2>1 DEF removeConflict
  <2> HIDE DEF m
  <2>3. /\ removeRecursive(p, m) \in Pools /\ Linked(removeRecursive(p, m)) /\ Covered(removeRecursive(p, m), W)
        /\ removeRecursive(p, m).mapTx \subseteq p.mapTx
        /\ \A r \in Outpoints : p.mapNextTx[r] = None => removeRecursive(p, m).mapNextTx[r] = None
        /\ \A r \in Prevouts(m) : removeRecursive(p, m).mapNextTx[r] = None
    BY <2>1, RemoveFacts
  <2> QED BY <2>1, <2>2, <2>3
<1> QED BY <1>1, <1>2

\* After removeConflicts nothing in the pool spends an input of t.
LEMMA ConflictsGone ==
    ASSUME NEW p \in Pools, Linked(p), NEW W, Covered(p, W), NEW t \in Txs, t \notin p.mapTx
    PROVE  LET q == removeConflicts(p, t)
           IN  /\ q \in Pools /\ Linked(q) /\ Covered(q, W)
               /\ \A o \in Prevouts(t) : q.mapNextTx[o] = None
<1>1. PICK f : ConflictRun(f, p, t) /\ removeConflicts(p, t) = f[Len(Vin[t])]
  BY ConflictTrace
<1> DEFINE n == Len(Vin[t])
           Free(i) == /\ f[i] \in Pools /\ Linked(f[i]) /\ Covered(f[i], W) /\ t \notin f[i].mapTx
                      /\ \A j \in 1..i : f[i].mapNextTx[Vin[t][j]] = None
           S == {i \in 0..n : Free(i)}
<1>2. n \in Nat /\ f[0] = p /\ \A j \in 1..n : Vin[t][j] \in Outpoints
  BY <1>1, VinType, PoolTypes, PrevoutsRange DEF ConflictRun
<1>3. 0 \in S
  BY <1>2
<1>4. ASSUME NEW i \in 0..n, i \in S, i < n PROVE i + 1 \in S
  <2>1. i + 1 \in 1..n /\ i + 1 \in 0..n /\ i + 1 - 1 = i
    BY <1>2, <1>4
  <2>2. f[i + 1] = removeConflict(f[i], t, Vin[t][i + 1])
    BY <1>1, <2>1 DEF ConflictRun
  <2>3. Free(i) /\ Vin[t][i + 1] \in Outpoints
    BY <1>2, <1>4, <2>1
  <2>4. /\ f[i + 1] \in Pools /\ Linked(f[i + 1]) /\ Covered(f[i + 1], W) /\ t \notin f[i + 1].mapTx
        /\ f[i + 1].mapNextTx[Vin[t][i + 1]] = None
        /\ \A r \in Outpoints : f[i].mapNextTx[r] = None => f[i + 1].mapNextTx[r] = None
    BY <2>2, <2>3, ConflictFacts
  <2>5. ASSUME NEW j \in 1..(i + 1) PROVE f[i + 1].mapNextTx[Vin[t][j]] = None
    <3>1. j = i + 1 \/ j \in 1..i
      BY <1>2
    <3>2. j \in 1..n
      BY <1>2, <2>1
    <3> QED BY <1>2, <2>3, <2>4, <3>1, <3>2
  <2> QED BY <2>1, <2>4, <2>5
<1> HIDE DEF S
<1>5. \A i \in 0..n : i \in S
  BY <1>2, <1>3, <1>4, Upwards
<1>6. Free(n)
  BY <1>2, <1>5 DEF S
<1>7. \A o \in Prevouts(t) : f[n].mapNextTx[o] = None
  BY <1>6, PrevoutsRange
<1> QED BY <1>1, <1>6, <1>7

\* Outputs that survive transaction t of the block.
LEMMA FineKept ==
    ASSUME NEW c \in CoinMaps, NEW t \in Txs, NEW h \in Nat, c[t].vout = {},
           NEW o \in Fine(c, h), o \notin Prevouts(t)
    PROVE  o \in Fine(UpdateCoins(c, t, h).coins, h)
<1> DEFINE d == UpdateCoins(c, t, h).coins
<1>1. o \in Outpoints /\ IsAvailable(c, o) /\ Ripe(c, o[1], h)
  BY DEF Fine
<1>2. o[1] \in Txs /\ o[2] \in Nat /\ o = <<o[1], o[2]>>
  BY <1>1, PrevoutsRange DEF Outpoints
<1>3. o[1] # t
  BY <1>1 DEF IsAvailable
<1>4. /\ \A m \in Nat : m \in d[o[1]].vout <=> m \in c[o[1]].vout /\ <<o[1], m>> \notin Prevouts(t)
      /\ d[o[1]].vout # {} => Kept(d[o[1]], c[o[1]])
  BY <1>2, <1>3, UpdateSummary
<1> HIDE DEF d
<1>5. o[2] \in d[o[1]].vout
  BY <1>1, <1>2, <1>4 DEF IsAvailable
<1>6. Kept(d[o[1]], c[o[1]])
  BY <1>4, <1>5
<1>7. o \in Fine(d, h)
  BY <1>1, <1>5, <1>6 DEF Fine, IsAvailable, Kept, Ripe
<1> QED BY <1>7 DEF d

\* The outputs of a transaction that was in the pool.
LEMMA FineNew ==
    ASSUME NEW c \in CoinMaps, NEW t \in Txs, t \notin CoinBases \cup CoinStakes, NEW h \in Nat,
           NEW o \in Outpoints, o[1] = t, o[2] < NOut[t]
    PROVE  o \in Fine(UpdateCoins(c, t, h).coins, h)
<1> DEFINE d == UpdateCoins(c, t, h).coins
<1>1. d[t] = FromTx(t, h)
  BY UpdateSummary
<1> HIDE DEF d
<1>2. o[2] \in Nat /\ NOut[t] \in Nat
  BY PrevoutsRange, MempoolAssumption DEF Outpoints
<1>3. o[2] \in 0..(NOut[t] - 1)
  BY <1>2
<1>4. d[t].vout = 0..(NOut[t] - 1) /\ ~d[t].fCoinBase /\ ~d[t].fCoinStake
  <2>1. (t \in CoinBases) = FALSE /\ (t \in CoinStakes) = FALSE
    OBVIOUS
  <2>2. FromTx(t, h) = [vout |-> 0..(NOut[t] - 1), nHeight |-> h, fCoinBase |-> FALSE, fCoinStake |-> FALSE]
    BY <2>1, Zenon DEF FromTx
  <2> QED BY <1>1, <2>2
<1>5. o \in Fine(d, h)
  BY <1>3, <1>4 DEF Fine, IsAvailable, Ripe
<1> QED BY <1>5 DEF d

\* One transaction of the block leaves the pool, and what conflicts with it.
LEMMA ForTxFacts ==
    ASSUME NEW p \in Pools, Linked(p), NEW c \in CoinMaps, NEW h \in Nat, Covered(p, Fine(c, h)),
           NEW t \in Txs, c[t].vout = {}
    PROVE  /\ removeForTx(p, t) \in Pools /\ Linked(removeForTx(p, t))
           /\ Covered(removeForTx(p, t), Fine(UpdateCoins(c, t, h).coins, h))
<1> DEFINE d == UpdateCoins(c, t, h).coins
           q == Erased(p, {t} \cap p.mapTx)
           W == Fine(d, h) \cup Prevouts(t)
           r == removeConflicts(q, t)
<1>1. q \in Pools /\ q.mapTx = p.mapTx \ {t} /\ Linked(q)
  <2>1. {t} \cap p.mapTx \in SUBSET p.mapTx /\ p.mapTx \ ({t} \cap p.mapTx) = p.mapTx \ {t}
    OBVIOUS
  <2> QED BY <2>1, ErasedType, ErasedLinked
<1>2. \A o \in Fine(c, h) : o \in W
  BY FineKept
<1>3. removeForTx(p, t) = r
  BY DEF removeForTx
<1> HIDE DEF q
<1>4. ASSUME NEW u \in q.mapTx, NEW o \in Prevouts(u)
      PROVE  IF o[1] \in q.mapTx THEN o[2] < NOut[o[1]] ELSE o \in W
  <2>1. u \in p.mapTx /\ u \in Txs /\ o \in Outpoints
    BY <1>1, PoolTypes
  <2>2. IF o[1] \in p.mapTx THEN o[2] < NOut[o[1]] ELSE o \in Fine(c, h)
    BY <2>1 DEF Covered
  <2>3. CASE o[1] \in p.mapTx /\ o[1] # t
    BY <1>1, <2>2, <2>3
  <2>4. CASE o[1] \in p.mapTx /\ o[1] = t
    <3>1. t \notin CoinBases \cup CoinStakes
      BY <2>4 DEF Linked
    <3>2. o \in Fine(d, h)
      BY <2>1, <2>2, <2>4, <3>1, FineNew
    <3> QED BY <1>1, <2>4, <3>2
  <2>5. CASE o[1] \notin p.mapTx
    BY <1>1, <1>2, <2>2, <2>5
  <2> QED BY <2>3, <2>4, <2>5
<1> HIDE DEF W
<1>5. Covered(q, W) /\ t \notin q.mapTx
  BY <1>1, <1>4 DEF Covered
<1>6. r \in Pools /\ Linked(r) /\ Covered(r, W) /\ \A o \in Prevouts(t) : r.mapNextTx[o] = None
  BY <1>1, <1>5, ConflictsGone
<1> HIDE DEF r
<1>7. Covered(r, Fine(d, h))
  <2> SUFFICES ASSUME NEW u \in r.mapTx, NEW o \in Prevouts(u), o \in W
               PROVE  o \in Fine(d, h)
    BY <1>6 DEF Covered
  <2>1. r.mapNextTx[o] = u /\ u # None
    BY <1>6, PoolTypes, MempoolAssumption DEF Linked
  <2>2. o \notin Prevouts(t)
    BY <1>6, <2>1
  <2> QED BY <2>2 DEF W
<1> QED BY <1>3, <1>6, <1>7

LEMMA ForTxType ==
    ASSUME NEW p \in Pools, NEW t \in Txs
    PROVE  removeForTx(p, t) \in Pools
<1>1. Erased(p, {t} \cap p.mapTx) \in Pools
  BY ErasedType
<1>2. PICK f : ConflictRun(f, Erased(p, {t} \cap p.mapTx), t)
               /\ removeConflicts(Erased(p, {t} \cap p.mapTx), t) = f[Len(Vin[t])]
  BY <1>1, ConflictTrace
<1>3. Len(Vin[t]) \in 0..Len(Vin[t])
  BY VinType
<1> QED BY <1>2, <1>3 DEF ConflictRun, removeForTx

\* The transactions of a block leave the pool one after the other.
ForBlockRun(f, p, b) ==
    /\ f \in [0..Len(Vtx[b]) -> Pools] /\ f[0] = p
    /\ \A i \in 1..Len(Vtx[b]) : f[i] = removeForTx(f[i - 1], Vtx[b][i])

LEMMA ForBlockTrace ==
    ASSUME NEW p \in Pools, NEW b \in Blocks
    PROVE  \E f : ForBlockRun(f, p, b) /\ removeForBlock(p, Vtx[b]) = f[Len(Vtx[b])]
<1> DEFINE n == Len(Vtx[b])
           A == Pools
           from == p
           Step(x, i) == removeForTx(x, Vtx[b][i])
           Body(f, i) == IF i = 0 THEN from ELSE Step(f[i - 1], i)
           F == CHOOSE f : f = [i \in 0..n |-> Body(f, i)]
           g == [i \in 1..n |-> [x \in A |-> Step(x, i)]]
<1>1. n \in Nat /\ from \in A /\ \A x \in A : \A i \in 1..n : Step(x, i) \in A
  BY VtxType, ForTxType
<1>2. removeForBlock(p, Vtx[b]) = F[n]
  BY DEF Fold, removeForBlock
<1> HIDE DEF n, A, from, Step
<1>3. \E f : f = [i \in 0..n |-> Body(f, i)]
  <2>1. Maps(g, n, A)
    BY <1>1 DEF Maps
  <2> HIDE DEF g
  <2>2. PICK f : Runs(f, n, A, from, g)
    BY <1>1, <2>1, Iterates
  <2>3. \A i \in 1..n : i - 1 \in 0..n /\ f[i - 1] \in A
    BY <1>1, <2>2 DEF Runs
  <2>4. \A i \in 1..n : g[i][f[i - 1]] = Step(f[i - 1], i)
    BY <2>3 DEF g
  <2>5. \A i \in 0..n : f[i] = Body(f, i)
    <3>1. \A i \in 0..n : i = 0 \/ i \in 1..n
      BY <1>1
    <3> QED BY <2>2, <2>4, <3>1 DEF Runs
  <2>6. f = [i \in 0..n |-> f[i]]
    BY <2>2 DEF Runs
  <2> HIDE DEF Body
  <2> QED BY <2>5, <2>6
<1>4. F = [i \in 0..n |-> Body(F, i)]
  <2> HIDE DEF Body
  <2> QED BY <1>3
<1> HIDE DEF F
<1>5. F[0] = from /\ \A i \in 1..n : F[i] = Step(F[i - 1], i)
  <2>1. \A i \in 0..n : F[i] = Body(F, i)
    <3> HIDE DEF Body
    <3> QED BY <1>4
  <2>2. 0 \in 0..n /\ \A i \in 1..n : i \in 0..n /\ i # 0
    BY <1>1
  <2> QED BY <2>1, <2>2
<1>6. \A i \in 0..n : F[i] \in A
  <2> DEFINE S == {i \in 0..n : F[i] \in A}
  <2>1. 0 \in S
    BY <1>1, <1>5
  <2>2. ASSUME NEW i \in 0..n, i \in S, i < n PROVE i + 1 \in S
    <3>1. i + 1 \in 1..n /\ i + 1 \in 0..n /\ i + 1 - 1 = i
      BY <1>1, <2>2
    <3>2. F[i + 1] = Step(F[i], i + 1)
      BY <1>5, <3>1
    <3> QED BY <1>1, <2>2, <3>1, <3>2
  <2> HIDE DEF S
  <2>3. \A i \in 0..n : i \in S
    BY <1>1, <2>1, <2>2, Upwards
  <2> QED BY <2>3 DEF S
<1>7. F \in [0..n -> A]
  <2>1. F = [i \in 0..n |-> F[i]]
    BY <1>4
  <2> QED BY <1>6, <2>1
<1> QED BY <1>2, <1>5, <1>7 DEF n, A, from, Step, ForBlockRun

\* When the block is connected, the pool is covered by the new coins.
LEMMA ForBlockFacts ==
    ASSUME NEW p \in Pools, Linked(p), NEW c \in CoinMaps, NEW h \in Nat, Covered(p, Fine(c, h)),
           NEW b \in Blocks, NEW f, ValidRun(f, c, b, h)
    PROVE  /\ removeForBlock(p, Vtx[b]) \in Pools /\ Linked(removeForBlock(p, Vtx[b]))
           /\ Covered(removeForBlock(p, Vtx[b]), Fine(f[Len(Vtx[b])], h))
<1>1. PICK g : ForBlockRun(g, p, b) /\ removeForBlock(p, Vtx[b]) = g[Len(Vtx[b])]
  BY ForBlockTrace
<1> DEFINE n == Len(Vtx[b])
           S == {i \in 0..n : g[i] \in Pools /\ Linked(g[i]) /\ Covered(g[i], Fine(f[i], h))}
<1>2. /\ n \in Nat /\ g[0] = p /\ f[0] = c /\ \A i \in 0..n : f[i] \in CoinMaps
      /\ \A i \in 1..n : f[i] = UpdateCoins(f[i - 1], Vtx[b][i], h).coins /\ g[i] = removeForTx(g[i - 1], Vtx[b][i])
      /\ \A i \in 1..n : Vtx[b][i] \in Txs
  BY <1>1, VtxType DEF ForBlockRun, ValidRun, ApplyRun
<1>3. \A k \in 1..n : f[k - 1][Vtx[b][k]].vout = {}
  BY NothingTwice
<1>4. 0 \in S
  BY <1>2
<1>5. ASSUME NEW i \in 0..n, i \in S, i < n PROVE i + 1 \in S
  <2>1. i + 1 \in 1..n /\ i + 1 \in 0..n /\ i + 1 - 1 = i
    BY <1>2, <1>5
  <2>2. /\ f[i + 1] = UpdateCoins(f[i], Vtx[b][i + 1], h).coins /\ g[i + 1] = removeForTx(g[i], Vtx[b][i + 1])
        /\ f[i][Vtx[b][i + 1]].vout = {} /\ f[i] \in CoinMaps /\ Vtx[b][i + 1] \in Txs
    <3> HIDE DEF n
    <3> DEFINE j == i + 1
    <3>1. f[j] = UpdateCoins(f[j - 1], Vtx[b][j], h).coins /\ g[j] = removeForTx(g[j - 1], Vtx[b][j])
      BY <1>2, <2>1
    <3>2. f[j - 1][Vtx[b][j]].vout = {} /\ Vtx[b][j] \in Txs
      BY <1>2, <1>3, <2>1
    <3> QED BY <1>2, <2>1, <3>1, <3>2
  <2>3. g[i] \in Pools /\ Linked(g[i]) /\ Covered(g[i], Fine(f[i], h))
    BY <1>5
  <2>4. g[i + 1] \in Pools /\ Linked(g[i + 1]) /\ Covered(g[i + 1], Fine(f[i + 1], h))
    BY <2>2, <2>3, ForTxFacts
  <2> QED BY <2>1, <2>4
<1> HIDE DEF S
<1>6. \A i \in 0..n : i \in S
  BY <1>2, <1>4, <1>5, Upwards
<1>7. n \in S
  BY <1>2, <1>6
<1> QED BY <1>1, <1>7 DEF S

-----------------------------------------------------------------------------
(* The pool when a block is disconnected, and when the node starts *)

LEMMA ResurrectType ==
    ASSUME NEW p \in Pools, NEW c, NEW t \in Txs, NEW refused, NEW h
    PROVE  Resurrect(p, c, t, refused, h) \in Pools
<1>1. removeRecursive(p, t) \in Pools
  BY ErasedType DEF removeRecursive
<1> QED BY <1>1, AddedType DEF Resurrect

\* The pool after the transactions of b have come back.
Resurrected(p, c, b, refused, h) == Fold(LAMBDA q, t : Resurrect(q, c, t, refused, h), p, Vtx[b])

\* They come back one after the other.
ResurrectRun(f, p, c, b, refused, h) ==
    /\ f \in [0..Len(Vtx[b]) -> Pools] /\ f[0] = p
    /\ \A i \in 1..Len(Vtx[b]) : f[i] = Resurrect(f[i - 1], c, Vtx[b][i], refused, h)

LEMMA ResurrectTrace ==
    ASSUME NEW p \in Pools, NEW c, NEW b \in Blocks, NEW refused, NEW h
    PROVE  \E f : ResurrectRun(f, p, c, b, refused, h) /\ Resurrected(p, c, b, refused, h) = f[Len(Vtx[b])]
<1> DEFINE n == Len(Vtx[b])
           A == Pools
           from == p
           Step(x, i) == Resurrect(x, c, Vtx[b][i], refused, h)
           Body(f, i) == IF i = 0 THEN from ELSE Step(f[i - 1], i)
           F == CHOOSE f : f = [i \in 0..n |-> Body(f, i)]
           g == [i \in 1..n |-> [x \in A |-> Step(x, i)]]
<1>1. n \in Nat /\ from \in A /\ \A x \in A : \A i \in 1..n : Step(x, i) \in A
  BY VtxType, ResurrectType
<1>2. Resurrected(p, c, b, refused, h) = F[n]
  BY DEF Fold, Resurrected
<1> HIDE DEF n, A, from, Step
<1>3. \E f : f = [i \in 0..n |-> Body(f, i)]
  <2>1. Maps(g, n, A)
    BY <1>1 DEF Maps
  <2> HIDE DEF g
  <2>2. PICK f : Runs(f, n, A, from, g)
    BY <1>1, <2>1, Iterates
  <2>3. \A i \in 1..n : i - 1 \in 0..n /\ f[i - 1] \in A
    BY <1>1, <2>2 DEF Runs
  <2>4. \A i \in 1..n : g[i][f[i - 1]] = Step(f[i - 1], i)
    BY <2>3 DEF g
  <2>5. \A i \in 0..n : f[i] = Body(f, i)
    <3>1. \A i \in 0..n : i = 0 \/ i \in 1..n
      BY <1>1
    <3> QED BY <2>2, <2>4, <3>1 DEF Runs
  <2>6. f = [i \in 0..n |-> f[i]]
    BY <2>2 DEF Runs
  <2> HIDE DEF Body
  <2> QED BY <2>5, <2>6
<1>4. F = [i \in 0..n |-> Body(F, i)]
  <2> HIDE DEF Body
  <2> QED BY <1>3
<1> HIDE DEF F
<1>5. F[0] = from /\ \A i \in 1..n : F[i] = Step(F[i - 1], i)
  <2>1. \A i \in 0..n : F[i] = Body(F, i)
    <3> HIDE DEF Body
    <3> QED BY <1>4
  <2>2. 0 \in 0..n /\ \A i \in 1..n : i \in 0..n /\ i # 0
    BY <1>1
  <2> QED BY <2>1, <2>2
<1>6. \A i \in 0..n : F[i] \in A
  <2> DEFINE S == {i \in 0..n : F[i] \in A}
  <2>1. 0 \in S
    BY <1>1, <1>5
  <2>2. ASSUME NEW i \in 0..n, i \in S, i < n PROVE i + 1 \in S
    <3>1. i + 1 \in 1..n /\ i + 1 \in 0..n /\ i + 1 - 1 = i
      BY <1>1, <2>2
    <3>2. F[i + 1] = Step(F[i], i + 1)
      BY <1>5, <3>1
    <3> QED BY <1>1, <2>2, <3>1, <3>2
  <2> HIDE DEF S
  <2>3. \A i \in 0..n : i \in S
    BY <1>1, <2>1, <2>2, Upwards
  <2> QED BY <2>3 DEF S
<1>7. F \in [0..n -> A]
  <2>1. F = [i \in 0..n |-> F[i]]
    BY <1>4
  <2> QED BY <1>6, <2>1
<1> QED BY <1>2, <1>5, <1>7 DEF n, A, from, Step, ResurrectRun

\* Outputs of the coins c, and of the transactions of b after the k-th.
Owed(c, b, k) ==
    {o \in Outpoints : \/ IsAvailable(c, o)
                       \/ o[2] < NOut[o[1]] /\ \E j \in 1..Len(Vtx[b]) : k < j /\ Vtx[b][j] = o[1]}

LEMMA ResurrectFacts ==
    ASSUME NEW p \in Pools, Linked(p), NEW c \in CoinMaps, NEW b \in Blocks, NEW k \in Nat, k + 1 \in 1..Len(Vtx[b]),
           Covered(p, Owed(c, b, k)), NEW refused, NEW h
    PROVE  LET q == Resurrect(p, c, Vtx[b][k + 1], refused, h)
           IN  q \in Pools /\ Linked(q) /\ Covered(q, Owed(c, b, k + 1))
<1> DEFINE t == Vtx[b][k + 1]
           q == Resurrect(p, c, t, refused, h)
           W == Owed(c, b, k)
           V == Owed(c, b, k + 1)
<1>1. t \in Txs
  BY VtxType
<1>2. \A o \in W : o \in V \/ (o[1] = t /\ o[2] < NOut[t])
  <2>1. \A j \in 1..Len(Vtx[b]) : k < j => j = k + 1 \/ k + 1 < j
    BY VtxType
  <2> QED BY <2>1 DEF Owed
<1> HIDE DEF t, W, V
<1>3. CASE AcceptToMemoryPool(p, c, t, refused, h) = "accepted"
  <2>1. Acceptable(p, c, t, h)
    BY <1>1, <1>3, AcceptFacts
  <2>2. Fine(c, h) \subseteq W
    BY DEF Fine, Owed, W
  <2>3. \A o \in W : o[1] = t => o[2] < NOut[t]
    <3>1. ~HaveCoins(c, t)
      BY <2>1 DEF Acceptable
    <3> QED BY <3>1 DEF Owed, W, IsAvailable, HaveCoins
  <2>4. q = addUnchecked(p, t)
    BY <1>3 DEF Resurrect
  <2>5. Covered(p, W)
    BY DEF W
  <2>6. q \in Pools /\ Linked(q) /\ Covered(q, W)
    BY <1>1, <2>1, <2>2, <2>3, <2>4, <2>5, AddAccepted
  <2>7. t \in q.mapTx
    BY <1>1, <2>4, AddedType
  <2> HIDE DEF q
  <2>8. Covered(q, V)
    BY <1>2, <2>6, <2>7 DEF Covered
  <2> QED BY <2>6, <2>8 DEF q, t, V
<1>4. CASE AcceptToMemoryPool(p, c, t, refused, h) # "accepted"
  <2>1. q = removeRecursive(p, t)
    BY <1>4 DEF Resurrect
  <2>2. Covered(p, W)
    BY DEF W
  <2>3. /\ q \in Pools /\ Linked(q) /\ Covered(q, W)
        /\ \A u \in q.mapTx : \A o \in Prevouts(u) : o[1] = t => ~(o[2] < NOut[t])
    BY <2>1, <2>2, RemoveFacts
  <2> HIDE DEF q
  <2>4. Covered(q, V)
    BY <1>2, <2>3 DEF Covered
  <2> QED BY <2>3, <2>4 DEF q, t, V
<1> QED BY <1>3, <1>4

LEMMA ResurrectedFacts ==
    ASSUME NEW p \in Pools, Linked(p), NEW c \in CoinMaps, NEW b \in Blocks, Covered(p, Owed(c, b, 0)),
           NEW refused, NEW h
    PROVE  LET q == Resurrected(p, c, b, refused, h)
           IN  q \in Pools /\ Linked(q) /\ Covered(q, {o \in Outpoints : IsAvailable(c, o)})
<1>1. PICK f : ResurrectRun(f, p, c, b, refused, h) /\ Resurrected(p, c, b, refused, h) = f[Len(Vtx[b])]
  BY ResurrectTrace
<1> DEFINE n == Len(Vtx[b])
           S == {i \in 0..n : f[i] \in Pools /\ Linked(f[i]) /\ Covered(f[i], Owed(c, b, i))}
<1>2. n \in Nat /\ f[0] = p
  BY <1>1, VtxType DEF ResurrectRun
<1>3. 0 \in S
  BY <1>2
<1>4. ASSUME NEW i \in 0..n, i \in S, i < n PROVE i + 1 \in S
  <2>1. i \in Nat /\ i + 1 \in 1..n /\ i + 1 \in 0..n /\ i + 1 - 1 = i
    BY <1>2, <1>4
  <2>2. f[i + 1] = Resurrect(f[i], c, Vtx[b][i + 1], refused, h)
    BY <1>1, <2>1 DEF ResurrectRun
  <2>3. f[i] \in Pools /\ Linked(f[i]) /\ Covered(f[i], Owed(c, b, i))
    BY <1>4
  <2>4. f[i + 1] \in Pools /\ Linked(f[i + 1]) /\ Covered(f[i + 1], Owed(c, b, i + 1))
    BY <2>1, <2>2, <2>3, ResurrectFacts
  <2> QED BY <2>1, <2>4
<1> HIDE DEF S
<1>5. \A i \in 0..n : i \in S
  BY <1>2, <1>3, <1>4, Upwards
<1>6. f[n] \in Pools /\ Linked(f[n]) /\ Covered(f[n], Owed(c, b, n))
  BY <1>2, <1>5 DEF S
<1>7. Owed(c, b, n) \subseteq {o \in Outpoints : IsAvailable(c, o)}
  <2>1. \A j \in 1..n : ~(n < j)
    BY <1>2
  <2> QED BY <2>1 DEF Owed
<1>8. Covered(f[n], {o \in Outpoints : IsAvailable(c, o)})
  BY <1>6, <1>7, CoveredMore
<1> QED BY <1>1, <1>6, <1>8

\* removeCoinbaseSpends leaves only spends of coins that are old enough.
LEMMA SpendsRemoved ==
    ASSUME NEW p \in Pools, Linked(p), NEW c \in CoinMaps, NEW h \in Nat,
           Covered(p, {o \in Outpoints : IsAvailable(c, o)})
    PROVE  LET q == removeCoinbaseSpends(p, c, h)
           IN  q \in Pools /\ Linked(q) /\ Covered(q, Fine(c, h))
<1> DEFINE W == {o \in Outpoints : IsAvailable(c, o)}
           Young(r) == \/ ~HaveCoins(c, r)
                       \/ (c[r].fCoinBase \/ c[r].fCoinStake) /\ h - c[r].nHeight < COINBASE_MATURITY
           S == {t \in p.mapTx : \E r \in ParentTxs(t) \ p.mapTx : Young(r)}
           gone == WithDependants(p, S)
           q == Erased(p, gone)
<1>1. removeCoinbaseSpends(p, c, h) = q
  BY DEF removeCoinbaseSpends
<1>2. Closed(p, gone) /\ S \subseteq gone
  <2>1. S \cap p.mapTx = S
    OBVIOUS
  <2> HIDE DEF S
  <2> QED BY <2>1, DependantsClosed
<1> HIDE DEF gone
<1>3. /\ q \in Pools /\ Linked(q) /\ Covered(q, W)
      /\ \A u \in q.mapTx : \A o \in Prevouts(u) : o[1] \notin gone
  BY <1>2, ErasedCovered
<1>4. q.mapTx = p.mapTx \ gone
  BY ErasedType
<1> HIDE DEF q
<1>5. ASSUME NEW u \in q.mapTx, NEW o \in Prevouts(u), o[1] \notin q.mapTx PROVE o \in Fine(c, h)
  <2>1. u \in Txs /\ o[1] \in Txs /\ o[1] \in ParentTxs(u) /\ o \in Outpoints /\ u \notin S /\ u \in p.mapTx
    BY <1>2, <1>4, PoolTypes, PrevoutsRange
  <2>2. o[1] \notin p.mapTx
    BY <1>3, <1>4, <1>5
  <2>3. ~Young(o[1])
    BY <2>1, <2>2
  <2>4. o \in W
    BY <1>3, <1>5 DEF Covered
  <2>5. c[o[1]].nHeight \in Nat /\ COINBASE_MATURITY \in Nat
    BY <2>1, MempoolAssumption DEF CoinMaps, CoinRec
  <2>6. Ripe(c, o[1], h)
    BY <2>3, <2>5 DEF Ripe
  <2> QED BY <2>1, <2>4, <2>6 DEF Fine
<1>6. Covered(q, Fine(c, h))
  BY <1>3, <1>5 DEF Covered
<1> QED BY <1>1, <1>3, <1>6

LEMMA ReacceptType ==
    ASSUME NEW p \in Pools, NEW t \in Txs
    PROVE  Reaccept(p, t) \in Pools
  BY AddedType DEF Reaccept

\* The transactions of the wallet are offered one after the other.
ReacceptRun(f, order) ==
    /\ f \in [0..Len(order) -> Pools] /\ f[0] = EmptyPool
    /\ \A i \in 1..Len(order) : f[i] = Reaccept(f[i - 1], order[i])

LEMMA ReacceptTrace ==
    ASSUME NEW order \in Seq(Txs)
    PROVE  \E f : ReacceptRun(f, order) /\ Fold(Reaccept, EmptyPool, order) = f[Len(order)]
<1> DEFINE n == Len(order)
           A == Pools
           from == EmptyPool
           Step(x, i) == Reaccept(x, order[i])
           Body(f, i) == IF i = 0 THEN from ELSE Step(f[i - 1], i)
           F == CHOOSE f : f = [i \in 0..n |-> Body(f, i)]
           g == [i \in 1..n |-> [x \in A |-> Step(x, i)]]
<1>1. n \in Nat /\ from \in A /\ \A x \in A : \A i \in 1..n : Step(x, i) \in A
  BY EmptyFacts, ReacceptType, ElementsType
<1>2. Fold(Reaccept, EmptyPool, order) = F[n]
  BY DEF Fold
<1> HIDE DEF n, A, from, Step
<1>3. \E f : f = [i \in 0..n |-> Body(f, i)]
  <2>1. Maps(g, n, A)
    BY <1>1 DEF Maps
  <2> HIDE DEF g
  <2>2. PICK f : Runs(f, n, A, from, g)
    BY <1>1, <2>1, Iterates
  <2>3. \A i \in 1..n : i - 1 \in 0..n /\ f[i - 1] \in A
    BY <1>1, <2>2 DEF Runs
  <2>4. \A i \in 1..n : g[i][f[i - 1]] = Step(f[i - 1], i)
    BY <2>3 DEF g
  <2>5. \A i \in 0..n : f[i] = Body(f, i)
    <3>1. \A i \in 0..n : i = 0 \/ i \in 1..n
      BY <1>1
    <3> QED BY <2>2, <2>4, <3>1 DEF Runs
  <2>6. f = [i \in 0..n |-> f[i]]
    BY <2>2 DEF Runs
  <2> HIDE DEF Body
  <2> QED BY <2>5, <2>6
<1>4. F = [i \in 0..n |-> Body(F, i)]
  <2> HIDE DEF Body
  <2> QED BY <1>3
<1> HIDE DEF F
<1>5. F[0] = from /\ \A i \in 1..n : F[i] = Step(F[i - 1], i)
  <2>1. \A i \in 0..n : F[i] = Body(F, i)
    <3> HIDE DEF Body
    <3> QED BY <1>4
  <2>2. 0 \in 0..n /\ \A i \in 1..n : i \in 0..n /\ i # 0
    BY <1>1
  <2> QED BY <2>1, <2>2
<1>6. \A i \in 0..n : F[i] \in A
  <2> DEFINE S == {i \in 0..n : F[i] \in A}
  <2>1. 0 \in S
    BY <1>1, <1>5
  <2>2. ASSUME NEW i \in 0..n, i \in S, i < n PROVE i + 1 \in S
    <3>1. i + 1 \in 1..n /\ i + 1 \in 0..n /\ i + 1 - 1 = i
      BY <1>1, <2>2
    <3>2. F[i + 1] = Step(F[i], i + 1)
      BY <1>5, <3>1
    <3> QED BY <1>1, <2>2, <3>1, <3>2
  <2> HIDE DEF S
  <2>3. \A i \in 0..n : i \in S
    BY <1>1, <2>1, <2>2, Upwards
  <2> QED BY <2>3 DEF S
<1>7. F \in [0..n -> A]
  <2>1. F = [i \in 0..n |-> F[i]]
    BY <1>4
  <2> QED BY <1>6, <2>1
<1> QED BY <1>2, <1>5, <1>7 DEF n, A, from, Step, ReacceptRun

-----------------------------------------------------------------------------
(* The pool in every reachable state *)

LoopRec == [work : Seq(Txs), i : Nat, tried : SUBSET Txs, erase : SUBSET Txs, bad : SUBSET (Peers \cup {None})]

\* The pool is consistent, every input of it from outside is an output that
\* a transaction of the next block may spend, and the state of the tx handler
\* has its type.
PoolInv ==
    /\ pool \in Pools /\ Linked(pool) /\ Covered(pool, Fine(coins, Len(chain) + 1))
    /\ peers \subseteq Peers /\ loop \in LoopRec

\* Fine outputs belong to transactions whose coins exist.
LEMMA FineHas ==
    ASSUME NEW c, NEW h, NEW t, ~HaveCoins(c, t)
    PROVE  \A o \in Fine(c, h) : o[1] = t => o[2] < NOut[t]
  BY DEF Fine, HaveCoins, IsAvailable

\* AcceptToMemoryPool and addUnchecked on the coins of the chain.
LEMMA AcceptKeeps ==
    ASSUME NEW p \in Pools, Linked(p), NEW c, NEW h, Covered(p, Fine(c, h)), NEW t \in Txs, NEW refused,
           AcceptToMemoryPool(p, c, t, refused, h) = "accepted"
    PROVE  addUnchecked(p, t) \in Pools /\ Linked(addUnchecked(p, t)) /\ Covered(addUnchecked(p, t), Fine(c, h))
<1>1. Acceptable(p, c, t, h)
  BY AcceptFacts
<1>2. ~HaveCoins(c, t)
  BY <1>1 DEF Acceptable
<1>3. \A o \in Fine(c, h) : o[1] = t => o[2] < NOut[t]
  BY <1>2, FineHas
<1> QED BY <1>1, <1>3, AddAccepted

LEMMA ReacceptFacts ==
    ASSUME NEW order \in Seq(Txs)
    PROVE  LET q == Fold(Reaccept, EmptyPool, order)
           IN  q \in Pools /\ Linked(q) /\ Covered(q, Fine(coins, Len(chain) + 1))
<1>1. PICK f : ReacceptRun(f, order) /\ Fold(Reaccept, EmptyPool, order) = f[Len(order)]
  BY ReacceptTrace
<1> DEFINE n == Len(order)
           W == Fine(coins, Len(chain) + 1)
           S == {i \in 0..n : f[i] \in Pools /\ Linked(f[i]) /\ Covered(f[i], W)}
<1>2. n \in Nat /\ f[0] = EmptyPool /\ \A i \in 1..n : order[i] \in Txs
  BY <1>1, ElementsType DEF ReacceptRun
<1>3. 0 \in S
  BY <1>2, EmptyFacts
<1>4. ASSUME NEW i \in 0..n, i \in S, i < n PROVE i + 1 \in S
  <2>1. i + 1 \in 1..n /\ i + 1 \in 0..n /\ i + 1 - 1 = i
    BY <1>2, <1>4
  <2>2. f[i + 1] = Reaccept(f[i], order[i + 1])
    BY <1>1, <2>1 DEF ReacceptRun
  <2>3. f[i] \in Pools /\ Linked(f[i]) /\ Covered(f[i], W) /\ order[i + 1] \in Txs
    BY <1>2, <1>4, <2>1
  <2>4. CASE f[i + 1] = f[i]
    BY <2>1, <2>3, <2>4
  <2>5. CASE /\ f[i + 1] = addUnchecked(f[i], order[i + 1])
             /\ AcceptToMemoryPool(f[i], coins, order[i + 1], {}, Len(chain) + 1) = "accepted"
    BY <2>1, <2>3, <2>5, AcceptKeeps
  <2> QED BY <2>2, <2>4, <2>5 DEF Reaccept
<1> HIDE DEF S
<1>5. \A i \in 0..n : i \in S
  BY <1>2, <1>3, <1>4, Upwards
<1>6. n \in S
  BY <1>2, <1>5
<1> QED BY <1>1, <1>6 DEF S

LEMMA PoolInit == Init => PoolInv
<1>1. NoLoop \in LoopRec
  BY DEF NoLoop, LoopRec
<1> QED BY <1>1, EmptyFacts DEF Init, PoolInv

LEMMA PoolQuiet ==
    ASSUME PoolInv, UNCHANGED <<pool, coins, chain>>, peers' \subseteq Peers, loop' \in LoopRec
    PROVE  PoolInv'
  BY DEF PoolInv

\* A step that only offers t to the pool.
LEMMA PoolOffer ==
    ASSUME PoolInv, UNCHANGED <<coins, chain, peers>>, loop' \in LoopRec, NEW t \in Txs, NEW refused,
           \/ pool' = pool
           \/ /\ pool' = addUnchecked(pool, t)
              /\ AcceptToMemoryPool(pool, coins, t, refused, Len(chain) + 1) = "accepted"
    PROVE  PoolInv'
<1>1. pool \in Pools /\ Linked(pool) /\ Covered(pool, Fine(coins, Len(chain) + 1))
  BY DEF PoolInv
<1>2. pool' \in Pools /\ Linked(pool') /\ Covered(pool', Fine(coins, Len(chain) + 1))
  BY <1>1, AcceptKeeps
<1> QED BY <1>2 DEF PoolInv

\* What may be spent now may be spent later.
LEMMA FineLater ==
    ASSUME NEW c \in CoinMaps, NEW h \in Nat, NEW g \in Nat, h <= g
    PROVE  Fine(c, h) \subseteq Fine(c, g)
<1> SUFFICES ASSUME NEW o \in Fine(c, h) PROVE o \in Fine(c, g)
  OBVIOUS
<1>1. o \in Outpoints /\ o[1] \in Txs
  BY PrevoutsRange DEF Fine, Outpoints
<1>2. c[o[1]].nHeight \in Nat /\ COINBASE_MATURITY \in Nat
  BY <1>1, MempoolAssumption DEF CoinMaps, CoinRec
<1>3. h - c[o[1]].nHeight >= COINBASE_MATURITY => g - c[o[1]].nHeight >= COINBASE_MATURITY
  BY <1>2
<1>4. IsAvailable(c, o) /\ Ripe(c, o[1], h)
  BY DEF Fine
<1>5. Ripe(c, o[1], g)
  BY <1>3, <1>4 DEF Ripe
<1> QED BY <1>1, <1>4, <1>5 DEF Fine

LEMMA PoolConnect ==
    ASSUME CoinInv, PoolInv, NEW b \in Blocks, ConnectTip(b)
    PROVE  PoolInv'
<1> DEFINE h == Len(chain) + 1
           new == ConnectBlock(coins, b, h)
<1>1. /\ new.ok /\ coins' = new.coins /\ pool' = removeForBlock(pool, Vtx[b]) /\ chain' = Append(chain, b)
      /\ UNCHANGED <<peers, loop>>
  BY DEF ConnectTip
<1>2. h \in Nat /\ coins \in CoinMaps /\ chain \in Seq(Blocks)
  BY CoinInvWF DEF CoinInv
<1>3. Len(chain') = h
  BY <1>1, <1>2
<1>4. pool \in Pools /\ Linked(pool) /\ Covered(pool, Fine(coins, h))
  BY DEF PoolInv
<1> HIDE DEF h
<1>5. PICK f : Connected(f, coins, b, h)
  BY <1>1, <1>2, ConnectFacts
<1>6. ValidRun(f, coins, b, h) /\ coins' = f[Len(Vtx[b])]
  BY <1>1, <1>5 DEF Connected
<1>7. pool' \in Pools /\ Linked(pool') /\ Covered(pool', Fine(coins', h))
  BY <1>1, <1>2, <1>4, <1>6, ForBlockFacts
<1>8. coins' \in CoinMaps
  <2>1. Len(Vtx[b]) \in 0..Len(Vtx[b])
    BY VtxType
  <2> QED BY <1>6, <2>1 DEF ValidRun, ApplyRun
<1>9. Covered(pool', Fine(coins', h + 1))
  <2>1. h + 1 \in Nat /\ h <= h + 1
    BY <1>2
  <2>2. Fine(coins', h) \subseteq Fine(coins', h + 1)
    BY <1>2, <1>8, <2>1, FineLater
  <2> QED BY <1>7, <2>2, CoveredMore
<1> QED BY <1>1, <1>3, <1>7, <1>9 DEF PoolInv

\* An output that is there before the block is undone is there afterwards,
\* unless a transaction of the block made it.
LEMMA MadeOrKept ==
    ASSUME NEW c \in CoinMaps, NEW d \in CoinMaps, NEW e \in CoinMaps, NEW b \in Blocks, NEW h \in Nat,
           NEW g \in Nat, WF(d, g), Same(d, ApplyTxs(c, b, h)), Same(e, c), NEW o \in Outpoints, IsAvailable(d, o)
    PROVE  o \in Owed(e, b, 0)
<1>1. o[1] \in Txs /\ o[2] \in Nat /\ o[2] \in d[o[1]].vout
  BY PrevoutsRange DEF Outpoints, IsAvailable
<1>2. o[2] < NOut[o[1]]
  <2>1. o[2] \in 0..(NOut[o[1]] - 1) /\ NOut[o[1]] \in Nat
    BY <1>1, MempoolAssumption DEF WF
  <2> QED BY <2>1
<1>3. PICK f : ApplyRun(f, c, b, h) /\ ApplyTxs(c, b, h) = f[Len(Vtx[b])]
  BY ApplyTrace
<1>4. o[2] \in f[Len(Vtx[b])][o[1]].vout /\ f[0] = c
  BY <1>1, <1>3 DEF Same, Alike, ApplyRun
<1>5. 0 \in 0..Len(Vtx[b]) /\ Len(Vtx[b]) \in 0..Len(Vtx[b]) /\ 0 <= Len(Vtx[b])
  BY VtxType
<1>6. o[2] \in f[0][o[1]].vout \/ ~NotIn(b, 0, Len(Vtx[b]), o[1])
  BY <1>1, <1>3, <1>4, <1>5, NotAdded
<1>7. CASE o[2] \in f[0][o[1]].vout
  BY <1>1, <1>4, <1>7 DEF Same, Alike, Owed, IsAvailable
<1>8. CASE ~NotIn(b, 0, Len(Vtx[b]), o[1])
  BY <1>2, <1>8 DEF NotIn, Owed
<1> QED BY <1>6, <1>7, <1>8

LEMMA PoolDisconnect ==
    ASSUME CoinInv, PoolInv, NEW refused, DisconnectTip(refused)
    PROVE  PoolInv'
<1> DEFINE h == Len(chain)
           front == SubSeq(chain, 1, h - 1)
           base == ReplayOf(front)
           old == DisconnectBlock(coins, Tip, undo[Tip], h)
           back == Resurrected(pool, old.coins, Tip, refused, h)
<1>1. /\ Tip # Base /\ coins' = old.coins /\ chain' = front /\ UNCHANGED <<peers, loop>>
      /\ pool' = removeCoinbaseSpends(back, old.coins, h)
  BY DEF DisconnectTip, Resurrected
<1>2. /\ h \in Nat \ {0, 1} /\ Tip \in Blocks /\ Len(front) = h - 1
      /\ base \in CoinMaps /\ WF(base, h)
      /\ Same(coins, ApplyTxs(base, Tip, h))
      /\ UndoFits(undo[Tip], base, Tip, h)
  BY <1>1, TipOnPath
<1>3. coins \in CoinMaps /\ h \in Nat \ {0} /\ WF(coins, h)
  BY <1>2, CoinInvWF DEF CoinInv
<1>4. pool \in Pools /\ Linked(pool) /\ Covered(pool, Fine(coins, h + 1))
  BY DEF PoolInv
<1>5. Len(chain') + 1 = h
  BY <1>1, <1>2
<1> HIDE DEF base, h
<1>6. old.coins \in CoinMaps /\ Same(old.coins, base)
  BY <1>2, <1>3, DisconnectInverse
<1> HIDE DEF old
<1>7. Fine(coins, h + 1) \subseteq Owed(old.coins, Tip, 0)
  <2> SUFFICES ASSUME NEW o \in Fine(coins, h + 1) PROVE o \in Owed(old.coins, Tip, 0)
    OBVIOUS
  <2>1. o \in Outpoints /\ IsAvailable(coins, o)
    BY DEF Fine
  <2> QED BY <1>2, <1>3, <1>6, <2>1, MadeOrKept
<1>8. Covered(pool, Owed(old.coins, Tip, 0))
  BY <1>4, <1>7, CoveredMore
<1>9. back \in Pools /\ Linked(back) /\ Covered(back, {o \in Outpoints : IsAvailable(old.coins, o)})
  BY <1>2, <1>4, <1>6, <1>8, ResurrectedFacts
<1> HIDE DEF back
<1>10. pool' \in Pools /\ Linked(pool') /\ Covered(pool', Fine(old.coins, h))
  BY <1>1, <1>3, <1>6, <1>9, SpendsRemoved
<1> QED BY <1>1, <1>5, <1>10 DEF PoolInv

LEMMA PoolNext ==
    ASSUME CoinInv, OrphanInv, PoolInv, [WalletNext]_walletVars
    PROVE  PoolInv'
<1>1. peers \subseteq Peers /\ loop \in LoopRec /\ NoLoop \in LoopRec
  BY DEF PoolInv, NoLoop, LoopRec
<1>2. ASSUME NEW p \in Peers, InitializeNode(p) \/ FinalizeNode(p) PROVE PoolInv'
  <2>1. UNCHANGED <<pool, coins, chain, loop>> /\ peers' \subseteq Peers
    BY <1>1, <1>2 DEF InitializeNode, FinalizeNode
  <2> QED BY <1>1, <2>1, PoolQuiet
<1>3. ASSUME NEW p \in Peers, NEW t \in Txs, NEW refused, ProcessTx(p, t, refused) PROVE PoolInv'
  <2> DEFINE result == AcceptToMemoryPool(pool, coins, t, refused, Len(chain) + 1)
  <2>1. UNCHANGED <<coins, chain, peers>>
    BY <1>3 DEF ProcessTx
  <2>2. CASE result = "accepted"
    <3>1. pool' = addUnchecked(pool, t) /\ loop' = [NoLoop EXCEPT !.work = <<t>>]
      BY <1>3, <2>2 DEF ProcessTx
    <3>2. loop' \in LoopRec
      <4>1. <<t>> \in Seq(Txs)
        OBVIOUS
      <4>2. loop' = [work |-> <<t>>, i |-> 1, tried |-> {}, erase |-> {}, bad |-> {}]
        BY <3>1 DEF NoLoop
      <4> QED BY <4>1, <4>2 DEF LoopRec
    <3> QED BY <2>1, <2>2, <3>1, <3>2, PoolOffer
  <2>3. CASE result # "accepted"
    <3>1. pool' = pool /\ loop' = loop
      BY <1>3, <2>3 DEF ProcessTx
    <3> QED BY <1>1, <2>1, <3>1, PoolQuiet
  <2> QED BY <2>2, <2>3
<1>4. ASSUME NEW t \in Txs, NEW refused, NEW punish, TryOrphan(t, refused, punish) PROVE PoolInv'
  <2> DEFINE result == IF orphans[t] \in loop.bad THEN "skipped"
                       ELSE AcceptToMemoryPool(pool, coins, t, refused, Len(chain) + 1)
             work == IF result = "accepted" THEN Append(loop.work, t) ELSE loop.work
             erase == IF result \in {"accepted", "rejected"} THEN loop.erase \cup {t} ELSE loop.erase
             bad == IF result = "rejected" /\ t \in refused /\ punish THEN loop.bad \cup {orphans[t]} ELSE loop.bad
  <2>1. UNCHANGED <<coins, chain, peers>>
    BY <1>4 DEF TryOrphan
  <2>2. pool' = IF result = "accepted" THEN addUnchecked(pool, t) ELSE pool
    BY <1>4 DEF TryOrphan
  <2>3. loop' = [loop EXCEPT !.work = work, !.tried = loop.tried \cup {t}, !.erase = erase, !.bad = bad]
    BY <1>4 DEF TryOrphan
  <2>4. work \in Seq(Txs) /\ erase \in SUBSET Txs /\ loop.tried \cup {t} \in SUBSET Txs
    BY <1>1 DEF LoopRec
  <2>5. bad \in SUBSET (Peers \cup {None})
    BY <1>1 DEF LoopRec, OrphanInv
  <2> HIDE DEF work, erase, bad
  <2>6. loop' \in LoopRec
    BY <1>1, <2>3, <2>4, <2>5 DEF LoopRec
  <2>7. \/ pool' = pool
        \/ /\ pool' = addUnchecked(pool, t)
           /\ AcceptToMemoryPool(pool, coins, t, refused, Len(chain) + 1) = "accepted"
    BY <2>2
  <2> QED BY <2>1, <2>6, <2>7, PoolOffer
<1>5. ASSUME NEW t \in Txs, NEW refused, SubmitTx(t, refused) PROVE PoolInv'
  <2>1. /\ UNCHANGED <<coins, chain, peers, loop>> /\ pool' = addUnchecked(pool, t)
        /\ AcceptToMemoryPool(pool, coins, t, refused, Len(chain) + 1) = "accepted"
    BY <1>5 DEF SubmitTx
  <2> QED BY <1>1, <2>1, PoolOffer
<1>6. ASSUME NextWork PROVE PoolInv'
  <2>1. UNCHANGED <<pool, coins, chain, peers>> /\ (loop' = NoLoop \/ loop' = [loop EXCEPT !.i = loop.i + 1, !.tried = {}])
    BY <1>6 DEF NextWork
  <2>2. loop' \in LoopRec
    <3>1. loop.i + 1 \in Nat
      BY <1>1 DEF LoopRec
    <3>2. [loop EXCEPT !.i = loop.i + 1, !.tried = {}] \in LoopRec
      BY <1>1, <3>1 DEF LoopRec
    <3> QED BY <1>1, <2>1, <3>2
  <2> QED BY <1>1, <2>1, <2>2, PoolQuiet
<1>7. ASSUME NEW t \in Made, NEW refused, CommitTransaction(t, refused) PROVE PoolInv'
  <2>1. t \in Txs
    BY WalletAssumption
  <2>2. /\ UNCHANGED <<coins, chain, peers, loop>>
        /\ \/ pool' = pool
           \/ /\ pool' = addUnchecked(pool, t)
              /\ AcceptToMemoryPool(pool, coins, t, refused, Len(chain) + 1) = "accepted"
    BY <1>7 DEF CommitTransaction
  <2> QED BY <1>1, <2>1, <2>2, PoolOffer
<1>8. ASSUME NEW order \in HashOrders, Restart(order) PROVE PoolInv'
  <2>1. order \in Seq(Txs)
    BY WalletAssumption
  <2>2. UNCHANGED <<coins, chain, loop>> /\ peers' = {} /\ pool' = Fold(Reaccept, EmptyPool, order)
    BY <1>8 DEF Restart
  <2>3. pool' \in Pools /\ Linked(pool') /\ Covered(pool', Fine(coins, Len(chain) + 1))
    BY <2>1, <2>2, ReacceptFacts
  <2> QED BY <1>1, <2>2, <2>3 DEF PoolInv
<1>9. ASSUME UNCHANGED walletVars PROVE PoolInv'
  BY <1>1, <1>9, PoolQuiet DEF walletVars, vars
<1> QED BY <1>2, <1>3, <1>4, <1>5, <1>6, <1>7, <1>8, <1>9, PoolConnect, PoolDisconnect
        DEF WalletNext, WalletConnectTip, WalletDisconnectTip

LEMMA PoolTyped ==
    ASSUME CoinInv, OrphanInv, PoolInv
    PROVE  TypeOK
<1>1. chain \in Seq(Blocks) /\ chain # <<>> /\ WF(coins, Len(chain)) /\ Len(chain) \in Nat
  BY CoinInvWF DEF CoinInv, IsPath
<1>2. ASSUME NEW t \in Txs
      PROVE  coins[t].vout \subseteq 0..(NOut[t] - 1) /\ coins[t].nHeight \in 0..Len(chain)
  <2>1. CASE coins[t].vout = {}
    <3>1. coins[t].nHeight = 0
      BY <1>1, <2>1, PrunedType DEF WF, Alike
    <3> QED BY <1>1, <2>1, <3>1
  <2>2. CASE coins[t].vout # {}
    <3>1. coins[t].nHeight \in 1..Len(chain) /\ coins[t].vout \subseteq 0..(NOut[t] - 1)
      BY <1>1, <2>2 DEF WF
    <3> QED BY <1>1, <3>1
  <2> QED BY <2>1, <2>2
<1>3. pool.mapTx \subseteq Txs /\ pool.mapNextTx \in [Outpoints -> Txs \cup {None}]
  BY PoolTypes DEF PoolInv
<1>4. peers \subseteq Peers /\ loop.work \in Seq(Txs) /\ loop.tried \cup loop.erase \subseteq Txs
  BY DEF PoolInv, LoopRec
<1>5. orphans \in [Txs -> Peers \cup {None}] /\ byPrev \in [Txs -> SUBSET Txs]
  BY DEF OrphanInv
<1> QED BY <1>1, <1>2, <1>3, <1>4, <1>5 DEF TypeOK

LEMMA PoolChecks ==
    ASSUME CoinInv, OrphanInv, PoolInv
    PROVE  PoolConsistent
<1>1. TypeOK
  BY PoolTyped
<1>2. pool \in Pools /\ Linked(pool) /\ Covered(pool, Fine(coins, Len(chain) + 1))
  BY DEF PoolInv
<1>3. ASSUME NEW t \in pool.mapTx, NEW o \in Prevouts(t)
      PROVE  /\ IF o[1] \in pool.mapTx THEN o[2] < NOut[o[1]] ELSE IsAvailable(coins, o)
             /\ pool.mapNextTx[o] = t
  BY <1>2 DEF Linked, Covered, Fine
<1>4. ASSUME NEW t \in pool.mapTx, NEW q \in ParentTxs(t) \ pool.mapTx
      PROVE  Ripe(coins, q, Len(chain) + 1)
  <2>1. PICK o \in Prevouts(t) : o[1] = q
    BY DEF ParentTxs
  <2>2. o \in Fine(coins, Len(chain) + 1)
    BY <1>2, <2>1 DEF Covered
  <2> QED BY <2>1, <2>2 DEF Fine
<1>5. \A t \in pool.mapTx : \A q \in ParentTxs(t) \ pool.mapTx :
         coins[q].fCoinBase \/ coins[q].fCoinStake =>
             (Len(chain) + 1) - coins[q].nHeight >= COINBASE_MATURITY
  BY <1>4, Zenon DEF Ripe
<1>6. \A o \in Outpoints : pool.mapNextTx[o] # None =>
         pool.mapNextTx[o] \in pool.mapTx /\ o \in Prevouts(pool.mapNextTx[o])
  BY <1>2 DEF Linked
<1> QED BY <1>1, <1>3, <1>5, <1>6, Zenon DEF PoolConsistent

\* In every reachable state the assertions of CTxMemPool::check hold
\* (txmempool.cpp:673): every input of the pool is an output of the pool, or
\* an unspent output of the chain that may be spent in the next block, and
\* mapNextTx lists exactly those inputs, also after ConnectTip, DisconnectTip
\* with the transactions it puts back, and a restart.
THEOREM PoolStaysConsistent == WalletSpec => []PoolConsistent
<1>1. WalletInit => CoinInv /\ OrphanInv /\ PoolInv
  BY CoinInit, OrphanInit, PoolInit DEF WalletInit, Init
<1>2. CoinInv /\ OrphanInv /\ PoolInv /\ [WalletNext]_walletVars => (CoinInv /\ OrphanInv /\ PoolInv)'
  <2>1. OrphanInv /\ UNCHANGED walletVars => OrphanInv'
    BY OrphanQuiet DEF walletVars, vars
  <2> QED BY <2>1, CoinNext, OrphanNext, PoolNext
<1>3. CoinInv /\ OrphanInv /\ PoolInv => PoolConsistent
  BY PoolChecks
<1> QED BY <1>1, <1>2, <1>3, PTL DEF WalletSpec

-----------------------------------------------------------------------------
(* The transactions of a chain *)

Members(b) == {Vtx[b][i] : i \in 1..Len(Vtx[b])}
FirstOf(b, j) == {Vtx[b][i] : i \in 1..j}

\* C are the transactions that the coins c come from: they have spent their
\* inputs, and what is not unspent was spent by one of them.
History(C, c) ==
    /\ \A t \in C : \A o \in Prevouts(t) : ~IsAvailable(c, o) /\ o[1] \in C
    /\ \A q \in Txs : c[q].vout # {} => q \in C
    /\ \A q \in C : \A m \in 0..(NOut[q] - 1) : m \notin c[q].vout => \E t \in C : <<q, m>> \in Prevouts(t)

LEMMA TxHistory ==
    ASSUME NEW C \in SUBSET Txs, NEW c \in CoinMaps, NEW h \in Nat, History(C, c), NEW t \in Txs, t \notin C,
           \A o \in Prevouts(t) : IsAvailable(c, o)
    PROVE  History(C \cup {t}, UpdateCoins(c, t, h).coins)
<1> DEFINE d == UpdateCoins(c, t, h).coins
<1>1. /\ d[t].vout = 0..(NOut[t] - 1)
      /\ \A q \in Txs \ {t} : \A m \in Nat : m \in d[q].vout <=> m \in c[q].vout /\ <<q, m>> \notin Prevouts(t)
  BY UpdateSummary, FromTxType
<1>2. \A q \in Txs : d[q].vout \subseteq Nat
  <2>1. d \in CoinMaps
    BY UpdateSummary
  <2> HIDE DEF d
  <2> QED BY <2>1 DEF CoinMaps, CoinRec
<1> HIDE DEF d
<1>3. \A o \in Prevouts(t) : o[1] \in C /\ o[1] # t
  <2> SUFFICES ASSUME NEW o \in Prevouts(t) PROVE o[1] \in C
    OBVIOUS
  <2>1. o[1] \in Txs /\ c[o[1]].vout # {}
    BY PrevoutsRange DEF IsAvailable
  <2> QED BY <2>1 DEF History
<1>4. ASSUME NEW u \in C \cup {t}, NEW o \in Prevouts(u) PROVE ~IsAvailable(d, o) /\ o[1] \in C \cup {t}
  <2>1. u \in Txs /\ o[1] \in Txs /\ o[2] \in Nat /\ o = <<o[1], o[2]>>
    BY PrevoutsRange
  <2>2. o[1] \in C /\ o[1] # t
    BY <1>3 DEF History
  <2>3. o[2] \in c[o[1]].vout => o \in Prevouts(t)
    BY DEF History, IsAvailable
  <2> QED BY <1>1, <2>1, <2>2, <2>3 DEF IsAvailable
<1>5. ASSUME NEW q \in Txs, d[q].vout # {} PROVE q \in C \cup {t}
  <2>1. CASE q # t
    <3>1. PICK m \in d[q].vout : TRUE
      BY <1>5
    <3>2. m \in c[q].vout
      BY <1>1, <1>2, <2>1, <3>1
    <3> QED BY <3>2 DEF History
  <2> QED BY <2>1
<1>6. ASSUME NEW q \in C \cup {t}, NEW m \in 0..(NOut[q] - 1), m \notin d[q].vout
      PROVE  \E u \in C \cup {t} : <<q, m>> \in Prevouts(u)
  <2>1. q # t /\ q \in C /\ q \in Txs
    BY <1>1, <1>6
  <2>2. m \in Nat
    OBVIOUS
  <2>3. m \notin c[q].vout \/ <<q, m>> \in Prevouts(t)
    BY <1>1, <1>6, <2>1, <2>2
  <2> QED BY <2>1, <2>3 DEF History
<1> QED BY <1>4, <1>5, <1>6 DEF History, d

\* The transactions of a block are new, and join the history one by one.
LEMMA BlockHistory ==
    ASSUME NEW C \in SUBSET Txs, NEW c \in CoinMaps, NEW b \in Blocks, NEW h \in Nat, History(C, c),
           NEW f, ApplyRun(f, c, b, h),
           \A k \in 1..Len(Vtx[b]) : \A o \in Prevouts(Vtx[b][k]) : IsAvailable(f[k - 1], o),
           \A k \in 1..Len(Vtx[b]) : Vtx[b][k] \in CoinBases => Vtx[b][k] \notin C
    PROVE  /\ History(C \cup Members(b), f[Len(Vtx[b])])
           /\ C \cap Members(b) = {}
           /\ \A i \in 0..Len(Vtx[b]) : History(C \cup FirstOf(b, i), f[i])
<1> DEFINE n == Len(Vtx[b])
           S == {i \in 0..n : History(C \cup FirstOf(b, i), f[i])}
<1>1. n \in Nat /\ f[0] = c /\ \A i \in 0..n : f[i] \in CoinMaps
  BY VtxType DEF ApplyRun
<1>2. \A i \in 0..n : C \cup FirstOf(b, i) \in SUBSET Txs
  BY <1>1, VtxType DEF FirstOf
<1>3. 0 \in S
  <2>1. C \cup FirstOf(b, 0) = C
    BY DEF FirstOf
  <2>2. History(C \cup FirstOf(b, 0), f[0])
    BY <1>1, <2>1
  <2> QED BY <1>1, <2>2
<1>4. ASSUME NEW i \in 0..n, i \in S, i < n
      PROVE  Vtx[b][i + 1] \notin C \cup FirstOf(b, i) /\ i + 1 \in S
  <2> DEFINE D == C \cup FirstOf(b, i)
             t == Vtx[b][i + 1]
  <2>1. i + 1 \in 1..n /\ i + 1 \in 0..n /\ i + 1 - 1 = i
    BY <1>1, <1>4
  <2>2. f[i + 1] = UpdateCoins(f[i], t, h).coins
    BY <2>1 DEF ApplyRun
  <2>3. t \in Txs /\ D \in SUBSET Txs /\ History(D, f[i]) /\ f[i] \in CoinMaps
    BY <1>1, <1>2, <1>4, <2>1, VtxType
  <2>4. \A o \in Prevouts(t) : IsAvailable(f[i], o)
    <3> DEFINE k == i + 1
    <3>1. k \in 1..Len(Vtx[b]) /\ k - 1 = i
      BY <2>1
    <3> HIDE DEF k, S
    <3>2. \A o \in Prevouts(Vtx[b][k]) : IsAvailable(f[k - 1], o)
      BY <3>1
    <3> QED BY <3>1, <3>2 DEF k
  <2>5. t \notin D
    <3>1. CASE t \in CoinBases
      <4>1. i = 0
        <5>1. i + 1 \notin 2..n
          BY <3>1, MempoolAssumption
        <5> QED BY <1>1, <2>1, <5>1
      <4>2. FirstOf(b, i) = {}
        BY <4>1 DEF FirstOf
      <4> QED BY <2>1, <3>1, <4>2
    <3>2. CASE t \notin CoinBases
      <4>1. Vin[t] \in Seq(Txs \X Nat) /\ Vin[t] # <<>>
        BY <2>3, <3>2, MempoolAssumption
      <4>2. 1 \in 1..Len(Vin[t])
        BY <4>1
      <4>3. Vin[t][1] \in Prevouts(t)
        BY <4>2 DEF Prevouts
      <4> HIDE DEF D, t
      <4> QED BY <2>3, <2>4, <4>3 DEF History
    <3> QED BY <3>1, <3>2
  <2>6. History(D \cup {t}, f[i + 1])
    <3> HIDE DEF D, t
    <3> QED BY <2>2, <2>3, <2>4, <2>5, TxHistory
  <2>7. D \cup {t} = C \cup FirstOf(b, i + 1)
    <3>1. \A j : j \in 1..(i + 1) <=> j \in 1..i \/ j = i + 1
      BY <1>1, <2>1
    <3> QED BY <3>1 DEF FirstOf
  <2> QED BY <2>1, <2>5, <2>6, <2>7
<1> HIDE DEF S
<1>5. \A i \in 0..n : i \in S
  BY <1>1, <1>3, <1>4, Upwards
<1>6. History(C \cup FirstOf(b, n), f[n])
  <2>1. n \in S
    BY <1>1, <1>5
  <2> QED BY <2>1 DEF S
<1>7. FirstOf(b, n) = Members(b)
  BY DEF FirstOf, Members
<1>8. ASSUME NEW t \in Members(b) PROVE t \notin C
  <2>1. PICK k \in 1..n : t = Vtx[b][k]
    BY DEF Members
  <2>2. k - 1 \in 0..n /\ k - 1 < n /\ k - 1 + 1 = k
    BY <1>1, <2>1
  <2>3. Vtx[b][k - 1 + 1] \notin C
    BY <1>4, <1>5, <2>2
  <2> QED BY <2>1, <2>2, <2>3
<1>9. \A i \in 0..n : History(C \cup FirstOf(b, i), f[i])
  BY <1>5 DEF S
<1> QED BY <1>6, <1>7, <1>8, <1>9

\* There is only one run of a block.
LEMMA RunUnique ==
    ASSUME NEW c \in CoinMaps, NEW b \in Blocks, NEW h, NEW f, ApplyRun(f, c, b, h), NEW g, ApplyRun(g, c, b, h)
    PROVE  \A i \in 0..Len(Vtx[b]) : f[i] = g[i]
<1> DEFINE n == Len(Vtx[b])
           S == {i \in 0..n : f[i] = g[i]}
<1>1. n \in Nat /\ f[0] = c /\ g[0] = c
  BY VtxType DEF ApplyRun
<1>2. 0 \in S
  BY <1>1
<1>3. ASSUME NEW i \in 0..n, i \in S, i < n PROVE i + 1 \in S
  <2>1. i + 1 \in 1..n /\ i + 1 \in 0..n /\ i + 1 - 1 = i
    BY <1>1, <1>3
  <2>2. f[i + 1] = UpdateCoins(f[i], Vtx[b][i + 1], h).coins /\ g[i + 1] = UpdateCoins(g[i], Vtx[b][i + 1], h).coins
    BY <2>1 DEF ApplyRun
  <2> QED BY <1>3, <2>1, <2>2
<1> HIDE DEF S
<1>4. \A i \in 0..n : i \in S
  BY <1>1, <1>2, <1>3, Upwards
<1> QED BY <1>4 DEF S

\* The first k blocks of the chain: the path, its coins, its transactions.
Upto(k) == SubSeq(chain, 1, k)
Within(k) == UNION {Members(chain[i]) : i \in 1..k}

LEMMA UptoFacts ==
    ASSUME IsPath(chain), NEW k \in 1..Len(chain)
    PROVE  /\ IsPath(Upto(k)) /\ Len(Upto(k)) = k /\ \A i \in 1..k : Upto(k)[i] = chain[i]
           /\ k + 1 \in 1..Len(chain) => Upto(k + 1) = Append(Upto(k), chain[k + 1])
<1>1. chain \in Seq(Blocks) /\ Len(chain) \in Nat /\ k \in Nat /\ k <= Len(chain) /\ chain[1] = Base
  BY DEF IsPath
<1>2. Upto(k) \in Seq(Blocks) /\ Len(Upto(k)) = k /\ \A i \in 1..k : Upto(k)[i] = chain[i]
  BY <1>1 DEF Upto
<1>3. IsPath(Upto(k))
  <2>1. Upto(k) # <<>> /\ Upto(k)[1] = Base
    BY <1>1, <1>2
  <2>2. ASSUME NEW i \in 1..(Len(Upto(k)) - 1)
        PROVE  Upto(k)[i + 1] # Base /\ Parent[Upto(k)[i + 1]] = Upto(k)[i]
    <3>1. i \in 1..(Len(chain) - 1) /\ i \in 1..k /\ i + 1 \in 1..k
      BY <1>1, <1>2
    <3>2. chain[i + 1] # Base /\ Parent[chain[i + 1]] = chain[i]
      BY <3>1 DEF IsPath
    <3> QED BY <1>2, <3>1, <3>2
  <2> QED BY <1>2, <2>1, <2>2 DEF IsPath
<1>4. ASSUME k + 1 \in 1..Len(chain) PROVE Upto(k + 1) = Append(Upto(k), chain[k + 1])
  <2>1. Upto(k + 1) \in Seq(Blocks) /\ Len(Upto(k + 1)) = k + 1 /\ \A i \in 1..(k + 1) : Upto(k + 1)[i] = chain[i]
    BY <1>1, <1>4 DEF Upto
  <2> DEFINE r == Append(Upto(k), chain[k + 1])
  <2>2. r \in Seq(Blocks) /\ Len(r) = k + 1 /\ \A i \in 1..k : r[i] = chain[i]
    BY <1>1, <1>2, <1>4
  <2>3. r[k + 1] = chain[k + 1]
    BY <1>2
  <2> HIDE DEF r
  <2>4. \A i \in 1..(k + 1) : r[i] = Upto(k + 1)[i]
    <3>1. \A i \in 1..(k + 1) : i \in 1..k \/ i = k + 1
      BY <1>1
    <3> QED BY <2>1, <2>2, <2>3, <3>1
  <2>5. r = [i \in 1..(k + 1) |-> r[i]] /\ Upto(k + 1) = [i \in 1..(k + 1) |-> Upto(k + 1)[i]]
    BY <2>1, <2>2
  <2>6. r = Upto(k + 1)
    BY <2>4, <2>5
  <2> QED BY <2>6 DEF r
<1> QED BY <1>2, <1>3, <1>4

\* Every block of the chain is valid on top of the blocks before it.
LEMMA ChainValid ==
    ASSUME CoinInv, NEW k \in 1..Len(chain), k + 1 \in 1..Len(chain)
    PROVE  /\ ReplayOf(Upto(k + 1)) = ApplyTxs(ReplayOf(Upto(k)), chain[k + 1], k + 1)
           /\ ReplayOf(Upto(k)) \in CoinMaps /\ chain[k + 1] \in Blocks
           /\ \E f : ValidRun(f, ReplayOf(Upto(k)), chain[k + 1], k + 1)
<1> DEFINE b == chain[k + 1]
           u == undo[b]
<1>1. IsPath(chain) /\ chain \in Seq(Blocks) /\ Len(chain) \in Nat /\ k \in Nat
  BY DEF CoinInv, IsPath
<1>2. b \in Blocks
  BY <1>1
<1>3. IsPath(Upto(k)) /\ Upto(k) \in Seq(Blocks) /\ Len(Upto(k)) = k /\ Upto(k + 1) = Append(Upto(k), b)
  BY <1>1, UptoFacts DEF IsPath
<1>4. IsPath(Upto(k + 1)) /\ Len(Upto(k + 1)) = k + 1 /\ Upto(k + 1)[k + 1] = b
  BY <1>1, UptoFacts
<1>5. UndoOK(u, b)
  <2>1. k + 1 \in 2..Len(chain)
    BY <1>1
  <2> QED BY <2>1 DEF CoinInv
<1> HIDE DEF b, u
<1>6. PICK s : IsPath(s) /\ IsPath(Append(s, b)) /\ UndoFits(u, ReplayOf(s), b, Len(s) + 1)
  BY <1>5 DEF UndoOK
<1>7. s = Upto(k)
  <2> DEFINE r == Append(s, b)
  <2>1. s \in Seq(Blocks) /\ Len(s) \in Nat /\ Len(r) = Len(s) + 1 /\ r[Len(s) + 1] = b
        /\ \A i \in 1..Len(s) : r[i] = s[i]
    BY <1>2, <1>6 DEF IsPath
  <2>2. r[Len(r)] = b /\ Upto(k + 1)[Len(Upto(k + 1))] = b
    BY <1>4, <2>1
  <2>3. r = Upto(k + 1)
    <3>1. IsPath(r)
      BY <1>6
    <3> HIDE DEF r
    <3> QED BY <1>4, <2>2, <3>1, PathUnique
  <2> HIDE DEF r
  <2>4. Len(s) = k
    BY <1>1, <1>4, <2>1, <2>3
  <2>5. ASSUME NEW i \in 1..k PROVE s[i] = Upto(k)[i]
    <3>1. s[i] = r[i]
      BY <2>1, <2>4
    <3>2. Upto(k + 1)[i] = chain[i] /\ Upto(k)[i] = chain[i]
      <4>1. i \in 1..(k + 1)
        BY <1>1
      <4> QED BY <1>1, <4>1, UptoFacts
    <3> QED BY <2>3, <3>1, <3>2
  <2>6. s = [i \in 1..k |-> s[i]] /\ Upto(k) = [i \in 1..k |-> Upto(k)[i]]
    BY <1>3, <2>1, <2>4
  <2> QED BY <2>5, <2>6
<1>8. \E f : ValidRun(f, ReplayOf(Upto(k)), b, k + 1)
  BY <1>3, <1>6, <1>7 DEF UndoFits
<1>9. ReplayOf(Upto(k + 1)) = ApplyTxs(ReplayOf(Upto(k)), b, k + 1)
  BY <1>2, <1>3, ReplayAppend
<1>10. ReplayOf(Upto(k)) \in CoinMaps
  BY <1>3, ReplayWF
<1> QED BY <1>2, <1>8, <1>9, <1>10 DEF b

LEMMA HeightIsPlace ==
    ASSUME IsPath(chain)
    PROVE  \A k \in 1..Len(chain) : Height[chain[k]] = k
<1> DEFINE n == Len(chain)
           S == {i \in 0..n : i > 0 => Height[chain[i]] = i}
<1>1. n \in Nat /\ chain[1] = Base /\ \A i \in 1..n : chain[i] \in Blocks
  BY DEF IsPath
<1>2. 0 \in S
  BY <1>1
<1>3. ASSUME NEW i \in 0..n, i \in S, i < n PROVE i + 1 \in S
  <2>1. i + 1 \in 1..n /\ i + 1 \in 0..n
    BY <1>1, <1>3
  <2>2. CASE i = 0
    BY <1>1, <2>1, <2>2, MempoolAssumption
  <2>3. CASE i > 0
    <3>1. i \in 1..(n - 1) /\ Height[chain[i]] = i
      BY <1>1, <1>3, <2>3
    <3>2. chain[i + 1] # Base /\ Parent[chain[i + 1]] = chain[i] /\ chain[i + 1] \in Blocks
      BY <1>1, <2>1, <3>1 DEF IsPath
    <3>3. Height[chain[i + 1]] = Height[chain[i]] + 1
      BY <3>2, MempoolAssumption
    <3> QED BY <2>1, <3>1, <3>3
  <2> QED BY <1>1, <2>2, <2>3
<1> HIDE DEF S
<1>4. \A i \in 0..n : i \in S
  BY <1>1, <1>2, <1>3, Upwards
<1>5. \A k \in 1..n : k \in 0..n /\ k > 0
  BY <1>1
<1> QED BY <1>4, <1>5 DEF S

\* A coinbase tells its height, so it is not in the blocks below.
LEMMA CoinbaseNew ==
    ASSUME IsPath(chain), NEW i \in 1..Len(chain), NEW b \in Blocks, Height[b] = i + 1,
           NEW k \in 1..Len(Vtx[b]), Vtx[b][k] \in CoinBases
    PROVE  Vtx[b][k] \notin Within(i)
<1> SUFFICES ASSUME Vtx[b][k] \in Within(i) PROVE FALSE
  OBVIOUS
<1>1. PICK j \in 1..i : Vtx[b][k] \in Members(chain[j])
  BY DEF Within
<1> DEFINE d == chain[j]
<1>2. j \in 1..Len(chain) /\ d \in Blocks
  BY <1>1 DEF IsPath
<1>3. PICK l \in 1..Len(Vtx[d]) : Vtx[d][l] = Vtx[b][k]
  BY <1>1 DEF Members
<1>4. l \notin 2..Len(Vtx[d]) /\ k \notin 2..Len(Vtx[b])
  BY <1>2, <1>3, MempoolAssumption
<1>5. l = 1 /\ k = 1
  BY <1>3, <1>4
<1>6. Vtx[b] # <<>> /\ Vtx[d] # <<>>
  BY <1>3
<1>7. Height[d] = Height[b]
  BY <1>2, <1>3, <1>5, <1>6, MempoolAssumption
<1>8. Height[d] = j
  BY <1>2, HeightIsPlace
<1>9. j # i + 1
  OBVIOUS
<1> QED BY <1>7, <1>8, <1>9

\* The coins of the first k blocks come from their transactions, and no
\* transaction is in two of them.
LEMMA ChainHistory ==
    ASSUME CoinInv
    PROVE  \A k \in 1..Len(chain) : /\ Within(k) \in SUBSET Txs
                                    /\ History(Within(k), ReplayOf(Upto(k)))
                                    /\ k + 1 \in 1..Len(chain) => Within(k) \cap Members(chain[k + 1]) = {}
<1> DEFINE n == Len(chain)
           Good(k) == History(Within(k), ReplayOf(Upto(k)))
           S == {i \in 0..n : i > 0 => Good(i)}
<1>1. n \in Nat /\ chain[1] = Base /\ IsPath(chain) /\ n # 0 /\ \A i \in 1..n : chain[i] \in Blocks
  BY CoinInvWF DEF CoinInv, IsPath
<1>2. \A k \in 0..n : Within(k) \in SUBSET Txs
  <2>1. \A b \in Blocks : Members(b) \subseteq Txs
    BY VtxType DEF Members
  <2>2. \A k \in 0..n : \A i \in 1..k : i \in 1..n
    BY <1>1
  <2> QED BY <1>1, <2>1, <2>2 DEF Within
<1>3. Good(1)
  <2> DEFINE b == Base
  <2>1. Base \in Blocks /\ 1 \in 1..n /\ Nothing \in CoinMaps
    BY <1>1, MempoolAssumption, NothingFacts
  <2>2. Upto(1) = <<Base>>
    <3>1. IsPath(Upto(1)) /\ Len(Upto(1)) = 1 /\ Upto(1)[1] = Base /\ Upto(1) \in Seq(Blocks)
      BY <1>1, <2>1, UptoFacts DEF IsPath
    <3> QED BY <3>1
  <2>3. ReplayOf(Upto(1)) = ApplyTxs(Nothing, Base, 1)
    <3>1. <<>> \in Seq(Blocks) /\ Append(<<>>, Base) = <<Base>> /\ Len(<<>>) = 0
      BY <2>1
    <3>2. ReplayOf(<<>>) = Nothing
      <4>1. PICK R : CoinsAlong(R, <<>>) /\ ReplayOf(<<>>) = R[Len(<<>>)]
        BY <3>1, ReplayFacts
      <4> QED BY <3>1, <4>1 DEF CoinsAlong
    <3>3. ReplayOf(Append(<<>>, Base)) = ApplyTxs(ReplayOf(<<>>), Base, Len(<<>>) + 1)
      BY <2>1, <3>1, ReplayAppend
    <3> QED BY <2>2, <3>1, <3>2, <3>3
  <2>4. PICK f : ApplyRun(f, Nothing, Base, 1) /\ ApplyTxs(Nothing, Base, 1) = f[Len(Vtx[Base])]
    BY <2>1, ApplyTrace
  <2>5. \A k \in 1..Len(Vtx[Base]) : Prevouts(Vtx[Base][k]) = {}
    <3>1. ASSUME NEW k \in 1..Len(Vtx[Base]) PROVE Prevouts(Vtx[Base][k]) = {}
      <4>1. Vtx[Base][k] \in Txs /\ Vtx[Base][k] \in CoinBases
        BY <2>1, VtxType, MempoolAssumption
      <4>2. Vin[Vtx[Base][k]] = <<>>
        BY <4>1, MempoolAssumption
      <4> QED BY <4>2 DEF Prevouts
    <3> QED BY <3>1
  <2>6. History({}, Nothing)
    BY PrunedType DEF History, Nothing
  <2>7. History({} \cup Members(Base), f[Len(Vtx[Base])])
    BY <2>1, <2>4, <2>5, <2>6, BlockHistory
  <2>8. Within(1) = {} \cup Members(Base)
    BY <1>1 DEF Within
  <2> QED BY <2>3, <2>4, <2>7, <2>8
<1>4. ASSUME NEW i \in 1..n, Good(i), i + 1 \in 1..n
      PROVE  Good(i + 1) /\ Within(i) \cap Members(chain[i + 1]) = {}
  <2> DEFINE b == chain[i + 1]
             c == ReplayOf(Upto(i))
  <2>1. ReplayOf(Upto(i + 1)) = ApplyTxs(c, b, i + 1) /\ c \in CoinMaps /\ b \in Blocks
    BY <1>4, ChainValid
  <2>2. PICK f : ValidRun(f, c, b, i + 1)
    BY <1>4, ChainValid
  <2>3. ASSUME NEW k \in 1..Len(Vtx[b]), Vtx[b][k] \in CoinBases, Vtx[b][k] \in Within(i) PROVE FALSE
    <3>1. Height[b] = i + 1
      BY <1>1, <1>4, HeightIsPlace
    <3> HIDE DEF b
    <3> QED BY <1>1, <2>1, <2>3, <3>1, CoinbaseNew
  <2> HIDE DEF b, c
  <2>4. PICK g : ApplyRun(g, c, b, i + 1) /\ ApplyTxs(c, b, i + 1) = g[Len(Vtx[b])]
    <3>1. i + 1 \in Nat
      OBVIOUS
    <3> QED BY <2>1, <3>1, ApplyTrace
  <2>5. \A k \in 0..Len(Vtx[b]) : f[k] = g[k]
    BY <2>1, <2>2, <2>4, RunUnique DEF ValidRun
  <2>6. i + 1 \in Nat /\ Len(Vtx[b]) \in 0..Len(Vtx[b])
    BY <2>1, VtxType
  <2>7. i \in 0..n /\ Within(i) \in SUBSET Txs
    BY <1>1, <1>2
  <2>8. History(Within(i) \cup Members(b), f[Len(Vtx[b])]) /\ Within(i) \cap Members(b) = {}
    <3>1. ApplyRun(f, c, b, i + 1) /\ \A k \in 1..Len(Vtx[b]) : \A o \in Prevouts(Vtx[b][k]) : IsAvailable(f[k - 1], o)
      BY <2>2 DEF ValidRun
    <3>2. History(Within(i), c)
      BY <1>4 DEF c
    <3> QED BY <2>1, <2>3, <2>6, <2>7, <3>1, <3>2, BlockHistory
  <2>9. Within(i + 1) = Within(i) \cup Members(b)
    <3>1. \A j : j \in 1..(i + 1) <=> j \in 1..i \/ j = i + 1
      BY <1>1
    <3> QED BY <3>1 DEF Within, b
  <2> QED BY <2>1, <2>4, <2>5, <2>6, <2>8, <2>9 DEF b
<1>5. 0 \in S
  BY <1>1
<1>6. ASSUME NEW i \in 0..n, i \in S, i < n PROVE i + 1 \in S
  <2>1. i + 1 \in 1..n /\ i + 1 \in 0..n
    BY <1>1, <1>6
  <2>2. CASE i = 0
    BY <1>3, <2>1, <2>2
  <2>3. CASE i > 0
    <3>1. i \in 1..n /\ Good(i)
      BY <1>1, <1>6, <2>3
    <3> HIDE DEF Good
    <3> QED BY <1>4, <2>1, <3>1
  <2> QED BY <1>1, <2>2, <2>3
<1> HIDE DEF S
<1>7. \A i \in 0..n : i \in S
  BY <1>1, <1>5, <1>6, Upwards
<1>8. \A k \in 1..n : Good(k)
  <2>1. \A k \in 1..n : k \in 0..n /\ k > 0
    BY <1>1
  <2> HIDE DEF Good
  <2> QED BY <1>7, <2>1 DEF S
<1>9. \A k \in 1..n : k \in 0..n
  BY <1>1
<1> HIDE DEF Good
<1>10. \A k \in 1..n : k + 1 \in 1..n => Within(k) \cap Members(chain[k + 1]) = {}
  BY <1>4, <1>8
<1> QED BY <1>2, <1>8, <1>9, <1>10 DEF Good

\* Only the outputs matter to a history.
LEMMA HistorySame ==
    ASSUME NEW C \in SUBSET Txs, NEW c, NEW d, Same(c, d), History(C, d)
    PROVE  History(C, c)
<1>1. \A q \in Txs : c[q].vout = d[q].vout
  BY DEF Same, Alike
<1>2. \A t \in C : \A o \in Prevouts(t) : o[1] \in Txs
  BY PrevoutsRange
<1> QED BY <1>1, <1>2 DEF History, IsAvailable

LEMMA ConfirmedFacts ==
    ASSUME CoinInv
    PROVE  Confirmed = Within(Len(chain)) /\ Confirmed \in SUBSET Txs /\ History(Confirmed, coins)
<1>1. Confirmed = Within(Len(chain))
  BY DEF Confirmed, Within, Members
<1>2. IsPath(chain) /\ Len(chain) \in 1..Len(chain) /\ chain \in Seq(Blocks)
  BY CoinInvWF DEF CoinInv
<1>3. Upto(Len(chain)) = chain
  BY <1>2 DEF Upto
<1>4. Within(Len(chain)) \in SUBSET Txs /\ History(Within(Len(chain)), ReplayOf(Upto(Len(chain))))
  BY <1>2, ChainHistory
<1>5. Same(coins, ReplayOf(chain))
  BY DEF CoinInv
<1> QED BY <1>1, <1>3, <1>4, <1>5, HistorySame

-----------------------------------------------------------------------------
(* What leaves and enters the pool *)

LEMMA ConflictsShrink ==
    ASSUME NEW p \in Pools, NEW t \in Txs
    PROVE  removeConflicts(p, t).mapTx \subseteq p.mapTx
<1>1. PICK f : ConflictRun(f, p, t) /\ removeConflicts(p, t) = f[Len(Vin[t])]
  BY ConflictTrace
<1> DEFINE n == Len(Vin[t])
           S == {i \in 0..n : f[i].mapTx \subseteq p.mapTx}
<1>2. n \in Nat /\ f[0] = p /\ \A i \in 0..n : f[i] \in Pools
  BY <1>1, VinType DEF ConflictRun
<1>3. 0 \in S
  BY <1>2
<1>4. ASSUME NEW i \in 0..n, i \in S, i < n PROVE i + 1 \in S
  <2>1. i + 1 \in 1..n /\ i + 1 \in 0..n /\ i + 1 - 1 = i
    BY <1>2, <1>4
  <2>2. f[i + 1] = removeConflict(f[i], t, Vin[t][i + 1])
    BY <1>1, <2>1 DEF ConflictRun
  <2>3. \A m : removeRecursive(f[i], m).mapTx \subseteq f[i].mapTx
    BY <1>2, ErasedType DEF removeRecursive
  <2>4. f[i + 1].mapTx \subseteq f[i].mapTx
    BY <2>2, <2>3 DEF removeConflict
  <2> QED BY <1>4, <2>1, <2>4
<1> HIDE DEF S
<1>5. \A i \in 0..n : i \in S
  BY <1>2, <1>3, <1>4, Upwards
<1>6. n \in S
  BY <1>2, <1>5
<1> QED BY <1>1, <1>6 DEF S

\* No transaction of a connected block stays in the pool.
LEMMA ForBlockShrinks ==
    ASSUME NEW p \in Pools, NEW b \in Blocks
    PROVE  removeForBlock(p, Vtx[b]).mapTx \subseteq p.mapTx \ Members(b)
<1>1. PICK g : ForBlockRun(g, p, b) /\ removeForBlock(p, Vtx[b]) = g[Len(Vtx[b])]
  BY ForBlockTrace
<1> DEFINE n == Len(Vtx[b])
           S == {i \in 0..n : g[i].mapTx \subseteq p.mapTx \ FirstOf(b, i)}
<1>2. n \in Nat /\ g[0] = p /\ \A i \in 0..n : g[i] \in Pools
  BY <1>1, VtxType DEF ForBlockRun
<1>3. 0 \in S
  BY <1>2 DEF FirstOf
<1>4. ASSUME NEW i \in 0..n, i \in S, i < n PROVE i + 1 \in S
  <2> DEFINE t == Vtx[b][i + 1]
             q == Erased(g[i], {t} \cap g[i].mapTx)
  <2>1. i + 1 \in 1..n /\ i + 1 \in 0..n /\ i + 1 - 1 = i
    BY <1>2, <1>4
  <2>2. g[i + 1] = removeForTx(g[i], t) /\ t \in Txs
    BY <1>1, <2>1, VtxType DEF ForBlockRun
  <2>3. q \in Pools /\ q.mapTx = g[i].mapTx \ ({t} \cap g[i].mapTx)
    BY <1>2, ErasedType
  <2>4. g[i + 1].mapTx \subseteq q.mapTx
    BY <2>2, <2>3, ConflictsShrink DEF removeForTx
  <2>5. \A j \in 1..(i + 1) : j \in 1..i \/ j = i + 1
    BY <2>1
  <2>6. FirstOf(b, i + 1) \subseteq FirstOf(b, i) \cup {t}
    BY <2>5 DEF FirstOf
  <2>7. g[i].mapTx \subseteq p.mapTx \ FirstOf(b, i)
    BY <1>4
  <2> HIDE DEF t, q
  <2>8. g[i + 1].mapTx \subseteq p.mapTx \ FirstOf(b, i + 1)
    BY <2>3, <2>4, <2>6, <2>7
  <2> QED BY <2>1, <2>8
<1> HIDE DEF S
<1>5. \A i \in 0..n : i \in S
  BY <1>2, <1>3, <1>4, Upwards
<1>6. n \in S
  BY <1>2, <1>5
<1>7. FirstOf(b, n) = Members(b)
  BY DEF FirstOf, Members
<1> QED BY <1>1, <1>6, <1>7 DEF S

\* Only transactions of a disconnected block come back.
LEMMA ResurrectedFrom ==
    ASSUME NEW p \in Pools, NEW c, NEW b \in Blocks, NEW refused, NEW h
    PROVE  /\ Resurrected(p, c, b, refused, h) \in Pools
           /\ Resurrected(p, c, b, refused, h).mapTx \subseteq p.mapTx \cup Members(b)
<1>1. PICK f : ResurrectRun(f, p, c, b, refused, h) /\ Resurrected(p, c, b, refused, h) = f[Len(Vtx[b])]
  BY ResurrectTrace
<1> DEFINE n == Len(Vtx[b])
           S == {i \in 0..n : f[i].mapTx \subseteq p.mapTx \cup Members(b)}
<1>2. n \in Nat /\ f[0] = p /\ \A i \in 0..n : f[i] \in Pools
  BY <1>1, VtxType DEF ResurrectRun
<1>3. 0 \in S
  BY <1>2
<1>4. ASSUME NEW i \in 0..n, i \in S, i < n PROVE i + 1 \in S
  <2> DEFINE t == Vtx[b][i + 1]
  <2>1. i + 1 \in 1..n /\ i + 1 \in 0..n /\ i + 1 - 1 = i
    BY <1>2, <1>4
  <2>2. f[i + 1] = Resurrect(f[i], c, t, refused, h) /\ t \in Txs /\ t \in Members(b)
    BY <1>1, <2>1, VtxType DEF ResurrectRun, Members
  <2>3. removeRecursive(f[i], t).mapTx \subseteq f[i].mapTx
    BY <1>2, ErasedType DEF removeRecursive
  <2>4. addUnchecked(f[i], t).mapTx = f[i].mapTx \cup {t}
    BY <1>2, <2>2, AddedType
  <2>5. f[i + 1].mapTx \subseteq f[i].mapTx \cup {t}
    BY <2>2, <2>3, <2>4 DEF Resurrect
  <2> HIDE DEF t
  <2> QED BY <1>4, <2>1, <2>2, <2>5
<1> HIDE DEF S
<1>5. \A i \in 0..n : i \in S
  BY <1>2, <1>3, <1>4, Upwards
<1>6. n \in S /\ n \in 0..n
  BY <1>2, <1>5
<1> QED BY <1>1, <1>2, <1>6 DEF S

\* What is accepted is not in the chain, and spends only what is known.
LEMMA AcceptableNew ==
    ASSUME NEW p, NEW c, NEW t \in Txs, NEW h, Acceptable(p, c, t, h), NEW C, History(C, c), C \cap p.mapTx = {}
    PROVE  t \notin C /\ \A o \in Prevouts(t) : o[1] \in C \cup p.mapTx
<1>1. \A o \in Prevouts(t) : o[1] \in p.mapTx \/ IsAvailable(c, o)
  BY DEF Acceptable, Fine
<1>2. \A o \in Prevouts(t) : o[1] \in C \cup p.mapTx
  <2>1. \A o \in Prevouts(t) : o[1] \in Txs
    BY PrevoutsRange
  <2> QED BY <1>1, <2>1 DEF History, IsAvailable
<1>3. t \notin C
  <2>1. t \notin CoinBases
    BY DEF Acceptable
  <2>2. Vin[t] \in Seq(Txs \X Nat) /\ Vin[t] # <<>>
    BY <2>1, MempoolAssumption
  <2>3. 1 \in 1..Len(Vin[t])
    BY <2>2
  <2>4. Vin[t][1] \in Prevouts(t)
    BY <2>3 DEF Prevouts
  <2> QED BY <1>1, <2>4 DEF History
<1> QED BY <1>2, <1>3

-----------------------------------------------------------------------------
(* The wallet *)

\* t pays the wallet or spends an output that does.
Relevant(t) == IsMine(t) \/ Prevouts(t) \cap Mine # {}

LEMMA RelevantFacts ==
    /\ \A w, t : InvolvesMe(w, t) => t \in w \/ Relevant(t)
    /\ \A w, t : Relevant(t) /\ (\A o \in Prevouts(t) \cap Mine : o[1] \in w) => InvolvesMe(w, t)
    /\ \A o \in Mine : Relevant(o[1])
<1>1. \A o \in Mine : IsMine(o[1])
  BY DEF IsMine
<1> QED BY <1>1 DEF Relevant, InvolvesMe, IsFromMe

\* The wallet is told of the transactions of a block one after the other.
KnownRun(f, w, b) ==
    /\ f \in [0..Len(Vtx[b]) -> SUBSET Txs] /\ f[0] = w
    /\ \A i \in 1..Len(Vtx[b]) : f[i] = Known(f[i - 1], Vtx[b][i])

LEMMA KnownTrace ==
    ASSUME NEW w \in SUBSET Txs, NEW b \in Blocks
    PROVE  \E f : KnownRun(f, w, b) /\ Fold(Known, w, Vtx[b]) = f[Len(Vtx[b])]
<1> DEFINE n == Len(Vtx[b])
           A == SUBSET Txs
           from == w
           Step(x, i) == Known(x, Vtx[b][i])
           Body(f, i) == IF i = 0 THEN from ELSE Step(f[i - 1], i)
           F == CHOOSE f : f = [i \in 0..n |-> Body(f, i)]
           g == [i \in 1..n |-> [x \in A |-> Step(x, i)]]
<1>1. n \in Nat /\ from \in A /\ \A x \in A : \A i \in 1..n : Step(x, i) \in A
  BY VtxType DEF Known
<1>2. Fold(Known, w, Vtx[b]) = F[n]
  BY DEF Fold
<1> HIDE DEF n, A, from, Step
<1>3. \E f : f = [i \in 0..n |-> Body(f, i)]
  <2>1. Maps(g, n, A)
    BY <1>1 DEF Maps
  <2> HIDE DEF g
  <2>2. PICK f : Runs(f, n, A, from, g)
    BY <1>1, <2>1, Iterates
  <2>3. \A i \in 1..n : i - 1 \in 0..n /\ f[i - 1] \in A
    BY <1>1, <2>2 DEF Runs
  <2>4. \A i \in 1..n : g[i][f[i - 1]] = Step(f[i - 1], i)
    BY <2>3 DEF g
  <2>5. \A i \in 0..n : f[i] = Body(f, i)
    <3>1. \A i \in 0..n : i = 0 \/ i \in 1..n
      BY <1>1
    <3> QED BY <2>2, <2>4, <3>1 DEF Runs
  <2>6. f = [i \in 0..n |-> f[i]]
    BY <2>2 DEF Runs
  <2> HIDE DEF Body
  <2> QED BY <2>5, <2>6
<1>4. F = [i \in 0..n |-> Body(F, i)]
  <2> HIDE DEF Body
  <2> QED BY <1>3
<1> HIDE DEF F
<1>5. F[0] = from /\ \A i \in 1..n : F[i] = Step(F[i - 1], i)
  <2>1. \A i \in 0..n : F[i] = Body(F, i)
    <3> HIDE DEF Body
    <3> QED BY <1>4
  <2>2. 0 \in 0..n /\ \A i \in 1..n : i \in 0..n /\ i # 0
    BY <1>1
  <2> QED BY <2>1, <2>2
<1>6. \A i \in 0..n : F[i] \in A
  <2> DEFINE S == {i \in 0..n : F[i] \in A}
  <2>1. 0 \in S
    BY <1>1, <1>5
  <2>2. ASSUME NEW i \in 0..n, i \in S, i < n PROVE i + 1 \in S
    <3>1. i + 1 \in 1..n /\ i + 1 \in 0..n /\ i + 1 - 1 = i
      BY <1>1, <2>2
    <3>2. F[i + 1] = Step(F[i], i + 1)
      BY <1>5, <3>1
    <3> QED BY <1>1, <2>2, <3>1, <3>2
  <2> HIDE DEF S
  <2>3. \A i \in 0..n : i \in S
    BY <1>1, <2>1, <2>2, Upwards
  <2> QED BY <2>3 DEF S
<1>7. F \in [0..n -> A]
  <2>1. F = [i \in 0..n |-> F[i]]
    BY <1>4
  <2> QED BY <1>6, <2>1
<1> QED BY <1>2, <1>5, <1>7 DEF n, A, from, Step, KnownRun

\* When it has been told of a block, the wallet knows what is relevant in it.
LEMMA KnownFacts ==
    ASSUME NEW w \in SUBSET Txs, NEW b \in Blocks, NEW C \in SUBSET Txs, NEW f,
           \A i \in 0..Len(Vtx[b]) : History(C \cup FirstOf(b, i), f[i]),
           \A k \in 1..Len(Vtx[b]) : \A o \in Prevouts(Vtx[b][k]) : IsAvailable(f[k - 1], o),
           \A t \in C : Relevant(t) => t \in w
    PROVE  LET v == Fold(Known, w, Vtx[b])
           IN  w \subseteq v /\ v \subseteq w \cup Members(b) /\ \A t \in Members(b) : Relevant(t) => t \in v
<1>1. PICK g : KnownRun(g, w, b) /\ Fold(Known, w, Vtx[b]) = g[Len(Vtx[b])]
  BY KnownTrace
<1> DEFINE n == Len(Vtx[b])
           Good(i) == /\ w \subseteq g[i] /\ g[i] \subseteq w \cup FirstOf(b, i)
                      /\ \A t \in FirstOf(b, i) : Relevant(t) => t \in g[i]
           S == {i \in 0..n : Good(i)}
<1>2. n \in Nat /\ g[0] = w
  BY <1>1, VtxType DEF KnownRun
<1>3. 0 \in S
  BY <1>2 DEF FirstOf
<1>4. ASSUME NEW i \in 0..n, i \in S, i < n PROVE i + 1 \in S
  <2> DEFINE k == i + 1
             t == Vtx[b][k]
  <2>1. k \in 1..n /\ k \in 0..n /\ k - 1 = i
    BY <1>2, <1>4
  <2>2. FirstOf(b, k) = FirstOf(b, i) \cup {t}
    <3>1. \A j : j \in 1..k <=> j \in 1..i \/ j = k
      BY <2>1
    <3> QED BY <3>1 DEF FirstOf
  <2>3. Good(i)
    BY <1>4
  <2> HIDE DEF k
  <2>4. g[k] = Known(g[i], t) /\ t \in Txs
    BY <1>1, <2>1, VtxType DEF KnownRun
  <2>5. \A o \in Prevouts(t) : IsAvailable(f[i], o) /\ o[1] \in Txs
    BY <2>1, <2>4, PrevoutsRange
  <2>6. History(C \cup FirstOf(b, i), f[i])
    OBVIOUS
  <2> HIDE DEF t
  <2>7. Relevant(t) => InvolvesMe(g[i], t)
    <3>1. ASSUME NEW o \in Prevouts(t) \cap Mine PROVE o[1] \in g[i]
      <4>1. o[1] \in C \cup FirstOf(b, i) /\ Relevant(o[1])
        BY <2>5, <2>6, RelevantFacts DEF History, IsAvailable
      <4> QED BY <2>3, <4>1
    <3> QED BY <3>1, RelevantFacts
  <2>8. g[i] \subseteq g[k] /\ g[k] \subseteq g[i] \cup {t} /\ (Relevant(t) => t \in g[k])
    BY <2>4, <2>7 DEF Known
  <2>9. Good(k)
    BY <2>2, <2>3, <2>8
  <2> QED BY <2>1, <2>9 DEF k
<1> HIDE DEF S
<1>5. \A i \in 0..n : i \in S
  BY <1>2, <1>3, <1>4, Upwards
<1>6. Good(n)
  <2>1. n \in S
    BY <1>2, <1>5
  <2> QED BY <2>1 DEF S
<1>7. FirstOf(b, n) = Members(b)
  BY DEF FirstOf, Members
<1> QED BY <1>1, <1>6, <1>7

\* The wallet knows everything relevant in the chain and in the pool, and
\* the block of what is confirmed; nothing is both in the chain and the pool.
WalletInv ==
    /\ mapWallet \subseteq Txs /\ hashBlock \in [Txs -> Blocks \cup {None}]
    /\ \A t \in Txs : hashBlock[t] # None => t \in Members(hashBlock[t])
    /\ \A t \in mapWallet : \A k \in 1..Len(chain) : t \in Members(chain[k]) => hashBlock[t] = chain[k]
    /\ \A t \in Confirmed \cup pool.mapTx : Relevant(t) => t \in mapWallet
    /\ Confirmed \cap pool.mapTx = {}

LEMMA WalletStart == WalletInit => WalletInv
<1> SUFFICES ASSUME WalletInit PROVE WalletInv
  OBVIOUS
<1>1. chain = <<Base>> /\ pool.mapTx = {} /\ mapWallet = {t \in Members(Base) : IsMine(t)}
      /\ hashBlock = [t \in Txs |-> IF t \in mapWallet THEN Base ELSE None]
  BY DEF WalletInit, Init, EmptyPool, Members
<1>2. Base \in Blocks /\ Members(Base) \subseteq Txs
  BY MempoolAssumption, VtxType DEF Members
<1>3. Len(chain) = 1 /\ chain[1] = Base
  BY <1>1
<1>4. Confirmed = Members(Base)
  BY <1>3 DEF Confirmed, Members
<1>5. ASSUME NEW t \in Members(Base) PROVE Prevouts(t) = {}
  <2>1. t \in Txs /\ t \in CoinBases
    BY <1>2, MempoolAssumption DEF Members
  <2>2. Vin[t] = <<>>
    BY <2>1, MempoolAssumption
  <2> QED BY <2>2 DEF Prevouts
<1>6. \A t \in Confirmed \cup pool.mapTx : Relevant(t) => t \in mapWallet
  BY <1>1, <1>4, <1>5 DEF Relevant
<1>7. mapWallet \subseteq Txs /\ hashBlock \in [Txs -> Blocks \cup {None}]
  BY <1>1, <1>2
<1>8. \A t \in mapWallet : hashBlock[t] = Base
  BY <1>1, <1>7
<1>9. \A t \in Txs : hashBlock[t] # None => t \in Members(hashBlock[t])
  BY <1>1
<1>10. \A k \in 1..Len(chain) : chain[k] = Base
  BY <1>3
<1> QED BY <1>1, <1>6, <1>7, <1>8, <1>9, <1>10 DEF WalletInv

LEMMA WalletQuiet ==
    ASSUME WalletInv, UNCHANGED <<chain, mapWallet, hashBlock>>, pool'.mapTx \subseteq pool.mapTx
    PROVE  WalletInv'
<1>1. Confirmed' = Confirmed
  BY DEF Confirmed
<1> QED BY <1>1 DEF WalletInv

\* An accepted transaction that concerns the wallet is added to it.
LEMMA WalletAccept ==
    ASSUME CoinInv, PoolInv, WalletInv, UNCHANGED <<chain, hashBlock>>, NEW t \in Txs, NEW refused,
           AcceptToMemoryPool(pool, coins, t, refused, Len(chain) + 1) = "accepted",
           pool' = addUnchecked(pool, t),
           mapWallet \subseteq mapWallet', mapWallet' \subseteq mapWallet \cup {t},
           InvolvesMe(mapWallet, t) => t \in mapWallet'
    PROVE  WalletInv'
<1>1. pool \in Pools
  BY DEF PoolInv
<1>2. Acceptable(pool, coins, t, Len(chain) + 1)
  BY <1>1, AcceptFacts
<1>3. Confirmed' = Confirmed /\ pool'.mapTx = pool.mapTx \cup {t}
  BY <1>1, AddedType DEF Confirmed
<1>4. t \notin Confirmed /\ \A o \in Prevouts(t) : o[1] \in Confirmed \cup pool.mapTx
  <2>1. History(Confirmed, coins) /\ Confirmed \cap pool.mapTx = {}
    BY ConfirmedFacts DEF WalletInv
  <2> QED BY <1>2, <2>1, AcceptableNew
<1>5. Relevant(t) => t \in mapWallet'
  <2>1. \A o \in Prevouts(t) \cap Mine : o[1] \in mapWallet
    BY <1>4, RelevantFacts DEF WalletInv
  <2> QED BY <2>1, RelevantFacts
<1>6. \A k \in 1..Len(chain) : t \notin Members(chain[k])
  BY <1>4 DEF Confirmed, Members
<1>7. \A u \in mapWallet' : \A k \in 1..Len(chain) : u \in Members(chain[k]) => hashBlock[u] = chain[k]
  BY <1>6 DEF WalletInv
<1>8. \A u \in Confirmed' \cup pool'.mapTx : Relevant(u) => u \in mapWallet'
  BY <1>3, <1>5 DEF WalletInv
<1>9. Confirmed' \cap pool'.mapTx = {}
  BY <1>3, <1>4 DEF WalletInv
<1> QED BY <1>7, <1>8, <1>9 DEF WalletInv

LEMMA WalletConnect ==
    ASSUME CoinInv, PoolInv, WalletInv, NEW b \in Blocks, WalletConnectTip(b)
    PROVE  WalletInv'
<1> DEFINE h == Len(chain) + 1
           new == ConnectBlock(coins, b, h)
<1>1. /\ new.ok /\ pool' = removeForBlock(pool, Vtx[b]) /\ chain' = Append(chain, b)
      /\ b # Base /\ Parent[b] = Tip
  BY DEF WalletConnectTip, ConnectTip
<1>2. /\ mapWallet' = Fold(Known, mapWallet, Vtx[b])
      /\ hashBlock' = [t \in Txs |-> IF t \in mapWallet' /\ t \in Members(b) THEN b ELSE hashBlock[t]]
  BY DEF WalletConnectTip, SyncBlock, Members
<1>3. h \in Nat /\ coins \in CoinMaps /\ chain \in Seq(Blocks) /\ IsPath(chain) /\ Len(chain) \in 1..Len(chain)
  BY CoinInvWF DEF CoinInv
<1>4. /\ Len(chain') = h /\ chain'[h] = b /\ \A k \in 1..Len(chain) : chain'[k] = chain[k]
      /\ \A k \in 1..h : k \in 1..Len(chain) \/ k = h
  BY <1>1, <1>3
<1>5. Confirmed = Within(Len(chain)) /\ Confirmed \in SUBSET Txs /\ History(Confirmed, coins)
  BY ConfirmedFacts
<1>6. Height[b] = Len(chain) + 1
  <2>1. Height[Tip] = Len(chain)
    BY <1>3, HeightIsPlace DEF Tip
  <2> QED BY <1>1, <2>1, MempoolAssumption
<1>7. \A k \in 1..Len(Vtx[b]) : Vtx[b][k] \in CoinBases => Vtx[b][k] \notin Confirmed
  BY <1>3, <1>5, <1>6, CoinbaseNew
<1> HIDE DEF h
<1>8. PICK f : Connected(f, coins, b, h)
  BY <1>1, <1>3, ConnectFacts
<1>9. /\ ApplyRun(f, coins, b, h)
      /\ \A k \in 1..Len(Vtx[b]) : \A o \in Prevouts(Vtx[b][k]) : IsAvailable(f[k - 1], o)
  BY <1>8 DEF Connected, ValidRun
<1>10. Confirmed \cap Members(b) = {} /\ \A i \in 0..Len(Vtx[b]) : History(Confirmed \cup FirstOf(b, i), f[i])
  BY <1>3, <1>5, <1>7, <1>9, BlockHistory
<1>11. mapWallet \in SUBSET Txs /\ \A t \in Confirmed \cup pool.mapTx : Relevant(t) => t \in mapWallet
  BY DEF WalletInv
<1>12. /\ mapWallet \subseteq mapWallet' /\ mapWallet' \subseteq mapWallet \cup Members(b)
       /\ \A t \in Members(b) : Relevant(t) => t \in mapWallet'
  BY <1>2, <1>5, <1>9, <1>10, <1>11, KnownFacts
<1>13. Confirmed' = Confirmed \cup Members(b)
  <2>1. Confirmed = UNION {Members(chain[k]) : k \in 1..Len(chain)}
    BY DEF Confirmed, Members
  <2>2. Confirmed' = UNION {Members(chain'[k]) : k \in 1..Len(chain')}
    BY DEF Confirmed, Members
  <2>3. h \in 1..h /\ \A k \in 1..Len(chain) : k \in 1..h
    BY <1>3 DEF h
  <2>4. ASSUME NEW t PROVE t \in Confirmed' <=> t \in Confirmed \cup Members(b)
    BY <1>4, <2>1, <2>2, <2>3
  <2> QED BY <2>4
<1>14. pool'.mapTx \subseteq pool.mapTx \ Members(b)
  BY <1>1, ForBlockShrinks DEF PoolInv
<1>15. Members(b) \subseteq Txs
  BY VtxType DEF Members
<1>16. mapWallet' \subseteq Txs /\ hashBlock' \in [Txs -> Blocks \cup {None}]
  BY <1>2, <1>11, <1>12, <1>15 DEF WalletInv
<1>17. ASSUME NEW t \in Txs, hashBlock'[t] # None PROVE t \in Members(hashBlock'[t])
  BY <1>2, <1>17 DEF WalletInv
<1>18. ASSUME NEW t \in mapWallet', NEW k \in 1..Len(chain'), t \in Members(chain'[k])
       PROVE  hashBlock'[t] = chain'[k]
  <2>1. t \in Txs
    BY <1>16
  <2>2. CASE k = h
    BY <1>2, <1>4, <1>18, <2>1, <2>2
  <2>3. CASE k \in 1..Len(chain)
    <3>1. t \in Members(chain[k])
      BY <1>4, <1>18, <2>3
    <3>2. t \in Confirmed
      BY <2>3, <3>1 DEF Confirmed, Members
    <3>3. t \notin Members(b) /\ t \in mapWallet
      BY <1>10, <1>12, <3>2
    <3>4. hashBlock[t] = chain[k]
      BY <2>3, <3>1, <3>3 DEF WalletInv
    <3> QED BY <1>2, <1>4, <2>1, <2>3, <3>3, <3>4
  <2> QED BY <1>4, <2>2, <2>3
<1>19. \A t \in Confirmed' \cup pool'.mapTx : Relevant(t) => t \in mapWallet'
  BY <1>11, <1>12, <1>13, <1>14
<1>20. Confirmed' \cap pool'.mapTx = {}
  BY <1>13, <1>14 DEF WalletInv
<1> QED BY <1>16, <1>17, <1>18, <1>19, <1>20 DEF WalletInv

LEMMA WalletDisconnect ==
    ASSUME CoinInv, PoolInv, WalletInv, NEW refused, WalletDisconnectTip(refused)
    PROVE  WalletInv'
<1> DEFINE h == Len(chain)
           old == DisconnectBlock(coins, Tip, undo[Tip], h)
           back == Resurrected(pool, old.coins, Tip, refused, h)
<1>1. /\ Tip # Base /\ chain' = SubSeq(chain, 1, h - 1) /\ hashBlock' = hashBlock
      /\ pool' = removeCoinbaseSpends(back, old.coins, h)
  BY DEF WalletDisconnectTip, DisconnectTip, Resurrected, SyncTransactions
<1>2. mapWallet \subseteq mapWallet' /\ mapWallet' \subseteq mapWallet \cup Members(Tip)
  BY DEF WalletDisconnectTip, SyncTransactions, Members
<1>3. h \in Nat \ {0, 1} /\ Tip \in Blocks /\ chain[h] = Tip /\ Len(chain') = h - 1 /\ \A k \in 1..(h - 1) : chain'[k] = chain[k]
  <2>1. /\ h \in Nat \ {0, 1} /\ Tip \in Blocks /\ Len(SubSeq(chain, 1, h - 1)) = h - 1
        /\ \A i \in 1..(h - 1) : SubSeq(chain, 1, h - 1)[i] = chain[i]
    BY <1>1, TipOnPath
  <2> QED BY <1>1, <2>1 DEF Tip
<1>4. h - 1 \in 1..h /\ h - 1 + 1 = h /\ h \in 1..h /\ \A k \in 1..(h - 1) : k \in 1..h
  BY <1>3
<1>5. Within(h - 1) \cap Members(Tip) = {}
  <2>1. h - 1 + 1 \in 1..h => Within(h - 1) \cap Members(chain[h - 1 + 1]) = {}
    BY <1>4, ChainHistory
  <2> QED BY <1>3, <1>4, <2>1
<1>6. Confirmed' = Within(h - 1)
  <2>1. Confirmed' = UNION {Members(chain'[k]) : k \in 1..Len(chain')}
    BY DEF Confirmed, Members
  <2> QED BY <1>3, <2>1 DEF Within
<1>7. Confirmed' \subseteq Confirmed /\ Members(Tip) \subseteq Confirmed /\ Members(Tip) \subseteq Txs
  <2>1. Confirmed = Within(h) /\ Confirmed \in SUBSET Txs
    BY ConfirmedFacts
  <2>2. Members(chain[h]) \subseteq Within(h) /\ Within(h - 1) \subseteq Within(h)
    BY <1>4 DEF Within
  <2> QED BY <1>3, <1>6, <2>1, <2>2
<1>8. back \in Pools /\ back.mapTx \subseteq pool.mapTx \cup Members(Tip)
  <2> HIDE DEF old
  <2> QED BY <1>3, ResurrectedFrom DEF PoolInv
<1> HIDE DEF back, old
<1>9. pool'.mapTx \subseteq pool.mapTx \cup Members(Tip)
  <2>1. removeCoinbaseSpends(back, old.coins, h).mapTx \subseteq back.mapTx
    BY <1>8, ErasedType DEF removeCoinbaseSpends
  <2> QED BY <1>1, <1>8, <2>1
<1>10. mapWallet' \subseteq Txs
  BY <1>2, <1>7 DEF WalletInv
<1>11. ASSUME NEW t \in mapWallet', NEW k \in 1..Len(chain'), t \in Members(chain'[k])
       PROVE  hashBlock'[t] = chain'[k]
  <2>1. k \in 1..h /\ chain'[k] = chain[k] /\ k \in 1..(h - 1)
    BY <1>3, <1>4
  <2>2. t \in Within(h - 1)
    BY <1>11, <2>1 DEF Within
  <2>3. t \in mapWallet
    BY <1>2, <1>5, <2>2
  <2> QED BY <1>1, <1>11, <2>1, <2>3 DEF WalletInv
<1>12. \A t \in Confirmed' \cup pool'.mapTx : Relevant(t) => t \in mapWallet'
  BY <1>2, <1>7, <1>9 DEF WalletInv
<1>13. Confirmed' \cap pool'.mapTx = {}
  BY <1>5, <1>6, <1>7, <1>9 DEF WalletInv
<1> QED BY <1>1, <1>10, <1>11, <1>12, <1>13 DEF WalletInv

\* A transaction that the wallet makes is new to it, and so not in the chain.
LEMMA WalletCommit ==
    ASSUME CoinInv, PoolInv, WalletInv, NEW t \in Made, NEW refused, CommitTransaction(t, refused)
    PROVE  WalletInv'
<1>1. t \in Txs /\ t \notin CoinBases /\ Prevouts(t) \subseteq Mine
  BY WalletAssumption
<1>2. Relevant(t)
  <2>1. Vin[t] \in Seq(Txs \X Nat) /\ Vin[t] # <<>>
    BY <1>1, MempoolAssumption
  <2>2. 1 \in 1..Len(Vin[t])
    BY <2>1
  <2>3. Vin[t][1] \in Prevouts(t)
    BY <2>2 DEF Prevouts
  <2> QED BY <1>1, <2>3 DEF Relevant
<1>3. /\ t \notin mapWallet /\ mapWallet' = mapWallet \cup {t} /\ UNCHANGED <<chain, hashBlock>>
      /\ pool' = IF AcceptToMemoryPool(pool, coins, t, refused, Len(chain) + 1) = "accepted"
                 THEN addUnchecked(pool, t) ELSE pool
  BY DEF CommitTransaction
<1>4. CASE AcceptToMemoryPool(pool, coins, t, refused, Len(chain) + 1) = "accepted"
  BY <1>1, <1>3, <1>4, WalletAccept
<1>5. CASE AcceptToMemoryPool(pool, coins, t, refused, Len(chain) + 1) # "accepted"
  <2>1. pool' = pool /\ Confirmed' = Confirmed
    BY <1>3, <1>5 DEF Confirmed
  <2>2. t \notin Confirmed
    BY <1>2, <1>3 DEF WalletInv
  <2>3. \A k \in 1..Len(chain) : t \notin Members(chain[k])
    BY <2>2 DEF Confirmed, Members
  <2>4. \A u \in mapWallet' : \A k \in 1..Len(chain) : u \in Members(chain[k]) => hashBlock[u] = chain[k]
    BY <1>3, <2>3 DEF WalletInv
  <2>5. \A u \in Confirmed' \cup pool'.mapTx : Relevant(u) => u \in mapWallet'
    BY <1>3, <2>1 DEF WalletInv
  <2> QED BY <1>1, <1>3, <2>1, <2>4, <2>5 DEF WalletInv
<1> QED BY <1>4, <1>5

\* After a restart the pool holds transactions of the wallet that are not in
\* the chain.
LEMMA WalletRestart ==
    ASSUME CoinInv, WalletInv, NEW order \in HashOrders, Restart(order)
    PROVE  WalletInv'
<1>1. order \in Seq(Txs)
  BY WalletAssumption
<1>2. UNCHANGED <<chain, mapWallet, hashBlock>> /\ pool' = Fold(Reaccept, EmptyPool, order)
  BY DEF Restart
<1>3. PICK f : ReacceptRun(f, order) /\ Fold(Reaccept, EmptyPool, order) = f[Len(order)]
  BY <1>1, ReacceptTrace
<1> DEFINE n == Len(order)
           S == {i \in 0..n : f[i].mapTx \subseteq mapWallet /\ Confirmed \cap f[i].mapTx = {}}
<1>4. n \in Nat /\ f[0] = EmptyPool /\ (\A i \in 0..n : f[i] \in Pools) /\ \A i \in 1..n : order[i] \in Txs
  BY <1>1, <1>3, ElementsType DEF ReacceptRun
<1>5. 0 \in S
  BY <1>4 DEF EmptyPool
<1>6. ASSUME NEW i \in 0..n, i \in S, i < n PROVE i + 1 \in S
  <2> DEFINE t == order[i + 1]
  <2>1. i + 1 \in 1..n /\ i + 1 \in 0..n /\ i + 1 - 1 = i
    BY <1>4, <1>6
  <2>2. f[i + 1] = Reaccept(f[i], t) /\ t \in Txs /\ f[i] \in Pools
    BY <1>3, <1>4, <2>1 DEF ReacceptRun
  <2>3. f[i].mapTx \subseteq mapWallet /\ Confirmed \cap f[i].mapTx = {}
    BY <1>6
  <2> HIDE DEF t
  <2>4. CASE f[i + 1] = f[i]
    BY <2>1, <2>3, <2>4
  <2>5. CASE /\ f[i + 1] = addUnchecked(f[i], t) /\ t \in mapWallet
             /\ AcceptToMemoryPool(f[i], coins, t, {}, Len(chain) + 1) = "accepted"
    <3>1. Acceptable(f[i], coins, t, Len(chain) + 1)
      BY <2>2, <2>5, AcceptFacts
    <3>2. t \notin Confirmed
      BY <2>2, <2>3, <3>1, AcceptableNew, ConfirmedFacts
    <3>3. f[i + 1].mapTx = f[i].mapTx \cup {t}
      BY <2>2, <2>5, AddedType
    <3> QED BY <2>1, <2>3, <2>5, <3>2, <3>3
  <2> QED BY <2>2, <2>4, <2>5 DEF Reaccept
<1> HIDE DEF S
<1>7. \A i \in 0..n : i \in S
  BY <1>4, <1>5, <1>6, Upwards
<1>8. n \in S
  BY <1>4, <1>7
<1>9. pool'.mapTx \subseteq mapWallet /\ Confirmed \cap pool'.mapTx = {}
  BY <1>2, <1>3, <1>8 DEF S
<1>10. Confirmed' = Confirmed
  BY <1>2 DEF Confirmed
<1> QED BY <1>2, <1>9, <1>10 DEF WalletInv

LEMMA WalletSteps ==
    ASSUME CoinInv, OrphanInv, PoolInv, WalletInv, [WalletNext]_walletVars
    PROVE  WalletInv'
<1>1. pool \in Pools
  BY DEF PoolInv
<1>2. ASSUME NEW p \in Peers, InitializeNode(p) \/ FinalizeNode(p), UNCHANGED <<mapWallet, hashBlock>> PROVE WalletInv'
  <2>1. UNCHANGED <<pool, chain>>
    BY <1>2 DEF InitializeNode, FinalizeNode
  <2> QED BY <1>2, <2>1, WalletQuiet
<1>3. ASSUME UNCHANGED <<pool, chain>>, Accepted PROVE WalletInv'
  <2>1. mapWallet' = mapWallet /\ hashBlock' = hashBlock
    BY <1>3 DEF Accepted, SyncTransactions
  <2> QED BY <1>3, <2>1, WalletQuiet
<1>4. ASSUME NEW t \in Txs, NEW refused, UNCHANGED chain, pool' = addUnchecked(pool, t), Accepted,
             AcceptToMemoryPool(pool, coins, t, refused, Len(chain) + 1) = "accepted"
      PROVE  WalletInv'
  <2>1. t \notin pool.mapTx
    <3>1. Acceptable(pool, coins, t, Len(chain) + 1)
      BY <1>1, <1>4, AcceptFacts
    <3> QED BY <3>1 DEF Acceptable
  <2>2. pool'.mapTx \ pool.mapTx = {t}
    BY <1>1, <1>4, <2>1, AddedType
  <2>3. mapWallet' = mapWallet \cup {u \in {t} : InvolvesMe(mapWallet, u)} /\ hashBlock' = hashBlock
    BY <1>4, <2>2 DEF Accepted, SyncTransactions
  <2>4. /\ mapWallet \subseteq mapWallet' /\ mapWallet' \subseteq mapWallet \cup {t}
        /\ InvolvesMe(mapWallet, t) => t \in mapWallet'
    BY <2>3
  <2> QED BY <1>4, <2>3, <2>4, WalletAccept
<1>5. ASSUME NEW p \in Peers, NEW t \in Txs, NEW refused, ProcessTx(p, t, refused), Accepted PROVE WalletInv'
  <2> DEFINE result == AcceptToMemoryPool(pool, coins, t, refused, Len(chain) + 1)
  <2>1. UNCHANGED chain
    BY <1>5 DEF ProcessTx
  <2>2. CASE result = "accepted"
    <3>1. pool' = addUnchecked(pool, t)
      BY <1>5, <2>2 DEF ProcessTx
    <3> QED BY <1>4, <1>5, <2>1, <2>2, <3>1
  <2>3. CASE result # "accepted"
    <3>1. pool' = pool
      BY <1>5, <2>3 DEF ProcessTx
    <3> QED BY <1>3, <1>5, <2>1, <3>1
  <2> QED BY <2>2, <2>3
<1>6. ASSUME NEW t \in Txs, NEW refused, NEW punish, TryOrphan(t, refused, punish), Accepted PROVE WalletInv'
  <2>1. UNCHANGED chain
    BY <1>6 DEF TryOrphan
  <2>2. \/ pool' = pool
        \/ /\ pool' = addUnchecked(pool, t)
           /\ AcceptToMemoryPool(pool, coins, t, refused, Len(chain) + 1) = "accepted"
    BY <1>6 DEF TryOrphan
  <2> QED BY <1>3, <1>4, <1>6, <2>1, <2>2
<1>7. ASSUME NEW t \in Txs, NEW refused, SubmitTx(t, refused), Accepted PROVE WalletInv'
  <2>1. UNCHANGED chain /\ pool' = addUnchecked(pool, t)
        /\ AcceptToMemoryPool(pool, coins, t, refused, Len(chain) + 1) = "accepted"
    BY <1>7 DEF SubmitTx
  <2> QED BY <1>4, <1>7, <2>1
<1>8. ASSUME NextWork, UNCHANGED <<mapWallet, hashBlock>> PROVE WalletInv'
  <2>1. UNCHANGED <<pool, chain>>
    BY <1>8 DEF NextWork
  <2> QED BY <1>8, <2>1, WalletQuiet
<1>9. ASSUME UNCHANGED walletVars PROVE WalletInv'
  BY <1>9, WalletQuiet DEF walletVars, vars
<1> QED BY <1>2, <1>5, <1>6, <1>7, <1>8, <1>9, WalletConnect, WalletDisconnect, WalletCommit, WalletRestart
        DEF WalletNext

\* Everything that the theorems rest on.
StateInv == CoinInv /\ OrphanInv /\ PoolInv /\ WalletInv

\* In every reachable state the coins, the undo data, the orphans, the pool
\* and the wallet are consistent with the chain and with each other.
THEOREM StateInvariant == WalletSpec => []StateInv
<1>1. WalletInit => StateInv
  BY CoinInit, OrphanInit, PoolInit, WalletStart DEF WalletInit, Init, StateInv
<1>2. StateInv /\ [WalletNext]_walletVars => StateInv'
  <2>1. OrphanInv /\ UNCHANGED walletVars => OrphanInv'
    BY OrphanQuiet DEF walletVars, vars
  <2> QED BY <2>1, CoinNext, OrphanNext, PoolNext, WalletSteps DEF StateInv
<1> QED BY <1>1, <1>2, PTL DEF WalletSpec

\* A confirmed transaction of the wallet is at a depth above zero, and only
\* a confirmed one.
LEMMA DepthFacts ==
    ASSUME CoinInv, WalletInv, NEW t \in mapWallet
    PROVE  /\ t \in Confirmed <=> GetDepthInMainChain(t) > 0
           /\ \A k \in 1..Len(chain) : t \in Members(chain[k]) => GetDepthInMainChain(t) = Len(chain) + 1 - k
           /\ t \in pool.mapTx => GetDepthInMainChain(t) >= 0
           /\ GetDepthInMainChain(t) \in Int
<1> DEFINE at == {k \in 1..Len(chain) : chain[k] = hashBlock[t]}
           pick == CHOOSE k \in at : TRUE
<1>1. /\ chain \in Seq(Blocks) /\ Len(chain) \in Nat /\ IsPath(chain) /\ t \in Txs
      /\ hashBlock[t] \in Blocks \cup {None}
  BY CoinInvWF DEF CoinInv, WalletInv
<1>2. GetDepthInMainChain(t) = IF hashBlock[t] = None THEN 0
                               ELSE IF at # {} THEN Len(chain) + 1 - pick
                               ELSE IF t \in pool.mapTx THEN 0 ELSE -1
  BY DEF GetDepthInMainChain
<1>3. at # {} => pick \in 1..Len(chain) /\ chain[pick] = hashBlock[t]
  OBVIOUS
<1> HIDE DEF pick
<1>4. ASSUME NEW k \in 1..Len(chain), t \in Members(chain[k])
      PROVE  hashBlock[t] = chain[k] /\ hashBlock[t] # None /\ at # {} /\ pick = k
  <2>1. hashBlock[t] = chain[k] /\ chain[k] \in Blocks
    BY <1>1, <1>4 DEF WalletInv
  <2>2. hashBlock[t] # None /\ at # {}
    BY <2>1, MempoolAssumption
  <2>3. Height[chain[pick]] = pick /\ Height[chain[k]] = k
    BY <1>1, <1>3, <2>2, HeightIsPlace
  <2> QED BY <1>3, <2>1, <2>2, <2>3
<1>5. \A k \in 1..Len(chain) : t \in Members(chain[k]) => GetDepthInMainChain(t) = Len(chain) + 1 - k
  BY <1>2, <1>4
<1>6. Confirmed = UNION {Members(chain[k]) : k \in 1..Len(chain)}
  BY DEF Confirmed, Members
<1>7. ASSUME t \in Confirmed PROVE GetDepthInMainChain(t) > 0
  <2>1. PICK k \in 1..Len(chain) : t \in Members(chain[k])
    BY <1>6, <1>7
  <2>2. GetDepthInMainChain(t) = Len(chain) + 1 - k
    BY <1>5, <2>1
  <2> QED BY <1>1, <2>2
<1>8. ASSUME GetDepthInMainChain(t) > 0 PROVE t \in Confirmed
  <2>1. hashBlock[t] # None /\ at # {}
    BY <1>2, <1>8
  <2>2. chain[pick] = hashBlock[t] /\ pick \in 1..Len(chain) /\ t \in Members(hashBlock[t])
    BY <1>1, <1>3, <2>1 DEF WalletInv
  <2> QED BY <1>6, <2>2
<1>9. GetDepthInMainChain(t) \in Int /\ (t \in pool.mapTx => GetDepthInMainChain(t) >= 0)
  <2>1. at # {} => Len(chain) + 1 - pick \in Nat
    BY <1>1, <1>3
  <2> HIDE DEF at
  <2> QED BY <1>2, <2>1
<1> QED BY <1>5, <1>7, <1>8, <1>9

\* Whatever blocks were connected and disconnected, whatever the pool took in
\* and threw out, the wallet knows every transaction of the chain and of the
\* pool that pays it or spends its outputs, and counts exactly the confirmed
\* ones as confirmed (wallet.cpp SyncTransaction, AddToWallet,
\* GetDepthInMainChain).
THEOREM WalletStaysComplete == WalletSpec => []WalletComplete
<1>1. ASSUME StateInv PROVE WalletComplete
  <2>1. ASSUME NEW t \in Confirmed \cup pool.mapTx, InvolvesMe(mapWallet, t) PROVE t \in mapWallet
    BY <1>1, <2>1, RelevantFacts DEF StateInv, WalletInv
  <2>2. \A t \in mapWallet : t \in Confirmed <=> GetDepthInMainChain(t) > 0
    BY <1>1, DepthFacts DEF StateInv
  <2> QED BY <2>1, <2>2 DEF WalletComplete
<1> QED BY <1>1, StateInvariant, PTL

-----------------------------------------------------------------------------
(* The transactions that the wallet makes *)

\* Only coinstakes have the flag.  A coinstake may have lost it.
Staked(c) == \A q \in Txs : c[q].fCoinStake = TRUE => q \in CoinStakes

LEMMA UpdateStaked ==
    ASSUME NEW c \in CoinMaps, NEW t \in Txs, NEW h \in Nat, Staked(c)
    PROVE  Staked(UpdateCoins(c, t, h).coins)
<1> DEFINE d == UpdateCoins(c, t, h).coins
<1>1. /\ d[t] = FromTx(t, h)
      /\ \A q \in Txs \ {t} : /\ d[q].vout # {} => Kept(d[q], c[q])
                              /\ d[q].vout = {} => d[q] \in {c[q], Pruned}
  BY UpdateSummary
<1> HIDE DEF d
<1>2. FromTx(t, h).fCoinStake = (t \in CoinStakes)
  BY DEF FromTx
<1>3. Pruned.fCoinStake = FALSE
  BY DEF Pruned
<1>4. ASSUME NEW q \in Txs, d[q].fCoinStake = TRUE PROVE q \in CoinStakes
  <2>1. CASE q = t
    BY <1>1, <1>2, <1>4, <2>1
  <2>2. CASE q # t
    <3>1. d[q].fCoinStake = c[q].fCoinStake \/ d[q].fCoinStake = FALSE
      BY <1>1, <1>3, <2>2 DEF Kept
    <3> QED BY <1>4, <3>1 DEF Staked
  <2> QED BY <2>1, <2>2
<1>5. Staked(d)
  BY <1>4 DEF Staked
<1> QED BY <1>5 DEF d

LEMMA ApplyStaked ==
    ASSUME NEW c \in CoinMaps, NEW b \in Blocks, NEW h \in Nat, NEW f, ApplyRun(f, c, b, h), Staked(c)
    PROVE  Staked(f[Len(Vtx[b])])
<1> DEFINE n == Len(Vtx[b])
           S == {i \in 0..n : Staked(f[i])}
<1>1. n \in Nat /\ f[0] = c /\ \A i \in 0..n : f[i] \in CoinMaps
  BY VtxType DEF ApplyRun
<1>2. 0 \in S
  BY <1>1
<1>3. ASSUME NEW i \in 0..n, i \in S, i < n PROVE i + 1 \in S
  <2>1. i + 1 \in 1..n /\ i + 1 \in 0..n /\ i + 1 - 1 = i
    BY <1>1, <1>3
  <2>2. f[i + 1] = UpdateCoins(f[i], Vtx[b][i + 1], h).coins /\ Vtx[b][i + 1] \in Txs
    BY <2>1, VtxType DEF ApplyRun
  <2>3. Staked(f[i + 1])
    BY <1>1, <1>3, <2>2, UpdateStaked
  <2> QED BY <2>1, <2>3
<1> HIDE DEF S
<1>4. \A i \in 0..n : i \in S
  BY <1>1, <1>2, <1>3, Upwards
<1>5. n \in S
  BY <1>1, <1>4
<1> QED BY <1>5 DEF S

\* RestoreInput clears the flag or leaves it alone.
LEMMA UndoTxStaked ==
    ASSUME NEW acc \in UndoAcc, NEW t \in Txs, NEW h, NEW u, \A j \in 1..Len(Vin[t]) : u[j] \in CoinRec,
           Staked(acc.coins)
    PROVE  Staked(UndoTx(acc, t, u, h).coins)
<1> DEFINE ins == Reversed(Inputs(t, u))
           n == Len(ins)
<1>1. PICK f : RestoreRun(f, acc, t, u, h) /\ UndoTx(acc, t, u, h) = f[n]
  BY RestoreTrace
<1>2. n \in Nat /\ \A i \in 1..n : ins[i] \in [out : Txs \X Nat, undo : CoinRec]
  BY InputsType, ReversedFacts, ElementsType
<1> HIDE DEF ins
<1>3. /\ f[0] = Removed(acc, t, h) /\ \A i \in 0..n : f[i] \in UndoAcc
      /\ \A i \in 1..n : f[i] = RestoreInput(f[i - 1], ins[i])
  BY <1>1 DEF RestoreRun, ins
<1> DEFINE S == {i \in 0..n : Staked(f[i].coins)}
<1>4. 0 \in S
  <2>1. Pruned.fCoinStake = FALSE
    BY DEF Pruned
  <2>2. Staked(f[0].coins)
    BY <1>3, <2>1, RemovedFacts DEF Staked
  <2> QED BY <1>2, <2>2
<1>5. ASSUME NEW i \in 0..n, i \in S, i < n PROVE i + 1 \in S
  <2> DEFINE k == i + 1
             o == ins[k].out
             v == ins[k].undo
  <2>1. k \in 1..n /\ k \in 0..n /\ k - 1 = i
    BY <1>2, <1>5
  <2> HIDE DEF k
  <2>2. o \in Txs \X Nat /\ v \in CoinRec /\ ins[k] = [out |-> o, undo |-> v]
    BY <1>2, <2>1
  <2> HIDE DEF o, v
  <2>3. f[k] = RestoreInput(f[i], [out |-> o, undo |-> v]) /\ f[i] \in UndoAcc
    BY <1>3, <2>1, <2>2
  <2>4. /\ \A q \in Txs \ {o[1]} : f[k].coins[q] = f[i].coins[q]
        /\ f[k].coins[o[1]] = Restored(f[i].coins[o[1]], v)
    BY <2>2, <2>3, RestoreFacts
  <2>5. o[1] \in Txs /\ f[i].coins[o[1]] \in CoinRec
    BY <2>2, <2>3 DEF UndoAcc, CoinMaps
  <2>6. Restored(f[i].coins[o[1]], v).fCoinStake \in {FALSE, f[i].coins[o[1]].fCoinStake}
    BY <2>2, <2>5 DEF Restored, CoinRec, Pruned
  <2>7. Staked(f[i].coins)
    BY <1>5
  <2>8. Staked(f[k].coins)
    BY <2>4, <2>5, <2>6, <2>7 DEF Staked
  <2> QED BY <2>1, <2>8 DEF k
<1> HIDE DEF S
<1>6. \A i \in 0..n : i \in S
  BY <1>2, <1>4, <1>5, Upwards
<1>7. n \in S
  BY <1>2, <1>6
<1> QED BY <1>1, <1>7 DEF S

LEMMA DisconnectStaked ==
    ASSUME NEW c \in CoinMaps, NEW b \in Blocks, NEW h, NEW u, UndoTyped(u, b), Staked(c)
    PROVE  Staked(DisconnectBlock(c, b, u, h).coins)
<1> DEFINE m == Len(Vtx[b])
           ix == Reversed(Indices(m))
           n == Len(ix)
<1>1. PICK f : DisconnectRun(f, c, b, u, h) /\ DisconnectBlock(c, b, u, h) = f[n]
  BY DisconnectTrace
<1>2. m \in Nat
  BY VtxType
<1>3. n = m /\ \A i \in 1..n : ix[i] \in 1..m
  <2>1. ix \in Seq(1..m) /\ Len(ix) = m
    BY <1>2, IndicesType
  <2> HIDE DEF ix
  <2> QED BY <2>1
<1>4. /\ f[0] = [fClean |-> TRUE, coins |-> c] /\ \A i \in 0..n : f[i] \in UndoAcc
      /\ \A i \in 1..n : f[i] = UndoTx(f[i - 1], Vtx[b][ix[i]], u[ix[i]], h)
  BY <1>1 DEF DisconnectRun
<1> HIDE DEF ix, n
<1> DEFINE S == {i \in 0..n : Staked(f[i].coins)}
<1>5. 0 \in S
  <2>1. f[0].coins = c
    BY <1>4
  <2> QED BY <1>2, <1>3, <2>1
<1>6. ASSUME NEW i \in 0..n, i \in S, i < n PROVE i + 1 \in S
  <2> DEFINE k == i + 1
             j == ix[k]
  <2>1. k \in 1..n /\ k \in 0..n /\ k - 1 = i
    BY <1>2, <1>3, <1>6
  <2> HIDE DEF k
  <2>2. f[k] = UndoTx(f[i], Vtx[b][j], u[j], h) /\ f[i] \in UndoAcc /\ j \in 1..m
    BY <1>3, <1>4, <2>1
  <2> HIDE DEF j
  <2>3. Vtx[b][j] \in Txs /\ \A l \in 1..Len(Vin[Vtx[b][j]]) : u[j][l] \in CoinRec
    BY <2>2, VtxType DEF UndoTyped
  <2>4. Staked(f[i].coins)
    BY <1>6
  <2>5. Staked(f[k].coins)
    BY <2>2, <2>3, <2>4, UndoTxStaked
  <2> QED BY <2>1, <2>5 DEF k
<1> HIDE DEF S
<1>7. \A i \in 0..n : i \in S
  BY <1>2, <1>3, <1>5, <1>6, Upwards
<1>8. n \in S
  BY <1>2, <1>3, <1>7
<1> QED BY <1>1, <1>8 DEF S

LEMMA StakedInit == Init => Staked(coins)
<1> SUFFICES ASSUME Init PROVE Staked(coins)
  OBVIOUS
<1>1. Base \in Blocks /\ coins = ApplyTxs(Nothing, Base, 1) /\ Nothing \in CoinMaps
  BY MempoolAssumption, NothingFacts DEF Init, Nothing
<1>2. PICK f : ApplyRun(f, Nothing, Base, 1) /\ ApplyTxs(Nothing, Base, 1) = f[Len(Vtx[Base])]
  BY <1>1, ApplyTrace
<1>3. Staked(Nothing)
  BY DEF Staked, Nothing, Pruned
<1> QED BY <1>1, <1>2, <1>3, ApplyStaked

LEMMA StakedNext ==
    ASSUME CoinInv, Staked(coins), [WalletNext]_walletVars
    PROVE  Staked(coins')
<1>1. ASSUME NEW b \in Blocks, ConnectTip(b) PROVE Staked(coins')
  <2> DEFINE h == Len(chain) + 1
  <2>1. ConnectBlock(coins, b, h).ok /\ coins' = ConnectBlock(coins, b, h).coins
    BY <1>1 DEF ConnectTip
  <2>2. coins \in CoinMaps /\ h \in Nat
    BY CoinInvWF DEF CoinInv
  <2> HIDE DEF h
  <2>3. PICK f : Connected(f, coins, b, h)
    BY <2>1, <2>2, ConnectFacts
  <2>4. ApplyRun(f, coins, b, h) /\ coins' = f[Len(Vtx[b])]
    BY <2>1, <2>3 DEF Connected, ValidRun
  <2> QED BY <2>2, <2>4, ApplyStaked
<1>2. ASSUME NEW refused, DisconnectTip(refused) PROVE Staked(coins')
  <2>1. Tip # Base /\ coins' = DisconnectBlock(coins, Tip, undo[Tip], Len(chain)).coins
    BY <1>2 DEF DisconnectTip
  <2>2. Tip \in Blocks /\ UndoTyped(undo[Tip], Tip) /\ coins \in CoinMaps
    BY <2>1, TipOnPath DEF UndoFits, CoinInv
  <2> QED BY <2>1, <2>2, DisconnectStaked
<1>3. CASE UNCHANGED coins
  BY <1>3
<1>4. CASE WalletNext
  <2>1. ASSUME NEW p \in Peers, InitializeNode(p) \/ FinalizeNode(p) PROVE UNCHANGED coins
    BY <2>1 DEF InitializeNode, FinalizeNode
  <2>2. ASSUME NEW p \in Peers, NEW t \in Txs, NEW refused, ProcessTx(p, t, refused) PROVE UNCHANGED coins
    BY <2>2 DEF ProcessTx
  <2>3. ASSUME NEW t \in Txs, NEW refused, NEW punish, TryOrphan(t, refused, punish) PROVE UNCHANGED coins
    BY <2>3 DEF TryOrphan
  <2>4. ASSUME NEW t \in Txs, NEW refused, SubmitTx(t, refused) PROVE UNCHANGED coins
    BY <2>4 DEF SubmitTx
  <2>5. NextWork => UNCHANGED coins
    BY DEF NextWork
  <2>6. ASSUME NEW t \in Made, NEW refused, CommitTransaction(t, refused) PROVE UNCHANGED coins
    BY <2>6 DEF CommitTransaction
  <2>7. ASSUME NEW order \in HashOrders, Restart(order) PROVE UNCHANGED coins
    BY <2>7 DEF Restart
  <2> QED BY <1>1, <1>2, <1>3, <1>4, <2>1, <2>2, <2>3, <2>4, <2>5, <2>6, <2>7
          DEF WalletNext, WalletConnectTip, WalletDisconnectTip
<1>5. CASE UNCHANGED walletVars
  BY <1>3, <1>5 DEF walletVars, vars
<1> QED BY <1>4, <1>5

\* Every transaction with unspent outputs is recorded at a height where M
\* has it, and the coinbase flag is only set on coinbases.
Placed(c, M) ==
    \A q \in Txs : c[q].vout # {} => /\ <<q, c[q].nHeight>> \in M
                                     /\ c[q].fCoinBase = TRUE => q \in CoinBases

LEMMA UpdatePlaced ==
    ASSUME NEW c \in CoinMaps, NEW t \in Txs, NEW h \in Nat, NEW M, Placed(c, M), <<t, h>> \in M
    PROVE  Placed(UpdateCoins(c, t, h).coins, M)
<1> DEFINE d == UpdateCoins(c, t, h).coins
<1>1. /\ d \in CoinMaps /\ d[t] = FromTx(t, h)
      /\ \A q \in Txs \ {t} : /\ \A m \in Nat : m \in d[q].vout => m \in c[q].vout
                              /\ d[q].vout # {} => Kept(d[q], c[q])
  BY UpdateSummary
<1> HIDE DEF d
<1>2. FromTx(t, h).fCoinBase = (t \in CoinBases) /\ FromTx(t, h).nHeight = h
  BY DEF FromTx
<1>3. ASSUME NEW q \in Txs, d[q].vout # {}
      PROVE  <<q, d[q].nHeight>> \in M /\ (d[q].fCoinBase = TRUE => q \in CoinBases)
  <2>1. CASE q = t
    BY <1>1, <1>2, <2>1
  <2>2. CASE q # t
    <3>1. d[q].vout \subseteq Nat
      BY <1>1 DEF CoinMaps, CoinRec
    <3>2. c[q].vout # {} /\ Kept(d[q], c[q])
      BY <1>1, <1>3, <2>2, <3>1
    <3> QED BY <3>2 DEF Placed, Kept
  <2> QED BY <2>1, <2>2
<1>4. Placed(d, M)
  BY <1>3 DEF Placed
<1> QED BY <1>4 DEF d

LEMMA ApplyPlaced ==
    ASSUME NEW c \in CoinMaps, NEW b \in Blocks, NEW h \in Nat, NEW M, Placed(c, M),
           \A t \in Members(b) : <<t, h>> \in M
    PROVE  Placed(ApplyTxs(c, b, h), M)
<1> DEFINE n == Len(Vtx[b])
<1>0. PICK f : ApplyRun(f, c, b, h) /\ ApplyTxs(c, b, h) = f[n]
  BY ApplyTrace
<1> DEFINE S == {i \in 0..n : Placed(f[i], M)}
<1>1. n \in Nat /\ f[0] = c /\ \A i \in 0..n : f[i] \in CoinMaps
  BY <1>0, VtxType DEF ApplyRun
<1>2. 0 \in S
  BY <1>1
<1>3. ASSUME NEW i \in 0..n, i \in S, i < n PROVE i + 1 \in S
  <2>1. i + 1 \in 1..n /\ i + 1 \in 0..n /\ i + 1 - 1 = i
    BY <1>1, <1>3
  <2>2. f[i + 1] = UpdateCoins(f[i], Vtx[b][i + 1], h).coins /\ Vtx[b][i + 1] \in Txs
    BY <1>0, <2>1, VtxType DEF ApplyRun
  <2>3. <<Vtx[b][i + 1], h>> \in M
    BY <2>1 DEF Members
  <2>4. Placed(f[i + 1], M)
    BY <1>1, <1>3, <2>2, <2>3, UpdatePlaced
  <2> QED BY <2>1, <2>4
<1> HIDE DEF S
<1>4. \A i \in 0..n : i \in S
  BY <1>1, <1>2, <1>3, Upwards
<1>5. n \in S
  BY <1>1, <1>4
<1> QED BY <1>0, <1>5 DEF S

\* The coins know in which block of the chain their transaction is.
LEMMA CoinsPlaced ==
    ASSUME CoinInv, NEW q \in Txs, HaveCoins(coins, q)
    PROVE  /\ coins[q].nHeight \in 1..Len(chain) /\ q \in Members(chain[coins[q].nHeight])
           /\ coins[q].fCoinBase = TRUE => q \in CoinBases
<1> DEFINE n == Len(chain)
           M == {x \in Txs \X (1..n) : x[1] \in Members(chain[x[2]])}
<1>1. chain \in Seq(Blocks) /\ n \in Nat /\ \A k \in 1..n : chain[k] \in Blocks
  BY CoinInvWF
<1>2. PICK R : CoinsAlong(R, chain) /\ ReplayOf(chain) = R[n]
  BY <1>1, ReplayFacts
<1> DEFINE S == {k \in 0..n : Placed(R[k], M)}
<1>3. 0 \in S
  BY <1>1, <1>2 DEF CoinsAlong, Placed, Nothing, Pruned
<1>4. ASSUME NEW k \in 0..n, k \in S, k < n PROVE k + 1 \in S
  <2>1. k + 1 \in 1..n /\ k + 1 \in 0..n /\ k + 1 - 1 = k /\ k + 1 \in Nat
    BY <1>1, <1>4
  <2>2. R[k + 1] = ApplyTxs(R[k], chain[k + 1], k + 1) /\ R[k] \in CoinMaps /\ chain[k + 1] \in Blocks
    BY <1>1, <1>2, <1>4, <2>1 DEF CoinsAlong
  <2>3. Members(chain[k + 1]) \subseteq Txs
    BY <2>2, VtxType DEF Members
  <2>4. \A t \in Members(chain[k + 1]) : <<t, k + 1>> \in M
    BY <2>1, <2>3
  <2>5. Placed(R[k], M)
    BY <1>4
  <2> HIDE DEF M
  <2>6. Placed(R[k + 1], M)
    BY <2>1, <2>2, <2>4, <2>5, ApplyPlaced
  <2> QED BY <2>1, <2>6
<1> HIDE DEF S
<1>5. \A k \in 0..n : k \in S
  BY <1>1, <1>3, <1>4, Upwards
<1>6. n \in S
  BY <1>1, <1>5
<1>7. Placed(ReplayOf(chain), M)
  BY <1>2, <1>6 DEF S
<1>8. Alike(coins[q], ReplayOf(chain)[q])
  BY DEF CoinInv, Same
<1> HIDE DEF M
<1>9. <<q, coins[q].nHeight>> \in M /\ (coins[q].fCoinBase = TRUE => q \in CoinBases)
  BY <1>7, <1>8 DEF Placed, Alike, HaveCoins
<1> QED BY <1>9 DEF M

\* An output of the wallet that AvailableCoins lists is free to be spent: no
\* transaction of the pool spends it, and its transaction is in the pool, or
\* in the chain with the output unspent and mature.
LEMMA ListedIsFree ==
    ASSUME StateInv, Staked(coins), NEW o \in AvailableCoins, o \in Outpoints, o = <<o[1], o[2]>>
    PROVE  /\ pool.mapNextTx[o] = None
           /\ IF o[1] \in pool.mapTx THEN o[2] < NOut[o[1]] ELSE o \in Fine(coins, Len(chain) + 1)
<1> DEFINE q == o[1]
           h == Len(chain) + 1
<1>1. /\ o \in Mine /\ q \in mapWallet /\ IsTrusted(q) /\ BlocksToMaturity(q) <= 0
      /\ GetDepthInMainChain(q) = 0 => q \in pool.mapTx
      /\ ~IsSpent(o)
  BY DEF AvailableCoins
<1>2. q \in Txs /\ o[2] \in 0..(NOut[q] - 1) /\ NOut[q] \in Nat
  BY <1>1, WalletAssumption, MempoolAssumption
<1>3. CoinInv /\ PoolInv /\ WalletInv /\ pool \in Pools /\ Linked(pool)
  BY DEF StateInv, PoolInv
<1>4. ASSUME NEW u \in Confirmed \cup pool.mapTx, o \in Prevouts(u) PROVE FALSE
  <2>1. Relevant(u)
    BY <1>1, <1>4 DEF Relevant
  <2>2. u \in mapWallet
    BY <1>3, <2>1 DEF WalletInv
  <2>3. GetDepthInMainChain(u) >= 0
    <3>1. GetDepthInMainChain(u) > 0 => GetDepthInMainChain(u) >= 0
      BY <1>3, <2>2, DepthFacts
    <3> QED BY <1>3, <1>4, <2>2, <3>1, DepthFacts
  <2> QED BY <1>1, <1>4, <2>2, <2>3 DEF IsSpent
<1>5. pool.mapNextTx[o] = None
  <2>1. SUFFICES ASSUME pool.mapNextTx[o] # None PROVE FALSE
    OBVIOUS
  <2>2. pool.mapNextTx[o] \in pool.mapTx /\ o \in Prevouts(pool.mapNextTx[o])
    BY <1>3, <2>1 DEF Linked
  <2> QED BY <1>4, <2>2
<1>6. CASE q \in pool.mapTx
  <2>1. o[2] < NOut[q]
    BY <1>2
  <2> QED BY <1>5, <1>6, <2>1
<1>7. CASE q \notin pool.mapTx
  <2>1. GetDepthInMainChain(q) > 0
    <3>1. GetDepthInMainChain(q) \in Int
      BY <1>1, <1>3, DepthFacts
    <3>2. GetDepthInMainChain(q) >= 1 \/ GetDepthInMainChain(q) = 0
      BY <1>1 DEF IsTrusted
    <3> QED BY <1>1, <1>7, <3>1, <3>2
  <2>2. q \in Confirmed /\ History(Confirmed, coins)
    BY <1>1, <1>3, <2>1, DepthFacts, ConfirmedFacts
  <2>3. IsAvailable(coins, o)
    <3>1. SUFFICES ASSUME o[2] \notin coins[q].vout PROVE FALSE
      BY DEF IsAvailable
    <3>2. PICK u \in Confirmed : <<q, o[2]>> \in Prevouts(u)
      BY <1>2, <2>2, <3>1 DEF History
    <3> QED BY <1>4, <3>2
  <2>4. HaveCoins(coins, q)
    BY <2>3 DEF IsAvailable, HaveCoins
  <2> DEFINE k == coins[q].nHeight
  <2>5. /\ k \in 1..Len(chain) /\ q \in Members(chain[k])
        /\ coins[q].fCoinBase = TRUE => q \in CoinBases
    BY <1>2, <1>3, <2>4, CoinsPlaced
  <2>6. GetDepthInMainChain(q) = h - k
    BY <1>1, <1>3, <2>5, DepthFacts
  <2>7. q \in CoinBases \cup CoinStakes => h - k >= COINBASE_MATURITY
    <3>1. h \in Nat /\ k \in Nat /\ COINBASE_MATURITY \in Nat
      BY <1>3, <2>5, CoinInvWF, MempoolAssumption
    <3>2. q \in CoinBases \cup CoinStakes => COINBASE_MATURITY + 1 - (h - k) <= 0
      BY <1>1, <2>6 DEF BlocksToMaturity
    <3> HIDE DEF h, k
    <3> QED BY <3>1, <3>2
  <2>8. coins[q].fCoinBase \in BOOLEAN /\ coins[q].fCoinStake \in BOOLEAN
    BY <1>2, <1>3 DEF CoinInv, CoinMaps, CoinRec
  <2>9. coins[q].fCoinBase \/ coins[q].fCoinStake => q \in CoinBases \cup CoinStakes
    BY <1>2, <2>5, <2>8 DEF Staked
  <2>10. Ripe(coins, q, h)
    BY <2>7, <2>9 DEF Ripe
  <2>11. o \in Fine(coins, h)
    BY <2>3, <2>10 DEF Fine
  <2> QED BY <1>5, <1>7, <2>11
<1> QED BY <1>6, <1>7

\* What AcceptToMemoryPool looks for is enough for it to accept.
LEMMA AcceptableAccepted ==
    ASSUME NEW p \in Pools, NEW c, NEW t \in Txs, NEW h, Acceptable(p, c, t, h)
    PROVE  AcceptToMemoryPool(p, c, t, {}, h) = "accepted"
<1>1. ~(\/ t \in CoinBases \cup CoinStakes \cup {} \cup p.mapTx
        \/ \E o \in Prevouts(t) : p.mapNextTx[o] # None
        \/ HaveCoins(c, t))
  BY DEF Acceptable
<1>2. ASSUME NEW r \in ParentTxs(t) \ p.mapTx PROVE HaveCoins(c, r) /\ Ripe(c, r, h)
  <2>1. PICK o \in Prevouts(t) : o[1] = r
    BY DEF ParentTxs
  <2>2. o \in Fine(c, h)
    BY <2>1 DEF Acceptable
  <2> QED BY <2>1, <2>2 DEF Fine, IsAvailable, HaveCoins
<1>3. \A o \in Prevouts(t) : IF o[1] \in p.mapTx THEN o[2] < NOut[o[1]] ELSE IsAvailable(c, o)
  BY DEF Acceptable, Fine
<1>4. ~(\E r \in ParentTxs(t) : r \notin p.mapTx /\ ~HaveCoins(c, r))
  BY <1>2
<1>5. \A r \in ParentTxs(t) \ p.mapTx : c[r].fCoinBase \/ c[r].fCoinStake => h - c[r].nHeight >= COINBASE_MATURITY
  BY <1>2, Zenon DEF Ripe
<1> QED BY <1>1, <1>3, <1>4, <1>5, Zenon DEF AcceptToMemoryPool

LEMMA CommitStep ==
    ASSUME StateInv, Staked(coins), NEW t \in Made, CommitTransaction(t, {})
    PROVE  t \in pool'.mapTx
<1> DEFINE h == Len(chain) + 1
<1>1. /\ t \notin mapWallet /\ Prevouts(t) \subseteq AvailableCoins
      /\ pool' = IF AcceptToMemoryPool(pool, coins, t, {}, h) = "accepted" THEN addUnchecked(pool, t) ELSE pool
  BY DEF CommitTransaction
<1>2. t \in Txs /\ t \notin CoinBases \cup CoinStakes /\ Prevouts(t) \subseteq Mine
  BY WalletAssumption
<1>3. CoinInv /\ WalletInv /\ pool \in Pools
  BY DEF StateInv, PoolInv
<1>4. Relevant(t)
  <2>1. Vin[t] \in Seq(Txs \X Nat) /\ Vin[t] # <<>>
    BY <1>2, MempoolAssumption
  <2>2. 1 \in 1..Len(Vin[t])
    BY <2>1
  <2>3. Vin[t][1] \in Prevouts(t)
    BY <2>2 DEF Prevouts
  <2> QED BY <1>2, <2>3 DEF Relevant
<1>5. t \notin Confirmed /\ t \notin pool.mapTx
  BY <1>1, <1>3, <1>4 DEF WalletInv
<1>6. ~HaveCoins(coins, t)
  BY <1>2, <1>3, <1>5, ConfirmedFacts DEF History, HaveCoins
<1>7. \A o \in Prevouts(t) : o \in AvailableCoins /\ o \in Outpoints /\ o = <<o[1], o[2]>>
  <2>1. Prevouts(t) \subseteq Outpoints
    BY <1>2 DEF Outpoints
  <2>2. \A o \in Prevouts(t) : o = <<o[1], o[2]>>
    BY <1>2, PrevoutsRange
  <2> QED BY <1>1, <2>1, <2>2
<1>8. \A o \in Prevouts(t) : /\ pool.mapNextTx[o] = None
                             /\ IF o[1] \in pool.mapTx THEN o[2] < NOut[o[1]] ELSE o \in Fine(coins, h)
  BY <1>7, ListedIsFree
<1>9. Acceptable(pool, coins, t, h)
  BY <1>2, <1>5, <1>6, <1>8 DEF Acceptable
<1>10. AcceptToMemoryPool(pool, coins, t, {}, h) = "accepted"
  BY <1>2, <1>3, <1>9, AcceptableAccepted
<1> QED BY <1>1, <1>10 DEF addUnchecked

\* Whatever happened to the chain and to the pool before, a transaction that
\* the wallet makes of the coins it holds for available is accepted by the
\* pool: CommitTransaction has recorded it before it asks (wallet.cpp:3204).
THEOREM CommitStaysAccepted == WalletSpec => CommitAccepted
<1> DEFINE Step == \A t \in Made : CommitTransaction(t, {}) => t \in pool'.mapTx
<1>1. WalletInit => Staked(coins)
  BY StakedInit DEF WalletInit
<1>2. StateInv /\ Staked(coins) /\ [WalletNext]_walletVars => Staked(coins)'
  <2>1. StateInv => CoinInv
    BY DEF StateInv
  <2> QED BY <2>1, StakedNext
<1>3. StateInv /\ Staked(coins) /\ [WalletNext]_walletVars => [Step]_walletVars
  BY CommitStep
<1>4. CommitAccepted <=> [][Step]_walletVars
  BY DEF CommitAccepted
<1> HIDE DEF Step
<1> QED BY <1>1, <1>2, <1>3, <1>4, StateInvariant, PTL DEF WalletSpec

-----------------------------------------------------------------------------
(* The orphans that a transaction makes worth another try *)

Queued(l) == {l.work[k] : k \in 1..Len(l.work)}

\* A parent of t is neither in the pool p nor in the coins.
Lacks(p, t) == \E q \in ParentTxs(t) : q \notin p.mapTx /\ ~HaveCoins(coins, q)

\* A parent of t is still to be looked at, or is being looked at.
Due(l, t) ==
    \/ \E k \in 1..Len(l.work) : l.i < k /\ l.work[k] \in ParentTxs(t)
    \/ l.work[l.i] \in ParentTxs(t) /\ t \notin l.tried

Settled(l, p, t) == t \in l.erase \/ orphans[t] \in l.bad \/ Lacks(p, t) \/ Due(l, t)

\* Within a "tx" message: a transaction of the pool that spends an output of
\* vWorkQueue is in vWorkQueue itself, and so is an orphan that is to be
\* erased, if it is in the pool; every orphan that spends an output of
\* vWorkQueue is settled.
LoopInv ==
    loop.work # <<>> =>
      /\ loop.i \in 1..Len(loop.work)
      /\ loop.erase \cap pool.mapTx \subseteq Queued(loop)
      /\ \A u \in pool.mapTx : ParentTxs(u) \cap Queued(loop) # {} => u \in Queued(loop)
      /\ \A u \in Orphans : ParentTxs(u) \cap Queued(loop) # {} => Settled(loop, pool, u)

LEMMA IdleLoop ==
    /\ Idle => loop.work = <<>>
    /\ loop.work = <<>> => LoopInv
    /\ NoLoop.work = <<>>
  BY DEF Idle, NoLoop, LoopInv

\* Nothing in the pool spends an output of a transaction that joins it.
LEMMA NewUnspent ==
    ASSUME PoolInv, NEW t \in Txs, NEW refused,
           AcceptToMemoryPool(pool, coins, t, refused, Len(chain) + 1) = "accepted"
    PROVE  \A u \in pool.mapTx : t \notin ParentTxs(u)
<1>1. pool \in Pools /\ Covered(pool, Fine(coins, Len(chain) + 1))
  BY DEF PoolInv
<1>2. t \notin pool.mapTx /\ ~HaveCoins(coins, t)
  <2>1. Acceptable(pool, coins, t, Len(chain) + 1)
    BY <1>1, AcceptFacts
  <2> QED BY <2>1 DEF Acceptable
<1>3. ASSUME NEW u \in pool.mapTx, t \in ParentTxs(u) PROVE FALSE
  <2>1. PICK o \in Prevouts(u) : o[1] = t
    BY <1>3 DEF ParentTxs
  <2>2. o \in Fine(coins, Len(chain) + 1)
    BY <1>1, <1>2, <2>1 DEF Covered
  <2> QED BY <1>2, <2>1, <2>2 DEF Fine, IsAvailable, HaveCoins
<1> QED BY <1>3

\* A transaction that no state of the message is kept for yet.
LEMMA LoopProcess ==
    ASSUME OrphanInv, PoolInv, LoopInv, NEW p \in Peers, NEW t \in Txs, NEW refused, ProcessTx(p, t, refused)
    PROVE  LoopInv'
<1> DEFINE result == AcceptToMemoryPool(pool, coins, t, refused, Len(chain) + 1)
<1>1. loop.work = <<>> /\ UNCHANGED coins
  BY IdleLoop DEF ProcessTx
<1>2. CASE result = "accepted"
  <2>1. pool' = addUnchecked(pool, t) /\ loop' = [NoLoop EXCEPT !.work = <<t>>] /\ UNCHANGED orphans
    BY <1>2 DEF ProcessTx
  <2>2. loop'.work = <<t>> /\ loop'.i = 1 /\ loop'.tried = {} /\ loop'.erase = {}
    BY <2>1 DEF NoLoop
  <2>3. Len(loop'.work) = 1 /\ loop'.i \in 1..Len(loop'.work) /\ loop'.work[1] = t
    BY <2>2
  <2>4. Queued(loop') = {t}
    BY <2>3 DEF Queued
  <2>5. pool'.mapTx = pool.mapTx \cup {t}
    BY <2>1 DEF addUnchecked
  <2>6. \A u \in pool'.mapTx : ParentTxs(u) \cap {t} # {} => u \in {t}
    BY <1>2, <2>5, NewUnspent
  <2>7. \A u \in Orphans' : ParentTxs(u) \cap {t} # {} => Due(loop', u)
    BY <2>2, <2>3 DEF Due
  <2>8. \A u \in Orphans' : ParentTxs(u) \cap {t} # {} => Settled(loop, pool, u)'
    BY <2>7 DEF Settled, Due
  <2> QED BY <2>2, <2>3, <2>4, <2>6, <2>8 DEF LoopInv, Queued
<1>3. CASE result # "accepted"
  <2>1. loop' = loop
    BY <1>3 DEF ProcessTx
  <2> QED BY <1>1, <2>1 DEF LoopInv
<1> QED BY <1>2, <1>3

LEMMA LoopTry ==
    ASSUME OrphanInv, PoolInv, LoopInv, NEW t \in Txs, NEW refused, NEW punish, TryOrphan(t, refused, punish)
    PROVE  LoopInv'
<1> DEFINE result == IF orphans[t] \in loop.bad THEN "skipped"
                     ELSE AcceptToMemoryPool(pool, coins, t, refused, Len(chain) + 1)
           work == IF result = "accepted" THEN Append(loop.work, t) ELSE loop.work
           erase == IF result \in {"accepted", "rejected"} THEN loop.erase \cup {t} ELSE loop.erase
           bad == IF result = "rejected" /\ t \in refused /\ punish THEN loop.bad \cup {orphans[t]} ELSE loop.bad
           m == Len(loop.work)
<1>1. loop.work # <<>> /\ t \in byPrev[loop.work[loop.i]] /\ UNCHANGED <<coins, orphans>>
  BY DEF TryOrphan
<1>2. pool' = IF result = "accepted" THEN addUnchecked(pool, t) ELSE pool
  BY DEF TryOrphan
<1>3. loop' = [loop EXCEPT !.work = work, !.tried = loop.tried \cup {t}, !.erase = erase, !.bad = bad]
  BY DEF TryOrphan
<1>4. loop \in LoopRec /\ loop.work \in Seq(Txs) /\ m \in Nat /\ loop.i \in 1..m
  BY <1>1 DEF PoolInv, LoopRec, LoopInv
<1>5. /\ loop'.work = work /\ loop'.i = loop.i /\ loop'.tried = loop.tried \cup {t}
      /\ loop'.erase = erase /\ loop'.bad = bad
  <2> HIDE DEF work, erase, bad
  <2> QED BY <1>3, <1>4 DEF LoopRec
<1>6. /\ Len(work) \in Nat /\ m <= Len(work) /\ \A k \in 1..m : k \in 1..Len(work) /\ work[k] = loop.work[k]
      /\ result = "accepted" => Len(work) = m + 1 /\ work[m + 1] = t
      /\ result # "accepted" => work = loop.work
  <2>1. CASE result = "accepted"
    BY <1>4, <2>1
  <2>2. CASE result # "accepted"
    BY <1>4, <2>2
  <2> HIDE DEF result
  <2> QED BY <2>1, <2>2
<1>7. result \in {"skipped", "accepted", "missing", "rejected"}
  BY DEF AcceptToMemoryPool
<1>8. /\ loop.erase \subseteq erase /\ loop.bad \subseteq bad /\ erase \subseteq loop.erase \cup {t}
      /\ result \in {"accepted", "rejected"} => t \in erase
      /\ result \notin {"accepted", "rejected"} => erase = loop.erase
  OBVIOUS
<1>9. result = "skipped" => orphans[t] \in loop.bad
  BY DEF AcceptToMemoryPool
<1>10. result = "missing" => Lacks(pool, t)
  BY DEF AcceptToMemoryPool, Lacks
<1>11. result = "accepted" => \A u \in pool.mapTx : t \notin ParentTxs(u)
  BY NewUnspent
<1> HIDE DEF result, work, erase, bad
<1>12. loop.work[loop.i] \in Txs /\ loop.work[loop.i] \in Queued(loop)
  BY <1>4 DEF Queued
<1>13. t \in Orphans /\ loop.work[loop.i] \in ParentTxs(t)
  BY <1>1, <1>12 DEF OrphanInv, OrphansConsistent
<1>14. /\ result = "accepted" => Queued(loop') = Queued(loop) \cup {t}
       /\ result # "accepted" => Queued(loop') = Queued(loop)
  <2>1. CASE result = "accepted"
    <3>1. 1..Len(work) = (1..m) \cup {m + 1}
      BY <1>4, <1>6, <2>1
    <3> QED BY <1>5, <1>6, <2>1, <3>1 DEF Queued
  <2>2. CASE result # "accepted"
    BY <1>5, <1>6, <2>2 DEF Queued
  <2> QED BY <2>1, <2>2
<1>15. /\ result = "accepted" => pool'.mapTx = pool.mapTx \cup {t}
       /\ result # "accepted" => pool' = pool
  BY <1>2 DEF addUnchecked
<1>16. loop'.i \in 1..Len(loop'.work)
  BY <1>4, <1>5, <1>6
<1>17. /\ loop.erase \cap pool.mapTx \subseteq Queued(loop)
       /\ \A u \in pool.mapTx : ParentTxs(u) \cap Queued(loop) # {} => u \in Queued(loop)
       /\ \A u \in Orphans : ParentTxs(u) \cap Queued(loop) # {} => Settled(loop, pool, u)
  BY <1>1 DEF LoopInv
<1>18. loop'.erase \cap pool'.mapTx \subseteq Queued(loop')
  <2>1. t \in pool.mapTx => t \in Queued(loop)
    BY <1>12, <1>13, <1>17
  <2> QED BY <1>5, <1>8, <1>14, <1>15, <1>17, <2>1
<1>19. \A u \in pool'.mapTx : ParentTxs(u) \cap Queued(loop') # {} => u \in Queued(loop')
  BY <1>11, <1>14, <1>15, <1>17
<1>20. result = "accepted" => \A u : t \in ParentTxs(u) => Due(loop', u)
  <2>1. result = "accepted" => m + 1 \in 1..Len(work) /\ loop.i < m + 1
    BY <1>4, <1>6
  <2> QED BY <1>5, <1>6, <2>1 DEF Due
<1>21. ASSUME NEW u \in Orphans, ParentTxs(u) \cap Queued(loop') # {} PROVE Settled(loop', pool', u)
  <2>1. CASE result = "accepted" /\ t \in ParentTxs(u)
    BY <1>20, <2>1 DEF Settled
  <2>2. CASE ~(result = "accepted" /\ t \in ParentTxs(u))
    <3>1. Settled(loop, pool, u)
      BY <1>14, <1>17, <1>21, <2>2
    <3>2. CASE u \in loop.erase
      BY <1>5, <1>8, <3>2 DEF Settled
    <3>3. CASE orphans[u] \in loop.bad
      BY <1>5, <1>8, <3>3 DEF Settled
    <3>4. CASE Lacks(pool, u)
      <4>1. Lacks(pool', u)
        BY <1>15, <2>2, <3>4 DEF Lacks
      <4> QED BY <4>1 DEF Settled
    <3>5. CASE \E k \in 1..m : loop.i < k /\ loop.work[k] \in ParentTxs(u)
      <4>1. Due(loop', u)
        BY <1>5, <1>6, <3>5 DEF Due
      <4> QED BY <4>1 DEF Settled
    <3>6. CASE loop.work[loop.i] \in ParentTxs(u) /\ u \notin loop.tried /\ u # t
      <4>1. Due(loop', u)
        BY <1>4, <1>5, <1>6, <3>6 DEF Due
      <4> QED BY <4>1 DEF Settled
    <3>7. CASE u = t
      <4>1. result = "missing" => Lacks(pool', t)
        BY <1>10, <1>15
      <4> QED BY <1>5, <1>7, <1>8, <1>9, <3>7, <4>1 DEF Settled
    <3> QED BY <3>1, <3>2, <3>3, <3>4, <3>5, <3>6, <3>7 DEF Settled, Due
  <2> QED BY <2>1, <2>2
<1>22. Orphans' = Orphans /\ \A u : Settled(loop', pool', u) <=> Settled(loop, pool, u)'
  BY <1>1 DEF Orphans, Settled, Lacks, Due, HaveCoins
<1>23. Queued(loop') = Queued(loop)'
  BY DEF Queued
<1> QED BY <1>16, <1>18, <1>19, <1>21, <1>22, <1>23 DEF LoopInv

\* What is being looked at is done.
LEMMA NoneDue ==
    ASSUME OrphanInv, PoolInv, LoopInv, NextWork, NEW u \in Orphans
    PROVE  /\ loop.i \in 1..Len(loop.work) /\ Len(loop.work) \in Nat /\ loop.work # <<>>
           /\ ~(loop.work[loop.i] \in ParentTxs(u) /\ u \notin loop.tried)
<1>1. loop.work # <<>> /\ byPrev[loop.work[loop.i]] \subseteq loop.tried
  BY DEF NextWork
<1>2. loop.work \in Seq(Txs) /\ loop.i \in 1..Len(loop.work)
  BY <1>1 DEF PoolInv, LoopRec, LoopInv
<1>3. loop.work[loop.i] \in Txs /\ Len(loop.work) \in Nat
  BY <1>2
<1>4. loop.work[loop.i] \in ParentTxs(u) => u \in byPrev[loop.work[loop.i]]
  BY <1>3 DEF OrphanInv, OrphansConsistent
<1> QED BY <1>1, <1>2, <1>3, <1>4

LEMMA LoopNextWork ==
    ASSUME OrphanInv, PoolInv, LoopInv, NextWork
    PROVE  LoopInv'
<1>1. loop.work # <<>> /\ UNCHANGED <<pool, coins>>
  BY DEF NextWork
<1>2. CASE Len(loop.work) = loop.i
  BY <1>2, IdleLoop DEF NextWork, LoopInv
<1>3. CASE Len(loop.work) # loop.i
  <2>1. loop' = [loop EXCEPT !.i = loop.i + 1, !.tried = {}] /\ UNCHANGED <<orphans, byPrev>>
    BY <1>3 DEF NextWork
  <2>2. loop \in LoopRec
    BY DEF PoolInv
  <2>3. /\ loop'.work = loop.work /\ loop'.i = loop.i + 1 /\ loop'.tried = {}
        /\ loop'.erase = loop.erase /\ loop'.bad = loop.bad
    BY <2>1, <2>2 DEF LoopRec
  <2>4. loop.i \in 1..Len(loop.work) /\ Len(loop.work) \in Nat
    BY <1>1, <2>2 DEF LoopInv, LoopRec
  <2>5. loop'.i \in 1..Len(loop'.work)
    BY <1>3, <2>3, <2>4
  <2>6. Queued(loop)' = Queued(loop) /\ Orphans' = Orphans
    BY <2>1, <2>3 DEF Queued, Orphans
  <2>7. ASSUME NEW u \in Orphans, Settled(loop, pool, u) PROVE Settled(loop, pool, u)'
    <3>1. CASE u \in loop.erase \/ orphans[u] \in loop.bad \/ Lacks(pool, u)
      BY <1>1, <2>1, <2>3, <3>1 DEF Settled, Lacks, HaveCoins
    <3>2. CASE Due(loop, u)
      <4>1. PICK k \in 1..Len(loop.work) : loop.i < k /\ loop.work[k] \in ParentTxs(u)
        BY <3>2, NoneDue DEF Due
      <4>2. k = loop'.i \/ loop'.i < k
        BY <2>3, <2>4, <4>1
      <4>3. Due(loop, u)'
        BY <2>3, <4>1, <4>2 DEF Due
      <4> QED BY <4>3 DEF Settled
    <3> QED BY <2>7, <3>1, <3>2 DEF Settled
  <2> QED BY <1>1, <2>3, <2>5, <2>6, <2>7 DEF LoopInv
<1> QED BY <1>2, <1>3

LEMMA LoopNext ==
    ASSUME OrphanInv, PoolInv, LoopInv, [WalletNext]_walletVars
    PROVE  LoopInv'
<1>1. ASSUME Idle, UNCHANGED loop PROVE LoopInv'
  BY <1>1, IdleLoop DEF LoopInv
<1>2. ASSUME NEW p \in Peers, InitializeNode(p) \/ FinalizeNode(p) PROVE Idle /\ UNCHANGED loop
  BY <1>2 DEF InitializeNode, FinalizeNode
<1>3. ASSUME NEW t \in Txs, NEW refused, SubmitTx(t, refused) PROVE Idle /\ UNCHANGED loop
  BY <1>3 DEF SubmitTx
<1>4. ASSUME NEW t \in Made, NEW refused, CommitTransaction(t, refused) PROVE Idle /\ UNCHANGED loop
  BY <1>4 DEF CommitTransaction
<1>5. ASSUME NEW refused, WalletDisconnectTip(refused) PROVE Idle /\ UNCHANGED loop
  BY <1>5 DEF WalletDisconnectTip, DisconnectTip
<1>6. ASSUME NEW b \in Blocks, WalletConnectTip(b) PROVE Idle /\ UNCHANGED loop
  BY <1>6 DEF WalletConnectTip, ConnectTip
<1>7. ASSUME NEW order \in HashOrders, Restart(order) PROVE Idle /\ UNCHANGED loop
  BY <1>7 DEF Restart
<1>8. CASE UNCHANGED walletVars
  <2>1. UNCHANGED <<loop, pool, coins, orphans>>
    BY <1>8 DEF walletVars, vars
  <2>2. Queued(loop)' = Queued(loop) /\ Orphans' = Orphans
    BY <2>1 DEF Queued, Orphans
  <2>3. \A u : Lacks(pool, u)' <=> Lacks(pool, u)
    BY <2>1 DEF Lacks, HaveCoins
  <2>4. \A u : Due(loop, u)' <=> Due(loop, u)
    BY <2>1 DEF Due
  <2>5. \A u : Settled(loop, pool, u)' <=> Settled(loop, pool, u)
    BY <2>1, <2>3, <2>4 DEF Settled
  <2> QED BY <2>1, <2>2, <2>5 DEF LoopInv
<1> QED BY <1>1, <1>2, <1>3, <1>4, <1>5, <1>6, <1>7, <1>8, LoopProcess, LoopTry, LoopNextWork DEF WalletNext

\* The message is done when NextWork finds nothing more to look at.
LEMMA DoneStep ==
    ASSUME OrphanInv, PoolInv, LoopInv, [WalletNext]_walletVars, ~Idle, Idle',
           NEW t \in Orphans', ParentTxs(t) \cap pool.mapTx \cap (loop.erase \cup {loop.work[1]}) # {}
    PROVE  \/ orphans[t] \in loop.bad
           \/ \E q \in ParentTxs(t) : q \notin pool.mapTx /\ ~HaveCoins(coins, q)
<1>1. loop' = NoLoop /\ loop # loop' /\ loop'.work = <<>>
  BY IdleLoop DEF Idle
<1>2. ~UNCHANGED walletVars
  BY <1>1 DEF walletVars, vars
<1>3. ASSUME NEW u \in Txs, NEW refused, NEW punish, TryOrphan(u, refused, punish) PROVE FALSE
  <2>1. loop \in LoopRec /\ loop.work \in Seq(Txs) /\ loop.work # <<>>
    BY <1>3 DEF PoolInv, LoopRec, TryOrphan
  <2>2. loop'.work = loop.work \/ loop'.work = Append(loop.work, u)
    BY <1>3, <2>1 DEF TryOrphan, LoopRec
  <2>3. Append(loop.work, u) # <<>>
    BY <2>1
  <2> QED BY <1>1, <2>1, <2>2, <2>3
<1>4. NextWork
  <2>1. \A p \in Peers : ~InitializeNode(p) /\ ~FinalizeNode(p)
    BY DEF InitializeNode, FinalizeNode
  <2>2. \A p, u, refused : ~ProcessTx(p, u, refused) /\ ~SubmitTx(u, refused)
    BY DEF ProcessTx, SubmitTx
  <2>3. \A u, refused : ~CommitTransaction(u, refused) /\ ~WalletDisconnectTip(refused)
    BY DEF CommitTransaction, WalletDisconnectTip, DisconnectTip
  <2>4. \A b : ~WalletConnectTip(b) /\ ~Restart(b)
    BY DEF WalletConnectTip, ConnectTip, Restart
  <2> QED BY <1>2, <1>3, <2>1, <2>2, <2>3, <2>4 DEF WalletNext
<1>5. loop.work # <<>> /\ loop \in LoopRec /\ loop.work \in Seq(Txs)
  BY <1>4 DEF NextWork, PoolInv, LoopRec
<1>6. Len(loop.work) = loop.i /\ EraseOrphans(loop.erase)
  <2>1. SUFFICES ASSUME loop' = [loop EXCEPT !.i = @ + 1, !.tried = {}] PROVE FALSE
    BY <1>4 DEF NextWork
  <2>2. loop'.work = loop.work
    BY <1>5, <2>1 DEF LoopRec
  <2> QED BY <1>1, <1>5, <2>2
<1>7. t \in Orphans /\ t \notin loop.erase
  BY <1>6 DEF EraseOrphans, Orphans
<1>8. ParentTxs(t) \cap Queued(loop) # {}
  <2>1. 1 \in 1..Len(loop.work)
    BY <1>5
  <2>2. loop.work[1] \in Queued(loop)
    BY <2>1 DEF Queued
  <2>3. loop.erase \cap pool.mapTx \subseteq Queued(loop)
    BY <1>5 DEF LoopInv
  <2> QED BY <2>2, <2>3
<1>9. Settled(loop, pool, t)
  BY <1>5, <1>7, <1>8 DEF LoopInv
<1>10. ~Due(loop, t)
  <2>1. Len(loop.work) \in Nat /\ ~(loop.work[loop.i] \in ParentTxs(t) /\ t \notin loop.tried)
    BY <1>4, <1>7, NoneDue
  <2>2. \A k \in 1..Len(loop.work) : ~(loop.i < k)
    BY <1>6, <2>1
  <2> QED BY <2>1, <2>2 DEF Due
<1> QED BY <1>7, <1>9, <1>10 DEF Settled, Lacks

\* Every orphan that a "tx" message makes complete is tried within the
\* message, also when its last parent was an orphan itself (main.cpp
\* ProcessMessage, "tx", vWorkQueue).
THEOREM OrphansAreRetried == WalletSpec => NoOrphanLeftBehind
<1> DEFINE Done == ~Idle /\ Idle' =>
                     \A t \in Orphans' :
                        ParentTxs(t) \cap pool.mapTx \cap (loop.erase \cup {loop.work[1]}) # {} =>
                          \/ orphans[t] \in loop.bad
                          \/ \E q \in ParentTxs(t) : q \notin pool.mapTx /\ ~HaveCoins(coins, q)
<1>1. WalletInit => LoopInv
  BY IdleLoop DEF WalletInit, Init, Idle
<1>2. StateInv /\ LoopInv /\ [WalletNext]_walletVars => LoopInv'
  BY LoopNext DEF StateInv
<1>3. StateInv /\ LoopInv /\ [WalletNext]_walletVars => [Done]_vars
  BY DoneStep DEF StateInv
<1>4. NoOrphanLeftBehind <=> [][Done]_vars
  BY DEF NoOrphanLeftBehind
<1> HIDE DEF Done
<1> QED BY <1>1, <1>2, <1>3, <1>4, StateInvariant, PTL DEF WalletSpec
=============================================================================
