------------------------------- MODULE Mempool -------------------------------
(***************************************************************************)
(* Unspent coins, undo data, the memory pool and the orphan transactions   *)
(* (main.cpp, coins.cpp, undo.h, txmempool.cpp) while blocks are connected *)
(* to and disconnected from the active chain.                              *)
(*                                                                         *)
(* Everything here runs under cs_main.  Which block is connected next is   *)
(* ChainState's business: here it is any child of the tip.  Amounts,       *)
(* scripts, fees and standardness are abstracted to the set of             *)
(* transactions that are refused when one is offered; zerocoin spends,     *)
(* which have no outpoints, are left out.  Every coin is taken to be above *)
(* Zerocoin_StartHeight: the rule that refuses older inputs (main.cpp      *)
(* 1683, 3120, coins.cpp 244) and the wallet's filter for it are left out. *)
(***************************************************************************)
EXTENDS Integers, Sequences, FiniteSets

CONSTANTS Txs,                   \* transactions, by their hash
          Vin,                   \* Vin[t]: the outpoints <<tx, n>> t spends
          NOut,                  \* NOut[t]: number of outputs of t
          CoinBases, CoinStakes, \* transactions only valid inside a block
          BigTxs,                \* transactions of more than 5000 bytes
          Blocks, Base,          \* blocks; Base is the last one never undone
          Parent,                \* hashPrevBlock
          Height,                \* nHeight; Base is at 1
          Vtx,                   \* Vtx[b]: the transactions of block b
          COINBASE_MATURITY,
          Peers,
          MaxOrphanTx,           \* -maxorphantx
          None                   \* no transaction, no peer, no undo data

ASSUME MempoolAssumption ==
    /\ \A t \in Txs : NOut[t] \in Nat \ {0} /\ Vin[t] \in Seq(Txs \X Nat)
    /\ \A t \in Txs : Vin[t] = <<>> <=> t \in CoinBases
    \* CheckTransaction: no duplicate inputs (main.cpp:1474)
    /\ \A t \in Txs : \A i, j \in 1..Len(Vin[t]) : Vin[t][i] = Vin[t][j] => i = j
    /\ CoinBases \subseteq Txs /\ CoinStakes \subseteq Txs
    \* IsCoinStake: output 0 is an empty marker (primitives/transaction.cpp:186)
    /\ \A t \in CoinStakes : NOut[t] >= 2
    /\ \A b \in Blocks : Vtx[b] \in Seq(Txs)
    \* CheckBlock: only the first transaction is a coinbase (main.cpp:4246)
    /\ \A b \in Blocks : \A i \in 2..Len(Vtx[b]) : Vtx[b][i] \notin CoinBases
    /\ Base \in Blocks
    /\ Parent \in [Blocks \ {Base} -> Blocks]
    /\ Height[Base] = 1 /\ \A b \in Blocks \ {Base} : Height[b] = Height[Parent[b]] + 1
    \* ContextualCheckBlock: a coinbase tells its height (main.cpp:4517)
    /\ \A b, c \in Blocks : /\ Vtx[b] # <<>> /\ Vtx[c] # <<>>
                            /\ Vtx[b][1] = Vtx[c][1] /\ Vtx[b][1] \in CoinBases
                            => Height[b] = Height[c]
    \* Base has one transaction, whose outputs stand for all older coins
    /\ \A i \in 1..Len(Vtx[Base]) : Vtx[Base][i] \in CoinBases
    /\ COINBASE_MATURITY \in Nat /\ MaxOrphanTx \in Nat
    /\ None \notin Txs /\ None \notin Peers /\ None \notin Blocks

VARIABLES
    chain,        \* chainActive above the last block that stays for ever
    coins,        \* the CCoins of every transaction, as pcoinsTip answers
    undo,         \* the undo data on disk: written once per block
    pool,         \* CTxMemPool: mapTx and mapNextTx
    orphans,      \* mapOrphanTransactions: fromPeer, or None
    byPrev,       \* mapOrphanTransactionsByPrev
    peers,        \* the peers that have a CNodeState
    loop          \* the orphans that a "tx" message makes worth another try

vars == <<chain, coins, undo, pool, orphans, byPrev, peers, loop>>

Prevouts(t) == {Vin[t][i] : i \in 1..Len(Vin[t])}
Outpoints == UNION {Prevouts(t) : t \in Txs}
ParentTxs(t) == {o[1] : o \in Prevouts(t)}
Tip == chain[Len(chain)]

\* The value of a fold of step over the sequence s, from start.
Fold(step(_, _), start, s) ==
    LET f[i \in 0..Len(s)] == IF i = 0 THEN start ELSE step(f[i - 1], s[i])
    IN  f[Len(s)]

Reversed(s) == [i \in 1..Len(s) |-> s[Len(s) + 1 - i]]

-----------------------------------------------------------------------------
(* Coins and undo data *)

Pruned == [vout |-> {}, nHeight |-> 0, fCoinBase |-> FALSE, fCoinStake |-> FALSE]

IsAvailable(c, o) == o[2] \in c[o[1]].vout
HaveCoins(c, t) == c[t].vout # {}

FromTx(t, h) ==
    [vout |-> 0..(NOut[t] - 1), nHeight |-> h,
     fCoinBase |-> t \in CoinBases, fCoinStake |-> t \in CoinStakes]

\* CCoins::Spend.  The undo entry keeps the height and the flags of the
\* transaction when its last output is spent.
Spend(acc, o) ==
    LET c == acc.coins[o[1]]
        rest == c.vout \ {o[2]}
        last == rest = {}
    IN  [coins |-> [acc.coins EXCEPT ![o[1]] = IF last THEN Pruned ELSE [c EXCEPT !.vout = rest]],
         undo |-> Append(acc.undo, IF last THEN [c EXCEPT !.vout = {o[2]}]
                                           ELSE [Pruned EXCEPT !.vout = {o[2]}])]

\* UpdateCoins: the coins after transaction t in a block at height h, and the
\* undo entries of its inputs.
UpdateCoins(c, t, h) ==
    LET spent == Fold(Spend, [coins |-> c, undo |-> <<>>], Vin[t])
    IN  [spent EXCEPT !.coins[t] = FromTx(t, h)]

\* The coins after the transactions of block b, without any check.
ApplyTxs(c, b, h) == Fold(LAMBDA d, t : UpdateCoins(d, t, h).coins, c, Vtx[b])

\* Coins of a coinbase or a coinstake may only be spent COINBASE_MATURITY
\* blocks later (CheckInputs).
Mature(c, t, h) ==
    \A p \in ParentTxs(t) :
       c[p].fCoinBase \/ c[p].fCoinStake => h - c[p].nHeight >= COINBASE_MATURITY

\* One transaction of a block that ConnectBlock connects.
ConnectTx(acc, t, h) ==
    LET ok == /\ \A o \in Prevouts(t) : IsAvailable(acc.coins, o)
              /\ t \in CoinStakes =>
                    \A p \in ParentTxs(t) : h - acc.coins[p].nHeight >= COINBASE_MATURITY
              /\ Mature(acc.coins, t, h)
        new == UpdateCoins(acc.coins, t, h)
    IN  IF acc.ok /\ ok
        THEN [ok |-> TRUE, coins |-> new.coins, undo |-> Append(acc.undo, new.undo)]
        ELSE [acc EXCEPT !.ok = FALSE]

\* ConnectBlock on the coins c, at height h.
ConnectBlock(c, b, h) ==
    LET bip30 == \A i \in 1..Len(Vtx[b]) : ~HaveCoins(c, Vtx[b][i])
    IN  Fold(LAMBDA acc, t : ConnectTx(acc, t, h), [ok |-> bip30, coins |-> c, undo |-> <<>>], Vtx[b])

\* Mutant: the height of a restored transaction stays cleared.
RestoreInput_NoHeight(acc, e) ==
    LET c == acc.coins[e.out[1]]
        last == e.undo.nHeight # 0
        kept == IF last THEN [Pruned EXCEPT !.fCoinBase = e.undo.fCoinBase] ELSE c
    IN  [fClean |-> /\ acc.fClean
                    /\ last <=> c.vout = {}
                    /\ e.out[2] \notin kept.vout,
         coins |-> [acc.coins EXCEPT ![e.out[1]] = [kept EXCEPT !.vout = @ \cup e.undo.vout]]]

\* One input of a transaction that DisconnectBlock undoes.  e is the outpoint
\* with its undo entry.
RestoreInput(acc, e) ==
    LET c == acc.coins[e.out[1]]
        last == e.undo.nHeight # 0
        kept == IF last THEN [Pruned EXCEPT !.nHeight = e.undo.nHeight,
                                            !.fCoinBase = e.undo.fCoinBase]
                        ELSE c
    IN  [fClean |-> /\ acc.fClean
                    /\ last <=> c.vout = {}
                    /\ e.out[2] \notin kept.vout,
         coins |-> [acc.coins EXCEPT ![e.out[1]] = [kept EXCEPT !.vout = @ \cup e.undo.vout]]]

\* One transaction that DisconnectBlock undoes, with the undo entries u of
\* its inputs, in reverse order.
UndoTx(acc, t, u, h) ==
    LET removed == [fClean |-> acc.fClean /\ acc.coins[t] = FromTx(t, h),
                    coins |-> [acc.coins EXCEPT ![t] = Pruned]]
        ins == [j \in 1..Len(Vin[t]) |-> [out |-> Vin[t][j], undo |-> u[j]]]
    IN  Fold(RestoreInput, removed, Reversed(ins))

\* DisconnectBlock on the coins c, with the undo data u of the block: the
\* transactions in reverse order.
DisconnectBlock(c, b, u, h) ==
    Fold(LAMBDA acc, i : UndoTx(acc, Vtx[b][i], u[i], h), [fClean |-> TRUE, coins |-> c],
         Reversed([i \in 1..Len(Vtx[b]) |-> i]))

-----------------------------------------------------------------------------
(* CTxMemPool *)

EmptyPool == [mapTx |-> {}, mapNextTx |-> [o \in Outpoints |-> None]]

addUnchecked(p, t) ==
    [mapTx |-> p.mapTx \cup {t},
     mapNextTx |-> [o \in Outpoints |-> IF o \in Prevouts(t) THEN t ELSE p.mapNextTx[o]]]

\* The transactions in the pool that spend an output of t, as mapNextTx says.
Spenders(p, t) ==
    {p.mapNextTx[o] : o \in {q \in Outpoints : q[1] = t /\ q[2] < NOut[t]}} \ {None}

\* S and everything in the pool that depends on it.
WithDependants(p, S) ==
    {u \in p.mapTx : \A D \in SUBSET p.mapTx :
        /\ S \cap p.mapTx \subseteq D
        /\ \A d \in D : Spenders(p, d) \cap p.mapTx \subseteq D
        => u \in D}

Erased(p, gone) ==
    [mapTx |-> p.mapTx \ gone,
     mapNextTx |-> [o \in Outpoints |-> IF \E u \in gone : o \in Prevouts(u) THEN None
                                                                              ELSE p.mapNextTx[o]]]

\* remove with fRecursive: also the spenders of a t that is not in the pool.
removeRecursive(p, t) ==
    Erased(p, WithDependants(p, {t} \cup (IF t \in p.mapTx THEN {} ELSE Spenders(p, t))))

\* What conflicts with t over its input o.
removeConflict(p, t, o) ==
    IF p.mapNextTx[o] \in {None, t} THEN p ELSE removeRecursive(p, p.mapNextTx[o])

removeConflicts(p, t) == Fold(LAMBDA q, o : removeConflict(q, t, o), p, Vin[t])

removeForTx(p, t) == removeConflicts(Erased(p, {t} \cap p.mapTx), t)
removeForBlock(p, vtx) == Fold(removeForTx, p, vtx)

\* Mutant: immature spends survive a disconnection.
removeCoinbaseSpends_Never(p, c, h) == p

\* Spends of coins that the shorter chain does not have, or has immature.
removeCoinbaseSpends(p, c, h) ==
    Erased(p, WithDependants(p,
        {t \in p.mapTx : \E q \in ParentTxs(t) \ p.mapTx :
            \/ ~HaveCoins(c, q)
            \/ /\ c[q].fCoinBase \/ c[q].fCoinStake
               /\ h - c[q].nHeight < COINBASE_MATURITY}))

\* What AcceptToMemoryPool finds for t, to be spent at height h; refused are
\* the transactions that fail a check of policy, scripts or transaction locks.
AcceptToMemoryPool(p, c, t, refused, h) ==
    IF \/ t \in CoinBases \cup CoinStakes \cup refused \cup p.mapTx
       \/ \E o \in Prevouts(t) : p.mapNextTx[o] # None
       \/ HaveCoins(c, t)
    THEN "rejected"
    ELSE IF \E q \in ParentTxs(t) : q \notin p.mapTx /\ ~HaveCoins(c, q) THEN "missing"
    ELSE IF /\ \A o \in Prevouts(t) : IF o[1] \in p.mapTx THEN o[2] < NOut[o[1]]
                                                           ELSE IsAvailable(c, o)
            /\ \A q \in ParentTxs(t) \ p.mapTx :
                  c[q].fCoinBase \/ c[q].fCoinStake => h - c[q].nHeight >= COINBASE_MATURITY
         THEN "accepted"
         ELSE "rejected"

-----------------------------------------------------------------------------
(* Orphans *)

Orphans == {t \in Txs : orphans[t] # None}

\* mapOrphanTransactionsByPrev without the transactions of S.
Unlisted(index, S) == [q \in Txs |-> index[q] \ {t \in S : q \in ParentTxs(t)}]

\* EraseOrphanTx for every transaction of S.
EraseOrphans(S) ==
    /\ orphans' = [t \in Txs |-> IF t \in S THEN None ELSE orphans[t]]
    /\ byPrev' = Unlisted(byPrev, S \cap Orphans)

\* AddOrphanTx, then LimitOrphanTxSize, which evicts orphans at random.
AddOrphanTx(p, t) ==
    IF t \in Orphans \cup BigTxs
    THEN UNCHANGED <<orphans, byPrev>>
    ELSE LET all == Orphans \cup {t}
             listed == [q \in Txs |-> byPrev[q] \cup (IF q \in ParentTxs(t) THEN {t} ELSE {})]
             excess == IF Cardinality(all) > MaxOrphanTx THEN Cardinality(all) - MaxOrphanTx ELSE 0
         IN  \E evicted \in SUBSET all :
                /\ Cardinality(evicted) = excess
                /\ orphans' = [u \in Txs |-> IF u \in evicted THEN None
                                              ELSE IF u = t THEN p ELSE orphans[u]]
                /\ byPrev' = Unlisted(listed, evicted)

-----------------------------------------------------------------------------
(* Actions *)

NoLoop == [work |-> <<>>, i |-> 1, tried |-> {}, erase |-> {}, bad |-> {}]
Idle == loop = NoLoop

Init ==
    /\ chain = <<Base>>
    /\ coins = ApplyTxs([t \in Txs |-> Pruned], Base, 1)
    /\ undo = [b \in Blocks |-> None]
    /\ pool = EmptyPool
    /\ orphans = [t \in Txs |-> None] /\ byPrev = [t \in Txs |-> {}]
    /\ peers = {}
    /\ loop = NoLoop

\* A "tx" message of peer p.
ProcessTx(p, t, refused) ==
    /\ Idle /\ p \in peers
    /\ CASE AcceptToMemoryPool(pool, coins, t, refused, Len(chain) + 1) = "accepted" ->
              /\ pool' = addUnchecked(pool, t)
              /\ loop' = [NoLoop EXCEPT !.work = <<t>>]
              /\ UNCHANGED <<orphans, byPrev>>
         [] AcceptToMemoryPool(pool, coins, t, refused, Len(chain) + 1) = "missing" ->
              AddOrphanTx(p, t) /\ UNCHANGED <<pool, loop>>
         [] OTHER -> UNCHANGED <<pool, orphans, byPrev, loop>>
    /\ UNCHANGED <<chain, coins, undo, peers>>

\* Mutant: what spends an accepted orphan is not looked at.
TryOrphan_NoRequeue(t, refused, punish) ==
    /\ loop.work # <<>>
    /\ t \in byPrev[loop.work[loop.i]] \ loop.tried
    /\ LET result == IF orphans[t] \in loop.bad THEN "skipped"
                     ELSE AcceptToMemoryPool(pool, coins, t, refused, Len(chain) + 1)
           invalid == result = "rejected" /\ t \in refused /\ punish
       IN  /\ pool' = IF result = "accepted" THEN addUnchecked(pool, t) ELSE pool
           /\ loop' = [loop EXCEPT !.tried = @ \cup {t},
                          !.erase = IF result \in {"accepted", "rejected"} THEN @ \cup {t} ELSE @,
                          !.bad = IF invalid THEN @ \cup {orphans[t]} ELSE @]
    /\ UNCHANGED <<chain, coins, undo, orphans, byPrev, peers>>

\* The same message goes on: one orphan that spends the current
\* transaction of vWorkQueue.  A refusal may be held against its peer.
TryOrphan(t, refused, punish) ==
    /\ loop.work # <<>>
    /\ t \in byPrev[loop.work[loop.i]] \ loop.tried
    /\ LET result == IF orphans[t] \in loop.bad THEN "skipped"
                     ELSE AcceptToMemoryPool(pool, coins, t, refused, Len(chain) + 1)
           invalid == result = "rejected" /\ t \in refused /\ punish
       IN  /\ pool' = IF result = "accepted" THEN addUnchecked(pool, t) ELSE pool
           /\ loop' = [loop EXCEPT !.work = IF result = "accepted" THEN Append(@, t) ELSE @,
                          !.tried = @ \cup {t},
                          !.erase = IF result \in {"accepted", "rejected"} THEN @ \cup {t} ELSE @,
                          !.bad = IF invalid THEN @ \cup {orphans[t]} ELSE @]
    /\ UNCHANGED <<chain, coins, undo, orphans, byPrev, peers>>

\* The next entry of vWorkQueue, or the end of the message.
NextWork ==
    /\ loop.work # <<>>
    /\ byPrev[loop.work[loop.i]] \subseteq loop.tried
    /\ IF Len(loop.work) = loop.i
       THEN loop' = NoLoop /\ EraseOrphans(loop.erase)
       ELSE /\ loop' = [loop EXCEPT !.i = @ + 1, !.tried = {}]
            /\ UNCHANGED <<orphans, byPrev>>
    /\ UNCHANGED <<chain, coins, undo, pool, peers>>

\* sendrawtransaction, the wallet, a SwiftX request: no orphan is looked at.
SubmitTx(t, refused) ==
    /\ Idle
    /\ AcceptToMemoryPool(pool, coins, t, refused, Len(chain) + 1) = "accepted"
    /\ pool' = addUnchecked(pool, t)
    /\ UNCHANGED <<chain, coins, undo, orphans, byPrev, peers, loop>>

\* ConnectTip: ConnectBlock writes the undo data of a block once; the coins
\* of the view are flushed; the pool forgets the block and its conflicts.
ConnectTip(b) ==
    LET new == ConnectBlock(coins, b, Len(chain) + 1)
    IN  /\ Idle /\ b # Base /\ Parent[b] = Tip /\ new.ok
        /\ coins' = new.coins
        /\ undo' = IF undo[b] = None THEN [undo EXCEPT ![b] = new.undo] ELSE undo
        /\ pool' = removeForBlock(pool, Vtx[b])
        /\ chain' = Append(chain, b)
        /\ UNCHANGED <<orphans, byPrev, peers, loop>>

\* A transaction of a disconnected block goes back to the pool, or what
\* depends on it leaves the pool.
Resurrect(p, c, t, refused, h) ==
    IF AcceptToMemoryPool(p, c, t, refused, h) = "accepted"
    THEN addUnchecked(p, t) ELSE removeRecursive(p, t)

\* DisconnectTip: an unclean DisconnectBlock changes nothing.  The
\* transactions of the block go back to the pool in their order.
DisconnectTip(refused) ==
    LET h == Len(chain)
        old == DisconnectBlock(coins, Tip, undo[Tip], h)
        back == Fold(LAMBDA p, t : Resurrect(p, old.coins, t, refused, h), pool, Vtx[Tip])
    IN  /\ Idle /\ Tip # Base /\ old.fClean
        /\ coins' = old.coins
        /\ pool' = removeCoinbaseSpends(back, old.coins, h)
        /\ chain' = SubSeq(chain, 1, h - 1)
        /\ UNCHANGED <<undo, orphans, byPrev, peers, loop>>

InitializeNode(p) ==
    /\ Idle /\ p \notin peers
    /\ peers' = peers \cup {p}
    /\ UNCHANGED <<chain, coins, undo, pool, orphans, byPrev, loop>>

\* Mutant: the orphans of a peer outlive it.
FinalizeNode_KeepsOrphans(p) ==
    /\ Idle /\ p \in peers
    /\ peers' = peers \ {p}
    /\ UNCHANGED <<chain, coins, undo, pool, orphans, byPrev, loop>>

\* FinalizeNode, with EraseOrphansFor.
FinalizeNode(p) ==
    /\ Idle /\ p \in peers
    /\ peers' = peers \ {p}
    /\ EraseOrphans({t \in Orphans : orphans[t] = p})
    /\ UNCHANGED <<chain, coins, undo, pool, loop>>

Next ==
    \/ \E p \in Peers : InitializeNode(p) \/ FinalizeNode(p)
    \/ \E t \in Txs : \E refused \in SUBSET {t} :
          \/ \E p \in Peers : ProcessTx(p, t, refused)
          \/ \E punish \in BOOLEAN : TryOrphan(t, refused, punish)
          \/ SubmitTx(t, refused)
    \/ NextWork
    \/ \E refused \in SUBSET {Vtx[Tip][i] : i \in 1..Len(Vtx[Tip])} : DisconnectTip(refused)
    \/ \E b \in Blocks : ConnectTip(b)

Spec == Init /\ [][Next]_vars

-----------------------------------------------------------------------------
(* Properties *)

\* Type invariant: the chain, the coin records, the maps of the pool and of
\* the orphans, and the queues of the tx handler.
TypeOK ==
    /\ chain \in Seq(Blocks) /\ chain # <<>>
    /\ \A t \in Txs : /\ coins[t].vout \subseteq 0..(NOut[t] - 1)
                      /\ coins[t].nHeight \in 0..Len(chain)
    /\ pool.mapTx \subseteq Txs
    /\ pool.mapNextTx \in [Outpoints -> Txs \cup {None}]
    /\ orphans \in [Txs -> Peers \cup {None}]
    /\ byPrev \in [Txs -> SUBSET Txs]
    /\ peers \subseteq Peers
    /\ loop.work \in Seq(Txs) /\ loop.tried \cup loop.erase \subseteq Txs

\* The assertions of CTxMemPool::check, which the tx handler, ConnectTip and
\* DisconnectTip call: inputs come from the pool or are unspent and mature
\* coins, and mapNextTx holds exactly the inputs of the pool, so no two of
\* its transactions spend the same output.  So no transaction of the pool is in
\* the chain either, and CCoinsViewMemPool may answer from the pool first,
\* "guaranteed to never conflict with the underlying cache" (txmempool.cpp:841).
PoolConsistent ==
    /\ TypeOK
    /\ \A t \in pool.mapTx : \A o \in Prevouts(t) :
          /\ IF o[1] \in pool.mapTx THEN o[2] < NOut[o[1]] ELSE IsAvailable(coins, o)
          /\ pool.mapNextTx[o] = t
    /\ \A t \in pool.mapTx : \A q \in ParentTxs(t) \ pool.mapTx :
          coins[q].fCoinBase \/ coins[q].fCoinStake =>
              (Len(chain) + 1) - coins[q].nHeight >= COINBASE_MATURITY
    /\ \A o \in Outpoints : pool.mapNextTx[o] # None =>
          pool.mapNextTx[o] \in pool.mapTx /\ o \in Prevouts(pool.mapNextTx[o])

Confirmed == UNION {{Vtx[chain[h]][i] : i \in 1..Len(Vtx[chain[h]])} : h \in 1..Len(chain)}

\* The coins that connecting the blocks of a path one after the other gives.
ReplayOf(path) ==
    Fold(LAMBDA c, h : ApplyTxs(c, path[h], h), [t \in Txs |-> Pruned], [h \in 1..Len(path) |-> h])

Replay == ReplayOf(chain)

\* However the chain came about, every unspent output, its height and its
\* coinbase flag are those of the active chain: undo data, written at the
\* first connection of a block, fits every later disconnection.
CoinsMatchChain ==
    \A t \in Txs : [coins[t] EXCEPT !.fCoinStake = FALSE] = [Replay[t] EXCEPT !.fCoinStake = FALSE]

\* "Undo the effects of this block (with given index) on the UTXO set"
\* (main.h:765): the coins are those of the active chain in every respect.
UndoRestoresCoins == coins = Replay

\* The two orphan maps describe the same transactions, their number is
\* bounded, and none is left of a peer that is gone (FinalizeNode).
OrphansConsistent ==
    /\ \A q \in Txs : byPrev[q] = {t \in Orphans : q \in ParentTxs(t)}
    /\ Cardinality(Orphans) <= MaxOrphanTx
    /\ \A t \in Orphans : orphans[t] \in peers

\* When the tx handler is done, an orphan that spends a transaction it
\* accepted still misses another parent, or came from a peer that was caught
\* with an invalid orphan ("Recursively process any orphan transactions that
\* depended on this one", main.cpp:6301).
NoOrphanLeftBehind ==
    [][~Idle /\ Idle' =>
         \A t \in Orphans' :
            ParentTxs(t) \cap pool.mapTx \cap (loop.erase \cup {loop.work[1]}) # {} =>
              \/ orphans[t] \in loop.bad
              \/ \E q \in ParentTxs(t) : q \notin pool.mapTx /\ ~HaveCoins(coins, q)]_vars
=============================================================================
