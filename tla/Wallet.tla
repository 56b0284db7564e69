------------------------------- MODULE Wallet -------------------------------
(***************************************************************************)
(* The wallet's transactions (wallet.cpp, wallet.h) composed with the      *)
(* chain, the coins and the memory pool of Mempool: which transactions it  *)
(* keeps, in which block it believes each of them, which of its outputs    *)
(* it takes to be spent, and which it spends.                              *)
(*                                                                         *)
(* The wallet is told of transactions by SyncWithWallets, under cs_main    *)
(* and within the step of Mempool that calls it.  Amounts, fees and change *)
(* are left out: the transactions it can make are given.  SwiftX depth,    *)
(* locked coins, watch-only and zerocoin outputs are left out too.         *)
(***************************************************************************)
EXTENDS Mempool

CONSTANTS Mine,   \* the outpoints that pay to keys of the wallet
          Made,   \* the transactions CreateTransaction may come up with
          HashOrders  \* orders of mapWallet: any two transactions either way round

ASSUME WalletAssumption ==
    /\ \A o \in Mine : o[1] \in Txs /\ o[2] \in 0..(NOut[o[1]] - 1)
    /\ Made \subseteq Txs \ (CoinBases \cup CoinStakes)
    /\ \A t \in Made : Prevouts(t) \subseteq Mine
    /\ \A order \in HashOrders : order \in Seq(Txs)

VARIABLES mapWallet,   \* transactions of the wallet
          hashBlock    \* of each of them; None for 0

walletVars == <<vars, mapWallet, hashBlock>>

-----------------------------------------------------------------------------
(* What the wallet is told *)

IsMine(t) == \E o \in Mine : o[1] = t
IsFromMe(w, t) == \E o \in Prevouts(t) \cap Mine : o[1] \in w
InvolvesMe(w, t) == t \in w \/ IsMine(t) \/ IsFromMe(w, t)

\* SyncTransaction for the transactions of S without a block: what
\* AddToWallet knows of their blocks stays.
SyncTransactions(S) ==
    /\ mapWallet' = mapWallet \cup {t \in S : InvolvesMe(mapWallet, t)}
    /\ UNCHANGED hashBlock

Known(w, t) == IF InvolvesMe(w, t) THEN w \cup {t} ELSE w

\* Mutant: hashBlock of a known transaction is not merged.
SyncBlock_NoMerge(b) ==
    /\ mapWallet' = Fold(Known, mapWallet, Vtx[b])
    /\ hashBlock' = [t \in Txs |-> IF /\ t \in mapWallet' \ mapWallet
                                      /\ \E i \in 1..Len(Vtx[b]) : Vtx[b][i] = t
                                   THEN b ELSE hashBlock[t]]

\* SyncTransaction for the transactions of block b, one after the other.
SyncBlock(b) ==
    /\ mapWallet' = Fold(Known, mapWallet, Vtx[b])
    /\ hashBlock' = [t \in Txs |-> IF /\ t \in mapWallet'
                                      /\ \E i \in 1..Len(Vtx[b]) : Vtx[b][i] = t
                                   THEN b ELSE hashBlock[t]]

-----------------------------------------------------------------------------
(* What the wallet makes of it *)

\* A transaction that was in a block and is neither in the chain nor in the
\* pool is at -1; one that never was in a block is at 0.
GetDepthInMainChain(t) ==
    LET at == {h \in 1..Len(chain) : chain[h] = hashBlock[t]}
    IN  IF hashBlock[t] = None THEN 0
        ELSE IF at # {} THEN Len(chain) + 1 - (CHOOSE h \in at : TRUE)
        ELSE IF t \in pool.mapTx THEN 0 ELSE -1

\* Mutant: a spend counts from its first confirmation on.
IsSpent_Confirmed(o) == \E t \in mapWallet : o \in Prevouts(t) /\ GetDepthInMainChain(t) > 0

IsSpent(o) == \E t \in mapWallet : o \in Prevouts(t) /\ GetDepthInMainChain(t) >= 0

IsTrusted(t) ==
    \/ GetDepthInMainChain(t) >= 1
    \/ GetDepthInMainChain(t) = 0 /\ Prevouts(t) # {} /\ Prevouts(t) \subseteq Mine
                                  /\ ParentTxs(t) \subseteq mapWallet

BlocksToMaturity(t) ==
    IF t \in CoinBases \cup CoinStakes THEN COINBASE_MATURITY + 1 - GetDepthInMainChain(t) ELSE 0

\* AvailableCoins with fOnlyConfirmed, from which SelectCoins chooses.
AvailableCoins ==
    {o \in Mine : /\ o[1] \in mapWallet /\ IsTrusted(o[1])
                  /\ BlocksToMaturity(o[1]) <= 0
                  /\ GetDepthInMainChain(o[1]) = 0 => o[1] \in pool.mapTx
                  /\ ~IsSpent(o)}

-----------------------------------------------------------------------------
(* Actions *)

WalletInit ==
    /\ Init
    /\ mapWallet = {t \in {Vtx[Base][i] : i \in 1..Len(Vtx[Base])} : IsMine(t)}
    /\ hashBlock = [t \in Txs |-> IF t \in mapWallet THEN Base ELSE None]

\* AcceptToMemoryPool ends with SyncWithWallets.
Accepted == SyncTransactions(pool'.mapTx \ pool.mapTx)

\* The transactions that removeForBlock throws out as conflicts are
\* synchronised too, without a block: they were in the pool, so the wallet
\* knows them already and keeps them as they are.
WalletConnectTip(b) ==
    /\ ConnectTip(b)
    /\ SyncBlock(b)

WalletDisconnectTip(refused) ==
    /\ DisconnectTip(refused)
    /\ SyncTransactions({Vtx[Tip][i] : i \in 1..Len(Vtx[Tip])})

\* CreateTransaction chooses available coins; CommitTransaction records the
\* transaction, and then offers it to the pool, which may refuse it.  They are
\* one critical section, as in the RPC; the graphical interface prepares and
\* sends under two, and its coins may be gone in between.
CommitTransaction(t, refused) ==
    /\ Idle /\ t \notin mapWallet /\ Prevouts(t) \subseteq AvailableCoins
    /\ mapWallet' = mapWallet \cup {t}
    /\ pool' = IF AcceptToMemoryPool(pool, coins, t, refused, Len(chain) + 1) = "accepted"
               THEN addUnchecked(pool, t) ELSE pool
    /\ UNCHANGED <<chain, coins, undo, orphans, byPrev, peers, loop, hashBlock>>

\* ReacceptWalletTransactions offers a transaction to the pool that was in
\* a block and no longer is.
Reaccept(p, t) ==
    IF /\ t \in mapWallet \ CoinBases
       /\ hashBlock[t] # None /\ \A h \in 1..Len(chain) : chain[h] # hashBlock[t]
       /\ AcceptToMemoryPool(p, coins, t, {}, Len(chain) + 1) = "accepted"
    THEN addUnchecked(p, t) ELSE p

\* The node stops and starts: pool, orphans and peers are gone.
\* ReacceptWalletTransactions walks mapWallet in the order of the hashes.
Restart(order) ==
    /\ Idle
    /\ pool' = Fold(Reaccept, EmptyPool, order)
    /\ orphans' = [t \in Txs |-> None] /\ byPrev' = [t \in Txs |-> {}] /\ peers' = {}
    /\ UNCHANGED <<chain, coins, undo, loop, mapWallet, hashBlock>>

WalletNext ==
    \/ \E p \in Peers : (InitializeNode(p) \/ FinalizeNode(p)) /\ UNCHANGED <<mapWallet, hashBlock>>
    \/ \E t \in Txs : \E refused \in SUBSET {t} :
          \/ \E p \in Peers : ProcessTx(p, t, refused) /\ Accepted
          \/ \E punish \in BOOLEAN : TryOrphan(t, refused, punish) /\ Accepted
          \/ SubmitTx(t, refused) /\ Accepted
    \/ NextWork /\ UNCHANGED <<mapWallet, hashBlock>>
    \/ \E t \in Made : \E refused \in SUBSET {t} : CommitTransaction(t, refused)
    \/ \E refused \in SUBSET {Vtx[Tip][i] : i \in 1..Len(Vtx[Tip])} : WalletDisconnectTip(refused)
    \/ \E b \in Blocks : WalletConnectTip(b)
    \/ \E order \in HashOrders : Restart(order)

WalletSpec == WalletInit /\ [][WalletNext]_walletVars

-----------------------------------------------------------------------------
(* Properties *)

\* Whatever blocks were connected and disconnected, the wallet knows every
\* transaction of the chain and of the pool that pays it or spends its
\* outputs, and the block of each confirmed one (wallet.cpp 636-739): only
\* then does IsSpent see every spend.
WalletComplete ==
    /\ \A t \in Confirmed \cup pool.mapTx : InvolvesMe(mapWallet, t) => t \in mapWallet
    /\ \A t \in mapWallet : t \in Confirmed <=> GetDepthInMainChain(t) > 0

\* "This must not fail.  The transaction has already been signed and
\* recorded" (wallet.cpp:3204): a transaction made of AvailableCoins is
\* accepted, unless a check of policy or scripts refuses it.
CommitAccepted ==
    [][\A t \in Made : CommitTransaction(t, {}) => t \in pool'.mapTx]_walletVars
=============================================================================
