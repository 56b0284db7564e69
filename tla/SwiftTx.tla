------------------------------- MODULE SwiftTx -------------------------------
(***************************************************************************)
(* SwiftX transaction locks (swifttx.cpp) at one node: lock requests and   *)
(* masternode votes arrive over the network in any order, any number of    *)
(* times; locks complete, conflict, expire and are cleaned up.             *)
(*                                                                         *)
(* Messages are handled one at a time by the message thread; the clean-up  *)
(* runs in the obfuscation thread.  What the memory pool decides for       *)
(* reasons other than locks and double spends is left open.  Relaying, the *)
(* rate of votes for unknown transactions (which only stops the relay) and *)
(* the notification of a completed lock are left out; ReprocessBlocks is   *)
(* an action of ChainState.                                                *)
(***************************************************************************)
EXTENDS Integers, Sequences, FiniteSets

CONSTANTS Txs,
          Vin,                           \* Vin[t]: the outputs t spends, in order
          Masternodes,
          Self,                          \* the masternode this node runs, or None
          LockHeight,                    \* height CreateNewLock computes for t
          Heights,                       \* heights that votes name
          Top,                           \* Top[h]: ranked within SWIFTTX_SIGNATURES_TOTAL
          SWIFTTX_SIGNATURES_REQUIRED,
          None

Elements(s) == {s[i] : i \in DOMAIN s}
Outputs == UNION {Elements(Vin[t]) : t \in Txs}

\* CTransactionLock.  vecConsensusVotes[m, h]: how many votes of masternode m
\* for height h; due: GetTime() has passed nExpiration.
Locks == [nBlockHeight : Nat, due : BOOLEAN, vecConsensusVotes : [Masternodes \X Heights -> Nat]]

ASSUME SwiftTxAssumption ==
    /\ \A t \in Txs : Vin[t] \in Seq(Outputs)
    /\ IsFiniteSet(Masternodes) /\ Self \in Masternodes \cup {None}
    /\ LockHeight \in [Txs -> Nat \ {0}]
    /\ Heights \subseteq Nat /\ 0 \in Heights /\ Elements(LockHeight) \subseteq Heights
    /\ Top \in [Heights -> SUBSET Masternodes]
    /\ SWIFTTX_SIGNATURES_REQUIRED \in Nat \ {0}
    /\ None \notin Txs \cup Masternodes \cup {"tx", "empty"} \cup Locks

VARIABLES
    mapTxLockReq,          \* per transaction None, "tx", or "empty" (swifttx.cpp 359)
    mapTxLockReqRejected,  \* set of transactions
    mapTxLockVote,         \* vote hashes: masternode and transaction, not the height
    mapTxLocks,            \* per transaction None or [nBlockHeight, due, vecConsensusVotes]
    mapLockedInputs,       \* per output None or the transaction that holds it
    pool                   \* transactions in the memory pool

vars == <<mapTxLockReq, mapTxLockReqRejected, mapTxLockVote, mapTxLocks, mapLockedInputs, pool>>

NoVotes == [v \in Masternodes \X Heights |-> 0]
NewLock(h) == [nBlockHeight |-> h, due |-> FALSE, vecConsensusVotes |-> NoVotes]

Init ==
    /\ mapTxLockReq = [t \in Txs |-> None]
    /\ mapTxLockReqRejected = {}
    /\ mapTxLockVote = {}
    /\ mapTxLocks = [t \in Txs |-> None]
    /\ mapLockedInputs = [o \in Outputs |-> None]
    /\ pool = {}

-----------------------------------------------------------------------------
(* Locks *)

\* AddSignature
Signed(lock, m, h) == [lock EXCEPT !.vecConsensusVotes[<<m, h>>] = @ + 1]

\* Votes for another height do not count.
VotesFor(votes, h) ==
    LET Upto[S \in SUBSET Masternodes] ==
            IF S = {} THEN 0
            ELSE LET m == CHOOSE m \in S : TRUE IN votes[<<m, h>>] + Upto[S \ {m}]
    IN  Upto[Masternodes]

CountSignatures(lock) ==
    IF lock.nBlockHeight = 0 THEN -1 ELSE VotesFor(lock.vecConsensusVotes, lock.nBlockHeight)

Complete(lock) == CountSignatures(lock) >= SWIFTTX_SIGNATURES_REQUIRED

\* The locks after CreateNewLock for t, whose inputs are old enough or not.
CreateNewLock(t, old) ==
    IF ~old THEN mapTxLocks
    ELSE [mapTxLocks EXCEPT ![t] = IF @ = None THEN NewLock(LockHeight[t])
                                   ELSE [@ EXCEPT !.nBlockHeight = LockHeight[t]]]

\* The inputs of t, by position, that another transaction holds, and the
\* holder of the first of them.
Conflicts(t) == {i \in DOMAIN Vin[t] : mapLockedInputs[Vin[t][i]] \notin {None, t}}
FirstConflict(t) ==
    mapLockedInputs[Vin[t][CHOOSE i \in Conflicts(t) : \A j \in Conflicts(t) : i <= j]]

\* CheckForConflictingLocks: the lock of t and the first one it conflicts
\* with expire now.
Cancelled_OnlyOne(locks, t) == [locks EXCEPT ![t].due = TRUE]
Cancelled(locks, t) ==
    [u \in Txs |-> IF locks[u] # None /\ u \in {t, FirstConflict(t)}
                   THEN [locks[u] EXCEPT !.due = TRUE] ELSE locks[u]]

\* The free inputs of t become its own.
LockInputs(t) ==
    [o \in Outputs |-> IF o \in Elements(Vin[t]) /\ mapLockedInputs[o] = None
                       THEN t ELSE mapLockedInputs[o]]

\* AcceptToMemoryPool may refuse any transaction, and must refuse one that
\* conflicts with a lock or with the pool.
PoolMayAccept(t) ==
    /\ t \notin pool /\ Conflicts(t) = {}
    /\ \A u \in pool : Elements(Vin[u]) \cap Elements(Vin[t]) = {}

-----------------------------------------------------------------------------
(* Messages *)

\* DoConsensusVote: this node's own vote is relayed and remembered, but not
\* added to its own lock.
DoConsensusVote(t, h) ==
    IF Self # None /\ Self \in Top[h] THEN mapTxLockVote \cup {<<Self, t>>} ELSE mapTxLockVote

\* "ix", a lock request that passes IsIXTXValid.
IxAccepted(t, old) ==
    /\ mapTxLockReq[t] = None /\ t \notin mapTxLockReqRejected
    /\ PoolMayAccept(t)
    /\ mapTxLocks' = CreateNewLock(t, old)
    /\ pool' = pool \cup {t}
    /\ mapTxLockVote' = DoConsensusVote(t, IF old THEN LockHeight[t] ELSE 0)
    /\ mapTxLockReq' = [mapTxLockReq EXCEPT ![t] = "tx"]
    /\ UNCHANGED <<mapTxLockReqRejected, mapLockedInputs>>

\* A rejected request takes the free inputs all the same.  Its lock may be
\* complete already: then it conflicts, or blocks are processed again.
IxRejected(t, old) ==
    LET locks == CreateNewLock(t, old)
        complete == locks[t] # None /\ Complete(locks[t])
        conflict == Conflicts(t) # {}
    IN  /\ mapTxLockReq[t] = None /\ t \notin mapTxLockReqRejected
        /\ mapTxLockReqRejected' = mapTxLockReqRejected \cup {t}
        /\ mapLockedInputs' = LockInputs(t)
        /\ mapTxLocks' = IF complete /\ conflict THEN Cancelled(locks, t) ELSE locks
        /\ mapTxLockReq' = IF complete /\ ~conflict THEN [mapTxLockReq EXCEPT ![t] = "tx"]
                           ELSE mapTxLockReq
        /\ UNCHANGED <<mapTxLockVote, pool>>

\* RelayWalletTransaction("ix") and sendrawtransaction: the request is noted
\* before the pool is asked.
RequestLock(t, old) ==
    /\ t \notin pool
    /\ mapTxLockReq' = [mapTxLockReq EXCEPT ![t] = IF @ = None THEN "tx" ELSE @]
    /\ mapTxLocks' = CreateNewLock(t, old)
    /\ \/ PoolMayAccept(t) /\ pool' = pool \cup {t}
       \/ UNCHANGED pool
    /\ UNCHANGED <<mapTxLockReqRejected, mapTxLockVote, mapLockedInputs>>

\* ProcessConsensusVote for a vote of a ranked masternode.  The lookup in
\* mapTxLockReq leaves an empty transaction, without inputs, for a request
\* that is not there.
ProcessConsensusVote(m, t, h) ==
    LET lock == Signed(IF mapTxLocks[t] = None THEN NewLock(0) ELSE mapTxLocks[t], m, h)
        locks == [mapTxLocks EXCEPT ![t] = lock]
        known == mapTxLockReq[t] = "tx"
        conflict == known /\ Conflicts(t) # {}
    IN  IF ~Complete(lock)
        THEN mapTxLocks' = locks /\ UNCHANGED <<mapTxLockReq, mapLockedInputs>>
        ELSE /\ mapTxLockReq' = [mapTxLockReq EXCEPT ![t] = IF @ = None THEN "empty" ELSE @]
             /\ mapTxLocks' = IF conflict THEN Cancelled(locks, t) ELSE locks
             /\ mapLockedInputs' = IF known /\ ~conflict THEN LockInputs(t) ELSE mapLockedInputs

\* "txlvote".  valid: the masternode is known and the signature is its own.
\* A vote that is not counted stays in mapTxLockVote all the same.
TxlVote_Twice(m, t, h, valid) ==
    /\ mapTxLockVote' = mapTxLockVote \cup {<<m, t>>}
    /\ \A l \in Txs : mapTxLocks[l] # None => mapTxLocks[l].vecConsensusVotes[<<m, h>>] < 2
    /\ IF valid /\ m \in Top[h] THEN ProcessConsensusVote(m, t, h)
       ELSE UNCHANGED <<mapTxLocks, mapTxLockReq, mapLockedInputs>>
    /\ UNCHANGED <<mapTxLockReqRejected, pool>>
TxlVote(m, t, h, valid) ==
    /\ <<m, t>> \notin mapTxLockVote
    /\ mapTxLockVote' = mapTxLockVote \cup {<<m, t>>}
    /\ IF valid /\ m \in Top[h] THEN ProcessConsensusVote(m, t, h)
       ELSE UNCHANGED <<mapTxLocks, mapTxLockReq, mapLockedInputs>>
    /\ UNCHANGED <<mapTxLockReqRejected, pool>>

-----------------------------------------------------------------------------
(* Pool, time and clean-up *)

\* A transaction enters the pool by a "tx" message.
Tx(t) ==
    /\ PoolMayAccept(t) /\ pool' = pool \cup {t}
    /\ UNCHANGED <<mapTxLockReq, mapTxLockReqRejected, mapTxLockVote, mapTxLocks, mapLockedInputs>>

\* A block with t passes the lock check of CheckBlock and takes t and what
\* conflicts with it out of the pool.
Block(t) ==
    /\ Conflicts(t) = {}
    /\ pool' = {u \in pool : Elements(Vin[u]) \cap Elements(Vin[t]) = {}}
    /\ pool' # pool
    /\ UNCHANGED <<mapTxLockReq, mapTxLockReqRejected, mapTxLockVote, mapTxLocks, mapLockedInputs>>

\* GetTime() passes nExpiration of the lock of t.
Expire(t) ==
    /\ mapTxLocks[t] # None /\ ~mapTxLocks[t].due
    /\ mapTxLocks' = [mapTxLocks EXCEPT ![t].due = TRUE]
    /\ UNCHANGED <<mapTxLockReq, mapTxLockReqRejected, mapTxLockVote, mapLockedInputs, pool>>

CleanTransactionLocksList_KeepsInputs ==
    LET old == {t \in Txs : mapTxLocks[t] # None /\ mapTxLocks[t].due}
        requested == {t \in old : mapTxLockReq[t] # None}
    IN  /\ old # {}
        /\ mapTxLockReq' = [t \in Txs |-> IF t \in requested THEN None ELSE mapTxLockReq[t]]
        /\ mapTxLockReqRejected' = mapTxLockReqRejected \ requested
        /\ mapTxLockVote' = {v \in mapTxLockVote : v[2] \in requested =>
              \A h \in Heights : mapTxLocks[v[2]].vecConsensusVotes[<<v[1], h>>] = 0}
        /\ mapTxLocks' = [t \in Txs |-> IF t \in old THEN None ELSE mapTxLocks[t]]
        /\ UNCHANGED <<mapLockedInputs, pool>>
\* Requests, inputs and votes go with an expired lock only when the request
\* is in mapTxLockReq; inputs go whoever holds them.
CleanTransactionLocksList ==
    LET old == {t \in Txs : mapTxLocks[t] # None /\ mapTxLocks[t].due}
        requested == {t \in old : mapTxLockReq[t] # None}
        freed == UNION {Elements(Vin[t]) : t \in {u \in requested : mapTxLockReq[u] = "tx"}}
    IN  /\ old # {}
        /\ mapLockedInputs' = [o \in Outputs |-> IF o \in freed THEN None ELSE mapLockedInputs[o]]
        /\ mapTxLockReq' = [t \in Txs |-> IF t \in requested THEN None ELSE mapTxLockReq[t]]
        /\ mapTxLockReqRejected' = mapTxLockReqRejected \ requested
        /\ mapTxLockVote' = {v \in mapTxLockVote : v[2] \in requested =>
              \A h \in Heights : mapTxLocks[v[2]].vecConsensusVotes[<<v[1], h>>] = 0}
        /\ mapTxLocks' = [t \in Txs |-> IF t \in old THEN None ELSE mapTxLocks[t]]
        /\ UNCHANGED pool

-----------------------------------------------------------------------------
Next ==
    \/ \E t \in Txs :
          \/ \E old \in BOOLEAN : IxAccepted(t, old) \/ IxRejected(t, old) \/ RequestLock(t, old)
          \/ \E m \in Masternodes, h \in Heights, valid \in BOOLEAN : TxlVote(m, t, h, valid)
          \/ Tx(t) \/ Block(t) \/ Expire(t)
    \/ CleanTransactionLocksList

\* Time passes, and the obfuscation thread cleans up once a minute.
Spec == /\ Init /\ [][Next]_vars
        /\ \A t \in Txs : WF_vars(Expire(t))
        /\ WF_vars(CleanTransactionLocksList)

-----------------------------------------------------------------------------
(* Properties *)

\* The height of a lock is unknown or the one its inputs determine, and the
\* empty request left by line 359 goes when the lock goes.
TypeOK ==
    /\ mapTxLockReq \in [Txs -> {None, "tx", "empty"}]
    /\ \A t \in Txs : mapTxLockReq[t] = "empty" => mapTxLocks[t] # None
    /\ mapTxLockReqRejected \subseteq Txs
    /\ mapTxLockVote \subseteq Masternodes \X Txs
    /\ \A t \in Txs : mapTxLocks[t] # None =>
          /\ mapTxLocks[t].nBlockHeight \in {0, LockHeight[t]}
          /\ mapTxLocks[t].due \in BOOLEAN
          /\ mapTxLocks[t].vecConsensusVotes \in [Masternodes \X Heights -> Nat]
    /\ mapLockedInputs \in [Outputs -> Txs \cup {None}]
    /\ pool \subseteq Txs

\* No masternode counts twice for a lock (swifttx.cpp 133-145, 431-459), even
\* though votes are repeated by peers, come before the request, name different
\* heights, and are forgotten by the clean-up: every counted vote is still
\* remembered, and there is at most one per masternode.
VotersDistinct ==
    /\ TypeOK
    /\ \A t \in Txs : mapTxLocks[t] # None =>
          \A m \in Masternodes :
              LET votes == mapTxLocks[t].vecConsensusVotes
                  heights == {h \in Heights : votes[<<m, h>>] > 0}
              IN  /\ Cardinality(heights) <= 1
                  /\ \A h \in heights : votes[<<m, h>>] = 1
                  /\ heights # {} => <<m, t>> \in mapTxLockVote

Holds(t, o) == mapLockedInputs[o] = t

\* When a vote leaves the lock of a known request complete, the transaction
\* holds all its inputs, or the conflicting locks are about to go: its own
\* lock and that of a transaction holding one of its inputs, if it has one
\* (swifttx.cpp 302-414).
CompletionLocksInputs ==
    [][\A t \in Txs :
          /\ mapTxLocks'[t] # None /\ mapTxLockReq[t] = "tx"
          /\ Complete(mapTxLocks'[t])
          /\ mapTxLocks[t] = None \/ mapTxLocks[t].vecConsensusVotes # mapTxLocks'[t].vecConsensusVotes
          => \/ \A o \in Elements(Vin[t]) : Holds(t, o)'
             \/ /\ mapTxLocks'[t].due
                /\ \E o \in Elements(Vin[t]) :
                      /\ mapLockedInputs[o] \in Txs \ {t}
                      /\ LET other == mapTxLocks'[mapLockedInputs[o]]
                         IN  other = None \/ other.due]_vars

\* "locks expire after 60 minutes" (swifttx.cpp 247): no lock stays for ever,
\* whatever happens to its request and votes, and an input that an accepted
\* transaction locked is free again sooner or later (swifttx.cpp 431-459).
LocksEnd ==
    /\ \A t \in Txs : []<>(mapTxLocks[t] = None)
    /\ \A t \in Txs, o \in Outputs :
          Holds(t, o) /\ mapTxLockReq[t] = "tx" /\ mapTxLocks[t] # None ~> mapLockedInputs[o] # t
=============================================================================
