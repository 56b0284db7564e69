--------------------------- MODULE SwiftTx_proofs ---------------------------
(***************************************************************************)
(* Proofs about SwiftTx, for any set of transactions, any masternodes, any *)
(* ranking and any number of signatures required.                          *)
(*                                                                         *)
(* VotersDistinct is inductive once it is written without a cardinality    *)
(* (OneVote).  CompletionLocksInputs needs two facts about data: that a    *)
(* fresh lock has no signatures, by induction over the masternodes that    *)
(* CountSignatures adds up, and that the first of several conflicting      *)
(* inputs exists.  Both rest on Least.                                     *)
(***************************************************************************)
EXTENDS SwiftTx, FiniteSetTheorems, TLAPS

-----------------------------------------------------------------------------
(* Natural numbers and votes *)

\* The order of the natural numbers is a well-founded relation.
LEMMA LessThan ==
    \E R : IsWellFoundedOn(R, Nat) /\ \A i, j \in Nat : i < j => <<i, j>> \in R
<1> DEFINE R == OpToRel(<, Nat)
<1>1. IsWellFoundedOn(R, Nat)
  BY NatLessThanWellFounded
<1>2. \A i, j \in Nat : i < j => <<i, j>> \in R
  BY Zenon DEF OpToRel
<1> HIDE DEF R
<1> QED BY <1>1, <1>2

\* A set of natural numbers has a least element.
LEMMA Least ==
    ASSUME NEW T \in SUBSET Nat, T # {}
    PROVE  \E n \in T : \A k \in T : n <= k
<1>1. PICK R : IsWellFoundedOn(R, Nat) /\ \A i, j \in Nat : i < j => <<i, j>> \in R
  BY LessThan
<1>2. PICK n \in T : \A k \in T : ~(<<k, n>> \in R)
  <2>1. IsWellFoundedOn(R, Nat) /\ T \subseteq Nat /\ T # {}
    BY <1>1
  <2> QED BY <2>1, WFMin, Zenon
<1>3. n \in Int /\ \A k \in T : k \in Int
  OBVIOUS
<1>4. \A k \in T : ~(k < n)
  BY <1>1, <1>2
<1> QED BY <1>3, <1>4

\* CountSignatures (swifttx.cpp 557-573) finds nothing in a new lock.
LEMMA NoVotesYet ==
    ASSUME NEW h \in Heights
    PROVE  VotesFor(NoVotes, h) = 0
<1> DEFINE M == SUBSET Masternodes
           Step(f, S) == IF S = {} THEN 0
                         ELSE LET m == CHOOSE m \in S : TRUE
                              IN  NoVotes[<<m, h>>] + f[S \ {m}]
           Sum(f) == f = [S \in M |-> Step(f, S)]
           Upto == CHOOSE f : Sum(f)
           Wrong == {n \in Nat : \E S \in M : Cardinality(S) = n /\ Upto[S] # 0}
<1>1. Sum(Upto)
  <2> DEFINE zero == [S \in M |-> 0]
  <2>1. \A S \in M : Step(zero, S) = 0
    BY DEF NoVotes
  <2>2. Sum(zero)
    BY <2>1
  <2> HIDE DEF Sum, zero
  <2> QED BY <2>2
<1>2. \A S \in M : Upto[S] = Step(Upto, S)
  <2> HIDE DEF Upto, Step
  <2> QED BY <1>1
<1>3. ASSUME NEW S \in M, S # {}
      PROVE  /\ (CHOOSE m \in S : TRUE) \in S
             /\ Upto[S] = Upto[S \ {CHOOSE m \in S : TRUE}] \/ Upto[S \ {CHOOSE m \in S : TRUE}] # 0
  <2> DEFINE m == CHOOSE m \in S : TRUE
  <2>1. m \in S
    BY <1>3
  <2>2. Upto[S] = NoVotes[<<m, h>>] + Upto[S \ {m}]
    BY <1>2, <1>3
  <2>3. NoVotes[<<m, h>>] = 0
    BY <2>1 DEF NoVotes
  <2> HIDE DEF m, Upto
  <2>4. Upto[S \ {m}] = 0 => Upto[S] = 0
    BY <2>2, <2>3
  <2> QED BY <2>1, <2>4 DEF m
<1>4. Wrong = {}
  <2> SUFFICES ASSUME Wrong # {} PROVE FALSE
    OBVIOUS
  <2>1. PICK n \in Wrong : \A k \in Wrong : n <= k
    <3> HIDE DEF Wrong
    <3>1. Wrong \in SUBSET Nat
      BY DEF Wrong
    <3> QED BY <3>1, Least
  <2>2. PICK S \in M : Cardinality(S) = n /\ Upto[S] # 0
    BY <2>1
  <2> DEFINE m == CHOOSE m \in S : TRUE
             T == S \ {m}
  <2>3. S # {}
    <3> HIDE DEF Upto
    <3> QED BY <1>2, <2>2
  <2>4. m \in S /\ (Upto[T] = 0 => Upto[S] = 0)
    BY <1>3, <2>3
  <2>5. IsFiniteSet(S) /\ T \in M
    BY SwiftTxAssumption, FS_Subset
  <2> HIDE DEF m
  <2>6. /\ Cardinality(S) \in Nat
        /\ Cardinality(T) = Cardinality(S) - 1 /\ Cardinality(T) \in Nat
    BY <2>4, <2>5, FS_RemoveElement, FS_CardinalityType, FS_Subset
  <2> HIDE DEF T, Upto
  <2>7. Cardinality(T) \in Wrong
    BY <2>2, <2>4, <2>5, <2>6
  <2> HIDE DEF Wrong
  <2> QED BY <2>1, <2>2, <2>6, <2>7
<1>5. Masternodes \in M /\ Cardinality(Masternodes) \in Nat
  BY SwiftTxAssumption, FS_CardinalityType
<1>6. Upto[Masternodes] = 0
  <2> HIDE DEF Upto
  <2> QED BY <1>4, <1>5
<1> QED BY <1>6 DEF VotesFor

-----------------------------------------------------------------------------
(* The inductive invariant *)

Types ==
    /\ mapTxLockReq \in [Txs -> {None, "tx", "empty"}]
    /\ mapTxLockReqRejected \subseteq Txs
    /\ mapTxLockVote \subseteq Masternodes \X Txs
    /\ mapTxLocks \in [Txs -> Locks \cup {None}]
    /\ mapLockedInputs \in [Outputs -> Txs \cup {None}]
    /\ pool \subseteq Txs

\* A counted vote is remembered, and is the only one of its masternode.
OneVote(t) ==
    \A m \in Masternodes, h \in Heights :
        mapTxLocks[t].vecConsensusVotes[<<m, h>>] # 0 =>
            /\ mapTxLocks[t].vecConsensusVotes[<<m, h>>] = 1
            /\ <<m, t>> \in mapTxLockVote
            /\ \A k \in Heights : mapTxLocks[t].vecConsensusVotes[<<m, k>>] # 0 => k = h

LockOK(t) ==
    /\ mapTxLocks[t].nBlockHeight \in {0, LockHeight[t]}
    /\ OneVote(t)

IndInv ==
    /\ Types
    /\ \A t \in Txs : mapTxLockReq[t] = "empty" => mapTxLocks[t] # None
    /\ \A t \in Txs : mapTxLocks[t] # None => LockOK(t)

LEMMA InitInv == Init => IndInv
<1> QED BY SwiftTxAssumption DEF Init, IndInv, Types

\* The heights of locks are heights that votes may name.
LEMMA LockHeights == \A t \in Txs : LockHeight[t] \in Heights \cap Nat
<1> QED BY SwiftTxAssumption DEF Elements

\* The lock of a transaction after a step is the one before, but for its
\* height, its expiry and votes that are kept in memory.
Same(t) ==
    /\ mapTxLocks'[t] \in Locks
    /\ mapTxLocks'[t].nBlockHeight \in {mapTxLocks[t].nBlockHeight, LockHeight[t]}
    /\ mapTxLocks'[t].vecConsensusVotes = mapTxLocks[t].vecConsensusVotes

Fresh(t) ==
    /\ mapTxLocks'[t] \in Locks
    /\ mapTxLocks'[t].nBlockHeight \in {0, LockHeight[t]}
    /\ mapTxLocks'[t].vecConsensusVotes = NoVotes

\* A lock that only changes its height or its expiry, or is new, stays right
\* as long as no vote is forgotten.
LEMMA KeptLock ==
    ASSUME Types, NEW t \in Txs, mapTxLockVote \subseteq mapTxLockVote',
           mapTxLocks[t] # None => LockOK(t),
           mapTxLocks'[t] # None,
           (mapTxLocks[t] # None /\ Same(t)) \/ Fresh(t)
    PROVE  LockOK(t)'
<1>1. CASE Fresh(t)
  <2>1. \A m \in Masternodes, h \in Heights : NoVotes[<<m, h>>] = 0
    BY DEF NoVotes
  <2> QED BY <1>1, <2>1 DEF Fresh, LockOK, OneVote
<1>2. CASE mapTxLocks[t] # None /\ Same(t)
  BY <1>2 DEF Same, LockOK, OneVote
<1> QED BY <1>1, <1>2

\* What CreateNewLock (swifttx.cpp 223-258) does to the locks.
LEMMA CreateNewLockFacts ==
    ASSUME Types, NEW t \in Txs, NEW old \in BOOLEAN
    PROVE  LET locks == CreateNewLock(t, old)
           IN  /\ locks \in [Txs -> Locks \cup {None}]
               /\ \A u \in Txs \ {t} : locks[u] = mapTxLocks[u]
               /\ mapTxLocks[t] # None =>
                     /\ locks[t] # None
                     /\ locks[t].nBlockHeight \in {mapTxLocks[t].nBlockHeight, LockHeight[t]}
                     /\ locks[t].vecConsensusVotes = mapTxLocks[t].vecConsensusVotes
               /\ mapTxLocks[t] = None => locks[t] \in {None, NewLock(LockHeight[t])}
<1>1. NewLock(LockHeight[t]) \in Locks
  BY LockHeights DEF NewLock, NoVotes, Locks
<1>2. CASE ~old
  BY <1>2 DEF CreateNewLock, Types
<1>3. CASE old /\ mapTxLocks[t] = None
  BY <1>1, <1>3 DEF CreateNewLock, Types
<1>4. CASE old /\ mapTxLocks[t] # None
  <2>1. mapTxLocks[t] \in Locks
    BY <1>4 DEF Types
  <2> DEFINE l == [mapTxLocks[t] EXCEPT !.nBlockHeight = LockHeight[t]]
  <2>2. /\ l \in Locks /\ l.nBlockHeight = LockHeight[t]
        /\ l.vecConsensusVotes = mapTxLocks[t].vecConsensusVotes
    BY <2>1, LockHeights DEF Locks
  <2>3. CreateNewLock(t, old) = [mapTxLocks EXCEPT ![t] = l]
    BY <1>4 DEF CreateNewLock
  <2>4. l # None
    BY <2>2, SwiftTxAssumption
  <2> HIDE DEF l
  <2> QED BY <1>4, <2>2, <2>3, <2>4 DEF Types
<1> QED BY <1>2, <1>3, <1>4

\* Cancelling locks (CheckForConflictingLocks, 393-414) only sets their expiry.
LEMMA CancelledFacts ==
    ASSUME NEW locks \in [Txs -> Locks \cup {None}], NEW t \in Txs
    PROVE  /\ Cancelled(locks, t) \in [Txs -> Locks \cup {None}]
           /\ \A u \in Txs :
                /\ locks[u] = None => Cancelled(locks, t)[u] = None
                /\ locks[u] # None =>
                     /\ Cancelled(locks, t)[u] # None
                     /\ Cancelled(locks, t)[u].nBlockHeight = locks[u].nBlockHeight
                     /\ Cancelled(locks, t)[u].vecConsensusVotes = locks[u].vecConsensusVotes
                     /\ u \in {t, FirstConflict(t)} => Cancelled(locks, t)[u].due
<1>1. ASSUME NEW l \in Locks
      PROVE  /\ [l EXCEPT !.due = TRUE] \in Locks
             /\ [l EXCEPT !.due = TRUE] # None
             /\ [l EXCEPT !.due = TRUE].due
             /\ [l EXCEPT !.due = TRUE].nBlockHeight = l.nBlockHeight
             /\ [l EXCEPT !.due = TRUE].vecConsensusVotes = l.vecConsensusVotes
  <2>1. [l EXCEPT !.due = TRUE] \in Locks
    BY DEF Locks
  <2>2. [l EXCEPT !.due = TRUE] # None
    BY <2>1, SwiftTxAssumption
  <2> QED BY <2>1, <2>2 DEF Locks
<1>2. \A u \in Txs : Cancelled(locks, t)[u] =
          IF locks[u] # None /\ u \in {t, FirstConflict(t)}
          THEN [locks[u] EXCEPT !.due = TRUE] ELSE locks[u]
  BY DEF Cancelled
<1>3. \A u \in Txs : locks[u] # None => locks[u] \in Locks
  OBVIOUS
<1>4. ASSUME NEW u \in Txs
      PROVE  /\ Cancelled(locks, t)[u] \in Locks \cup {None}
             /\ locks[u] = None => Cancelled(locks, t)[u] = None
             /\ locks[u] # None =>
                  /\ Cancelled(locks, t)[u] # None
                  /\ Cancelled(locks, t)[u].nBlockHeight = locks[u].nBlockHeight
                  /\ Cancelled(locks, t)[u].vecConsensusVotes = locks[u].vecConsensusVotes
                  /\ u \in {t, FirstConflict(t)} => Cancelled(locks, t)[u].due
  BY <1>1, <1>2, <1>3
<1>5. Cancelled(locks, t) = [u \in Txs |-> Cancelled(locks, t)[u]]
  BY DEF Cancelled
<1> QED BY <1>4, <1>5

\* The lock that ProcessConsensusVote (swifttx.cpp 302-391) counts a vote in.
Voted(m, t, h) == Signed(IF mapTxLocks[t] = None THEN NewLock(0) ELSE mapTxLocks[t], m, h)
Counted(t, k, i) == IF mapTxLocks[t] = None THEN 0 ELSE mapTxLocks[t].vecConsensusVotes[<<k, i>>]

AddsVote(m, t, h) ==
    \A k \in Masternodes, i \in Heights :
        Voted(m, t, h).vecConsensusVotes[<<k, i>>] =
            IF k = m /\ i = h THEN Counted(t, k, i) + 1 ELSE Counted(t, k, i)

LEMMA VotedFacts ==
    ASSUME Types, NEW m \in Masternodes, NEW t \in Txs, NEW h \in Heights
    PROVE  /\ Voted(m, t, h) \in Locks /\ Voted(m, t, h) # None
           /\ mapTxLocks[t] = None => Voted(m, t, h).nBlockHeight = 0
           /\ mapTxLocks[t] # None => Voted(m, t, h).nBlockHeight = mapTxLocks[t].nBlockHeight
           /\ AddsVote(m, t, h)
<1> DEFINE l == IF mapTxLocks[t] = None THEN NewLock(0) ELSE mapTxLocks[t]
           n == [l.vecConsensusVotes EXCEPT ![<<m, h>>] = @ + 1]
<1>1. NewLock(0) \in Locks /\ NewLock(0).nBlockHeight = 0
      /\ \A k \in Masternodes, i \in Heights : NewLock(0).vecConsensusVotes[<<k, i>>] = 0
  BY DEF NewLock, NoVotes, Locks
<1>2. l \in Locks
  BY <1>1 DEF Types
<1>3. l.vecConsensusVotes \in [Masternodes \X Heights -> Nat]
  <2> HIDE DEF l
  <2> QED BY <1>2 DEF Locks
<1>4. /\ n \in [Masternodes \X Heights -> Nat]
      /\ \A k \in Masternodes, i \in Heights :
           n[<<k, i>>] = IF k = m /\ i = h THEN l.vecConsensusVotes[<<k, i>>] + 1
                         ELSE l.vecConsensusVotes[<<k, i>>]
  <2> HIDE DEF l
  <2>1. <<m, h>> \in Masternodes \X Heights
    OBVIOUS
  <2>2. \A k \in Masternodes, i \in Heights :
           /\ <<k, i>> \in Masternodes \X Heights
           /\ <<k, i>> = <<m, h>> <=> k = m /\ i = h
    OBVIOUS
  <2> QED BY <1>3, <2>1, <2>2
<1>5. Voted(m, t, h) = [l EXCEPT !.vecConsensusVotes = n]
  BY DEF Voted, Signed
<1>6. /\ Voted(m, t, h) \in Locks
      /\ Voted(m, t, h).nBlockHeight = l.nBlockHeight
      /\ Voted(m, t, h).vecConsensusVotes = n
  <2> HIDE DEF l, n
  <2> QED BY <1>2, <1>4, <1>5 DEF Locks
<1>7. Voted(m, t, h) # None
  BY <1>6, SwiftTxAssumption
<1>8. \A k \in Masternodes, i \in Heights :
         l.vecConsensusVotes[<<k, i>>] = Counted(t, k, i)
  BY <1>1 DEF Counted
<1>9. /\ mapTxLocks[t] = None => l.nBlockHeight = 0
      /\ mapTxLocks[t] # None => l.nBlockHeight = mapTxLocks[t].nBlockHeight
  BY <1>1
<1> HIDE DEF l, n
<1> QED BY <1>4, <1>6, <1>7, <1>8, <1>9 DEF AddsVote

\* A new vote is the first of its masternode in the lock, for it would have
\* been remembered otherwise.
LEMMA TxlVoteInv ==
    ASSUME IndInv, NEW m \in Masternodes, NEW t \in Txs, NEW h \in Heights, NEW valid \in BOOLEAN,
           TxlVote(m, t, h, valid)
    PROVE  IndInv'
<1>1. /\ <<m, t>> \notin mapTxLockVote /\ mapTxLockVote' = mapTxLockVote \cup {<<m, t>>}
      /\ UNCHANGED <<mapTxLockReqRejected, pool>>
  BY DEF TxlVote
<1>2. CASE UNCHANGED <<mapTxLocks, mapTxLockReq, mapLockedInputs>>
  <2>1. Types'
    BY <1>1, <1>2 DEF IndInv, Types
  <2>2. \A u \in Txs : mapTxLocks[u] # None => LockOK(u)'
    BY <1>1, <1>2 DEF IndInv, LockOK, OneVote
  <2> QED BY <1>2, <2>1, <2>2 DEF IndInv
<1>3. CASE ProcessConsensusVote(m, t, h)
  <2> DEFINE locks == [mapTxLocks EXCEPT ![t] = Voted(m, t, h)]
  <2>1. /\ mapTxLocks' \in {locks, Cancelled(locks, t)}
        /\ mapTxLockReq' \in {mapTxLockReq, [mapTxLockReq EXCEPT ![t] = IF @ = None THEN "empty" ELSE @]}
        /\ mapLockedInputs' \in {mapLockedInputs, LockInputs(t)}
    BY <1>3 DEF ProcessConsensusVote, Voted
  <2>2. locks \in [Txs -> Locks \cup {None}]
    BY VotedFacts DEF IndInv, Types
  <2> HIDE DEF locks
  <2>3. /\ mapTxLocks' \in [Txs -> Locks \cup {None}]
        /\ \A u \in Txs : /\ mapTxLocks'[u] = None <=> locks[u] = None
                          /\ locks[u] # None =>
                               /\ mapTxLocks'[u].nBlockHeight = locks[u].nBlockHeight
                               /\ mapTxLocks'[u].vecConsensusVotes = locks[u].vecConsensusVotes
    BY <2>1, <2>2, CancelledFacts
  <2>4. LockInputs(t) \in [Outputs -> Txs \cup {None}]
    BY DEF LockInputs, IndInv, Types
  <2>5. mapTxLockReq' \in [Txs -> {None, "tx", "empty"}]
        /\ \A u \in Txs \ {t} : mapTxLockReq'[u] = mapTxLockReq[u]
    BY <2>1 DEF IndInv, Types
  <2>6. Types'
    BY <1>1, <2>1, <2>3, <2>4, <2>5 DEF IndInv, Types
  <2>7. mapTxLocks'[t] # None
    BY <2>3, VotedFacts DEF locks, IndInv, Types
  <2>8. \A u \in Txs \ {t} : locks[u] = mapTxLocks[u]
    BY DEF locks, IndInv, Types
  <2>9. ASSUME NEW u \in Txs, mapTxLocks'[u] # None PROVE LockOK(u)'
    <3>1. CASE u # t
      <4>1. Same(u) /\ mapTxLocks[u] # None
        BY <2>3, <2>8, <2>9, <3>1 DEF Same
      <4> QED BY <1>1, <2>9, <4>1, KeptLock DEF IndInv
    <3>2. CASE u = t
      <4>1. locks[t] = Voted(m, t, h)
        BY DEF locks, IndInv, Types
      <4>2. mapTxLocks'[t].nBlockHeight \in {0, LockHeight[t]}
        BY <2>3, <2>7, <4>1, VotedFacts DEF IndInv, LockOK
      <4>3. \A k \in Masternodes, i \in Heights :
               mapTxLocks'[t].vecConsensusVotes[<<k, i>>] =
                   IF k = m /\ i = h THEN Counted(t, k, i) + 1 ELSE Counted(t, k, i)
        <5>1. mapTxLocks'[t].vecConsensusVotes = Voted(m, t, h).vecConsensusVotes
          BY <2>3, <2>7, <4>1
        <5>2. AddsVote(m, t, h)
          BY VotedFacts DEF IndInv
        <5> QED BY <5>1, <5>2 DEF AddsVote
      <4>4. mapTxLocks[t] # None => OneVote(t) /\ mapTxLocks[t] \in Locks
        BY DEF IndInv, LockOK, Types
      <4>5. mapTxLocks[t] # None =>
              \A i \in Heights : mapTxLocks[t].vecConsensusVotes[<<m, i>>] = 0
        BY <1>1, <4>4 DEF OneVote
      <4>6. mapTxLocks[t] # None =>
              \A k \in Masternodes, i \in Heights : mapTxLocks[t].vecConsensusVotes[<<k, i>>] \in Nat
        BY <4>4 DEF Locks
      <4>7. OneVote(t)'
        <5> SUFFICES ASSUME NEW k \in Masternodes, NEW i \in Heights,
                            mapTxLocks'[t].vecConsensusVotes[<<k, i>>] # 0
                     PROVE  /\ mapTxLocks'[t].vecConsensusVotes[<<k, i>>] = 1
                            /\ <<k, t>> \in mapTxLockVote'
                            /\ \A j \in Heights :
                                 mapTxLocks'[t].vecConsensusVotes[<<k, j>>] # 0 => j = i
          BY DEF OneVote
        <5>1. CASE k = m
          BY <1>1, <4>3, <4>5, <5>1 DEF Counted
        <5>2. CASE k # m
          <6>1. mapTxLocks[t] # None
            BY <4>3, <5>2 DEF Counted
          <6>2. \A j \in Heights : mapTxLocks'[t].vecConsensusVotes[<<k, j>>]
                                     = mapTxLocks[t].vecConsensusVotes[<<k, j>>]
            BY <4>3, <4>6, <5>2, <6>1 DEF Counted
          <6> QED BY <1>1, <4>4, <6>1, <6>2 DEF OneVote
        <5> QED BY <5>1, <5>2
      <4> QED BY <3>2, <4>2, <4>7 DEF LockOK
    <3> QED BY <3>1, <3>2
  <2>10. \A u \in Txs : mapTxLockReq'[u] = "empty" => mapTxLocks'[u] # None
    BY <2>3, <2>5, <2>7, <2>8 DEF IndInv
  <2> QED BY <2>6, <2>9, <2>10 DEF IndInv
<1> QED BY <1>2, <1>3 DEF TxlVote

\* An action that leaves the votes alone and touches locks as CreateNewLock
\* and the cancellation do.
LEMMA KeptLocks ==
    ASSUME IndInv, Types', mapTxLockVote \subseteq mapTxLockVote',
           \A t \in Txs : mapTxLocks'[t] # None =>
               (mapTxLocks[t] # None /\ Same(t)) \/ Fresh(t),
           \A t \in Txs : mapTxLockReq'[t] = "empty" => mapTxLocks'[t] # None
    PROVE  IndInv'
<1>1. \A t \in Txs : mapTxLocks'[t] # None => LockOK(t)'
  BY KeptLock DEF IndInv
<1> QED BY <1>1 DEF IndInv

\* The locks after CreateNewLock for t are the old ones or fresh.
LEMMA Created ==
    ASSUME IndInv, NEW t \in Txs, NEW old \in BOOLEAN,
           NEW locks, locks = CreateNewLock(t, old),
           mapTxLocks' \in {locks, Cancelled(locks, t)}
    PROVE  /\ mapTxLocks' \in [Txs -> Locks \cup {None}]
           /\ \A u \in Txs : /\ mapTxLocks[u] # None => mapTxLocks'[u] # None
                             /\ mapTxLocks'[u] # None =>
                                  (mapTxLocks[u] # None /\ Same(u)) \/ Fresh(u)
           /\ \A u \in Txs \ {t} : mapTxLocks'[u] # None => mapTxLocks[u] # None
<1>1. /\ locks \in [Txs -> Locks \cup {None}]
      /\ \A u \in Txs \ {t} : locks[u] = mapTxLocks[u]
      /\ mapTxLocks[t] # None =>
            /\ locks[t] # None
            /\ locks[t].nBlockHeight \in {mapTxLocks[t].nBlockHeight, LockHeight[t]}
            /\ locks[t].vecConsensusVotes = mapTxLocks[t].vecConsensusVotes
      /\ mapTxLocks[t] = None => locks[t] \in {None, NewLock(LockHeight[t])}
  BY CreateNewLockFacts DEF IndInv
<1>2. /\ mapTxLocks' \in [Txs -> Locks \cup {None}]
      /\ \A u \in Txs : /\ mapTxLocks'[u] = None <=> locks[u] = None
                        /\ locks[u] # None =>
                             /\ mapTxLocks'[u].nBlockHeight = locks[u].nBlockHeight
                             /\ mapTxLocks'[u].vecConsensusVotes = locks[u].vecConsensusVotes
  BY <1>1, CancelledFacts
<1>3. /\ NewLock(LockHeight[t]).nBlockHeight = LockHeight[t]
      /\ NewLock(LockHeight[t]).vecConsensusVotes = NoVotes
  BY DEF NewLock
<1>4. \A u \in Txs : mapTxLocks'[u] # None => mapTxLocks'[u] \in Locks
  BY <1>2
<1>5. ASSUME NEW u \in Txs, mapTxLocks'[u] # None
      PROVE  (mapTxLocks[u] # None /\ Same(u)) \/ Fresh(u)
  <2>1. CASE u # t
    BY <1>1, <1>2, <1>4, <1>5, <2>1 DEF Same
  <2>2. CASE u = t /\ mapTxLocks[t] # None
    BY <1>1, <1>2, <1>4, <1>5, <2>2 DEF Same
  <2>3. CASE u = t /\ mapTxLocks[t] = None
    BY <1>1, <1>2, <1>3, <1>4, <1>5, <2>3 DEF Fresh
  <2> QED BY <2>1, <2>2, <2>3
<1> QED BY <1>1, <1>2, <1>5

LEMMA NextInv == IndInv /\ [Next]_vars => IndInv'
<1> SUFFICES ASSUME IndInv, [Next]_vars PROVE IndInv'
  OBVIOUS
<1>1. ASSUME NEW t \in Txs, NEW old \in BOOLEAN, IxAccepted(t, old) PROVE IndInv'
  <2>1. /\ mapTxLocks' = CreateNewLock(t, old)
        /\ pool' = pool \cup {t}
        /\ mapTxLockReq' = [mapTxLockReq EXCEPT ![t] = "tx"]
        /\ UNCHANGED <<mapTxLockReqRejected, mapLockedInputs>>
    BY <1>1 DEF IxAccepted
  <2>2. mapTxLockVote' \subseteq Masternodes \X Txs /\ mapTxLockVote \subseteq mapTxLockVote'
    BY <1>1, SwiftTxAssumption DEF IxAccepted, DoConsensusVote, IndInv, Types
  <2>3. Types'
    BY <2>1, <2>2, Created DEF IndInv, Types
  <2>4. \A u \in Txs : mapTxLockReq'[u] = "empty" => mapTxLockReq[u] = "empty"
    BY <2>1 DEF IndInv, Types
  <2> QED BY <2>1, <2>2, <2>3, <2>4, Created, KeptLocks DEF IndInv
<1>2. ASSUME NEW t \in Txs, NEW old \in BOOLEAN, IxRejected(t, old) PROVE IndInv'
  <2>1. /\ mapTxLocks' \in {CreateNewLock(t, old), Cancelled(CreateNewLock(t, old), t)}
        /\ mapTxLockReqRejected' = mapTxLockReqRejected \cup {t}
        /\ mapLockedInputs' = LockInputs(t)
        /\ mapTxLockReq' \in {mapTxLockReq, [mapTxLockReq EXCEPT ![t] = "tx"]}
        /\ UNCHANGED <<mapTxLockVote, pool>>
    BY <1>2 DEF IxRejected
  <2>2. LockInputs(t) \in [Outputs -> Txs \cup {None}]
    BY DEF LockInputs, IndInv, Types
  <2>3. /\ mapTxLockReq' \in [Txs -> {None, "tx", "empty"}]
        /\ \A u \in Txs : mapTxLockReq'[u] = "empty" => mapTxLockReq[u] = "empty"
    BY <2>1 DEF IndInv, Types
  <2>4. Types'
    BY <2>1, <2>2, <2>3, Created DEF IndInv, Types
  <2> QED BY <2>1, <2>3, <2>4, Created, KeptLocks DEF IndInv
<1>3. ASSUME NEW t \in Txs, NEW old \in BOOLEAN, RequestLock(t, old) PROVE IndInv'
  <2>1. /\ mapTxLocks' = CreateNewLock(t, old)
        /\ pool' \in {pool, pool \cup {t}}
        /\ mapTxLockReq' = [mapTxLockReq EXCEPT ![t] = IF @ = None THEN "tx" ELSE @]
        /\ UNCHANGED <<mapTxLockReqRejected, mapTxLockVote, mapLockedInputs>>
    BY <1>3 DEF RequestLock
  <2>2. /\ mapTxLockReq' \in [Txs -> {None, "tx", "empty"}]
        /\ \A u \in Txs : mapTxLockReq'[u] = "empty" => mapTxLockReq[u] = "empty"
    BY <2>1 DEF IndInv, Types
  <2>3. Types'
    BY <2>1, <2>2, Created DEF IndInv, Types
  <2> QED BY <2>1, <2>2, <2>3, Created, KeptLocks DEF IndInv
<1>4. ASSUME NEW t \in Txs, Tx(t) \/ Block(t) PROVE IndInv'
  BY <1>4 DEF Tx, Block, IndInv, Types, LockOK, OneVote
<1>5. CASE UNCHANGED vars
  BY <1>5 DEF vars, IndInv, Types, LockOK, OneVote
<1>6. ASSUME NEW t \in Txs, Expire(t) PROVE IndInv'
  <2>1. /\ mapTxLocks[t] # None /\ mapTxLocks[t] \in Locks
        /\ mapTxLocks' = [mapTxLocks EXCEPT ![t] = [mapTxLocks[t] EXCEPT !.due = TRUE]]
        /\ UNCHANGED <<mapTxLockReq, mapTxLockReqRejected, mapTxLockVote, mapLockedInputs, pool>>
    BY <1>6 DEF Expire, IndInv, Types
  <2>2. /\ [mapTxLocks[t] EXCEPT !.due = TRUE] \in Locks
        /\ [mapTxLocks[t] EXCEPT !.due = TRUE] # None
        /\ [mapTxLocks[t] EXCEPT !.due = TRUE].nBlockHeight = mapTxLocks[t].nBlockHeight
        /\ [mapTxLocks[t] EXCEPT !.due = TRUE].vecConsensusVotes = mapTxLocks[t].vecConsensusVotes
    BY <2>1, SwiftTxAssumption DEF Locks
  <2>3. \A u \in Txs : mapTxLocks'[u] # None => mapTxLocks[u] # None /\ Same(u)
    BY <2>1, <2>2 DEF Same, IndInv, Types
  <2>4. Types'
    BY <2>1, <2>2 DEF IndInv, Types
  <2>5. \A u \in Txs : mapTxLocks[u] # None => mapTxLocks'[u] # None
    BY <2>1, <2>2 DEF IndInv, Types
  <2> QED BY <2>1, <2>3, <2>4, <2>5, KeptLocks DEF IndInv
<1>7. CASE CleanTransactionLocksList
  <2> DEFINE old == {t \in Txs : mapTxLocks[t] # None /\ mapTxLocks[t].due}
             requested == {t \in old : mapTxLockReq[t] # None}
  <2>1. /\ mapLockedInputs' \in [Outputs -> Txs \cup {None}]
        /\ mapTxLockReq' = [t \in Txs |-> IF t \in requested THEN None ELSE mapTxLockReq[t]]
        /\ mapTxLockReqRejected' = mapTxLockReqRejected \ requested
        /\ mapTxLockVote' = {v \in mapTxLockVote : v[2] \in requested =>
              \A h \in Heights : mapTxLocks[v[2]].vecConsensusVotes[<<v[1], h>>] = 0}
        /\ mapTxLocks' = [t \in Txs |-> IF t \in old THEN None ELSE mapTxLocks[t]]
        /\ UNCHANGED pool
    BY <1>7 DEF CleanTransactionLocksList, IndInv, Types
  <2>2. requested \subseteq old
    OBVIOUS
  <2>3. \A t \in old : t \in requested \/ mapTxLockReq[t] = None
    OBVIOUS
  <2> HIDE DEF old, requested
  <2>4. Types'
    BY <2>1 DEF IndInv, Types
  <2>5. ASSUME NEW t \in Txs, mapTxLocks'[t] # None PROVE LockOK(t)'
    <3>1. t \notin old /\ t \notin requested /\ mapTxLocks'[t] = mapTxLocks[t]
      BY <2>1, <2>2, <2>5
    <3>2. \A m \in Masternodes : <<m, t>> \in mapTxLockVote => <<m, t>> \in mapTxLockVote'
      BY <2>1, <3>1
    <3> QED BY <2>5, <3>1, <3>2 DEF IndInv, LockOK, OneVote
  <2>6. \A t \in Txs : mapTxLockReq'[t] = "empty" => mapTxLocks'[t] # None
    BY <2>1, <2>3, SwiftTxAssumption DEF IndInv
  <2> QED BY <2>4, <2>5, <2>6 DEF IndInv
<1> QED BY <1>1, <1>2, <1>3, <1>4, <1>5, <1>6, <1>7, TxlVoteInv DEF Next

LEMMA Invariance == Spec => []IndInv
<1> QED BY InitInv, NextInv, PTL DEF Spec

-----------------------------------------------------------------------------
(* Theorems *)

\* No masternode counts twice for a lock, whatever is repeated, reordered,
\* expired and forgotten (swifttx.cpp 133-145, 431-459).
THEOREM NoDoubleVotes == Spec => []VotersDistinct
<1>1. IndInv => VotersDistinct
  <2> SUFFICES ASSUME IndInv PROVE VotersDistinct
    OBVIOUS
  <2>1. \A t \in Txs : mapTxLocks[t] # None => mapTxLocks[t] \in Locks
    BY DEF IndInv, Types
  <2>2. TypeOK
    <3>1. \A t \in Txs : mapTxLocks[t] # None =>
             /\ mapTxLocks[t].nBlockHeight \in {0, LockHeight[t]}
             /\ mapTxLocks[t].due \in BOOLEAN
             /\ mapTxLocks[t].vecConsensusVotes \in [Masternodes \X Heights -> Nat]
      BY <2>1 DEF IndInv, LockOK, Locks
    <3> QED BY <3>1 DEF TypeOK, IndInv, Types
  <2>3. ASSUME NEW t \in Txs, mapTxLocks[t] # None, NEW m \in Masternodes
        PROVE  LET votes == mapTxLocks[t].vecConsensusVotes
                   heights == {h \in Heights : votes[<<m, h>>] > 0}
               IN  /\ Cardinality(heights) <= 1
                   /\ \A h \in heights : votes[<<m, h>>] = 1
                   /\ heights # {} => <<m, t>> \in mapTxLockVote
    <3> DEFINE votes == mapTxLocks[t].vecConsensusVotes
               heights == {h \in Heights : votes[<<m, h>>] > 0}
    <3>1. OneVote(t)
      BY <2>3 DEF IndInv, LockOK
    <3>2. \A h \in heights : votes[<<m, h>>] # 0
      BY <2>1, <2>3 DEF Locks
    <3>3. \A h, k \in heights : h = k
      BY <3>1, <3>2 DEF OneVote
    <3>4. Cardinality(heights) <= 1
      <4> HIDE DEF heights
      <4>1. CASE heights = {}
        BY <4>1, FS_EmptySet
      <4>2. CASE heights # {}
        <5>1. PICK h \in heights : heights = {h}
          BY <3>3, <4>2
        <5>2. Cardinality({h}) = 1
          BY FS_Singleton
        <5> QED BY <5>1, <5>2
      <4> QED BY <4>1, <4>2
    <3> QED BY <3>1, <3>2, <3>4 DEF OneVote
  <2> QED BY <2>2, <2>3 DEF VotersDistinct
<1> QED BY <1>1, Invariance, PTL

\* The first conflicting input (swifttx.cpp 402-411) exists, and another
\* transaction holds it.
LEMMA FirstConflictFacts ==
    ASSUME Types, NEW t \in Txs, Conflicts(t) # {}
    PROVE  \E o \in Elements(Vin[t]) :
              mapLockedInputs[o] \in Txs \ {t} /\ FirstConflict(t) = mapLockedInputs[o]
<1>1. Vin[t] \in Seq(Outputs)
  BY SwiftTxAssumption
<1>2. Conflicts(t) \in SUBSET Nat
  BY <1>1 DEF Conflicts
<1>3. \E i \in Conflicts(t) : \A j \in Conflicts(t) : i <= j
  BY <1>2, Least
<1> DEFINE first == CHOOSE i \in Conflicts(t) : \A j \in Conflicts(t) : i <= j
<1>4. first \in Conflicts(t)
  BY <1>3
<1> HIDE DEF first
<1>5. /\ first \in DOMAIN Vin[t] /\ Vin[t][first] \in Outputs
      /\ mapLockedInputs[Vin[t][first]] \notin {None, t}
  BY <1>1, <1>4 DEF Conflicts
<1>6. mapLockedInputs[Vin[t][first]] \in Txs
  BY <1>5 DEF Types
<1>7. FirstConflict(t) = mapLockedInputs[Vin[t][first]]
  BY DEF FirstConflict, first
<1> QED BY <1>5, <1>6, <1>7 DEF Elements

\* Without a conflict every input is the transaction's own afterwards
\* (swifttx.cpp 369-375).
LEMMA LockInputsFacts ==
    ASSUME Types, NEW t \in Txs, Conflicts(t) = {}
    PROVE  \A o \in Elements(Vin[t]) : LockInputs(t)[o] = t
<1> SUFFICES ASSUME NEW i \in DOMAIN Vin[t]
             PROVE  LockInputs(t)[Vin[t][i]] = t
  BY DEF Elements
<1>1. Vin[t][i] \in Outputs /\ Vin[t][i] \in Elements(Vin[t])
  BY SwiftTxAssumption DEF Elements
<1>2. mapLockedInputs[Vin[t][i]] \in {None, t}
  BY DEF Conflicts
<1> QED BY <1>1, <1>2 DEF LockInputs

\* Completeness depends on the height and the votes only, and no fresh lock
\* is complete.
LEMMA CompleteFacts ==
    /\ \A a, b : a.nBlockHeight = b.nBlockHeight /\ a.vecConsensusVotes = b.vecConsensusVotes
                   => (Complete(a) <=> Complete(b))
    /\ \A h \in Heights : ~Complete(NewLock(h))
<1>1. \A a, b : a.nBlockHeight = b.nBlockHeight /\ a.vecConsensusVotes = b.vecConsensusVotes
                  => (Complete(a) <=> Complete(b))
  BY DEF Complete, CountSignatures
<1>2. ASSUME NEW h \in Heights PROVE ~Complete(NewLock(h))
  <2>1. /\ NewLock(h).nBlockHeight = h /\ NewLock(h).vecConsensusVotes = NoVotes
    BY DEF NewLock
  <2>2. CountSignatures(NewLock(h)) \in {-1, 0}
    BY <2>1, NoVotesYet DEF CountSignatures
  <2> QED BY <2>2, SwiftTxAssumption DEF Complete
<1> QED BY <1>1, <1>2

\* What CompletionLocksInputs says of one transaction.
Completed(t) ==
    /\ mapTxLocks'[t] # None /\ mapTxLockReq[t] = "tx"
    /\ Complete(mapTxLocks'[t])
    /\ mapTxLocks[t] = None \/ mapTxLocks[t].vecConsensusVotes # mapTxLocks'[t].vecConsensusVotes

Settled(t) ==
    \/ \A o \in Elements(Vin[t]) : Holds(t, o)'
    \/ /\ mapTxLocks'[t].due
       /\ \E o \in Elements(Vin[t]) :
             /\ mapLockedInputs[o] \in Txs \ {t}
             /\ LET other == mapTxLocks'[mapLockedInputs[o]]
                IN  other = None \/ other.due

LEMMA VoteSettles ==
    ASSUME IndInv, NEW m \in Masternodes, NEW t \in Txs, NEW h \in Heights,
           ProcessConsensusVote(m, t, h), NEW u \in Txs, Completed(u)
    PROVE  Settled(u)
<1> DEFINE locks == [mapTxLocks EXCEPT ![t] = Voted(m, t, h)]
           known == mapTxLockReq[t] = "tx"
           conflict == known /\ Conflicts(t) # {}
<1>1. IF ~Complete(Voted(m, t, h)) THEN mapTxLocks' = locks
      ELSE /\ mapTxLocks' = IF conflict THEN Cancelled(locks, t) ELSE locks
           /\ mapLockedInputs' = IF known /\ ~conflict THEN LockInputs(t) ELSE mapLockedInputs
  BY DEF ProcessConsensusVote, Voted
<1>2. /\ locks \in [Txs -> Locks \cup {None}] /\ locks[t] = Voted(m, t, h)
      /\ \A v \in Txs \ {t} : locks[v] = mapTxLocks[v]
  BY VotedFacts DEF IndInv, Types
<1> HIDE DEF locks
<1>3. \A v \in Txs : /\ mapTxLocks'[v] = None <=> locks[v] = None
                     /\ locks[v] # None =>
                          /\ mapTxLocks'[v].nBlockHeight = locks[v].nBlockHeight
                          /\ mapTxLocks'[v].vecConsensusVotes = locks[v].vecConsensusVotes
  BY <1>1, <1>2, CancelledFacts
<1>4. u = t
  BY <1>2, <1>3 DEF Completed
<1>5. known /\ Complete(Voted(m, t, h))
  <2>1. locks[t] # None
    BY <1>3, <1>4 DEF Completed
  <2> QED BY <1>2, <1>3, <1>4, <2>1, CompleteFacts DEF Completed
<1>6. CASE ~conflict
  <2>1. mapLockedInputs' = LockInputs(t) /\ Conflicts(t) = {}
    BY <1>1, <1>5, <1>6
  <2> QED BY <1>4, <2>1, LockInputsFacts DEF IndInv, Settled, Holds
<1>7. CASE conflict
  <2>1. mapTxLocks' = Cancelled(locks, t)
    BY <1>1, <1>5, <1>7
  <2>2. PICK o \in Elements(Vin[t]) :
           mapLockedInputs[o] \in Txs \ {t} /\ FirstConflict(t) = mapLockedInputs[o]
    BY <1>7, FirstConflictFacts DEF IndInv
  <2>3. mapTxLocks'[t].due
    BY <1>2, <1>3, <1>4, <2>1, CancelledFacts DEF Completed
  <2>4. LET other == mapTxLocks'[mapLockedInputs[o]] IN other = None \/ other.due
    BY <1>2, <2>1, <2>2, CancelledFacts
  <2> QED BY <1>4, <2>2, <2>3, <2>4 DEF Settled
<1> QED BY <1>6, <1>7

LEMMA StepSettles ==
    ASSUME IndInv, [Next]_vars, NEW u \in Txs, Completed(u)
    PROVE  Settled(u)
<1>1. ASSUME NEW t \in Txs, NEW old \in BOOLEAN, NEW locks, locks = CreateNewLock(t, old),
             mapTxLocks' \in {locks, Cancelled(locks, t)},
             \/ mapTxLockReq[t] = None
             \/ mapTxLocks' = locks
      PROVE  FALSE
  <2>1. /\ \A v \in Txs : /\ mapTxLocks[v] # None => mapTxLocks'[v] # None
                          /\ mapTxLocks'[v] # None =>
                               (mapTxLocks[v] # None /\ Same(v)) \/ Fresh(v)
        /\ \A v \in Txs \ {t} : mapTxLocks'[v] # None => mapTxLocks[v] # None
    BY <1>1, Created
  <2>2. mapTxLocks[u] = None /\ u = t /\ mapTxLocks' = locks
    <3>1. u = t => mapTxLocks' = locks
      BY <1>1, SwiftTxAssumption DEF Completed
    <3>2. /\ locks \in [Txs -> Locks \cup {None}]
          /\ \A v \in Txs \ {t} : locks[v] = mapTxLocks[v]
          /\ mapTxLocks[t] # None => locks[t] # None
                 /\ locks[t].vecConsensusVotes = mapTxLocks[t].vecConsensusVotes
      BY <1>1, CreateNewLockFacts DEF IndInv
    <3>3. u # t => mapTxLocks[u] # None
                     /\ mapTxLocks'[u].vecConsensusVotes = mapTxLocks[u].vecConsensusVotes
      BY <1>1, <2>1, <3>2, CancelledFacts DEF Completed
    <3> QED BY <3>1, <3>2, <3>3 DEF Completed
  <2>3. locks[t] = NewLock(LockHeight[t])
    BY <1>1, <2>2, CreateNewLockFacts DEF IndInv, Completed
  <2> QED BY <2>2, <2>3, CompleteFacts, LockHeights DEF Completed
<1>2. ASSUME NEW t \in Txs, NEW old \in BOOLEAN,
             IxAccepted(t, old) \/ IxRejected(t, old) \/ RequestLock(t, old)
      PROVE  FALSE
  <2>1. /\ mapTxLocks' \in {CreateNewLock(t, old), Cancelled(CreateNewLock(t, old), t)}
        /\ mapTxLockReq[t] = None \/ mapTxLocks' = CreateNewLock(t, old)
    BY <1>2 DEF IxAccepted, IxRejected, RequestLock
  <2> QED BY <1>1, <2>1
<1>3. ASSUME mapTxLocks' = mapTxLocks PROVE FALSE
  BY <1>3 DEF Completed
<1>4. ASSUME NEW t \in Txs, Expire(t) PROVE FALSE
  <2>1. /\ mapTxLocks[t] # None /\ mapTxLocks[t] \in Locks
        /\ mapTxLocks' = [mapTxLocks EXCEPT ![t] = [mapTxLocks[t] EXCEPT !.due = TRUE]]
    BY <1>4 DEF Expire, IndInv, Types
  <2>2. [mapTxLocks[t] EXCEPT !.due = TRUE].vecConsensusVotes = mapTxLocks[t].vecConsensusVotes
    BY <2>1 DEF Locks
  <2> QED BY <2>1, <2>2 DEF Completed, IndInv, Types
<1>5. ASSUME CleanTransactionLocksList PROVE FALSE
  BY <1>5 DEF CleanTransactionLocksList, Completed
<1>6. ASSUME NEW t \in Txs, NEW m \in Masternodes, NEW h \in Heights, NEW valid \in BOOLEAN,
             TxlVote(m, t, h, valid)
      PROVE  Settled(u)
  BY <1>3, <1>6, VoteSettles DEF TxlVote
<1>7. ASSUME NEW t \in Txs, Tx(t) \/ Block(t) PROVE FALSE
  BY <1>3, <1>7 DEF Tx, Block
<1>8. CASE UNCHANGED vars
  BY <1>3, <1>8 DEF vars
<1> QED BY <1>2, <1>4, <1>5, <1>6, <1>7, <1>8 DEF Next

\* A vote that completes the lock of a known request leaves the transaction
\* with all its inputs, or the conflicting locks about to go
\* (swifttx.cpp 302-414).
THEOREM CompletionSettles == Spec => CompletionLocksInputs
<1> DEFINE A == \A t \in Txs : Completed(t) => Settled(t)
<1>1. IndInv /\ [Next]_vars => [A]_vars
  BY StepSettles
<1>2. Spec => [][A]_vars
  BY <1>1, Invariance, PTL DEF Spec
<1> QED BY <1>2 DEF CompletionLocksInputs, Completed, Settled
=============================================================================
