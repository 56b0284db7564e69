------------------------- MODULE Masternodes_proofs -------------------------
(***************************************************************************)
(* Proofs about the votes on payments (MasternodePayments), for any number *)
(* of masternodes, payees, heights, restarts and reorganisations, and      *)
(* about the synchronisation that fetches them (MasternodeSync), for any   *)
(* peers, items, spork messages and threshold.                             *)
(***************************************************************************)
EXTENDS MasternodePayments, MasternodeSync, FiniteSetTheorems, TLAPS

-----------------------------------------------------------------------------
(* Payments.  Two things make up the inductive invariant: in memory and in *)
(* the file the tally of a payee is the number of votes kept for it, and a *)
(* masternode that has not been restarted has voted at most once for a     *)
(* height, because the height it remembers is at least that of every vote  *)
(* it cast.                                                                *)

Tally == [Payees -> Nat] \cup {None}
SavedMaps == [votes : SUBSET Vote, blocks : [Heights -> Tally]]

\* The votes of maps for payee p at height h, and what the tally says.
For(votes, h, p) == {v \in votes : v.nBlockHeight = h /\ v.payee = p}
Count(blocks, h, p) == IF blocks[h] = None THEN 0 ELSE blocks[h][p]

Types ==
    /\ tip \in 0..MaxTip /\ nLastBlockHeight \in [Masternodes -> 0..MaxTip]
    /\ cast \in SUBSET Vote /\ IsFiniteSet(cast) /\ again \in SUBSET Masternodes
    /\ Maps \in SavedMaps /\ mapMasternodePayeeVotes \subseteq cast
    /\ file \in [state : {"missing", "torn", "saved"}, maps : SavedMaps]
    /\ file.maps.votes \subseteq cast
    /\ file.state # "saved" => file.maps = Empty
    /\ restarts \in 0..MaxRestarts /\ reorgs \in 0..MaxReorgs

\* The two maps describe the same votes.
Agree(maps) ==
    \A h \in Heights, p \in Payees :
        Count(maps.blocks, h, p) = Cardinality(For(maps.votes, h, p))

\* A masternode remembers the height of its last vote until it restarts.
Remembered ==
    \A v \in cast : v.vin \notin again => v.nBlockHeight <= nLastBlockHeight[v.vin]

VotesOnce ==
    \A v, w \in cast :
        /\ v.vin = w.vin /\ v.vin \notin again /\ v.nBlockHeight = w.nBlockHeight
        => v = w

IndInv == Types /\ Agree(Maps) /\ Agree(file.maps) /\ Remembered /\ VotesOnce

-----------------------------------------------------------------------------
(* Lemmas *)

\* Clean-up keeps the maps in agreement: it drops all votes of a height and
\* its tally, or neither.
LEMMA CleanedAgrees ==
    ASSUME Types, NEW maps \in SavedMaps, Agree(maps)
    PROVE  /\ Cleaned(maps) \in SavedMaps
           /\ Cleaned(maps).votes \subseteq maps.votes
           /\ Agree(Cleaned(maps))
<1> DEFINE new == Cleaned(maps)
<1>1. /\ new.votes = {v \in maps.votes : ~Old(v.nBlockHeight)}
      /\ new.blocks = [h \in Heights |-> IF \E v \in maps.votes : v.nBlockHeight = h /\ Old(h)
                                         THEN None ELSE maps.blocks[h]]
      /\ new = [votes |-> new.votes, blocks |-> new.blocks]
  BY DEF Cleaned
<1>2. new \in SavedMaps
  BY <1>1 DEF SavedMaps, Tally
<1>3. ASSUME NEW h \in Heights, NEW p \in Payees
      PROVE  Count(new.blocks, h, p) = Cardinality(For(new.votes, h, p))
  <2>1. Count(maps.blocks, h, p) = Cardinality(For(maps.votes, h, p))
    BY DEF Agree
  <2>2. CASE Old(h)
    <3>1. For(new.votes, h, p) = {}
      BY <2>2, <1>1 DEF For
    <3>2. CASE \E v \in maps.votes : v.nBlockHeight = h
      BY <3>1, <3>2, <2>2, <1>1, FS_EmptySet DEF Count
    <3>3. CASE ~\E v \in maps.votes : v.nBlockHeight = h
      <4>1. For(maps.votes, h, p) = {} /\ new.blocks[h] = maps.blocks[h]
        BY <3>3, <1>1 DEF For
      <4> QED BY <4>1, <3>1, <2>1, FS_EmptySet DEF Count
    <3> QED BY <3>2, <3>3
  <2>3. CASE ~Old(h)
    <3>1. For(new.votes, h, p) = For(maps.votes, h, p) /\ new.blocks[h] = maps.blocks[h]
      BY <2>3, <1>1 DEF For
    <3> QED BY <3>1, <2>1 DEF Count
  <2> QED BY <2>2, <2>3
<1> QED BY <1>1, <1>2, <1>3 DEF Agree

\* An empty file agrees with itself.
LEMMA EmptyAgrees == Empty \in SavedMaps /\ Agree(Empty) /\ Empty.votes = {}
<1>1. Empty.votes = {} /\ Empty.blocks = [h \in Heights |-> None]
  BY DEF Empty
<1>2. Empty \in SavedMaps
  BY DEF Empty, SavedMaps, Tally
<1>3. \A h \in Heights, p \in Payees : For(Empty.votes, h, p) = {} /\ Count(Empty.blocks, h, p) = 0
  BY <1>1 DEF For, Count
<1> QED BY <1>1, <1>2, <1>3, FS_EmptySet DEF Agree

\* Counting a vote that was not counted before.
LEMMA AddAgrees ==
    ASSUME Types, Agree(Maps), NEW vote \in cast, NEW n, AddWinningMasternode(vote, n)
    PROVE  (Maps \in SavedMaps)' /\ Agree(Maps')
<1> DEFINE H == vote.nBlockHeight
           P == vote.payee
<1>1. H \in Heights /\ P \in Payees /\ vote \in Vote
  BY DEF Types, Vote
<1>2. /\ mapMasternodePayeeVotes' = mapMasternodePayeeVotes \cup {vote}
      /\ vote \notin mapMasternodePayeeVotes
      /\ mapMasternodeBlocks' =
            [mapMasternodeBlocks EXCEPT ![H] = AddPayee(mapMasternodeBlocks[H], P)]
  BY DEF AddWinningMasternode
<1>3. mapMasternodePayeeVotes \in SUBSET Vote /\ mapMasternodeBlocks \in [Heights -> Tally]
  BY DEF Types, SavedMaps, Maps
<1>4. AddPayee(mapMasternodeBlocks[H], P) \in [Payees -> Nat]
  BY <1>1, <1>3 DEF AddPayee, Tally
<1>5. (Maps \in SavedMaps)'
  BY <1>1, <1>2, <1>3, <1>4 DEF Maps, SavedMaps, Tally
<1>6. ASSUME NEW h \in Heights, NEW p \in Payees
      PROVE  Count(mapMasternodeBlocks', h, p)
                = Cardinality(For(mapMasternodePayeeVotes', h, p))
  <2> DEFINE old == For(mapMasternodePayeeVotes, h, p)
  <2>1. IsFiniteSet(old) /\ Cardinality(old) \in Nat
    BY FS_Subset, FS_CardinalityType DEF For, Types
  <2>2. Count(mapMasternodeBlocks, h, p) = Cardinality(old)
    BY DEF Agree, Maps
  <2>3. CASE h = H /\ p = P
    <3>1. For(mapMasternodePayeeVotes', h, p) = old \cup {vote} /\ vote \notin old
      BY <2>3, <1>2 DEF For
    <3>2. Cardinality(For(mapMasternodePayeeVotes', h, p)) = Cardinality(old) + 1
      BY <3>1, <2>1, FS_AddElement
    <3>3. mapMasternodeBlocks'[h] = AddPayee(mapMasternodeBlocks[H], P)
      BY <2>3, <1>1, <1>2, <1>3
    <3>4. mapMasternodeBlocks'[h] # None
      BY <3>3, <1>4, MasternodePaymentsAssumption
    <3> QED BY <3>2, <3>3, <3>4, <2>1, <2>2, <2>3, <1>1 DEF Count, AddPayee
  <2>4. CASE ~(h = H /\ p = P)
    <3>1. For(mapMasternodePayeeVotes', h, p) = old
      BY <2>4, <1>2 DEF For
    <3>2. CASE h # H
      <4>1. mapMasternodeBlocks'[h] = mapMasternodeBlocks[h]
        BY <3>2, <1>1, <1>2, <1>3
      <4> QED BY <4>1, <3>1, <2>2 DEF Count
    <3>3. CASE h = H /\ p # P
      <4>1. mapMasternodeBlocks'[h] = AddPayee(mapMasternodeBlocks[H], P)
        BY <3>3, <1>1, <1>2, <1>3
      <4>2. mapMasternodeBlocks'[h] # None
        BY <4>1, <1>4, MasternodePaymentsAssumption
      <4> QED BY <4>1, <4>2, <3>1, <3>3, <2>1, <2>2, <1>1 DEF Count, AddPayee
    <3> QED BY <2>4, <3>2, <3>3
  <2> QED BY <2>3, <2>4
<1> QED BY <1>5, <1>6 DEF Agree, Maps

-----------------------------------------------------------------------------
(* The inductive invariant *)

LEMMA InitInv == Init => IndInv
<1> SUFFICES ASSUME Init PROVE IndInv
  OBVIOUS
<1>1. Maps = Empty /\ file.maps = Empty /\ file = [state |-> "missing", maps |-> Empty]
  BY DEF Init, Maps, Empty
<1>2. Types
  BY <1>1, EmptyAgrees, FS_EmptySet, MasternodePaymentsAssumption DEF Init, Types
<1>3. Remembered /\ VotesOnce
  BY DEF Init, Remembered, VotesOnce
<1> QED BY <1>1, <1>2, <1>3, EmptyAgrees DEF IndInv

\* A vote is for a height above every earlier vote the masternode remembers.
LEMMA ProcessBlockInv ==
    ASSUME IndInv, NEW m \in Masternodes, NEW n \in Ranks, NEW p \in Payees, ProcessBlock(m, n, p)
    PROVE  IndInv'
<1> DEFINE vote == [vin |-> m, nBlockHeight |-> tip + Ahead, payee |-> p]
<1>1. /\ tip + Ahead \in Heights /\ tip + Ahead > nLastBlockHeight[m]
      /\ cast' = cast \cup {vote}
      /\ nLastBlockHeight' = [nLastBlockHeight EXCEPT ![m] = tip + Ahead]
      /\ Maps' = Maps
      /\ UNCHANGED <<tip, again, tally, file, restarts, reorgs>>
  BY DEF ProcessBlock, MayVote, tally, Maps
<1>2. vote \in Vote /\ vote.vin = m /\ vote.nBlockHeight = tip + Ahead
  BY <1>1 DEF Vote
<1>3. IsFiniteSet(cast')
  BY <1>1, FS_AddElement DEF IndInv, Types
<1>4. tip \in Nat /\ Ahead \in Nat /\ MaxTip \in Nat /\ tip + Ahead \in 0..MaxTip
  BY <1>1, MasternodePaymentsAssumption DEF IndInv, Types, Heights
<1>5. Types'
  BY <1>1, <1>2, <1>3, <1>4 DEF IndInv, Types, tally, SavedMaps
<1>6. \A w \in cast : w.vin \in Masternodes /\ w.nBlockHeight \in Nat /\ nLastBlockHeight[w.vin] \in Nat
  BY MasternodePaymentsAssumption DEF IndInv, Types, Vote, Heights
<1>7. Remembered'
  <2> SUFFICES ASSUME NEW w \in cast', w.vin \notin again
               PROVE  w.nBlockHeight <= nLastBlockHeight'[w.vin]
    BY <1>1 DEF Remembered
  <2>1. CASE w = vote
    BY <2>1, <1>1, <1>2, <1>4 DEF IndInv, Types
  <2>2. CASE w \in cast
    <3>1. w.nBlockHeight <= nLastBlockHeight[w.vin]
      BY <2>2 DEF IndInv, Remembered
    <3> QED BY <3>1, <2>2, <1>1, <1>4, <1>6 DEF IndInv, Types
  <2> QED BY <2>1, <2>2, <1>1
<1>8. VotesOnce'
  <2>1. \A w \in cast : w.vin = m /\ m \notin again => w.nBlockHeight # tip + Ahead
    BY <1>1, <1>4, <1>6 DEF IndInv, Remembered
  <2> QED BY <2>1, <1>1, <1>2 DEF IndInv, VotesOnce
<1> QED BY <1>1, <1>5, <1>7, <1>8 DEF IndInv

\* What is not known to the node, the votes and the voters, is left alone by it.
LEMMA VotersUnchanged ==
    ASSUME IndInv, UNCHANGED <<nLastBlockHeight, cast, again>>
    PROVE  (Remembered /\ VotesOnce)'
BY DEF IndInv, Remembered, VotesOnce

LEMMA RestartNodeInv ==
    ASSUME IndInv, RestartNode
    PROVE  IndInv'
<1>1. /\ restarts < MaxRestarts /\ restarts' = restarts + 1
      /\ file' \in {Dumped, Torn, file}
      /\ Maps' = Loaded(file')
      /\ UNCHANGED <<tip, nLastBlockHeight, cast, again, reorgs>>
  BY DEF RestartNode, Maps, Loaded, Cleaned
<1>2. /\ file' \in [state : {"missing", "torn", "saved"}, maps : SavedMaps]
      /\ file'.maps.votes \subseteq cast
      /\ file'.state # "saved" => file'.maps = Empty
      /\ Agree(file'.maps)
  <2>1. CASE file' = file
    BY <2>1 DEF IndInv, Types
  <2>2. CASE file' = Torn
    BY <2>2, EmptyAgrees DEF Torn
  <2>3. CASE file' = Dumped
    <3>1. CASE file.state = "torn"
      BY <2>3, <3>1 DEF Dumped, IndInv, Types
    <3>2. CASE file.state # "torn"
      <4>1. file' = [state |-> "saved", maps |-> Maps]
        BY <2>3, <3>2 DEF Dumped
      <4>2. Maps \in SavedMaps /\ Maps.votes \subseteq cast /\ Agree(Maps)
        BY DEF IndInv, Types, Maps
      <4> QED BY <4>1, <4>2
    <3> QED BY <3>1, <3>2
  <2> QED BY <1>1, <2>1, <2>2, <2>3
<1>3. /\ Maps' \in SavedMaps /\ Agree(Maps')
      /\ Maps'.votes \subseteq file'.maps.votes
  BY <1>1, <1>2, CleanedAgrees DEF IndInv, Loaded
<1>4. mapMasternodePayeeVotes' \subseteq cast
  BY <1>2, <1>3 DEF Maps
<1>5. Types'
  BY <1>1, <1>2, <1>3, <1>4, MasternodePaymentsAssumption DEF IndInv, Types
<1> QED BY <1>1, <1>2, <1>3, <1>5, VotersUnchanged DEF IndInv

LEMMA NextInv == IndInv /\ [Next]_vars => IndInv'
<1> SUFFICES ASSUME IndInv, [Next]_vars PROVE IndInv'
  OBVIOUS
<1> USE MasternodePaymentsAssumption
<1>1. CASE UNCHANGED vars
  BY <1>1 DEF vars, tally, IndInv, Types, Remembered, VotesOnce, Maps
<1>2. ASSUME NEW m \in Masternodes, RestartMasternode(m)
      PROVE  IndInv'
  <2>1. /\ restarts < MaxRestarts /\ restarts' = restarts + 1
        /\ nLastBlockHeight' = [nLastBlockHeight EXCEPT ![m] = 0]
        /\ again' = again \cup {m}
        /\ Maps' = Maps /\ UNCHANGED <<tip, cast, tally, file, reorgs>>
    BY <1>2 DEF RestartMasternode, tally, Maps
  <2>2. Types'
    BY <2>1 DEF IndInv, Types, tally
  <2>3. Remembered' /\ VotesOnce'
    BY <2>1 DEF IndInv, Types, Remembered, VotesOnce, Vote
  <2> QED BY <2>1, <2>2, <2>3 DEF IndInv
<1>3. ASSUME NEW v \in cast, NEW n \in Ranks, AddWinningMasternode(v, n)
      PROVE  IndInv'
  <2>1. UNCHANGED <<tip, nLastBlockHeight, cast, again, file, restarts, reorgs>>
    BY <1>3 DEF AddWinningMasternode
  <2>2. (Maps \in SavedMaps)' /\ Agree(Maps')
    BY <1>3, AddAgrees DEF IndInv
  <2>3. mapMasternodePayeeVotes' \subseteq cast
    BY <1>3 DEF AddWinningMasternode, IndInv, Types
  <2>4. Types'
    BY <2>1, <2>2, <2>3 DEF IndInv, Types
  <2> QED BY <2>1, <2>2, <2>4, VotersUnchanged DEF IndInv
<1>4. ASSUME NEW p, NewBlock(p)
      PROVE  IndInv'
  <2>1. /\ tip < MaxTip /\ tip' = tip + 1 /\ Maps' = Maps
        /\ UNCHANGED <<nLastBlockHeight, cast, again, tally, file, restarts, reorgs>>
    BY <1>4 DEF NewBlock, tally, Maps
  <2>2. Types'
    BY <2>1 DEF IndInv, Types, tally
  <2> QED BY <2>1, <2>2, VotersUnchanged DEF IndInv
<1>5. CASE Reorg
  <2>1. /\ tip > 0 /\ tip' = tip - 1 /\ reorgs < MaxReorgs /\ reorgs' = reorgs + 1
        /\ Maps' = Maps
        /\ UNCHANGED <<nLastBlockHeight, cast, again, tally, file, restarts>>
    BY <1>5 DEF Reorg, tally, Maps
  <2>2. Types'
    BY <2>1 DEF IndInv, Types, tally
  <2> QED BY <2>1, <2>2, VotersUnchanged DEF IndInv
<1>6. CASE CleanPaymentList
  <2>1. /\ Maps' = Cleaned(Maps)
        /\ UNCHANGED <<tip, nLastBlockHeight, cast, again, file, restarts, reorgs>>
    BY <1>6 DEF CleanPaymentList, Maps, Cleaned
  <2>2. Maps' \in SavedMaps /\ Agree(Maps') /\ Maps'.votes \subseteq Maps.votes
    BY <2>1, CleanedAgrees DEF IndInv, Types
  <2>3. Types'
    BY <2>1, <2>2 DEF IndInv, Types, Maps
  <2> QED BY <2>1, <2>2, <2>3, VotersUnchanged DEF IndInv
<1> QED
  BY <1>1, <1>2, <1>3, <1>4, <1>5, <1>6, ProcessBlockInv, RestartNodeInv DEF Next

LEMMA Invariance == Spec => []IndInv
<1> QED BY InitInv, NextInv, PTL DEF Spec

-----------------------------------------------------------------------------
(* Theorems *)

\* Repeated votes, clean-up (masternode-payments.cpp 538-565), reorganisations,
\* restarts and torn files never make the tally of a payee differ from the
\* votes kept for it (407-432).
THEOREM TallyCorrect == Spec => []TallyMatchesVotes
<1>1. IndInv => TallyMatchesVotes
  <2> SUFFICES ASSUME IndInv PROVE TallyMatchesVotes
    OBVIOUS
  <2>1. TypeOK
    BY DEF IndInv, Types, TypeOK, SavedMaps, Maps, Tally
  <2>2. \A h \in Heights, p \in Payees :
          Votes(h, p) = Cardinality(For(mapMasternodePayeeVotes, h, p))
    BY DEF IndInv, Agree, Maps, Count, Votes
  <2> QED BY <2>1, <2>2 DEF TallyMatchesVotes, For
<1> QED BY <1>1, Invariance, PTL

\* The voters of two payees of a height are different masternodes if each of
\* them has voted once.
LEMMA Majority ==
    ASSUME IndInv, NEW h \in Heights, Voters(h) \cap again = {},
           Cardinality(Voters(h)) < 2 * MNPAYMENTS_SIGNATURES_REQUIRED,
           NEW p \in Winners(h), NEW q \in Winners(h)
    PROVE  p = q
<1> SUFFICES ASSUME p # q PROVE FALSE
  OBVIOUS
<1> DEFINE A == For(mapMasternodePayeeVotes, h, p)
           B == For(mapMasternodePayeeVotes, h, q)
           voter == [v \in A \cup B |-> v.vin]
<1>1. /\ Cardinality(A) >= MNPAYMENTS_SIGNATURES_REQUIRED
      /\ Cardinality(B) >= MNPAYMENTS_SIGNATURES_REQUIRED
  BY DEF Winners, Votes, IndInv, Agree, Maps, Count
<1>2. A \subseteq cast /\ B \subseteq cast /\ A \cap B = {}
  BY DEF For, IndInv, Types
<1>3. IsFiniteSet(A) /\ IsFiniteSet(B)
  BY <1>2, FS_Subset DEF IndInv, Types
<1>4. Cardinality(A \cup B) = Cardinality(A) + Cardinality(B)
  <2>1. Cardinality(A) \in Nat /\ Cardinality(B) \in Nat /\ Cardinality({}) = 0
    BY <1>3, FS_CardinalityType, FS_EmptySet
  <2>2. Cardinality(A \cup B) = Cardinality(A) + Cardinality(B) - Cardinality(A \cap B)
    BY <1>3, FS_Union
  <2>3. Cardinality(A \cap B) = 0
    BY <1>2, <2>1
  <2> HIDE DEF A, B
  <2> QED BY <2>1, <2>2, <2>3
<1>5. voter \in Injection(A \cup B, Voters(h))
  <2>1. voter \in [A \cup B -> Voters(h)]
    BY DEF Voters, For
  <2>2. \A v, w \in A \cup B : voter[v] = voter[w] => v = w
    <3> SUFFICES ASSUME NEW v \in A \cup B, NEW w \in A \cup B, v.vin = w.vin PROVE v = w
      OBVIOUS
    <3>1. v.vin \notin again
      BY DEF Voters, For
    <3> QED BY <3>1, <1>2 DEF IndInv, VotesOnce, For
  <2> HIDE DEF voter, A, B
  <2> QED BY <2>1, <2>2, Zenon DEF Injection, IsInjective
<1>6. IsFiniteSet(Voters(h))
  <2>1. Voters(h) \subseteq Masternodes
    BY DEF Voters, IndInv, Types, Vote
  <2> QED BY <2>1, FS_Subset, MasternodePaymentsAssumption
<1>7. Cardinality(A \cup B) <= Cardinality(Voters(h))
  BY <1>5, <1>6, FS_Injection
<1>8. /\ Cardinality(A) \in Nat /\ Cardinality(B) \in Nat
      /\ Cardinality(Voters(h)) \in Nat
  BY <1>3, <1>6, FS_CardinalityType
<1> QED BY <1>1, <1>4, <1>7, <1>8, MasternodePaymentsAssumption

\* Whatever the order of votes, blocks, reorganisations and restarts, a second
\* payee wins a height only at a node that holds the votes of twice
\* MNPAYMENTS_SIGNATURES_REQUIRED masternodes, or of one that was restarted
\* (masternode-payments.cpp 618): no masternode counts twice.
THEOREM OnePayeeWins == Spec => []OneWinner
<1>1. IndInv => OneWinner
  <2> SUFFICES ASSUME IndInv, NEW h \in Heights, Voters(h) \cap again = {},
                      Cardinality(Voters(h)) < 2 * MNPAYMENTS_SIGNATURES_REQUIRED
               PROVE  Cardinality(Winners(h)) <= 1
    BY DEF OneWinner
  <2>1. CASE Winners(h) = {}
    BY <2>1, FS_EmptySet
  <2>2. CASE Winners(h) # {}
    <3>1. PICK p \in Winners(h) : TRUE
      BY <2>2
    <3>2. \A q \in Winners(h) : q = p
      BY <3>1, Majority
    <3>3. Winners(h) = {p}
      BY <3>1, <3>2
    <3>4. Cardinality({p}) = 1
      BY FS_Singleton
    <3> QED BY <3>3, <3>4
  <2> QED BY <2>1, <2>2
<1> QED BY <1>1, Invariance, PTL

-----------------------------------------------------------------------------
(* Synchronisation.  SyncTypeOK bounds the attempts of an asset, which is  *)
(* preserved as each asset starts from no attempt, or from one after the   *)
(* third peer was asked for sporks; the records need their fields, and the *)
(* database and the message on its way to it the types of the sporks.      *)

SyncObject ==
    [RequestedMasternodeAssets : Assets,
     RequestedMasternodeAttempt : 0..3 * MASTERNODE_SYNC_THRESHOLD,
     last : [{"LIST", "MNW"} -> 0..2],
     seen : [{"LIST", "MNW"} -> [Items -> 0..MASTERNODE_SYNC_THRESHOLD]],
     late : BOOLEAN]

\* At most three peers are asked for sporks: the third ends the asset.
Bounded(s) ==
    /\ s \in SyncObject
    /\ s.RequestedMasternodeAssets = "SPORKS" => s.RequestedMasternodeAttempt <= 2

Noted == [Peers -> (SUBSET Requests) \cup {Absent}]
SporkMap == [SporkIDs -> SporkMessages \cup {Absent}]

SporkTypes ==
    /\ mapSporksActive \in SporkMap /\ sporkDB \in SporkMap
    /\ unwritten \in SporkMessages \cup {Absent}

\* A message on its way to the database is the one in force.
InForce == unwritten # Absent => mapSporksActive[unwritten.nSporkID] = unwritten

\* The database is never ahead of memory: whatever the order of messages, failed
\* writes and restarts, no message in it is newer than the one in force, so a
\* restart goes back at most (spork.cpp 83-107).
DatabaseBehind ==
    \A i \in SporkIDs : sporkDB[i] # Absent =>
        /\ mapSporksActive[i] # Absent
        /\ sporkDB[i].nTimeSigned <= mapSporksActive[i].nTimeSigned

SyncInv ==
    /\ SporkTypes /\ InForce /\ DatabaseBehind
    /\ Bounded(sync) /\ asked \in Noted
    /\ enabled \in BOOLEAN /\ tipRecent \in BOOLEAN /\ reboots \in 0..MaxReboots

\* Every message is of a known number and has a time.
LEMMA MessageFacts ==
    ASSUME NEW m \in SporkMessages
    PROVE  m.nSporkID \in SporkIDs /\ m.nTimeSigned \in Nat /\ m # Absent
BY SporksAssumption

\* GetNextAsset, MorePeers and Failed, and the counter after them.
LEMMA NextAssetBounded ==
    ASSUME NEW s, Bounded(s)
    PROVE  /\ Bounded(GetNextAsset(s))
           /\ GetNextAsset(s).RequestedMasternodeAttempt = 0
           /\ GetNextAsset(s).RequestedMasternodeAssets = Successor(s.RequestedMasternodeAssets)
<1> DEFINE t == GetNextAsset(s)
<1>1. s \in SyncObject
  BY DEF Bounded
<1>2. /\ t.RequestedMasternodeAssets = Successor(s.RequestedMasternodeAssets)
      /\ t.RequestedMasternodeAttempt = 0 /\ t \in SyncObject
  <2>1. Successor(s.RequestedMasternodeAssets) \in Assets
    BY <1>1 DEF SyncObject, Assets, Successor
  <2>2. 0 \in 0..3 * MASTERNODE_SYNC_THRESHOLD
    BY MasternodeSyncAssumption
  <2> QED BY <1>1, <2>1, <2>2 DEF SyncObject, GetNextAsset
<1> HIDE DEF t
<1>3. Bounded(t)
  BY <1>2 DEF Bounded
<1> QED BY <1>2, <1>3 DEF t

LEMMA FailedBounded ==
    ASSUME NEW s, Bounded(s)
    PROVE  Bounded(Failed(s))
<1>1. s \in SyncObject
  BY DEF Bounded
<1>2. 0 \in 0..3 * MASTERNODE_SYNC_THRESHOLD /\ "FAILED" \in Assets
  BY MasternodeSyncAssumption DEF Assets
<1>3. Failed(s) \in SyncObject /\ Failed(s).RequestedMasternodeAssets = "FAILED"
  BY <1>1, <1>2 DEF SyncObject, Failed
<1> QED BY <1>3 DEF Bounded

LEMMA MorePeersBounded ==
    ASSUME NEW s, Bounded(s),
           s.RequestedMasternodeAttempt < 3 * MASTERNODE_SYNC_THRESHOLD,
           s.RequestedMasternodeAssets = "SPORKS" => s.RequestedMasternodeAttempt < 2
    PROVE  Bounded(MorePeers(s))
<1> DEFINE n == s.RequestedMasternodeAttempt + 1
<1>1. s \in SyncObject
  BY DEF Bounded
<1>2. s.RequestedMasternodeAttempt \in 0..3 * MASTERNODE_SYNC_THRESHOLD
  BY <1>1 DEF SyncObject
<1>3. n \in 0..3 * MASTERNODE_SYNC_THRESHOLD
  BY <1>2, MasternodeSyncAssumption
<1>4. s.RequestedMasternodeAssets = "SPORKS" => n <= 2
  BY <1>2
<1> HIDE DEF n
<1>5. MorePeers(s) = [s EXCEPT !.RequestedMasternodeAttempt = n]
  BY DEF MorePeers, n
<1>6. /\ MorePeers(s) \in SyncObject /\ MorePeers(s).RequestedMasternodeAttempt = n
      /\ MorePeers(s).RequestedMasternodeAssets = s.RequestedMasternodeAssets
  BY <1>1, <1>3, <1>5 DEF SyncObject
<1> QED BY <1>4, <1>6 DEF Bounded

\* Asking a peer for sporks, and for the list or the votes, keeps the bounds.
LEMMA AskSporksBounded ==
    ASSUME NEW s, Bounded(s), s.RequestedMasternodeAssets = "SPORKS"
    PROVE  Bounded(AskSporks(s))
<1>1. s.RequestedMasternodeAttempt \in Nat
  BY DEF Bounded, SyncObject
<1>2. 3 * MASTERNODE_SYNC_THRESHOLD \in Nat /\ 3 * MASTERNODE_SYNC_THRESHOLD >= 3
  BY MasternodeSyncAssumption
<1>3. CASE s.RequestedMasternodeAttempt > 1
  <2> DEFINE t == GetNextAsset(s)
  <2>1. /\ Bounded(t) /\ t.RequestedMasternodeAttempt = 0
        /\ t.RequestedMasternodeAssets = Successor("SPORKS")
    BY NextAssetBounded
  <2>2. t.RequestedMasternodeAssets = "LIST"
    BY <2>1 DEF Successor
  <2>3. AskSporks(s) = MorePeers(t)
    BY <1>3 DEF AskSporks
  <2> HIDE DEF t
  <2>4. t.RequestedMasternodeAttempt < 3 * MASTERNODE_SYNC_THRESHOLD
    BY <1>2, <2>1
  <2> QED BY <2>1, <2>2, <2>3, <2>4, MorePeersBounded
<1>4. CASE ~(s.RequestedMasternodeAttempt > 1)
  <2>1. AskSporks(s) = MorePeers(s)
    BY <1>4 DEF AskSporks
  <2>2. /\ s.RequestedMasternodeAttempt < 3 * MASTERNODE_SYNC_THRESHOLD
        /\ s.RequestedMasternodeAttempt < 2
    BY <1>1, <1>2, <1>4
  <2> QED BY <2>1, <2>2, MorePeersBounded
<1> QED BY <1>3, <1>4

LEMMA AskItemsBounded ==
    ASSUME NEW s, NEW a, Bounded(s), s.RequestedMasternodeAssets = a, a # "SPORKS"
    PROVE  Bounded(AskItems(s, a))
<1>1. Bounded(Failed(s)) /\ Bounded(GetNextAsset(s))
  BY FailedBounded, NextAssetBounded
<1>2. s.RequestedMasternodeAttempt \in Nat /\ MASTERNODE_SYNC_THRESHOLD * 3 \in Nat
  BY MasternodeSyncAssumption DEF Bounded, SyncObject
<1>3. CASE s.RequestedMasternodeAttempt >= MASTERNODE_SYNC_THRESHOLD * 3
  BY <1>1, <1>3 DEF AskItems
<1>4. CASE ~(s.RequestedMasternodeAttempt >= MASTERNODE_SYNC_THRESHOLD * 3)
  <2>1. s.RequestedMasternodeAttempt < 3 * MASTERNODE_SYNC_THRESHOLD
    BY <1>2, <1>4, MasternodeSyncAssumption
  <2>2. Bounded(MorePeers(s))
    BY <2>1, MorePeersBounded
  <2> QED BY <1>1, <1>4, <2>2 DEF AskItems
<1> QED BY <1>3, <1>4

LEMMA ResetBounded == Bounded(Reset)
<1>1. 0 \in 0..3 * MASTERNODE_SYNC_THRESHOLD /\ 0 \in 0..MASTERNODE_SYNC_THRESHOLD
  BY MasternodeSyncAssumption
<1>2. Reset \in SyncObject
  BY <1>1 DEF Reset, SyncObject, Assets
<1>3. Reset.RequestedMasternodeAssets = "INITIAL"
  BY DEF Reset
<1> QED BY <1>2, <1>3 DEF Bounded

\* Noting a request with one of the peers.
LEMMA AskNoted ==
    ASSUME NEW ns \in Noted, NEW r \in Requests, NEW p \in Unasked(ns, r)
    PROVE  Ask(ns, p, r) \in Noted
<1>1. p \in Peers /\ ns[p] \in SUBSET Requests
  BY DEF Unasked, Noted
<1>2. ns[p] \cup {r} \in (SUBSET Requests) \cup {Absent}
  BY <1>1
<1> QED BY <1>1, <1>2 DEF Noted, Ask

\* The loop over the peers.
LEMMA LoopBounded ==
    ASSUME NEW s, NEW ns \in Noted, Bounded(s), Loop(s, ns)
    PROVE  Bounded(sync') /\ asked' \in Noted
<1> DEFINE a == s.RequestedMasternodeAssets
           r == IF a = "LIST" THEN "mnsync" ELSE "mnwsync"
<1>1. "getspork" \in Requests /\ r \in Requests
  BY DEF Requests
<1>2. Bounded(GetNextAsset(s))
  BY NextAssetBounded
<1>3. ASSUME a = "SPORKS", NEW p \in Unasked(ns, "getspork"),
             sync' = AskSporks(s), asked' = Ask(ns, p, "getspork")
      PROVE  Bounded(sync') /\ asked' \in Noted
  BY <1>1, <1>3, AskSporksBounded, AskNoted
<1>4. ASSUME a \in {"LIST", "MNW"}, NEW p \in Unasked(ns, r),
             sync' = AskItems(s, a), asked' = Ask(ns, p, r)
      PROVE  Bounded(sync') /\ asked' \in Noted
  <2>1. Bounded(AskItems(s, a))
    BY <1>4, AskItemsBounded
  <2> HIDE DEF r, a
  <2>2. Ask(ns, p, r) \in Noted
    BY <1>1, AskNoted
  <2> QED BY <1>4, <2>1, <2>2
<1>5. \/ a = "SPORKS" /\ \E p \in Unasked(ns, "getspork") :
           sync' = AskSporks(s) /\ asked' = Ask(ns, p, "getspork")
      \/ sync' = GetNextAsset(s) /\ asked' = ns
      \/ a \in {"LIST", "MNW"} /\ \E p \in Unasked(ns, r) :
           sync' = AskItems(s, a) /\ asked' = Ask(ns, p, r)
      \/ sync' = s /\ asked' = ns
  BY Zenon DEF Loop
<1> HIDE DEF a, r
<1> QED BY <1>2, <1>3, <1>4, <1>5

\* Every step preserves the invariant: sporks.
LEMMA SporkInv ==
    ASSUME SyncInv, \/ \E m \in SporkMessages : ProcessSpork(m)
                    \/ Write
    PROVE  SporkTypes' /\ InForce' /\ DatabaseBehind'
<1>1. ASSUME NEW m \in SporkMessages, ProcessSpork(m)
      PROVE  SporkTypes' /\ InForce' /\ DatabaseBehind'
  <2>1. m.nSporkID \in SporkIDs /\ m.nTimeSigned \in Nat /\ m # Absent
    BY MessageFacts
  <2>2. /\ mapSporksActive \in SporkMap /\ sporkDB \in SporkMap
        /\ mapSporksActive' = [mapSporksActive EXCEPT ![m.nSporkID] = m]
        /\ unwritten' = m /\ sporkDB' = sporkDB
        /\ Newer(m, mapSporksActive[m.nSporkID])
    BY <1>1 DEF ProcessSpork, SyncInv, SporkTypes
  <2>3. SporkTypes' /\ InForce'
    BY <2>1, <2>2 DEF SporkTypes, SporkMap, InForce
  <2>4. ASSUME NEW i \in SporkIDs, sporkDB[i] # Absent
        PROVE  /\ mapSporksActive'[i] # Absent
               /\ sporkDB[i].nTimeSigned <= mapSporksActive'[i].nTimeSigned
    <3>1. /\ mapSporksActive[i] # Absent
          /\ sporkDB[i].nTimeSigned <= mapSporksActive[i].nTimeSigned
      BY <2>4 DEF SyncInv, DatabaseBehind
    <3>2. CASE i = m.nSporkID
      <4>1. mapSporksActive'[i] = m /\ mapSporksActive[i].nTimeSigned < m.nTimeSigned
        BY <2>1, <2>2, <3>1, <3>2 DEF Newer, SporkMap
      <4>2. sporkDB[i] \in SporkMessages /\ mapSporksActive[i] \in SporkMessages
        BY <2>2, <2>4, <3>1 DEF SporkMap
      <4>3. sporkDB[i].nTimeSigned \in Nat /\ mapSporksActive[i].nTimeSigned \in Nat
        BY <4>2, MessageFacts
      <4> QED BY <2>1, <3>1, <4>1, <4>3
    <3>3. CASE i # m.nSporkID
      <4>1. mapSporksActive'[i] = mapSporksActive[i]
        BY <2>2, <3>3 DEF SporkMap
      <4> QED BY <3>1, <4>1
    <3> QED BY <3>2, <3>3
  <2> QED BY <2>2, <2>3, <2>4 DEF DatabaseBehind
<1>2. ASSUME Write
      PROVE  SporkTypes' /\ InForce' /\ DatabaseBehind'
  <2> DEFINE m == unwritten
  <2>1. /\ m \in SporkMessages /\ unwritten' = Absent
        /\ mapSporksActive \in SporkMap /\ sporkDB \in SporkMap
        /\ mapSporksActive' = mapSporksActive /\ mapSporksActive[m.nSporkID] = m
        /\ sporkDB' = [sporkDB EXCEPT ![m.nSporkID] = m] \/ sporkDB' = sporkDB
    BY <1>2 DEF Write, WriteSpork, SyncInv, SporkTypes, InForce
  <2>2. m.nSporkID \in SporkIDs /\ m.nTimeSigned \in Nat /\ m # Absent
    BY <2>1, MessageFacts
  <2> HIDE DEF m
  <2>3. SporkTypes' /\ InForce'
    BY <2>1, <2>2 DEF SporkTypes, SporkMap, InForce
  <2>4. ASSUME NEW i \in SporkIDs, sporkDB'[i] # Absent
        PROVE  /\ mapSporksActive[i] # Absent
               /\ sporkDB'[i].nTimeSigned <= mapSporksActive[i].nTimeSigned
    <3>1. CASE sporkDB'[i] = sporkDB[i]
      BY <2>4, <3>1 DEF SyncInv, DatabaseBehind
    <3>2. CASE sporkDB'[i] # sporkDB[i]
      <4>1. i = m.nSporkID /\ sporkDB'[i] = m
        BY <2>1, <2>2, <3>2 DEF SporkMap
      <4> QED BY <2>1, <2>2, <4>1
    <3> QED BY <3>1, <3>2
  <2> QED BY <2>1, <2>3, <2>4 DEF DatabaseBehind
<1> QED BY <1>1, <1>2

\* After a restart the database is what is in force.
LEMMA LoadInv ==
    ASSUME SyncInv, LoadSporksFromDB
    PROVE  SporkTypes' /\ InForce' /\ DatabaseBehind'
<1>1. /\ sporkDB \in SporkMap /\ mapSporksActive' = sporkDB /\ sporkDB' = sporkDB
      /\ unwritten' = Absent
  BY DEF LoadSporksFromDB, SyncInv, SporkTypes
<1>2. SporkTypes' /\ InForce'
  BY <1>1 DEF SporkTypes, InForce
<1>3. ASSUME NEW i \in SporkIDs, sporkDB[i] # Absent
      PROVE  sporkDB[i].nTimeSigned <= sporkDB[i].nTimeSigned
  <2>1. sporkDB[i].nTimeSigned \in Nat
    BY <1>1, <1>3, MessageFacts DEF SporkMap
  <2> QED BY <2>1
<1> QED BY <1>1, <1>2, <1>3 DEF DatabaseBehind

\* Process: a new start if there is a reason for one, and the loop.
LEMMA ProcessInv ==
    ASSUME SyncInv, NEW cleared \in BOOLEAN, NEW locked \in BOOLEAN,
           Process(cleared, locked)
    PROVE  Bounded(sync') /\ asked' \in Noted
<1> DEFINE s == IF StartsAgain(sync) THEN Reset ELSE sync
           fresh == s.RequestedMasternodeAssets = "INITIAL"
           s1 == IF fresh THEN GetNextAsset(s) ELSE s
           ns == [p \in Peers |-> IF fresh /\ cleared /\ asked[p] # Absent THEN {}
                                  ELSE asked[p]]
<1>1. (sync' = s1 /\ asked' = ns) \/ Loop(s1, ns)
  BY DEF Process
<1>2. Bounded(s)
  BY ResetBounded DEF SyncInv
<1>3. ns \in Noted
  BY DEF SyncInv, Noted
<1> HIDE DEF s, ns
<1>4. Bounded(s1)
  BY <1>2, NextAssetBounded
<1> HIDE DEF s1
<1> QED BY <1>1, <1>3, <1>4, LoopBounded

\* An item that arrives, and time that passes.
LEMMA AddedInv ==
    ASSUME SyncInv, NEW a \in {"LIST", "MNW"}, NEW h \in Items, Added(a, h)
    PROVE  Bounded(sync')
<1> DEFINE n == sync.seen[a][h] + 1
           l == [sync.last EXCEPT ![a] = 1]
           e == [sync.seen EXCEPT ![a][h] = n]
<1>1. sync \in SyncObject
  BY DEF SyncInv, Bounded
<1>2. sync.seen[a][h] \in 0..MASTERNODE_SYNC_THRESHOLD
  BY <1>1 DEF SyncObject
<1>3. n \in 0..MASTERNODE_SYNC_THRESHOLD
  BY <1>2, MasternodeSyncAssumption DEF Added
<1>4. sync' = [sync EXCEPT !.last = l, !.seen = e]
  BY <1>1 DEF Added, SyncObject
<1> HIDE DEF n
<1>5. /\ l \in [{"LIST", "MNW"} -> 0..2]
      /\ e \in [{"LIST", "MNW"} -> [Items -> 0..MASTERNODE_SYNC_THRESHOLD]]
  BY <1>1, <1>3 DEF SyncObject
<1> HIDE DEF l, e
<1>6. /\ sync' \in SyncObject
      /\ sync'.RequestedMasternodeAssets = sync.RequestedMasternodeAssets
      /\ sync'.RequestedMasternodeAttempt = sync.RequestedMasternodeAttempt
  BY <1>1, <1>4, <1>5 DEF SyncObject
<1> QED BY <1>6 DEF SyncInv, Bounded

LEMMA LaterInv ==
    ASSUME SyncInv, Later
    PROVE  Bounded(sync')
<1>1. sync \in SyncObject
  BY DEF SyncInv, Bounded
<1>2. ASSUME NEW a \in {"LIST", "MNW"},
             sync' = [sync EXCEPT !.last[a] = IF @ = 1 THEN 2 ELSE @]
      PROVE  Bounded(sync')
  <2> DEFINE l == [sync.last EXCEPT ![a] = IF sync.last[a] = 1 THEN 2 ELSE sync.last[a]]
  <2>1. sync' = [sync EXCEPT !.last = l]
    BY <1>1, <1>2 DEF SyncObject
  <2>2. l \in [{"LIST", "MNW"} -> 0..2]
    BY <1>1 DEF SyncObject
  <2> HIDE DEF l
  <2>3. /\ sync' \in SyncObject
        /\ sync'.RequestedMasternodeAssets = sync.RequestedMasternodeAssets
        /\ sync'.RequestedMasternodeAttempt = sync.RequestedMasternodeAttempt
    BY <1>1, <2>1, <2>2 DEF SyncObject
  <2> QED BY <2>3 DEF SyncInv, Bounded
<1>3. ASSUME NEW b \in BOOLEAN, sync' = [sync EXCEPT !.late = b]
      PROVE  Bounded(sync')
  <2>1. /\ sync' \in SyncObject
        /\ sync'.RequestedMasternodeAssets = sync.RequestedMasternodeAssets
        /\ sync'.RequestedMasternodeAttempt = sync.RequestedMasternodeAttempt
    BY <1>1, <1>3 DEF SyncObject
  <2> QED BY <2>1 DEF SyncInv, Bounded
<1>4. \/ \E a \in {"LIST", "MNW"} : sync' = [sync EXCEPT !.last[a] = IF @ = 1 THEN 2 ELSE @]
      \/ \E b \in BOOLEAN : sync' = [sync EXCEPT !.late = b]
  <2> DEFINE b == sync.RequestedMasternodeAssets \in {"LIST", "MNW", "FAILED"}
  <2>1. \/ sync' = [sync EXCEPT !.last["LIST"] = IF @ = 1 THEN 2 ELSE @]
        \/ sync' = [sync EXCEPT !.last["MNW"] = IF @ = 1 THEN 2 ELSE @]
        \/ sync' = [sync EXCEPT !.late = b]
    BY DEF Later
  <2>2. b \in BOOLEAN
    OBVIOUS
  <2> HIDE DEF b
  <2> QED BY <2>1, <2>2
<1> QED BY <1>2, <1>3, <1>4

LEMMA SyncNextInv == SyncInv /\ [SyncNext]_syncVars => SyncInv'
<1> SUFFICES ASSUME SyncInv, [SyncNext]_syncVars PROVE SyncInv'
  OBVIOUS
<1> DEFINE Same == SporkTypes' /\ InForce' /\ DatabaseBehind'
<1>1. UNCHANGED sporkVars => Same
  BY DEF SyncInv, sporkVars, SporkTypes, InForce, DatabaseBehind
<1>2. ASSUME NEW cleared \in BOOLEAN, NEW locked \in BOOLEAN, Process(cleared, locked)
      PROVE  SyncInv'
  <2>1. Bounded(sync') /\ asked' \in Noted
    BY <1>2, ProcessInv
  <2>2. UNCHANGED <<sporkVars, enabled, tipRecent, reboots>>
    BY <1>2 DEF Process
  <2> QED BY <1>1, <2>1, <2>2 DEF SyncInv
<1>3. ASSUME NEW a \in {"LIST", "MNW"}, NEW h \in Items, Added(a, h)
      PROVE  SyncInv'
  BY <1>1, <1>3, AddedInv DEF SyncInv, Added
<1>4. ASSUME Later PROVE SyncInv'
  BY <1>1, <1>4, LaterInv DEF SyncInv, Later
<1>5. ASSUME MasternodesChange PROVE SyncInv'
  BY <1>1, <1>5 DEF SyncInv, MasternodesChange
<1>6. ASSUME TipCatchesUp PROVE SyncInv'
  BY <1>1, <1>6 DEF SyncInv, TipCatchesUp
<1>7. ASSUME ResetCommand PROVE SyncInv'
  BY <1>1, <1>7, ResetBounded DEF SyncInv, ResetCommand
<1>8. ASSUME Restart PROVE SyncInv'
  <2>1. Same
    BY <1>8, LoadInv DEF Restart
  <2>2. sync' = Reset /\ asked' \in Noted /\ enabled' = FALSE /\ tipRecent' = FALSE
    BY <1>8 DEF Restart, Noted
  <2>3. reboots' \in 0..MaxReboots
    BY <1>8, MasternodeSyncAssumption DEF Restart, SyncInv
  <2> QED BY <2>1, <2>2, <2>3, ResetBounded DEF SyncInv
<1>9. ASSUME Spork PROVE SyncInv'
  <2>1. Same
    BY <1>9, SporkInv DEF Spork
  <2> QED BY <1>9, <2>1 DEF SyncInv, Spork
<1>10. ASSUME NEW p \in Peers, Connect(p) PROVE SyncInv'
  <2>1. asked' \in Noted
    BY <1>10 DEF SyncInv, Noted, Connect
  <2> QED BY <1>1, <1>10, <2>1 DEF SyncInv, Connect
<1>11. ASSUME NEW p \in Peers, Disconnect(p) PROVE SyncInv'
  <2>1. asked' \in Noted
    BY <1>11 DEF SyncInv, Noted, Disconnect
  <2> QED BY <1>1, <1>11, <2>1 DEF SyncInv, Disconnect
<1>12. ASSUME UNCHANGED syncVars PROVE SyncInv'
  BY <1>1, <1>12 DEF SyncInv, syncVars
<1> HIDE DEF Same
<1> QED BY <1>2, <1>3, <1>4, <1>5, <1>6, <1>7, <1>8, <1>9, <1>10, <1>11, <1>12
        DEF SyncNext

LEMMA SyncInitInv == SyncInit => SyncInv
<1> SUFFICES ASSUME SyncInit PROVE SyncInv
  OBVIOUS
<1>1. SporkTypes /\ InForce /\ DatabaseBehind
  BY DEF SyncInit, SporksInit, SporkTypes, SporkMap, InForce, DatabaseBehind
<1>2. asked \in Noted /\ reboots \in 0..MaxReboots
  BY MasternodeSyncAssumption DEF SyncInit, Noted
<1> QED BY <1>1, <1>2, ResetBounded DEF SyncInit, SyncInv

\* Whatever peers come along and whatever they send, no asset is asked of more
\* than 3 * MASTERNODE_SYNC_THRESHOLD peers, or of three for the sporks, and
\* the object, the requests and the sporks keep their types.
THEOREM SyncTypeCorrect == SyncSpec => []SyncTypeOK
<1>1. SyncInv => SyncTypeOK
  BY DEF SyncInv, SyncTypeOK, SporkTypes, SporkMap, Bounded, SyncObject, Noted
<1> QED BY <1>1, SyncInitInv, SyncNextInv, PTL DEF SyncSpec

\* A restart can only take sporks back: in whatever order the messages came,
\* whichever writes failed and wherever the process ended between memory and
\* database, no message in the database is newer than the one in force
\* (spork.cpp 83-107).
THEOREM RestartOnlyTakesBack == SyncSpec => []DatabaseBehind
<1>1. SyncInv => DatabaseBehind
  BY DEF SyncInv
<1> QED BY <1>1, SyncInitInv, SyncNextInv, PTL DEF SyncSpec

=============================================================================
