---------------------------- MODULE BlockDownload ----------------------------
(***************************************************************************)
(* Which blocks are asked of which peer (main.cpp): CNodeState, the blocks *)
(* in flight, the stalling and timeout rules of SendMessages, and the      *)
(* "inv" and "block" messages, while peers come and go.  The "headers"     *)
(* message is inactive on every network (chainparams.cpp), so an index     *)
(* entry without data is a block that AcceptBlock gave up on.              *)
(*                                                                         *)
(* Every action is one critical section of cs_main.  The network may lose, *)
(* delay, duplicate and reorder messages: whether and when a peer answers  *)
(* is left open.  Time is kept as ages that stop at the limit beyond which *)
(* they make no difference.  One-shot connections, which fFetch leaves out *)
(* (main.cpp 6942), are not shown.                                         *)
(***************************************************************************)
EXTENDS Integers, Sequences, FiniteSets

CONSTANTS Peers,
          Blocks, Genesis,
          Anc,                             \* Anc[b]: b and its ancestors
          Height,                          \* also stands for nChainWork
          MAX_BLOCKS_IN_TRANSIT_PER_PEER,
          BLOCK_DOWNLOAD_WINDOW,
          BLOCK_STALLING_TIMEOUT,
          HalfSpacing,                     \* TargetSpacing / 2
          Announces,                       \* bound: the blocks a peer announces
          MaxSessions,                     \* bound: connections made
          None

\* struct QueuedBlock and struct CNodeState.
QueuedBlock == [hash : Blocks, age : Nat, nValidatedQueuedBefore : Nat]
NodeStates ==
    [greeted : BOOLEAN, fClient : BOOLEAN, fPreferredDownload : BOOLEAN,
     fSyncStarted : BOOLEAN, pindexBestKnownBlock : Blocks \cup {None},
     hashLastUnknownBlock : Blocks \cup {None}, pindexLastCommonBlock : Blocks \cup {None},
     vBlocksInFlight : Seq(QueuedBlock), nBlocksInFlight : 0..MAX_BLOCKS_IN_TRANSIT_PER_PEER,
     nStallingSince : Nat, fDisconnect : BOOLEAN]

\* pprev and nHeight make the blocks a tree: the ancestors of a block are a
\* chain with one block at each height, whose ancestors they share.
ASSUME BlockDownloadAssumption ==
    /\ IsFiniteSet(Peers) /\ IsFiniteSet(Blocks)
    /\ Genesis \in Blocks /\ Anc \in [Blocks -> SUBSET Blocks]
    /\ Height \in [Blocks -> Nat]
    /\ \A b \in Blocks :
          /\ b \in Anc[b] /\ Genesis \in Anc[b]
          /\ \A a \in Anc[b] : Anc[a] \subseteq Anc[b] /\ (a # b => Height[a] < Height[b])
          /\ \A h \in 0..Height[b] : \E a \in Anc[b] : Height[a] = h
    /\ MAX_BLOCKS_IN_TRANSIT_PER_PEER \in Nat \ {0}
    /\ BLOCK_DOWNLOAD_WINDOW \in Nat \ {0}
    /\ BLOCK_STALLING_TIMEOUT \in Nat /\ HalfSpacing \in Nat /\ MaxSessions \in Nat
    /\ Announces \in [Peers -> SUBSET Blocks]
    /\ None \notin Peers \cup Blocks \cup NodeStates

VARIABLES
    index,        \* mapBlockIndex
    data,         \* blocks with BLOCK_HAVE_DATA
    failed,       \* blocks with BLOCK_FAILED_VALID
    tip,          \* chainActive.Tip()
    nodes,        \* mapNodeState: the CNodeState of each peer, or None
    inFlight,     \* mapBlocksInFlight: the peer a block is asked of, or None
    nQueuedValidatedHeaders,
    nSyncStarted,
    nPreferredDownload,
    sessions      \* number of connections so far

tree == <<index, data, failed, tip>>
vars == <<tree, nodes, inFlight, nQueuedValidatedHeaders, nSyncStarted,
          nPreferredDownload, sessions>>

CNodeState ==
    [greeted |-> FALSE,              \* the version message has arrived
     fClient |-> FALSE,              \* of the CNode: not a full node
     fPreferredDownload |-> FALSE,
     fSyncStarted |-> FALSE,
     pindexBestKnownBlock |-> None,
     hashLastUnknownBlock |-> None,
     pindexLastCommonBlock |-> None,
     vBlocksInFlight |-> <<>>,       \* [hash, age, nValidatedQueuedBefore]
     nBlocksInFlight |-> 0,
     nStallingSince |-> 0,           \* 0, or 1 + the age of the stall
     fDisconnect |-> FALSE]          \* of the CNode

Connected == {p \in Peers : nodes[p] # None}

Linked_Alone(b) == b \in data

\* nChainTx: the block and its ancestors have their data.
Linked(b) == Anc[b] \subseteq data
AtHeight(b, h) == CHOOSE a \in Anc[b] : Height[a] = h
Highest(S) == CHOOSE a \in S : \A c \in S : Height[c] <= Height[a]
LastCommonAncestor(a, b) == Highest(Anc[a] \cap Anc[b])
MinOf(m, n) == IF m < n THEN m ELSE n

Init ==
    /\ index = {Genesis} /\ data = {Genesis} /\ failed = {} /\ tip = Genesis
    /\ nodes = [p \in Peers |-> None]
    /\ inFlight = [b \in Blocks |-> None]
    /\ nQueuedValidatedHeaders = 0 /\ nSyncStarted = 0 /\ nPreferredDownload = 0
    /\ sessions = 0

-----------------------------------------------------------------------------
(* Peers *)

InitializeNode(p) ==
    /\ nodes[p] = None /\ sessions < MaxSessions
    /\ nodes' = [nodes EXCEPT ![p] = CNodeState]
    /\ sessions' = sessions + 1
    /\ UNCHANGED <<tree, inFlight, nQueuedValidatedHeaders, nSyncStarted, nPreferredDownload>>

\* The version message, with UpdatePreferredDownload: a client is never
\* preferred.
Version(p, client, preferred) ==
    /\ nodes[p] # None /\ ~nodes[p].greeted
    /\ ~(client /\ preferred)
    /\ nodes' = [nodes EXCEPT ![p].greeted = TRUE, ![p].fClient = client,
                             ![p].fPreferredDownload = preferred]
    /\ nPreferredDownload' = nPreferredDownload + (IF preferred THEN 1 ELSE 0)
    /\ UNCHANGED <<tree, inFlight, nQueuedValidatedHeaders, nSyncStarted, sessions>>

FinalizeNode_KeepsRequests(p) ==
    /\ nodes[p] # None
    /\ nSyncStarted' = nSyncStarted - (IF nodes[p].fSyncStarted THEN 1 ELSE 0)
    /\ nPreferredDownload' = nPreferredDownload - (IF nodes[p].fPreferredDownload THEN 1 ELSE 0)
    /\ nodes' = [nodes EXCEPT ![p] = None]
    /\ UNCHANGED <<tree, inFlight, nQueuedValidatedHeaders, sessions>>
FinalizeNode_KeepsSync(p) ==
    /\ nodes[p] # None
    /\ nPreferredDownload' = nPreferredDownload - (IF nodes[p].fPreferredDownload THEN 1 ELSE 0)
    /\ inFlight' = [b \in Blocks |-> IF inFlight[b] = p THEN None ELSE inFlight[b]]
    /\ nodes' = [nodes EXCEPT ![p] = None]
    /\ UNCHANGED <<tree, nSyncStarted, nQueuedValidatedHeaders, sessions>>

\* The connection ends, on either side, and the CNode is deleted.
FinalizeNode(p) ==
    /\ nodes[p] # None
    /\ nSyncStarted' = nSyncStarted - (IF nodes[p].fSyncStarted THEN 1 ELSE 0)
    /\ nPreferredDownload' = nPreferredDownload - (IF nodes[p].fPreferredDownload THEN 1 ELSE 0)
    /\ inFlight' = [b \in Blocks |->
          IF \E i \in 1..Len(nodes[p].vBlocksInFlight) : nodes[p].vBlocksInFlight[i].hash = b
          THEN None ELSE inFlight[b]]
    /\ nodes' = [nodes EXCEPT ![p] = None]
    /\ UNCHANGED <<tree, nQueuedValidatedHeaders, sessions>>

-----------------------------------------------------------------------------
(* What a peer has *)

\* A better block, once it is in the index.
Announced(n, b) ==
    IF n.pindexBestKnownBlock = None \/ Height[b] >= Height[n.pindexBestKnownBlock]
    THEN [n EXCEPT !.pindexBestKnownBlock = b] ELSE n

ProcessBlockAvailability(n, idx) ==
    IF n.hashLastUnknownBlock \in idx
    THEN [Announced(n, n.hashLastUnknownBlock) EXCEPT !.hashLastUnknownBlock = None]
    ELSE n

UpdateBlockAvailability(n, idx, b) ==
    LET m == ProcessBlockAvailability(n, idx)
    IN  IF b \in idx THEN Announced(m, b) ELSE [m EXCEPT !.hashLastUnknownBlock = b]

\* An "inv" for a block; a getdata for an unknown one is not tracked.
Inv(p, b) ==
    /\ nodes[p] # None /\ nodes[p].greeted /\ ~nodes[p].fDisconnect
    /\ nodes' = [nodes EXCEPT ![p] = UpdateBlockAvailability(@, index, b)]
    /\ UNCHANGED <<tree, inFlight, nQueuedValidatedHeaders, nSyncStarted, nPreferredDownload,
                   sessions>>

-----------------------------------------------------------------------------
(* Blocks in flight *)

\* The list without the entry of block b, which the map's iterator names.
Without(s, b) ==
    LET at == CHOOSE i \in DOMAIN s : s[i].hash = b
    IN  [i \in 1..Len(s) - 1 |-> s[IF i < at THEN i ELSE i + 1]]

MarkBlockAsReceived_KeepsStall(b) ==
    IF inFlight[b] = None
    THEN UNCHANGED <<nodes, inFlight, nQueuedValidatedHeaders>>
    ELSE /\ nodes' = [nodes EXCEPT
              ![inFlight[b]].vBlocksInFlight = Without(@, b),
              ![inFlight[b]].nBlocksInFlight = @ - 1]
         /\ inFlight' = [inFlight EXCEPT ![b] = None]
         /\ nQueuedValidatedHeaders' = nQueuedValidatedHeaders - 1

MarkBlockAsReceived(b) ==
    IF inFlight[b] = None
    THEN UNCHANGED <<nodes, inFlight, nQueuedValidatedHeaders>>
    ELSE /\ nodes' = [nodes EXCEPT
              ![inFlight[b]].vBlocksInFlight = Without(@, b),
              ![inFlight[b]].nBlocksInFlight = @ - 1,
              ![inFlight[b]].nStallingSince = 0]
         /\ inFlight' = [inFlight EXCEPT ![b] = None]
         /\ nQueuedValidatedHeaders' = nQueuedValidatedHeaders - 1

\* ActivateBestChain, whose threads ChainState models: a block with the most
\* work; the tip stays unless another one has more.
Activated(d, f) ==
    LET good == {b \in d : Anc[b] \subseteq d /\ Anc[b] \cap f = {}}
        best == {b \in good : \A c \in good : Height[c] <= Height[b]}
    IN  IF tip \in best THEN {tip} ELSE best

\* What becomes of block b in ProcessNewBlock.  Its signature is not part of
\* its hash and is checked before the block is marked as received.  Then
\* AcceptBlock refuses it outright, leaves an index entry without data (the
\* proof-of-stake checks), marks it as failed, or stores it, and it may
\* turn out to be invalid once it is connected.
ProcessNewBlock(b) ==
    \/ /\ MarkBlockAsReceived(b)
       /\ UNCHANGED <<tree, nSyncStarted, nPreferredDownload, sessions>>
    \/ /\ b # Genesis /\ (Anc[b] \ {b}) \subseteq index /\ Anc[b] \cap failed = {}
       /\ b \notin data
       /\ MarkBlockAsReceived(b)
       /\ index' = index \cup {b}
       /\ \E stored, bad \in BOOLEAN :
             /\ data' = IF stored THEN data \cup {b} ELSE data
             /\ failed' = IF bad THEN failed \cup {b} ELSE failed
             /\ tip' \in Activated(data', failed')
       /\ UNCHANGED <<nSyncStarted, nPreferredDownload, sessions>>

\* A "block" message is processed only when its parent is in the index and
\* the block itself is not.
BlockMessage(p, b) ==
    /\ nodes[p] # None /\ ~nodes[p].fDisconnect
    /\ (Anc[b] \ {b}) \subseteq index /\ b \notin index
    /\ ProcessNewBlock(b)

\* submitblock and the miner call ProcessNewBlock without a peer.
SubmitBlock(b) == ProcessNewBlock(b)

-----------------------------------------------------------------------------
(* SendMessages *)

\* One block of the walk of FindNextBlocksToDownload for peer p: skip what is
\* here or in flight, and stop at a failed block, behind the window, or with
\* count blocks.
Visit(p, count, nWindowEnd, acc, b) ==
    IF b \in failed THEN [acc EXCEPT !.done = TRUE]
    ELSE IF b \in data THEN [acc EXCEPT !.common = IF Linked(b) THEN b ELSE @]
    ELSE IF inFlight[b] # None
         THEN [acc EXCEPT !.waitingfor = IF @ = None THEN inFlight[b] ELSE @]
    ELSE IF Height[b] > nWindowEnd
         THEN [acc EXCEPT !.done = TRUE,
                          !.staller = IF acc.vBlocks = <<>> /\ acc.waitingfor # p
                                      THEN acc.waitingfor ELSE @]
    ELSE [acc EXCEPT !.vBlocks = Append(@, b), !.done = Len(acc.vBlocks) + 1 = count]

\* The walk from the last common block towards the peer's best one.
WalkTo(p, count, common, best) ==
    LET nWindowEnd == Height[common] + BLOCK_DOWNLOAD_WINDOW
        nMaxHeight == MinOf(Height[best], nWindowEnd + 1)
        start == [common |-> common, vBlocks |-> <<>>, waitingfor |-> None, staller |-> None,
                  done |-> FALSE]
        Walk[h \in Height[common]..nMaxHeight] ==
            IF h = Height[common] THEN start
            ELSE IF Walk[h - 1].done THEN Walk[h - 1]
            ELSE Visit(p, count, nWindowEnd, Walk[h - 1], AtHeight(best, h))
    IN  Walk[nMaxHeight]

\* FindNextBlocksToDownload for peer p, whose state is n0, up to count blocks:
\* the new state, the blocks, and the peer that holds up the window.
FindNextBlocksToDownload(p, n0, count) ==
    LET n == ProcessBlockAvailability(n0, index)
        best == n.pindexBestKnownBlock
        guess == IF n.pindexLastCommonBlock = None
                 THEN AtHeight(tip, MinOf(Height[best], Height[tip]))
                 ELSE n.pindexLastCommonBlock
        common == LastCommonAncestor(guess, best)
        end == WalkTo(p, count, common, best)
    IN  IF best = None THEN [node |-> n, vBlocks |-> <<>>, staller |-> None]
        ELSE IF Height[best] < Height[tip] THEN [node |-> n, vBlocks |-> <<>>, staller |-> None]
        ELSE IF common = best
             THEN [node |-> [n EXCEPT !.pindexLastCommonBlock = common],
                   vBlocks |-> <<>>, staller |-> None]
        ELSE [node |-> [n EXCEPT !.pindexLastCommonBlock = end.common],
              vBlocks |-> end.vBlocks, staller |-> end.staller]

\* MarkBlockAsInFlight for blocks that are not in flight yet.
Requested(n, bs) ==
    [n EXCEPT !.vBlocksInFlight = @ \o
                  [i \in 1..Len(bs) |->
                     [hash |-> bs[i], age |-> 0,
                      nValidatedQueuedBefore |-> nQueuedValidatedHeaders + i - 1]],
              !.nBlocksInFlight = @ + Len(bs)]

TimeLimit(e) == HalfSpacing * (4 + e.nValidatedQueuedBefore)

TimedOut_StallOnly(n) == n.nStallingSince > BLOCK_STALLING_TIMEOUT + 1

\* The peer stalls the window, or its oldest request has waited too long.
TimedOut(n) ==
    \/ n.nStallingSince > BLOCK_STALLING_TIMEOUT + 1
    \/ /\ n.vBlocksInFlight # <<>>
       /\ Head(n.vBlocksInFlight).age > TimeLimit(Head(n.vBlocksInFlight))

\* One call of SendMessages for p.  recent: the best header is recent, so more
\* than one peer may be asked for blocks.
SendMessages(p, recent) ==
    LET n0 == nodes[p]
        fFetch == n0.fPreferredDownload \/ nPreferredDownload = 0
        start == ~n0.fSyncStarted /\ ~n0.fClient /\ fFetch /\ (nSyncStarted = 0 \/ recent)
        n1 == [n0 EXCEPT !.fSyncStarted = @ \/ start, !.fDisconnect = @ \/ TimedOut(n0)]
        asks == /\ ~n1.fDisconnect /\ ~n1.fClient /\ fFetch
                /\ n1.nBlocksInFlight < MAX_BLOCKS_IN_TRANSIT_PER_PEER
        found == FindNextBlocksToDownload(p, n1, MAX_BLOCKS_IN_TRANSIT_PER_PEER - n1.nBlocksInFlight)
        n2 == Requested(found.node, found.vBlocks)
        stalls == n2.nBlocksInFlight = 0 /\ found.staller # None
    IN  /\ nodes[p] # None /\ n0.greeted /\ ~n0.fDisconnect
        /\ nSyncStarted' = nSyncStarted + (IF start THEN 1 ELSE 0)
        /\ IF asks
           THEN /\ nodes' = [q \in Peers |->
                      LET m == IF q = p THEN n2 ELSE nodes[q]
                      IN  IF stalls /\ q = found.staller /\ m.nStallingSince = 0
                          THEN [m EXCEPT !.nStallingSince = 1] ELSE m]
                /\ inFlight' = [b \in Blocks |->
                      IF \E i \in 1..Len(found.vBlocks) : found.vBlocks[i] = b THEN p
                                                                               ELSE inFlight[b]]
                /\ nQueuedValidatedHeaders' = nQueuedValidatedHeaders + Len(found.vBlocks)
           ELSE /\ nodes' = [nodes EXCEPT ![p] = n1]
                /\ UNCHANGED <<inFlight, nQueuedValidatedHeaders>>
        /\ UNCHANGED <<tree, nPreferredDownload, sessions>>

\* Time passes for the requests and the stalls.
Aged(e) == [e EXCEPT !.age = MinOf(@ + 1, TimeLimit(e) + 1)]
Older(n) ==
    [n EXCEPT !.vBlocksInFlight = [i \in 1..Len(n.vBlocksInFlight) |-> Aged(n.vBlocksInFlight[i])],
              !.nStallingSince = IF @ = 0 THEN 0 ELSE MinOf(@ + 1, BLOCK_STALLING_TIMEOUT + 2)]

Tick ==
    /\ nodes' = [p \in Peers |-> IF nodes[p] = None THEN None ELSE Older(nodes[p])]
    /\ nodes' # nodes
    /\ UNCHANGED <<tree, inFlight, nQueuedValidatedHeaders, nSyncStarted, nPreferredDownload,
                   sessions>>

-----------------------------------------------------------------------------
Next ==
    \/ \E p \in Peers :
          \/ InitializeNode(p) \/ FinalizeNode(p)
          \/ \E client, preferred \in BOOLEAN : Version(p, client, preferred)
          \/ \E b \in Announces[p] : Inv(p, b)
          \/ \E b \in Blocks : BlockMessage(p, b)
          \/ \E recent \in BOOLEAN : SendMessages(p, recent)
    \/ \E b \in Blocks : SubmitBlock(b)
    \/ Tick

Spec == Init /\ [][Next]_vars

\* The clock runs, the message thread calls SendMessages for a peer that is
\* late sooner or later, and the socket thread deletes the peers marked for
\* disconnection.
Fairness ==
    /\ WF_vars(Tick)
    /\ \A p \in Peers :
          /\ WF_vars(/\ nodes[p] # None /\ TimedOut(nodes[p])
                     /\ \E recent \in BOOLEAN : SendMessages(p, recent))
          /\ WF_vars(nodes[p] # None /\ nodes[p].fDisconnect /\ FinalizeNode(p))
FairSpec == Spec /\ Fairness

-----------------------------------------------------------------------------
(* Properties *)

\* Types and ranges of the variables: in particular the count of blocks in
\* flight at a peer never exceeds MAX_BLOCKS_IN_TRANSIT_PER_PEER.
TypeOK ==
    /\ index \subseteq Blocks /\ data \subseteq index /\ failed \subseteq index
    /\ tip \in data
    /\ \A p \in Peers : nodes[p] = None \/ nodes[p] \in NodeStates
    /\ inFlight \in [Blocks -> Peers \cup {None}]
    /\ nQueuedValidatedHeaders \in Nat /\ nSyncStarted \in Nat /\ nPreferredDownload \in Nat
    /\ sessions \in 0..MaxSessions

\* The entries of b in the queue of peer p.
EntriesOf(p, b) ==
    IF nodes[p] = None THEN {}
    ELSE {i \in 1..Len(nodes[p].vBlocksInFlight) : nodes[p].vBlocksInFlight[i].hash = b}

\* mapBlocksInFlight and the queues of the peers agree (main.cpp 398-425,
\* 377-395): a block is in the queue of the one connected peer the map names,
\* exactly once, and in no other; the counter of a peer is the length of its
\* queue.  The iterator kept in the map would otherwise dangle.
InFlightConsistent ==
    /\ TypeOK
    /\ \A p \in Peers, b \in Blocks :
          Cardinality(EntriesOf(p, b)) = (IF inFlight[b] = p THEN 1 ELSE 0)
    /\ \A p \in Connected : nodes[p].nBlocksInFlight = Len(nodes[p].vBlocksInFlight)

\* The global counters that decide whom to download from (main.cpp 359-395,
\* 6939-6953) stay equal to what they count while peers come and go; the
\* number of validated requests never falls below the number in flight, so
\* a timeout is never shorter than 2 + N/2 block intervals.
CountersExact ==
    /\ nSyncStarted = Cardinality({p \in Connected : nodes[p].fSyncStarted})
    /\ nPreferredDownload = Cardinality({p \in Connected : nodes[p].fPreferredDownload})
    /\ nQueuedValidatedHeaders >= Cardinality({b \in Blocks : inFlight[b] # None})

\* A peer is suspected of stalling (main.cpp 7038-7043) only while a request is
\* on its books: whatever order blocks arrive in, and whoever sends them, no
\* peer is disconnected for stalling when nothing is asked of it.  The books
\* are not closed by an answer to the request: a block that is asked for is in
\* mapBlockIndex, and the "block" message skips what is there (6470).
StallerOwesBlock ==
    \A p \in Connected : nodes[p].nStallingSince # 0 => nodes[p].vBlocksInFlight # <<>>

\* pindexLastCommonBlock is "the last full block we both have" (main.cpp 307):
\* every ancestor of it has its data, so the download window starts where
\* something is missing.
CommonBlockLinked ==
    \A p \in Connected :
        nodes[p].pindexLastCommonBlock # None => Anc[nodes[p].pindexLastCommonBlock] \subseteq data

\* A request does not stay with a peer for ever, even when the peer never
\* answers and every other one is waiting behind it (main.cpp 7005-7022).
RequestsEnd == \A p \in Peers, b \in Blocks : []<>(inFlight[b] # p)
=============================================================================
