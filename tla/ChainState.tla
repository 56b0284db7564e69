----------------------------- MODULE ChainState -----------------------------
(***************************************************************************)
(* The block tree, the active chain and the coin database of one node      *)
(* (main.cpp): accepting headers and blocks, ActivateBestChain and its     *)
(* steps, InvalidateBlock, ReconsiderBlock, the spork-driven reprocessing, *)
(* FlushStateToDisk, a crash at any point and LoadBlockIndexDB.            *)
(*                                                                         *)
(* A critical section of cs_main is one action, except where it writes to  *)
(* disk: DisconnectTip, ConnectTip and every single write of               *)
(* FlushStateToDisk are actions of their own, so that a crash or a write   *)
(* error can come between them.  The thread keeps cs_main meanwhile.       *)
(***************************************************************************)
EXTENDS Integers, FiniteSets, Functions

CONSTANTS
    Blocks, Genesis,
    Parent,        \* pprev
    Anc,           \* a block and all its ancestors
    ChainWork,     \* nChainWork
    Height,        \* nHeight
    Ptr,           \* address of the CBlockIndex, the last tie breaker
    PoS,           \* the proof-of-stake blocks
    BadContext,    \* blocks that break a rule of ContextualCheckBlock
    BadConnect,    \* blocks that break a rule only ConnectBlock can see
    Threads,
    MaxReorganizationDepth,
    DiskMayFail,   \* may a write of FlushStateToDisk fail?
    ReprocessDepth, \* argument of ReprocessBlocks
    Budgets        \* bound: how often each of the Interventions may happen

\* What an operator, a transaction lock or a crash does to the node.
Interventions == {"invalidate", "reconsider", "reprocess", "crash"}

ASSUME TreeAssumption ==
    /\ IsFiniteSet(Blocks) /\ Genesis \in Blocks
    /\ Parent \in [Blocks \ {Genesis} -> Blocks]
    /\ Anc \in [Blocks -> SUBSET Blocks]
    /\ Anc[Genesis] = {Genesis}
    /\ \A b \in Blocks \ {Genesis} : /\ Anc[b] = {b} \cup Anc[Parent[b]]
                                     /\ b \notin Anc[Parent[b]]
    /\ \A b \in Blocks : /\ b \in Anc[b] /\ Genesis \in Anc[b]
                         /\ \A x \in Anc[b] : Anc[x] \subseteq Anc[b]
                         /\ \A x, y \in Anc[b] : x \in Anc[y] \/ y \in Anc[x]
    /\ ChainWork \in [Blocks -> Nat] /\ Height \in [Blocks -> Nat]
    /\ \A b \in Blocks \ {Genesis} : ChainWork[Parent[b]] < ChainWork[b]
    /\ Ptr \in [Blocks -> Nat]
    /\ PoS \subseteq Blocks
    /\ BadContext \subseteq Blocks \ {Genesis}
    /\ BadConnect \subseteq Blocks \ {Genesis}
    /\ MaxReorganizationDepth \in Nat /\ ReprocessDepth \in Nat
    /\ DiskMayFail \in BOOLEAN /\ Threads # {}
    /\ Budgets \subseteq [Interventions -> Nat]

VARIABLES
    nStatus,       \* of each block in mapBlockIndex; {} for the others
    linked,        \* blocks with nChainTx > 0
    nSequenceId,
    nBlockSequenceId,
    pnext,         \* Genesis stands for NULL
    candidates,    \* setBlockIndexCandidates
    unlinked,      \* the blocks that are values of mapBlocksUnlinked
    tip,           \* chainActive.Tip()
    coinsTip,      \* pcoinsTip->GetBestBlock()
    dirty,         \* setDirtyBlockIndex
    disk,          \* block index database: nStatus and hashNext as last written
    diskTip,       \* best block of the coin database
    pc,            \* where each thread is
    goal,          \* pindexMostWork, or the block that is being invalidated
    old,           \* pindexOldTip of ActivateBestChainStep
    cont,          \* what the caller of FlushStateToDisk does next
    left,          \* disconnections DisconnectBlocksAndReprocess has to do
    used           \* how often each of the Interventions has happened

index == <<nStatus, linked, nSequenceId, nBlockSequenceId, pnext, candidates, unlinked>>
local == <<goal, old, cont, left>>
vars == <<index, tip, coinsTip, dirty, disk, diskTip, pc, local, used>>

Spend(what) ==
    /\ used' = [used EXCEPT ![what] = @ + 1]
    /\ \E budget \in Budgets : \A w \in Interventions : used'[w] <= budget[w]

-----------------------------------------------------------------------------
(* CBlockIndex *)

mapBlockIndex == {b \in Blocks : nStatus[b] # {}}
Failed(b) == nStatus[b] \cap {"failed", "child"} # {}
HaveData(b) == "data" \in nStatus[b]
Contains(b) == b \in Anc[tip]                       \* chainActive.Contains

\* CBlockIndexWorkComparator: does a sort before (is a worse than) b?
Worse(seq, a, b) ==
    \/ ChainWork[a] < ChainWork[b]
    \/ /\ ChainWork[a] = ChainWork[b]
       /\ \/ seq[a] > seq[b]
          \/ seq[a] = seq[b] /\ Ptr[a] > Ptr[b]
AsGoodAsTip(b) == ~Worse(nSequenceId, b, tip)

\* The nodes of S carry the extra status flag f.
Mark(status, S, f) == [b \in Blocks |-> IF b \in S THEN status[b] \cup {f} ELSE status[b]]

-----------------------------------------------------------------------------
(* The locks.  cs_main is held inside a step and while flushing; the       *)
(* static m_cs_chainstate is held by whoever is inside ActivateBestChain.  *)

csMainFree == \A t \in Threads : pc[t] \notin {"step", "flush", "invalidate", "reprocess"}
InActivate(t) ==
    \/ pc[t] \in {"loop", "step", "exit"}
    \/ pc[t] = "flush" /\ cont[t] \in {"connect", "disconnect", "return"}

Goto(t, l) == pc' = [pc EXCEPT ![t] = l]

\* t goes to l and its local block pointers go out of scope.
Leave(t, l) == /\ Goto(t, l)
               /\ goal' = [goal EXCEPT ![t] = Genesis]
               /\ old' = [old EXCEPT ![t] = Genesis]
Stay(t, l) == Goto(t, l) /\ UNCHANGED <<goal, old>>

-----------------------------------------------------------------------------
(* Headers and blocks arrive: ProcessNewBlock, AcceptBlock and helpers.    *)

\* AcceptBlockHeader for a header that is not in the index yet.
NewHeaderOk(b) ==
    /\ Parent[b] \in mapBlockIndex
    /\ ~Failed(Parent[b])
    /\ Height[tip] - Height[b] < MaxReorganizationDepth

\* A new entry becomes its parent's pnext; an old one is left alone.
AddToBlockIndex(b) ==
    pnext' = IF b \in mapBlockIndex THEN pnext ELSE [pnext EXCEPT ![Parent[b]] = b]

AcceptBlockHeader(t, b) ==
    /\ pc[t] = "idle" /\ csMainFree
    /\ b \notin mapBlockIndex /\ NewHeaderOk(b)
    /\ AddToBlockIndex(b)
    /\ nStatus' = [nStatus EXCEPT ![b] = {"tree"}]
    /\ dirty' = dirty \cup {b}
    /\ UNCHANGED <<linked, nSequenceId, nBlockSequenceId, candidates, unlinked,
                   tip, coinsTip, disk, diskTip, pc, local, used>>

\* A block can be taken up: its parent is known and not failed, and it is
\* either a known header that is not failed or an acceptable new one.
Acceptable(b) ==
    /\ b # Genesis /\ Parent[b] \in mapBlockIndex /\ ~Failed(Parent[b])
    /\ IF b \in mapBlockIndex THEN ~Failed(b) ELSE NewHeaderOk(b)

\* The proof-of-stake part of AcceptBlock: a block on a fork needs the whole
\* fork on disk, and the fork may not be too long.
ForkOk(b) ==
    b \in PoS /\ Parent[b] # tip =>
       LET fork == Anc[Parent[b]] \ Anc[tip]
       IN  /\ \A x \in fork \cup {Parent[b]} : HaveData(x)
           /\ Cardinality(fork) < MaxReorganizationDepth

\* Mutant: the descendants that wait for b are forgotten.
NowLinked_OnlyBlock(b) == {b}

\* Blocks that become connectable when b's data arrives: b and everything in
\* mapBlocksUnlinked that hangs off it.
NowLinked(b) ==
    {b} \cup {d \in unlinked : b \in Anc[d] /\ Anc[d] \ Anc[b] \subseteq unlinked}

\* Mutant: mapBlocksUnlinked is never cleaned up.
EraseUnlinked_Never(L) == unlinked

EraseUnlinked(L) == unlinked \ L

ReceivedBlockTransactions(b) ==
    IF Parent[b] \in linked
    THEN LET L == NowLinked(b)
             n == nBlockSequenceId
         IN  /\ \E id \in Injection(L, n..(n + Cardinality(L) - 1)) :
                   /\ \A d \in L \ {b} : id[Parent[d]] < id[d]
                   /\ nSequenceId' = [x \in Blocks |->
                                        IF x \in L THEN id[x] ELSE nSequenceId[x]]
             /\ candidates' = candidates \cup {x \in L : ~Worse(nSequenceId', x, tip)}
             /\ nBlockSequenceId' = n + Cardinality(L)
             /\ linked' = linked \cup L
             /\ unlinked' = EraseUnlinked(L)
    ELSE /\ unlinked' = unlinked \cup {b}
         /\ UNCHANGED <<linked, nSequenceId, nBlockSequenceId, candidates>>

ContextualCheckBlock(b) == b \notin BadContext

\* AcceptBlock stores the block; ProcessNewBlock goes on to activate.
AcceptBlock(t, b) ==
    /\ pc[t] = "idle" /\ csMainFree
    /\ Acceptable(b) /\ ~HaveData(b) /\ ContextualCheckBlock(b) /\ ForkOk(b)
    /\ AddToBlockIndex(b)
    /\ nStatus' = Mark(Mark(nStatus, {b}, "tree"), {b}, "data")
    /\ dirty' = dirty \cup {b}
    /\ ReceivedBlockTransactions(b)
    /\ Goto(t, "activate")
    /\ UNCHANGED <<tip, coinsTip, disk, diskTip, local, used>>

\* A block that is there already: AcceptBlock returns true without storing.
AcceptDuplicate(t, b) ==
    /\ pc[t] = "idle" /\ csMainFree
    /\ Acceptable(b) /\ HaveData(b)
    /\ Goto(t, "activate")
    /\ UNCHANGED <<index, tip, coinsTip, dirty, disk, diskTip, local, used>>

\* AcceptBlock fails after AcceptBlockHeader: a broken rule marks the header
\* as failed, a stake or fork check that does not pass leaves it as it is.
AcceptBlockFails(t, b) ==
    /\ pc[t] = "idle" /\ csMainFree
    /\ Acceptable(b) /\ ~HaveData(b)
    /\ AddToBlockIndex(b)
    /\ \/ /\ ~ContextualCheckBlock(b)
          /\ nStatus' = Mark(Mark(nStatus, {b}, "tree"), {b}, "failed")
          /\ dirty' = dirty \cup {b}
       \/ /\ b \in PoS /\ ContextualCheckBlock(b)
          /\ nStatus' = Mark(nStatus, {b}, "tree")
          /\ dirty' = IF b \in mapBlockIndex THEN dirty ELSE dirty \cup {b}
    /\ UNCHANGED <<linked, nSequenceId, nBlockSequenceId, candidates, unlinked,
                   tip, coinsTip, disk, diskTip, pc, local, used>>

-----------------------------------------------------------------------------
(* FlushStateToDisk, called by t, which then continues with c.  Block index *)
(* entries are written one by one, in no particular order; the coin         *)
(* database follows in one batch.                                           *)

Flush(t, c) == /\ Goto(t, "flush")
               /\ cont' = [cont EXCEPT ![t] = c]

WriteBlockIndex(t, b) ==
    /\ pc[t] = "flush" /\ b \in dirty
    /\ disk' = [disk EXCEPT ![b] = [nStatus |-> nStatus[b], pnext |-> pnext[b]]]
    /\ dirty' = dirty \ {b}
    /\ UNCHANGED <<index, tip, coinsTip, diskTip, pc, local, used>>

\* Mutants: nothing is pruned; the tip is pruned as well.
Pruned_Nothing(newTip) == candidates
Pruned_TipToo(newTip) == {c \in candidates : Worse(nSequenceId, newTip, c)}

\* PruneBlockIndexCandidates with newTip as the tip.
Pruned(newTip) == {c \in candidates : ~Worse(nSequenceId, c, newTip)}

\* Mutants: UpdateTip is forgotten; the loop ends after one step.
AfterConnect_NoUpdateTip(t, b) ==
    UNCHANGED tip /\ candidates' = Pruned(b) /\ Leave(t, "exit")
AfterConnect_OneStep(t, b) ==
    tip' = b /\ candidates' = Pruned(b) /\ Leave(t, "exit")

\* ActivateBestChainStep after a successful ConnectTip(b): leave the step as
\* soon as the chain is better than it was, or complete.
AfterConnect(t, b) ==
    /\ tip' = b
    /\ candidates' = Pruned(b)
    /\ \/ b = goal[t] /\ Leave(t, "exit")
       \/ b # goal[t] /\ ChainWork[b] > ChainWork[old[t]] /\ Leave(t, "loop")
       \/ b # goal[t] /\ ChainWork[b] <= ChainWork[old[t]] /\ Stay(t, "step")

\* The coins reach the disk and the caller goes on.
CoinsWritten(t) ==
    /\ diskTip' = coinsTip
    /\ cont' = [cont EXCEPT ![t] = "idle"]
    /\ \/ cont[t] = "connect" /\ AfterConnect(t, coinsTip)
       \/ /\ cont[t] = "disconnect" /\ tip' = coinsTip
          /\ Stay(t, "step") /\ UNCHANGED candidates
       \/ /\ cont[t] \in {"invalidate", "reprocess"} /\ tip' = coinsTip
          /\ Stay(t, cont[t]) /\ UNCHANGED candidates
       \/ /\ cont[t] \in {"return", "idle"}
          /\ Stay(t, "idle") /\ UNCHANGED <<tip, candidates>>
    /\ UNCHANGED <<nStatus, linked, nSequenceId, nBlockSequenceId, pnext, unlinked,
                   coinsTip, dirty, disk, left, used>>

WriteCoins(t) == pc[t] = "flush" /\ dirty = {} /\ CoinsWritten(t)

\* Mutant: the dirty set is emptied although its entries were not written.
FlushFails_DropsDirty(t) ==
    /\ DiskMayFail
    /\ pc[t] = "flush"
    /\ Leave(t, "idle")
    /\ dirty' = {}
    /\ UNCHANGED <<index, tip, coinsTip, disk, diskTip, cont, left, used>>

\* A write fails: the caller returns false and a shutdown is requested, but
\* other threads run on.  DisconnectBlocksAndReprocess ignores the result.
FlushFails(t) ==
    /\ DiskMayFail
    /\ pc[t] = "flush"
    /\ Leave(t, IF cont[t] = "reprocess" THEN "reprocess" ELSE "idle")
    /\ cont' = [cont EXCEPT ![t] = "idle"]
    /\ UNCHANGED <<index, tip, coinsTip, dirty, disk, diskTip, left, used>>

\* gettxoutsetinfo and Shutdown flush on their own.
FlushStateToDisk(t) ==
    /\ pc[t] = "idle" /\ csMainFree
    /\ Flush(t, "idle")
    /\ UNCHANGED <<index, tip, coinsTip, dirty, disk, diskTip, goal, old, left, used>>

-----------------------------------------------------------------------------
(* ActivateBestChain *)

\* Failed blocks between candidate c and the active chain, and the topmost.
FailedOnPath(c) == {x \in Anc[c] \ Anc[tip] : Failed(x)}
TopFailed(c) == CHOOSE x \in FailedOnPath(c) : \A y \in FailedOnPath(c) : y \in Anc[x]

Usable == {c \in candidates : FailedOnPath(c) = {}}

\* These candidates have a failed block on their path: all above that block
\* are marked, and the path leaves the set.
Discard(hopeless) ==
    /\ nStatus' = Mark(nStatus,
                       UNION {Anc[c] \ Anc[TopFailed(c)] : c \in hopeless}, "child")
    /\ candidates' = candidates \
          UNION {(Anc[c] \ Anc[TopFailed(c)]) \cup {TopFailed(c)} : c \in hopeless}

\* One call of FindMostWorkChain followed by the test that returns at once.
\* It discards every candidate that sorts above the one it returns.
FindMostWorkChain(t) ==
    \/ Usable = {} /\ Discard(candidates) /\ Stay(t, "idle")
    \/ \E best \in Usable :
          /\ \A c \in Usable \ {best} : Worse(nSequenceId, c, best)
          /\ Discard({c \in candidates : Worse(nSequenceId, best, c)})
          /\ \/ best = tip /\ Stay(t, "idle")
             \/ /\ best # tip /\ Goto(t, "step")
                /\ goal' = [goal EXCEPT ![t] = best]
                /\ old' = [old EXCEPT ![t] = tip]

ActivateBestChain(t) ==
    /\ csMainFree
    /\ \/ pc[t] = "activate" /\ \A u \in Threads : ~InActivate(u)
       \/ pc[t] = "loop"
    /\ FindMostWorkChain(t)
    /\ UNCHANGED <<linked, nSequenceId, nBlockSequenceId, pnext, unlinked, tip, coinsTip,
                   dirty, disk, diskTip, cont, left, used>>

\* The coins of b's parent, from those of b and the undo data.  The assertion
\* that the view is at b and the need for undo data are guards.
DisconnectBlock(b) ==
    /\ coinsTip = b
    /\ "undo" \in nStatus[b]
    /\ coinsTip' = Parent[b]

\* FLUSH_STATE_ALWAYS follows; the tip moves when the flush is done.
DisconnectTip(t, c) == DisconnectBlock(tip) /\ Flush(t, c)

\* Mutant: the flush of DisconnectTip is left to a later call.
StepDisconnect_NoFlush(t) ==
    /\ pc[t] = "step" /\ tip \notin Anc[goal[t]]
    /\ coinsTip' = Parent[tip] /\ tip' = Parent[tip]
    /\ UNCHANGED <<index, dirty, disk, diskTip, pc, local, used>>

StepDisconnect(t) ==
    /\ pc[t] = "step" /\ tip \notin Anc[goal[t]]
    /\ DisconnectTip(t, "disconnect")
    /\ UNCHANGED <<index, tip, dirty, disk, diskTip, goal, old, left, used>>

\* b breaks no rule: its coins are applied, its undo data are on disk.
ConnectBlock(b) ==
    /\ coinsTip = Parent[b]
    /\ b \notin BadConnect
    /\ nStatus' = Mark(nStatus, {b}, "undo")
    /\ dirty' = IF "undo" \in nStatus[b] THEN dirty ELSE dirty \cup {b}
    /\ coinsTip' = b

\* ConnectTip of the next block towards the goal.  Flushing is only needed
\* when the cache is large or a new block file begins.
StepConnect(t) ==
    /\ pc[t] = "step" /\ tip \in Anc[goal[t]]
    /\ \E b \in Anc[goal[t]] \ {Genesis} :
          /\ Parent[b] = tip
          /\ ConnectBlock(b)
          /\ \/ /\ Flush(t, "connect")
                /\ UNCHANGED <<tip, candidates, goal, old>>
             \/ /\ AfterConnect(t, b)
                /\ UNCHANGED cont
    /\ UNCHANGED <<linked, nSequenceId, nBlockSequenceId, pnext, unlinked, disk, diskTip,
                   left, used>>

\* Mutant: the state says that the block may only be corrupt.
InvalidBlockFound_CorruptionPossible(b) == UNCHANGED <<nStatus, dirty, candidates>>

InvalidBlockFound(b) ==
    /\ nStatus' = Mark(nStatus, {b}, "failed")
    /\ dirty' = dirty \cup {b}
    /\ candidates' = candidates \ {b}

\* ConnectBlock finds a broken rule, and there is another round.
StepInvalid(t) ==
    /\ pc[t] = "step" /\ tip \in Anc[goal[t]]
    /\ coinsTip = tip
    /\ \E b \in Anc[goal[t]] \ {Genesis} :
          /\ Parent[b] = tip
          /\ b \in BadConnect
          /\ InvalidBlockFound(b)
    /\ Leave(t, "loop")
    /\ UNCHANGED <<linked, nSequenceId, nBlockSequenceId, pnext, unlinked, tip, coinsTip,
                   disk, diskTip, cont, left, used>>

\* The chain is complete: CheckBlockIndex, then a periodic flush.
ActivateExit(t) ==
    /\ pc[t] = "exit" /\ csMainFree
    /\ \/ Flush(t, "return")
       \/ Goto(t, "idle") /\ UNCHANGED cont
    /\ UNCHANGED <<index, tip, coinsTip, dirty, disk, diskTip, goal, old, left, used>>

-----------------------------------------------------------------------------
(* invalidateblock, reconsiderblock and the reprocessing that a completed   *)
(* SwiftX lock asks for.                                                    *)

InvalidateBlock(t, b) ==
    /\ pc[t] = "idle" /\ csMainFree
    /\ b \in mapBlockIndex \ {Genesis}
    /\ Spend("invalidate")
    /\ InvalidBlockFound(b)
    /\ goal' = [goal EXCEPT ![t] = b]
    /\ Goto(t, "invalidate")
    /\ UNCHANGED <<linked, nSequenceId, nBlockSequenceId, pnext, unlinked, tip, coinsTip,
                   disk, diskTip, old, cont, left>>

InvalidateWalk(t) ==
    /\ pc[t] = "invalidate" /\ Contains(goal[t])
    /\ nStatus' = Mark(nStatus, {tip}, "child")
    /\ dirty' = dirty \cup {tip}
    /\ candidates' = candidates \ {tip}
    /\ DisconnectTip(t, "invalidate")
    /\ UNCHANGED <<linked, nSequenceId, nBlockSequenceId, pnext, unlinked, tip,
                   disk, diskTip, goal, old, left, used>>

\* Mutant: the walk is skipped.
WalkDone_AtOnce(t) == TRUE

\* The new tip and its rivals become candidates again.
Rivals == {b \in linked : HaveData(b) /\ ~Failed(b) /\ AsGoodAsTip(b)}
WalkDone(t) == ~Contains(goal[t])

InvalidateDone(t) ==
    /\ pc[t] = "invalidate" /\ WalkDone(t)
    /\ candidates' = candidates \cup Rivals
    /\ Leave(t, "activate")
    /\ UNCHANGED <<nStatus, linked, nSequenceId, nBlockSequenceId, pnext, unlinked, tip,
                   coinsTip, dirty, disk, diskTip, cont, left, used>>

\* b, its descendants and its ancestors lose their failure flags; b and its
\* descendants become candidates.
Reconsider(b) ==
    LET below == {d \in Blocks : Failed(d) /\ b \in Anc[d]}
        above == {a \in Anc[b] : Failed(a)}
    IN  /\ nStatus' = [x \in Blocks |-> IF x \in below \cup above
                                        THEN nStatus[x] \ {"failed", "child"}
                                        ELSE nStatus[x]]
        /\ dirty' = dirty \cup below \cup above
        /\ candidates' = candidates \cup
              {d \in below : HaveData(d) /\ d \in linked /\ Worse(nSequenceId, tip, d)}

ReconsiderBlock(t, b) ==
    /\ pc[t] = "idle" /\ csMainFree
    /\ b \in mapBlockIndex
    /\ Spend("reconsider")
    /\ Reconsider(b)
    /\ Goto(t, "activate")
    /\ UNCHANGED <<linked, nSequenceId, nBlockSequenceId, pnext, unlinked, tip, coinsTip,
                   disk, diskTip, local>>

\* ReprocessBlocks: first the blocks that CheckBlock has rejected for a
\* conflicting lock (mapRejectedBlocks) are reconsidered, failed or not, one
\* critical section each ...
ReprocessBlocks(t) ==
    /\ pc[t] = "idle"
    /\ Spend("reprocess")
    /\ Goto(t, "rejected")
    /\ UNCHANGED <<index, tip, coinsTip, dirty, disk, diskTip, local>>

ReprocessRejected(t, b) ==
    /\ pc[t] = "rejected" /\ csMainFree
    /\ b \in BadConnect \cap mapBlockIndex
    /\ Reconsider(b)
    /\ UNCHANGED <<linked, nSequenceId, nBlockSequenceId, pnext, unlinked, tip, coinsTip,
                   disk, diskTip, pc, local, used>>

\* ... then DisconnectBlocksAndReprocess pops blocks 0..nBlocks off the
\* chain, whether that works or not, and the caller activates.
ReprocessBegin(t) ==
    /\ pc[t] = "rejected" /\ csMainFree
    /\ left' = [left EXCEPT ![t] = ReprocessDepth + 1]
    /\ Goto(t, "reprocess")
    /\ UNCHANGED <<index, tip, coinsTip, dirty, disk, diskTip, goal, old, cont, used>>

DisconnectBlocksAndReprocess(t) ==
    /\ pc[t] = "reprocess"
    /\ IF left[t] = 0
       THEN Goto(t, "activate") /\ UNCHANGED <<coinsTip, cont, left>>
       ELSE /\ left' = [left EXCEPT ![t] = @ - 1]
            /\ IF tip = Genesis
               THEN UNCHANGED <<coinsTip, cont, pc>>
               ELSE DisconnectTip(t, "reprocess")
    /\ UNCHANGED <<index, tip, dirty, disk, diskTip, goal, old, used>>

-----------------------------------------------------------------------------
(* A crash at any point, and LoadBlockIndexDB. *)

OnDisk == {b \in Blocks : disk[b].nStatus # {}}

\* Hashes that LoadBlockIndexGuts meets as hashPrev or hashNext only: it puts
\* an empty entry without a parent into mapBlockIndex for each.
Stubs == ({Parent[b] : b \in OnDisk \ {Genesis}} \cup {disk[b].pnext : b \in OnDisk})
         \ OnDisk

LoadBlockIndexDB ==
    LET status == [b \in Blocks |-> disk[b].nStatus]
        data == {b \in Blocks : "data" \in status[b]}
    IN  /\ nStatus' = status
        /\ pnext' = [b \in Blocks |-> disk[b].pnext]
        /\ linked' = {b \in Blocks : Anc[b] \subseteq data}
        /\ unlinked' = data \ linked'
        /\ nSequenceId' = [b \in Blocks |-> 0]
        /\ nBlockSequenceId' = 1
        /\ tip' = diskTip
        /\ candidates' = {b \in linked' : /\ status[b] \cap {"failed", "child"} = {}
                                         /\ ~Worse(nSequenceId', b, diskTip)}

StartThreads ==
    \E t \in Threads : pc' = [u \in Threads |-> IF u = t THEN "activate" ELSE "idle"]

\* The node restarts and AppInit2 activates the best chain.  What becomes of
\* an index with stubs is not modelled: "torn" is a final state.
Restart ==
    /\ Spend("crash")
    /\ LoadBlockIndexDB
    /\ coinsTip' = diskTip
    /\ dirty' = {}
    /\ \/ Stubs = {} /\ StartThreads
       \/ Stubs # {} /\ pc' = [t \in Threads |-> "torn"]
    /\ goal' = [t \in Threads |-> Genesis]
    /\ old' = [t \in Threads |-> Genesis]
    /\ cont' = [t \in Threads |-> "idle"]
    /\ left' = [t \in Threads |-> 0]
    /\ UNCHANGED <<disk, diskTip>>

-----------------------------------------------------------------------------
\* The node has just created its data directory: InitBlockIndex.
Init ==
    /\ nStatus = [b \in Blocks |-> IF b = Genesis THEN {"tree", "data"} ELSE {}]
    /\ linked = {Genesis}
    /\ nSequenceId = [b \in Blocks |-> IF b = Genesis THEN 1 ELSE 0]
    /\ nBlockSequenceId = 2
    /\ pnext = [b \in Blocks |-> Genesis]
    /\ candidates = {Genesis}
    /\ unlinked = {}
    /\ tip = Genesis /\ coinsTip = Genesis /\ diskTip = Genesis
    /\ dirty = {}
    /\ disk = [b \in Blocks |-> [nStatus |-> nStatus[b], pnext |-> Genesis]]
    /\ pc = [t \in Threads |-> "idle"]
    /\ goal = [t \in Threads |-> Genesis]
    /\ old = [t \in Threads |-> Genesis]
    /\ cont = [t \in Threads |-> "idle"]
    /\ left = [t \in Threads |-> 0]
    /\ used = [w \in Interventions |-> 0]

\* What a thread does on its own once it has begun.
Continue(t) ==
    \/ \E b \in Blocks : WriteBlockIndex(t, b)
    \/ WriteCoins(t) \/ ActivateBestChain(t)
    \/ StepDisconnect(t) \/ StepConnect(t) \/ StepInvalid(t) \/ ActivateExit(t)
    \/ InvalidateWalk(t) \/ InvalidateDone(t)
    \/ ReprocessBegin(t) \/ DisconnectBlocksAndReprocess(t)

Begin(t) ==
    \/ \E b \in Blocks : \/ AcceptBlockHeader(t, b) \/ AcceptBlock(t, b)
                         \/ AcceptDuplicate(t, b) \/ AcceptBlockFails(t, b)
                         \/ InvalidateBlock(t, b) \/ ReconsiderBlock(t, b)
                         \/ ReprocessRejected(t, b)
    \/ ReprocessBlocks(t) \/ FlushStateToDisk(t)

Next == \/ \E t \in Threads : Begin(t) \/ Continue(t) \/ FlushFails(t)
        \/ Restart

Spec == Init /\ [][Next]_vars

\* A thread that holds cs_main runs on; one that waits for it, or for
\* m_cs_chainstate, is not passed over for ever.
FairSpec == Spec /\ \A t \in Threads : SF_vars(Continue(t))

-----------------------------------------------------------------------------
(* Properties *)

\* Type invariant: the status flags, sets and pointers that main.cpp keeps,
\* and the places at which a thread can be.
TypeOK ==
    /\ nStatus \in [Blocks -> SUBSET {"tree", "data", "undo", "failed", "child"}]
    /\ linked \subseteq Blocks /\ candidates \subseteq linked
    /\ unlinked \subseteq Blocks \ linked
    /\ nSequenceId \in [Blocks -> Nat] /\ nBlockSequenceId \in Nat
    /\ pnext \in [Blocks -> Blocks]
    /\ tip \in linked /\ coinsTip \in linked /\ diskTip \in linked
    /\ dirty \subseteq mapBlockIndex
    /\ disk \in [Blocks -> [nStatus : SUBSET {"tree", "data", "undo", "failed", "child"},
                            pnext : Blocks]]
    /\ pc \in [Threads -> {"idle", "activate", "loop", "step", "exit", "flush",
                           "invalidate", "rejected", "reprocess", "torn"}]
    /\ goal \in [Threads -> Blocks] /\ old \in [Threads -> Blocks]
    /\ cont \in [Threads -> {"idle", "connect", "disconnect", "invalidate",
                             "reprocess", "return"}]
    /\ left \in [Threads -> 0..(ReprocessDepth + 1)]
    /\ used \in [Interventions -> Nat]

\* The assertions of CheckBlockIndex; the first is that mapBlockIndex has one
\* entry without a parent (main.cpp:5474).
CheckBlockIndex ==
    /\ \A t \in Threads : pc[t] # "torn"
    /\ \A b \in mapBlockIndex :
          LET missing == \E a \in Anc[b] : ~HaveData(a)
              invalid == \E a \in Anc[b] : "failed" \in nStatus[a]
          IN  /\ b \notin linked => nSequenceId[b] = 0
              /\ missing <=> b \notin linked
              /\ "undo" \in nStatus[b] => \A a \in Anc[b] \ {Genesis} : "undo" \in nStatus[a]
              /\ Failed(b) => invalid
              /\ IF AsGoodAsTip(b) /\ ~missing THEN invalid \/ b \in candidates
                                                ELSE b \notin candidates
              /\ IF b # Genesis /\ HaveData(b) /\ missing THEN invalid \/ b \in unlinked
                                                            ELSE b \notin unlinked

\* When nobody is between two rounds of ActivateBestChain, the assertions of
\* CheckBlockIndex hold (main.cpp:3903 checks them at the end).  Excepted are
\* a node that has crashed, since the index entries are written one by one
\* (3396), and one whose blocks DisconnectBlocksAndReprocess has popped
\* without looking at the candidates (3601).
IndexConsistent ==
    /\ used["crash"] + used["reprocess"] = 0
    /\ \A t \in Threads : pc[t] \in {"idle", "activate", "exit"}
    => CheckBlockIndex

\* The data of b and of all its ancestors have arrived.
Complete(b) == \A a \in Anc[b] : HaveData(a)

\* "The result is either failure or an activated best chain" (main.cpp:3822):
\* when no thread has anything left to do, no block that could be connected
\* is better than the tip.
BestChainActive ==
    (\A t \in Threads : pc[t] = "idle") =>
       \A b \in Blocks : Complete(b) /\ Worse(nSequenceId, tip, b) => \E a \in Anc[b] : Failed(a)

\* FindMostWorkChain does not look at the active chain "as we know all blocks
\* in it are valid already" (main.cpp:3695).
ActiveChainValid == csMainFree => \A b \in Anc[tip] : ~Failed(b)

\* PruneBlockIndexCandidates always leaves something (main.cpp:3746).
CandidatesLeft == csMainFree => candidates # {}

\* ConnectBlock and DisconnectBlock assert that the coins are those of the
\* tip (main.cpp:2539, 3005).
CoinsMatchTip == csMainFree => coinsTip = tip

\* What a crash leaves: the best block of the coin database is a block whose
\* whole chain has its data and undo data in the block index database.
DurableTip ==
    \A b \in Anc[diskTip] \ {Genesis} : {"data", "undo"} \subseteq disk[b].nStatus

\* The coin database is never on a branch the node has left: disconnecting
\* always writes it.
DiskTipOnChain == diskTip \in Anc[tip]

\* A block whose chain is complete is in the end as good as the tip at most,
\* or found to have a failed block below it, however the threads interleave.
GoodBlockActivated ==
    \A b \in Blocks : Complete(b) ~> \/ ~Worse(nSequenceId, tip, b)
                                    \/ \E a \in Anc[b] : Failed(a)

\* ActivateBestChain returns, whatever the other threads do.
ActivationEnds == \A t \in Threads : pc[t] = "activate" ~> pc[t] = "idle"
=============================================================================
