-------------------------- MODULE ChainState_proofs --------------------------
(***************************************************************************)
(* Proofs about ChainState for every block tree, every number of threads   *)
(* and every bound: first the types, the databases and the coins, with     *)
(* crashes and write errors, then the block index and its candidates.      *)
(***************************************************************************)
EXTENDS ChainState, FiniteSetTheorems, TLAPS

Flags == {"tree", "data", "undo", "failed", "child"}
Places == {"idle", "activate", "loop", "step", "exit", "flush", "invalidate",
           "rejected", "reprocess", "torn"}
Callers == {"idle", "connect", "disconnect", "invalidate", "reprocess", "return"}

\* The plain types.
TypeInv ==
    /\ nStatus \in [Blocks -> SUBSET Flags]
    /\ linked \subseteq Blocks /\ candidates \subseteq Blocks /\ unlinked \subseteq Blocks
    /\ nSequenceId \in [Blocks -> Nat] /\ nBlockSequenceId \in Nat
    /\ pnext \in [Blocks -> Blocks]
    /\ tip \in Blocks /\ coinsTip \in Blocks /\ diskTip \in Blocks
    /\ dirty \subseteq Blocks
    /\ disk \in [Blocks -> [nStatus : SUBSET Flags, pnext : Blocks]]
    /\ pc \in [Threads -> Places] /\ cont \in [Threads -> Callers]
    /\ goal \in [Threads -> Blocks] /\ old \in [Threads -> Blocks]
    /\ left \in [Threads -> 0..(ReprocessDepth + 1)]
    /\ used \in [Interventions -> Nat]

\* Memory and disk: what memory knows of a block's data and undo data is on
\* disk too unless the entry is dirty, and the disk knows nothing else.
StatusInv ==
    /\ \A b \in Blocks : \A f \in Flags :
          /\ f \in nStatus[b] => "tree" \in nStatus[b]
          /\ f \in disk[b].nStatus => "tree" \in disk[b].nStatus
    /\ "data" \in disk[Genesis].nStatus /\ "undo" \notin nStatus[Genesis]
    /\ \A b \in Blocks : \A f \in {"data", "undo"} :
          /\ f \in disk[b].nStatus => f \in nStatus[b]
          /\ f \in nStatus[b] /\ b \notin dirty => f \in disk[b].nStatus
    /\ \A b \in dirty : "tree" \in nStatus[b]

\* nChainTx is only set when the whole chain has its data.
LinkInv ==
    /\ \A b \in linked : "data" \in nStatus[b] /\ Anc[b] \subseteq linked
    /\ \A b \in unlinked : "data" \in nStatus[b] /\ b \notin linked
    /\ candidates \subseteq linked

\* The three tips, and the goal of whoever is in a step.
TipInv ==
    /\ tip \in linked /\ coinsTip \in linked /\ diskTip \in linked
    /\ \A b \in Anc[coinsTip] \ {Genesis} : "undo" \in nStatus[b]
    /\ \A b \in Anc[diskTip] \ {Genesis} : {"data", "undo"} \subseteq disk[b].nStatus
    /\ \A t \in Threads :
          \/ pc[t] = "step"
          \/ pc[t] = "flush" /\ cont[t] \in {"connect", "disconnect"}
          => goal[t] \in linked

IndInv == TypeInv /\ StatusInv /\ LinkInv /\ TipInv

LEMMA FlagNames == {"tree", "data", "undo", "failed", "child"} \subseteq Flags
  BY DEF Flags

LEMMA PlaceNames ==
    {"idle", "activate", "loop", "step", "exit", "flush", "invalidate", "rejected",
     "reprocess", "torn"} \subseteq Places
  BY DEF Places

LEMMA CallerNames ==
    {"idle", "connect", "disconnect", "invalidate", "reprocess", "return"} \subseteq Callers
  BY DEF Callers

USE FlagNames, PlaceNames, CallerNames

-----------------------------------------------------------------------------
(* What the helpers do *)

LEMMA MarkType ==
    ASSUME NEW status \in [Blocks -> SUBSET Flags], NEW S, NEW f \in Flags
    PROVE  /\ Mark(status, S, f) \in [Blocks -> SUBSET Flags]
           /\ \A b \in Blocks, x \in Flags :
                 x \in Mark(status, S, f)[b] <=> x \in status[b] \/ (b \in S /\ x = f)
  BY DEF Mark

LEMMA SpendType ==
    ASSUME TypeInv, NEW what \in Interventions, Spend(what)
    PROVE  used' \in [Interventions -> Nat]
  <1>1. used[what] \in Nat
    BY DEF TypeInv
  <1>2. used[what] + 1 \in Nat
    BY <1>1
  <1>3. used' = [used EXCEPT ![what] = used[what] + 1]
    BY DEF Spend
  <1>4. QED
    BY <1>2, <1>3 DEF TypeInv

LEMMA NowLinkedClosed ==
    ASSUME TypeInv, LinkInv, NEW b \in Blocks \ {Genesis}, Parent[b] \in linked,
           NEW d \in NowLinked(b)
    PROVE  d \in Blocks /\ Anc[d] \subseteq linked \cup NowLinked(b)
  <1>1. d \in Blocks
    BY DEF NowLinked, TypeInv
  <1>2. Anc[b] \subseteq linked \cup {b}
    BY TreeAssumption DEF LinkInv
  <1>3. CASE d = b
    BY <1>1, <1>2, <1>3 DEF NowLinked
  <1>4. CASE d # b
    <2>1. d \in unlinked /\ b \in Anc[d] /\ Anc[d] \ Anc[b] \subseteq unlinked
      BY <1>4 DEF NowLinked
    <2>2. SUFFICES ASSUME NEW x \in Anc[d], x \notin Anc[b]
                   PROVE  x \in NowLinked(b)
      BY <1>1, <1>2 DEF NowLinked
    <2>3. x \in Blocks /\ x \in unlinked /\ b \in Anc[x]
      BY <1>1, <2>1, <2>2, TreeAssumption
    <2>4. Anc[x] \subseteq Anc[d]
      BY <1>1, <2>2, TreeAssumption
    <2>5. QED
      BY <2>1, <2>3, <2>4 DEF NowLinked
  <1>5. QED
    BY <1>3, <1>4

LEMMA ReceivedTypes ==
    ASSUME TypeInv, NEW b \in Blocks, ReceivedBlockTransactions(b)
    PROVE  /\ linked' \subseteq Blocks /\ candidates' \subseteq Blocks
           /\ unlinked' \subseteq Blocks
           /\ nSequenceId' \in [Blocks -> Nat] /\ nBlockSequenceId' \in Nat
  <1> DEFINE L == NowLinked(b)
             n == nBlockSequenceId
  <1>1. L \subseteq Blocks
    BY DEF NowLinked, TypeInv
  <1>2. Cardinality(L) \in Nat
    BY <1>1, TreeAssumption, FS_Subset, FS_CardinalityType
  <1>3. CASE Parent[b] \in linked
    <2>1. PICK id \in Injection(L, n..(n + Cardinality(L) - 1)) :
             nSequenceId' = [x \in Blocks |-> IF x \in L THEN id[x] ELSE nSequenceId[x]]
      BY <1>3 DEF ReceivedBlockTransactions
    <2>2. \A x \in L : id[x] \in Nat
      BY <2>1, <1>2 DEF Injection, TypeInv
    <2>3. nSequenceId' \in [Blocks -> Nat]
      BY <2>1, <2>2 DEF TypeInv
    <2>4. /\ candidates' \subseteq Blocks /\ linked' \subseteq Blocks
          /\ unlinked' \subseteq Blocks /\ nBlockSequenceId' \in Nat
      BY <1>1, <1>2, <1>3 DEF ReceivedBlockTransactions, EraseUnlinked, TypeInv
    <2>5. QED
      BY <2>3, <2>4
  <1>4. CASE Parent[b] \notin linked
    BY <1>4 DEF ReceivedBlockTransactions, TypeInv
  <1>5. QED
    BY <1>3, <1>4

\* Received data keeps the linked blocks closed under ancestors.
LEMMA ReceivedLinks ==
    ASSUME TypeInv, LinkInv, NEW b \in Blocks \ {Genesis}, ~HaveData(b),
           ReceivedBlockTransactions(b),
           NEW s, s = nStatus',
           \A x \in Blocks : "data" \in s[x] <=> "data" \in nStatus[x] \/ x = b
    PROVE  LinkInv' /\ linked \subseteq linked'
  <1> DEFINE L == NowLinked(b)
  <1>1. b \notin linked /\ b \notin unlinked
    BY DEF LinkInv, HaveData
  <1>2. CASE Parent[b] \in linked
    <2>1. /\ linked' = linked \cup L /\ unlinked' = unlinked \ L
          /\ candidates' \subseteq candidates \cup L
      BY <1>2 DEF ReceivedBlockTransactions, EraseUnlinked
    <2>2. \A d \in L : d \in Blocks /\ "data" \in nStatus'[d]
      BY DEF NowLinked, LinkInv, TypeInv
    <2>3. \A d \in L : Anc[d] \subseteq linked'
      BY <1>2, <2>1, NowLinkedClosed
    <2>4. QED
      BY <2>1, <2>2, <2>3 DEF LinkInv, TypeInv
  <1>3. CASE Parent[b] \notin linked
    BY <1>1, <1>3 DEF ReceivedBlockTransactions, LinkInv, TypeInv
  <1>4. QED
    BY <1>2, <1>3

LEMMA AddTypes ==
    ASSUME TypeInv, NEW b \in Blocks \ {Genesis}, AddToBlockIndex(b)
    PROVE  pnext' \in [Blocks -> Blocks]
  BY TreeAssumption DEF TypeInv, AddToBlockIndex

\* A step that writes nothing, keeps the data and undo flags and puts every
\* block that gains one of them among the dirty ones.
LEMMA StatusGrows ==
    ASSUME TypeInv, StatusInv, UNCHANGED disk, dirty \subseteq dirty',
           \A x \in Blocks : \A f \in {"data", "undo"} :
              /\ f \in nStatus[x] => f \in nStatus'[x]
              /\ f \in nStatus'[x] => f \in nStatus[x] \/ x \in dirty',
           \A x \in Blocks : \A f \in Flags : f \in nStatus'[x] => "tree" \in nStatus'[x],
           \A x \in dirty' : "tree" \in nStatus'[x],
           "undo" \notin nStatus'[Genesis]
    PROVE  StatusInv'
  <1>1. \A x \in Blocks : \A f \in Flags :
           f \in disk'[x].nStatus => "tree" \in disk'[x].nStatus
    BY DEF StatusInv
  <1>2. \A x \in Blocks : \A f \in {"data", "undo"} :
           /\ f \in disk'[x].nStatus => f \in nStatus'[x]
           /\ f \in nStatus'[x] /\ x \notin dirty' => f \in disk'[x].nStatus
    BY DEF StatusInv
  <1>3. "data" \in disk'[Genesis].nStatus
    BY DEF StatusInv
  <1>4. QED
    BY <1>1, <1>2, <1>3 DEF StatusInv

LEMMA LinksStay ==
    ASSUME LinkInv, UNCHANGED <<linked, unlinked>>, candidates' \subseteq linked, TypeInv,
           \A x \in Blocks : "data" \in nStatus[x] => "data" \in nStatus'[x]
    PROVE  LinkInv'
  BY DEF LinkInv, TypeInv

-----------------------------------------------------------------------------
(* Every action keeps the invariant *)

LEMMA InitInd == Init => IndInv
  <1> SUFFICES ASSUME Init PROVE IndInv
    OBVIOUS
  <1>1. TypeInv
    BY TreeAssumption DEF Init, TypeInv
  <1>2. StatusInv
    BY TreeAssumption DEF Init, StatusInv
  <1>3. LinkInv
    BY TreeAssumption DEF Init, LinkInv
  <1>4. TipInv
    BY TreeAssumption DEF Init, TipInv
  <1>5. QED
    BY <1>1, <1>2, <1>3, <1>4 DEF IndInv

LEMMA HeaderInd ==
    ASSUME IndInv, NEW t \in Threads, NEW b \in Blocks, AcceptBlockHeader(t, b)
    PROVE  IndInv'
  <1>0. b # Genesis /\ nStatus[b] = {}
    BY DEF IndInv, StatusInv, AcceptBlockHeader, mapBlockIndex
  <1>1. TypeInv'
    <2>1. pnext' \in [Blocks -> Blocks]
      BY <1>0, AddTypes DEF IndInv, AcceptBlockHeader
    <2>2. QED
      BY <2>1 DEF IndInv, TypeInv, AcceptBlockHeader, local
  <1>2. StatusInv'
    BY <1>0 DEF IndInv, TypeInv, StatusInv, AcceptBlockHeader
  <1>3. LinkInv'
    BY <1>0 DEF IndInv, TypeInv, LinkInv, AcceptBlockHeader
  <1>4. TipInv'
    BY <1>0, TreeAssumption
    DEF IndInv, TypeInv, LinkInv, TipInv, AcceptBlockHeader, local
  <1>5. QED
    BY <1>1, <1>2, <1>3, <1>4 DEF IndInv

LEMMA AcceptInd ==
    ASSUME IndInv, NEW t \in Threads, NEW b \in Blocks, AcceptBlock(t, b)
    PROVE  IndInv'
  <1>1. /\ b # Genesis /\ "data" \notin nStatus[b]
        /\ ReceivedBlockTransactions(b) /\ ~HaveData(b)
        /\ dirty' = dirty \cup {b}
        /\ UNCHANGED <<tip, coinsTip, disk, diskTip, goal, cont, old, left, used>>
    BY DEF AcceptBlock, Acceptable, HaveData, local
  <1>2. /\ nStatus' \in [Blocks -> SUBSET Flags]
        /\ \A x \in Blocks, f \in Flags :
              f \in nStatus'[x] <=> f \in nStatus[x] \/ (x = b /\ f \in {"tree", "data"})
    <2> DEFINE m == Mark(nStatus, {b}, "tree")
    <2>1. /\ m \in [Blocks -> SUBSET Flags]
          /\ \A x \in Blocks, f \in Flags :
                f \in m[x] <=> f \in nStatus[x] \/ (x \in {b} /\ f = "tree")
      BY MarkType DEF IndInv, TypeInv
    <2>2. nStatus' = Mark(m, {b}, "data")
      BY DEF AcceptBlock
    <2> HIDE DEF m
    <2>3. /\ nStatus' \in [Blocks -> SUBSET Flags]
          /\ \A x \in Blocks, f \in Flags :
                f \in nStatus'[x] <=> f \in m[x] \/ (x \in {b} /\ f = "data")
      BY <2>1, <2>2, MarkType
    <2>4. QED
      BY <2>1, <2>3
  <1>3. TypeInv'
    <2>1. pnext' \in [Blocks -> Blocks]
      BY <1>1, AddTypes DEF IndInv, AcceptBlock
    <2>2. pc' \in [Threads -> Places]
      BY DEF IndInv, TypeInv, AcceptBlock, Goto
    <2>3. QED
      BY <1>1, <1>2, <2>1, <2>2, ReceivedTypes DEF IndInv, TypeInv
  <1>4. StatusInv'
    <2>1. TypeInv /\ StatusInv
      BY DEF IndInv
    <2>2. \A x \in Blocks : \A f \in Flags : f \in nStatus'[x] => "tree" \in nStatus'[x]
      BY <1>2, <2>1 DEF StatusInv
    <2>3. \A x \in dirty' : "tree" \in nStatus'[x]
      BY <1>1, <1>2, <2>1 DEF StatusInv, TypeInv
    <2>4. "undo" \notin nStatus'[Genesis]
      BY <1>2, <2>1, TreeAssumption DEF StatusInv
    <2>5. QED
      BY <1>1, <1>2, <2>1, <2>2, <2>3, <2>4, StatusGrows
  <1>5. LinkInv' /\ linked \subseteq linked'
    BY <1>1, <1>2, ReceivedLinks DEF IndInv
  <1>6. TipInv'
    <2>1. pc' = [pc EXCEPT ![t] = "activate"]
      BY DEF AcceptBlock, Goto
    <2>2. QED
      BY <1>1, <1>2, <1>5, <2>1, TreeAssumption DEF IndInv, TypeInv, LinkInv, TipInv
  <1>7. QED
    BY <1>3, <1>4, <1>5, <1>6 DEF IndInv

LEMMA DuplicateInd ==
    ASSUME IndInv, NEW t \in Threads, NEW b \in Blocks, AcceptDuplicate(t, b)
    PROVE  IndInv'
  <1>1. pc' = [pc EXCEPT ![t] = "activate"]
    BY DEF AcceptDuplicate, Goto
  <1>2. TypeInv'
    BY <1>1 DEF IndInv, TypeInv, AcceptDuplicate, index, local
  <1>3. StatusInv' /\ LinkInv'
    BY DEF IndInv, StatusInv, LinkInv, AcceptDuplicate, index, local
  <1>4. TipInv'
    BY <1>1 DEF IndInv, TypeInv, TipInv, AcceptDuplicate, index, local
  <1>5. QED
    BY <1>2, <1>3, <1>4 DEF IndInv

LEMMA AcceptFailsInd ==
    ASSUME IndInv, NEW t \in Threads, NEW b \in Blocks, AcceptBlockFails(t, b)
    PROVE  IndInv'
  <1>1. /\ b # Genesis
        /\ UNCHANGED <<linked, nSequenceId, nBlockSequenceId, candidates, unlinked, tip,
                       coinsTip, disk, diskTip, pc, goal, cont, old, left, used>>
    BY DEF AcceptBlockFails, Acceptable, local
  <1>2. \/ /\ nStatus' = Mark(Mark(nStatus, {b}, "tree"), {b}, "failed")
           /\ dirty' = dirty \cup {b}
        \/ /\ nStatus' = Mark(nStatus, {b}, "tree")
           /\ dirty' = IF b \in mapBlockIndex THEN dirty ELSE dirty \cup {b}
    BY DEF AcceptBlockFails
  <1>3. /\ nStatus' \in [Blocks -> SUBSET Flags]
        /\ \A x \in Blocks, f \in Flags :
              /\ f \in nStatus[x] => f \in nStatus'[x]
              /\ f \in nStatus'[x] =>
                    f \in nStatus[x] \/ (x = b /\ f \in {"tree", "failed"})
        /\ "tree" \in nStatus'[b]
    <2> DEFINE m == Mark(nStatus, {b}, "tree")
    <2>1. /\ m \in [Blocks -> SUBSET Flags]
          /\ \A x \in Blocks, f \in Flags :
                f \in m[x] <=> f \in nStatus[x] \/ (x \in {b} /\ f = "tree")
      BY MarkType DEF IndInv, TypeInv
    <2>2. nStatus' = m \/ nStatus' = Mark(m, {b}, "failed")
      BY <1>2
    <2> HIDE DEF m
    <2>3. /\ Mark(m, {b}, "failed") \in [Blocks -> SUBSET Flags]
          /\ \A x \in Blocks, f \in Flags :
                f \in Mark(m, {b}, "failed")[x] <=> f \in m[x] \/ (x \in {b} /\ f = "failed")
      BY <2>1, MarkType
    <2>4. CASE nStatus' = m
      BY <2>1, <2>4
    <2>5. CASE nStatus' = Mark(m, {b}, "failed")
      BY <2>1, <2>3, <2>5
    <2>6. QED
      BY <2>2, <2>4, <2>5
  <1>4. dirty' \in {dirty, dirty \cup {b}}
    BY <1>2
  <1>5. TypeInv'
    <2>1. pnext' \in [Blocks -> Blocks]
      BY <1>1, AddTypes DEF IndInv, AcceptBlockFails
    <2>2. QED
      BY <1>1, <1>3, <1>4, <2>1 DEF IndInv, TypeInv
  <1>6. StatusInv'
    <2>1. TypeInv /\ StatusInv
      BY DEF IndInv
    <2>2. \A x \in Blocks : \A f \in Flags : f \in nStatus'[x] => "tree" \in nStatus'[x]
      BY <1>3, <2>1 DEF StatusInv
    <2>3. \A x \in dirty' : "tree" \in nStatus'[x]
      BY <1>3, <1>4, <2>1 DEF StatusInv, TypeInv
    <2>4. "undo" \notin nStatus'[Genesis]
      BY <1>3, <2>1, TreeAssumption DEF StatusInv
    <2>5. QED
      BY <1>1, <1>3, <1>4, <2>1, <2>2, <2>3, <2>4, StatusGrows
  <1>7. LinkInv'
    BY <1>1, <1>3 DEF IndInv, TypeInv, LinkInv
  <1>8. TipInv'
    BY <1>1, <1>3, TreeAssumption DEF IndInv, TypeInv, LinkInv, TipInv
  <1>9. QED
    BY <1>5, <1>6, <1>7, <1>8 DEF IndInv

LEMMA WriteBlockIndexInd ==
    ASSUME IndInv, NEW t \in Threads, NEW b \in Blocks, WriteBlockIndex(t, b)
    PROVE  IndInv'
  <1>1. /\ disk' = [disk EXCEPT ![b] = [nStatus |-> nStatus[b], pnext |-> pnext[b]]]
        /\ dirty' = dirty \ {b}
        /\ UNCHANGED <<nStatus, linked, nSequenceId, nBlockSequenceId, pnext, candidates,
                       unlinked, tip, coinsTip, diskTip, pc, goal, old, cont, left, used>>
    BY DEF WriteBlockIndex, index, local
  <1>2. TypeInv'
    BY <1>1 DEF IndInv, TypeInv
  <1>3. \A x \in Blocks : disk'[x].nStatus = IF x = b THEN nStatus[x] ELSE disk[x].nStatus
    BY <1>1 DEF IndInv, TypeInv
  <1>4. StatusInv'
    <2>1. StatusInv /\ TypeInv
      BY DEF IndInv
    <2>2. \A x \in Blocks : \A f \in Flags :
             /\ f \in nStatus'[x] => "tree" \in nStatus'[x]
             /\ f \in disk'[x].nStatus => "tree" \in disk'[x].nStatus
      BY <1>1, <1>3, <2>1 DEF StatusInv
    <2>3. \A x \in Blocks : \A f \in {"data", "undo"} :
             /\ f \in disk'[x].nStatus => f \in nStatus'[x]
             /\ f \in nStatus'[x] /\ x \notin dirty' => f \in disk'[x].nStatus
      BY <1>1, <1>3, <2>1 DEF StatusInv
    <2>4. /\ "data" \in disk'[Genesis].nStatus /\ "undo" \notin nStatus'[Genesis]
          /\ \A x \in dirty' : "tree" \in nStatus'[x]
      BY <1>1, <1>3, <2>1, TreeAssumption DEF StatusInv
    <2>5. QED
      BY <2>2, <2>3, <2>4 DEF StatusInv
  <1>5. LinkInv'
    BY <1>1 DEF IndInv, LinkInv
  <1>6. TipInv'
    <2>1. \A x \in Anc[diskTip] \ {Genesis} : {"data", "undo"} \subseteq disk'[x].nStatus
      <3>1. \A x \in Anc[diskTip] : x \in Blocks
        BY TreeAssumption DEF IndInv, TypeInv
      <3>2. \A x \in Anc[diskTip] \ {Genesis} : "data" \in disk'[x].nStatus
        BY <1>3, <3>1 DEF IndInv, StatusInv, TipInv
      <3>3. \A x \in Anc[diskTip] \ {Genesis} : "undo" \in disk'[x].nStatus
        BY <1>3, <3>1 DEF IndInv, StatusInv, TipInv
      <3>4. QED
        BY <3>2, <3>3
    <2>2. QED
      BY <1>1, <2>1 DEF IndInv, TipInv
  <1>7. QED
    BY <1>2, <1>4, <1>5, <1>6 DEF IndInv

\* What AfterConnect does to the thread that calls it.
LEMMA AfterConnectTypes ==
    ASSUME TypeInv, NEW t \in Threads, NEW b \in Blocks, AfterConnect(t, b)
    PROVE  /\ tip' = b /\ candidates' \subseteq candidates
           /\ pc' \in [Threads -> Places] /\ pc'[t] # "flush"
           /\ \A u \in Threads \ {t} : pc'[u] = pc[u]
           /\ goal' \in [Threads -> Blocks] /\ old' \in [Threads -> Blocks]
           /\ \A u \in Threads \ {t} : goal'[u] = goal[u]
           /\ pc'[t] = "step" => goal'[t] = goal[t]
  <1>1. tip' = b /\ candidates' \subseteq candidates
    BY DEF AfterConnect, Pruned
  <1>2. CASE Leave(t, "exit")
    BY <1>1, <1>2, TreeAssumption DEF Leave, Goto, TypeInv
  <1>3. CASE Leave(t, "loop")
    BY <1>1, <1>3, TreeAssumption DEF Leave, Goto, TypeInv
  <1>4. CASE Stay(t, "step")
    BY <1>1, <1>4 DEF Stay, Goto, TypeInv
  <1>5. QED
    BY <1>2, <1>3, <1>4 DEF AfterConnect

LEMMA WriteCoinsInd ==
    ASSUME IndInv, NEW t \in Threads, WriteCoins(t)
    PROVE  IndInv'
  <1>1. /\ pc[t] = "flush" /\ dirty = {} /\ diskTip' = coinsTip
        /\ cont' = [cont EXCEPT ![t] = "idle"]
        /\ UNCHANGED <<nStatus, linked, nSequenceId, nBlockSequenceId, pnext, unlinked,
                       coinsTip, dirty, disk, left, used>>
    BY DEF WriteCoins, CoinsWritten
  <1>2. /\ tip' \in {tip, coinsTip} /\ candidates' \subseteq candidates
        /\ pc' \in [Threads -> Places] /\ pc'[t] # "flush"
        /\ \A u \in Threads \ {t} : pc'[u] = pc[u]
        /\ goal' \in [Threads -> Blocks] /\ old' \in [Threads -> Blocks]
        /\ \A u \in Threads \ {t} : goal'[u] = goal[u]
        /\ pc'[t] = "step" => goal'[t] = goal[t] /\ cont[t] \in {"connect", "disconnect"}
    <2>1. CASE cont[t] = "connect" /\ AfterConnect(t, coinsTip)
      BY <2>1, AfterConnectTypes DEF IndInv, TypeInv
    <2>2. CASE /\ cont[t] = "disconnect" /\ tip' = coinsTip
               /\ Stay(t, "step") /\ UNCHANGED candidates
      BY <2>2 DEF IndInv, TypeInv, Stay, Goto
    <2>3. CASE /\ cont[t] \in {"invalidate", "reprocess"} /\ tip' = coinsTip
               /\ Stay(t, cont[t]) /\ UNCHANGED candidates
      BY <2>3 DEF IndInv, TypeInv, Stay, Goto
    <2>4. CASE /\ cont[t] \in {"return", "idle"}
               /\ Stay(t, "idle") /\ UNCHANGED <<tip, candidates>>
      BY <2>4 DEF IndInv, TypeInv, Stay, Goto
    <2>5. QED
      BY <2>1, <2>2, <2>3, <2>4 DEF WriteCoins, CoinsWritten
  <1>3. TypeInv'
    BY <1>1, <1>2 DEF IndInv, TypeInv
  <1>4. StatusInv'
    BY <1>1 DEF IndInv, StatusInv
  <1>5. LinkInv'
    BY <1>1, <1>2 DEF IndInv, LinkInv
  <1>6. TipInv'
    <2>1. tip' \in linked /\ coinsTip' \in linked /\ diskTip' \in linked
      BY <1>1, <1>2 DEF IndInv, TipInv
    <2>2. \A x \in Anc[coinsTip] \ {Genesis} : {"data", "undo"} \subseteq disk[x].nStatus
      BY <1>1, TreeAssumption DEF IndInv, TypeInv, StatusInv, LinkInv, TipInv
    <2>3. QED
      BY <1>1, <1>2, <2>1, <2>2 DEF IndInv, TypeInv, TipInv
  <1>7. QED
    BY <1>3, <1>4, <1>5, <1>6 DEF IndInv

LEMMA FlushFailsInd ==
    ASSUME IndInv, NEW t \in Threads, FlushFails(t)
    PROVE  IndInv'
  <1>1. /\ pc' \in [Threads -> Places] /\ pc'[t] \in {"idle", "reprocess"}
        /\ \A u \in Threads \ {t} : pc'[u] = pc[u] /\ cont'[u] = cont[u] /\ goal'[u] = goal[u]
        /\ cont' \in [Threads -> Callers]
        /\ goal' \in [Threads -> Blocks] /\ old' \in [Threads -> Blocks]
    BY TreeAssumption DEF IndInv, TypeInv, FlushFails, Leave, Goto
  <1>2. TypeInv'
    BY <1>1 DEF IndInv, TypeInv, FlushFails, index
  <1>3. StatusInv' /\ LinkInv'
    BY DEF IndInv, StatusInv, LinkInv, FlushFails, index
  <1>4. TipInv'
    BY <1>1 DEF IndInv, TypeInv, TipInv, FlushFails, index
  <1>5. QED
    BY <1>2, <1>3, <1>4 DEF IndInv

LEMMA FlushInd ==
    ASSUME IndInv, NEW t \in Threads, FlushStateToDisk(t)
    PROVE  IndInv'
  <1>1. /\ pc' = [pc EXCEPT ![t] = "flush"] /\ cont' = [cont EXCEPT ![t] = "idle"]
    BY DEF FlushStateToDisk, Flush, Goto
  <1>2. TypeInv'
    BY <1>1 DEF IndInv, TypeInv, FlushStateToDisk, index
  <1>3. StatusInv' /\ LinkInv'
    BY DEF IndInv, StatusInv, LinkInv, FlushStateToDisk, index
  <1>4. TipInv'
    BY <1>1 DEF IndInv, TypeInv, TipInv, FlushStateToDisk, index
  <1>5. QED
    BY <1>2, <1>3, <1>4 DEF IndInv

\* Blocks of the index can be marked as failed, or cleared of failure flags,
\* and become dirty.
LEMMA FailureFlags ==
    ASSUME TypeInv, StatusInv, UNCHANGED disk,
           NEW M, M \subseteq dirty', dirty' \subseteq dirty \cup M, dirty \subseteq dirty',
           \A x \in Blocks : \A f \in {"tree", "data", "undo"} :
              f \in nStatus'[x] <=> f \in nStatus[x],
           \A x \in Blocks : \A f \in Flags :
              f \in nStatus'[x] => f \in nStatus[x] \/ "tree" \in nStatus[x],
           \A x \in M : x \in Blocks /\ "tree" \in nStatus[x]
    PROVE  StatusInv'
  <1>1. \A x \in Blocks : \A f \in Flags : f \in nStatus'[x] => "tree" \in nStatus'[x]
    BY DEF StatusInv
  <1>2. \A x \in dirty' : "tree" \in nStatus'[x]
    BY DEF StatusInv, TypeInv
  <1>3. "undo" \notin nStatus'[Genesis]
    BY TreeAssumption DEF StatusInv
  <1>4. QED
    BY <1>1, <1>2, <1>3, StatusGrows

LEMMA ActivateInd ==
    ASSUME IndInv, NEW t \in Threads, ActivateBestChain(t)
    PROVE  IndInv'
  <1>1. PICK hopeless \in SUBSET candidates : Discard(hopeless)
    BY DEF ActivateBestChain, FindMostWorkChain
  <1> DEFINE M == UNION {Anc[c] \ Anc[TopFailed(c)] : c \in hopeless}
  <1>2. /\ nStatus' = Mark(nStatus, M, "child")
        /\ candidates' \subseteq candidates
        /\ UNCHANGED <<linked, nSequenceId, nBlockSequenceId, pnext, unlinked, tip,
                       coinsTip, dirty, disk, diskTip, cont, left, used>>
    BY <1>1 DEF ActivateBestChain, Discard
  <1>3. M \subseteq linked
    BY <1>1 DEF IndInv, LinkInv
  <1> HIDE DEF M
  <1>4. /\ nStatus' \in [Blocks -> SUBSET Flags]
        /\ \A x \in Blocks, f \in Flags :
              f \in nStatus'[x] <=> f \in nStatus[x] \/ (x \in M /\ f = "child")
    BY <1>2, MarkType DEF IndInv, TypeInv
  <1> DEFINE Moves ==
        /\ pc' \in [Threads -> Places] /\ pc'[t] \in {"idle", "step"}
        /\ goal' \in [Threads -> Blocks] /\ old' \in [Threads -> Blocks]
        /\ \A u \in Threads \ {t} : pc'[u] = pc[u] /\ goal'[u] = goal[u]
        /\ pc'[t] = "step" => goal'[t] \in linked
  <1>5. Moves
    <2>1. CASE Stay(t, "idle")
      BY <2>1 DEF IndInv, TypeInv, Stay, Goto
    <2>2. ASSUME NEW best \in Usable, Goto(t, "step"),
                 goal' = [goal EXCEPT ![t] = best], old' = [old EXCEPT ![t] = tip]
          PROVE  Moves
      <3>1. best \in linked /\ best \in Blocks
        BY DEF IndInv, TypeInv, LinkInv, Usable
      <3>2. QED
        BY <2>2, <3>1 DEF IndInv, TypeInv, Goto
    <2>3. QED
      BY <2>1, <2>2 DEF ActivateBestChain, FindMostWorkChain
  <1>6. TypeInv'
    BY <1>2, <1>4, <1>5 DEF IndInv, TypeInv
  <1>7. StatusInv'
    <2>1. \A x \in M : x \in Blocks /\ "tree" \in nStatus[x]
      BY <1>3 DEF IndInv, TypeInv, StatusInv, LinkInv
    <2>2. /\ \A x \in Blocks : \A f \in {"tree", "data", "undo"} :
                f \in nStatus'[x] <=> f \in nStatus[x]
          /\ \A x \in Blocks : \A f \in Flags :
                f \in nStatus'[x] => f \in nStatus[x] \/ "tree" \in nStatus[x]
      BY <1>4, <2>1
    <2> DEFINE none == {}
    <2>3. none \subseteq dirty' /\ dirty' \subseteq dirty \cup none /\ dirty \subseteq dirty'
      BY <1>2
    <2>4. \A x \in none : x \in Blocks /\ "tree" \in nStatus[x]
      OBVIOUS
    <2> HIDE DEF none
    <2>5. QED
      BY <1>2, <2>2, <2>3, <2>4, FailureFlags DEF IndInv
  <1>8. LinkInv'
    BY <1>2, <1>4, LinksStay DEF IndInv, LinkInv
  <1>9. TipInv'
    BY <1>2, <1>4, <1>5, TreeAssumption DEF IndInv, TypeInv, TipInv
  <1>10. QED
    BY <1>6, <1>7, <1>8, <1>9 DEF IndInv

\* Disconnecting moves the coins to the parent of the tip.
LEMMA DisconnectParent ==
    ASSUME IndInv, NEW t \in Threads, NEW c \in Callers, DisconnectTip(t, c)
    PROVE  /\ tip # Genesis /\ coinsTip = tip /\ coinsTip' = Parent[tip]
           /\ coinsTip' \in Blocks /\ coinsTip' \in linked
           /\ Anc[coinsTip'] \subseteq Anc[coinsTip]
           /\ pc' = [pc EXCEPT ![t] = "flush"] /\ cont' = [cont EXCEPT ![t] = c]
  <1>1. /\ coinsTip = tip /\ coinsTip' = Parent[tip] /\ tip # Genesis
        /\ pc' = [pc EXCEPT ![t] = "flush"] /\ cont' = [cont EXCEPT ![t] = c]
    BY DEF DisconnectTip, DisconnectBlock, Flush, Goto, IndInv, StatusInv
  <1>2. Parent[tip] \in Blocks /\ Parent[tip] \in Anc[tip] /\ Anc[Parent[tip]] \subseteq Anc[tip]
    BY <1>1, TreeAssumption DEF IndInv, TypeInv
  <1>3. QED
    BY <1>1, <1>2 DEF IndInv, TipInv, LinkInv

LEMMA StepDisconnectInd ==
    ASSUME IndInv, NEW t \in Threads, StepDisconnect(t)
    PROVE  IndInv'
  <1>1. /\ coinsTip' \in Blocks /\ coinsTip' \in linked
        /\ Anc[coinsTip'] \subseteq Anc[coinsTip]
        /\ pc' = [pc EXCEPT ![t] = "flush"] /\ cont' = [cont EXCEPT ![t] = "disconnect"]
    BY DisconnectParent DEF StepDisconnect
  <1>2. TypeInv'
    BY <1>1 DEF IndInv, TypeInv, StepDisconnect, index
  <1>3. StatusInv' /\ LinkInv'
    BY DEF IndInv, StatusInv, LinkInv, StepDisconnect, index
  <1>4. TipInv'
    BY <1>1 DEF IndInv, TypeInv, TipInv, StepDisconnect, index
  <1>5. QED
    BY <1>2, <1>3, <1>4 DEF IndInv

LEMMA StepConnectInd ==
    ASSUME IndInv, NEW t \in Threads, StepConnect(t)
    PROVE  IndInv'
  <1>1. PICK b \in Anc[goal[t]] \ {Genesis} :
          /\ Parent[b] = tip
          /\ nStatus' = Mark(nStatus, {b}, "undo")
          /\ dirty' = IF "undo" \in nStatus[b] THEN dirty ELSE dirty \cup {b}
          /\ coinsTip' = b
          /\ \/ Flush(t, "connect") /\ UNCHANGED <<tip, candidates, goal, old>>
             \/ AfterConnect(t, b) /\ UNCHANGED cont
    BY DEF StepConnect, ConnectBlock
  <1>2. /\ pc[t] = "step" /\ coinsTip = tip
        /\ UNCHANGED <<linked, nSequenceId, nBlockSequenceId, pnext, unlinked, disk,
                       diskTip, left, used>>
    BY DEF StepConnect, ConnectBlock
  <1>3. b \in Blocks /\ b \in linked /\ Anc[b] = {b} \cup Anc[coinsTip] /\ goal[t] \in linked
    BY <1>1, <1>2, TreeAssumption DEF IndInv, TypeInv, LinkInv, TipInv
  <1>4. /\ nStatus' \in [Blocks -> SUBSET Flags]
        /\ \A x \in Blocks, f \in Flags :
              f \in nStatus'[x] <=> f \in nStatus[x] \/ (x \in {b} /\ f = "undo")
    BY <1>1, MarkType DEF IndInv, TypeInv
  <1> DEFINE Moves ==
        /\ tip' \in {tip, b} /\ candidates' \subseteq candidates
        /\ pc' \in [Threads -> Places] /\ cont' \in [Threads -> Callers]
        /\ goal' \in [Threads -> Blocks] /\ old' \in [Threads -> Blocks]
        /\ \A u \in Threads \ {t} : pc'[u] = pc[u] /\ goal'[u] = goal[u] /\ cont'[u] = cont[u]
        /\ pc'[t] \in {"step", "flush"} => goal'[t] = goal[t]
  <1>5. Moves
    <2>1. CASE Flush(t, "connect") /\ UNCHANGED <<tip, candidates, goal, old>>
      BY <2>1 DEF IndInv, TypeInv, Flush, Goto
    <2>2. CASE AfterConnect(t, b) /\ UNCHANGED cont
      BY <2>2, <1>3, AfterConnectTypes DEF IndInv, TypeInv
    <2>3. QED
      BY <1>1, <2>1, <2>2
  <1>6. TypeInv'
    BY <1>1, <1>2, <1>3, <1>4, <1>5 DEF IndInv, TypeInv
  <1>7. StatusInv'
    <2>1. TypeInv /\ StatusInv /\ "tree" \in nStatus[b] /\ b # Genesis
      BY <1>1, <1>3 DEF IndInv, TypeInv, StatusInv, LinkInv
    <2>2. \A x \in Blocks : \A f \in Flags : f \in nStatus'[x] => "tree" \in nStatus'[x]
      BY <1>4, <2>1 DEF StatusInv
    <2>3. dirty \subseteq dirty' /\ \A x \in dirty' : "tree" \in nStatus'[x]
      BY <1>1, <1>3, <1>4, <2>1 DEF StatusInv, TypeInv
    <2>4. "undo" \notin nStatus'[Genesis]
      BY <1>4, <2>1, TreeAssumption DEF StatusInv
    <2>5. \A x \in Blocks : \A f \in {"data", "undo"} :
              /\ f \in nStatus[x] => f \in nStatus'[x]
              /\ f \in nStatus'[x] => f \in nStatus[x] \/ x \in dirty'
      BY <1>1, <1>4
    <2>6. QED
      BY <1>2, <2>1, <2>2, <2>3, <2>4, <2>5, StatusGrows
  <1>8. LinkInv'
    BY <1>2, <1>4, <1>5, LinksStay DEF IndInv, LinkInv
  <1>9. TipInv'
    <2>1. tip' \in linked /\ coinsTip' \in linked /\ diskTip' \in linked
      BY <1>1, <1>2, <1>3, <1>5 DEF IndInv, TipInv
    <2>2. \A x \in Anc[coinsTip'] \ {Genesis} : "undo" \in nStatus'[x]
      BY <1>1, <1>3, <1>4, TreeAssumption DEF IndInv, TypeInv, TipInv
    <2>3. QED
      BY <1>2, <1>3, <1>5, <2>1, <2>2 DEF IndInv, TypeInv, TipInv
  <1>10. QED
    BY <1>6, <1>7, <1>8, <1>9 DEF IndInv

\* InvalidBlockFound, on a block of the index.
LEMMA InvalidFound ==
    ASSUME IndInv, NEW b \in Blocks, "tree" \in nStatus[b], InvalidBlockFound(b),
           UNCHANGED <<disk, linked, unlinked>>
    PROVE  /\ nStatus' \in [Blocks -> SUBSET Flags] /\ dirty' \subseteq Blocks
           /\ candidates' \subseteq candidates
           /\ \A x \in Blocks : "undo" \in nStatus[x] => "undo" \in nStatus'[x]
           /\ StatusInv' /\ LinkInv'
  <1>1. /\ nStatus' = Mark(nStatus, {b}, "failed")
        /\ dirty' = dirty \cup {b} /\ candidates' = candidates \ {b}
    BY DEF InvalidBlockFound
  <1>2. /\ nStatus' \in [Blocks -> SUBSET Flags]
        /\ \A x \in Blocks, f \in Flags :
              f \in nStatus'[x] <=> f \in nStatus[x] \/ (x \in {b} /\ f = "failed")
    BY <1>1, MarkType DEF IndInv, TypeInv
  <1>3. StatusInv'
    <2> DEFINE M == {b}
    <2>1. M \subseteq dirty' /\ dirty' \subseteq dirty \cup M /\ dirty \subseteq dirty'
      BY <1>1
    <2>2. \A x \in M : x \in Blocks /\ "tree" \in nStatus[x]
      OBVIOUS
    <2> HIDE DEF M
    <2>3. QED
      BY <1>2, <2>1, <2>2, FailureFlags DEF IndInv
  <1>4. LinkInv'
    BY <1>1, <1>2, LinksStay DEF IndInv, LinkInv
  <1>5. QED
    BY <1>1, <1>2, <1>3, <1>4 DEF IndInv, TypeInv

LEMMA StepInvalidInd ==
    ASSUME IndInv, NEW t \in Threads, StepInvalid(t)
    PROVE  IndInv'
  <1>1. PICK b \in Anc[goal[t]] : InvalidBlockFound(b)
    BY DEF StepInvalid
  <1>2. /\ pc[t] = "step" /\ Leave(t, "loop")
        /\ UNCHANGED <<linked, nSequenceId, nBlockSequenceId, pnext, unlinked, tip,
                       coinsTip, disk, diskTip, cont, left, used>>
    BY DEF StepInvalid
  <1>3. b \in Blocks /\ "tree" \in nStatus[b]
    BY <1>1, <1>2, TreeAssumption DEF IndInv, TypeInv, StatusInv, LinkInv, TipInv
  <1>4. /\ nStatus' \in [Blocks -> SUBSET Flags] /\ dirty' \subseteq Blocks
        /\ candidates' \subseteq candidates
        /\ \A x \in Blocks : "undo" \in nStatus[x] => "undo" \in nStatus'[x]
        /\ StatusInv' /\ LinkInv'
    BY <1>1, <1>2, <1>3, InvalidFound
  <1>5. /\ pc' = [pc EXCEPT ![t] = "loop"] /\ goal' = [goal EXCEPT ![t] = Genesis]
        /\ old' = [old EXCEPT ![t] = Genesis]
    BY <1>2 DEF Leave, Goto
  <1>6. TypeInv'
    BY <1>2, <1>4, <1>5, TreeAssumption DEF IndInv, TypeInv
  <1>7. TipInv'
    BY <1>2, <1>4, <1>5, TreeAssumption DEF IndInv, TypeInv, TipInv
  <1>8. QED
    BY <1>4, <1>6, <1>7 DEF IndInv

LEMMA ExitInd ==
    ASSUME IndInv, NEW t \in Threads, ActivateExit(t)
    PROVE  IndInv'
  <1>1. /\ pc' = [pc EXCEPT ![t] = "flush"] \/ pc' = [pc EXCEPT ![t] = "idle"]
        /\ cont' = [cont EXCEPT ![t] = "return"] \/ (cont' = cont /\ pc'[t] # "flush")
    BY DEF ActivateExit, Flush, Goto, IndInv, TypeInv
  <1>2. TypeInv'
    BY <1>1 DEF IndInv, TypeInv, ActivateExit, index
  <1>3. StatusInv' /\ LinkInv'
    BY DEF IndInv, StatusInv, LinkInv, ActivateExit, index
  <1>4. TipInv'
    BY <1>1 DEF IndInv, TypeInv, TipInv, ActivateExit, index
  <1>5. QED
    BY <1>2, <1>3, <1>4 DEF IndInv

LEMMA InvalidateInd ==
    ASSUME IndInv, NEW t \in Threads, NEW b \in Blocks, InvalidateBlock(t, b)
    PROVE  IndInv'
  <1>1. /\ pc' = [pc EXCEPT ![t] = "invalidate"] /\ goal' = [goal EXCEPT ![t] = b]
        /\ InvalidBlockFound(b)
        /\ UNCHANGED <<linked, nSequenceId, nBlockSequenceId, pnext, unlinked, tip,
                       coinsTip, disk, diskTip, old, cont, left>>
    BY DEF InvalidateBlock, Goto
  <1>2. used' \in [Interventions -> Nat]
    BY SpendType DEF InvalidateBlock, IndInv, Interventions
  <1>3. "tree" \in nStatus[b]
    <2>1. nStatus[b] # {} /\ nStatus[b] \subseteq Flags
      BY DEF InvalidateBlock, mapBlockIndex, IndInv, TypeInv
    <2>2. QED
      BY <2>1 DEF IndInv, StatusInv
  <1>4. /\ nStatus' \in [Blocks -> SUBSET Flags] /\ dirty' \subseteq Blocks
        /\ candidates' \subseteq candidates
        /\ \A x \in Blocks : "undo" \in nStatus[x] => "undo" \in nStatus'[x]
        /\ StatusInv' /\ LinkInv'
    BY <1>1, <1>3, InvalidFound
  <1>5. TypeInv'
    BY <1>1, <1>2, <1>4 DEF IndInv, TypeInv
  <1>6. TipInv'
    BY <1>1, <1>4, TreeAssumption DEF IndInv, TypeInv, TipInv
  <1>7. QED
    BY <1>4, <1>5, <1>6 DEF IndInv

LEMMA WalkInd ==
    ASSUME IndInv, NEW t \in Threads, InvalidateWalk(t)
    PROVE  IndInv'
  <1>1. /\ nStatus' = Mark(nStatus, {tip}, "child")
        /\ dirty' = dirty \cup {tip} /\ candidates' = candidates \ {tip}
        /\ UNCHANGED <<linked, nSequenceId, nBlockSequenceId, pnext, unlinked, tip,
                       disk, diskTip, goal, old, left, used>>
    BY DEF InvalidateWalk
  <1>2. /\ coinsTip' \in Blocks /\ coinsTip' \in linked
        /\ Anc[coinsTip'] \subseteq Anc[coinsTip]
        /\ pc' = [pc EXCEPT ![t] = "flush"] /\ cont' = [cont EXCEPT ![t] = "invalidate"]
    BY DisconnectParent DEF InvalidateWalk
  <1>3. /\ nStatus' \in [Blocks -> SUBSET Flags]
        /\ \A x \in Blocks, f \in Flags :
              f \in nStatus'[x] <=> f \in nStatus[x] \/ (x \in {tip} /\ f = "child")
    BY <1>1, MarkType DEF IndInv, TypeInv
  <1>4. TypeInv'
    BY <1>1, <1>2, <1>3 DEF IndInv, TypeInv
  <1>5. StatusInv'
    <2> DEFINE M == {tip}
    <2>1. M \subseteq dirty' /\ dirty' \subseteq dirty \cup M /\ dirty \subseteq dirty'
      BY <1>1
    <2>2. \A x \in M : x \in Blocks /\ "tree" \in nStatus[x]
      BY DEF IndInv, TypeInv, StatusInv, LinkInv, TipInv
    <2>3. /\ \A x \in Blocks : \A f \in {"tree", "data", "undo"} :
                f \in nStatus'[x] <=> f \in nStatus[x]
          /\ \A x \in Blocks : \A f \in Flags :
                f \in nStatus'[x] => f \in nStatus[x] \/ "tree" \in nStatus[x]
      BY <1>3, <2>2
    <2> HIDE DEF M
    <2>4. QED
      BY <1>1, <2>1, <2>2, <2>3, FailureFlags DEF IndInv
  <1>6. LinkInv'
    BY <1>1, <1>3, LinksStay DEF IndInv, LinkInv
  <1>7. TipInv'
    <2>1. \A x \in Anc[coinsTip'] \ {Genesis} : "undo" \in nStatus'[x]
      <3>1. SUFFICES ASSUME NEW x \in Anc[coinsTip'] \ {Genesis}
                     PROVE  "undo" \in nStatus'[x]
        OBVIOUS
      <3>2. x \in Blocks /\ x \in Anc[coinsTip] \ {Genesis}
        BY <1>2, TreeAssumption
      <3>3. "undo" \in nStatus[x]
        BY <3>2 DEF IndInv, TipInv
      <3>4. QED
        BY <1>3, <3>2, <3>3
    <2>2. QED
      BY <1>1, <1>2, <2>1 DEF IndInv, TypeInv, TipInv
  <1>8. QED
    BY <1>4, <1>5, <1>6, <1>7 DEF IndInv

LEMMA InvalidateDoneInd ==
    ASSUME IndInv, NEW t \in Threads, InvalidateDone(t)
    PROVE  IndInv'
  <1>1. /\ candidates' = candidates \cup Rivals
        /\ pc' = [pc EXCEPT ![t] = "activate"] /\ goal' = [goal EXCEPT ![t] = Genesis]
        /\ old' = [old EXCEPT ![t] = Genesis]
        /\ UNCHANGED <<nStatus, linked, nSequenceId, nBlockSequenceId, pnext, unlinked, tip,
                       coinsTip, dirty, disk, diskTip, cont, left, used>>
    BY DEF InvalidateDone, Leave, Goto
  <1>2. Rivals \subseteq linked
    BY DEF Rivals
  <1>3. TypeInv'
    BY <1>1, <1>2, TreeAssumption DEF IndInv, TypeInv
  <1>4. StatusInv'
    BY <1>1 DEF IndInv, StatusInv
  <1>5. LinkInv'
    BY <1>1, <1>2 DEF IndInv, LinkInv
  <1>6. TipInv'
    BY <1>1 DEF IndInv, TypeInv, TipInv
  <1>7. QED
    BY <1>3, <1>4, <1>5, <1>6 DEF IndInv

LEMMA ReconsiderKeeps ==
    ASSUME IndInv, NEW b \in Blocks, Reconsider(b), UNCHANGED <<disk, linked, unlinked>>
    PROVE  /\ nStatus' \in [Blocks -> SUBSET Flags] /\ dirty' \subseteq Blocks
           /\ candidates' \subseteq Blocks
           /\ \A x \in Blocks : "undo" \in nStatus[x] => "undo" \in nStatus'[x]
           /\ StatusInv' /\ LinkInv'
  <1> DEFINE M == {d \in Blocks : Failed(d) /\ b \in Anc[d]} \cup {a \in Anc[b] : Failed(a)}
  <1>1. /\ nStatus' = [x \in Blocks |-> IF x \in M THEN nStatus[x] \ {"failed", "child"}
                                               ELSE nStatus[x]]
        /\ dirty' = dirty \cup M
        /\ candidates' \subseteq candidates \cup linked
    BY DEF Reconsider
  <1>2. \A x \in M : x \in Blocks /\ "tree" \in nStatus[x]
    <2>1. \A x \in M : x \in Blocks /\ Failed(x)
      BY TreeAssumption
    <2>2. \A x \in M : "failed" \in nStatus[x] \/ "child" \in nStatus[x]
      BY <2>1 DEF Failed
    <2>3. QED
      BY <2>1, <2>2 DEF IndInv, StatusInv
  <1> HIDE DEF M
  <1>3. /\ nStatus' \in [Blocks -> SUBSET Flags]
        /\ \A x \in Blocks : \A f \in {"tree", "data", "undo"} :
              f \in nStatus'[x] <=> f \in nStatus[x]
        /\ \A x \in Blocks : \A f \in Flags : f \in nStatus'[x] => f \in nStatus[x]
    BY <1>1 DEF IndInv, TypeInv
  <1>4. StatusInv'
    BY <1>1, <1>2, <1>3, FailureFlags DEF IndInv
  <1>5. LinkInv'
    BY <1>1, <1>3, LinksStay DEF IndInv, LinkInv
  <1>6. QED
    BY <1>1, <1>2, <1>3, <1>4, <1>5 DEF IndInv, TypeInv

LEMMA ReconsiderInd ==
    ASSUME IndInv, NEW t \in Threads, NEW b \in Blocks,
           ReconsiderBlock(t, b) \/ ReprocessRejected(t, b)
    PROVE  IndInv'
  <1>1. /\ Reconsider(b)
        /\ pc' = pc \/ pc' = [pc EXCEPT ![t] = "activate"]
        /\ UNCHANGED <<linked, nSequenceId, nBlockSequenceId, pnext, unlinked, tip,
                       coinsTip, disk, diskTip, goal, old, cont, left>>
    BY DEF ReconsiderBlock, ReprocessRejected, Goto, local
  <1>2. used' \in [Interventions -> Nat]
    <2>1. CASE ReconsiderBlock(t, b)
      BY <2>1, SpendType DEF ReconsiderBlock, IndInv, Interventions
    <2>2. CASE ReprocessRejected(t, b)
      BY <2>2 DEF ReprocessRejected, IndInv, TypeInv
    <2>3. QED
      BY <2>1, <2>2
  <1>3. /\ nStatus' \in [Blocks -> SUBSET Flags] /\ dirty' \subseteq Blocks
        /\ candidates' \subseteq Blocks
        /\ \A x \in Blocks : "undo" \in nStatus[x] => "undo" \in nStatus'[x]
        /\ StatusInv' /\ LinkInv'
    BY <1>1, ReconsiderKeeps
  <1>4. TypeInv'
    BY <1>1, <1>2, <1>3 DEF IndInv, TypeInv
  <1>5. TipInv'
    BY <1>1, <1>3, TreeAssumption DEF IndInv, TypeInv, TipInv
  <1>6. QED
    BY <1>3, <1>4, <1>5 DEF IndInv

LEMMA ReprocessBlocksInd ==
    ASSUME IndInv, NEW t \in Threads, ReprocessBlocks(t) \/ ReprocessBegin(t)
    PROVE  IndInv'
  <1>1. /\ pc' \in [Threads -> Places]
        /\ pc'[t] \in {"rejected", "reprocess"}
        /\ \A u \in Threads \ {t} : pc'[u] = pc[u]
        /\ left' \in [Threads -> 0..(ReprocessDepth + 1)]
        /\ used' \in [Interventions -> Nat]
    <2>1. CASE ReprocessBlocks(t)
      <3>1. used' \in [Interventions -> Nat]
        BY <2>1, SpendType DEF ReprocessBlocks, IndInv, Interventions
      <3>2. QED
        BY <2>1, <3>1 DEF ReprocessBlocks, Goto, IndInv, TypeInv, local
    <2>2. CASE ReprocessBegin(t)
      <3>1. ReprocessDepth + 1 \in 0..(ReprocessDepth + 1)
        BY TreeAssumption
      <3>2. QED
        BY <2>2, <3>1 DEF ReprocessBegin, Goto, IndInv, TypeInv
    <2>3. QED
      BY <2>1, <2>2
  <1>2. UNCHANGED <<nStatus, linked, nSequenceId, nBlockSequenceId, pnext, candidates,
                    unlinked, tip, coinsTip, dirty, disk, diskTip, goal, old, cont>>
    BY DEF ReprocessBlocks, ReprocessBegin, index, local
  <1>3. TypeInv'
    BY <1>1, <1>2 DEF IndInv, TypeInv
  <1>4. StatusInv' /\ LinkInv'
    BY <1>2 DEF IndInv, StatusInv, LinkInv
  <1>5. TipInv'
    BY <1>1, <1>2 DEF IndInv, TypeInv, TipInv
  <1>6. QED
    BY <1>3, <1>4, <1>5 DEF IndInv

LEMMA DisconnectBlocksInd ==
    ASSUME IndInv, NEW t \in Threads, DisconnectBlocksAndReprocess(t)
    PROVE  IndInv'
  <1>1. /\ pc[t] = "reprocess"
        /\ UNCHANGED <<nStatus, linked, nSequenceId, nBlockSequenceId, pnext, candidates,
                       unlinked, tip, dirty, disk, diskTip, goal, old, used>>
    BY DEF DisconnectBlocksAndReprocess, index
  <1> DEFINE Moves ==
        /\ coinsTip' \in Blocks /\ coinsTip' \in linked
        /\ Anc[coinsTip'] \subseteq Anc[coinsTip]
        /\ \/ pc' = [pc EXCEPT ![t] = "activate"] /\ cont' = cont
           \/ pc' = pc /\ cont' = cont
           \/ pc' = [pc EXCEPT ![t] = "flush"] /\ cont' = [cont EXCEPT ![t] = "reprocess"]
        /\ left' \in [Threads -> 0..(ReprocessDepth + 1)]
  <1>2. Moves
    <2>1. left' \in [Threads -> 0..(ReprocessDepth + 1)]
      <3>1. CASE left' = left
        BY <3>1 DEF IndInv, TypeInv
      <3>2. CASE left[t] # 0 /\ left' = [left EXCEPT ![t] = left[t] - 1]
        <4>1. left[t] \in 0..(ReprocessDepth + 1)
          BY DEF IndInv, TypeInv
        <4>2. left[t] - 1 \in 0..(ReprocessDepth + 1)
          BY <3>2, <4>1, TreeAssumption
        <4>3. QED
          BY <3>2, <4>2 DEF IndInv, TypeInv
      <3>3. QED
        BY <3>1, <3>2 DEF DisconnectBlocksAndReprocess
    <2>2. CASE DisconnectTip(t, "reprocess")
      BY <2>1, <2>2, DisconnectParent
    <2>3. CASE UNCHANGED <<coinsTip, cont>> /\ (UNCHANGED pc \/ Goto(t, "activate"))
      BY <2>1, <2>3 DEF IndInv, TypeInv, TipInv, Goto
    <2>4. QED
      BY <2>2, <2>3 DEF DisconnectBlocksAndReprocess
  <1>3. TypeInv'
    BY <1>1, <1>2 DEF IndInv, TypeInv
  <1>4. StatusInv' /\ LinkInv'
    BY <1>1 DEF IndInv, StatusInv, LinkInv
  <1>5. TipInv'
    BY <1>1, <1>2 DEF IndInv, TypeInv, TipInv
  <1>6. QED
    BY <1>3, <1>4, <1>5 DEF IndInv

\* After a restart memory is what the disk holds; the chain of diskTip is
\* complete there.
LEMMA RestartInd ==
    ASSUME IndInv, Restart
    PROVE  IndInv'
  <1> DEFINE data == {b \in Blocks : "data" \in disk[b].nStatus}
  <1>1. /\ nStatus' = [b \in Blocks |-> disk[b].nStatus]
        /\ pnext' = [b \in Blocks |-> disk[b].pnext]
        /\ linked' = {b \in Blocks : Anc[b] \subseteq {x \in Blocks : "data" \in nStatus'[x]}}
        /\ unlinked' = {x \in Blocks : "data" \in nStatus'[x]} \ linked'
        /\ nSequenceId' = [b \in Blocks |-> 0] /\ nBlockSequenceId' = 1
        /\ candidates' \subseteq linked'
        /\ tip' = diskTip /\ coinsTip' = diskTip /\ dirty' = {}
    BY DEF Restart, LoadBlockIndexDB
  <1>2. /\ pc' \in [Threads -> Places] /\ \A t \in Threads : pc'[t] \notin {"step", "flush"}
        /\ goal' \in [Threads -> Blocks] /\ old' \in [Threads -> Blocks]
        /\ cont' \in [Threads -> Callers] /\ left' \in [Threads -> 0..(ReprocessDepth + 1)]
        /\ used' \in [Interventions -> Nat]
        /\ disk' = disk /\ diskTip' = diskTip
    <2>1. pc' \in [Threads -> Places] /\ \A t \in Threads : pc'[t] \notin {"step", "flush"}
      BY DEF Restart, StartThreads
    <2>2. used' \in [Interventions -> Nat]
      BY SpendType DEF Restart, IndInv, Interventions
    <2>3. 0 \in 0..(ReprocessDepth + 1) /\ Genesis \in Blocks
      BY TreeAssumption
    <2>4. QED
      BY <2>1, <2>2, <2>3 DEF Restart
  <1>3. TypeInv'
    <2>1. nStatus' \in [Blocks -> SUBSET Flags] /\ pnext' \in [Blocks -> Blocks]
      BY <1>1 DEF IndInv, TypeInv
    <2>2. QED
      BY <1>1, <1>2, <2>1 DEF IndInv, TypeInv
  <1>4. StatusInv'
    <2>1. \A x \in Blocks : nStatus'[x] = disk'[x].nStatus
      BY <1>1, <1>2
    <2>2. "undo" \notin disk[Genesis].nStatus
      BY TreeAssumption DEF IndInv, StatusInv
    <2>3. QED
      BY <1>1, <1>2, <2>1, <2>2, TreeAssumption DEF IndInv, StatusInv
  <1>5. LinkInv'
    BY <1>1, TreeAssumption DEF LinkInv
  <1>6. TipInv'
    <2>1. \A x \in Anc[diskTip] : x \in Blocks /\ "data" \in nStatus'[x]
      BY <1>1, TreeAssumption DEF IndInv, TypeInv, StatusInv, TipInv
    <2>2. diskTip \in linked'
      BY <1>1, <2>1 DEF IndInv, TypeInv
    <2>3. \A x \in Anc[diskTip] \ {Genesis} : "undo" \in nStatus'[x]
      BY <1>1, <2>1 DEF IndInv, TipInv
    <2>4. QED
      BY <1>1, <1>2, <2>2, <2>3 DEF IndInv, TipInv
  <1>7. QED
    BY <1>3, <1>4, <1>5, <1>6 DEF IndInv

-----------------------------------------------------------------------------
(* The invariant and what follows from it *)

LEMMA NextInd ==
    ASSUME IndInv, [Next]_vars
    PROVE  IndInv'
  <1>1. CASE UNCHANGED vars
    BY <1>1 DEF vars, index, local, IndInv, TypeInv, StatusInv, LinkInv, TipInv
  <1>2. CASE Restart
    BY <1>2, RestartInd
  <1>3. ASSUME NEW t \in Threads, Begin(t)
        PROVE  IndInv'
    BY <1>3, HeaderInd, AcceptInd, DuplicateInd, AcceptFailsInd, InvalidateInd,
       ReconsiderInd, ReprocessBlocksInd, FlushInd DEF Begin
  <1>4. ASSUME NEW t \in Threads, Continue(t)
        PROVE  IndInv'
    BY <1>4, WriteBlockIndexInd, WriteCoinsInd, ActivateInd, StepDisconnectInd,
       StepConnectInd, StepInvalidInd, ExitInd, WalkInd, InvalidateDoneInd,
       ReprocessBlocksInd, DisconnectBlocksInd DEF Continue
  <1>5. ASSUME NEW t \in Threads, FlushFails(t)
        PROVE  IndInv'
    BY <1>5, FlushFailsInd
  <1>6. QED
    BY <1>1, <1>2, <1>3, <1>4, <1>5 DEF Next

\* The inductive invariant: memory, disk and the three tips agree as the
\* parts of IndInv say, in every state of main.cpp's chain state.
THEOREM Inductive == Spec => []IndInv
  <1>1. Init => IndInv
    BY InitInd
  <1>2. IndInv /\ [Next]_vars => IndInv'
    BY NextInd
  <1>3. QED
    BY <1>1, <1>2, PTL DEF Spec

\* Type correctness: in particular candidates are complete chains,
\* mapBlocksUnlinked holds incomplete ones and dirty entries exist.
THEOREM TypeCorrect == Spec => []TypeOK
  <1>1. IndInv => TypeOK
    <2>1. SUFFICES ASSUME IndInv PROVE TypeOK
      OBVIOUS
    <2>2. dirty \subseteq mapBlockIndex
      BY <2>1 DEF IndInv, TypeInv, StatusInv, mapBlockIndex
    <2>3. candidates \subseteq linked /\ unlinked \subseteq Blocks \ linked
      BY <2>1 DEF IndInv, TypeInv, LinkInv
    <2>4. tip \in linked /\ coinsTip \in linked /\ diskTip \in linked
      BY <2>1 DEF IndInv, TipInv
    <2>5. QED
      BY <2>1, <2>2, <2>3, <2>4 DEF IndInv, TypeInv, TypeOK, Flags, Places, Callers
  <1>2. QED
    BY <1>1, Inductive, PTL

\* Whatever the threads do and wherever a crash or a write error strikes,
\* the chain of the coin database's best block is complete on disk, undo
\* data included: FlushStateToDisk writes the index before the coins.
THEOREM Durable == Spec => []DurableTip
  <1>1. IndInv => DurableTip
    BY DEF IndInv, TipInv, DurableTip
  <1>2. QED
    BY <1>1, Inductive, PTL

-----------------------------------------------------------------------------
(***************************************************************************)
(* The coins are those of the tip whenever cs_main is free, and the coin   *)
(* database stays on the active chain, when the disk does not fail.        *)
(***************************************************************************)

\* t is inside a critical section of cs_main that spans several actions.
Holds(t) == pc[t] \in {"step", "flush", "invalidate", "reprocess"}

\* t is flushing a block it has just connected to or removed from the coins.
Between(t) == pc[t] = "flush" /\ cont[t] \notin {"idle", "return"}

\* One thread holds cs_main at most, and only that thread's flush comes
\* between a change of the coins and the change of the tip that follows it.
LockInv ==
    /\ \A t, u \in Threads : Holds(t) /\ Holds(u) => t = u
    /\ \A t \in Threads : Between(t) /\ cont[t] = "connect" =>
          coinsTip # Genesis /\ Parent[coinsTip] = tip
    /\ \A t \in Threads : Between(t) /\ cont[t] # "connect" =>
          tip # Genesis /\ coinsTip = Parent[tip]
    /\ (\A t \in Threads : ~Between(t)) => coinsTip = tip
    /\ diskTip \in Anc[tip]

LEMMA FreeMeansNobody == csMainFree <=> \A t \in Threads : ~Holds(t)
  BY DEF csMainFree, Holds

\* Nobody is between when another thread holds cs_main or nobody does.
LEMMA NobodyBetween ==
    ASSUME LockInv, NEW t \in Threads, Holds(t) \/ csMainFree, ~Between(t)
    PROVE  (\A u \in Threads : ~Between(u)) /\ coinsTip = tip
  BY FreeMeansNobody DEF LockInv, Holds, Between

\* Only t moves.
Moves(t) == \A u \in Threads \ {t} : pc'[u] = pc[u] /\ cont'[u] = cont[u]

\* A thread that leaves the coins and the tips alone keeps the invariant
\* when it takes cs_main only if it is free.
LEMMA QuietKeeps ==
    ASSUME LockInv, NEW t \in Threads, UNCHANGED <<tip, coinsTip, diskTip>>, Moves(t),
           ~Between(t), ~Between(t)', Holds(t)' => Holds(t) \/ csMainFree
    PROVE  LockInv'
  <1>1. \A u \in Threads \ {t} : (Holds(u)' <=> Holds(u)) /\ (Between(u)' <=> Between(u))
    BY DEF Moves, Holds, Between
  <1>2. \A u, v \in Threads : Holds(u)' /\ Holds(v)' => u = v
    BY <1>1, FreeMeansNobody DEF LockInv
  <1>3. \A u \in Threads : Between(u)' => u # t /\ Between(u) /\ cont'[u] = cont[u]
    BY <1>1 DEF Moves
  <1>4. (\A u \in Threads : ~Between(u)') => \A u \in Threads : ~Between(u)
    BY <1>1
  <1>5. QED
    BY <1>2, <1>3, <1>4 DEF LockInv

\* t, which holds cs_main, changes the coins and begins the flush.
LEMMA BeginsFlush ==
    ASSUME LockInv, NEW t \in Threads, Holds(t), ~Between(t), Moves(t),
           UNCHANGED <<tip, diskTip>>,
           pc'[t] = "flush", cont'[t] \notin {"idle", "return"},
           cont'[t] = "connect" => coinsTip' # Genesis /\ Parent[coinsTip'] = tip,
           cont'[t] # "connect" => tip # Genesis /\ coinsTip' = Parent[tip]
    PROVE  LockInv'
  <1>1. \A u \in Threads \ {t} : (Holds(u)' <=> Holds(u)) /\ (Between(u)' <=> Between(u))
    BY DEF Moves, Holds, Between
  <1>2. \A u \in Threads \ {t} : ~Holds(u)' /\ ~Between(u)'
    BY <1>1, NobodyBetween DEF LockInv
  <1>3. Between(t)'
    BY DEF Between
  <1>4. QED
    BY <1>2, <1>3 DEF LockInv

\* t, which holds cs_main, makes the tip that of the coins.
LEMMA TipFollows ==
    ASSUME LockInv, NEW t \in Threads, Holds(t), Moves(t), ~Between(t)',
           tip' = coinsTip', diskTip' \in Anc[tip']
    PROVE  LockInv'
  <1>1. \A u \in Threads \ {t} : (Holds(u)' <=> Holds(u)) /\ (Between(u)' <=> Between(u))
    BY DEF Moves, Holds, Between
  <1>2. \A u \in Threads \ {t} : ~Holds(u)' /\ ~Between(u)'
    BY <1>1 DEF LockInv, Holds, Between
  <1>3. QED
    BY <1>2 DEF LockInv

-----------------------------------------------------------------------------
(* The actions *)

LEMMA InitLock == Init => LockInv
  BY TreeAssumption DEF Init, LockInv, Holds, Between

LEMMA ArriveLock ==
    ASSUME IndInv, LockInv, NEW t \in Threads, NEW b \in Blocks,
           \/ AcceptBlockHeader(t, b) \/ AcceptBlock(t, b)
           \/ AcceptDuplicate(t, b) \/ AcceptBlockFails(t, b)
    PROVE  LockInv'
  <1>1. /\ pc[t] = "idle" /\ UNCHANGED <<tip, coinsTip, diskTip, cont>>
        /\ pc' = pc \/ pc' = [pc EXCEPT ![t] = "activate"]
    BY DEF AcceptBlockHeader, AcceptBlock, AcceptDuplicate, AcceptBlockFails, Goto, local
  <1>2. pc'[t] \in {"idle", "activate"} /\ Moves(t)
    BY <1>1 DEF IndInv, TypeInv, Moves
  <1>3. QED
    BY <1>1, <1>2, QuietKeeps DEF Holds, Between

LEMMA WriteBlockIndexLock ==
    ASSUME LockInv, NEW t \in Threads, NEW b \in Blocks, WriteBlockIndex(t, b)
    PROVE  LockInv'
  BY DEF WriteBlockIndex, LockInv, Holds, Between, index, local

LEMMA AfterConnectMoves ==
    ASSUME IndInv, NEW t \in Threads, NEW b, AfterConnect(t, b)
    PROVE  /\ tip' = b /\ pc'[t] \in {"exit", "loop", "step"}
           /\ \A u \in Threads \ {t} : pc'[u] = pc[u]
  BY DEF AfterConnect, Leave, Stay, Goto, IndInv, TypeInv

LEMMA WriteCoinsLock ==
    ASSUME IndInv, LockInv, NEW t \in Threads, WriteCoins(t)
    PROVE  LockInv'
  <1>1. /\ pc[t] = "flush" /\ diskTip' = coinsTip /\ coinsTip' = coinsTip
        /\ cont' = [cont EXCEPT ![t] = "idle"] /\ cont[t] \in Callers
    BY DEF WriteCoins, CoinsWritten, IndInv, TypeInv
  <1>2. \A u \in Threads \ {t} : cont'[u] = cont[u]
    BY <1>1 DEF IndInv, TypeInv
  <1>3. ~Between(t)' /\ Holds(t)
    BY <1>1 DEF Between, Holds, IndInv, TypeInv
  <1>4. coinsTip \in Anc[coinsTip]
    BY TreeAssumption DEF IndInv, TypeInv
  <1>5. CASE cont[t] = "connect"
    <2>1. AfterConnect(t, coinsTip)
      BY <1>5 DEF WriteCoins, CoinsWritten
    <2>2. tip' = coinsTip /\ \A u \in Threads \ {t} : pc'[u] = pc[u]
      BY <2>1, AfterConnectMoves
    <2>3. QED
      BY <1>1, <1>2, <1>3, <1>4, <2>2, TipFollows DEF Moves
  <1>6. CASE cont[t] \in {"disconnect", "invalidate", "reprocess"}
    <2>1. /\ tip' = coinsTip
          /\ pc' = [pc EXCEPT ![t] = "step"] \/ pc' = [pc EXCEPT ![t] = cont[t]]
      BY <1>6 DEF WriteCoins, CoinsWritten, Stay, Goto
    <2>2. \A u \in Threads \ {t} : pc'[u] = pc[u]
      BY <2>1 DEF IndInv, TypeInv
    <2>3. QED
      BY <1>1, <1>2, <1>3, <1>4, <2>1, <2>2, TipFollows DEF Moves
  <1>7. CASE cont[t] \in {"return", "idle"}
    <2>1. tip' = tip /\ pc' = [pc EXCEPT ![t] = "idle"]
      BY <1>7 DEF WriteCoins, CoinsWritten, Stay, Goto
    <2>2. \A u \in Threads \ {t} : pc'[u] = pc[u]
      BY <2>1 DEF IndInv, TypeInv
    <2>3. coinsTip = tip
      BY <1>3, <1>7, NobodyBetween DEF Between
    <2>4. QED
      BY <1>1, <1>2, <1>3, <1>4, <2>1, <2>2, <2>3, TipFollows DEF Moves
  <1>8. QED
    BY <1>1, <1>5, <1>6, <1>7 DEF Callers

LEMMA FlushLock ==
    ASSUME IndInv, LockInv, NEW t \in Threads, FlushStateToDisk(t) \/ ActivateExit(t)
    PROVE  LockInv'
  <1>1. /\ pc[t] \in {"idle", "exit"} /\ csMainFree /\ UNCHANGED <<tip, coinsTip, diskTip>>
    BY DEF FlushStateToDisk, ActivateExit
  <1>2. /\ pc' = [pc EXCEPT ![t] = "flush"] \/ pc' = [pc EXCEPT ![t] = "idle"]
        /\ \/ cont' = [cont EXCEPT ![t] = "idle"] \/ cont' = [cont EXCEPT ![t] = "return"]
           \/ cont' = cont /\ pc' = [pc EXCEPT ![t] = "idle"]
    BY DEF FlushStateToDisk, ActivateExit, Flush, Goto
  <1>3. ~Between(t)' /\ Moves(t)
    BY <1>2 DEF IndInv, TypeInv, Moves, Between
  <1>4. QED
    BY <1>1, <1>3, QuietKeeps DEF Between

LEMMA ActivateLock ==
    ASSUME IndInv, LockInv, NEW t \in Threads, ActivateBestChain(t)
    PROVE  LockInv'
  <1>1. /\ pc[t] \in {"activate", "loop"} /\ csMainFree
        /\ UNCHANGED <<tip, coinsTip, diskTip, cont>>
    BY DEF ActivateBestChain
  <1>2. pc' = [pc EXCEPT ![t] = "step"] \/ pc' = [pc EXCEPT ![t] = "idle"]
    BY DEF ActivateBestChain, FindMostWorkChain, Stay, Goto
  <1>3. pc'[t] \in {"step", "idle"} /\ Moves(t)
    BY <1>1, <1>2 DEF IndInv, TypeInv, Moves
  <1>4. QED
    BY <1>1, <1>3, QuietKeeps DEF Between

LEMMA DisconnectLock ==
    ASSUME IndInv, LockInv, NEW t \in Threads, pc[t] # "flush", Holds(t),
           NEW c \in {"disconnect", "invalidate", "reprocess"}, DisconnectTip(t, c),
           UNCHANGED <<tip, diskTip>>
    PROVE  LockInv'
  <1>1. /\ coinsTip' = Parent[tip] /\ "undo" \in nStatus[tip]
        /\ pc' = [pc EXCEPT ![t] = "flush"] /\ cont' = [cont EXCEPT ![t] = c]
    BY DEF DisconnectTip, DisconnectBlock, Flush, Goto
  <1>2. tip # Genesis
    BY <1>1 DEF IndInv, StatusInv
  <1>3. pc'[t] = "flush" /\ cont'[t] = c /\ Moves(t)
    BY <1>1 DEF IndInv, TypeInv, Moves
  <1>4. QED
    BY <1>1, <1>2, <1>3, BeginsFlush DEF Between

LEMMA StepDisconnectLock ==
    ASSUME IndInv, LockInv, NEW t \in Threads, StepDisconnect(t)
    PROVE  LockInv'
  BY DisconnectLock DEF StepDisconnect, Holds

LEMMA WalkLock ==
    ASSUME IndInv, LockInv, NEW t \in Threads, InvalidateWalk(t)
    PROVE  LockInv'
  BY DisconnectLock DEF InvalidateWalk, Holds

LEMMA DisconnectBlocksLock ==
    ASSUME IndInv, LockInv, NEW t \in Threads, DisconnectBlocksAndReprocess(t)
    PROVE  LockInv'
  <1>1. pc[t] = "reprocess" /\ UNCHANGED <<tip, diskTip>>
    BY DEF DisconnectBlocksAndReprocess
  <1>2. CASE DisconnectTip(t, "reprocess")
    BY <1>1, <1>2, DisconnectLock DEF Holds
  <1>3. CASE UNCHANGED <<coinsTip, cont>> /\ (UNCHANGED pc \/ Goto(t, "activate"))
    <2>1. pc'[t] \in {"reprocess", "activate"} /\ Moves(t)
      BY <1>1, <1>3 DEF Goto, IndInv, TypeInv, Moves
    <2>2. QED
      BY <1>1, <1>3, <2>1, QuietKeeps DEF Holds, Between
  <1>4. QED
    BY <1>2, <1>3 DEF DisconnectBlocksAndReprocess

LEMMA StepConnectLock ==
    ASSUME IndInv, LockInv, NEW t \in Threads, StepConnect(t)
    PROVE  LockInv'
  <1>1. pc[t] = "step" /\ diskTip' = diskTip /\ goal[t] \in Blocks
    BY DEF StepConnect, ConnectBlock, IndInv, TypeInv
  <1>2. PICK b \in Anc[goal[t]] \ {Genesis} :
           /\ Parent[b] = tip /\ coinsTip' = b
           /\ \/ Flush(t, "connect") /\ UNCHANGED tip
              \/ AfterConnect(t, b) /\ UNCHANGED cont
    BY DEF StepConnect, ConnectBlock
  <1>3. b \in Blocks /\ Anc[tip] \subseteq Anc[b]
    BY <1>1, <1>2, TreeAssumption
  <1>4. CASE Flush(t, "connect") /\ UNCHANGED tip
    <2>1. pc'[t] = "flush" /\ cont'[t] = "connect" /\ Moves(t)
      BY <1>4 DEF Flush, Goto, IndInv, TypeInv, Moves
    <2>2. QED
      BY <1>1, <1>2, <1>4, <2>1, BeginsFlush DEF Holds, Between
  <1>5. CASE AfterConnect(t, b) /\ UNCHANGED cont
    <2>1. tip' = b /\ pc'[t] \in {"exit", "loop", "step"} /\ Moves(t)
      BY <1>5, AfterConnectMoves DEF Moves
    <2>2. diskTip' \in Anc[tip']
      BY <1>1, <1>3, <2>1 DEF LockInv
    <2>3. QED
      BY <1>1, <1>2, <2>1, <2>2, TipFollows DEF Holds, Between
  <1>6. QED
    BY <1>2, <1>4, <1>5

LEMMA StepInvalidLock ==
    ASSUME IndInv, LockInv, NEW t \in Threads, StepInvalid(t)
    PROVE  LockInv'
  <1>1. /\ pc[t] = "step" /\ pc' = [pc EXCEPT ![t] = "loop"]
        /\ UNCHANGED <<tip, coinsTip, diskTip, cont>>
    BY DEF StepInvalid, Leave, Goto
  <1>2. pc'[t] = "loop" /\ Moves(t)
    BY <1>1 DEF IndInv, TypeInv, Moves
  <1>3. QED
    BY <1>1, <1>2, QuietKeeps DEF Holds, Between

\* The operator's commands and ReprocessBlocks take cs_main when it is free
\* or go on holding it.
LEMMA OperatorLock ==
    ASSUME IndInv, LockInv, NEW t \in Threads, NEW b \in Blocks,
           \/ InvalidateBlock(t, b) \/ InvalidateDone(t) \/ ReconsiderBlock(t, b)
           \/ ReprocessRejected(t, b) \/ ReprocessBlocks(t) \/ ReprocessBegin(t)
    PROVE  LockInv'
  <1>1. /\ pc[t] \in {"idle", "rejected", "invalidate"}
        /\ csMainFree \/ pc[t] = "invalidate" \/ pc' = [pc EXCEPT ![t] = "rejected"]
        /\ UNCHANGED <<tip, coinsTip, diskTip, cont>>
        /\ \/ pc' = pc
           \/ \E l \in {"activate", "invalidate", "rejected", "reprocess"} :
                 pc' = [pc EXCEPT ![t] = l]
    BY DEF InvalidateBlock, InvalidateDone, ReconsiderBlock, ReprocessRejected,
           ReprocessBlocks, ReprocessBegin, Goto, Leave, local
  <1>2. /\ pc'[t] # "flush" /\ Moves(t)
        /\ csMainFree \/ pc[t] = "invalidate" \/ pc'[t] = "rejected"
    BY <1>1 DEF IndInv, TypeInv, Moves
  <1>3. QED
    BY <1>1, <1>2, QuietKeeps DEF Holds, Between

LEMMA RestartLock ==
    ASSUME IndInv, LockInv, Restart
    PROVE  LockInv'
  <1>1. tip' = diskTip /\ coinsTip' = diskTip /\ diskTip' = diskTip
    BY DEF Restart, LoadBlockIndexDB
  <1>2. \A t \in Threads : pc'[t] \in {"idle", "activate", "torn"}
    BY DEF Restart, StartThreads
  <1>3. diskTip \in Anc[diskTip]
    BY TreeAssumption DEF IndInv, TypeInv
  <1>4. QED
    BY <1>1, <1>2, <1>3 DEF LockInv, Holds, Between

LEMMA NextLock ==
    ASSUME IndInv, LockInv, [Next]_vars, ~DiskMayFail
    PROVE  LockInv'
  <1>1. CASE UNCHANGED vars
    BY <1>1 DEF vars, index, local, LockInv, Holds, Between
  <1>2. CASE Restart
    BY <1>2, RestartLock
  <1>3. ASSUME NEW t \in Threads, Begin(t)
        PROVE  LockInv'
    <2>1. CASE \E b \in Blocks : \/ AcceptBlockHeader(t, b) \/ AcceptBlock(t, b)
                                 \/ AcceptDuplicate(t, b) \/ AcceptBlockFails(t, b)
      BY <2>1, ArriveLock
    <2>2. CASE \/ \E b \in Blocks : \/ InvalidateBlock(t, b) \/ ReconsiderBlock(t, b)
                                    \/ ReprocessRejected(t, b)
               \/ ReprocessBlocks(t)
      BY <2>2, OperatorLock, TreeAssumption
    <2>3. CASE FlushStateToDisk(t)
      BY <2>3, FlushLock
    <2>4. QED
      BY <1>3, <2>1, <2>2, <2>3 DEF Begin
  <1>4. ASSUME NEW t \in Threads, Continue(t)
        PROVE  LockInv'
    <2>1. CASE InvalidateDone(t) \/ ReprocessBegin(t)
      BY <2>1, OperatorLock, TreeAssumption
    <2>2. QED
      BY <1>4, <2>1, WriteBlockIndexLock, WriteCoinsLock, ActivateLock, StepDisconnectLock,
         StepConnectLock, StepInvalidLock, FlushLock, WalkLock, DisconnectBlocksLock
         DEF Continue
  <1>5. ASSUME NEW t \in Threads, FlushFails(t)
        PROVE  LockInv'
    BY <1>5 DEF FlushFails
  <1>6. QED
    BY <1>1, <1>2, <1>3, <1>4, <1>5 DEF Next

\* One thread at a time is inside cs_main, and the coins and the tip differ
\* by at most the block whose flush that thread is waiting for.
THEOREM LockInvariant ==
    ASSUME ~DiskMayFail
    PROVE  Spec => [](IndInv /\ LockInv)
  <1>1. Init => IndInv /\ LockInv
    BY InitInd, InitLock
  <1>2. IndInv /\ LockInv /\ [Next]_vars => IndInv' /\ LockInv'
    BY NextInd, NextLock
  <1>3. QED
    BY <1>1, <1>2, PTL DEF Spec

\* If the disk never fails, the assertions at the beginning of ConnectBlock
\* and DisconnectBlock hold: whoever gets cs_main finds the coins of the tip,
\* after any number of crashes too.
THEOREM CoinsAtTip ==
    ASSUME ~DiskMayFail
    PROVE  Spec => []CoinsMatchTip
  <1>1. LockInv => CoinsMatchTip
    BY FreeMeansNobody DEF LockInv, CoinsMatchTip, Holds, Between
  <1>2. QED
    BY <1>1, LockInvariant, PTL

\* If the disk never fails, the coin database is always at a block of the
\* active chain, so a crash never has to undo blocks of another branch.
THEOREM DiskOnChain ==
    ASSUME ~DiskMayFail
    PROVE  Spec => []DiskTipOnChain
  <1>1. LockInv => DiskTipOnChain
    BY DEF LockInv, DiskTipOnChain
  <1>2. QED
    BY <1>1, LockInvariant, PTL

-----------------------------------------------------------------------------
(* The block index: failed blocks never stay on the active chain,          *)
(* setBlockIndexCandidates always holds what ActivateBestChain needs, the  *)
(* best chain is active when no thread has work left, and the assertions   *)
(* of CheckBlockIndex hold.                                                *)


\* t is inside InvalidateBlock, or inside ActivateBestChainStep.
Walking(t) == pc[t] = "invalidate" \/ (pc[t] = "flush" /\ cont[t] = "invalidate")
Stepping(t) ==
    pc[t] = "step" \/ (pc[t] = "flush" /\ cont[t] \in {"connect", "disconnect"})

Failure == {"failed", "child"}

\* Neither b nor an ancestor of it is marked as failed.
Clean(b) == \A x \in Anc[b] : ~Failed(x)

\* Failed blocks leave the active chain while their thread holds cs_main.
WalkInv ==
    /\ \A t \in Threads : Walking(t) => \A x \in Anc[tip] : Failed(x) => goal[t] \in Anc[x]
    /\ (\A t \in Threads : ~Walking(t)) => Clean(tip) /\ Clean(coinsTip)
    /\ \A t \in Threads : Stepping(t) => Clean(goal[t])

\* As long as no operator invalidates blocks, a crash finds no failed block on
\* the chain of the coin database either.
DiskInv ==
    /\ used["crash"] = 0 \/ used["invalidate"] = 0
    /\ used["invalidate"] = 0 => \A t \in Threads : ~Walking(t)
    /\ used["invalidate"] = 0 => \A b \in Anc[diskTip] : disk[b].nStatus \cap Failure = {}
    /\ \A b \in Blocks \ dirty : disk[b].nStatus \cap Failure \subseteq nStatus[b]

\* Nobody invalidates blocks on a node that crashes.
NoCrashAfterInvalidate ==
    \A budget \in Budgets : budget["crash"] = 0 \/ budget["invalidate"] = 0

-----------------------------------------------------------------------------
(* Ancestors *)

LEMMA AncFacts ==
    ASSUME NEW b \in Blocks
    PROVE  /\ b \in Anc[b] /\ Anc[b] \subseteq Blocks
           /\ \A x \in Anc[b] : Anc[x] \subseteq Anc[b]
           /\ b # Genesis => Parent[b] \in Blocks /\ Anc[b] = {b} \cup Anc[Parent[b]]
  BY TreeAssumption

\* A block is no ancestor of its own ancestors.
LEMMA AncAntisymmetric ==
    ASSUME NEW x \in Blocks, NEW y \in Blocks, x \in Anc[y], x # y
    PROVE  y \notin Anc[x]
  <1>1. y # Genesis
    BY TreeAssumption
  <1>2. x \in Anc[Parent[y]] /\ Parent[y] \in Blocks /\ y \notin Anc[Parent[y]]
    BY <1>1, TreeAssumption
  <1>3. Anc[x] \subseteq Anc[Parent[y]]
    BY <1>2, AncFacts
  <1>4. QED
    BY <1>2, <1>3

\* An ancestor of b below which n blocks are missing at least.
LEMMA AncSmaller ==
    ASSUME NEW x \in Blocks, NEW y \in Blocks, x \in Anc[y], x # y
    PROVE  Cardinality(Anc[x]) \in Nat /\ Cardinality(Anc[y]) \in Nat
           /\ Cardinality(Anc[x]) < Cardinality(Anc[y])
  <1>1. IsFiniteSet(Anc[y])
    BY TreeAssumption, FS_Subset
  <1>2. Anc[x] \subseteq Anc[y] /\ y \in Anc[y] /\ y \notin Anc[x]
    BY AncFacts, AncAntisymmetric
  <1>3. Anc[x] # Anc[y]
    BY <1>2
  <1>4. /\ IsFiniteSet(Anc[x]) /\ Cardinality(Anc[x]) <= Cardinality(Anc[y])
        /\ Cardinality(Anc[x]) = Cardinality(Anc[y]) => Anc[x] = Anc[y]
    BY <1>1, <1>2, FS_Subset
  <1>5. Cardinality(Anc[x]) \in Nat /\ Cardinality(Anc[y]) \in Nat
    BY <1>1, <1>4, FS_CardinalityType
  <1>6. QED
    BY <1>3, <1>4, <1>5

\* The order of the natural numbers is a well-founded relation.
LEMMA LessThan ==
    \E R : IsWellFoundedOn(R, Nat) /\ \A i, j \in Nat : i < j => <<i, j>> \in R
  <1> DEFINE R == OpToRel(<, Nat)
  <1>1. IsWellFoundedOn(R, Nat)
    BY NatLessThanWellFounded
  <1>2. \A i, j \in Nat : i < j => <<i, j>> \in R
    BY Zenon DEF OpToRel
  <1> HIDE DEF R
  <1>3. QED
    BY <1>1, <1>2

\* A set of natural numbers has a least element.
LEMMA Least ==
    ASSUME NEW T \in SUBSET Nat, T # {}
    PROVE  \E n \in T : \A k \in T : n <= k
  <1>1. PICK R : IsWellFoundedOn(R, Nat) /\ \A i, j \in Nat : i < j => <<i, j>> \in R
    BY LessThan
  <1>2. PICK n \in T : \A k \in T : ~(<<k, n>> \in R)
    <2>1. IsWellFoundedOn(R, Nat) /\ T \subseteq Nat /\ T # {}
      BY <1>1
    <2>2. QED
      BY <2>1, WFMin, Zenon
  <1>3. n \in Int /\ \A k \in T : k \in Int
    OBVIOUS
  <1>4. \A k \in T : ~(k < n)
    BY <1>1, <1>2
  <1>5. QED
    BY <1>3, <1>4

\* Some ancestors of b have a lowest one.
LEMMA LowestOf ==
    ASSUME NEW b \in Blocks, NEW S \in SUBSET Anc[b], S # {}
    PROVE  \E x \in S : \A y \in S : x \in Anc[y]
  <1> DEFINE sizes == {Cardinality(Anc[x]) : x \in S}
  <1>1. \A x \in S : x \in Blocks /\ Cardinality(Anc[x]) \in Nat
    BY TreeAssumption, FS_Subset, FS_CardinalityType
  <1>2. sizes \in SUBSET Nat /\ sizes # {}
    BY <1>1
  <1>3. PICK n \in sizes : \A k \in sizes : n <= k
    <2> HIDE DEF sizes
    <2> QED BY <1>2, Least
  <1>4. PICK x \in S : n = Cardinality(Anc[x])
    OBVIOUS
  <1>5. ASSUME NEW y \in S PROVE x \in Anc[y]
    <2>1. Cardinality(Anc[x]) <= Cardinality(Anc[y])
      BY <1>3, <1>4
    <2>2. x \in Anc[y] \/ y \in Anc[x]
      BY TreeAssumption
    <2>3. CASE y \in Anc[x] /\ y # x
      BY <1>1, <2>1, <2>3, AncSmaller
    <2>4. QED
      BY <1>1, <2>2, <2>3, AncFacts
  <1>6. QED
    BY <1>5

\* ... and a topmost one.
LEMMA TopmostOf ==
    ASSUME NEW b \in Blocks, NEW S \in SUBSET Anc[b], S # {}
    PROVE  \E x \in S : \A y \in S : y \in Anc[x]
  <1> DEFINE size(x) == Cardinality(Anc[b]) - Cardinality(Anc[x])
             sizes == {size(x) : x \in S}
  <1>1. /\ Cardinality(Anc[b]) \in Nat
        /\ \A x \in S : /\ x \in Blocks /\ Cardinality(Anc[x]) \in Nat
                        /\ Cardinality(Anc[x]) <= Cardinality(Anc[b])
    <2>1. IsFiniteSet(Anc[b]) /\ \A x \in S : x \in Blocks /\ Anc[x] \subseteq Anc[b]
      BY TreeAssumption, FS_Subset
    <2>2. QED
      BY <2>1, FS_Subset, FS_CardinalityType
  <1>2. sizes \in SUBSET Nat /\ sizes # {}
    BY <1>1
  <1>3. PICK n \in sizes : \A k \in sizes : n <= k
    <2> HIDE DEF sizes
    <2> QED BY <1>2, Least
  <1>4. PICK x \in S : n = size(x)
    OBVIOUS
  <1>5. ASSUME NEW y \in S PROVE y \in Anc[x]
    <2>1. Cardinality(Anc[y]) <= Cardinality(Anc[x])
      <3>1. size(x) <= size(y)
        BY <1>3, <1>4
      <3>2. QED
        BY <1>1, <3>1
    <2>2. x \in Anc[y] \/ y \in Anc[x]
      BY TreeAssumption
    <2>3. CASE x \in Anc[y] /\ y # x
      BY <1>1, <2>1, <2>3, AncSmaller
    <2>4. QED
      BY <1>1, <2>2, <2>3, AncFacts
  <1>6. QED
    BY <1>5

-----------------------------------------------------------------------------
(* Who is walking or stepping *)

LEMMA NobodyInside ==
    ASSUME csMainFree
    PROVE  \A t \in Threads : ~Walking(t) /\ ~Stepping(t)
  BY DEF csMainFree, Walking, Stepping

LEMMA Alone ==
    ASSUME LockInv, NEW t \in Threads, Holds(t)
    PROVE  \A u \in Threads \ {t} : ~Holds(u) /\ ~Walking(u) /\ ~Stepping(u)
  BY DEF LockInv, Holds, Walking, Stepping

LEMMA OthersStay ==
    ASSUME NEW t \in Threads, Moves(t)
    PROVE  \A u \in Threads \ {t} : /\ Walking(u)' <=> Walking(u)
                                    /\ Stepping(u)' <=> Stepping(u)
  BY DEF Moves, Walking, Stepping

\* Extra marks of failure on the blocks of S.
LEMMA MarkFails ==
    ASSUME TypeInv, NEW S, NEW f \in Failure, nStatus' = Mark(nStatus, S, f)
    PROVE  \A x \in Blocks : /\ Failed(x)' <=> Failed(x) \/ x \in S
                             /\ nStatus[x] \cap Failure \subseteq nStatus'[x]
  BY DEF TypeInv, Mark, Failed, Failure

\* The coins and the tip are clean while nobody is walking; with cs_main free
\* they are the same.
LEMMA CleanTip ==
    ASSUME LockInv, WalkInv, csMainFree
    PROVE  Clean(tip) /\ coinsTip = tip
  BY NobodyInside, FreeMeansNobody DEF WalkInv, LockInv, Between, Holds

\* A critical section of its own that marks no block of the active chain.
LEMMA FreeWalk ==
    ASSUME IndInv, LockInv, WalkInv, csMainFree, NEW t \in Threads, Moves(t),
           UNCHANGED <<tip, coinsTip>>, ~Walking(t)', ~Stepping(t)',
           \A x \in Anc[tip] : Failed(x)' => Failed(x)
    PROVE  WalkInv'
  <1>1. \A u \in Threads : ~Walking(u)' /\ ~Stepping(u)'
    BY NobodyInside, OthersStay
  <1>2. Clean(tip)' /\ Clean(coinsTip)'
    BY CleanTip DEF Clean
  <1>3. QED
    BY <1>1, <1>2 DEF WalkInv

\* A step that only moves a thread that is neither walking nor stepping.
LEMMA QuietWalk ==
    ASSUME WalkInv, NEW t \in Threads, Moves(t), \A u \in Threads \ {t} : goal'[u] = goal[u],
           UNCHANGED <<tip, coinsTip, nStatus>>,
           ~Walking(t), ~Walking(t)', ~Stepping(t)'
    PROVE  WalkInv'
  <1>1. \A u \in Threads \ {t} : /\ Walking(u)' <=> Walking(u)
                                 /\ Stepping(u)' <=> Stepping(u)
    BY OthersStay
  <1>2. \A x : Failed(x)' <=> Failed(x)
    BY DEF Failed
  <1>3. \A u \in Threads : Walking(u)' => u # t /\ Walking(u) /\ goal'[u] = goal[u]
    BY <1>1
  <1>4. \A u \in Threads : Stepping(u)' => u # t /\ Stepping(u) /\ goal'[u] = goal[u]
    BY <1>1
  <1>5. (\A u \in Threads : ~Walking(u)') => \A u \in Threads : ~Walking(u)
    BY <1>1
  <1>6. \A b : Clean(b)' <=> Clean(b)
    BY <1>2 DEF Clean
  <1>7. QED
    BY <1>2, <1>3, <1>4, <1>5, <1>6 DEF WalkInv

\* t goes on holding cs_main without walking: the coins and the tip stay clean.
LEMMA HeldWalk ==
    ASSUME LockInv, NEW t \in Threads, Holds(t), Moves(t),
           ~Walking(t)', Clean(tip)', Clean(coinsTip)', Stepping(t)' => Clean(goal[t])'
    PROVE  WalkInv'
  <1>1. \A u \in Threads \ {t} : ~Walking(u)' /\ ~Stepping(u)'
    BY Alone, OthersStay
  <1>2. QED
    BY <1>1 DEF WalkInv

LEMMA ArriveWalk ==
    ASSUME IndInv, LockInv, WalkInv, NEW t \in Threads, NEW b \in Blocks,
           \/ AcceptBlockHeader(t, b) \/ AcceptBlock(t, b)
           \/ AcceptDuplicate(t, b) \/ AcceptBlockFails(t, b)
    PROVE  WalkInv' /\ \A x \in Blocks : nStatus[x] \cap Failure \subseteq nStatus'[x]
  <1>1. /\ csMainFree /\ UNCHANGED <<tip, coinsTip, cont, goal>>
        /\ pc' = pc \/ pc' = [pc EXCEPT ![t] = "activate"]
    BY DEF AcceptBlockHeader, AcceptBlock, AcceptDuplicate, AcceptBlockFails, Goto, local
  <1>2. pc[t] = "idle" /\ pc'[t] \in {"idle", "activate"} /\ Moves(t)
    BY <1>1 DEF IndInv, TypeInv, Moves, AcceptBlockHeader, AcceptBlock, AcceptDuplicate,
                AcceptBlockFails
  <1>3. /\ \A x \in Blocks : Failed(x)' => Failed(x) \/ (x = b /\ ~HaveData(b))
        /\ \A x \in Blocks : nStatus[x] \cap Failure \subseteq nStatus'[x]
    <2>1. CASE AcceptBlockHeader(t, b)
      BY <2>1 DEF AcceptBlockHeader, mapBlockIndex, Failed, Failure, IndInv, TypeInv
    <2>2. CASE AcceptDuplicate(t, b)
      BY <2>2 DEF AcceptDuplicate, index, Failed
    <2>3. CASE AcceptBlock(t, b) \/ AcceptBlockFails(t, b)
      BY <2>3 DEF AcceptBlock, AcceptBlockFails, Mark, Failed, Failure, IndInv, TypeInv
    <2>4. QED
      BY <2>1, <2>2, <2>3
  <1>4. \A x \in Anc[tip] : x \in Blocks /\ HaveData(x)
    BY TreeAssumption DEF IndInv, TypeInv, LinkInv, TipInv, HaveData
  <1>5. WalkInv'
    BY <1>1, <1>2, <1>3, <1>4, FreeWalk DEF Walking, Stepping
  <1>6. QED
    BY <1>3, <1>5

-----------------------------------------------------------------------------
(* FindMostWorkChain *)

\* CBlockIndexWorkComparator is a strict weak order.
LEMMA WorseOrder ==
    ASSUME NEW seq \in [Blocks -> Nat], NEW a \in Blocks, NEW b \in Blocks, NEW c \in Blocks
    PROVE  /\ ~Worse(seq, a, a)
           /\ Worse(seq, a, b) => ~Worse(seq, b, a)
           /\ ~Worse(seq, a, b) /\ ~Worse(seq, b, c) => ~Worse(seq, a, c)
  <1>1. /\ ChainWork[a] \in Nat /\ ChainWork[b] \in Nat /\ ChainWork[c] \in Nat
        /\ Ptr[a] \in Nat /\ Ptr[b] \in Nat /\ Ptr[c] \in Nat
        /\ seq[a] \in Nat /\ seq[b] \in Nat /\ seq[c] \in Nat
    BY TreeAssumption
  <1>2. QED
    BY <1>1 DEF Worse

\* A block is better than its ancestors.
LEMMA WorkGrows ==
    ASSUME NEW seq, NEW b \in Blocks \ {Genesis}
    PROVE  Worse(seq, Parent[b], b)
  BY TreeAssumption DEF Worse

\* The topmost failed block on the path to c exists when there is one at all.
LEMMA TopFailedFacts ==
    ASSUME IndInv, NEW c \in candidates, FailedOnPath(c) # {}
    PROVE  /\ TopFailed(c) \in Anc[c] \ Anc[tip] /\ Failed(TopFailed(c))
           /\ \A x \in Anc[c] \ Anc[TopFailed(c)] : TopFailed(c) \in Anc[x] /\ x \notin Anc[tip]
  <1>1. c \in Blocks /\ FailedOnPath(c) \in SUBSET Anc[c]
    BY DEF FailedOnPath, IndInv, TypeInv
  <1>2. \E x \in FailedOnPath(c) : \A y \in FailedOnPath(c) : y \in Anc[x]
    BY <1>1, TopmostOf
  <1>3. TopFailed(c) \in FailedOnPath(c)
    BY <1>2 DEF TopFailed
  <1>4. TopFailed(c) \in Anc[c] \ Anc[tip] /\ Failed(TopFailed(c)) /\ tip \in Blocks
    BY <1>3 DEF FailedOnPath, IndInv, TypeInv
  <1>5. ASSUME NEW x \in Anc[c] \ Anc[TopFailed(c)]
        PROVE  TopFailed(c) \in Anc[x] /\ x \notin Anc[tip]
    <2>1. TopFailed(c) \in Anc[x]
      BY <1>1, <1>4, TreeAssumption
    <2>2. x \in Anc[tip] => Anc[x] \subseteq Anc[tip]
      BY <1>4, AncFacts
    <2>3. QED
      BY <1>4, <2>1, <2>2
  <1>6. QED
    BY <1>4, <1>5

\* What Discard marks and removes has a failed block below it, off the chain.
LEMMA Discards ==
    ASSUME IndInv, NEW hopeless \in SUBSET candidates,
           \A c \in hopeless : FailedOnPath(c) # {}, Discard(hopeless)
    PROVE  /\ \A x \in Blocks : Failed(x) => Failed(x)'
           /\ \A x \in Blocks : Failed(x)' /\ ~Failed(x) =>
                 x \notin Anc[tip] /\ \E a \in Anc[x] : Failed(a)
           /\ \A x \in Blocks : Clean(x)' <=> Clean(x)
           /\ candidates' \subseteq candidates
           /\ \A x \in candidates : Clean(x) => x \in candidates'
           /\ \A x \in Blocks : nStatus[x] \cap Failure \subseteq nStatus'[x]
           /\ \A x \in Blocks, f \in Flags \ {"child"} : f \in nStatus'[x] <=> f \in nStatus[x]
  <1> DEFINE M == UNION {Anc[c] \ Anc[TopFailed(c)] : c \in hopeless}
             G == UNION {(Anc[c] \ Anc[TopFailed(c)]) \cup {TopFailed(c)} : c \in hopeless}
  <1>1. nStatus' = Mark(nStatus, M, "child") /\ candidates' = candidates \ G
    BY DEF Discard
  <1>2. \A x \in M : x \notin Anc[tip] /\ \E a \in Anc[x] : Failed(a)
    BY TopFailedFacts
  <1>3. \A x \in G : \E a \in Anc[x] : Failed(a)
    <2>1. ASSUME NEW c \in hopeless
          PROVE  \A x \in (Anc[c] \ Anc[TopFailed(c)]) \cup {TopFailed(c)} :
                    \E a \in Anc[x] : Failed(a)
      <3>1. TopFailed(c) \in Blocks
        BY TopFailedFacts, TreeAssumption DEF IndInv, TypeInv
      <3>2. TopFailed(c) \in Anc[TopFailed(c)]
        BY <3>1, AncFacts
      <3>3. QED
        BY <3>2, TopFailedFacts
    <2>2. QED
      BY <2>1
  <1> HIDE DEF M, G
  <1>4. /\ \A x \in Blocks : Failed(x)' <=> Failed(x) \/ x \in M
        /\ \A x \in Blocks : nStatus[x] \cap Failure \subseteq nStatus'[x]
    BY <1>1, MarkFails DEF IndInv, Failure
  <1>5. \A x \in Blocks : Clean(x)' <=> Clean(x)
    <2> SUFFICES ASSUME NEW x \in Blocks PROVE Clean(x)' <=> Clean(x)
      OBVIOUS
    <2>1. Anc[x] \subseteq Blocks /\ \A y \in Anc[x] : Anc[y] \subseteq Anc[x]
      BY AncFacts
    <2>2. Clean(x)' => Clean(x)
      BY <1>4, <2>1 DEF Clean
    <2>3. ASSUME Clean(x) PROVE Clean(x)'
      <3>1. \A y \in Anc[x] : y \notin M
        BY <1>2, <2>1, <2>3 DEF Clean
      <3>2. QED
        BY <1>4, <2>1, <2>3, <3>1 DEF Clean
    <2>4. QED
      BY <2>2, <2>3
  <1>6. \A x \in candidates : Clean(x) => x \in candidates'
    BY <1>1, <1>3 DEF Clean
  <1>7. \A x \in Blocks, f \in Flags \ {"child"} : f \in nStatus'[x] <=> f \in nStatus[x]
    BY <1>1 DEF Mark, IndInv, TypeInv
  <1>8. QED
    BY <1>1, <1>2, <1>4, <1>5, <1>6, <1>7

\* What a call of FindMostWorkChain leads to: nothing, or the best candidate
\* whose path to the active chain is clean.
LEMMA MostWork ==
    ASSUME IndInv, NEW t \in Threads, ActivateBestChain(t)
    PROVE  /\ \E hopeless \in SUBSET candidates :
                 (\A c \in hopeless : FailedOnPath(c) # {}) /\ Discard(hopeless)
           /\ \/ Usable = {} /\ pc'[t] = "idle"
              \/ \E best \in Usable :
                    /\ \A c \in Usable : ~Worse(nSequenceId, best, c)
                    /\ \/ best = tip /\ pc'[t] = "idle"
                       \/ pc'[t] = "step" /\ goal'[t] = best
           /\ Moves(t) /\ \A u \in Threads \ {t} : goal'[u] = goal[u]
           /\ csMainFree /\ cont'[t] = cont[t]
           /\ UNCHANGED <<linked, nSequenceId, nBlockSequenceId, unlinked, tip, coinsTip, diskTip,
                          disk, dirty, used>>
  <1>1. /\ csMainFree /\ FindMostWorkChain(t)
        /\ UNCHANGED <<linked, nSequenceId, nBlockSequenceId, unlinked, tip, coinsTip, diskTip,
                       disk, dirty, used, cont>>
    BY DEF ActivateBestChain
  <1>2. CASE Usable = {} /\ Discard(candidates) /\ Stay(t, "idle")
    <2>1. candidates \in SUBSET candidates /\ \A c \in candidates : FailedOnPath(c) # {}
      BY <1>2 DEF Usable
    <2>2. /\ pc'[t] = "idle" /\ Moves(t) /\ \A u \in Threads \ {t} : goal'[u] = goal[u]
      BY <1>1, <1>2 DEF Stay, Goto, Moves, IndInv, TypeInv
    <2>3. QED
      BY <1>1, <1>2, <2>1, <2>2
  <1>3. ASSUME NEW best \in Usable,
               \A c \in Usable \ {best} : Worse(nSequenceId, c, best),
               Discard({c \in candidates : Worse(nSequenceId, best, c)}),
               \/ best = tip /\ Stay(t, "idle")
               \/ /\ best # tip /\ Goto(t, "step")
                  /\ goal' = [goal EXCEPT ![t] = best]
                  /\ old' = [old EXCEPT ![t] = tip]
        PROVE  /\ \E hopeless \in SUBSET candidates :
                     (\A c \in hopeless : FailedOnPath(c) # {}) /\ Discard(hopeless)
               /\ \A c \in Usable : ~Worse(nSequenceId, best, c)
               /\ \/ best = tip /\ pc'[t] = "idle"
                  \/ pc'[t] = "step" /\ goal'[t] = best
               /\ Moves(t) /\ \A u \in Threads \ {t} : goal'[u] = goal[u]
    <2> DEFINE H == {c \in candidates : Worse(nSequenceId, best, c)}
    <2>1. /\ best \in Blocks /\ nSequenceId \in [Blocks -> Nat]
          /\ \A c \in Usable : c \in Blocks
      BY DEF Usable, IndInv, TypeInv
    <2>2. \A c \in Usable : ~Worse(nSequenceId, best, c)
      BY <1>3, <2>1, WorseOrder
    <2>3. H \in SUBSET candidates /\ \A c \in H : FailedOnPath(c) # {}
      BY <2>2 DEF Usable
    <2>4. Discard(H)
      BY <1>3
    <2>5. /\ \/ best = tip /\ pc'[t] = "idle"
             \/ pc'[t] = "step" /\ goal'[t] = best
          /\ Moves(t) /\ \A u \in Threads \ {t} : goal'[u] = goal[u]
      BY <1>1, <1>3 DEF Stay, Goto, Moves, IndInv, TypeInv
    <2> HIDE DEF H
    <2>6. QED
      BY <2>2, <2>3, <2>4, <2>5
  <1>4. QED
    BY <1>1, <1>2, <1>3 DEF FindMostWorkChain

LEMMA ActivateWalk ==
    ASSUME IndInv, LockInv, WalkInv, NEW t \in Threads, ActivateBestChain(t)
    PROVE  WalkInv' /\ \A x \in Blocks : nStatus[x] \cap Failure \subseteq nStatus'[x]
  <1>1. PICK hopeless \in SUBSET candidates :
           (\A c \in hopeless : FailedOnPath(c) # {}) /\ Discard(hopeless)
    BY MostWork
  <1>2. csMainFree /\ Moves(t) /\ UNCHANGED <<tip, coinsTip>> /\ pc'[t] \in {"idle", "step"}
    BY MostWork
  <1>3. \A u \in Threads : ~Walking(u)' /\ (u # t => ~Stepping(u)')
    BY <1>2, NobodyInside, OthersStay DEF Walking
  <1>4. /\ \A x \in Blocks : Clean(x)' <=> Clean(x)
        /\ \A x \in Blocks : nStatus[x] \cap Failure \subseteq nStatus'[x]
    BY <1>1, Discards
  <1>5. tip \in Blocks /\ Clean(tip) /\ coinsTip = tip
    BY <1>2, CleanTip DEF IndInv, TypeInv
  <1>6. ASSUME Stepping(t)' PROVE Clean(goal[t])'
    <2>1. pc'[t] = "step"
      BY <1>2, <1>6 DEF Stepping
    <2>2. goal'[t] \in Usable /\ goal'[t] \in Blocks
      BY <2>1, MostWork DEF Usable, IndInv, TypeInv
    <2>3. Clean(goal'[t])
      BY <1>5, <2>2 DEF Usable, FailedOnPath, Clean
    <2>4. \A x \in Anc[goal'[t]] : ~Failed(x)'
      BY <1>4, <2>2, <2>3 DEF Clean
    <2>5. QED
      BY <2>4 DEF Clean
  <1>7. QED
    BY <1>2, <1>3, <1>4, <1>5, <1>6 DEF WalkInv

-----------------------------------------------------------------------------
(* Failed blocks and the active chain *)

LEMMA SameWalk ==
    ASSUME WalkInv, UNCHANGED <<nStatus, tip, coinsTip, pc, cont, goal>>
    PROVE  WalkInv'
  BY DEF WalkInv, Walking, Stepping, Clean, Failed

\* While t holds cs_main without walking, the coins and the tip are clean.
LEMMA HeldClean ==
    ASSUME IndInv, LockInv, WalkInv, NEW t \in Threads, Holds(t), ~Walking(t)
    PROVE  /\ Clean(tip) /\ Clean(coinsTip) /\ (Stepping(t) => Clean(goal[t]))
  BY Alone DEF WalkInv

LEMMA CleanBelow ==
    ASSUME NEW b \in Blocks, NEW a \in Anc[b], Clean(b)
    PROVE  Clean(a)
  BY AncFacts DEF Clean

LEMMA CleanSame ==
    ASSUME NEW b \in Blocks, \A x \in Blocks : Failed(x)' => Failed(x), Clean(b)
    PROVE  \A x \in Anc[b] : ~Failed(x)'
  BY AncFacts DEF Clean

LEMMA WriteCoinsWalk ==
    ASSUME IndInv, LockInv, WalkInv, NEW t \in Threads, WriteCoins(t)
    PROVE  WalkInv'
  <1>1. /\ pc[t] = "flush" /\ UNCHANGED <<nStatus, coinsTip>>
        /\ cont' = [cont EXCEPT ![t] = "idle"] /\ cont[t] \in Callers
    BY DEF WriteCoins, CoinsWritten, IndInv, TypeInv
  <1>2. Holds(t) /\ cont'[t] = "idle" /\ \A u \in Threads \ {t} : cont'[u] = cont[u]
    BY <1>1 DEF Holds, IndInv, TypeInv
  <1>3. \A b : Clean(b)' <=> Clean(b)
    BY <1>1 DEF Clean, Failed
  <1>4. CASE cont[t] = "connect"
    <2>1. AfterConnect(t, coinsTip)
      BY <1>4 DEF WriteCoins, CoinsWritten
    <2>2. /\ tip' = coinsTip /\ pc'[t] \in {"exit", "loop", "step"} /\ Moves(t)
      BY <1>2, <2>1, AfterConnectMoves DEF Moves
    <2>3. pc'[t] = "step" => goal'[t] = goal[t]
      BY <2>1 DEF AfterConnect, Leave, Stay, Goto, IndInv, TypeInv
    <2>4. Clean(coinsTip) /\ Clean(goal[t])
      BY <1>1, <1>2, <1>4, HeldClean DEF Walking, Stepping
    <2>5. /\ ~Walking(t)' /\ Clean(tip)' /\ Clean(coinsTip)' /\ (Stepping(t)' => Clean(goal[t])')
      BY <1>1, <1>3, <2>2, <2>3, <2>4 DEF Walking, Stepping, Clean, Failed
    <2>6. QED
      BY <1>2, <2>2, <2>5, HeldWalk
  <1>5. CASE cont[t] \in {"disconnect", "reprocess"}
    <2>1. /\ tip' = coinsTip /\ pc' = [pc EXCEPT ![t] = IF cont[t] = "reprocess" THEN "reprocess" ELSE "step"]
          /\ goal' = goal
      BY <1>5 DEF WriteCoins, CoinsWritten, Stay, Goto
    <2>2. pc'[t] \in {"step", "reprocess"} /\ Moves(t) /\ (pc'[t] = "step" => cont[t] = "disconnect")
      BY <1>2, <1>5, <2>1 DEF Moves, IndInv, TypeInv
    <2>3. Clean(coinsTip) /\ (cont[t] = "disconnect" => Clean(goal[t]))
      BY <1>1, <1>2, <1>5, HeldClean DEF Walking, Stepping
    <2>4. /\ ~Walking(t)' /\ Clean(tip)' /\ Clean(coinsTip)' /\ (Stepping(t)' => Clean(goal[t])')
      BY <1>1, <1>3, <2>1, <2>2, <2>3 DEF Walking, Stepping, Clean, Failed
    <2>5. QED
      BY <1>2, <2>2, <2>4, HeldWalk
  <1>6. CASE cont[t] = "invalidate"
    <2>1. tip' = coinsTip /\ pc' = [pc EXCEPT ![t] = "invalidate"] /\ goal' = goal
      BY <1>6 DEF WriteCoins, CoinsWritten, Stay, Goto
    <2>2. pc'[t] = "invalidate" /\ Moves(t)
      BY <1>2, <2>1 DEF Moves, IndInv, TypeInv
    <2>3. \A u \in Threads \ {t} : ~Walking(u)' /\ ~Stepping(u)'
      BY <1>2, <2>2, Alone, OthersStay
    <2>4. tip # Genesis /\ coinsTip = Parent[tip]
      BY <1>1, <1>6 DEF LockInv, Between
    <2>5. Anc[tip'] \subseteq Anc[tip]
      BY <2>1, <2>4, TreeAssumption DEF IndInv, TypeInv
    <2>6. \A x \in Anc[tip] : Failed(x) => goal[t] \in Anc[x]
      BY <1>1, <1>6 DEF WalkInv, Walking
    <2>7. \A x \in Anc[tip'] : Failed(x)' => goal'[t] \in Anc[x]
      BY <1>1, <2>1, <2>5, <2>6 DEF Failed
    <2>8. Walking(t)' /\ ~Stepping(t)'
      BY <2>2 DEF Walking, Stepping
    <2>9. QED
      BY <2>3, <2>7, <2>8 DEF WalkInv
  <1>7. CASE cont[t] \in {"return", "idle"}
    <2>1. tip' = tip /\ pc' = [pc EXCEPT ![t] = "idle"] /\ goal' = goal
      BY <1>7 DEF WriteCoins, CoinsWritten, Stay, Goto
    <2>2. pc'[t] = "idle" /\ Moves(t)
      BY <1>2, <2>1 DEF Moves, IndInv, TypeInv
    <2>3. ~Walking(t) /\ ~Walking(t)' /\ ~Stepping(t)'
      BY <1>1, <1>7, <2>2 DEF Walking, Stepping
    <2>4. QED
      BY <1>1, <2>1, <2>2, <2>3, QuietWalk
  <1>8. QED
    BY <1>1, <1>4, <1>5, <1>6, <1>7 DEF Callers

LEMMA FlushWalk ==
    ASSUME IndInv, LockInv, WalkInv, NEW t \in Threads, FlushStateToDisk(t) \/ ActivateExit(t)
    PROVE  WalkInv' /\ UNCHANGED nStatus
  <1>1. /\ pc[t] \in {"idle", "exit"} /\ UNCHANGED <<tip, coinsTip, nStatus, goal>>
    BY DEF FlushStateToDisk, ActivateExit, index
  <1>2. /\ pc' = [pc EXCEPT ![t] = "flush"] \/ pc' = [pc EXCEPT ![t] = "idle"]
        /\ \/ cont' = [cont EXCEPT ![t] = "idle"] \/ cont' = [cont EXCEPT ![t] = "return"]
           \/ cont' = cont /\ pc' = [pc EXCEPT ![t] = "idle"]
    BY DEF FlushStateToDisk, ActivateExit, Flush, Goto
  <1>3. ~Walking(t)' /\ ~Stepping(t)' /\ Moves(t)
    BY <1>2 DEF IndInv, TypeInv, Moves, Walking, Stepping
  <1>4. QED
    BY <1>1, <1>3, QuietWalk DEF Walking

LEMMA StepDisconnectWalk ==
    ASSUME IndInv, LockInv, WalkInv, NEW t \in Threads, StepDisconnect(t)
    PROVE  WalkInv' /\ UNCHANGED nStatus
  <1>1. /\ pc[t] = "step" /\ DisconnectTip(t, "disconnect")
        /\ UNCHANGED <<nStatus, tip, goal>>
    BY DEF StepDisconnect, index
  <1>2. /\ tip # Genesis /\ coinsTip' = Parent[tip] /\ Anc[coinsTip'] \subseteq Anc[coinsTip]
        /\ pc' = [pc EXCEPT ![t] = "flush"] /\ cont' = [cont EXCEPT ![t] = "disconnect"]
    <2>1. "disconnect" \in Callers
      BY DEF Callers
    <2>2. QED
      BY <1>1, <2>1, DisconnectParent
  <1>3. Clean(tip) /\ Clean(coinsTip) /\ Clean(goal[t]) /\ Holds(t)
    BY <1>1, HeldClean DEF Holds, Walking, Stepping
  <1>4. Clean(tip)' /\ Clean(coinsTip)' /\ Clean(goal[t])'
    BY <1>1, <1>2, <1>3 DEF Clean, Failed
  <1>5. ~Walking(t)' /\ Moves(t)
    BY <1>2 DEF Walking, Moves, IndInv, TypeInv
  <1>6. QED
    BY <1>1, <1>3, <1>4, <1>5, HeldWalk

\* The block that StepConnect or StepInvalid looks at.
LEMMA NextBlock ==
    ASSUME IndInv, NEW t \in Threads, NEW b \in Anc[goal[t]] \ {Genesis}, Parent[b] = tip
    PROVE  /\ b \in Blocks /\ goal[t] \in Blocks /\ b \notin Anc[tip]
           /\ Anc[b] = {b} \cup Anc[tip] /\ Anc[b] \subseteq Anc[goal[t]]
  <1>1. goal[t] \in Blocks
    BY DEF IndInv, TypeInv
  <1>2. b \in Blocks /\ Anc[b] \subseteq Anc[goal[t]]
    BY <1>1, AncFacts
  <1>3. QED
    BY <1>1, <1>2, TreeAssumption

LEMMA StepConnectWalk ==
    ASSUME IndInv, LockInv, WalkInv, NEW t \in Threads, StepConnect(t)
    PROVE  /\ WalkInv'
           /\ \A x \in Blocks : /\ Failed(x)' <=> Failed(x)
                                /\ nStatus[x] \cap Failure \subseteq nStatus'[x]
  <1>1. PICK b \in Anc[goal[t]] \ {Genesis} :
           /\ Parent[b] = tip /\ ConnectBlock(b)
           /\ \/ Flush(t, "connect") /\ UNCHANGED <<tip, candidates, goal, old>>
              \/ AfterConnect(t, b) /\ UNCHANGED cont
    BY DEF StepConnect
  <1>2. /\ pc[t] = "step" /\ coinsTip' = b /\ nStatus' = Mark(nStatus, {b}, "undo")
    BY <1>1 DEF StepConnect, ConnectBlock
  <1>3. \A x \in Blocks : /\ Failed(x)' <=> Failed(x)
                          /\ nStatus[x] \cap Failure \subseteq nStatus'[x]
    BY <1>2 DEF Mark, Failed, Failure, IndInv, TypeInv
  <1>4. Clean(tip) /\ Clean(goal[t]) /\ Holds(t)
    BY <1>2, HeldClean DEF Holds, Walking, Stepping
  <1>5. b \in Blocks /\ goal[t] \in Blocks /\ tip \in Blocks /\ Clean(b)
    BY <1>1, <1>4, NextBlock, CleanBelow DEF IndInv, TypeInv
  <1>6. /\ \A x \in Anc[b] : ~Failed(x)'
        /\ \A x \in Anc[tip] : ~Failed(x)'
        /\ \A x \in Anc[goal[t]] : ~Failed(x)'
    BY <1>3, <1>4, <1>5, CleanSame
  <1>7. CASE Flush(t, "connect") /\ UNCHANGED <<tip, candidates, goal, old>>
    <2>1. ~Walking(t)' /\ Moves(t)
      BY <1>7 DEF Flush, Goto, IndInv, TypeInv, Moves, Walking
    <2>2. QED
      BY <1>2, <1>3, <1>4, <1>6, <1>7, <2>1, HeldWalk DEF Clean
  <1>8. CASE AfterConnect(t, b) /\ UNCHANGED cont
    <2>1. tip' = b /\ pc'[t] \in {"exit", "loop", "step"} /\ Moves(t)
      BY <1>8, AfterConnectMoves DEF Moves
    <2>2. pc'[t] = "step" => goal'[t] = goal[t]
      BY <1>8 DEF AfterConnect, Leave, Stay, Goto, IndInv, TypeInv
    <2>3. ~Walking(t)' /\ (Stepping(t)' => Clean(goal[t])')
      BY <1>6, <2>1, <2>2 DEF Walking, Stepping, Clean
    <2>4. QED
      BY <1>2, <1>3, <1>4, <1>6, <2>1, <2>3, HeldWalk DEF Clean
  <1>9. QED
    BY <1>1, <1>7, <1>8

LEMMA StepInvalidWalk ==
    ASSUME IndInv, LockInv, WalkInv, NEW t \in Threads, StepInvalid(t)
    PROVE  WalkInv' /\ \A x \in Blocks : nStatus[x] \cap Failure \subseteq nStatus'[x]
  <1>1. PICK b \in Anc[goal[t]] \ {Genesis} : Parent[b] = tip /\ InvalidBlockFound(b)
    BY DEF StepInvalid
  <1>2. /\ pc[t] = "step" /\ coinsTip = tip /\ UNCHANGED <<tip, coinsTip, cont>>
        /\ pc' = [pc EXCEPT ![t] = "loop"] /\ nStatus' = Mark(nStatus, {b}, "failed")
    BY <1>1 DEF StepInvalid, Leave, Goto, InvalidBlockFound
  <1>3. "failed" \in Failure
    BY DEF Failure
  <1>4. \A x \in Blocks : /\ Failed(x)' <=> Failed(x) \/ x \in {b}
                          /\ nStatus[x] \cap Failure \subseteq nStatus'[x]
    BY <1>2, <1>3, MarkFails DEF IndInv
  <1>5. Clean(tip) /\ Holds(t)
    BY <1>2, HeldClean DEF Holds, Walking
  <1>6. b \notin Anc[tip] /\ Anc[tip] \subseteq Blocks
    BY <1>1, NextBlock, AncFacts DEF IndInv, TypeInv
  <1>7. Clean(tip)' /\ Clean(coinsTip)'
    BY <1>2, <1>4, <1>5, <1>6 DEF Clean
  <1>8. ~Walking(t)' /\ ~Stepping(t)' /\ Moves(t)
    BY <1>2 DEF Walking, Stepping, Moves, IndInv, TypeInv
  <1>9. QED
    BY <1>4, <1>5, <1>7, <1>8, HeldWalk

\* InvalidateBlock: the blocks that carry a mark are the block and what it
\* has walked over already.
LEMMA InvalidateWalks ==
    ASSUME IndInv, LockInv, WalkInv, NEW t \in Threads, NEW b \in Blocks, InvalidateBlock(t, b)
    PROVE  WalkInv' /\ \A x \in Blocks : nStatus[x] \cap Failure \subseteq nStatus'[x]
  <1>1. /\ csMainFree /\ UNCHANGED <<tip, coinsTip, cont>> /\ goal' = [goal EXCEPT ![t] = b]
        /\ pc' = [pc EXCEPT ![t] = "invalidate"] /\ nStatus' = Mark(nStatus, {b}, "failed")
    BY DEF InvalidateBlock, Goto, InvalidBlockFound
  <1>2. "failed" \in Failure
    BY DEF Failure
  <1>3. \A x \in Blocks : /\ Failed(x)' <=> Failed(x) \/ x \in {b}
                          /\ nStatus[x] \cap Failure \subseteq nStatus'[x]
    BY <1>1, <1>2, MarkFails DEF IndInv
  <1>4. /\ pc'[t] = "invalidate" /\ goal'[t] = b /\ Moves(t)
    BY <1>1 DEF Moves, IndInv, TypeInv
  <1>5. \A u \in Threads \ {t} : ~Walking(u)' /\ ~Stepping(u)'
    BY <1>1, <1>4, NobodyInside, OthersStay
  <1>6. Clean(tip) /\ Anc[tip] \subseteq Blocks /\ b \in Anc[b]
    BY <1>1, CleanTip, AncFacts DEF IndInv, TypeInv
  <1>7. \A x \in Anc[tip'] : Failed(x)' => goal'[t] \in Anc[x]
    BY <1>1, <1>3, <1>4, <1>6 DEF Clean
  <1>8. Walking(t)' /\ ~Stepping(t)'
    BY <1>4 DEF Walking, Stepping
  <1>9. QED
    BY <1>3, <1>5, <1>7, <1>8 DEF WalkInv

LEMMA InvalidateWalkWalk ==
    ASSUME IndInv, LockInv, WalkInv, NEW t \in Threads, InvalidateWalk(t)
    PROVE  WalkInv' /\ \A x \in Blocks : nStatus[x] \cap Failure \subseteq nStatus'[x]
  <1>1. /\ pc[t] = "invalidate" /\ goal[t] \in Anc[tip] /\ UNCHANGED <<tip, goal>>
        /\ pc' = [pc EXCEPT ![t] = "flush"] /\ cont' = [cont EXCEPT ![t] = "invalidate"]
        /\ nStatus' = Mark(nStatus, {tip}, "child")
    BY DEF InvalidateWalk, Contains, DisconnectTip, Flush, Goto
  <1>2. "child" \in Failure
    BY DEF Failure
  <1>3. \A x \in Blocks : /\ Failed(x)' <=> Failed(x) \/ x \in {tip}
                          /\ nStatus[x] \cap Failure \subseteq nStatus'[x]
    BY <1>1, <1>2, MarkFails DEF IndInv
  <1>4. /\ pc'[t] = "flush" /\ cont'[t] = "invalidate" /\ Moves(t) /\ Holds(t) /\ Walking(t)
    BY <1>1 DEF Moves, Holds, Walking, IndInv, TypeInv
  <1>5. \A u \in Threads \ {t} : ~Walking(u)' /\ ~Stepping(u)'
    BY <1>4, Alone, OthersStay
  <1>6. Anc[tip] \subseteq Blocks
    BY AncFacts DEF IndInv, TypeInv
  <1>7. \A x \in Anc[tip] : Failed(x) => goal[t] \in Anc[x]
    BY <1>4 DEF WalkInv
  <1>8. \A x \in Anc[tip'] : Failed(x)' => goal'[t] \in Anc[x]
    BY <1>1, <1>3, <1>6, <1>7
  <1>9. Walking(t)' /\ ~Stepping(t)'
    BY <1>4 DEF Walking, Stepping
  <1>10. QED
    BY <1>3, <1>5, <1>8, <1>9 DEF WalkInv

LEMMA InvalidateDoneWalk ==
    ASSUME IndInv, LockInv, WalkInv, NEW t \in Threads, InvalidateDone(t)
    PROVE  WalkInv' /\ UNCHANGED nStatus /\ Clean(tip) /\ coinsTip = tip
  <1>1. /\ pc[t] = "invalidate" /\ goal[t] \notin Anc[tip]
        /\ UNCHANGED <<tip, coinsTip, cont, nStatus>> /\ pc' = [pc EXCEPT ![t] = "activate"]
    BY DEF InvalidateDone, WalkDone, Contains, Leave, Goto
  <1>2. pc'[t] = "activate" /\ Moves(t) /\ Holds(t) /\ Walking(t) /\ ~Between(t)
    BY <1>1 DEF Moves, Holds, Walking, Between, IndInv, TypeInv
  <1>3. coinsTip = tip
    BY <1>2, NobodyBetween
  <1>4. \A x \in Anc[tip] : Anc[x] \subseteq Anc[tip]
    BY AncFacts DEF IndInv, TypeInv
  <1>5. Clean(tip)
    BY <1>1, <1>2, <1>4 DEF WalkInv, Clean
  <1>6. Clean(tip)' /\ Clean(coinsTip)'
    BY <1>1, <1>3, <1>5 DEF Clean, Failed
  <1>7. ~Walking(t)' /\ ~Stepping(t)'
    BY <1>2 DEF Walking, Stepping
  <1>8. QED
    BY <1>1, <1>2, <1>3, <1>5, <1>6, <1>7, HeldWalk

\* ReconsiderBlock only takes marks away, and what it touches is dirty.
LEMMA ReconsiderFacts ==
    ASSUME IndInv, NEW b \in Blocks, Reconsider(b)
    PROVE  /\ \A x \in Blocks : Failed(x)' => Failed(x)
           /\ dirty \subseteq dirty' /\ \A x \in Blocks \ dirty' : nStatus'[x] = nStatus[x]
  <1> DEFINE M == {d \in Blocks : Failed(d) /\ b \in Anc[d]} \cup {a \in Anc[b] : Failed(a)}
  <1>1. /\ nStatus' = [x \in Blocks |-> IF x \in M THEN nStatus[x] \ {"failed", "child"}
                                               ELSE nStatus[x]]
        /\ dirty' = dirty \cup M
    BY DEF Reconsider
  <1> HIDE DEF M
  <1>2. QED
    BY <1>1 DEF Failed

LEMMA ReconsiderWalk ==
    ASSUME IndInv, LockInv, WalkInv, NEW t \in Threads, NEW b \in Blocks,
           ReconsiderBlock(t, b) \/ ReprocessRejected(t, b)
    PROVE  /\ WalkInv' /\ Moves(t) /\ ~Walking(t)' /\ dirty \subseteq dirty'
           /\ \A x \in Blocks \ dirty' : nStatus'[x] = nStatus[x]
  <1>1. /\ pc[t] \in {"idle", "rejected"} /\ csMainFree /\ Reconsider(b)
        /\ UNCHANGED <<tip, coinsTip, cont>>
        /\ pc' = pc \/ pc' = [pc EXCEPT ![t] = "activate"]
    BY DEF ReconsiderBlock, ReprocessRejected, Goto, local
  <1>2. Moves(t) /\ ~Walking(t)' /\ ~Stepping(t)'
    BY <1>1 DEF Moves, Walking, Stepping, IndInv, TypeInv
  <1>3. Anc[tip] \subseteq Blocks
    BY AncFacts DEF IndInv, TypeInv
  <1>4. WalkInv'
    BY <1>1, <1>2, <1>3, ReconsiderFacts, FreeWalk
  <1>5. QED
    BY <1>1, <1>2, <1>4, ReconsiderFacts

LEMMA ReprocessWalk ==
    ASSUME IndInv, LockInv, WalkInv, NEW t \in Threads,
           ReprocessBlocks(t) \/ ReprocessBegin(t) \/ DisconnectBlocksAndReprocess(t)
    PROVE  WalkInv' /\ Moves(t) /\ ~Walking(t)' /\ UNCHANGED <<nStatus, dirty, disk, diskTip>>
  <1>1. CASE ReprocessBlocks(t) \/ ReprocessBegin(t)
    <2>1. /\ pc[t] \in {"idle", "rejected"}
          /\ UNCHANGED <<tip, coinsTip, nStatus, goal, cont, dirty, disk, diskTip>>
          /\ pc' = [pc EXCEPT ![t] = "rejected"] \/ pc' = [pc EXCEPT ![t] = "reprocess"]
      BY <1>1 DEF ReprocessBlocks, ReprocessBegin, Goto, index, local
    <2>2. Moves(t) /\ ~Walking(t) /\ ~Walking(t)' /\ ~Stepping(t)'
      BY <2>1 DEF Moves, Walking, Stepping, IndInv, TypeInv
    <2>3. QED
      BY <2>1, <2>2, QuietWalk
  <1>2. CASE DisconnectBlocksAndReprocess(t)
    <2>1. pc[t] = "reprocess" /\ UNCHANGED <<tip, nStatus, goal, dirty, disk, diskTip>>
      BY <1>2 DEF DisconnectBlocksAndReprocess, index
    <2>2. CASE DisconnectTip(t, "reprocess")
      <3>1. "reprocess" \in Callers
        BY DEF Callers
      <3>2. /\ Anc[coinsTip'] \subseteq Anc[coinsTip]
            /\ pc' = [pc EXCEPT ![t] = "flush"] /\ cont' = [cont EXCEPT ![t] = "reprocess"]
        BY <2>2, <3>1, DisconnectParent
      <3>3. Clean(tip) /\ Clean(coinsTip) /\ Holds(t)
        BY <2>1, HeldClean DEF Holds, Walking
      <3>4. Clean(tip)' /\ Clean(coinsTip)'
        BY <2>1, <3>2, <3>3 DEF Clean, Failed
      <3>5. ~Walking(t)' /\ ~Stepping(t)' /\ Moves(t)
        BY <3>2 DEF Walking, Stepping, Moves, IndInv, TypeInv
      <3>6. QED
        BY <2>1, <3>3, <3>4, <3>5, HeldWalk
    <2>3. CASE UNCHANGED <<coinsTip, cont>> /\ (UNCHANGED pc \/ Goto(t, "activate"))
      <3>1. Moves(t) /\ ~Walking(t) /\ ~Walking(t)' /\ ~Stepping(t)'
        BY <2>1, <2>3 DEF Goto, Moves, Walking, Stepping, IndInv, TypeInv
      <3>2. QED
        BY <2>1, <2>3, <3>1, QuietWalk
    <2>4. QED
      BY <1>2, <2>2, <2>3 DEF DisconnectBlocksAndReprocess
  <1>3. QED
    BY <1>1, <1>2

-----------------------------------------------------------------------------
(* Failed blocks and the disk *)

\* An intervention stays within some budget.
LEMMA SpendFacts ==
    ASSUME TypeInv, NEW what \in Interventions, Spend(what)
    PROVE  /\ used'[what] > 0 /\ \A w \in Interventions \ {what} : used'[w] = used[w]
           /\ \E budget \in Budgets :
                 budget[what] > 0 /\ \A w \in Interventions : used'[w] <= budget[w]
  <1>1. used[what] \in Nat /\ used' = [used EXCEPT ![what] = used[what] + 1]
    BY DEF TypeInv, Spend
  <1>2. used'[what] = used[what] + 1 /\ \A w \in Interventions \ {what} : used'[w] = used[w]
    BY <1>1 DEF TypeInv
  <1>3. PICK budget \in Budgets : \A w \in Interventions : used'[w] <= budget[w]
    BY DEF Spend
  <1>4. budget[what] \in Nat
    BY TreeAssumption
  <1>5. budget[what] > 0
    BY <1>1, <1>2, <1>3, <1>4
  <1>6. QED
    BY <1>1, <1>2, <1>3, <1>5

\* Under NoCrashAfterInvalidate, a crash and an invalidation exclude each other.
LEMMA Excluded ==
    ASSUME TypeInv, NoCrashAfterInvalidate
    PROVE  /\ Spend("crash") => used'["invalidate"] = 0 /\ used["invalidate"] = 0
           /\ Spend("invalidate") => used'["crash"] = 0 /\ used'["invalidate"] # 0
  <1>1. "crash" \in Interventions /\ "invalidate" \in Interventions
    BY DEF Interventions
  <1>2. \A w \in Interventions : used[w] \in Nat
    BY DEF TypeInv
  <1>3. \A budget \in Budgets : /\ budget["crash"] \in Nat /\ budget["invalidate"] \in Nat
                                /\ budget["crash"] = 0 \/ budget["invalidate"] = 0
    BY <1>1, TreeAssumption DEF NoCrashAfterInvalidate
  <1>4. ASSUME Spend("crash") PROVE used'["invalidate"] = 0 /\ used["invalidate"] = 0
    <2>1. /\ used'["invalidate"] = used["invalidate"]
          /\ \E budget \in Budgets : budget["crash"] > 0 /\ used'["invalidate"] <= budget["invalidate"]
      BY <1>1, <1>4, SpendFacts
    <2>2. QED
      BY <1>1, <1>2, <1>3, <2>1
  <1>5. ASSUME Spend("invalidate") PROVE used'["crash"] = 0 /\ used'["invalidate"] # 0
    <2>1. /\ used'["crash"] = used["crash"] /\ used'["invalidate"] > 0
          /\ \E budget \in Budgets : budget["invalidate"] > 0 /\ used'["crash"] <= budget["crash"]
      BY <1>1, <1>5, SpendFacts
    <2>2. QED
      BY <1>1, <1>2, <1>3, <2>1
  <1>6. QED
    BY <1>4, <1>5

\* A step that does not write, spends neither a crash nor an invalidation and
\* takes marks away from dirty blocks only.
LEMMA DiskKept ==
    ASSUME DiskInv, NEW t \in Threads, Moves(t), Walking(t)' => Walking(t),
           UNCHANGED <<disk, diskTip>>, dirty \subseteq dirty',
           used'["crash"] = used["crash"], used'["invalidate"] = used["invalidate"],
           \A x \in Blocks \ dirty' : nStatus[x] \cap Failure \subseteq nStatus'[x]
    PROVE  DiskInv'
  <1>1. (\A u \in Threads : ~Walking(u)) => \A u \in Threads : ~Walking(u)'
    BY OthersStay
  <1>2. \A x \in Blocks \ dirty' : disk'[x].nStatus \cap Failure \subseteq nStatus'[x]
    BY DEF DiskInv
  <1>3. QED
    BY <1>1, <1>2 DEF DiskInv

LEMMA WriteBlockIndexDisk ==
    ASSUME IndInv, LockInv, WalkInv, DiskInv, NEW t \in Threads, NEW b \in Blocks,
           WriteBlockIndex(t, b)
    PROVE  WalkInv' /\ DiskInv'
  <1>1. /\ disk' = [disk EXCEPT ![b] = [nStatus |-> nStatus[b], pnext |-> pnext[b]]]
        /\ dirty' = dirty \ {b}
        /\ UNCHANGED <<nStatus, tip, coinsTip, diskTip, pc, goal, cont, used>>
    BY DEF WriteBlockIndex, index, local
  <1>2. WalkInv'
    BY <1>1, SameWalk
  <1>3. \A x \in Blocks : disk'[x].nStatus = IF x = b THEN nStatus[x] ELSE disk[x].nStatus
    BY <1>1 DEF IndInv, TypeInv
  <1>4. Anc[diskTip] \subseteq Anc[tip] /\ Anc[diskTip] \subseteq Blocks
    BY AncFacts DEF LockInv, IndInv, TypeInv
  <1>5. used["invalidate"] = 0 => \A x \in Anc[diskTip] : disk'[x].nStatus \cap Failure = {}
    <2> SUFFICES ASSUME used["invalidate"] = 0, NEW x \in Anc[diskTip]
                 PROVE  disk'[x].nStatus \cap Failure = {}
      OBVIOUS
    <2>1. Clean(tip) /\ disk[x].nStatus \cap Failure = {}
      BY DEF DiskInv, WalkInv
    <2>2. nStatus[x] \cap Failure = {}
      BY <1>4, <2>1 DEF Clean, Failed, Failure
    <2>3. QED
      BY <1>3, <1>4, <2>1, <2>2
  <1>6. \A x \in Blocks \ dirty' : disk'[x].nStatus \cap Failure \subseteq nStatus'[x]
    BY <1>1, <1>3 DEF DiskInv
  <1>7. \A u \in Threads : Walking(u)' <=> Walking(u)
    BY <1>1 DEF Walking
  <1>8. QED
    BY <1>1, <1>2, <1>5, <1>6, <1>7 DEF DiskInv

LEMMA WriteCoinsDisk ==
    ASSUME IndInv, LockInv, WalkInv, DiskInv, NEW t \in Threads, WriteCoins(t)
    PROVE  WalkInv' /\ DiskInv'
  <1>1. WalkInv'
    BY WriteCoinsWalk
  <1>2. /\ dirty = {} /\ diskTip' = coinsTip /\ UNCHANGED <<nStatus, disk, dirty, used>>
        /\ pc[t] = "flush" /\ cont' = [cont EXCEPT ![t] = "idle"]
    BY DEF WriteCoins, CoinsWritten
  <1>3. Moves(t) /\ (Walking(t)' => Walking(t))
    <2>1. \/ AfterConnect(t, coinsTip)
          \/ \E l \in {"step", "idle", "reprocess"} : pc' = [pc EXCEPT ![t] = l]
          \/ cont[t] = "invalidate"/\ pc' = [pc EXCEPT ![t] = "invalidate"]
      BY DEF WriteCoins, CoinsWritten, Stay, Goto
    <2>2. CASE AfterConnect(t, coinsTip)
      BY <1>2, <2>2, AfterConnectMoves DEF Moves, Walking, IndInv, TypeInv
    <2>3. CASE \E l \in {"step", "idle", "reprocess"} : pc' = [pc EXCEPT ![t] = l]
      BY <1>2, <2>3 DEF Moves, Walking, IndInv, TypeInv
    <2>4. CASE cont[t] = "invalidate"/\ pc' = [pc EXCEPT ![t] = "invalidate"]
      BY <1>2, <2>4 DEF Moves, Walking, IndInv, TypeInv
    <2>5. QED
      BY <2>1, <2>2, <2>3, <2>4
  <1>4. (\A u \in Threads : ~Walking(u)) => \A u \in Threads : ~Walking(u)'
    BY <1>3, OthersStay
  <1>5. Anc[coinsTip] \subseteq Blocks
    BY AncFacts DEF IndInv, TypeInv
  <1>6. used["invalidate"] = 0 => \A x \in Anc[coinsTip] : disk[x].nStatus \cap Failure = {}
    <2> SUFFICES ASSUME used["invalidate"] = 0, NEW x \in Anc[coinsTip]
                 PROVE  disk[x].nStatus \cap Failure = {}
      OBVIOUS
    <2>1. Clean(coinsTip) /\ disk[x].nStatus \cap Failure \subseteq nStatus[x]
      BY <1>2, <1>5 DEF DiskInv, WalkInv
    <2>2. nStatus[x] \cap Failure = {}
      BY <2>1 DEF Clean, Failed, Failure
    <2>3. QED
      BY <2>1, <2>2
  <1>7. QED
    BY <1>1, <1>2, <1>4, <1>6 DEF DiskInv

LEMMA RestartDisk ==
    ASSUME IndInv, DiskInv, NoCrashAfterInvalidate, Restart
    PROVE  WalkInv' /\ DiskInv'
  <1>1. used'["invalidate"] = 0 /\ used["invalidate"] = 0
    BY Excluded DEF Restart, IndInv
  <1>2. /\ nStatus' = [b \in Blocks |-> disk[b].nStatus] /\ dirty' = {}
        /\ tip' = diskTip /\ coinsTip' = diskTip /\ UNCHANGED <<disk, diskTip>>
    BY DEF Restart, LoadBlockIndexDB
  <1>3. \A t \in Threads : pc'[t] \in {"idle", "activate", "torn"}
    BY DEF Restart, StartThreads
  <1>4. \A t \in Threads : ~Walking(t)' /\ ~Stepping(t)'
    BY <1>3 DEF Walking, Stepping
  <1>5. Anc[diskTip] \subseteq Blocks
    BY AncFacts DEF IndInv, TypeInv
  <1>6. \A x \in Anc[diskTip] : ~Failed(x)'
    BY <1>1, <1>2, <1>5 DEF DiskInv, Failed, Failure
  <1>7. WalkInv'
    BY <1>2, <1>4, <1>6 DEF WalkInv, Clean
  <1>8. DiskInv'
    BY <1>1, <1>2, <1>4 DEF DiskInv
  <1>9. QED
    BY <1>7, <1>8

-----------------------------------------------------------------------------
(* Every step *)

\* What the other actions of a thread leave alone.
Plain(t) ==
    /\ UNCHANGED <<disk, diskTip>> /\ dirty \subseteq dirty'
    /\ Moves(t) /\ (Walking(t)' => Walking(t))

LEMMA ArrivePlain ==
    ASSUME IndInv, NEW t \in Threads, NEW b \in Blocks,
           \/ AcceptBlockHeader(t, b) \/ AcceptBlock(t, b)
           \/ AcceptDuplicate(t, b) \/ AcceptBlockFails(t, b)
    PROVE  Plain(t) /\ used' = used
  <1>1. /\ UNCHANGED <<disk, diskTip, used, cont>> /\ dirty \subseteq dirty'
    BY DEF AcceptBlockHeader, AcceptBlock, AcceptDuplicate, AcceptBlockFails, local
  <1>2. pc' = pc \/ pc' = [pc EXCEPT ![t] = "activate"]
    BY DEF AcceptBlockHeader, AcceptBlock, AcceptDuplicate, AcceptBlockFails, Goto
  <1>3. Moves(t) /\ (Walking(t)' => Walking(t))
    BY <1>1, <1>2 DEF Moves, Walking, IndInv, TypeInv
  <1>4. QED
    BY <1>1, <1>3 DEF Plain

LEMMA StepPlain ==
    ASSUME IndInv, NEW t \in Threads,
           \/ ActivateBestChain(t) \/ StepDisconnect(t) \/ StepConnect(t) \/ StepInvalid(t)
    PROVE  Plain(t) /\ used' = used
  <1>1. CASE ActivateBestChain(t)
    <2>1. /\ UNCHANGED <<disk, diskTip, used, dirty>> /\ Moves(t)
          /\ pc'[t] \in {"idle", "step"}
      BY <1>1, MostWork
    <2>2. QED
      BY <2>1 DEF Plain, Walking
  <1>2. CASE StepDisconnect(t)
    <2>1. /\ UNCHANGED <<disk, diskTip, used, dirty>> /\ pc' = [pc EXCEPT ![t] = "flush"]
          /\ cont' = [cont EXCEPT ![t] = "disconnect"]
      BY <1>2 DEF StepDisconnect, DisconnectTip, Flush, Goto
    <2>2. Moves(t) /\ ~Walking(t)'
      BY <2>1 DEF Moves, Walking, IndInv, TypeInv
    <2>3. QED
      BY <2>1, <2>2 DEF Plain
  <1>3. CASE StepConnect(t)
    <2>1. PICK b \in Anc[goal[t]] \ {Genesis} :
             /\ ConnectBlock(b)
             /\ Flush(t, "connect") \/ (AfterConnect(t, b) /\ UNCHANGED cont)
      BY <1>3 DEF StepConnect
    <2>2. UNCHANGED <<disk, diskTip, used>> /\ dirty \subseteq dirty'
      BY <1>3, <2>1 DEF StepConnect, ConnectBlock
    <2>3. Moves(t) /\ ~Walking(t)'
      <3>1. CASE Flush(t, "connect")
        BY <3>1 DEF Flush, Goto, Moves, Walking, IndInv, TypeInv
      <3>2. CASE AfterConnect(t, b) /\ UNCHANGED cont
        BY <3>2, AfterConnectMoves DEF Moves, Walking
      <3>3. QED
        BY <2>1, <3>1, <3>2
    <2>4. QED
      BY <2>2, <2>3 DEF Plain
  <1>4. CASE StepInvalid(t)
    <2>1. /\ UNCHANGED <<disk, diskTip, used, cont>> /\ dirty \subseteq dirty'
          /\ pc' = [pc EXCEPT ![t] = "loop"]
      BY <1>4 DEF StepInvalid, InvalidBlockFound, Leave, Goto
    <2>2. Moves(t) /\ ~Walking(t)'
      BY <2>1 DEF Moves, Walking, IndInv, TypeInv
    <2>3. QED
      BY <2>1, <2>2 DEF Plain
  <1>5. QED
    BY <1>1, <1>2, <1>3, <1>4

LEMMA OtherPlain ==
    ASSUME IndInv, NEW t \in Threads,
           FlushStateToDisk(t) \/ ActivateExit(t) \/ InvalidateWalk(t) \/ InvalidateDone(t)
    PROVE  Plain(t) /\ used' = used
  <1>1. CASE FlushStateToDisk(t) \/ ActivateExit(t)
    <2>1. /\ UNCHANGED <<disk, diskTip, used, dirty>>
          /\ pc' = [pc EXCEPT ![t] = "flush"] \/ pc' = [pc EXCEPT ![t] = "idle"]
          /\ \/ cont' = [cont EXCEPT ![t] = "idle"] \/ cont' = [cont EXCEPT ![t] = "return"]
             \/ cont' = cont /\ pc' = [pc EXCEPT ![t] = "idle"]
      BY <1>1 DEF FlushStateToDisk, ActivateExit, Flush, Goto
    <2>2. Moves(t) /\ ~Walking(t)'
      BY <2>1 DEF Moves, Walking, IndInv, TypeInv
    <2>3. QED
      BY <2>1, <2>2 DEF Plain
  <1>2. CASE InvalidateWalk(t) \/ InvalidateDone(t)
    <2>1. /\ pc[t] = "invalidate" /\ UNCHANGED <<disk, diskTip, used>> /\ dirty \subseteq dirty'
          /\ \/ pc' = [pc EXCEPT ![t] = "flush"] /\ cont' = [cont EXCEPT ![t] = "invalidate"]
             \/ pc' = [pc EXCEPT ![t] = "activate"] /\ cont' = cont
      BY <1>2 DEF InvalidateWalk, DisconnectTip, Flush, InvalidateDone, Leave, Goto
    <2>2. Moves(t) /\ Walking(t)
      BY <2>1 DEF Moves, Walking, IndInv, TypeInv
    <2>3. QED
      BY <2>1, <2>2 DEF Plain
  <1>3. QED
    BY <1>1, <1>2

LEMMA PlainDisk ==
    ASSUME DiskInv, NEW t \in Threads, Plain(t),
           used'["crash"] = used["crash"], used'["invalidate"] = used["invalidate"],
           \A x \in Blocks \ dirty' : nStatus[x] \cap Failure \subseteq nStatus'[x]
    PROVE  DiskInv'
  BY DiskKept DEF Plain

LEMMA InvalidateDisk ==
    ASSUME IndInv, LockInv, WalkInv, DiskInv, NoCrashAfterInvalidate, NEW t \in Threads,
           NEW b \in Blocks, InvalidateBlock(t, b)
    PROVE  WalkInv' /\ DiskInv'
  <1>1. WalkInv' /\ \A x \in Blocks : nStatus[x] \cap Failure \subseteq nStatus'[x]
    BY InvalidateWalks
  <1>2. used'["crash"] = 0 /\ used'["invalidate"] # 0
    BY Excluded DEF InvalidateBlock, IndInv
  <1>3. UNCHANGED <<disk, diskTip>> /\ dirty \subseteq dirty'
    BY DEF InvalidateBlock, InvalidBlockFound
  <1>4. QED
    BY <1>1, <1>2, <1>3 DEF DiskInv

\* ReconsiderBlock and ReprocessBlocks spend neither crashes nor invalidations.
LEMMA RevivalDisk ==
    ASSUME IndInv, LockInv, WalkInv, DiskInv, NEW t \in Threads, NEW b \in Blocks,
           \/ ReconsiderBlock(t, b) \/ ReprocessRejected(t, b)
           \/ ReprocessBlocks(t) \/ ReprocessBegin(t) \/ DisconnectBlocksAndReprocess(t)
    PROVE  WalkInv' /\ DiskInv'
  <1>1. /\ WalkInv' /\ Moves(t) /\ ~Walking(t)' /\ dirty \subseteq dirty'
        /\ \A x \in Blocks \ dirty' : nStatus'[x] = nStatus[x]
    BY ReconsiderWalk, ReprocessWalk
  <1>2. UNCHANGED <<disk, diskTip>>
    BY DEF ReconsiderBlock, ReprocessRejected, ReprocessBlocks, ReprocessBegin,
           DisconnectBlocksAndReprocess
  <1>3. used'["crash"] = used["crash"] /\ used'["invalidate"] = used["invalidate"]
    <2>1. Spend("reconsider") \/ Spend("reprocess") \/ used' = used
      BY DEF ReconsiderBlock, ReprocessRejected, ReprocessBlocks, ReprocessBegin,
             DisconnectBlocksAndReprocess
    <2>2. QED
      BY <2>1, SpendFacts DEF Interventions, IndInv
  <1>4. QED
    BY <1>1, <1>2, <1>3, DiskKept

LEMMA NextWalk ==
    ASSUME IndInv, LockInv, WalkInv, DiskInv, [Next]_vars, ~DiskMayFail, NoCrashAfterInvalidate
    PROVE  WalkInv' /\ DiskInv'
  <1>1. CASE UNCHANGED vars
    <2>1. UNCHANGED <<nStatus, tip, coinsTip, pc, cont, goal, disk, diskTip, dirty, used>>
      BY <1>1 DEF vars, index, local
    <2>2. QED
      BY <2>1, SameWalk DEF DiskInv, Walking
  <1>2. CASE Restart
    BY <1>2, RestartDisk
  <1>3. ASSUME NEW t \in Threads, NEW b \in Blocks,
               \/ AcceptBlockHeader(t, b) \/ AcceptBlock(t, b)
               \/ AcceptDuplicate(t, b) \/ AcceptBlockFails(t, b)
        PROVE  WalkInv' /\ DiskInv'
    <2>1. WalkInv' /\ \A x \in Blocks : nStatus[x] \cap Failure \subseteq nStatus'[x]
      BY <1>3, ArriveWalk
    <2>2. Plain(t) /\ used' = used
      BY <1>3, ArrivePlain
    <2>3. QED
      BY <2>1, <2>2, PlainDisk
  <1>4. ASSUME NEW t \in Threads,
               \/ ActivateBestChain(t) \/ StepDisconnect(t) \/ StepConnect(t) \/ StepInvalid(t)
        PROVE  WalkInv' /\ DiskInv'
    <2>1. WalkInv' /\ \A x \in Blocks : nStatus[x] \cap Failure \subseteq nStatus'[x]
      BY <1>4, ActivateWalk, StepDisconnectWalk, StepConnectWalk, StepInvalidWalk
    <2>2. Plain(t) /\ used' = used
      BY <1>4, StepPlain
    <2>3. QED
      BY <2>1, <2>2, PlainDisk
  <1>5. ASSUME NEW t \in Threads,
               \/ FlushStateToDisk(t) \/ ActivateExit(t)
               \/ InvalidateWalk(t) \/ InvalidateDone(t)
        PROVE  WalkInv' /\ DiskInv'
    <2>1. WalkInv' /\ \A x \in Blocks : nStatus[x] \cap Failure \subseteq nStatus'[x]
      BY <1>5, FlushWalk, InvalidateWalkWalk, InvalidateDoneWalk
    <2>2. Plain(t) /\ used' = used
      BY <1>5, OtherPlain
    <2>3. QED
      BY <2>1, <2>2, PlainDisk
  <1>6. ASSUME NEW t \in Threads, NEW b \in Blocks,
               \/ InvalidateBlock(t, b) \/ WriteBlockIndex(t, b) \/ WriteCoins(t)
        PROVE  WalkInv' /\ DiskInv'
    BY <1>6, InvalidateDisk, WriteBlockIndexDisk, WriteCoinsDisk
  <1>7. ASSUME NEW t \in Threads, Begin(t)
        PROVE  WalkInv' /\ DiskInv'
    BY <1>3, <1>5, <1>6, <1>7, RevivalDisk, TreeAssumption DEF Begin
  <1>8. ASSUME NEW t \in Threads, Continue(t)
        PROVE  WalkInv' /\ DiskInv'
    BY <1>4, <1>5, <1>6, <1>8, RevivalDisk, TreeAssumption DEF Continue
  <1>9. ASSUME NEW t \in Threads, FlushFails(t)
        PROVE  WalkInv' /\ DiskInv'
    BY <1>9 DEF FlushFails
  <1>10. QED
    BY <1>1, <1>2, <1>7, <1>8, <1>9 DEF Next

\* Failed blocks leave the active chain before cs_main does, and those that
\* ConnectBlock finds never reach the chain of the coin database.
THEOREM WalkInvariant ==
    ASSUME ~DiskMayFail, NoCrashAfterInvalidate
    PROVE  Spec => [](WalkInv /\ DiskInv)
  <1>1. Init => WalkInv /\ DiskInv
    <2>1. ASSUME Init PROVE WalkInv /\ DiskInv
      <3>1. /\ \A t \in Threads : ~Walking(t) /\ ~Stepping(t)
            /\ tip = Genesis /\ coinsTip = Genesis /\ diskTip = Genesis
        BY <2>1 DEF Init, Walking, Stepping
      <3>2. \A x \in Blocks : ~Failed(x) /\ disk[x].nStatus \cap Failure = {}
        BY <2>1 DEF Init, Failed, Failure
      <3>3. Anc[Genesis] \subseteq Blocks /\ used["crash"] = 0
        BY <2>1, TreeAssumption DEF Init, Interventions
      <3>4. QED
        BY <3>1, <3>2, <3>3 DEF WalkInv, DiskInv, Clean
    <2>2. QED
      BY <2>1
  <1>2. IndInv /\ LockInv /\ WalkInv /\ DiskInv /\ [Next]_vars => WalkInv' /\ DiskInv'
    BY NextWalk
  <1>3. QED
    BY <1>1, <1>2, LockInvariant, PTL DEF Spec

\* FindMostWorkChain may stop at the active chain "as we know all blocks in
\* it are valid already" (main.cpp:3695): whoever gets cs_main finds no failed
\* block on the active chain, however threads, reconsiderations, lock-driven
\* reprocessing and crashes come together, as long as the disk works and no
\* crash follows an operator's invalidateblock.
THEOREM ActiveChainStaysValid ==
    ASSUME ~DiskMayFail, NoCrashAfterInvalidate
    PROVE  Spec => []ActiveChainValid
  <1>1. WalkInv => ActiveChainValid
    BY NobodyInside DEF WalkInv, ActiveChainValid, Clean
  <1>2. QED
    BY <1>1, WalkInvariant, PTL

-----------------------------------------------------------------------------
(* Which blocks are candidates *)

Below(a, b) == Worse(nSequenceId, a, b)

\* b could become the tip as far as the index knows.
Good(b) == b \in linked /\ Clean(b)

\* A candidate that breaks no rule, with all better good blocks beside it: as
\* long as there is one, FindMostWorkChain finds the best good block.
Reference(r) ==
    /\ r \in candidates /\ Good(r) /\ Anc[r] \cap BadConnect = {}
    /\ \A x \in Blocks : Good(x) /\ ~Below(x, r) => x \in candidates

\* t is not in the middle of a reorganisation; t has no activation to do.
Quiet(t) == ~Walking(t) /\ ~Stepping(t) /\ pc[t] # "loop"
Settled(t) ==
    pc[t] \in {"idle", "exit"} \/ (pc[t] = "flush" /\ cont[t] \in {"idle", "return"})

PrunedInv == \A c \in candidates : ~Below(c, tip)
RulesInv == (Anc[tip] \cup Anc[coinsTip]) \cap BadConnect = {}
ReferenceInv == (\A t \in Threads : ~Walking(t)) => \E r \in Blocks : Reference(r)
GoalInv == \A t \in Threads : Stepping(t) => \A x \in Blocks : Good(x) => ~Below(goal[t], x)
QuietInv == (\A t \in Threads : Quiet(t)) =>
               \A x \in Blocks : Good(x) /\ ~Below(x, tip) => x \in candidates
SettledInv == (\A t \in Threads : Settled(t)) =>
                 \A x \in Blocks : Good(x) => ~Below(tip, x)
CandInv == /\ PrunedInv /\ RulesInv /\ ReferenceInv /\ GoalInv /\ QuietInv /\ SettledInv

LEMMA BelowOrder ==
    ASSUME TypeInv, NEW a \in Blocks, NEW b \in Blocks, NEW c \in Blocks
    PROVE  /\ ~Below(a, a)
           /\ Below(a, b) => ~Below(b, a)
           /\ ~Below(a, b) /\ ~Below(b, c) => ~Below(a, c)
  <1>1. nSequenceId \in [Blocks -> Nat]
    BY DEF TypeInv
  <1>2. QED
    BY <1>1, WorseOrder DEF Below

\* The parent of a block is below it, so what is not below the block is not
\* below its parent.
LEMMA BelowParent ==
    ASSUME TypeInv, NEW a \in Blocks, NEW b \in Blocks \ {Genesis}, ~Below(a, b)
    PROVE  Parent[b] \in Blocks /\ ~Below(a, Parent[b])
  <1>1. Parent[b] \in Blocks /\ b \in Blocks
    BY TreeAssumption
  <1>2. Below(Parent[b], b)
    BY WorkGrows DEF Below
  <1>3. ~Below(b, Parent[b])
    BY <1>1, <1>2, BelowOrder
  <1>4. QED
    BY <1>1, <1>3, BelowOrder

LEMMA OthersCalm ==
    ASSUME NEW t \in Threads, Moves(t)
    PROVE  \A u \in Threads \ {t} : /\ Quiet(u)' <=> Quiet(u)
                                    /\ Settled(u)' <=> Settled(u)
  BY DEF Moves, Quiet, Settled, Walking, Stepping

\* A good block or a candidate keeps its place in the order.
LEMMA SameOrder ==
    ASSUME UNCHANGED nSequenceId
    PROVE  \A a, b : Below(a, b)' <=> Below(a, b)
  BY DEF Below, Worse

\* t moves on without touching the candidates or a good block.
LEMMA CandSame ==
    ASSUME CandInv, NEW t \in Threads, Moves(t), RulesInv',
           UNCHANGED <<candidates, nSequenceId, tip>>,
           \A x \in Blocks : Good(x)' <=> Good(x),
           \A u \in Threads \ {t} : goal'[u] = goal[u],
           Walking(t) => Walking(t)',
           Stepping(t)' => Stepping(t) /\ goal'[t] = goal[t],
           Quiet(t)' => Quiet(t), Settled(t)' => Settled(t)
    PROVE  CandInv'
  <1>1. \A a, b : Below(a, b)' <=> Below(a, b)
    BY SameOrder
  <1>2. PrunedInv'
    BY <1>1 DEF CandInv, PrunedInv, Below
  <1>3. ReferenceInv'
    <2> SUFFICES ASSUME \A u \in Threads : ~Walking(u)' PROVE \E r \in Blocks : Reference(r)'
      BY DEF ReferenceInv
    <2>1. PICK r \in Blocks : Reference(r)
      BY OthersStay DEF CandInv, ReferenceInv
    <2>2. Reference(r)'
      BY <1>1, <2>1 DEF Reference
    <2>3. QED
      BY <2>2
  <1>4. GoalInv'
    <2> SUFFICES ASSUME NEW u \in Threads, Stepping(u)', NEW x \in Blocks, Good(x)'
                 PROVE  ~Below(goal[u], x)'
      BY DEF GoalInv, Below
    <2>1. Stepping(u) /\ goal'[u] = goal[u]
      BY OthersStay
    <2>2. ~Below(goal[u], x)
      BY <2>1 DEF CandInv, GoalInv
    <2>3. QED
      BY <2>1, <2>2 DEF Below
  <1>5. QuietInv'
    <2>1. (\A u \in Threads : Quiet(u)') => \A u \in Threads : Quiet(u)
      BY OthersCalm
    <2>2. QED
      BY <1>1, <2>1 DEF CandInv, QuietInv, Below
  <1>6. SettledInv'
    <2>1. (\A u \in Threads : Settled(u)') => \A u \in Threads : Settled(u)
      BY OthersCalm
    <2>2. QED
      BY <1>1, <2>1 DEF CandInv, SettledInv, Below
  <1>7. QED
    BY <1>2, <1>3, <1>4, <1>5, <1>6 DEF CandInv

\* Marks on a block that is not linked concern no good block.
LEMMA GoodSame ==
    ASSUME IndInv, NEW b, b \notin linked, UNCHANGED linked,
           \A x \in Blocks : x # b => (Failed(x)' <=> Failed(x))
    PROVE  \A x \in Blocks : Good(x)' <=> Good(x)
  <1> SUFFICES ASSUME NEW x \in linked PROVE Clean(x)' <=> Clean(x)
    BY DEF Good
  <1>1. x \in Blocks /\ Anc[x] \subseteq linked /\ Anc[x] \subseteq Blocks
    BY AncFacts DEF IndInv, TypeInv, LinkInv
  <1>2. \A y \in Anc[x] : Failed(y)' <=> Failed(y)
    BY <1>1
  <1>3. QED
    BY <1>2 DEF Clean

LEMMA ArriveCand ==
    ASSUME IndInv, CandInv, NEW t \in Threads, NEW b \in Blocks,
           AcceptBlockHeader(t, b) \/ AcceptDuplicate(t, b) \/ AcceptBlockFails(t, b)
    PROVE  CandInv'
  <1>1. /\ pc[t] = "idle" /\ UNCHANGED <<linked, candidates, nSequenceId, tip, coinsTip, goal, cont>>
        /\ pc' = pc \/ pc' = [pc EXCEPT ![t] = "activate"]
    BY DEF AcceptBlockHeader, AcceptDuplicate, AcceptBlockFails, Goto, index, local
  <1>2. /\ Moves(t) /\ ~Walking(t) /\ ~Stepping(t)' /\ Quiet(t) /\ Settled(t)
    BY <1>1 DEF Moves, Walking, Stepping, Quiet, Settled, IndInv, TypeInv
  <1>3. RulesInv'
    BY <1>1 DEF CandInv, RulesInv
  <1>4. \A x \in Blocks : Good(x)' <=> Good(x)
    <2>1. CASE AcceptDuplicate(t, b)
      <3>1. UNCHANGED <<nStatus, linked>>
        BY <2>1 DEF AcceptDuplicate, index
      <3>2. QED
        BY <3>1 DEF Good, Clean, Failed
    <2>2. CASE AcceptBlockHeader(t, b) \/ AcceptBlockFails(t, b)
      <3>1. ~HaveData(b)
        BY <2>2 DEF AcceptBlockHeader, AcceptBlockFails, mapBlockIndex, HaveData
      <3>2. b \notin linked
        BY <3>1 DEF IndInv, LinkInv, HaveData
      <3>3. \A x \in Blocks : x # b => (Failed(x)' <=> Failed(x))
        BY <2>2 DEF AcceptBlockHeader, AcceptBlockFails, Mark, Failed, IndInv, TypeInv
      <3>4. QED
        BY <1>1, <3>2, <3>3, GoodSame
    <2>3. QED
      BY <2>1, <2>2
  <1>5. QED
    BY <1>1, <1>2, <1>3, <1>4, CandSame

\* ReceivedBlockTransactions for a block whose parent is linked.
LEMMA ReceivedFacts ==
    ASSUME IndInv, NEW b \in Blocks, b \notin linked, Parent[b] \in linked,
           ReceivedBlockTransactions(b)
    PROVE  /\ NowLinked(b) \subseteq Blocks \ linked /\ b \in NowLinked(b)
           /\ linked' = linked \cup NowLinked(b) /\ unlinked' = unlinked \ NowLinked(b)
           /\ nSequenceId' \in [Blocks -> Nat]
           /\ \A x \in Blocks \ NowLinked(b) : nSequenceId'[x] = nSequenceId[x]
           /\ candidates' = candidates \cup
                              {x \in NowLinked(b) : ~Worse(nSequenceId', x, tip)}
  <1>1. NowLinked(b) \subseteq Blocks \ linked /\ b \in NowLinked(b)
    BY DEF NowLinked, IndInv, TypeInv, LinkInv
  <1>2. nSequenceId' \in [Blocks -> Nat]
    BY ReceivedTypes DEF IndInv
  <1>3. /\ \E id : nSequenceId' = [x \in Blocks |-> IF x \in NowLinked(b) THEN id[x]
                                                                        ELSE nSequenceId[x]]
        /\ candidates' = candidates \cup
                              {x \in NowLinked(b) : ~Worse(nSequenceId', x, tip)}
        /\ linked' = linked \cup NowLinked(b) /\ unlinked' = unlinked \ NowLinked(b)
    BY DEF ReceivedBlockTransactions, EraseUnlinked
  <1>4. \A x \in Blocks \ NowLinked(b) : nSequenceId'[x] = nSequenceId[x]
    BY <1>3
  <1>5. QED
    BY <1>1, <1>2, <1>3, <1>4

LEMMA AcceptCand ==
    ASSUME IndInv, CandInv, NEW t \in Threads, NEW b \in Blocks, AcceptBlock(t, b)
    PROVE  CandInv'
  <1>1. /\ pc[t] = "idle" /\ csMainFree /\ ~HaveData(b) /\ ReceivedBlockTransactions(b)
        /\ UNCHANGED <<tip, coinsTip, goal, cont>> /\ pc' = [pc EXCEPT ![t] = "activate"]
        /\ nStatus' = Mark(Mark(nStatus, {b}, "tree"), {b}, "data")
    BY DEF AcceptBlock, Goto, local
  <1>2. /\ Moves(t) /\ ~Walking(t)' /\ ~Stepping(t)' /\ pc'[t] = "activate"
    BY <1>1 DEF Moves, Walking, Stepping, IndInv, TypeInv
  <1>3. RulesInv'
    BY <1>1 DEF CandInv, RulesInv
  <1>4. /\ \A x \in Blocks : Failed(x)' <=> Failed(x)
        /\ \A x \in Blocks : Clean(x)' <=> Clean(x)
    <2>1. \A x \in Blocks : Failed(x)' <=> Failed(x)
      BY <1>1 DEF Mark, Failed, IndInv, TypeInv
    <2>2. QED
      BY <2>1, AncFacts DEF Clean
  <1>5. b \notin linked
    BY <1>1 DEF IndInv, LinkInv, HaveData
  <1>6. CASE Parent[b] \notin linked
    <2>1. UNCHANGED <<linked, nSequenceId, candidates>>
      BY <1>1, <1>6 DEF ReceivedBlockTransactions
    <2>2. \A x \in Blocks : Good(x)' <=> Good(x)
      BY <1>4, <2>1 DEF Good
    <2>3. ~Walking(t) /\ Quiet(t) /\ Settled(t)
      BY <1>1 DEF Walking, Stepping, Quiet, Settled
    <2>4. QED
      BY <1>1, <1>2, <1>3, <2>1, <2>2, <2>3, CandSame
  <1>7. CASE Parent[b] \in linked
    <2> DEFINE L == NowLinked(b)
    <2>1. /\ L \subseteq Blocks \ linked /\ linked' = linked \cup L
          /\ nSequenceId' \in [Blocks -> Nat]
          /\ \A x \in Blocks \ L : nSequenceId'[x] = nSequenceId[x]
          /\ candidates' = candidates \cup {x \in L : ~Worse(nSequenceId', x, tip)}
      BY <1>1, <1>5, <1>7, ReceivedFacts
    <2> HIDE DEF L
    <2>2. /\ tip \in linked /\ tip \in Blocks /\ linked \subseteq Blocks
          /\ candidates \subseteq linked
      BY DEF IndInv, TypeInv, LinkInv, TipInv
    <2>3. \A x, y \in linked : Below(x, y)' <=> Below(x, y)
      BY <2>1, <2>2 DEF Below, Worse
    <2>4. \A x \in Blocks : Good(x)' => x \in L \/ (x \in linked /\ Good(x))
      BY <1>4, <2>1 DEF Good
    <2>5. \A x \in L : ~Below(x, tip)' => x \in candidates'
      BY <1>1, <2>1 DEF Below
    <2>6. \A u \in Threads : ~Walking(u) /\ ~Walking(u)' /\ ~Stepping(u)'
      BY <1>1, <1>2, NobodyInside, OthersStay
    <2>7. PrunedInv'
      BY <1>1, <2>1, <2>2, <2>3 DEF CandInv, PrunedInv, Below
    <2>8. ReferenceInv'
      <3>1. PICK r \in Blocks : Reference(r)
        BY <2>6 DEF CandInv, ReferenceInv
      <3>2. r \in linked /\ r \in candidates'
        BY <2>1, <2>2, <3>1 DEF Reference
      <3>3. Good(r)'
        BY <1>4, <2>1, <3>1 DEF Reference, Good
      <3>4. ~Worse(nSequenceId', r, tip)
        BY <2>2, <2>3, <3>1, <3>2 DEF Reference, CandInv, PrunedInv, Below
      <3>5. ASSUME NEW x \in Blocks, Good(x)', ~Below(x, r)' PROVE x \in candidates'
        <4>1. CASE x \in L
          <5>1. ~Worse(nSequenceId', x, tip)
            BY <2>1, <2>2, <3>4, <3>5, WorseOrder DEF Below
          <5>2. QED
            BY <2>1, <4>1, <5>1
        <4>2. CASE x \in linked /\ Good(x)
          <5>1. x \in candidates
            BY <2>3, <3>1, <3>2, <3>5, <4>2 DEF Reference
          <5>2. QED
            BY <2>1, <5>1
        <4>3. QED
          BY <2>4, <3>5, <4>1, <4>2
      <3>6. Reference(r)'
        BY <3>1, <3>2, <3>3, <3>5 DEF Reference
      <3>7. QED
        BY <3>6 DEF ReferenceInv
    <2>9. GoalInv'
      BY <2>6 DEF GoalInv
    <2>10. QuietInv'
      <3> SUFFICES ASSUME \A u \in Threads : Quiet(u)', NEW x \in Blocks, Good(x)', ~Below(x, tip)'
                   PROVE  x \in candidates'
        BY DEF QuietInv
      <3>1. \A u \in Threads : Quiet(u)
        BY <1>1, <1>2, OthersCalm DEF Quiet, Walking, Stepping
      <3>2. CASE x \in L
        BY <2>5, <3>2
      <3>3. CASE x \in linked /\ Good(x)
        <4>1. ~Below(x, tip)
          BY <1>1, <2>2, <2>3, <3>3 DEF Below
        <4>2. QED
          BY <2>1, <3>1, <3>3, <4>1 DEF CandInv, QuietInv
      <3>4. QED
        BY <2>4, <3>2, <3>3
    <2>11. SettledInv'
      BY <1>2 DEF SettledInv, Settled
    <2>12. QED
      BY <1>3, <2>7, <2>8, <2>9, <2>10, <2>11 DEF CandInv
  <1>8. QED
    BY <1>6, <1>7

\* The tip moves to b, which is good and breaks no rule, and the candidates
\* are pruned: a reference is left, b if it is better than the old one.
LEMMA ReferenceAfter ==
    ASSUME IndInv, NEW b \in Blocks, Good(b), Anc[b] \cap BadConnect = {},
           \A x \in Blocks : Good(x)' <=> Good(x), UNCHANGED nSequenceId,
           candidates' = Pruned(b), NEW r \in Blocks, Reference(r)
    PROVE  \E s \in Blocks : Reference(s)'
  <1>1. \A x, y : Below(x, y)' <=> Below(x, y)
    BY SameOrder
  <1>2. \A x : x \in candidates' <=> x \in candidates /\ ~Below(x, b)
    BY DEF Pruned, Below
  <1>3. TypeInv
    BY DEF IndInv
  <1>4. CASE Below(r, b)
    <2>1. ~Below(b, r) /\ ~Below(b, b)
      BY <1>3, <1>4, BelowOrder
    <2>2. b \in candidates'
      BY <1>2, <2>1 DEF Reference
    <2>3. ASSUME NEW x \in Blocks, Good(x), ~Below(x, b) PROVE x \in candidates'
      <3>1. ~Below(x, r)
        BY <1>3, <2>1, <2>3, BelowOrder
      <3>2. QED
        BY <1>2, <2>3, <3>1 DEF Reference
    <2>4. Reference(b)'
      BY <1>1, <2>2, <2>3 DEF Reference
    <2>5. QED
      BY <2>4
  <1>5. CASE ~Below(r, b)
    <2>1. r \in candidates'
      BY <1>2, <1>5 DEF Reference
    <2>2. ASSUME NEW x \in Blocks, Good(x), ~Below(x, r) PROVE x \in candidates'
      <3>1. ~Below(x, b)
        BY <1>3, <1>5, <2>2, BelowOrder
      <3>2. QED
        BY <1>2, <2>2, <3>1 DEF Reference
    <2>3. Reference(r)'
      BY <1>1, <2>1, <2>2 DEF Reference
    <2>4. QED
      BY <2>3
  <1>6. QED
    BY <1>4, <1>5

\* ActivateBestChainStep after ConnectTip(b).
LEMMA AfterConnectCand ==
    ASSUME IndInv, LockInv, CandInv, NEW t \in Threads, NEW b \in Blocks, Holds(t), Stepping(t),
           Good(b), Anc[b] \cap BadConnect = {}, AfterConnect(t, b), coinsTip' = b,
           \A u \in Threads \ {t} : cont'[u] = cont[u],
           \A x \in Blocks : Good(x)' <=> Good(x), UNCHANGED nSequenceId
    PROVE  CandInv'
  <1>1. /\ tip' = b /\ candidates' = Pruned(b) /\ Moves(t)
        /\ \/ b = goal[t] /\ pc'[t] = "exit"
           \/ pc'[t] = "loop"
           \/ pc'[t] = "step" /\ goal'[t] = goal[t]
    BY DEF AfterConnect, Leave, Stay, Goto, Moves, IndInv, TypeInv
  <1>2. \A x, y : Below(x, y)' <=> Below(x, y)
    BY SameOrder
  <1>3. \A x : x \in candidates' <=> x \in candidates /\ ~Below(x, b)
    BY <1>1 DEF Pruned, Below
  <1>4. \A u \in Threads \ {t} : ~Walking(u) /\ ~Walking(u)' /\ ~Stepping(u)'
    BY <1>1, Alone, OthersStay
  <1>5. ~Walking(t) /\ ~Walking(t)'
    BY <1>1 DEF Walking, Stepping
  <1>6. PICK r \in Blocks : Reference(r)
    BY <1>4, <1>5 DEF CandInv, ReferenceInv
  <1>7. \A x \in Blocks : Good(x) => ~Below(goal[t], x)
    BY DEF CandInv, GoalInv
  <1>8. PrunedInv'
    BY <1>1, <1>2, <1>3 DEF PrunedInv, Below
  <1>9. RulesInv'
    BY <1>1 DEF RulesInv
  <1>10. ReferenceInv'
    BY <1>1, <1>6, ReferenceAfter DEF ReferenceInv
  <1>11. GoalInv'
    <2> SUFFICES ASSUME NEW u \in Threads, Stepping(u)', NEW x \in Blocks, Good(x)'
                 PROVE  ~Below(goal[u], x)'
      BY DEF GoalInv
    <2>1. u = t /\ goal'[t] = goal[t]
      BY <1>1, <1>4 DEF Stepping
    <2>2. QED
      BY <1>7, <2>1 DEF Below
  <1>12. QuietInv'
    <2> SUFFICES ASSUME Quiet(t)', NEW x \in Blocks, Good(x), ~Below(x, b)
                 PROVE  x \in candidates'
      BY <1>1, <1>2 DEF QuietInv, Below
    <2>1. b = goal[t]
      BY <1>1 DEF Quiet, Stepping
    <2>2. ~Below(b, r)
      BY <1>6, <1>7, <2>1 DEF Reference
    <2>3. ~Below(x, r)
      BY <2>2, BelowOrder DEF IndInv
    <2>4. QED
      BY <1>3, <1>6, <2>3 DEF Reference
  <1>13. SettledInv'
    <2> SUFFICES ASSUME Settled(t)', NEW x \in Blocks, Good(x)
                 PROVE  ~Below(b, x)
      BY <1>1, <1>2 DEF SettledInv, Below
    <2>1. b = goal[t]
      BY <1>1 DEF Settled
    <2>2. QED
      BY <1>7, <2>1
  <1>14. QED
    BY <1>8, <1>9, <1>10, <1>11, <1>12, <1>13 DEF CandInv

\* While a thread walks nothing is said about references.
LEMMA WalkingCand ==
    ASSUME LockInv, NEW t \in Threads, Moves(t), Walking(t)', csMainFree \/ Holds(t),
           PrunedInv', RulesInv'
    PROVE  CandInv'
  <1>1. \A u \in Threads \ {t} : ~Stepping(u)'
    BY NobodyInside, Alone, OthersStay
  <1>2. ~Stepping(t)' /\ ~Quiet(t)' /\ ~Settled(t)'
    BY DEF Walking, Stepping, Quiet, Settled
  <1>3. GoalInv'
    BY <1>1, <1>2 DEF GoalInv
  <1>4. QED
    BY <1>2, <1>3 DEF CandInv, ReferenceInv, QuietInv, SettledInv

\* Going back to the parent of the tip leaves the candidates above the tip.
LEMMA PrunedBack ==
    ASSUME IndInv, PrunedInv, tip # Genesis, tip' = Parent[tip], UNCHANGED nSequenceId,
           candidates' \subseteq candidates
    PROVE  PrunedInv'
  <1> SUFFICES ASSUME NEW c \in candidates PROVE ~Below(c, Parent[tip])
    BY SameOrder DEF PrunedInv, Below
  <1>1. c \in Blocks /\ tip \in Blocks \ {Genesis} /\ ~Below(c, tip) /\ TypeInv
    BY DEF IndInv, TypeInv, PrunedInv
  <1>2. QED
    BY <1>1, BelowParent

LEMMA RulesBack ==
    ASSUME RulesInv, Anc[tip'] \subseteq Anc[tip] \cup Anc[coinsTip],
           Anc[coinsTip'] \subseteq Anc[tip] \cup Anc[coinsTip]
    PROVE  RulesInv'
  BY DEF RulesInv

\* Nobody is inside ReconsiderBlock or ReprocessBlocks.
NobodyRevives ==
    \A t \in Threads : pc[t] \notin {"rejected", "reprocess"} /\ cont[t] # "reprocess"

LEMMA WriteCoinsCand ==
    ASSUME IndInv, LockInv, WalkInv, CandInv, NobodyRevives, NEW t \in Threads, WriteCoins(t)
    PROVE  CandInv'
  <1>1. /\ pc[t] = "flush" /\ UNCHANGED <<nStatus, linked, nSequenceId, coinsTip>>
        /\ cont' = [cont EXCEPT ![t] = "idle"] /\ cont[t] \in Callers
    BY DEF WriteCoins, CoinsWritten, IndInv, TypeInv
  <1>2. /\ Holds(t) /\ cont'[t] = "idle" /\ \A u \in Threads \ {t} : cont'[u] = cont[u]
        /\ cont[t] # "reprocess"
    BY <1>1 DEF Holds, IndInv, TypeInv, NobodyRevives
  <1>3. \A x \in Blocks : Good(x)' <=> Good(x)
    BY <1>1 DEF Good, Clean, Failed
  <1>4. coinsTip \in linked /\ coinsTip \in Blocks /\ tip \in Blocks
    BY DEF IndInv, TypeInv, TipInv
  <1>5. CASE cont[t] = "connect"
    <2>1. AfterConnect(t, coinsTip)
      BY <1>5 DEF WriteCoins, CoinsWritten
    <2>2. Stepping(t) /\ ~Walking(t)
      BY <1>1, <1>5 DEF Stepping, Walking
    <2>3. Good(coinsTip)
      BY <1>2, <1>4, <2>2, HeldClean DEF Good
    <2>4. Anc[coinsTip] \cap BadConnect = {}
      BY DEF CandInv, RulesInv
    <2>5. QED
      BY <1>1, <1>2, <1>3, <1>4, <2>1, <2>2, <2>3, <2>4, AfterConnectCand
  <1>6. CASE cont[t] = "disconnect"
    <2>1. /\ tip' = coinsTip /\ pc' = [pc EXCEPT ![t] = "step"] /\ UNCHANGED <<goal, candidates>>
      BY <1>6 DEF WriteCoins, CoinsWritten, Stay, Goto
    <2>2. /\ pc'[t] = "step" /\ Moves(t) /\ Stepping(t) /\ Stepping(t)' /\ ~Walking(t)
          /\ ~Quiet(t)' /\ ~Settled(t)'
      BY <1>1, <1>2, <1>6, <2>1 DEF Moves, Stepping, Walking, Quiet, Settled, IndInv, TypeInv
    <2>3. tip # Genesis /\ coinsTip = Parent[tip]
      BY <1>1, <1>6 DEF LockInv, Between
    <2>4. PrunedInv' /\ RulesInv'
      BY <1>1, <2>1, <2>3, PrunedBack, RulesBack DEF CandInv
    <2>5. \A x, y : Below(x, y)' <=> Below(x, y)
      BY <1>1, SameOrder
    <2>6. ReferenceInv'
      <3>1. \A u \in Threads : ~Walking(u)
        BY <1>2, <2>2, Alone
      <3>2. PICK r \in Blocks : Reference(r)
        BY <3>1 DEF CandInv, ReferenceInv
      <3>3. Reference(r)'
        BY <1>3, <2>1, <2>5, <3>2 DEF Reference
      <3>4. QED
        BY <3>3 DEF ReferenceInv
    <2>7. GoalInv'
      <3>1. \A u \in Threads \ {t} : ~Stepping(u)'
        BY <1>2, <2>2, Alone, OthersStay
      <3>2. QED
        BY <1>1, <1>3, <2>1, <2>2, <3>1 DEF CandInv, GoalInv, Below
    <2>8. QED
      BY <2>2, <2>4, <2>6, <2>7 DEF CandInv, QuietInv, SettledInv
  <1>7. CASE cont[t] = "invalidate"
    <2>1. /\ tip' = coinsTip /\ pc' = [pc EXCEPT ![t] = "invalidate"] /\ UNCHANGED candidates
      BY <1>7 DEF WriteCoins, CoinsWritten, Stay, Goto
    <2>2. Walking(t)' /\ Moves(t)
      BY <1>2, <2>1 DEF Moves, Walking, IndInv, TypeInv
    <2>3. tip # Genesis /\ coinsTip = Parent[tip]
      BY <1>1, <1>7 DEF LockInv, Between
    <2>4. PrunedInv' /\ RulesInv'
      BY <1>1, <2>1, <2>3, PrunedBack, RulesBack DEF CandInv
    <2>5. QED
      BY <1>2, <2>2, <2>4, WalkingCand
  <1>8. CASE cont[t] \in {"return", "idle"}
    <2>1. pc' = [pc EXCEPT ![t] = "idle"] /\ UNCHANGED <<tip, candidates, goal>>
      BY <1>8 DEF WriteCoins, CoinsWritten, Stay, Goto
    <2>2. /\ Moves(t) /\ ~Walking(t) /\ ~Stepping(t)' /\ Quiet(t) /\ Settled(t)
      BY <1>1, <1>2, <1>8, <2>1 DEF Moves, Walking, Stepping, Quiet, Settled, IndInv, TypeInv
    <2>3. RulesInv'
      BY <1>1, <2>1 DEF CandInv, RulesInv
    <2>4. QED
      BY <1>1, <1>3, <2>1, <2>2, <2>3, CandSame
  <1>9. QED
    BY <1>1, <1>2, <1>5, <1>6, <1>7, <1>8 DEF Callers

LEMMA FlushCand ==
    ASSUME IndInv, CandInv, NEW t \in Threads, FlushStateToDisk(t) \/ ActivateExit(t)
    PROVE  CandInv'
  <1>1. /\ pc[t] \in {"idle", "exit"}
        /\ UNCHANGED <<tip, coinsTip, nStatus, linked, candidates, nSequenceId, goal>>
    BY DEF FlushStateToDisk, ActivateExit, index
  <1>2. /\ pc' = [pc EXCEPT ![t] = "flush"] \/ pc' = [pc EXCEPT ![t] = "idle"]
        /\ \/ cont' = [cont EXCEPT ![t] = "idle"] \/ cont' = [cont EXCEPT ![t] = "return"]
           \/ cont' = cont /\ pc' = [pc EXCEPT ![t] = "idle"]
    BY DEF FlushStateToDisk, ActivateExit, Flush, Goto
  <1>3. ~Walking(t) /\ ~Stepping(t)' /\ Moves(t) /\ Quiet(t) /\ Settled(t)
    BY <1>1, <1>2 DEF IndInv, TypeInv, Moves, Walking, Stepping, Quiet, Settled
  <1>4. \A x \in Blocks : Good(x)' <=> Good(x)
    BY <1>1 DEF Good, Clean, Failed
  <1>5. RulesInv'
    BY <1>1 DEF CandInv, RulesInv
  <1>6. QED
    BY <1>1, <1>3, <1>4, <1>5, CandSame

\* FindMostWorkChain: the reference is among the usable candidates, so the
\* best of those is as good as any good block.
LEMMA ActivateCand ==
    ASSUME IndInv, LockInv, WalkInv, CandInv, NEW t \in Threads, ActivateBestChain(t)
    PROVE  CandInv'
  <1>1. PICK hopeless \in SUBSET candidates :
           (\A c \in hopeless : FailedOnPath(c) # {}) /\ Discard(hopeless)
    BY MostWork
  <1>2. /\ csMainFree /\ Moves(t) /\ UNCHANGED <<tip, coinsTip, linked, nSequenceId>>
    BY MostWork
  <1>3. /\ \A x \in Blocks : Clean(x)' <=> Clean(x)
        /\ candidates' \subseteq candidates
        /\ \A x \in candidates : Clean(x) => x \in candidates'
    BY <1>1, Discards
  <1>4. \A x \in Blocks : Good(x)' <=> Good(x)
    BY <1>2, <1>3 DEF Good
  <1>5. \A x, y : Below(x, y)' <=> Below(x, y)
    BY <1>2, SameOrder
  <1>6. \A u \in Threads : ~Walking(u) /\ (u # t => ~Stepping(u)')
    BY <1>2, NobodyInside, OthersStay
  <1>7. PICK r \in Blocks : Reference(r)
    BY <1>6 DEF CandInv, ReferenceInv
  <1>8. \A x \in candidates : Clean(x) => x \in Usable
    BY DEF Usable, FailedOnPath, Clean
  <1>9. PICK best \in Usable : /\ \A c \in Usable : ~Below(best, c)
                               /\ \/ best = tip /\ pc'[t] = "idle"
                                  \/ pc'[t] = "step" /\ goal'[t] = best
    <2>1. r \in Usable
      BY <1>7, <1>8 DEF Reference, Good
    <2>2. QED
      BY <2>1, MostWork DEF Below
  <1>10. best \in Blocks /\ ~Below(best, r) /\ TypeInv
    BY <1>7, <1>8, <1>9 DEF Usable, Reference, Good, IndInv, TypeInv
  <1>11. ASSUME NEW x \in Blocks, Good(x), ~Below(x, best)
         PROVE  x \in candidates' /\ x \in Usable
    <2>1. ~Below(x, r)
      BY <1>10, <1>11, BelowOrder
    <2>2. x \in candidates /\ Clean(x)
      BY <1>7, <1>11, <2>1 DEF Reference, Good
    <2>3. QED
      BY <1>3, <1>8, <2>2
  <1>12. ASSUME NEW x \in Blocks, Good(x) PROVE ~Below(best, x)
    BY <1>9, <1>10, <1>11, <1>12, BelowOrder
  <1>13. PrunedInv'
    BY <1>2, <1>3, <1>5 DEF CandInv, PrunedInv, Below
  <1>14. RulesInv'
    BY <1>2 DEF CandInv, RulesInv
  <1>15. ReferenceInv'
    <2>1. Reference(r)'
      BY <1>3, <1>4, <1>5, <1>7 DEF Reference, Good
    <2>2. QED
      BY <2>1 DEF ReferenceInv
  <1>16. GoalInv'
    <2> SUFFICES ASSUME NEW x \in Blocks, Good(x), Stepping(t)' PROVE ~Below(goal[t], x)'
      BY <1>4, <1>6 DEF GoalInv
    <2>1. goal'[t] = best
      BY <1>9 DEF Stepping
    <2>2. QED
      BY <1>2, <1>12, <2>1 DEF Below
  <1>17. QuietInv'
    <2> SUFFICES ASSUME NEW x \in Blocks, Good(x), ~Below(x, tip)', Quiet(t)'
                 PROVE  x \in candidates'
      BY <1>4 DEF QuietInv
    <2>1. best = tip
      BY <1>9 DEF Quiet, Stepping
    <2>2. QED
      BY <1>2, <1>11, <2>1 DEF Below
  <1>18. SettledInv'
    <2> SUFFICES ASSUME NEW x \in Blocks, Good(x), Settled(t)' PROVE ~Below(tip, x)'
      BY <1>4 DEF SettledInv
    <2>1. best = tip
      BY <1>9 DEF Settled
    <2>2. QED
      BY <1>2, <1>12, <2>1 DEF Below
  <1>19. QED
    BY <1>13, <1>14, <1>15, <1>16, <1>17, <1>18 DEF CandInv

LEMMA StepDisconnectCand ==
    ASSUME IndInv, CandInv, NEW t \in Threads, StepDisconnect(t)
    PROVE  CandInv'
  <1>1. /\ pc[t] = "step" /\ DisconnectTip(t, "disconnect")
        /\ UNCHANGED <<nStatus, linked, candidates, nSequenceId, tip, goal>>
    BY DEF StepDisconnect, index
  <1>2. /\ Anc[coinsTip'] \subseteq Anc[coinsTip]
        /\ pc' = [pc EXCEPT ![t] = "flush"] /\ cont' = [cont EXCEPT ![t] = "disconnect"]
    <2>1. "disconnect" \in Callers
      BY DEF Callers
    <2>2. QED
      BY <1>1, <2>1, DisconnectParent
  <1>3. RulesInv'
    BY <1>1, <1>2, RulesBack DEF CandInv
  <1>4. ~Walking(t) /\ Stepping(t) /\ Moves(t) /\ ~Quiet(t)' /\ ~Settled(t)'
    BY <1>1, <1>2 DEF Walking, Stepping, Moves, Quiet, Settled, IndInv, TypeInv
  <1>5. \A x \in Blocks : Good(x)' <=> Good(x)
    BY <1>1 DEF Good, Clean, Failed
  <1>6. QED
    BY <1>1, <1>3, <1>4, <1>5, CandSame

LEMMA StepConnectCand ==
    ASSUME IndInv, LockInv, WalkInv, CandInv, NEW t \in Threads, StepConnect(t)
    PROVE  CandInv'
  <1>1. PICK b \in Anc[goal[t]] \ {Genesis} :
           /\ Parent[b] = tip /\ ConnectBlock(b)
           /\ \/ Flush(t, "connect") /\ UNCHANGED <<tip, candidates, goal, old>>
              \/ AfterConnect(t, b) /\ UNCHANGED cont
    BY DEF StepConnect
  <1>2. /\ pc[t] = "step" /\ coinsTip' = b /\ b \notin BadConnect
        /\ UNCHANGED <<linked, nSequenceId>>
    BY <1>1 DEF StepConnect, ConnectBlock
  <1>3. Holds(t) /\ Stepping(t) /\ ~Walking(t)
    BY <1>2 DEF Holds, Stepping, Walking
  <1>4. /\ b \in Blocks /\ goal[t] \in Blocks /\ Anc[b] = {b} \cup Anc[tip]
    BY <1>1, NextBlock
  <1>5. \A x \in Blocks : Good(x)' <=> Good(x)
    <2>1. \A x \in Blocks : Failed(x)' <=> Failed(x)
      BY StepConnectWalk
    <2>2. QED
      BY <1>2, <2>1, AncFacts DEF Good, Clean
  <1>6. Good(b)
    <2>1. goal[t] \in linked /\ b \in linked
      BY <1>1, <1>2 DEF IndInv, TipInv, LinkInv
    <2>2. Clean(goal[t])
      BY <1>3, HeldClean
    <2>3. QED
      BY <1>1, <1>4, <2>1, <2>2, CleanBelow DEF Good
  <1>7. Anc[b] \cap BadConnect = {}
    BY <1>2, <1>4 DEF CandInv, RulesInv
  <1>8. CASE Flush(t, "connect") /\ UNCHANGED <<tip, candidates, goal, old>>
    <2>1. Moves(t) /\ Stepping(t)' /\ ~Quiet(t)' /\ ~Settled(t)'
      BY <1>8 DEF Flush, Goto, Moves, Stepping, Quiet, Settled, IndInv, TypeInv
    <2>2. RulesInv'
      BY <1>2, <1>7, <1>8 DEF CandInv, RulesInv
    <2>3. QED
      BY <1>2, <1>3, <1>5, <1>8, <2>1, <2>2, CandSame
  <1>9. CASE AfterConnect(t, b) /\ UNCHANGED cont
    BY <1>2, <1>3, <1>4, <1>5, <1>6, <1>7, <1>9, AfterConnectCand
  <1>10. QED
    BY <1>1, <1>8, <1>9

\* ConnectBlock fails: the reference breaks no rule and stays.
LEMMA StepInvalidCand ==
    ASSUME IndInv, LockInv, CandInv, NEW t \in Threads, StepInvalid(t)
    PROVE  CandInv'
  <1>1. PICK b \in Anc[goal[t]] \ {Genesis} :
           Parent[b] = tip /\ b \in BadConnect /\ InvalidBlockFound(b)
    BY DEF StepInvalid
  <1>2. /\ pc[t] = "step" /\ UNCHANGED <<tip, coinsTip, linked, nSequenceId, cont>>
        /\ pc' = [pc EXCEPT ![t] = "loop"] /\ nStatus' = Mark(nStatus, {b}, "failed")
        /\ candidates' = candidates \ {b}
    BY <1>1 DEF StepInvalid, Leave, Goto, InvalidBlockFound
  <1>3. "failed" \in Failure
    BY DEF Failure
  <1>4. \A x \in Blocks : Failed(x)' <=> Failed(x) \/ x \in {b}
    BY <1>2, <1>3, MarkFails DEF IndInv
  <1>5. \A x \in Blocks : Good(x)' <=> Good(x) /\ b \notin Anc[x]
    <2>1. b \in Blocks
      BY <1>1, NextBlock
    <2>2. QED
      BY <1>2, <1>4, <2>1, AncFacts DEF Good, Clean
  <1>6. /\ Moves(t) /\ Holds(t) /\ ~Walking(t) /\ pc'[t] = "loop" /\ ~Stepping(t)'
    BY <1>2 DEF Moves, Holds, Walking, Stepping, IndInv, TypeInv
  <1>7. \A u \in Threads : ~Walking(u) /\ ~Stepping(u)'
    BY <1>6, Alone, OthersStay
  <1>8. \A x, y : Below(x, y)' <=> Below(x, y)
    BY <1>2, SameOrder
  <1>9. PrunedInv' /\ RulesInv'
    BY <1>2, <1>8 DEF CandInv, PrunedInv, RulesInv, Below
  <1>10. ReferenceInv'
    <2>1. PICK r \in Blocks : Reference(r)
      BY <1>7 DEF CandInv, ReferenceInv
    <2>2. b \notin Anc[r] /\ r \in candidates'
      BY <1>1, <1>2, <2>1, AncFacts DEF Reference
    <2>3. ASSUME NEW x \in Blocks, Good(x)', ~Below(x, r)' PROVE x \in candidates'
      BY <1>2, <1>5, <1>8, <2>1, <2>3, AncFacts DEF Reference
    <2>4. Reference(r)'
      BY <1>5, <2>1, <2>2, <2>3 DEF Reference
    <2>5. QED
      BY <2>4 DEF ReferenceInv
  <1>11. GoalInv' /\ QuietInv' /\ SettledInv'
    BY <1>6, <1>7 DEF GoalInv, QuietInv, SettledInv, Quiet, Settled
  <1>12. QED
    BY <1>9, <1>10, <1>11 DEF CandInv

LEMMA InvalidateCand ==
    ASSUME IndInv, LockInv, CandInv, NEW t \in Threads, NEW b \in Blocks,
           InvalidateBlock(t, b) \/ InvalidateWalk(t)
    PROVE  CandInv'
  <1>1. /\ csMainFree \/ Holds(t)
        /\ UNCHANGED <<tip, nSequenceId>> /\ candidates' \subseteq candidates
        /\ Anc[coinsTip'] \subseteq Anc[coinsTip]
        /\ \/ pc' = [pc EXCEPT ![t] = "invalidate"] /\ cont' = cont
           \/ pc' = [pc EXCEPT ![t] = "flush"] /\ cont' = [cont EXCEPT ![t] = "invalidate"]
    <2>1. CASE InvalidateBlock(t, b)
      BY <2>1 DEF InvalidateBlock, InvalidBlockFound, Goto
    <2>2. CASE InvalidateWalk(t)
      <3>1. "invalidate" \in Callers /\ DisconnectTip(t, "invalidate")
        BY <2>2 DEF Callers, InvalidateWalk
      <3>2. /\ Anc[coinsTip'] \subseteq Anc[coinsTip]
            /\ pc' = [pc EXCEPT ![t] = "flush"] /\ cont' = [cont EXCEPT ![t] = "invalidate"]
        BY <3>1, DisconnectParent
      <3>3. QED
        BY <2>2, <3>2 DEF InvalidateWalk, Holds
    <2>3. QED
      BY <2>1, <2>2
  <1>2. Walking(t)' /\ Moves(t)
    BY <1>1 DEF Moves, Walking, IndInv, TypeInv
  <1>3. PrunedInv'
    BY <1>1, SameOrder DEF CandInv, PrunedInv, Below
  <1>4. RulesInv'
    BY <1>1, RulesBack DEF CandInv
  <1>5. QED
    BY <1>1, <1>2, <1>3, <1>4, WalkingCand

\* The walk is over: the tip itself is the new reference.
LEMMA InvalidateDoneCand ==
    ASSUME IndInv, LockInv, WalkInv, CandInv, NEW t \in Threads, InvalidateDone(t)
    PROVE  CandInv'
  <1>1. /\ pc[t] = "invalidate" /\ candidates' = candidates \cup Rivals
        /\ UNCHANGED <<nStatus, linked, nSequenceId, tip, coinsTip, cont>>
        /\ pc' = [pc EXCEPT ![t] = "activate"]
    BY DEF InvalidateDone, Leave, Goto
  <1>2. /\ Clean(tip) /\ tip \in linked /\ tip \in Blocks /\ TypeInv
    BY InvalidateDoneWalk DEF IndInv, TypeInv, TipInv
  <1>3. \A x \in Blocks : Good(x)' <=> Good(x)
    BY <1>1 DEF Good, Clean, Failed
  <1>4. \A x, y : Below(x, y)' <=> Below(x, y)
    BY <1>1, SameOrder
  <1>5. ASSUME NEW x \in Blocks, Good(x), ~Below(x, tip) PROVE x \in candidates'
    <2>1. x \in Anc[x]
      BY AncFacts
    <2>2. HaveData(x) /\ ~Failed(x) /\ x \in linked
      BY <1>5, <2>1 DEF Good, Clean, HaveData, IndInv, LinkInv
    <2>3. QED
      BY <1>1, <1>5, <2>2 DEF Rivals, AsGoodAsTip, Below
  <1>6. /\ Moves(t) /\ Holds(t) /\ pc'[t] = "activate"
    BY <1>1 DEF Moves, Holds, IndInv, TypeInv
  <1>7. \A u \in Threads : ~Stepping(u)'
    BY <1>6, Alone, OthersStay DEF Stepping
  <1>8. PrunedInv' /\ RulesInv'
    BY <1>1, <1>4 DEF CandInv, PrunedInv, RulesInv, Rivals, AsGoodAsTip, Below
  <1>9. ReferenceInv'
    <2>1. tip \in candidates'
      BY <1>2, <1>5, BelowOrder DEF Good
    <2>2. Reference(tip)'
      BY <1>1, <1>2, <1>3, <1>4, <1>5, <2>1 DEF Reference, Good, Below, CandInv, RulesInv
    <2>3. QED
      BY <1>1, <1>2, <2>2 DEF ReferenceInv
  <1>10. QuietInv'
    BY <1>1, <1>3, <1>4, <1>5 DEF QuietInv, Below
  <1>11. GoalInv' /\ SettledInv'
    BY <1>6, <1>7 DEF GoalInv, SettledInv, Settled
  <1>12. QED
    BY <1>8, <1>9, <1>10, <1>11 DEF CandInv

\* After a restart the best block of the coin database is the reference.
LEMMA RestartCand ==
    ASSUME IndInv, LockInv, CandInv, Restart, IndInv', WalkInv'
    PROVE  CandInv'
  <1>1. /\ tip' = diskTip /\ coinsTip' = diskTip
        /\ \A b : b \in candidates' <=>
              b \in linked' /\ nStatus'[b] \cap {"failed", "child"} = {}
              /\ ~Worse(nSequenceId', b, diskTip)
    BY DEF Restart, LoadBlockIndexDB
  <1>2. /\ \A t \in Threads : pc'[t] \in {"idle", "activate", "torn"}
        /\ \E t \in Threads : pc'[t] \in {"activate", "torn"}
    BY TreeAssumption DEF Restart, StartThreads
  <1>3. \A t \in Threads : ~Walking(t)' /\ ~Stepping(t)'
    BY <1>2 DEF Walking, Stepping
  <1>4. diskTip \in Anc[tip] /\ diskTip \in Blocks /\ Anc[diskTip] \subseteq Anc[tip]
    BY AncFacts DEF LockInv, IndInv, TypeInv
  <1>5. RulesInv'
    BY <1>1, <1>4 DEF CandInv, RulesInv
  <1>6. PrunedInv'
    BY <1>1 DEF PrunedInv, Below
  <1>7. \A x \in Blocks : Good(x)' /\ ~Worse(nSequenceId', x, diskTip) => x \in candidates'
    BY <1>1, AncFacts DEF Good, Clean, Failed
  <1>8. ReferenceInv'
    <2>1. Good(tip)'
      BY <1>3 DEF WalkInv, Good, IndInv, TipInv
    <2>2. tip' \in candidates'
      <3>1. nSequenceId' \in [Blocks -> Nat]
        BY DEF IndInv, TypeInv
      <3>2. ~Worse(nSequenceId', diskTip, diskTip)
        BY <1>4, <3>1, WorseOrder
      <3>3. QED
        BY <1>1, <1>4, <1>7, <2>1, <3>2
    <2>3. Reference(tip)'
      BY <1>1, <1>5, <1>7, <2>1, <2>2 DEF Reference, RulesInv, Below
    <2>4. QED
      BY <1>1, <1>4, <2>3 DEF ReferenceInv
  <1>9. QuietInv'
    BY <1>1, <1>7 DEF QuietInv, Below
  <1>10. GoalInv' /\ SettledInv'
    BY <1>2, <1>3 DEF GoalInv, SettledInv, Settled
  <1>11. QED
    BY <1>5, <1>6, <1>8, <1>9, <1>10 DEF CandInv

-----------------------------------------------------------------------------
(* Every step, when nobody reconsiders or reprocesses blocks *)

\* ReconsiderBlock clears the marks of a block's ancestors without making
\* them candidates again (main.cpp:3972), and ReprocessBlocks calls it.
NoRevival ==
    \A budget \in Budgets : budget["reconsider"] = 0 /\ budget["reprocess"] = 0

LEMMA NoSpending ==
    ASSUME TypeInv, NoRevival
    PROVE  ~Spend("reconsider") /\ ~Spend("reprocess")
  <1>1. "reconsider" \in Interventions /\ "reprocess" \in Interventions
    BY DEF Interventions
  <1>2. \A what \in Interventions : Spend(what) => \E budget \in Budgets : budget[what] > 0
    BY SpendFacts
  <1>3. QED
    BY <1>1, <1>2 DEF NoRevival

\* t goes to a place outside ReprocessBlocks.
LEMMA RevivesKept ==
    ASSUME NobodyRevives, NEW t \in Threads, Moves(t),
           pc'[t] \notin {"rejected", "reprocess"}, cont'[t] # "reprocess"
    PROVE  NobodyRevives'
  BY DEF NobodyRevives, Moves

LEMMA StepRevives ==
    ASSUME IndInv, NobodyRevives, NEW t \in Threads,
           \/ ActivateBestChain(t) \/ StepDisconnect(t) \/ StepConnect(t) \/ StepInvalid(t)
    PROVE  NobodyRevives'
  <1>1. Moves(t)
    BY StepPlain DEF Plain
  <1>2. CASE ActivateBestChain(t)
    <2>1. pc'[t] \in {"idle", "step"} /\ cont'[t] = cont[t]
      BY <1>2, MostWork
    <2>2. QED
      BY <1>1, <2>1, RevivesKept DEF NobodyRevives
  <1>3. CASE StepDisconnect(t)
    <2>1. pc'[t] = "flush" /\ cont'[t] = "disconnect"
      BY <1>3 DEF StepDisconnect, DisconnectTip, Flush, Goto, IndInv, TypeInv
    <2>2. QED
      BY <1>1, <2>1, RevivesKept
  <1>4. CASE StepConnect(t)
    <2>1. PICK b \in Anc[goal[t]] : Flush(t, "connect") \/ (AfterConnect(t, b) /\ UNCHANGED cont)
      BY <1>4 DEF StepConnect
    <2>2. CASE Flush(t, "connect")
      <3>1. pc'[t] = "flush" /\ cont'[t] = "connect"
        BY <2>2 DEF Flush, Goto, IndInv, TypeInv
      <3>2. QED
        BY <1>1, <3>1, RevivesKept
    <2>3. CASE AfterConnect(t, b) /\ UNCHANGED cont
      <3>1. pc'[t] \in {"exit", "loop", "step"} /\ cont'[t] = cont[t]
        BY <2>3, AfterConnectMoves
      <3>2. QED
        BY <1>1, <3>1, RevivesKept DEF NobodyRevives
    <2>4. QED
      BY <2>1, <2>2, <2>3
  <1>5. CASE StepInvalid(t)
    <2>1. pc'[t] = "loop" /\ cont'[t] = cont[t]
      BY <1>5 DEF StepInvalid, Leave, Goto, IndInv, TypeInv
    <2>2. QED
      BY <1>1, <2>1, RevivesKept DEF NobodyRevives
  <1>6. QED
    BY <1>2, <1>3, <1>4, <1>5

LEMMA WriteCoinsRevives ==
    ASSUME IndInv, NobodyRevives, NEW t \in Threads, WriteCoins(t)
    PROVE  NobodyRevives'
  <1>1. /\ cont' = [cont EXCEPT ![t] = "idle"] /\ cont[t] # "reprocess"
        /\ \/ AfterConnect(t, coinsTip)
           \/ \E l \in {"step", "idle", "invalidate"} : pc' = [pc EXCEPT ![t] = l]
    BY DEF WriteCoins, CoinsWritten, Stay, Goto, NobodyRevives
  <1>2. cont'[t] = "idle" /\ \A u \in Threads \ {t} : cont'[u] = cont[u]
    BY <1>1 DEF IndInv, TypeInv
  <1>3. /\ pc'[t] \notin {"rejected", "reprocess"}
        /\ \A u \in Threads \ {t} : pc'[u] = pc[u]
    <2>1. CASE AfterConnect(t, coinsTip)
      BY <2>1, AfterConnectMoves
    <2>2. CASE \E l \in {"step", "idle", "invalidate"} : pc' = [pc EXCEPT ![t] = l]
      BY <2>2 DEF IndInv, TypeInv
    <2>3. QED
      BY <1>1, <2>1, <2>2
  <1>4. QED
    BY <1>2, <1>3, RevivesKept DEF Moves

LEMMA OtherRevives ==
    ASSUME IndInv, NobodyRevives, NEW t \in Threads, NEW b \in Blocks,
           \/ AcceptBlockHeader(t, b) \/ AcceptBlock(t, b)
           \/ AcceptDuplicate(t, b) \/ AcceptBlockFails(t, b)
           \/ FlushStateToDisk(t) \/ ActivateExit(t) \/ WriteBlockIndex(t, b)
           \/ InvalidateBlock(t, b) \/ InvalidateWalk(t) \/ InvalidateDone(t)
    PROVE  NobodyRevives'
  <1>1. /\ \/ pc' = pc
           \/ \E l \in {"activate", "flush", "idle", "invalidate"} : pc' = [pc EXCEPT ![t] = l]
        /\ \/ cont' = cont
           \/ \E c \in {"idle", "return", "invalidate"} : cont' = [cont EXCEPT ![t] = c]
    BY DEF AcceptBlockHeader, AcceptBlock, AcceptDuplicate, AcceptBlockFails, FlushStateToDisk,
           ActivateExit, WriteBlockIndex, InvalidateBlock, InvalidateWalk, InvalidateDone,
           DisconnectTip, Flush, Leave, Goto, local
  <1>2. /\ pc'[t] \notin {"rejected", "reprocess"} /\ cont'[t] # "reprocess" /\ Moves(t)
    BY <1>1 DEF Moves, NobodyRevives, IndInv, TypeInv
  <1>3. QED
    BY <1>2, RevivesKept

LEMMA NextRevives ==
    ASSUME IndInv, NobodyRevives, NoRevival, ~DiskMayFail, [Next]_vars
    PROVE  NobodyRevives'
  <1>1. CASE UNCHANGED vars
    BY <1>1 DEF vars, local, NobodyRevives
  <1>2. CASE Restart
    BY <1>2 DEF Restart, StartThreads, NobodyRevives
  <1>3. ASSUME NEW t \in Threads, Begin(t)
        PROVE  NobodyRevives'
    <2>1. /\ ~ReprocessBlocks(t)
          /\ \A b \in Blocks : ~ReconsiderBlock(t, b) /\ ~ReprocessRejected(t, b)
      BY NoSpending DEF ReprocessBlocks, ReconsiderBlock, ReprocessRejected, NobodyRevives, IndInv
    <2>2. QED
      BY <1>3, <2>1, OtherRevives, TreeAssumption DEF Begin
  <1>4. ASSUME NEW t \in Threads, Continue(t)
        PROVE  NobodyRevives'
    <2>1. ~ReprocessBegin(t) /\ ~DisconnectBlocksAndReprocess(t)
      BY DEF ReprocessBegin, DisconnectBlocksAndReprocess, NobodyRevives
    <2>2. QED
      BY <1>4, <2>1, StepRevives, WriteCoinsRevives, OtherRevives, TreeAssumption DEF Continue
  <1>5. QED
    BY <1>1, <1>2, <1>3, <1>4 DEF Next, FlushFails

LEMMA NextCand ==
    ASSUME IndInv, LockInv, WalkInv, CandInv, NobodyRevives, [Next]_vars, ~DiskMayFail, NoRevival,
           IndInv', WalkInv'
    PROVE  CandInv'
  <1>1. CASE \/ UNCHANGED vars
             \/ \E t \in Threads, b \in Blocks : WriteBlockIndex(t, b)
    <2>1. UNCHANGED <<nStatus, linked, candidates, nSequenceId, tip, coinsTip, pc, cont, goal>>
      BY <1>1 DEF vars, index, local, WriteBlockIndex
    <2>2. PICK t \in Threads : TRUE
      BY TreeAssumption
    <2>3. /\ Moves(t) /\ (Walking(t) <=> Walking(t)') /\ (Stepping(t) <=> Stepping(t)')
          /\ (Quiet(t) <=> Quiet(t)') /\ (Settled(t) <=> Settled(t)')
      BY <2>1 DEF Moves, Walking, Stepping, Quiet, Settled
    <2>4. RulesInv' /\ \A x \in Blocks : Good(x)' <=> Good(x)
      BY <2>1 DEF CandInv, RulesInv, Good, Clean, Failed
    <2>5. QED
      BY <2>1, <2>3, <2>4, CandSame
  <1>2. CASE Restart
    BY <1>2, RestartCand
  <1>3. ASSUME NEW t \in Threads, Begin(t)
        PROVE  CandInv'
    <2>1. /\ ~ReprocessBlocks(t)
          /\ \A b \in Blocks : ~ReconsiderBlock(t, b) /\ ~ReprocessRejected(t, b)
      BY NoSpending DEF ReprocessBlocks, ReconsiderBlock, ReprocessRejected, NobodyRevives, IndInv
    <2>2. QED
      BY <1>3, <2>1, ArriveCand, AcceptCand, InvalidateCand, FlushCand DEF Begin
  <1>4. ASSUME NEW t \in Threads, Continue(t)
        PROVE  CandInv'
    <2>1. ~ReprocessBegin(t) /\ ~DisconnectBlocksAndReprocess(t)
      BY DEF ReprocessBegin, DisconnectBlocksAndReprocess, NobodyRevives
    <2>2. QED
      BY <1>1, <1>4, <2>1, WriteCoinsCand, ActivateCand, StepDisconnectCand, StepConnectCand,
         StepInvalidCand, FlushCand, InvalidateCand, InvalidateDoneCand, TreeAssumption
         DEF Continue
  <1>5. QED
    BY <1>1, <1>2, <1>3, <1>4 DEF Next, FlushFails

-----------------------------------------------------------------------------
(* Which blocks are linked *)

\* A block with data is linked or waits for its parent.
DataInv ==
    /\ Genesis \in linked
    /\ \A b \in Blocks \ linked : nSequenceId[b] = 0
    /\ \A b \in Blocks \ linked : HaveData(b) =>
          b \in unlinked /\ b # Genesis /\ Parent[b] \notin linked

LEMMA CompleteLinked ==
    ASSUME DataInv, NEW b \in Blocks, Complete(b)
    PROVE  b \in linked
  <1> SUFFICES ASSUME b \notin linked PROVE FALSE
    OBVIOUS
  <1> DEFINE S == {a \in Anc[b] : a \notin linked}
  <1>1. S \in SUBSET Anc[b] /\ S # {}
    BY AncFacts
  <1>2. PICK x \in S : \A y \in S : x \in Anc[y]
    <2> HIDE DEF S
    <2> QED BY <1>1, LowestOf
  <1>3. x \in Anc[b] /\ x \in Blocks /\ x \notin linked /\ HaveData(x)
    BY <1>2, AncFacts DEF Complete
  <1>4. x # Genesis /\ Parent[x] \notin linked
    BY <1>3 DEF DataInv
  <1>5. Parent[x] \in Blocks /\ Parent[x] \in Anc[x] /\ x \notin Anc[Parent[x]]
    BY <1>3, <1>4, TreeAssumption
  <1>6. Parent[x] \in S
    BY <1>3, <1>4, <1>5, AncFacts
  <1>7. QED
    BY <1>2, <1>5, <1>6

LEMMA DataKept ==
    ASSUME DataInv, UNCHANGED <<linked, nSequenceId, unlinked>>,
           \A x \in Blocks : HaveData(x)' => HaveData(x)
    PROVE  DataInv'
  BY DEF DataInv

LEMMA AcceptData ==
    ASSUME IndInv, DataInv, NEW t \in Threads, NEW b \in Blocks, AcceptBlock(t, b)
    PROVE  DataInv'
  <1>1. /\ b # Genesis /\ ~HaveData(b) /\ ReceivedBlockTransactions(b)
        /\ nStatus' = Mark(Mark(nStatus, {b}, "tree"), {b}, "data")
    BY DEF AcceptBlock, Acceptable
  <1>2. \A x \in Blocks : HaveData(x)' => HaveData(x) \/ x = b
    BY <1>1 DEF Mark, HaveData, IndInv, TypeInv
  <1>3. b \notin linked
    BY <1>1 DEF IndInv, LinkInv, HaveData
  <1>4. CASE Parent[b] \notin linked
    BY <1>1, <1>2, <1>4 DEF ReceivedBlockTransactions, DataInv
  <1>5. CASE Parent[b] \in linked
    <2>1. /\ linked' = linked \cup NowLinked(b) /\ unlinked' = unlinked \ NowLinked(b)
          /\ \A x \in Blocks \ NowLinked(b) : nSequenceId'[x] = nSequenceId[x]
          /\ b \in NowLinked(b)
      BY <1>1, <1>3, <1>5, ReceivedFacts
    <2>2. ASSUME NEW y \in Blocks \ linked', HaveData(y)'
          PROVE  y \in unlinked' /\ y # Genesis /\ Parent[y] \notin linked'
      <3>1. /\ y \in Blocks \ linked /\ y \notin NowLinked(b) /\ HaveData(y)
        BY <1>2, <2>1, <2>2
      <3>2. y \in unlinked /\ y # Genesis /\ Parent[y] \notin linked
        BY <3>1 DEF DataInv
      <3>3. Anc[y] = {y} \cup Anc[Parent[y]]
        BY <3>1, <3>2, TreeAssumption
      <3>4. ASSUME Parent[y] \in NowLinked(b) PROVE FALSE
        <4>1. b \in Anc[Parent[y]] /\ Anc[Parent[y]] \ Anc[b] \subseteq unlinked
          BY <3>4, TreeAssumption DEF NowLinked
        <4>2. QED
          BY <3>1, <3>2, <3>3, <4>1 DEF NowLinked
      <3>5. QED
        BY <2>1, <3>1, <3>2, <3>4
    <2>3. QED
      BY <2>1, <2>2 DEF DataInv
  <1>6. QED
    BY <1>4, <1>5

LEMMA RestartData ==
    ASSUME IndInv, Restart
    PROVE  DataInv'
  <1> DEFINE data == {b \in Blocks : "data" \in disk[b].nStatus}
  <1>1. /\ nStatus' = [b \in Blocks |-> disk[b].nStatus]
        /\ linked' = {b \in Blocks : Anc[b] \subseteq data} /\ unlinked' = data \ linked'
        /\ nSequenceId' = [b \in Blocks |-> 0]
    <2>1. \A b \in Blocks : [x \in Blocks |-> disk[x].nStatus][b] = disk[b].nStatus
      OBVIOUS
    <2>2. QED
      BY <2>1 DEF Restart, LoadBlockIndexDB
  <1>2. Genesis \in linked'
    BY <1>1, TreeAssumption DEF IndInv, StatusInv
  <1>3. ASSUME NEW b \in Blocks \ linked', HaveData(b)'
        PROVE  b \in unlinked' /\ b # Genesis /\ Parent[b] \notin linked'
    <2>1. b \in data /\ b # Genesis
      BY <1>1, <1>2, <1>3 DEF HaveData
    <2>2. Anc[b] = {b} \cup Anc[Parent[b]]
      BY <2>1, TreeAssumption
    <2>3. QED
      BY <1>1, <1>3, <2>1, <2>2
  <1>4. QED
    BY <1>1, <1>2, <1>3 DEF DataInv

\* The marks of failure and undo data that an action can add.
LEMMA MarkData ==
    ASSUME TypeInv, NEW S, NEW f \in Flags \ {"data"}, nStatus' = Mark(nStatus, S, f)
    PROVE  \A x \in Blocks : HaveData(x)' <=> HaveData(x)
  BY DEF TypeInv, Mark, HaveData

LEMMA NextData ==
    ASSUME IndInv, DataInv, NobodyRevives, [Next]_vars, ~DiskMayFail, NoRevival
    PROVE  DataInv'
  <1>0. TypeInv
    BY DEF IndInv
  <1>1. CASE UNCHANGED <<nStatus, linked, nSequenceId, unlinked>>
    BY <1>1, DataKept DEF HaveData
  <1>2. CASE Restart
    BY <1>2, RestartData
  <1>3. ASSUME NEW t \in Threads, NEW b \in Blocks, AcceptBlock(t, b)
        PROVE  DataInv'
    BY <1>3, AcceptData
  <1>4. ASSUME NEW t \in Threads, NEW b \in Blocks,
               AcceptBlockHeader(t, b) \/ AcceptBlockFails(t, b)
        PROVE  DataInv'
    <2>1. \A x \in Blocks : HaveData(x)' => HaveData(x)
      BY <1>0, <1>4 DEF AcceptBlockHeader, AcceptBlockFails, Mark, HaveData, TypeInv
    <2>2. QED
      BY <1>4, <2>1, DataKept DEF AcceptBlockHeader, AcceptBlockFails
  <1>5. ASSUME NEW t \in Threads, NEW b \in Blocks,
               StepInvalid(t) \/ InvalidateBlock(t, b) \/ InvalidateWalk(t) \/ StepConnect(t)
        PROVE  DataInv'
    <2>1. /\ "failed" \in Flags \ {"data"} /\ "child" \in Flags \ {"data"}
          /\ "undo" \in Flags \ {"data"}
      BY DEF Flags
    <2>2. /\ \/ \E S : nStatus' = Mark(nStatus, S, "failed")
             \/ \E S : nStatus' = Mark(nStatus, S, "child")
             \/ \E S : nStatus' = Mark(nStatus, S, "undo")
          /\ UNCHANGED <<linked, nSequenceId, unlinked>>
      BY <1>5 DEF StepInvalid, InvalidateBlock, InvalidateWalk, StepConnect,
                  InvalidBlockFound, ConnectBlock
    <2>3. QED
      BY <1>0, <2>1, <2>2, MarkData, DataKept
  <1>6. ASSUME NEW t \in Threads, ActivateBestChain(t)
        PROVE  DataInv'
    <2>1. PICK hopeless \in SUBSET candidates :
             (\A c \in hopeless : FailedOnPath(c) # {}) /\ Discard(hopeless)
      BY <1>6, MostWork
    <2>2. "data" \in Flags \ {"child"}
      BY DEF Flags
    <2>3. \A x \in Blocks : HaveData(x)' => HaveData(x)
      BY <2>1, <2>2, Discards DEF HaveData
    <2>4. QED
      BY <1>6, <2>3, MostWork, DataKept
  <1>7. ASSUME NEW t \in Threads, Begin(t)
        PROVE  DataInv'
    <2>1. /\ ~ReprocessBlocks(t)
          /\ \A b \in Blocks : ~ReconsiderBlock(t, b) /\ ~ReprocessRejected(t, b)
      BY NoSpending DEF ReprocessBlocks, ReconsiderBlock, ReprocessRejected, NobodyRevives, IndInv
    <2>2. CASE FlushStateToDisk(t) \/ \E b \in Blocks : AcceptDuplicate(t, b)
      BY <1>1, <2>2 DEF FlushStateToDisk, AcceptDuplicate, index
    <2>3. QED
      BY <1>3, <1>4, <1>5, <1>7, <2>1, <2>2 DEF Begin
  <1>8. ASSUME NEW t \in Threads, Continue(t)
        PROVE  DataInv'
    <2>1. ~ReprocessBegin(t) /\ ~DisconnectBlocksAndReprocess(t)
      BY DEF ReprocessBegin, DisconnectBlocksAndReprocess, NobodyRevives
    <2>2. CASE \/ \E b \in Blocks : WriteBlockIndex(t, b)
               \/ WriteCoins(t) \/ StepDisconnect(t) \/ ActivateExit(t) \/ InvalidateDone(t)
      BY <1>1, <2>2 DEF WriteBlockIndex, WriteCoins, CoinsWritten, StepDisconnect, ActivateExit,
                        InvalidateDone, index
    <2>3. QED
      BY <1>5, <1>6, <1>8, <2>1, <2>2, TreeAssumption DEF Continue
  <1>9. QED
    BY <1>1, <1>2, <1>7, <1>8 DEF Next, FlushFails, vars, index

-----------------------------------------------------------------------------
(* Why blocks are marked *)

\* A failed block has one below it that was found to be invalid.
FailCause == \A b \in Blocks : Failed(b) => \E a \in Anc[b] : "failed" \in nStatus[a]
WalkCause == \A t \in Threads : Walking(t) => "failed" \in nStatus[goal[t]]
UndoCause == \A b \in Blocks : "undo" \in nStatus[b] =>
                \A a \in Anc[b] \ {Genesis} : "undo" \in nStatus[a]
CauseInv == used["crash"] = 0 => FailCause /\ WalkCause /\ UndoCause

\* Marks are only added, for a cause, and undo data stay closed.
LEMMA CauseKept ==
    ASSUME CauseInv, used'["crash"] = used["crash"], NEW t \in Threads, Moves(t),
           \A x \in Blocks : "failed" \in nStatus[x] => "failed" \in nStatus'[x],
           \A x \in Blocks : Failed(x)' => \/ Failed(x) \/ "failed" \in nStatus'[x]
                                           \/ \E a \in Anc[x] : Failed(a)
                                           \/ Walking(t) /\ goal[t] \in Anc[x],
           \A u \in Threads \ {t} : goal'[u] = goal[u],
           Walking(t)' => \/ Walking(t) /\ goal'[t] = goal[t]
                          \/ "failed" \in nStatus'[goal'[t]],
           goal \in [Threads -> Blocks],
           UndoCause => UndoCause'
    PROVE  CauseInv'
  <1> SUFFICES ASSUME FailCause, WalkCause, UndoCause
               PROVE  FailCause' /\ WalkCause' /\ UndoCause'
    BY DEF CauseInv
  <1>1. ASSUME NEW x \in Blocks, Failed(x)'
        PROVE  \E a \in Anc[x] : "failed" \in nStatus'[a]
    <2>1. x \in Anc[x] /\ Anc[x] \subseteq Blocks /\ \A y \in Anc[x] : Anc[y] \subseteq Anc[x]
      BY AncFacts
    <2>2. CASE \E a \in Anc[x] : Failed(a)
      <3>1. PICK a \in Anc[x] : Failed(a)
        BY <2>2
      <3>2. PICK c \in Anc[a] : "failed" \in nStatus[c]
        BY <2>1, <3>1 DEF FailCause
      <3>3. QED
        BY <2>1, <3>2
    <2>3. CASE "failed" \in nStatus'[x]
      BY <2>1, <2>3
    <2>4. CASE Walking(t) /\ goal[t] \in Anc[x]
      BY <2>1, <2>4 DEF WalkCause
    <2>5. QED
      BY <1>1, <2>1, <2>2, <2>3, <2>4
  <1>2. ASSUME NEW u \in Threads, Walking(u)' PROVE "failed" \in nStatus'[goal'[u]]
    <2>1. \/ Walking(u) /\ goal'[u] = goal[u]
          \/ u = t /\ "failed" \in nStatus'[goal'[t]]
      BY <1>2, OthersStay
    <2>2. QED
      BY <2>1 DEF WalkCause
  <1>3. QED
    BY <1>1, <1>2 DEF FailCause, WalkCause

LEMMA UndoSame ==
    ASSUME UndoCause, \A x \in Blocks : "undo" \in nStatus'[x] <=> "undo" \in nStatus[x]
    PROVE  UndoCause'
  BY AncFacts DEF UndoCause

LEMMA SameCause ==
    ASSUME IndInv, CauseInv, used' = used, NEW t \in Threads, Moves(t), UNCHANGED nStatus,
           \A u \in Threads \ {t} : goal'[u] = goal[u],
           Walking(t)' => Walking(t) /\ goal'[t] = goal[t]
    PROVE  CauseInv'
  <1>1. \A x : Failed(x)' <=> Failed(x)
    BY DEF Failed
  <1>2. goal \in [Threads -> Blocks]
    BY DEF IndInv, TypeInv
  <1>3. UndoCause => UndoCause'
    BY DEF UndoCause
  <1>4. QED
    BY <1>1, <1>2, <1>3, CauseKept

LEMMA ArriveCause ==
    ASSUME IndInv, CauseInv, NEW t \in Threads, NEW b \in Blocks,
           \/ AcceptBlockHeader(t, b) \/ AcceptBlock(t, b)
           \/ AcceptDuplicate(t, b) \/ AcceptBlockFails(t, b)
    PROVE  CauseInv'
  <1>1. /\ Moves(t) /\ (Walking(t)' => Walking(t)) /\ used' = used /\ goal' = goal
    BY ArrivePlain DEF Plain, AcceptBlockHeader, AcceptBlock, AcceptDuplicate,
                       AcceptBlockFails, local
  <1>2. goal \in [Threads -> Blocks] /\ TypeInv
    BY DEF IndInv, TypeInv
  <1>3. /\ \A x \in Blocks : "failed" \in nStatus[x] => "failed" \in nStatus'[x]
        /\ \A x \in Blocks : Failed(x)' => Failed(x) \/ "failed" \in nStatus'[x]
        /\ \A x \in Blocks : "undo" \in nStatus'[x] <=> "undo" \in nStatus[x]
    <2>1. CASE AcceptBlockHeader(t, b)
      BY <1>2, <2>1 DEF AcceptBlockHeader, mapBlockIndex, Failed, TypeInv
    <2>2. CASE AcceptDuplicate(t, b)
      BY <2>2 DEF AcceptDuplicate, index, Failed
    <2>3. CASE AcceptBlock(t, b) \/ AcceptBlockFails(t, b)
      BY <1>2, <2>3 DEF AcceptBlock, AcceptBlockFails, Mark, Failed, TypeInv
    <2>4. QED
      BY <2>1, <2>2, <2>3
  <1>4. UndoCause => UndoCause'
    BY <1>3, UndoSame
  <1>5. QED
    BY <1>1, <1>2, <1>3, <1>4, CauseKept

LEMMA ActivateCause ==
    ASSUME IndInv, CauseInv, NEW t \in Threads, ActivateBestChain(t)
    PROVE  CauseInv'
  <1>1. PICK hopeless \in SUBSET candidates :
           (\A c \in hopeless : FailedOnPath(c) # {}) /\ Discard(hopeless)
    BY MostWork
  <1>2. /\ Moves(t) /\ used' = used /\ pc'[t] \in {"idle", "step"}
        /\ \A u \in Threads \ {t} : goal'[u] = goal[u]
    BY MostWork
  <1>3. /\ \A x \in Blocks : Failed(x)' /\ ~Failed(x) => \E a \in Anc[x] : Failed(a)
        /\ \A x \in Blocks, f \in Flags \ {"child"} : f \in nStatus'[x] <=> f \in nStatus[x]
    BY <1>1, Discards
  <1>4. /\ goal \in [Threads -> Blocks] /\ ~Walking(t)'
        /\ "failed" \in Flags \ {"child"} /\ "undo" \in Flags \ {"child"}
    BY <1>2 DEF Walking, IndInv, TypeInv, Flags
  <1>5. UndoCause => UndoCause'
    BY <1>3, <1>4, UndoSame
  <1>6. QED
    BY <1>2, <1>3, <1>4, <1>5, CauseKept

\* ConnectBlock writes the undo data of a block whose ancestors have theirs.
LEMMA StepConnectCause ==
    ASSUME IndInv, LockInv, WalkInv, CauseInv, NEW t \in Threads, StepConnect(t)
    PROVE  CauseInv'
  <1>1. PICK b \in Anc[goal[t]] \ {Genesis} :
           /\ Parent[b] = tip /\ ConnectBlock(b)
           /\ \/ Flush(t, "connect") /\ UNCHANGED <<tip, candidates, goal, old>>
              \/ AfterConnect(t, b) /\ UNCHANGED cont
    BY DEF StepConnect
  <1>2. nStatus' = Mark(nStatus, {b}, "undo") /\ coinsTip = tip /\ pc[t] = "step"
    BY <1>1 DEF StepConnect, ConnectBlock
  <1>3. /\ b \in Blocks /\ Anc[b] = {b} \cup Anc[tip]
    BY <1>1, NextBlock
  <1>4. /\ \A x \in Blocks : Failed(x)' <=> Failed(x)
        /\ \A x \in Blocks : "failed" \in nStatus[x] => "failed" \in nStatus'[x]
        /\ \A x \in Blocks : "undo" \in nStatus'[x] <=> "undo" \in nStatus[x] \/ x = b
    BY <1>2 DEF Mark, Failed, IndInv, TypeInv
  <1>5. UndoCause => UndoCause'
    <2> SUFFICES ASSUME UndoCause, NEW x \in Blocks, "undo" \in nStatus'[x],
                        NEW a \in Anc[x] \ {Genesis}
                 PROVE  "undo" \in nStatus'[a]
      BY DEF UndoCause
    <2>1. a \in Blocks
      BY AncFacts
    <2>2. CASE x = b
      <3>1. a = b \/ "undo" \in nStatus[a]
        BY <1>2, <1>3, <2>2 DEF IndInv, TipInv
      <3>2. QED
        BY <1>4, <2>1, <3>1
    <2>3. CASE x # b
      BY <1>4, <2>1, <2>3 DEF UndoCause
    <2>4. QED
      BY <2>2, <2>3
  <1>6. Moves(t) /\ (Walking(t)' => Walking(t)) /\ used' = used /\ ~Walking(t)
    BY <1>2, StepPlain DEF Plain, Walking
  <1>7. goal \in [Threads -> Blocks] /\ \A u \in Threads \ {t} : goal'[u] = goal[u]
    BY <1>1 DEF AfterConnect, Leave, Stay, Goto, IndInv, TypeInv
  <1>8. QED
    BY <1>4, <1>5, <1>6, <1>7, CauseKept

LEMMA InvalidCause ==
    ASSUME IndInv, CauseInv, NEW t \in Threads, NEW b \in Blocks,
           StepInvalid(t) \/ InvalidateBlock(t, b)
    PROVE  CauseInv'
  <1>1. PICK c \in Blocks : /\ InvalidBlockFound(c)
                            /\ \/ StepInvalid(t)
                               \/ InvalidateBlock(t, b) /\ c = b
    <2>1. goal[t] \in Blocks
      BY DEF IndInv, TypeInv
    <2>2. QED
      BY <2>1, AncFacts DEF StepInvalid, InvalidateBlock
  <1>2. nStatus' = Mark(nStatus, {c}, "failed") /\ TypeInv /\ goal \in [Threads -> Blocks]
    BY <1>1 DEF InvalidBlockFound, IndInv, TypeInv
  <1>3. /\ \A x \in Blocks : Failed(x)' => Failed(x) \/ "failed" \in nStatus'[x]
        /\ \A x \in Blocks : "failed" \in nStatus'[x] <=> "failed" \in nStatus[x] \/ x = c
        /\ \A x \in Blocks : "undo" \in nStatus'[x] <=> "undo" \in nStatus[x]
    BY <1>2 DEF Mark, Failed, TypeInv
  <1>4. UndoCause => UndoCause'
    BY <1>3, UndoSame
  <1>5. CASE StepInvalid(t)
    <2>1. /\ pc' = [pc EXCEPT ![t] = "loop"] /\ goal' = [goal EXCEPT ![t] = Genesis]
          /\ cont' = cont /\ used' = used
      BY <1>5 DEF StepInvalid, Leave, Goto
    <2>2. Moves(t) /\ ~Walking(t)' /\ \A u \in Threads \ {t} : goal'[u] = goal[u]
      BY <1>2, <2>1 DEF Moves, Walking, TypeInv
    <2>3. QED
      BY <1>2, <1>3, <1>4, <2>1, <2>2, CauseKept
  <1>6. CASE InvalidateBlock(t, b) /\ c = b
    <2>1. /\ pc' = [pc EXCEPT ![t] = "invalidate"] /\ goal' = [goal EXCEPT ![t] = b]
          /\ cont' = cont /\ Spend("invalidate")
      BY <1>6 DEF InvalidateBlock, Goto
    <2>2. /\ Moves(t) /\ goal'[t] = b /\ \A u \in Threads \ {t} : goal'[u] = goal[u]
      BY <1>2, <2>1 DEF Moves, TypeInv
    <2>3. used'["crash"] = used["crash"]
      BY <1>2, <2>1, SpendFacts DEF Interventions
    <2>4. "failed" \in nStatus'[goal'[t]]
      BY <1>3, <1>6, <2>2
    <2>5. QED
      BY <1>2, <1>3, <1>4, <2>2, <2>3, <2>4, CauseKept
  <1>7. QED
    BY <1>1, <1>5, <1>6

LEMMA WalkingCause ==
    ASSUME IndInv, CauseInv, NEW t \in Threads, InvalidateWalk(t)
    PROVE  CauseInv'
  <1>1. /\ nStatus' = Mark(nStatus, {tip}, "child") /\ TypeInv /\ goal \in [Threads -> Blocks]
        /\ pc[t] = "invalidate" /\ goal[t] \in Anc[tip] /\ goal' = goal
    BY DEF InvalidateWalk, Contains, IndInv, TypeInv
  <1>2. Moves(t) /\ Walking(t) /\ used' = used
    BY <1>1, OtherPlain DEF Plain, Walking
  <1>3. /\ \A x \in Blocks : Failed(x)' => Failed(x) \/ x = tip
        /\ \A x \in Blocks : "failed" \in nStatus[x] => "failed" \in nStatus'[x]
        /\ \A x \in Blocks : "undo" \in nStatus'[x] <=> "undo" \in nStatus[x]
    BY <1>1 DEF Mark, Failed, TypeInv
  <1>4. UndoCause => UndoCause'
    BY <1>3, UndoSame
  <1>5. QED
    BY <1>1, <1>2, <1>3, <1>4, CauseKept

LEMMA WriteCoinsCause ==
    ASSUME IndInv, CauseInv, NEW t \in Threads, WriteCoins(t)
    PROVE  CauseInv'
  <1>1. /\ UNCHANGED <<nStatus, used>> /\ cont' = [cont EXCEPT ![t] = "idle"]
        /\ pc[t] = "flush"
        /\ \/ AfterConnect(t, coinsTip)
           \/ \E l \in {"step", "idle", "reprocess"} : pc' = [pc EXCEPT ![t] = l] /\ goal' = goal
           \/ cont[t] = "invalidate"/\ pc' = [pc EXCEPT ![t] = "invalidate"] /\ goal' = goal
    BY DEF WriteCoins, CoinsWritten, Stay, Goto
  <1>2. /\ Moves(t) /\ (Walking(t)' => Walking(t) /\ goal'[t] = goal[t])
        /\ \A u \in Threads \ {t} : goal'[u] = goal[u]
    <2>1. CASE AfterConnect(t, coinsTip)
      <3>1. pc'[t] \in {"exit", "loop", "step"} /\ \A u \in Threads \ {t} : goal'[u] = goal[u]
        BY <2>1 DEF AfterConnect, Leave, Stay, Goto, IndInv, TypeInv
      <3>2. Moves(t)
        BY <1>1, <2>1, AfterConnectMoves DEF Moves, IndInv, TypeInv
      <3>3. QED
        BY <3>1, <3>2 DEF Walking
    <2>2. CASE \E l \in {"step", "idle", "reprocess"} : pc' = [pc EXCEPT ![t] = l] /\ goal' = goal
      BY <1>1, <2>2 DEF Moves, Walking, IndInv, TypeInv
    <2>3. CASE cont[t] = "invalidate"/\ pc' = [pc EXCEPT ![t] = "invalidate"] /\ goal' = goal
      BY <1>1, <2>3 DEF Moves, Walking, IndInv, TypeInv
    <2>4. QED
      BY <1>1, <2>1, <2>2, <2>3
  <1>3. QED
    BY <1>1, <1>2, SameCause

LEMMA OtherCause ==
    ASSUME IndInv, CauseInv, NEW t \in Threads,
           \/ FlushStateToDisk(t) \/ ActivateExit(t) \/ InvalidateDone(t) \/ StepDisconnect(t)
    PROVE  CauseInv'
  <1>1. Moves(t) /\ (Walking(t)' => Walking(t)) /\ used' = used
    BY OtherPlain, StepPlain DEF Plain
  <1>2. UNCHANGED nStatus
    BY DEF FlushStateToDisk, ActivateExit, InvalidateDone, StepDisconnect, index
  <1>3. CASE FlushStateToDisk(t) \/ ActivateExit(t) \/ StepDisconnect(t)
    BY <1>1, <1>2, <1>3, SameCause DEF FlushStateToDisk, ActivateExit, StepDisconnect
  <1>4. CASE InvalidateDone(t)
    <2>1. /\ pc' = [pc EXCEPT ![t] = "activate"] /\ goal' = [goal EXCEPT ![t] = Genesis]
      BY <1>4 DEF InvalidateDone, Leave, Goto
    <2>2. pc'[t] = "activate" /\ \A u \in Threads \ {t} : goal'[u] = goal[u]
      BY <2>1 DEF IndInv, TypeInv
    <2>3. ~Walking(t)'
      BY <2>2 DEF Walking
    <2>4. QED
      BY <1>1, <1>2, <2>2, <2>3, SameCause
  <1>5. QED
    BY <1>3, <1>4

LEMMA NextCause ==
    ASSUME IndInv, LockInv, WalkInv, CauseInv, NobodyRevives, [Next]_vars, ~DiskMayFail, NoRevival
    PROVE  CauseInv'
  <1>1. CASE \/ UNCHANGED vars
             \/ \E t \in Threads, b \in Blocks : WriteBlockIndex(t, b)
    <2>1. UNCHANGED <<nStatus, pc, cont, goal, used>>
      BY <1>1 DEF vars, index, local, WriteBlockIndex
    <2>2. PICK t \in Threads : TRUE
      BY TreeAssumption
    <2>3. Moves(t) /\ (Walking(t)' => Walking(t))
      BY <2>1 DEF Moves, Walking
    <2>4. QED
      BY <2>1, <2>3, SameCause
  <1>2. CASE Restart
    <2>1. used'["crash"] > 0
      BY <1>2, SpendFacts DEF Restart, Interventions, IndInv
    <2>2. QED
      BY <2>1 DEF CauseInv
  <1>3. ASSUME NEW t \in Threads, Begin(t)
        PROVE  CauseInv'
    <2>1. /\ ~ReprocessBlocks(t)
          /\ \A b \in Blocks : ~ReconsiderBlock(t, b) /\ ~ReprocessRejected(t, b)
      BY NoSpending DEF ReprocessBlocks, ReconsiderBlock, ReprocessRejected, NobodyRevives, IndInv
    <2>2. QED
      BY <1>3, <2>1, ArriveCause, InvalidCause, OtherCause DEF Begin
  <1>4. ASSUME NEW t \in Threads, Continue(t)
        PROVE  CauseInv'
    <2>1. ~ReprocessBegin(t) /\ ~DisconnectBlocksAndReprocess(t)
      BY DEF ReprocessBegin, DisconnectBlocksAndReprocess, NobodyRevives
    <2>2. QED
      BY <1>1, <1>4, <2>1, WriteCoinsCause, ActivateCause, StepConnectCause, InvalidCause,
         WalkingCause, OtherCause, TreeAssumption DEF Continue
  <1>5. QED
    BY <1>1, <1>2, <1>3, <1>4 DEF Next, FlushFails

-----------------------------------------------------------------------------
(* What the index guarantees *)

IndexInv == NobodyRevives /\ CandInv /\ DataInv /\ CauseInv

LEMMA InitIndex ==
    ASSUME Init
    PROVE  IndexInv
  <1>1. /\ nStatus = [b \in Blocks |-> IF b = Genesis THEN {"tree", "data"} ELSE {}]
        /\ linked = {Genesis} /\ candidates = {Genesis} /\ tip = Genesis /\ coinsTip = Genesis
        /\ nSequenceId = [b \in Blocks |-> IF b = Genesis THEN 1 ELSE 0]
        /\ \A t \in Threads : pc[t] = "idle" /\ cont[t] = "idle"
    BY DEF Init
  <1>2. /\ Genesis \in Blocks /\ Anc[Genesis] = {Genesis} /\ Genesis \notin BadConnect
    BY TreeAssumption
  <1>3. \A x \in Blocks : ~Failed(x) /\ "undo" \notin nStatus[x] /\ (HaveData(x) => x = Genesis)
    BY <1>1 DEF Failed, HaveData
  <1>4. \A t \in Threads : ~Walking(t) /\ ~Stepping(t)
    BY <1>1 DEF Walking, Stepping
  <1>5. ~Below(Genesis, Genesis)
    <2>1. nSequenceId \in [Blocks -> Nat]
      BY <1>1
    <2>2. QED
      BY <1>2, <2>1, WorseOrder DEF Below
  <1>6. \A x : Good(x) => x = Genesis
    BY <1>1 DEF Good
  <1>7. Good(Genesis)
    BY <1>1, <1>2, <1>3 DEF Good, Clean
  <1>8. Reference(Genesis)
    BY <1>1, <1>2, <1>6, <1>7 DEF Reference
  <1>9. CandInv
    BY <1>1, <1>2, <1>4, <1>5, <1>6, <1>8
       DEF CandInv, PrunedInv, RulesInv, ReferenceInv, GoalInv, QuietInv, SettledInv
  <1>10. DataInv
    BY <1>1, <1>3 DEF DataInv
  <1>11. CauseInv
    BY <1>3, <1>4 DEF CauseInv, FailCause, WalkCause, UndoCause
  <1>12. QED
    BY <1>1, <1>9, <1>10, <1>11 DEF IndexInv, NobodyRevives

\* The invariant of the block index: setBlockIndexCandidates holds a candidate
\* that breaks no rule together with everything better, and more when threads
\* are at rest; mapBlocksUnlinked holds what waits for a parent; marks have a
\* cause.
THEOREM IndexInvariant ==
    ASSUME ~DiskMayFail, NoCrashAfterInvalidate, NoRevival
    PROVE  Spec => [](IndInv /\ LockInv /\ WalkInv /\ IndexInv)
  <1>1. Init => IndexInv
    BY InitIndex
  <1>2. IndInv /\ LockInv /\ WalkInv /\ IndexInv /\ [Next]_vars /\ IndInv' /\ WalkInv' => IndexInv'
    BY NextRevives, NextCand, NextData, NextCause DEF IndexInv
  <1>3. Spec => [](IndInv /\ LockInv) /\ [](WalkInv /\ DiskInv)
    BY LockInvariant, WalkInvariant
  <1>4. QED
    BY <1>1, <1>2, <1>3, PTL DEF Spec

\* "The result is either failure or an activated best chain" (main.cpp:3822):
\* when all threads are idle, no block that could be connected is better than
\* the tip, for every block tree, any number of threads and any interleaving
\* of arriving blocks, failed connections, and crashes or invalidations.
THEOREM BestChainIsActive ==
    ASSUME ~DiskMayFail, NoCrashAfterInvalidate, NoRevival
    PROVE  Spec => []BestChainActive
  <1>1. IndInv /\ IndexInv => BestChainActive
    <2> SUFFICES ASSUME IndInv, IndexInv, \A t \in Threads : pc[t] = "idle", NEW b \in Blocks,
                        Complete(b), Worse(nSequenceId, tip, b)
                 PROVE  \E a \in Anc[b] : Failed(a)
      BY DEF BestChainActive
    <2>1. b \in linked
      BY CompleteLinked DEF IndexInv
    <2>2. \A x \in Blocks : Good(x) => ~Below(tip, x)
      BY DEF IndexInv, CandInv, SettledInv, Settled
    <2>3. QED
      BY <2>1, <2>2 DEF Good, Below, Clean
  <1>2. QED
    BY <1>1, IndexInvariant, PTL

\* PruneBlockIndexCandidates and FindMostWorkChain never empty
\* setBlockIndexCandidates (main.cpp:3746): whoever gets cs_main finds one.
THEOREM CandidatesRemain ==
    ASSUME ~DiskMayFail, NoCrashAfterInvalidate, NoRevival
    PROVE  Spec => []CandidatesLeft
  <1>1. IndexInv => CandidatesLeft
    BY NobodyInside DEF IndexInv, CandInv, ReferenceInv, Reference, CandidatesLeft
  <1>2. QED
    BY <1>1, IndexInvariant, PTL

\* The assertions of CheckBlockIndex hold at the end of every critical section
\* that calls it (main.cpp:3903), on a node that has not crashed.
THEOREM IndexStaysConsistent ==
    ASSUME ~DiskMayFail, NoCrashAfterInvalidate, NoRevival
    PROVE  Spec => []IndexConsistent
  <1>1. IndInv /\ IndexInv => IndexConsistent
    <2> SUFFICES ASSUME IndInv, IndexInv, used["crash"] + used["reprocess"] = 0,
                        \A t \in Threads : pc[t] \in {"idle", "activate", "exit"}
                 PROVE  CheckBlockIndex
      BY DEF IndexConsistent
    <2>1. used["crash"] = 0
      BY DEF IndInv, TypeInv, Interventions
    <2>2. FailCause /\ UndoCause
      BY <2>1 DEF IndexInv, CauseInv
    <2>3. \A x \in Blocks : Good(x) /\ ~Below(x, tip) => x \in candidates
      BY DEF IndexInv, CandInv, QuietInv, Quiet, Walking, Stepping
    <2>4. \A c \in candidates : ~Below(c, tip)
      BY DEF IndexInv, CandInv, PrunedInv
    <2>5. ASSUME NEW b \in mapBlockIndex
          PROVE  LET missing == \E a \in Anc[b] : ~HaveData(a)
                     invalid == \E a \in Anc[b] : "failed" \in nStatus[a]
                 IN  /\ b \notin linked => nSequenceId[b] = 0
                     /\ missing <=> b \notin linked
                     /\ "undo" \in nStatus[b] =>
                           \A a \in Anc[b] \ {Genesis} : "undo" \in nStatus[a]
                     /\ Failed(b) => invalid
                     /\ IF AsGoodAsTip(b) /\ ~missing THEN invalid \/ b \in candidates
                                                       ELSE b \notin candidates
                     /\ IF b # Genesis /\ HaveData(b) /\ missing
                        THEN invalid \/ b \in unlinked ELSE b \notin unlinked
      <3> DEFINE missing == \E a \in Anc[b] : ~HaveData(a)
                 invalid == \E a \in Anc[b] : "failed" \in nStatus[a]
      <3>1. b \in Blocks /\ DataInv
        BY DEF mapBlockIndex, IndexInv
      <3>2. /\ b \in Anc[b] /\ \A y \in Anc[b] : y \in Blocks /\ Anc[y] \subseteq Anc[b]
        BY <3>1, AncFacts
      <3>3. missing <=> b \notin linked
        BY <3>1, <3>2, CompleteLinked DEF Complete, IndInv, LinkInv, HaveData
      <3>4. ~invalid => Clean(b)
        BY <2>2, <3>2 DEF FailCause, Clean
      <3>5. Failed(b) => invalid
        BY <2>2, <3>1 DEF FailCause
      <3>6. "undo" \in nStatus[b] => \A a \in Anc[b] \ {Genesis} : "undo" \in nStatus[a]
        BY <2>2, <3>1 DEF UndoCause
      <3> HIDE DEF missing, invalid
      <3>7. IF AsGoodAsTip(b) /\ ~missing THEN invalid \/ b \in candidates
                                           ELSE b \notin candidates
        BY <2>3, <2>4, <3>1, <3>3, <3>4 DEF Good, AsGoodAsTip, Below, IndInv, LinkInv
      <3>8. IF b # Genesis /\ HaveData(b) /\ missing THEN invalid \/ b \in unlinked
                                                      ELSE b \notin unlinked
        BY <3>1, <3>3 DEF DataInv, IndInv, LinkInv, HaveData
      <3>9. b \notin linked => nSequenceId[b] = 0
        BY <3>1 DEF DataInv
      <3>10. QED
        BY <3>3, <3>5, <3>6, <3>7, <3>8, <3>9 DEF missing, invalid
    <2>6. QED
      BY <2>5 DEF CheckBlockIndex
  <1>2. QED
    BY <1>1, IndexInvariant, PTL
=============================================================================
