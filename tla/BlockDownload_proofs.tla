------------------------ MODULE BlockDownload_proofs ------------------------
(***************************************************************************)
(* Proofs about BlockDownload, for any finite tree of blocks, any peers,   *)
(* any window and any limits.                                              *)
(*                                                                         *)
(* The four invariants of the run hold together: IndInv restates them      *)
(* without cardinalities (QueueOK, Indexed) and adds that the tip has all  *)
(* its ancestors.  What a step needs to know of FindNextBlocksToDownload   *)
(* is proved once (Found), by induction along its walk.                    *)
(***************************************************************************)
EXTENDS BlockDownload, FiniteSetTheorems, TLAPS

-----------------------------------------------------------------------------
(* Natural numbers *)

\* The order of the natural numbers is a well-founded relation.
LEMMA LessThan ==
    \E R : IsWellFoundedOn(R, Nat) /\ \A i, j \in Nat : i < j => <<i, j>> \in R
<1> DEFINE R == OpToRel(<, Nat)
<1>1. IsWellFoundedOn(R, Nat)
  BY NatLessThanWellFounded
<1>2. \A i, j \in Nat : i < j => <<i, j>> \in R
  BY Zenon DEF OpToRel
<1> HIDE DEF R
<1> QED BY <1>1, <1>2

\* A set of natural numbers has a least element.
LEMMA Least ==
    ASSUME NEW T \in SUBSET Nat, T # {}
    PROVE  \E n \in T : \A k \in T : n <= k
<1>1. PICK R : IsWellFoundedOn(R, Nat) /\ \A i, j \in Nat : i < j => <<i, j>> \in R
  BY LessThan
<1>2. PICK n \in T : \A k \in T : ~(<<k, n>> \in R)
  <2>1. IsWellFoundedOn(R, Nat) /\ T \subseteq Nat /\ T # {}
    BY <1>1
  <2> QED BY <2>1, WFMin, Zenon
<1>3. n \in Int /\ \A k \in T : k \in Int
  OBVIOUS
<1>4. \A k \in T : ~(k < n)
  BY <1>1, <1>2
<1> QED BY <1>3, <1>4

\* Induction from i to j: a set that holds i and the successors of its
\* members holds all of i..j.
LEMMA Upwards ==
    ASSUME NEW i \in Nat, NEW j \in Nat, NEW S,
           i \in S, \A n \in i..j : n \in S /\ n < j => n + 1 \in S
    PROVE  i..j \subseteq S
<1> SUFFICES ASSUME (i..j) \ S # {} PROVE FALSE
  OBVIOUS
<1>1. (i..j) \ S \in SUBSET Nat
  OBVIOUS
<1>2. PICK n \in (i..j) \ S : \A k \in (i..j) \ S : n <= k
  BY <1>1, Least
<1>3. n \in Nat /\ i < n /\ n <= j
  BY <1>2
<1>4. n - 1 \in i..j /\ n - 1 < j /\ n - 1 + 1 = n /\ ~(n <= n - 1)
  BY <1>3
<1>5. n - 1 \in S
  BY <1>2, <1>4
<1> QED BY <1>2, <1>4, <1>5

-----------------------------------------------------------------------------
(* The tree of blocks *)

\* An ancestor at a given height (CBlockIndex::GetAncestor, main.cpp 4817-4838).
LEMMA AtHeightFacts ==
    ASSUME NEW b \in Blocks, NEW h \in 0..Height[b]
    PROVE  AtHeight(b, h) \in Anc[b] /\ Height[AtHeight(b, h)] = h
<1>1. \E a \in Anc[b] : Height[a] = h
  BY BlockDownloadAssumption
<1> QED BY <1>1 DEF AtHeight

\* The last common ancestor of two blocks (main.cpp 464-480) exists.
LEMMA CommonAncestor ==
    ASSUME NEW a \in Blocks, NEW b \in Blocks
    PROVE  /\ LastCommonAncestor(a, b) \in Anc[a]
           /\ LastCommonAncestor(a, b) \in Anc[b]
<1> DEFINE S == Anc[a] \cap Anc[b]
           depths == {Height[a] - Height[c] : c \in S}
<1>1. /\ Genesis \in S /\ S \subseteq Blocks /\ Height[a] \in Nat
      /\ \A c \in S : Height[c] \in Nat /\ Height[c] <= Height[a]
  BY BlockDownloadAssumption
<1> HIDE DEF S
<1>2. depths \in SUBSET Nat /\ depths # {}
  BY <1>1
<1>3. PICK d \in depths : \A k \in depths : d <= k
  <2> HIDE DEF depths
  <2> QED BY <1>2, Least
<1>4. PICK m \in S : d = Height[a] - Height[m]
  BY <1>3
<1>5. \A c \in S : Height[c] <= Height[m]
  <2> SUFFICES ASSUME NEW c \in S PROVE Height[c] <= Height[m]
    OBVIOUS
  <2>1. Height[a] - Height[m] <= Height[a] - Height[c]
    BY <1>3, <1>4
  <2> QED BY <1>1, <2>1
<1>6. Highest(S) \in S
  BY <1>5 DEF Highest
<1> QED BY <1>6 DEF LastCommonAncestor, S

-----------------------------------------------------------------------------
(* FindNextBlocksToDownload *)

Walks == [common : Blocks, vBlocks : Seq(Blocks), waitingfor : Peers \cup {None},
          staller : Peers \cup {None}, done : BOOLEAN]

\* Blocks that may be asked for: not in flight, no two the same, at most count.
Askable(bs, count) ==
    /\ bs \in Seq(Blocks) /\ Len(bs) <= count
    /\ \A i \in 1..Len(bs) : inFlight[bs[i]] = None
    /\ \A i, j \in 1..Len(bs) : bs[i] = bs[j] => i = j

Owes(q) == \E b \in Blocks : inFlight[b] = q

\* What the walk has found below height h.
WalkOK(p, count, h, acc) ==
    /\ acc \in Walks
    /\ Linked(acc.common)
    /\ Askable(acc.vBlocks, count)
    /\ \A i \in 1..Len(acc.vBlocks) : Height[acc.vBlocks[i]] <= h
    /\ ~acc.done => Len(acc.vBlocks) < count
    /\ acc.waitingfor # None => Owes(acc.waitingfor)
    /\ acc.staller # None => acc.staller # p /\ Owes(acc.staller)

LEMMA VisitOK ==
    ASSUME inFlight \in [Blocks -> Peers \cup {None}],
           NEW p, NEW count \in Nat, NEW h \in Nat, NEW w \in Nat, NEW acc, NEW b \in Blocks,
           WalkOK(p, count, h, acc), ~acc.done, Height[b] = h + 1
    PROVE  WalkOK(p, count, h + 1, Visit(p, count, w, acc, b))
<1> DEFINE new == Visit(p, count, w, acc, b)
<1>1. /\ acc \in Walks /\ Linked(acc.common) /\ Askable(acc.vBlocks, count)
      /\ \A i \in 1..Len(acc.vBlocks) : Height[acc.vBlocks[i]] <= h
      /\ Len(acc.vBlocks) < count
      /\ acc.waitingfor # None => Owes(acc.waitingfor)
      /\ acc.staller # None => acc.staller # p /\ Owes(acc.staller)
  BY DEF WalkOK
<1>2. \A c \in Blocks : Height[c] \in Nat
  BY BlockDownloadAssumption
<1>3. \A i \in 1..Len(acc.vBlocks) : Height[acc.vBlocks[i]] <= h + 1
  BY <1>1, <1>2 DEF Walks
<1>4. CASE b \in failed
  <2>1. new = [acc EXCEPT !.done = TRUE]
    BY <1>4 DEF Visit
  <2>2. /\ new \in Walks /\ new.common = acc.common /\ new.vBlocks = acc.vBlocks /\ new.done
        /\ new.waitingfor = acc.waitingfor /\ new.staller = acc.staller
    BY <1>1, <2>1 DEF Walks
  <2> HIDE DEF new
  <2> QED BY <1>1, <1>3, <2>2 DEF WalkOK, new
<1>5. CASE b \notin failed /\ b \in data
  <2>1. new = [acc EXCEPT !.common = IF Linked(b) THEN b ELSE @]
    BY <1>5 DEF Visit
  <2>2. /\ new \in Walks /\ Linked(new.common) /\ new.vBlocks = acc.vBlocks
        /\ new.waitingfor = acc.waitingfor /\ new.staller = acc.staller
    BY <1>1, <2>1 DEF Walks
  <2> HIDE DEF new
  <2> QED BY <1>1, <1>3, <2>2 DEF WalkOK, new
<1>6. CASE b \notin failed /\ b \notin data /\ inFlight[b] # None
  <2>1. new = [acc EXCEPT !.waitingfor = IF @ = None THEN inFlight[b] ELSE @]
    BY <1>6 DEF Visit
  <2>2. /\ new \in Walks /\ new.common = acc.common /\ new.vBlocks = acc.vBlocks
        /\ new.waitingfor \in {acc.waitingfor, inFlight[b]} /\ new.staller = acc.staller
    BY <1>1, <2>1 DEF Walks
  <2> HIDE DEF new
  <2>3. new.waitingfor # None => Owes(new.waitingfor)
    BY <1>1, <2>2 DEF Owes
  <2> QED BY <1>1, <1>3, <2>2, <2>3 DEF WalkOK, new
<1>7. CASE b \notin failed /\ b \notin data /\ inFlight[b] = None /\ Height[b] > w
  <2>1. new = [acc EXCEPT !.done = TRUE,
                          !.staller = IF acc.vBlocks = <<>> /\ acc.waitingfor # p
                                      THEN acc.waitingfor ELSE @]
    BY <1>7 DEF Visit
  <2>2. /\ new \in Walks /\ new.common = acc.common /\ new.vBlocks = acc.vBlocks /\ new.done
        /\ new.waitingfor = acc.waitingfor
        /\ new.staller = acc.staller \/ (new.staller = acc.waitingfor /\ new.staller # p)
    BY <1>1, <2>1 DEF Walks
  <2> HIDE DEF new
  <2> QED BY <1>1, <1>3, <2>2 DEF WalkOK, new
<1>8. CASE b \notin failed /\ b \notin data /\ inFlight[b] = None /\ ~(Height[b] > w)
  <2>1. new = [acc EXCEPT !.vBlocks = Append(@, b), !.done = Len(acc.vBlocks) + 1 = count]
    BY <1>8 DEF Visit
  <2> DEFINE bs == Append(acc.vBlocks, b)
  <2>2. acc.vBlocks \in Seq(Blocks)
    BY <1>1 DEF Walks
  <2>3. /\ bs \in Seq(Blocks) /\ Len(bs) = Len(acc.vBlocks) + 1
        /\ \A i \in 1..Len(acc.vBlocks) : bs[i] = acc.vBlocks[i]
        /\ bs[Len(acc.vBlocks) + 1] = b
    BY <2>2
  <2>4. /\ new \in Walks /\ new.common = acc.common /\ new.vBlocks = bs
        /\ new.waitingfor = acc.waitingfor /\ new.staller = acc.staller
        /\ new.done <=> Len(acc.vBlocks) + 1 = count
    BY <1>1, <2>1, <2>3 DEF Walks
  <2> HIDE DEF new, bs
  <2>5. \A i \in 1..Len(bs) :
          /\ i \in 1..Len(acc.vBlocks) \/ i = Len(acc.vBlocks) + 1
          /\ Height[bs[i]] <= h + 1 /\ inFlight[bs[i]] = None
    BY <1>1, <1>3, <1>8, <2>2, <2>3 DEF Askable
  <2>6. \A i \in 1..Len(acc.vBlocks) : acc.vBlocks[i] # b
    BY <1>1, <1>2, <2>2
  <2>7. \A i, j \in 1..Len(bs) : bs[i] = bs[j] => i = j
    BY <1>1, <2>3, <2>5, <2>6 DEF Askable
  <2>8. Len(acc.vBlocks) \in Nat
    BY <2>2
  <2>9. Askable(bs, count)
    BY <1>1, <2>3, <2>5, <2>7, <2>8 DEF Askable
  <2>10. ~new.done => Len(bs) < count
    BY <1>1, <2>3, <2>4, <2>8
  <2> QED BY <1>1, <2>4, <2>5, <2>9, <2>10 DEF WalkOK, new
<1> QED BY <1>4, <1>5, <1>6, <1>7, <1>8

\* The walk (main.cpp 513-563), by induction on the height it has reached.
LEMMA WalkToOK ==
    ASSUME inFlight \in [Blocks -> Peers \cup {None}],
           NEW p, NEW count \in Nat \ {0}, NEW common \in Blocks, NEW best \in Blocks,
           Linked(common), Height[common] < Height[best]
    PROVE  \E h \in Nat : WalkOK(p, count, h, WalkTo(p, count, common, best))
<1> DEFINE w == Height[common] + BLOCK_DOWNLOAD_WINDOW
           lo == Height[common]
           hi == MinOf(Height[best], w + 1)
           start == [common |-> common, vBlocks |-> <<>>, waitingfor |-> None, staller |-> None,
                     done |-> FALSE]
           G(x, h) == IF x.done THEN x ELSE Visit(p, count, w, x, AtHeight(best, h))
           Body(f, h) == IF h = lo THEN start
                         ELSE IF f[h - 1].done THEN f[h - 1]
                         ELSE Visit(p, count, w, f[h - 1], AtHeight(best, h))
           Walk == CHOOSE f : f = [h \in lo..hi |-> Body(f, h)]
           Def == {n \in lo..hi : \E f : f = [h \in lo..n |-> Body(f, h)]}
           Fine == {n \in lo..hi : WalkOK(p, count, n, Walk[n])}
<1>1. lo \in Nat /\ hi \in Nat /\ w \in Nat /\ lo <= hi /\ hi <= Height[best] /\ Height[best] \in Nat
  BY BlockDownloadAssumption DEF MinOf
<1>2. \A f, h : Body(f, h) = IF h = lo THEN start ELSE G(f[h - 1], h)
  OBVIOUS
<1>3. WalkOK(p, count, lo, start)
  <2>1. <<>> \in Seq(Blocks) /\ Len(<<>>) = 0
    OBVIOUS
  <2>2. /\ start \in Walks /\ start.common = common /\ start.vBlocks = <<>> /\ ~start.done
        /\ start.waitingfor = None /\ start.staller = None
    BY <2>1 DEF Walks
  <2>3. Askable(<<>>, count)
    BY <2>1 DEF Askable
  <2> HIDE DEF start
  <2> QED BY <2>1, <2>2, <2>3 DEF WalkOK
<1> HIDE DEF start, lo, hi, w, G
<1>4. hi \in Def
  <2>1. lo \in Def
    <3> DEFINE f == [h \in lo..lo |-> start]
    <3>1. \A h \in lo..lo : h = lo
      BY <1>1
    <3>2. \A h \in lo..lo : Body(f, h) = start
      BY <3>1
    <3>3. f = [h \in lo..lo |-> Body(f, h)]
      <4> HIDE DEF Body
      <4> QED BY <3>2
    <3> HIDE DEF f, Body
    <3> QED BY <1>1, <3>3
  <2>2. ASSUME NEW n \in lo..hi, n \in Def, n < hi PROVE n + 1 \in Def
    <3>1. PICK f : f = [h \in lo..n |-> Body(f, h)]
      <4> HIDE DEF Body
      <4> QED BY <2>2
    <3> DEFINE g == [h \in lo..(n + 1) |-> IF h = n + 1 THEN G(f[n], n + 1) ELSE f[h]]
    <3>2. n \in Nat /\ n + 1 \in lo..hi /\ lo <= n
      BY <1>1, <2>2
    <3>3. \A h \in lo..n : f[h] = IF h = lo THEN start ELSE G(f[h - 1], h)
      <4>1. \A h \in lo..n : f[h] = Body(f, h)
        <5> HIDE DEF Body
        <5> QED BY <3>1
      <4> HIDE DEF Body
      <4> QED BY <1>2, <4>1
    <3>4. \A h \in lo..(n + 1) : g[h] = IF h = lo THEN start ELSE G(g[h - 1], h)
      <4> SUFFICES ASSUME NEW h \in lo..(n + 1)
                   PROVE  g[h] = IF h = lo THEN start ELSE G(g[h - 1], h)
        OBVIOUS
      <4>1. CASE h = n + 1
        <5>1. n \in lo..(n + 1) /\ n # n + 1 /\ h # lo /\ h - 1 = n
          BY <1>1, <3>2, <4>1
        <5> QED BY <4>1, <5>1
      <4>2. CASE h # n + 1 /\ h = lo
        <5>1. h \in lo..n
          BY <1>1, <3>2, <4>2
        <5> QED BY <3>3, <4>2, <5>1
      <4>3. CASE h # n + 1 /\ h # lo
        <5>1. h \in lo..n /\ h - 1 \in lo..(n + 1) /\ h - 1 # n + 1
          BY <1>1, <3>2, <4>3
        <5> QED BY <3>3, <4>3, <5>1
      <4> QED BY <4>1, <4>2, <4>3
    <3>5. g = [h \in lo..(n + 1) |-> Body(g, h)]
      <4>1. \A h \in lo..(n + 1) : g[h] = Body(g, h)
        <5> HIDE DEF Body, g
        <5> QED BY <1>2, <3>4
      <4>2. g = [h \in lo..(n + 1) |-> g[h]]
        OBVIOUS
      <4> HIDE DEF Body, g
      <4> QED BY <4>1, <4>2
    <3> HIDE DEF Body, g
    <3> QED BY <3>2, <3>5
  <2> HIDE DEF Def
  <2>3. lo..hi \subseteq Def
    BY <1>1, <2>1, <2>2, Upwards
  <2> QED BY <1>1, <2>3
<1>5. Walk = [h \in lo..hi |-> Body(Walk, h)]
  <2> HIDE DEF Body
  <2> QED BY <1>4
<1>6. \A h \in lo..hi : Walk[h] = IF h = lo THEN start ELSE G(Walk[h - 1], h)
  <2> HIDE DEF Walk
  <2>1. \A h \in lo..hi : Walk[h] = Body(Walk, h)
    <3> HIDE DEF Body
    <3> QED BY <1>5
  <2> HIDE DEF Body
  <2> QED BY <1>2, <2>1
<1> HIDE DEF Walk
<1>7. lo..hi \subseteq Fine
  <2>1. lo \in Fine
    BY <1>1, <1>3, <1>6
  <2>2. ASSUME NEW n \in lo..hi, n \in Fine, n < hi PROVE n + 1 \in Fine
    <3>1. n \in Nat /\ n + 1 \in lo..hi /\ n + 1 # lo /\ n + 1 - 1 = n /\ n + 1 \in 0..Height[best]
      BY <1>1, <2>2
    <3>2. Walk[n + 1] = G(Walk[n], n + 1) /\ WalkOK(p, count, n, Walk[n])
      BY <1>6, <2>2, <3>1
    <3>3. CASE Walk[n].done
      <4>1. Walk[n + 1] = Walk[n]
        BY <3>2, <3>3 DEF G
      <4>2. Walk[n].vBlocks \in Seq(Blocks) /\ \A b \in Blocks : Height[b] \in Nat
        BY <3>2, BlockDownloadAssumption DEF WalkOK, Walks
      <4>3. \A i \in 1..Len(Walk[n].vBlocks) : Height[Walk[n].vBlocks[i]] <= n + 1
        BY <3>1, <3>2, <4>2 DEF WalkOK
      <4>4. WalkOK(p, count, n + 1, Walk[n])
        BY <3>2, <4>3 DEF WalkOK
      <4> QED BY <3>1, <4>1, <4>4
    <3>4. CASE ~Walk[n].done
      <4>1. Walk[n + 1] = Visit(p, count, w, Walk[n], AtHeight(best, n + 1))
        BY <3>2, <3>4 DEF G
      <4>2. AtHeight(best, n + 1) \in Blocks /\ Height[AtHeight(best, n + 1)] = n + 1
        BY <3>1, AtHeightFacts, BlockDownloadAssumption
      <4>3. WalkOK(p, count, n + 1, Walk[n + 1])
        BY <1>1, <3>1, <3>2, <3>4, <4>1, <4>2, VisitOK
      <4> QED BY <3>1, <4>3
    <3> QED BY <3>3, <3>4
  <2> HIDE DEF Fine
  <2> QED BY <1>1, <2>1, <2>2, Upwards
<1>8. WalkOK(p, count, hi, Walk[hi])
  BY <1>1, <1>7
<1>9. WalkTo(p, count, common, best) = Walk[hi]
  BY DEF WalkTo, Walk, hi, lo, w, start
<1> QED BY <1>1, <1>8, <1>9

\* Two states of a peer that differ only in what blocks it has.
SameRequests(n, m) ==
    /\ n.greeted = m.greeted /\ n.fClient = m.fClient /\ n.fDisconnect = m.fDisconnect
    /\ n.fPreferredDownload = m.fPreferredDownload /\ n.fSyncStarted = m.fSyncStarted
    /\ n.vBlocksInFlight = m.vBlocksInFlight /\ n.nBlocksInFlight = m.nBlocksInFlight
    /\ n.nStallingSince = m.nStallingSince

CommonOK(n) == n.pindexLastCommonBlock # None => Linked(n.pindexLastCommonBlock)

\* UpdateBlockAvailability and ProcessBlockAvailability (main.cpp 428-460)
\* touch the blocks a peer has, and not the common block.
LEMMA AvailabilityFacts ==
    ASSUME NEW n \in NodeStates, NEW idx \in SUBSET Blocks, NEW b \in Blocks
    PROVE  /\ Announced(n, b) \in NodeStates
           /\ SameRequests(Announced(n, b), n)
           /\ Announced(n, b).pindexLastCommonBlock = n.pindexLastCommonBlock
           /\ ProcessBlockAvailability(n, idx) \in NodeStates
           /\ SameRequests(ProcessBlockAvailability(n, idx), n)
           /\ ProcessBlockAvailability(n, idx).pindexLastCommonBlock = n.pindexLastCommonBlock
           /\ UpdateBlockAvailability(n, idx, b) \in NodeStates
           /\ SameRequests(UpdateBlockAvailability(n, idx, b), n)
           /\ UpdateBlockAvailability(n, idx, b).pindexLastCommonBlock = n.pindexLastCommonBlock
<1> DEFINE OK(m, k) == /\ m \in NodeStates /\ SameRequests(m, k)
                       /\ m.pindexLastCommonBlock = k.pindexLastCommonBlock
<1>1. ASSUME NEW k \in NodeStates, NEW c \in Blocks PROVE OK(Announced(k, c), k)
  BY DEF Announced, NodeStates, SameRequests
<1>2. ASSUME NEW k \in NodeStates, NEW c \in Blocks \cup {None}
      PROVE  OK([k EXCEPT !.hashLastUnknownBlock = c], k)
  BY DEF NodeStates, SameRequests
<1>3. ASSUME NEW k \in NodeStates, NEW l \in NodeStates, NEW m, OK(l, k), OK(m, l) PROVE OK(m, k)
  BY <1>3 DEF SameRequests
<1>4. OK(n, n)
  BY DEF SameRequests
<1> HIDE DEF OK
<1>5. OK(ProcessBlockAvailability(n, idx), n)
  <2>1. CASE n.hashLastUnknownBlock \in idx
    <3>1. n.hashLastUnknownBlock \in Blocks
      BY <2>1
    <3>2. OK(Announced(n, n.hashLastUnknownBlock), n)
      BY <1>1, <3>1
    <3>3. Announced(n, n.hashLastUnknownBlock) \in NodeStates
      BY <3>2 DEF OK
    <3> QED BY <1>2, <1>3, <2>1, <3>2, <3>3 DEF ProcessBlockAvailability
  <2>2. CASE n.hashLastUnknownBlock \notin idx
    BY <1>4, <2>2 DEF ProcessBlockAvailability
  <2> QED BY <2>1, <2>2
<1>6. ProcessBlockAvailability(n, idx) \in NodeStates
  BY <1>5 DEF OK
<1>7. OK(UpdateBlockAvailability(n, idx, b), n)
  BY <1>1, <1>2, <1>3, <1>5, <1>6 DEF UpdateBlockAvailability
<1> QED BY <1>1, <1>5, <1>7 DEF OK

\* What FindNextBlocksToDownload (main.cpp 484-564) finds.
LEMMA Found ==
    ASSUME inFlight \in [Blocks -> Peers \cup {None}], index \subseteq Blocks,
           tip \in Blocks, Linked(tip),
           NEW p, NEW n0 \in NodeStates, CommonOK(n0), NEW count \in Nat \ {0}
    PROVE  LET found == FindNextBlocksToDownload(p, n0, count)
           IN  /\ found.node \in NodeStates /\ SameRequests(found.node, n0) /\ CommonOK(found.node)
               /\ Askable(found.vBlocks, count)
               /\ found.staller # None => found.staller # p /\ Owes(found.staller)
<1> DEFINE n == ProcessBlockAvailability(n0, index)
           best == n.pindexBestKnownBlock
           guess == IF n.pindexLastCommonBlock = None
                    THEN AtHeight(tip, MinOf(Height[best], Height[tip]))
                    ELSE n.pindexLastCommonBlock
           common == LastCommonAncestor(guess, best)
           end == WalkTo(p, count, common, best)
           found == FindNextBlocksToDownload(p, n0, count)
<1>1. /\ n \in NodeStates /\ SameRequests(n, n0)
      /\ n.pindexLastCommonBlock = n0.pindexLastCommonBlock
  BY AvailabilityFacts, BlockDownloadAssumption
<1>2. CommonOK(n)
  BY <1>1 DEF CommonOK
<1>3. Askable(<<>>, count)
  BY DEF Askable
<1> HIDE DEF n
<1>4. CASE best = None \/ Height[best] < Height[tip]
  <2>1. found = [node |-> n, vBlocks |-> <<>>, staller |-> None]
    BY <1>4 DEF FindNextBlocksToDownload, n
  <2> QED BY <1>1, <1>2, <1>3, <2>1
<1>5. CASE best # None /\ ~(Height[best] < Height[tip])
  <2>1. best \in Blocks /\ Height[best] \in Nat /\ Height[tip] \in Nat
    BY <1>1, <1>5, BlockDownloadAssumption DEF NodeStates
  <2>2. guess \in Blocks /\ Linked(guess)
    <3>1. CASE n.pindexLastCommonBlock = None
      <4>1. MinOf(Height[best], Height[tip]) \in 0..Height[tip]
        BY <2>1 DEF MinOf
      <4>2. guess \in Anc[tip]
        BY <3>1, <4>1, AtHeightFacts
      <4> QED BY <4>2, BlockDownloadAssumption DEF Linked
    <3>2. CASE n.pindexLastCommonBlock # None
      BY <1>1, <1>2, <3>2 DEF CommonOK, NodeStates
    <3> QED BY <3>1, <3>2
  <2> HIDE DEF best, guess
  <2>3. common \in Anc[guess] /\ common \in Anc[best]
    BY <2>1, <2>2, CommonAncestor
  <2>4. common \in Blocks /\ Linked(common)
    BY <2>1, <2>2, <2>3, BlockDownloadAssumption DEF Linked
  <2> HIDE DEF common
  <2>5. ASSUME NEW c \in Blocks, Linked(c)
        PROVE  LET m == [n EXCEPT !.pindexLastCommonBlock = c]
               IN  m \in NodeStates /\ SameRequests(m, n0) /\ CommonOK(m)
    BY <1>1, <2>5 DEF NodeStates, SameRequests, CommonOK
  <2>6. CASE common = best
    <3>1. found = [node |-> [n EXCEPT !.pindexLastCommonBlock = common],
                   vBlocks |-> <<>>, staller |-> None]
      BY <1>5, <2>6 DEF FindNextBlocksToDownload, n, best, guess, common
    <3> QED BY <1>3, <2>4, <2>5, <3>1
  <2>7. CASE common # best
    <3>1. found = [node |-> [n EXCEPT !.pindexLastCommonBlock = end.common],
                   vBlocks |-> end.vBlocks, staller |-> end.staller]
      BY <1>5, <2>7 DEF FindNextBlocksToDownload, n, best, guess, common
    <3>2. Height[common] < Height[best]
      BY <2>1, <2>3, <2>7, BlockDownloadAssumption
    <3> HIDE DEF found
    <3>3. PICK h \in Nat : WalkOK(p, count, h, end)
      BY <2>1, <2>4, <3>2, WalkToOK
    <3> HIDE DEF end
    <3>4. /\ end.common \in Blocks /\ Linked(end.common)
          /\ Askable(end.vBlocks, count)
          /\ end.staller # None => end.staller # p /\ Owes(end.staller)
      BY <3>3 DEF WalkOK, Walks
    <3>5. /\ found.node = [n EXCEPT !.pindexLastCommonBlock = end.common]
          /\ found.vBlocks = end.vBlocks /\ found.staller = end.staller
      BY <3>1
    <3> QED BY <2>5, <3>4, <3>5 DEF found
  <2> QED BY <2>6, <2>7
<1> QED BY <1>4, <1>5

-----------------------------------------------------------------------------
(* The inductive invariant *)

Types ==
    /\ index \subseteq Blocks /\ data \subseteq index /\ failed \subseteq index
    /\ tip \in data
    /\ nodes \in [Peers -> NodeStates \cup {None}]
    /\ inFlight \in [Blocks -> Peers \cup {None}]
    /\ nQueuedValidatedHeaders \in Nat /\ nSyncStarted \in Nat /\ nPreferredDownload \in Nat
    /\ sessions \in 0..MaxSessions

\* The queue of peer p, in state n, holds blocks asked of p, each once, and is
\* not empty while p is suspected of stalling.
QueueOK(n, p) ==
    /\ n.nBlocksInFlight = Len(n.vBlocksInFlight)
    /\ \A i \in 1..Len(n.vBlocksInFlight) : inFlight[n.vBlocksInFlight[i].hash] = p
    /\ \A i, j \in 1..Len(n.vBlocksInFlight) :
          n.vBlocksInFlight[i].hash = n.vBlocksInFlight[j].hash => i = j
    /\ n.nStallingSince # 0 => n.vBlocksInFlight # <<>>

InQueue(n, b) == \E i \in 1..Len(n.vBlocksInFlight) : n.vBlocksInFlight[i].hash = b

Queues ==
    /\ \A p \in Peers : nodes[p] # None => QueueOK(nodes[p], p)
    /\ \A b \in Blocks : inFlight[b] # None =>
          nodes[inFlight[b]] # None /\ InQueue(nodes[inFlight[b]], b)

Commons == \A p \in Peers : nodes[p] # None => CommonOK(nodes[p])

\* The version message decides once whether a peer is preferred.
Greetings ==
    \A p \in Peers : nodes[p] # None /\ nodes[p].fPreferredDownload => nodes[p].greeted

Syncing == {p \in Peers : nodes[p] # None /\ nodes[p].fSyncStarted}
Preferred == {p \in Peers : nodes[p] # None /\ nodes[p].fPreferredDownload}
Asked == {b \in Blocks : inFlight[b] # None}

Counters ==
    /\ nSyncStarted = Cardinality(Syncing)
    /\ nPreferredDownload = Cardinality(Preferred)
    /\ nQueuedValidatedHeaders >= Cardinality(Asked)

IndInv == Types /\ Linked(tip) /\ Queues /\ Commons /\ Greetings /\ Counters

LEMMA Finite ==
    /\ \A S \in SUBSET Peers : IsFiniteSet(S) /\ Cardinality(S) \in Nat
    /\ \A S \in SUBSET Blocks : IsFiniteSet(S) /\ Cardinality(S) \in Nat
<1> QED BY BlockDownloadAssumption, FS_Subset, FS_CardinalityType

LEMMA InitInv == Init => IndInv
<1> SUFFICES ASSUME Init PROVE IndInv
  OBVIOUS
<1>1. Types
  BY BlockDownloadAssumption DEF Init, Types
<1>2. Linked(tip)
  <2>1. ASSUME NEW a \in Anc[Genesis], a # Genesis PROVE FALSE
    <3>1. a \in Blocks /\ Height[a] \in Nat /\ Height[a] < Height[Genesis] /\ Genesis \in Anc[a]
      BY <2>1, BlockDownloadAssumption
    <3>2. Height[Genesis] < Height[a] /\ Height[Genesis] \in Nat
      BY <2>1, <3>1, BlockDownloadAssumption
    <3> QED BY <3>1, <3>2
  <2> QED BY <2>1 DEF Init, Linked
<1>3. Queues /\ Commons /\ Greetings
  BY DEF Init, Queues, Commons, Greetings
<1>4. Syncing = {} /\ Preferred = {} /\ Asked = {}
  BY DEF Init, Syncing, Preferred, Asked
<1>5. Counters
  BY <1>4, FS_EmptySet DEF Init, Counters
<1> QED BY <1>1, <1>2, <1>3, <1>5 DEF IndInv

\* Two states of a peer with the same blocks in flight.
SameQueue(n, m) ==
    /\ n.nBlocksInFlight = m.nBlocksInFlight
    /\ Len(n.vBlocksInFlight) = Len(m.vBlocksInFlight)
    /\ \A i \in 1..Len(m.vBlocksInFlight) : n.vBlocksInFlight[i].hash = m.vBlocksInFlight[i].hash
    /\ n.nStallingSince # 0 => m.nStallingSince # 0

LEMMA QueueFacts ==
    ASSUME NEW n \in NodeStates
    PROVE  /\ Len(n.vBlocksInFlight) \in Nat
           /\ n.vBlocksInFlight = <<>> <=> Len(n.vBlocksInFlight) = 0
           /\ \A i \in 1..Len(n.vBlocksInFlight) : n.vBlocksInFlight[i].hash \in Blocks
<1>1. n.vBlocksInFlight \in Seq(QueuedBlock)
  BY DEF NodeStates
<1>2. \A e \in QueuedBlock : e.hash \in Blocks
  BY DEF QueuedBlock
<1>3. \A i \in 1..Len(n.vBlocksInFlight) : n.vBlocksInFlight[i] \in QueuedBlock
  BY <1>1
<1>4. \A i \in 1..Len(n.vBlocksInFlight) : n.vBlocksInFlight[i].hash \in Blocks
  BY <1>2, <1>3
<1> QED BY <1>1, <1>4

\* A step that asks for nothing, answers nothing and loses no peer.
LEMMA QueuesKept ==
    ASSUME Types, Types', Queues, inFlight' = inFlight,
           \A q \in Peers : /\ nodes'[q] = None <=> nodes[q] = None
                            /\ nodes[q] # None => SameQueue(nodes'[q], nodes[q])
    PROVE  Queues'
<1>1. ASSUME NEW q \in Peers, nodes'[q] # None PROVE QueueOK(nodes[q], q)'
  <2> DEFINE m == nodes[q]
             n == nodes'[q]
  <2>1. QueueOK(m, q) /\ SameQueue(n, m) /\ m \in NodeStates /\ n \in NodeStates
    BY <1>1 DEF Queues, Types
  <2> HIDE DEF m, n
  <2>2. /\ Len(n.vBlocksInFlight) = Len(m.vBlocksInFlight)
        /\ n.vBlocksInFlight = <<>> <=> m.vBlocksInFlight = <<>>
    BY <2>1, QueueFacts DEF SameQueue
  <2>3. /\ n.nBlocksInFlight = Len(n.vBlocksInFlight)
        /\ \A i \in 1..Len(n.vBlocksInFlight) : inFlight[n.vBlocksInFlight[i].hash] = q
        /\ \A i, j \in 1..Len(n.vBlocksInFlight) :
              n.vBlocksInFlight[i].hash = n.vBlocksInFlight[j].hash => i = j
        /\ n.nStallingSince # 0 => n.vBlocksInFlight # <<>>
    BY <2>1, <2>2 DEF QueueOK, SameQueue
  <2> QED BY <2>3 DEF QueueOK, n
<1>2. ASSUME NEW b \in Blocks, inFlight'[b] # None
      PROVE  nodes'[inFlight'[b]] # None /\ InQueue(nodes'[inFlight'[b]], b)
  <2>1. inFlight[b] \in Peers /\ nodes[inFlight[b]] # None /\ InQueue(nodes[inFlight[b]], b)
    BY <1>2 DEF Queues, Types
  <2> DEFINE q == inFlight[b]
  <2>2. inFlight'[b] = q /\ q \in Peers /\ nodes'[q] # None /\ SameQueue(nodes'[q], nodes[q])
    BY <2>1
  <2> HIDE DEF q
  <2>3. PICK i \in 1..Len(nodes[q].vBlocksInFlight) : nodes[q].vBlocksInFlight[i].hash = b
    BY <2>1 DEF InQueue, q
  <2> QED BY <2>2, <2>3 DEF InQueue, SameQueue
<1> QED BY <1>1, <1>2 DEF Queues, InQueue

LEMMA FlagsKept ==
    ASSUME \A q \in Peers :
              /\ nodes'[q] = None <=> nodes[q] = None
              /\ nodes[q] # None => /\ nodes'[q].fSyncStarted = nodes[q].fSyncStarted
                                    /\ nodes'[q].fPreferredDownload = nodes[q].fPreferredDownload
    PROVE  Syncing' = Syncing /\ Preferred' = Preferred
<1> QED BY DEF Syncing, Preferred

\* A step that only changes what blocks peers have, how old things are, and
\* their greeting.
LEMMA NodesKept ==
    ASSUME IndInv, nodes' \in [Peers -> NodeStates \cup {None}],
           UNCHANGED <<tree, inFlight, nQueuedValidatedHeaders, nSyncStarted, nPreferredDownload,
                       sessions>>,
           \A q \in Peers :
              /\ nodes'[q] = None <=> nodes[q] = None
              /\ nodes[q] # None => /\ SameQueue(nodes'[q], nodes[q])
                                    /\ nodes'[q].pindexLastCommonBlock = nodes[q].pindexLastCommonBlock
                                    /\ nodes'[q].fSyncStarted = nodes[q].fSyncStarted
                                    /\ nodes'[q].fPreferredDownload = nodes[q].fPreferredDownload
                                    /\ nodes'[q].greeted = nodes[q].greeted
    PROVE  IndInv'
<1>1. Types' /\ Linked(tip)'
  BY DEF IndInv, Types, tree, Linked
<1>2. Queues'
  BY <1>1, QueuesKept DEF IndInv
<1>3. Commons' /\ Greetings'
  BY DEF IndInv, Commons, Greetings, CommonOK, Linked, tree
<1>4. Counters'
  <2>1. Syncing' = Syncing /\ Preferred' = Preferred /\ Asked' = Asked
    BY FlagsKept DEF Asked
  <2> QED BY <2>1 DEF IndInv, Counters
<1> QED BY <1>1, <1>2, <1>3, <1>4 DEF IndInv

-----------------------------------------------------------------------------
(* The actions *)

LEMMA InitializeNodeInv ==
    ASSUME IndInv, NEW p \in Peers, InitializeNode(p)
    PROVE  IndInv'
<1>1. /\ nodes[p] = None /\ sessions < MaxSessions
      /\ nodes' = [nodes EXCEPT ![p] = CNodeState]
      /\ sessions' = sessions + 1
      /\ UNCHANGED <<tree, inFlight, nQueuedValidatedHeaders, nSyncStarted, nPreferredDownload>>
  BY DEF InitializeNode
<1>2. /\ CNodeState \in NodeStates /\ CNodeState # None
      /\ ~CNodeState.fSyncStarted /\ ~CNodeState.fPreferredDownload
      /\ CNodeState.vBlocksInFlight = <<>> /\ CNodeState.nBlocksInFlight = 0
      /\ CNodeState.nStallingSince = 0 /\ CNodeState.pindexLastCommonBlock = None
  <2>1. CNodeState \in NodeStates
    BY BlockDownloadAssumption DEF CNodeState, NodeStates
  <2>2. CNodeState # None
    BY <2>1, BlockDownloadAssumption
  <2> QED BY <2>1, <2>2 DEF CNodeState
<1>3. nodes'[p] = CNodeState /\ \A q \in Peers \ {p} : nodes'[q] = nodes[q]
  BY <1>1 DEF IndInv, Types
<1>4. Types' /\ Linked(tip)'
  BY <1>1, <1>2, BlockDownloadAssumption DEF IndInv, Types, tree, Linked
<1>5. Queues'
  <2>1. QueueOK(nodes[p], p)'
    BY <1>2, <1>3 DEF QueueOK
  <2>2. ASSUME NEW q \in Peers \ {p}, nodes[q] # None PROVE QueueOK(nodes[q], q)'
    BY <1>1, <1>3, <2>2 DEF IndInv, Queues, QueueOK
  <2>3. ASSUME NEW b \in Blocks, inFlight'[b] # None
        PROVE  (nodes[inFlight[b]] # None /\ InQueue(nodes[inFlight[b]], b))'
    <3>1. /\ inFlight'[b] = inFlight[b] /\ inFlight[b] \in Peers \ {p}
          /\ nodes[inFlight[b]] # None /\ InQueue(nodes[inFlight[b]], b)
      BY <1>1, <2>3 DEF IndInv, Queues, Types
    <3>2. nodes'[inFlight'[b]] = nodes[inFlight[b]]
      BY <1>3, <3>1
    <3> QED BY <3>1, <3>2 DEF InQueue
  <2> QED BY <1>3, <2>1, <2>2, <2>3 DEF Queues
<1>6. Commons' /\ Greetings'
  BY <1>1, <1>2, <1>3 DEF IndInv, Commons, Greetings, CommonOK, Linked, tree
<1>7. Counters'
  <2>1. Syncing' = Syncing /\ Preferred' = Preferred /\ Asked' = Asked
    BY <1>1, <1>2, <1>3 DEF Syncing, Preferred, Asked
  <2> QED BY <1>1, <2>1 DEF IndInv, Counters
<1> QED BY <1>4, <1>5, <1>6, <1>7 DEF IndInv

LEMMA VersionInv ==
    ASSUME IndInv, NEW p \in Peers, NEW client \in BOOLEAN, NEW preferred \in BOOLEAN,
           Version(p, client, preferred)
    PROVE  IndInv'
<1> DEFINE n == [nodes[p] EXCEPT !.greeted = TRUE, !.fClient = client,
                                 !.fPreferredDownload = preferred]
<1>1. /\ nodes[p] # None /\ ~nodes[p].greeted
      /\ nodes' = [nodes EXCEPT ![p] = n]
      /\ nPreferredDownload' = nPreferredDownload + (IF preferred THEN 1 ELSE 0)
      /\ UNCHANGED <<tree, inFlight, nQueuedValidatedHeaders, nSyncStarted, sessions>>
  BY DEF Version, IndInv, Types
<1>2. nodes[p] \in NodeStates
  BY <1>1 DEF IndInv, Types
<1>3. /\ n \in NodeStates /\ n.greeted /\ n.fPreferredDownload = preferred
      /\ n.fSyncStarted = nodes[p].fSyncStarted
      /\ n.vBlocksInFlight = nodes[p].vBlocksInFlight
      /\ n.nBlocksInFlight = nodes[p].nBlocksInFlight
      /\ n.nStallingSince = nodes[p].nStallingSince
      /\ n.pindexLastCommonBlock = nodes[p].pindexLastCommonBlock
  BY <1>2 DEF NodeStates
<1>4. n # None
  BY <1>3, BlockDownloadAssumption
<1> HIDE DEF n
<1>5. nodes'[p] = n /\ \A q \in Peers \ {p} : nodes'[q] = nodes[q]
  BY <1>1 DEF IndInv, Types
<1>6. Types' /\ Linked(tip)'
  BY <1>1, <1>3 DEF IndInv, Types, tree, Linked
<1>7. \A q \in Peers : /\ nodes'[q] = None <=> nodes[q] = None
                       /\ nodes[q] # None => SameQueue(nodes'[q], nodes[q])
  BY <1>1, <1>3, <1>4, <1>5 DEF SameQueue
<1>8. Queues'
  BY <1>1, <1>6, <1>7, QueuesKept DEF IndInv
<1>9. Commons' /\ Greetings'
  BY <1>1, <1>3, <1>5 DEF IndInv, Commons, Greetings, CommonOK, Linked, tree
<1>10. Counters'
  <2>1. Syncing' = Syncing /\ Asked' = Asked
    BY <1>1, <1>3, <1>4, <1>5 DEF Syncing, Asked
  <2>2. p \notin Preferred
    BY <1>1 DEF IndInv, Greetings, Preferred
  <2>3. Preferred' = IF preferred THEN Preferred \cup {p} ELSE Preferred
    BY <1>1, <1>3, <1>4, <1>5, <2>2 DEF Preferred
  <2>4. IsFiniteSet(Preferred) /\ Cardinality(Preferred) \in Nat
    BY Finite DEF Preferred
  <2>5. Cardinality(Preferred \cup {p}) = Cardinality(Preferred) + 1
    BY <2>2, <2>4, FS_AddElement
  <2>6. nPreferredDownload' = Cardinality(Preferred)'
    BY <1>1, <2>3, <2>4, <2>5 DEF IndInv, Counters
  <2> QED BY <1>1, <2>1, <2>6 DEF IndInv, Counters
<1> QED BY <1>6, <1>8, <1>9, <1>10 DEF IndInv

LEMMA InvInv ==
    ASSUME IndInv, NEW p \in Peers, NEW b \in Blocks, Inv(p, b)
    PROVE  IndInv'
<1> DEFINE n == UpdateBlockAvailability(nodes[p], index, b)
<1>1. /\ nodes[p] # None
      /\ nodes' = [nodes EXCEPT ![p] = n]
      /\ UNCHANGED <<tree, inFlight, nQueuedValidatedHeaders, nSyncStarted, nPreferredDownload,
                     sessions>>
  BY DEF Inv
<1>2. /\ n \in NodeStates /\ SameRequests(n, nodes[p])
      /\ n.pindexLastCommonBlock = nodes[p].pindexLastCommonBlock
  BY <1>1, AvailabilityFacts DEF IndInv, Types
<1>3. n # None
  BY <1>2, BlockDownloadAssumption
<1> HIDE DEF n
<1>4. nodes'[p] = n /\ \A q \in Peers \ {p} : nodes'[q] = nodes[q]
  BY <1>1 DEF IndInv, Types
<1>5. nodes' \in [Peers -> NodeStates \cup {None}]
  BY <1>1, <1>2 DEF IndInv, Types
<1>6. \A q \in Peers :
         /\ nodes'[q] = None <=> nodes[q] = None
         /\ nodes[q] # None => /\ SameQueue(nodes'[q], nodes[q])
                               /\ nodes'[q].pindexLastCommonBlock = nodes[q].pindexLastCommonBlock
                               /\ nodes'[q].fSyncStarted = nodes[q].fSyncStarted
                               /\ nodes'[q].fPreferredDownload = nodes[q].fPreferredDownload
                               /\ nodes'[q].greeted = nodes[q].greeted
  BY <1>1, <1>2, <1>3, <1>4 DEF SameQueue, SameRequests
<1> QED BY <1>1, <1>5, <1>6, NodesKept

LEMMA TickInv ==
    ASSUME IndInv, Tick
    PROVE  IndInv'
<1>1. ASSUME NEW n \in NodeStates
      PROVE  /\ Older(n) \in NodeStates /\ SameQueue(Older(n), n)
             /\ Older(n).pindexLastCommonBlock = n.pindexLastCommonBlock
             /\ Older(n).fSyncStarted = n.fSyncStarted
             /\ Older(n).fPreferredDownload = n.fPreferredDownload
             /\ Older(n).greeted = n.greeted
  <2> DEFINE v == [i \in 1..Len(n.vBlocksInFlight) |-> Aged(n.vBlocksInFlight[i])]
             s == IF n.nStallingSince = 0 THEN 0
                  ELSE MinOf(n.nStallingSince + 1, BLOCK_STALLING_TIMEOUT + 2)
  <2>1. n.vBlocksInFlight \in Seq(QueuedBlock) /\ n.nStallingSince \in Nat
    BY DEF NodeStates
  <2>2. ASSUME NEW e \in QueuedBlock PROVE Aged(e) \in QueuedBlock /\ Aged(e).hash = e.hash
    <3>1. e.age \in Nat /\ e.nValidatedQueuedBefore \in Nat
      BY DEF QueuedBlock
    <3>2. HalfSpacing * (4 + e.nValidatedQueuedBefore) \in Nat
      BY <3>1, BlockDownloadAssumption
    <3>3. MinOf(e.age + 1, TimeLimit(e) + 1) \in Nat
      BY <3>1, <3>2 DEF MinOf, TimeLimit
    <3> QED BY <3>3 DEF Aged, QueuedBlock
  <2>3. /\ v \in Seq(QueuedBlock) /\ Len(v) = Len(n.vBlocksInFlight)
        /\ \A i \in 1..Len(v) : v[i].hash = n.vBlocksInFlight[i].hash
    BY <2>1, <2>2
  <2>4. s \in Nat /\ (s # 0 => n.nStallingSince # 0)
    BY <2>1, BlockDownloadAssumption DEF MinOf
  <2>5. Older(n) = [n EXCEPT !.vBlocksInFlight = v, !.nStallingSince = s]
    BY DEF Older
  <2> HIDE DEF v, s
  <2> QED BY <2>3, <2>4, <2>5 DEF NodeStates, SameQueue
<1>2. /\ nodes' = [p \in Peers |-> IF nodes[p] = None THEN None ELSE Older(nodes[p])]
      /\ UNCHANGED <<tree, inFlight, nQueuedValidatedHeaders, nSyncStarted, nPreferredDownload,
                     sessions>>
  BY DEF Tick
<1>3. \A q \in Peers : nodes[q] # None => nodes[q] \in NodeStates
  BY DEF IndInv, Types
<1>4. nodes' \in [Peers -> NodeStates \cup {None}]
  BY <1>1, <1>2, <1>3
<1>5. \A q \in Peers : nodes'[q] = None <=> nodes[q] = None
  BY <1>1, <1>2, <1>3, BlockDownloadAssumption
<1>6. \A q \in Peers : nodes[q] # None => nodes'[q] = Older(nodes[q])
  BY <1>2
<1> QED BY <1>1, <1>2, <1>3, <1>4, <1>5, <1>6, NodesKept

\* A peer that goes takes its requests with it, and no other peer's
\* (main.cpp 377-395).
LEMMA FinalizeNodeInv ==
    ASSUME IndInv, NEW p \in Peers, FinalizeNode(p)
    PROVE  IndInv'
<1>1. /\ nodes[p] # None
      /\ nSyncStarted' = nSyncStarted - (IF nodes[p].fSyncStarted THEN 1 ELSE 0)
      /\ nPreferredDownload' = nPreferredDownload - (IF nodes[p].fPreferredDownload THEN 1 ELSE 0)
      /\ inFlight' = [b \in Blocks |-> IF InQueue(nodes[p], b) THEN None ELSE inFlight[b]]
      /\ nodes' = [nodes EXCEPT ![p] = None]
      /\ UNCHANGED <<tree, nQueuedValidatedHeaders, sessions>>
  BY DEF FinalizeNode, InQueue
<1>2. nodes'[p] = None /\ \A q \in Peers \ {p} : nodes'[q] = nodes[q]
  BY <1>1 DEF IndInv, Types
<1>3. \A b \in Blocks : inFlight'[b] = IF inFlight[b] = p THEN None ELSE inFlight[b]
  <2> SUFFICES ASSUME NEW b \in Blocks PROVE InQueue(nodes[p], b) <=> inFlight[b] = p
    BY <1>1
  <2>1. QueueOK(nodes[p], p) /\ p # None
    BY <1>1, BlockDownloadAssumption DEF IndInv, Queues
  <2> QED BY <2>1 DEF IndInv, Queues, QueueOK, InQueue
<1>4. inFlight' \in [Blocks -> Peers \cup {None}]
  BY <1>1 DEF IndInv, Types
<1>5. Queues'
  <2>1. ASSUME NEW q \in Peers, nodes'[q] # None PROVE QueueOK(nodes[q], q)'
    <3>1. q # p /\ nodes'[q] = nodes[q] /\ QueueOK(nodes[q], q) /\ nodes[q] \in NodeStates
      BY <1>2, <2>1 DEF IndInv, Queues, Types
    <3>2. \A i \in 1..Len(nodes[q].vBlocksInFlight) : nodes[q].vBlocksInFlight[i].hash \in Blocks
      BY <3>1, QueueFacts
    <3>3. \A i \in 1..Len(nodes[q].vBlocksInFlight) :
             inFlight'[nodes[q].vBlocksInFlight[i].hash] = q
      BY <1>3, <3>1, <3>2 DEF QueueOK
    <3> QED BY <3>1, <3>3 DEF QueueOK
  <2>2. ASSUME NEW b \in Blocks, inFlight'[b] # None
        PROVE  (nodes[inFlight[b]] # None /\ InQueue(nodes[inFlight[b]], b))'
    <3>1. inFlight'[b] = inFlight[b] /\ inFlight[b] \in Peers \ {p}
      BY <1>3, <2>2 DEF IndInv, Types
    <3>2. nodes'[inFlight'[b]] = nodes[inFlight[b]]
      BY <1>2, <3>1
    <3> QED BY <2>2, <3>1, <3>2 DEF IndInv, Queues, InQueue
  <2> QED BY <2>1, <2>2 DEF Queues
<1>6. Commons' /\ Greetings' /\ Linked(tip)'
  BY <1>1, <1>2 DEF IndInv, Commons, Greetings, CommonOK, Linked, tree
<1>7. /\ Syncing' = Syncing \ {p} /\ (p \in Syncing <=> nodes[p].fSyncStarted)
      /\ Preferred' = Preferred \ {p} /\ (p \in Preferred <=> nodes[p].fPreferredDownload)
      /\ Asked' \subseteq Asked
  BY <1>1, <1>2, <1>3 DEF Syncing, Preferred, Asked
<1>8. ASSUME NEW S \in SUBSET Peers
      PROVE  /\ Cardinality(S) \in Nat /\ Cardinality(S \ {p}) \in Nat
             /\ Cardinality(S \ {p}) = Cardinality(S) - (IF p \in S THEN 1 ELSE 0)
  BY Finite, FS_RemoveElement
<1>9. /\ nSyncStarted' \in Nat /\ nSyncStarted' = Cardinality(Syncing)'
      /\ nPreferredDownload' \in Nat /\ nPreferredDownload' = Cardinality(Preferred)'
  <2>1. Syncing \in SUBSET Peers /\ Preferred \in SUBSET Peers
    BY DEF Syncing, Preferred
  <2>2. nSyncStarted = Cardinality(Syncing) /\ nPreferredDownload = Cardinality(Preferred)
    BY DEF IndInv, Counters
  <2> QED BY <1>1, <1>7, <1>8, <2>1, <2>2
<1>10. Cardinality(Asked)' <= Cardinality(Asked)
  <2>1. IsFiniteSet(Asked)
    BY Finite DEF Asked
  <2> QED BY <1>7, <2>1, FS_Subset
<1>11. nQueuedValidatedHeaders' >= Cardinality(Asked)'
  <2>1. /\ Cardinality(Asked) \in Nat /\ Cardinality(Asked)' \in Nat
        /\ nQueuedValidatedHeaders \in Nat /\ nQueuedValidatedHeaders' = nQueuedValidatedHeaders
        /\ nQueuedValidatedHeaders >= Cardinality(Asked)
    BY <1>1, Finite DEF Asked, IndInv, Types, Counters
  <2> QED BY <1>10, <2>1
<1>12. Types'
  BY <1>1, <1>4, <1>9 DEF IndInv, Types, tree
<1> QED BY <1>5, <1>6, <1>9, <1>11, <1>12 DEF IndInv, Counters

\* The entry of a block leaves the list and nothing else does.
LEMMA WithoutFacts ==
    ASSUME NEW s \in Seq(QueuedBlock), NEW b,
           \E i \in 1..Len(s) : s[i].hash = b,
           \A i, j \in 1..Len(s) : s[i].hash = s[j].hash => i = j
    PROVE  /\ Without(s, b) \in Seq(QueuedBlock) /\ Len(Without(s, b)) = Len(s) - 1
           /\ \A i \in 1..Len(s) - 1 : /\ Without(s, b)[i].hash # b
                                       /\ \E j \in 1..Len(s) : Without(s, b)[i] = s[j]
           /\ \A i, j \in 1..Len(s) - 1 : Without(s, b)[i].hash = Without(s, b)[j].hash => i = j
           /\ \A j \in 1..Len(s) : s[j].hash # b => \E i \in 1..Len(s) - 1 : Without(s, b)[i] = s[j]
<1> DEFINE at == CHOOSE i \in DOMAIN s : s[i].hash = b
           old(i) == IF i < at THEN i ELSE i + 1
           r == [i \in 1..Len(s) - 1 |-> s[old(i)]]
<1>1. DOMAIN s = 1..Len(s) /\ Len(s) \in Nat
  OBVIOUS
<1>2. at \in 1..Len(s) /\ s[at].hash = b
  BY <1>1
<1>3. Without(s, b) = r
  BY DEF Without
<1> HIDE DEF at
<1>4. \A i \in 1..Len(s) - 1 : old(i) \in 1..Len(s) /\ old(i) # at /\ r[i] = s[old(i)]
  BY <1>1, <1>2
<1>5. \A i, j \in 1..Len(s) - 1 : old(i) = old(j) => i = j
  BY <1>1, <1>2
<1>6. \A j \in 1..Len(s) : j # at => \E i \in 1..Len(s) - 1 : old(i) = j
  <2> SUFFICES ASSUME NEW j \in 1..Len(s), j # at PROVE \E i \in 1..Len(s) - 1 : old(i) = j
    OBVIOUS
  <2>1. CASE j < at
    <3>1. j \in 1..Len(s) - 1 /\ old(j) = j
      BY <1>1, <1>2, <2>1
    <3> QED BY <3>1
  <2>2. CASE ~(j < at)
    <3>1. j - 1 \in 1..Len(s) - 1 /\ old(j - 1) = j
      BY <1>1, <1>2, <2>2
    <3> QED BY <3>1
  <2> QED BY <2>1, <2>2
<1>7. r \in Seq(QueuedBlock) /\ Len(r) = Len(s) - 1
  <2>1. \A i \in 1..Len(s) - 1 : r[i] \in QueuedBlock
    BY <1>1, <1>4
  <2>2. Len(s) - 1 \in Nat
    BY <1>1, <1>2
  <2>3. r \in [1..(Len(s) - 1) -> QueuedBlock]
    BY <2>1
  <2> HIDE DEF r
  <2> QED BY <2>2, <2>3
<1> HIDE DEF old, r
<1>8. \A i \in 1..Len(s) - 1 : r[i].hash # b /\ \E j \in 1..Len(s) : r[i] = s[j]
  BY <1>2, <1>4
<1>9. \A i, j \in 1..Len(s) - 1 : r[i].hash = r[j].hash => i = j
  <2> SUFFICES ASSUME NEW i \in 1..Len(s) - 1, NEW j \in 1..Len(s) - 1, r[i].hash = r[j].hash
               PROVE  i = j
    OBVIOUS
  <2>1. old(i) \in 1..Len(s) /\ old(j) \in 1..Len(s) /\ s[old(i)].hash = s[old(j)].hash
    BY <1>4
  <2> QED BY <1>5, <2>1
<1>10. \A j \in 1..Len(s) : s[j].hash # b => \E i \in 1..Len(s) - 1 : r[i] = s[j]
  BY <1>2, <1>4, <1>6
<1> QED BY <1>3, <1>7, <1>8, <1>9, <1>10

\* A block that arrives is taken off the one queue it is in
\* (main.cpp 398-409); the data it may bring only adds linked blocks.
LEMMA ReceivedInv ==
    ASSUME IndInv, NEW b \in Blocks, MarkBlockAsReceived(b),
           index' \subseteq Blocks, data' \subseteq index', failed' \subseteq index',
           data \subseteq data', tip' \in data', Linked(tip)',
           UNCHANGED <<nSyncStarted, nPreferredDownload, sessions>>
    PROVE  IndInv'
<1>1. CASE inFlight[b] = None
  <2>1. UNCHANGED <<nodes, inFlight, nQueuedValidatedHeaders>>
    BY <1>1 DEF MarkBlockAsReceived
  <2>2. Types' /\ Greetings'
    BY <2>1 DEF IndInv, Types, Greetings
  <2>3. \A q \in Peers : nodes[q] # None => SameQueue(nodes[q], nodes[q])
    BY DEF SameQueue
  <2>4. Queues'
    BY <2>1, <2>2, <2>3, QueuesKept DEF IndInv
  <2>5. Commons'
    BY <2>1 DEF IndInv, Commons, CommonOK, Linked
  <2>6. Syncing' = Syncing /\ Preferred' = Preferred /\ Asked' = Asked
    BY <2>1 DEF Syncing, Preferred, Asked
  <2> QED BY <2>1, <2>2, <2>4, <2>5, <2>6 DEF IndInv, Counters
<1>2. CASE inFlight[b] # None
  <2> DEFINE p == inFlight[b]
             m == nodes[p]
             v == Without(m.vBlocksInFlight, b)
             n == [m EXCEPT !.vBlocksInFlight = v, !.nBlocksInFlight = @ - 1, !.nStallingSince = 0]
  <2>1. /\ nodes' = [nodes EXCEPT ![p] = n]
        /\ inFlight' = [inFlight EXCEPT ![b] = None]
        /\ nQueuedValidatedHeaders' = nQueuedValidatedHeaders - 1
    BY <1>2 DEF MarkBlockAsReceived, IndInv, Types
  <2>2. p \in Peers /\ m # None /\ m \in NodeStates /\ InQueue(m, b) /\ QueueOK(m, p)
    BY <1>2 DEF IndInv, Types, Queues
  <2> HIDE DEF m, p
  <2>3. m.vBlocksInFlight \in Seq(QueuedBlock)
    BY <2>2 DEF NodeStates
  <2> DEFINE s == m.vBlocksInFlight
  <2>4. /\ v \in Seq(QueuedBlock) /\ Len(v) = Len(s) - 1
        /\ \A i \in 1..Len(s) - 1 : v[i].hash # b /\ \E j \in 1..Len(s) : v[i] = s[j]
        /\ \A i, j \in 1..Len(s) - 1 : v[i].hash = v[j].hash => i = j
        /\ \A j \in 1..Len(s) : s[j].hash # b => \E i \in 1..Len(s) - 1 : v[i] = s[j]
    BY <2>2, <2>3, WithoutFacts DEF InQueue, QueueOK
  <2> HIDE DEF v
  <2>5. m.nBlocksInFlight = Len(s) /\ m.nBlocksInFlight \in 0..MAX_BLOCKS_IN_TRANSIT_PER_PEER
        /\ Len(s) # 0 /\ Len(s) \in Nat
    BY <2>2, <2>3 DEF QueueOK, InQueue, NodeStates
  <2>6. m.nBlocksInFlight - 1 \in 0..MAX_BLOCKS_IN_TRANSIT_PER_PEER
    BY <2>5, BlockDownloadAssumption
  <2>7. /\ n \in NodeStates /\ n.vBlocksInFlight = v /\ n.nBlocksInFlight = Len(v)
        /\ n.nStallingSince = 0 /\ n.pindexLastCommonBlock = m.pindexLastCommonBlock
        /\ n.fSyncStarted = m.fSyncStarted /\ n.fPreferredDownload = m.fPreferredDownload
        /\ n.greeted = m.greeted
    BY <2>2, <2>4, <2>5, <2>6 DEF NodeStates
  <2>8. n # None
    BY <2>7, BlockDownloadAssumption
  <2> HIDE DEF n
  <2>9. nodes'[p] = n /\ \A q \in Peers \ {p} : nodes'[q] = nodes[q]
    BY <2>1, <2>2 DEF IndInv, Types
  <2>10. inFlight'[b] = None /\ \A c \in Blocks \ {b} : inFlight'[c] = inFlight[c]
    BY <2>1 DEF IndInv, Types
  <2>11. nQueuedValidatedHeaders' \in Nat /\ nQueuedValidatedHeaders' >= Cardinality(Asked)'
    <3>1. Asked' = Asked \ {b} /\ b \in Asked /\ Asked \in SUBSET Blocks
      BY <1>2, <2>10 DEF Asked
    <3>2. /\ Cardinality(Asked) \in Nat /\ Cardinality(Asked \ {b}) \in Nat
          /\ Cardinality(Asked \ {b}) = Cardinality(Asked) - 1
      BY <3>1, Finite, FS_RemoveElement
    <3>3. nQueuedValidatedHeaders \in Nat /\ nQueuedValidatedHeaders >= Cardinality(Asked)
      BY DEF IndInv, Types, Counters
    <3> QED BY <2>1, <3>1, <3>2, <3>3
  <2>12. Types'
    BY <2>1, <2>7, <2>11 DEF IndInv, Types
  <2>13. ASSUME NEW q \in Peers, nodes'[q] # None PROVE QueueOK(nodes[q], q)'
    <3>1. CASE q = p
      <4>1. \A i \in 1..Len(v) : inFlight'[v[i].hash] = p
        <5> SUFFICES ASSUME NEW i \in 1..Len(v) PROVE inFlight'[v[i].hash] = p
          OBVIOUS
        <5>1. PICK j \in 1..Len(s) : v[i] = s[j]
          BY <2>4
        <5>2. s[j].hash \in Blocks /\ inFlight[s[j].hash] = p /\ s[j].hash # b
          BY <2>2, <2>4, <5>1, QueueFacts DEF QueueOK
        <5> QED BY <2>10, <5>1, <5>2
      <4>2. \A i, j \in 1..Len(v) : v[i].hash = v[j].hash => i = j
        BY <2>4
      <4> QED BY <2>7, <2>9, <3>1, <4>1, <4>2 DEF QueueOK
    <3>2. CASE q # p
      <4>1. nodes'[q] = nodes[q] /\ QueueOK(nodes[q], q) /\ nodes[q] \in NodeStates
        BY <2>9, <2>13, <3>2 DEF IndInv, Queues, Types
      <4>2. \A i \in 1..Len(nodes[q].vBlocksInFlight) :
               inFlight'[nodes[q].vBlocksInFlight[i].hash] = q
        <5> SUFFICES ASSUME NEW i \in 1..Len(nodes[q].vBlocksInFlight)
                     PROVE  inFlight'[nodes[q].vBlocksInFlight[i].hash] = q
          OBVIOUS
        <5>1. /\ nodes[q].vBlocksInFlight[i].hash \in Blocks
              /\ inFlight[nodes[q].vBlocksInFlight[i].hash] = q
          BY <4>1, QueueFacts DEF QueueOK
        <5>2. nodes[q].vBlocksInFlight[i].hash # b
          BY <3>2, <5>1 DEF p
        <5> QED BY <2>10, <5>1, <5>2
      <4> QED BY <4>1, <4>2 DEF QueueOK
    <3> QED BY <3>1, <3>2
  <2>14. ASSUME NEW c \in Blocks, inFlight'[c] # None
         PROVE  (nodes[inFlight[c]] # None /\ InQueue(nodes[inFlight[c]], c))'
    <3>1. /\ c # b /\ inFlight'[c] = inFlight[c] /\ inFlight[c] \in Peers
          /\ nodes[inFlight[c]] # None /\ InQueue(nodes[inFlight[c]], c)
      BY <2>10, <2>14 DEF IndInv, Queues, Types
    <3>2. CASE inFlight[c] # p
      <4>1. nodes'[inFlight'[c]] = nodes[inFlight[c]]
        BY <2>9, <3>1, <3>2
      <4> QED BY <3>1, <4>1 DEF InQueue
    <3>3. CASE inFlight[c] = p
      <4>1. PICK j \in 1..Len(s) : s[j].hash = c
        BY <3>1, <3>3 DEF InQueue, m
      <4>2. PICK i \in 1..Len(s) - 1 : v[i] = s[j]
        BY <2>4, <3>1, <4>1
      <4>3. nodes'[inFlight'[c]] = n
        BY <2>9, <3>1, <3>3
      <4>4. i \in 1..Len(n.vBlocksInFlight) /\ n.vBlocksInFlight[i].hash = c
        BY <2>4, <2>7, <4>1, <4>2
      <4> QED BY <2>8, <4>3, <4>4 DEF InQueue
    <3> QED BY <3>2, <3>3
  <2>15. Queues'
    BY <2>13, <2>14 DEF Queues
  <2>16. Commons' /\ Greetings'
    <3>1. \A q \in Peers : nodes'[q] # None =>
             /\ nodes[q] # None
             /\ nodes'[q].pindexLastCommonBlock = nodes[q].pindexLastCommonBlock
             /\ nodes'[q].fPreferredDownload = nodes[q].fPreferredDownload
             /\ nodes'[q].greeted = nodes[q].greeted
      BY <2>2, <2>7, <2>9 DEF m
    <3> QED BY <3>1 DEF IndInv, Commons, Greetings, CommonOK, Linked
  <2>17. Syncing' = Syncing /\ Preferred' = Preferred
    BY <2>2, <2>7, <2>8, <2>9, FlagsKept DEF m
  <2> QED BY <2>11, <2>12, <2>15, <2>16, <2>17 DEF IndInv, Counters
<1> QED BY <1>1, <1>2

LEMMA ProcessNewBlockInv ==
    ASSUME IndInv, NEW b \in Blocks, ProcessNewBlock(b)
    PROVE  IndInv'
<1>1. CASE MarkBlockAsReceived(b) /\ UNCHANGED <<tree, nSyncStarted, nPreferredDownload, sessions>>
  <2>1. UNCHANGED <<index, data, failed, tip>>
    BY <1>1 DEF tree
  <2>2. Linked(tip)'
    BY <2>1 DEF IndInv, Linked
  <2> QED BY <1>1, <2>1, <2>2, ReceivedInv DEF IndInv, Types
<1>2. CASE /\ MarkBlockAsReceived(b)
           /\ index' = index \cup {b}
           /\ \E stored, bad \in BOOLEAN :
                 /\ data' = IF stored THEN data \cup {b} ELSE data
                 /\ failed' = IF bad THEN failed \cup {b} ELSE failed
                 /\ tip' \in Activated(data', failed')
           /\ UNCHANGED <<nSyncStarted, nPreferredDownload, sessions>>
  <2>1. /\ index' \subseteq Blocks /\ data' \subseteq index' /\ failed' \subseteq index'
        /\ data \subseteq data'
    BY <1>2 DEF IndInv, Types
  <2>2. tip' \in Activated(data', failed')
    BY <1>2
  <2>3. tip' \in data' /\ Anc[tip'] \subseteq data'
    BY <2>2 DEF Activated
  <2>4. Linked(tip)'
    BY <2>3 DEF Linked
  <2> QED BY <1>2, <2>1, <2>3, <2>4, ReceivedInv
<1> QED BY <1>1, <1>2 DEF ProcessNewBlock

-----------------------------------------------------------------------------
(* SendMessages *)

\* Where an index of a concatenation falls.
LEMMA Concatenated ==
    ASSUME NEW s \in Seq(QueuedBlock), NEW t \in Seq(QueuedBlock)
    PROVE  /\ s \o t \in Seq(QueuedBlock) /\ Len(s \o t) = Len(s) + Len(t)
           /\ \A i \in 1..Len(s) : i \in 1..Len(s \o t) /\ (s \o t)[i] = s[i]
           /\ \A i \in 1..Len(t) : Len(s) + i \in 1..Len(s \o t) /\ (s \o t)[Len(s) + i] = t[i]
           /\ \A i \in 1..Len(s \o t) : i \in 1..Len(s) \/ \E j \in 1..Len(t) : i = Len(s) + j
<1>1. /\ s \o t \in Seq(QueuedBlock) /\ Len(s \o t) = Len(s) + Len(t)
      /\ Len(s) \in Nat /\ Len(t) \in Nat
      /\ \A i \in 1..Len(s) + Len(t) : (s \o t)[i] = IF i <= Len(s) THEN s[i] ELSE t[i - Len(s)]
  OBVIOUS
<1>2. \A i \in 1..Len(s) : i \in 1..Len(s \o t) /\ (s \o t)[i] = s[i]
  BY <1>1
<1>3. \A i \in 1..Len(t) : Len(s) + i \in 1..Len(s \o t) /\ (s \o t)[Len(s) + i] = t[i]
  BY <1>1
<1>4. ASSUME NEW i \in 1..Len(s \o t), i \notin 1..Len(s)
      PROVE  \E j \in 1..Len(t) : i = Len(s) + j
  <2>1. i - Len(s) \in 1..Len(t) /\ i = Len(s) + (i - Len(s))
    BY <1>1, <1>4
  <2> QED BY <2>1
<1> QED BY <1>1, <1>2, <1>3, <1>4

\* The state of a peer after MarkBlockAsInFlight (main.cpp 412-425) for each
\* block found.
LEMMA RequestedFacts ==
    ASSUME NEW n \in NodeStates, NEW bs, nQueuedValidatedHeaders \in Nat,
           n.nBlocksInFlight = Len(n.vBlocksInFlight),
           Askable(bs, MAX_BLOCKS_IN_TRANSIT_PER_PEER - n.nBlocksInFlight)
    PROVE  LET r == Requested(n, bs)
               v == n.vBlocksInFlight
           IN  /\ r \in NodeStates
               /\ r.nBlocksInFlight = Len(r.vBlocksInFlight)
               /\ Len(r.vBlocksInFlight) = Len(v) + Len(bs)
               /\ \A i \in 1..Len(v) : i \in 1..Len(r.vBlocksInFlight) /\ r.vBlocksInFlight[i] = v[i]
               /\ \A i \in 1..Len(bs) : /\ Len(v) + i \in 1..Len(r.vBlocksInFlight)
                                        /\ r.vBlocksInFlight[Len(v) + i].hash = bs[i]
               /\ \A i \in 1..Len(r.vBlocksInFlight) :
                     i \in 1..Len(v) \/ \E j \in 1..Len(bs) : i = Len(v) + j
               /\ r.pindexLastCommonBlock = n.pindexLastCommonBlock
               /\ r.fSyncStarted = n.fSyncStarted /\ r.fPreferredDownload = n.fPreferredDownload
               /\ r.greeted = n.greeted /\ r.nStallingSince = n.nStallingSince
<1> DEFINE v == n.vBlocksInFlight
           e == [i \in 1..Len(bs) |-> [hash |-> bs[i], age |-> 0,
                                       nValidatedQueuedBefore |-> nQueuedValidatedHeaders + i - 1]]
           r == Requested(n, bs)
<1>1. v \in Seq(QueuedBlock) /\ bs \in Seq(Blocks) /\ Len(bs) \in Nat
  BY DEF NodeStates, Askable
<1>2. /\ e \in Seq(QueuedBlock) /\ Len(e) = Len(bs)
      /\ \A i \in 1..Len(bs) : e[i].hash = bs[i]
  <2>1. \A i \in 1..Len(bs) : e[i] \in QueuedBlock /\ e[i].hash = bs[i]
    BY <1>1 DEF QueuedBlock
  <2>2. e \in [1..Len(bs) -> QueuedBlock]
    BY <2>1
  <2> HIDE DEF e
  <2> QED BY <1>1, <2>1, <2>2
<1>3. r = [n EXCEPT !.vBlocksInFlight = v \o e, !.nBlocksInFlight = @ + Len(bs)]
  BY DEF Requested
<1> HIDE DEF e, v
<1>4. /\ v \o e \in Seq(QueuedBlock) /\ Len(v \o e) = Len(v) + Len(bs)
      /\ \A i \in 1..Len(v) : i \in 1..Len(v \o e) /\ (v \o e)[i] = v[i]
      /\ \A i \in 1..Len(bs) : Len(v) + i \in 1..Len(v \o e) /\ (v \o e)[Len(v) + i] = e[i]
      /\ \A i \in 1..Len(v \o e) : i \in 1..Len(v) \/ \E j \in 1..Len(bs) : i = Len(v) + j
  <2>1. v \in Seq(QueuedBlock) /\ e \in Seq(QueuedBlock)
    BY <1>1, <1>2
  <2>2. /\ v \o e \in Seq(QueuedBlock) /\ Len(v \o e) = Len(v) + Len(e)
        /\ \A i \in 1..Len(v) : i \in 1..Len(v \o e) /\ (v \o e)[i] = v[i]
        /\ \A i \in 1..Len(e) : Len(v) + i \in 1..Len(v \o e) /\ (v \o e)[Len(v) + i] = e[i]
        /\ \A i \in 1..Len(v \o e) : i \in 1..Len(v) \/ \E j \in 1..Len(e) : i = Len(v) + j
    BY <2>1, Concatenated, Zenon
  <2> QED BY <1>2, <2>2, Zenon
<1>5. n.nBlocksInFlight + Len(bs) \in 0..MAX_BLOCKS_IN_TRANSIT_PER_PEER
  <2>1. n.nBlocksInFlight \in 0..MAX_BLOCKS_IN_TRANSIT_PER_PEER
        /\ Len(bs) <= MAX_BLOCKS_IN_TRANSIT_PER_PEER - n.nBlocksInFlight
    BY DEF NodeStates, Askable
  <2> QED BY <1>1, <2>1, BlockDownloadAssumption
<1>6. n.nBlocksInFlight = Len(v)
  BY DEF v
<1>7. /\ r \in NodeStates /\ r.vBlocksInFlight = v \o e
      /\ r.nBlocksInFlight = Len(v) + Len(bs)
      /\ r.pindexLastCommonBlock = n.pindexLastCommonBlock
      /\ r.fSyncStarted = n.fSyncStarted /\ r.fPreferredDownload = n.fPreferredDownload
      /\ r.greeted = n.greeted /\ r.nStallingSince = n.nStallingSince
  <2> DEFINE x == v \o e
             k == n.nBlocksInFlight + Len(bs)
  <2>1. x \in Seq(QueuedBlock) /\ k \in 0..MAX_BLOCKS_IN_TRANSIT_PER_PEER
    BY <1>4, <1>5
  <2>2. r = [n EXCEPT !.vBlocksInFlight = x, !.nBlocksInFlight = k]
    BY <1>3
  <2>3. k = Len(v) + Len(bs)
    BY <1>6
  <2> HIDE DEF x, k, r
  <2>4. /\ r \in NodeStates /\ r.vBlocksInFlight = x /\ r.nBlocksInFlight = k
        /\ r.pindexLastCommonBlock = n.pindexLastCommonBlock
        /\ r.fSyncStarted = n.fSyncStarted /\ r.fPreferredDownload = n.fPreferredDownload
        /\ r.greeted = n.greeted /\ r.nStallingSince = n.nStallingSince
    BY <2>1, <2>2 DEF NodeStates
  <2> QED BY <2>3, <2>4 DEF x
<1> HIDE DEF r
<1>8. /\ \A i \in 1..Len(v) : i \in 1..Len(r.vBlocksInFlight) /\ r.vBlocksInFlight[i] = v[i]
      /\ \A i \in 1..Len(bs) : /\ Len(v) + i \in 1..Len(r.vBlocksInFlight)
                               /\ r.vBlocksInFlight[Len(v) + i].hash = bs[i]
      /\ \A i \in 1..Len(r.vBlocksInFlight) :
            i \in 1..Len(v) \/ \E j \in 1..Len(bs) : i = Len(v) + j
  <2>1. r.vBlocksInFlight = v \o e
    BY <1>7, Zenon
  <2>2. \A i \in 1..Len(v) : i \in 1..Len(r.vBlocksInFlight) /\ r.vBlocksInFlight[i] = v[i]
    BY <1>4, <2>1, Zenon
  <2>3. \A i \in 1..Len(bs) : /\ Len(v) + i \in 1..Len(r.vBlocksInFlight)
                              /\ r.vBlocksInFlight[Len(v) + i].hash = bs[i]
    BY <1>2, <1>4, <2>1, Zenon
  <2>4. \A i \in 1..Len(r.vBlocksInFlight) :
           i \in 1..Len(v) \/ \E j \in 1..Len(bs) : i = Len(v) + j
    BY <1>4, <2>1, Zenon
  <2> QED BY <2>2, <2>3, <2>4, Zenon
<1> QED BY <1>4, <1>7, <1>8 DEF r, v

\* A sequence has at most as many elements as its length.
LEMMA AskedCount ==
    ASSUME NEW bs \in Seq(Blocks), NEW A \in SUBSET Blocks
    PROVE  Cardinality(A \cup {bs[i] : i \in 1..Len(bs)}) <= Cardinality(A) + Len(bs)
<1> DEFINE B == {bs[i] : i \in 1..Len(bs)}
<1>1. /\ IsFiniteSet(1..Len(bs)) /\ Cardinality(1..Len(bs)) = Len(bs) /\ Len(bs) \in Nat
  <2>1. Len(bs) \in Nat
    OBVIOUS
  <2>2. IsFiniteSet(1..Len(bs)) /\ Cardinality(1..Len(bs)) = IF 1 > Len(bs) THEN 0 ELSE Len(bs) - 1 + 1
    BY <2>1, FS_Interval
  <2> QED BY <2>1, <2>2
<1>2. B \in SUBSET Blocks /\ A \cap B \in SUBSET Blocks
  OBVIOUS
<1>3. Cardinality(B) <= Len(bs)
  <2> DEFINE f == [i \in 1..Len(bs) |-> bs[i]]
  <2>1. f \in Surjection(1..Len(bs), B)
    <3>1. f \in [1..Len(bs) -> B]
      OBVIOUS
    <3>2. \A y \in B : \E i \in 1..Len(bs) : f[i] = y
      OBVIOUS
    <3> HIDE DEF f, B
    <3> QED BY <3>1, <3>2 DEF Surjection
  <2> HIDE DEF f, B
  <2> QED BY <1>1, <2>1, FS_Surjection
<1> HIDE DEF B
<1>4. /\ Cardinality(A) \in Nat /\ Cardinality(B) \in Nat /\ Cardinality(A \cap B) \in Nat
      /\ IsFiniteSet(A) /\ IsFiniteSet(B)
  BY <1>2, Finite
<1>5. Cardinality(A \cup B) = Cardinality(A) + Cardinality(B) - Cardinality(A \cap B)
  BY <1>4, FS_Union
<1>6. Cardinality(A \cup B) <= Cardinality(A) + Len(bs)
  BY <1>1, <1>3, <1>4, <1>5
<1> QED BY <1>6 DEF B

\* The number of peers that synchronise counts p once.
LEMMA SyncCount ==
    ASSUME IndInv, NEW p \in Peers, NEW start \in BOOLEAN, start => ~nodes[p].fSyncStarted,
           nSyncStarted' = nSyncStarted + (IF start THEN 1 ELSE 0)
    PROVE  /\ nSyncStarted' \in Nat
           /\ nSyncStarted' = Cardinality(Syncing \cup (IF start THEN {p} ELSE {}))
<1>1. start => p \notin Syncing
  BY DEF Syncing
<1>2. /\ IsFiniteSet(Syncing) /\ Cardinality(Syncing) \in Nat /\ Syncing \cup {} = Syncing
  BY Finite DEF Syncing
<1>3. start => Cardinality(Syncing \cup {p}) = Cardinality(Syncing) + 1
  BY <1>1, <1>2, FS_AddElement
<1>4. nSyncStarted = Cardinality(Syncing)
  BY DEF IndInv, Counters
<1>5. CASE start
  BY <1>2, <1>3, <1>4, <1>5
<1>6. CASE ~start
  BY <1>2, <1>4, <1>6
<1> QED BY <1>5, <1>6

LEMMA SameMembers ==
    ASSUME NEW S, NEW A \in SUBSET S, NEW B \in SUBSET S, \A x \in S : x \in A <=> x \in B
    PROVE  A = B
<1> QED OBVIOUS

\* A call of SendMessages that asks p for blocks: the blocks join its queue and
\* the map, and a peer that holds up the window is suspected.
\* The state n1 of p once the call has begun, and n2 once it has asked for bs.
Began(p, start, n1) ==
    /\ n1 \in NodeStates
    /\ start \in BOOLEAN /\ (start => ~nodes[p].fSyncStarted)
    /\ n1.fSyncStarted = (nodes[p].fSyncStarted \/ start)
    /\ n1.fPreferredDownload = nodes[p].fPreferredDownload /\ n1.greeted = nodes[p].greeted
    /\ n1.vBlocksInFlight = nodes[p].vBlocksInFlight
    /\ n1.nBlocksInFlight = nodes[p].nBlocksInFlight
    /\ n1.nStallingSince = nodes[p].nStallingSince

AskedFor(n1, n2, bs) ==
    /\ n2 \in NodeStates
    /\ Askable(bs, MAX_BLOCKS_IN_TRANSIT_PER_PEER - n1.nBlocksInFlight)
    /\ n2.nBlocksInFlight = Len(n2.vBlocksInFlight)
    /\ \A i \in 1..Len(n1.vBlocksInFlight) :
          i \in 1..Len(n2.vBlocksInFlight) /\ n2.vBlocksInFlight[i] = n1.vBlocksInFlight[i]
    /\ \A i \in 1..Len(bs) : /\ Len(n1.vBlocksInFlight) + i \in 1..Len(n2.vBlocksInFlight)
                             /\ n2.vBlocksInFlight[Len(n1.vBlocksInFlight) + i].hash = bs[i]
    /\ \A i \in 1..Len(n2.vBlocksInFlight) :
          \/ i \in 1..Len(n1.vBlocksInFlight)
          \/ \E j \in 1..Len(bs) : i = Len(n1.vBlocksInFlight) + j
    /\ CommonOK(n2) /\ n2.nStallingSince = n1.nStallingSince /\ n2.greeted = n1.greeted
    /\ n2.fSyncStarted = n1.fSyncStarted /\ n2.fPreferredDownload = n1.fPreferredDownload

Sent(p, n2, bs, staller, stalls) ==
    /\ nodes' = [q \in Peers |->
          LET m == IF q = p THEN n2 ELSE nodes[q]
          IN  IF stalls /\ q = staller /\ m.nStallingSince = 0
              THEN [m EXCEPT !.nStallingSince = 1] ELSE m]
    /\ inFlight' = [b \in Blocks |->
          IF \E i \in 1..Len(bs) : bs[i] = b THEN p ELSE inFlight[b]]
    /\ nQueuedValidatedHeaders' = nQueuedValidatedHeaders + Len(bs)

LEMMA QueueMoved ==
    ASSUME NEW q, NEW w, NEW c,
           nodes'[q].vBlocksInFlight = w, nodes'[q].nBlocksInFlight = c,
           nodes'[q].nStallingSince # 0 => w # <<>>, c = Len(w),
           \A i \in 1..Len(w) : inFlight'[w[i].hash] = q,
           \A i, j \in 1..Len(w) : w[i].hash = w[j].hash => i = j
    PROVE  QueueOK(nodes[q], q)'
  BY DEF QueueOK

LEMMA AskedInv ==
    ASSUME IndInv, NEW p \in Peers, nodes[p] # None, NEW start, NEW n1, Began(p, start, n1),
           nSyncStarted' \in Nat,
           nSyncStarted' = Cardinality(Syncing \cup (IF start THEN {p} ELSE {})),
           NEW n2, NEW bs, AskedFor(n1, n2, bs),
           NEW staller, NEW stalls \in BOOLEAN,
           stalls => staller # None /\ staller # p /\ Owes(staller),
           Sent(p, n2, bs, staller, stalls),
           UNCHANGED <<tree, nPreferredDownload, sessions>>
    PROVE  IndInv'
<1> USE DEF Began, AskedFor, Sent
<1> DEFINE s == n1.vBlocksInFlight
           v == n2.vBlocksInFlight
<1>1. /\ bs \in Seq(Blocks) /\ Len(bs) \in Nat /\ p # None
      /\ \A i \in 1..Len(bs) : inFlight[bs[i]] = None /\ bs[i] \in Blocks
      /\ \A i, j \in 1..Len(bs) : bs[i] = bs[j] => i = j
  BY BlockDownloadAssumption DEF Askable
<1>2. /\ QueueOK(nodes[p], p) /\ nodes[p] \in NodeStates /\ n2 # None
      /\ Len(s) \in Nat
  BY QueueFacts, BlockDownloadAssumption DEF IndInv, Queues, Types
<1>3. nodes'[p] = n2
  OBVIOUS
<1>4. ASSUME NEW q \in Peers \ {p}
      PROVE  /\ nodes'[q] = None <=> nodes[q] = None
             /\ nodes'[q] \in NodeStates \cup {None}
             /\ nodes[q] # None =>
                  /\ nodes'[q].vBlocksInFlight = nodes[q].vBlocksInFlight
                  /\ nodes'[q].nBlocksInFlight = nodes[q].nBlocksInFlight
                  /\ nodes'[q].pindexLastCommonBlock = nodes[q].pindexLastCommonBlock
                  /\ nodes'[q].fSyncStarted = nodes[q].fSyncStarted
                  /\ nodes'[q].fPreferredDownload = nodes[q].fPreferredDownload
                  /\ nodes'[q].greeted = nodes[q].greeted
                  /\ nodes'[q].nStallingSince # 0 => nodes[q].vBlocksInFlight # <<>>
  <2>1. nodes[q] # None => nodes[q] \in NodeStates /\ QueueOK(nodes[q], q)
    BY DEF IndInv, Types, Queues
  <2>2. CASE ~(stalls /\ q = staller /\ nodes[q].nStallingSince = 0)
    <3>1. nodes'[q] = nodes[q]
      BY <2>2
    <3> QED BY <2>1, <3>1 DEF QueueOK
  <2>3. CASE stalls /\ q = staller /\ nodes[q].nStallingSince = 0
    <3>1. nodes'[q] = [nodes[q] EXCEPT !.nStallingSince = 1]
      BY <2>3
    <3>2. nodes[q] # None /\ nodes[q].vBlocksInFlight # <<>> /\ nodes[q] \in NodeStates
      <4>1. PICK b \in Blocks : inFlight[b] = q
        BY <2>3 DEF Owes
      <4>2. nodes[q] # None /\ InQueue(nodes[q], b)
        BY <2>3, <4>1 DEF IndInv, Queues
      <4> QED BY <2>1, <4>2, QueueFacts DEF InQueue
    <3>3. nodes'[q] \in NodeStates
      BY <3>1, <3>2 DEF NodeStates
    <3>4. nodes'[q] # None
      BY <3>3, BlockDownloadAssumption
    <3> QED BY <3>1, <3>2, <3>3, <3>4 DEF NodeStates
  <2> QED BY <2>2, <2>3
<1>5. \A b \in Blocks : inFlight'[b] = IF \E i \in 1..Len(bs) : bs[i] = b THEN p ELSE inFlight[b]
  OBVIOUS
<1>6. inFlight' \in [Blocks -> Peers \cup {None}]
  BY DEF IndInv, Types
<1>7. \A b \in Blocks : inFlight[b] # None => inFlight'[b] = inFlight[b]
  BY <1>1, <1>5
<1>8. nodes' \in [Peers -> NodeStates \cup {None}]
  <2>1. \A q \in Peers : nodes'[q] \in NodeStates \cup {None}
    BY <1>3, <1>4
  <2>2. nodes' = [q \in Peers |-> nodes'[q]]
    OBVIOUS
  <2> QED BY <2>1, <2>2
<1> HIDE DEF s, v
<1>9. QueueOK(nodes[p], p)'
  <2>1. Len(v) = n2.nBlocksInFlight /\ v = n2.vBlocksInFlight
    BY DEF v
  <2>2. ASSUME NEW i \in 1..Len(s)
        PROVE  /\ v[i].hash \in Blocks /\ inFlight[v[i].hash] = p
    BY <1>2, QueueFacts DEF QueueOK, s, v
  <2>3. ASSUME NEW j \in 1..Len(bs)
        PROVE  v[Len(s) + j].hash = bs[j]
    BY DEF s, v
  <2>4. \A i \in 1..Len(v) : i \in 1..Len(s) \/ \E j \in 1..Len(bs) : i = Len(s) + j
    BY DEF s, v
  <2>5. \A i \in 1..Len(v) : inFlight'[v[i].hash] = p
    <3> SUFFICES ASSUME NEW i \in 1..Len(v) PROVE inFlight'[v[i].hash] = p
      OBVIOUS
    <3>1. CASE i \in 1..Len(s)
      BY <1>1, <1>7, <2>2, <3>1
    <3>2. CASE \E j \in 1..Len(bs) : i = Len(s) + j
      <4>1. PICK j \in 1..Len(bs) : i = Len(s) + j
        BY <3>2
      <4>2. v[i].hash = bs[j] /\ bs[j] \in Blocks
        BY <1>1, <2>3, <4>1
      <4> QED BY <1>5, <4>2
    <3> QED BY <2>4, <3>1, <3>2
  <2>6. \A i, j \in 1..Len(v) : v[i].hash = v[j].hash => i = j
    <3> SUFFICES ASSUME NEW i \in 1..Len(v), NEW j \in 1..Len(v), v[i].hash = v[j].hash
                 PROVE  i = j
      OBVIOUS
    <3>1. CASE i \in 1..Len(s) /\ j \in 1..Len(s)
      <4>1. s = nodes[p].vBlocksInFlight
        BY DEF s
      <4>2. v[i] = s[i] /\ v[j] = s[j]
        BY <3>1 DEF s, v
      <4>3. \A k, l \in 1..Len(s) : s[k].hash = s[l].hash => k = l
        BY <1>2, <4>1, Zenon DEF QueueOK
      <4>4. s[i].hash = s[j].hash
        BY <4>2
      <4> QED BY <3>1, <4>3, <4>4, Zenon
    <3>2. CASE i \in 1..Len(s) /\ \E k \in 1..Len(bs) : j = Len(s) + k
      <4>1. PICK k \in 1..Len(bs) : j = Len(s) + k
        BY <3>2
      <4>2. v[j].hash = bs[k] /\ inFlight[bs[k]] = None /\ inFlight[v[i].hash] = p
        BY <1>1, <2>2, <2>3, <3>2, <4>1
      <4> QED BY <1>1, <4>2
    <3>3. CASE j \in 1..Len(s) /\ \E k \in 1..Len(bs) : i = Len(s) + k
      <4>1. PICK k \in 1..Len(bs) : i = Len(s) + k
        BY <3>3
      <4>2. v[i].hash = bs[k] /\ inFlight[bs[k]] = None /\ inFlight[v[j].hash] = p
        BY <1>1, <2>2, <2>3, <3>3, <4>1
      <4> QED BY <1>1, <4>2
    <3>4. CASE (\E k \in 1..Len(bs) : i = Len(s) + k) /\ (\E k \in 1..Len(bs) : j = Len(s) + k)
      <4>1. PICK k \in 1..Len(bs) : i = Len(s) + k
        BY <3>4
      <4>2. PICK l \in 1..Len(bs) : j = Len(s) + l
        BY <3>4
      <4>3. bs[k] = bs[l]
        BY <2>3, <4>1, <4>2
      <4> QED BY <1>1, <4>1, <4>2, <4>3
    <3> QED BY <2>4, <3>1, <3>2, <3>3, <3>4
  <2>7. n2.nStallingSince # 0 => v # <<>>
    <3> SUFFICES ASSUME n2.nStallingSince # 0 PROVE v # <<>>
      OBVIOUS
    <3>1. s # <<>> /\ s = nodes[p].vBlocksInFlight
      BY <1>2 DEF QueueOK, s
    <3>2. 1 \in 1..Len(s)
      BY <1>2, <3>1, QueueFacts
    <3>3. 1 \in 1..Len(v)
      BY <3>2 DEF s, v
    <3> QED BY <3>3, QueueFacts DEF v
  <2> QED BY <1>3, <2>1, <2>5, <2>6, <2>7 DEF QueueOK
<1>10. ASSUME NEW q \in Peers \ {p}, nodes'[q] # None PROVE QueueOK(nodes[q], q)'
  <2>1. /\ nodes[q] # None /\ QueueOK(nodes[q], q) /\ nodes[q] \in NodeStates
        /\ nodes'[q].vBlocksInFlight = nodes[q].vBlocksInFlight
        /\ nodes'[q].nBlocksInFlight = nodes[q].nBlocksInFlight
        /\ nodes'[q].nStallingSince # 0 => nodes[q].vBlocksInFlight # <<>>
        /\ q # None
    <3>1. nodes[q] # None
      BY <1>4, <1>10
    <3>2. QueueOK(nodes[q], q) /\ nodes[q] \in NodeStates
      BY <3>1 DEF IndInv, Queues, Types
    <3>3. q # None
      BY BlockDownloadAssumption
    <3> QED BY <1>4, <3>1, <3>2, <3>3
  <2>2. \A i \in 1..Len(nodes[q].vBlocksInFlight) :
           inFlight'[nodes[q].vBlocksInFlight[i].hash] = q
    <3> SUFFICES ASSUME NEW i \in 1..Len(nodes[q].vBlocksInFlight)
                 PROVE  inFlight'[nodes[q].vBlocksInFlight[i].hash] = q
      OBVIOUS
    <3> DEFINE b == nodes[q].vBlocksInFlight[i].hash
    <3>1. inFlight[b] = q
      BY <2>1, Zenon DEF QueueOK
    <3>2. b \in Blocks
      BY <2>1, QueueFacts
    <3> HIDE DEF b
    <3>3. inFlight'[b] = q
      BY <1>7, <2>1, <3>1, <3>2
    <3> QED BY <3>3 DEF b
  <2>3. \A i, j \in 1..Len(nodes[q].vBlocksInFlight) :
           nodes[q].vBlocksInFlight[i].hash = nodes[q].vBlocksInFlight[j].hash => i = j
    BY <2>1, Zenon DEF QueueOK
  <2>4. nodes[q].nBlocksInFlight = Len(nodes[q].vBlocksInFlight)
    BY <2>1, Zenon DEF QueueOK
  <2> DEFINE w == nodes[q].vBlocksInFlight
             c == nodes[q].nBlocksInFlight
  <2>5. /\ nodes'[q].vBlocksInFlight = w /\ nodes'[q].nBlocksInFlight = c
        /\ nodes'[q].nStallingSince # 0 => w # <<>>
        /\ c = Len(w)
        /\ \A i \in 1..Len(w) : inFlight'[w[i].hash] = q
        /\ \A i, j \in 1..Len(w) : w[i].hash = w[j].hash => i = j
    BY <2>1, <2>2, <2>3, <2>4, Zenon
  <2> HIDE DEF w, c, Began, AskedFor, Sent
  <2> QED BY <2>5, QueueMoved
<1>11. ASSUME NEW b \in Blocks, inFlight'[b] # None
       PROVE  (nodes[inFlight[b]] # None /\ InQueue(nodes[inFlight[b]], b))'
  <2>1. CASE \E i \in 1..Len(bs) : bs[i] = b
    <3>1. PICK i \in 1..Len(bs) : bs[i] = b
      BY <2>1
    <3>2. inFlight'[b] = p
      BY <1>5, <2>1
    <3>3. Len(s) + i \in 1..Len(n2.vBlocksInFlight) /\ n2.vBlocksInFlight[Len(s) + i].hash = b
      BY <3>1 DEF s
    <3> QED BY <1>2, <1>3, <3>2, <3>3 DEF InQueue
  <2>2. CASE ~(\E i \in 1..Len(bs) : bs[i] = b)
    <3>1. /\ inFlight'[b] = inFlight[b] /\ inFlight[b] \in Peers
          /\ nodes[inFlight[b]] # None /\ InQueue(nodes[inFlight[b]], b)
      BY <1>5, <1>11, <2>2 DEF IndInv, Queues, Types
    <3>2. CASE inFlight[b] # p
      <4>1. /\ nodes'[inFlight[b]] # None
            /\ nodes'[inFlight[b]].vBlocksInFlight = nodes[inFlight[b]].vBlocksInFlight
        BY <1>4, <3>1, <3>2
      <4> QED BY <3>1, <4>1 DEF InQueue
    <3>3. CASE inFlight[b] = p
      <4>1. PICK i \in 1..Len(s) : s[i].hash = b
        BY <3>1, <3>3 DEF InQueue, s
      <4>2. i \in 1..Len(n2.vBlocksInFlight) /\ n2.vBlocksInFlight[i].hash = b
        BY <4>1 DEF s
      <4> QED BY <1>2, <1>3, <3>1, <3>3, <4>2 DEF InQueue
    <3> QED BY <3>2, <3>3
  <2> QED BY <2>1, <2>2
<1>12. Queues'
  BY <1>9, <1>10, <1>11 DEF Queues
<1>13. nQueuedValidatedHeaders' \in Nat /\ nQueuedValidatedHeaders' >= Cardinality(Asked)'
  <2>1. Asked' = Asked \cup {bs[i] : i \in 1..Len(bs)} /\ Asked \in SUBSET Blocks
        /\ Asked' \in SUBSET Blocks
    BY <1>1, <1>5 DEF Asked
  <2>2. Cardinality(Asked)' <= Cardinality(Asked) + Len(bs)
    BY <1>1, <2>1, AskedCount
  <2>3. Cardinality(Asked) \in Nat /\ Cardinality(Asked') \in Nat
    BY <2>1, Finite
  <2>4. nQueuedValidatedHeaders \in Nat /\ nQueuedValidatedHeaders >= Cardinality(Asked)
    BY DEF IndInv, Types, Counters
  <2> QED BY <1>1, <2>2, <2>3, <2>4
<1>14. Types' /\ Linked(tip)'
  BY <1>6, <1>8, <1>13 DEF IndInv, Types, tree, Linked
<1>15. Commons' /\ Greetings'
  <2>1. CommonOK(n2)' /\ (n2.fPreferredDownload => n2.greeted)
    BY DEF IndInv, Greetings, CommonOK, Linked, tree
  <2>2. ASSUME NEW q \in Peers \ {p}, nodes'[q] # None
        PROVE  CommonOK(nodes[q])' /\ (nodes'[q].fPreferredDownload => nodes'[q].greeted)
    <3>1. /\ nodes[q] # None
          /\ nodes'[q].pindexLastCommonBlock = nodes[q].pindexLastCommonBlock
          /\ nodes'[q].fPreferredDownload = nodes[q].fPreferredDownload
          /\ nodes'[q].greeted = nodes[q].greeted
      BY <1>4, <2>2
    <3>2. CommonOK(nodes[q]) /\ (nodes[q].fPreferredDownload => nodes[q].greeted)
      BY <3>1 DEF IndInv, Commons, Greetings
    <3> QED BY <3>1, <3>2 DEF CommonOK, Linked, tree
  <2> QED BY <1>3, <2>1, <2>2 DEF Commons, Greetings, CommonOK
<1>16. /\ Syncing' = Syncing \cup (IF start THEN {p} ELSE {})
       /\ Preferred' = Preferred
  <2>1. \A q \in Peers \ {p} :
           /\ q \in Syncing' <=> q \in Syncing
           /\ q \in Preferred' <=> q \in Preferred
    <3> SUFFICES ASSUME NEW q \in Peers \ {p}
                 PROVE  /\ q \in Syncing' <=> q \in Syncing
                        /\ q \in Preferred' <=> q \in Preferred
      OBVIOUS
    <3>1. /\ nodes'[q] = None <=> nodes[q] = None
          /\ nodes[q] # None => /\ nodes'[q].fSyncStarted = nodes[q].fSyncStarted
                                /\ nodes'[q].fPreferredDownload = nodes[q].fPreferredDownload
      BY <1>4
    <3> QED BY <3>1, Zenon DEF Syncing, Preferred
  <2>2. /\ p \in Syncing' <=> p \in Syncing \/ start
        /\ p \in Preferred' <=> p \in Preferred
    BY <1>2, <1>3 DEF Syncing, Preferred
  <2>3. Syncing' \subseteq Peers /\ Syncing \subseteq Peers
        /\ Preferred' \subseteq Peers /\ Preferred \subseteq Peers
    BY DEF Syncing, Preferred
  <2>4. Preferred' = Preferred
    <3>1. \A q \in Peers : q \in Preferred' <=> q \in Preferred
      BY <2>1, <2>2, Zenon
    <3> QED BY <2>3, <3>1, SameMembers, Zenon
  <2>5. CASE start
    <3>1. Syncing' = Syncing \cup {p}
      BY <2>1, <2>2, <2>3, <2>5, Zenon
    <3> QED BY <2>4, <2>5, <3>1
  <2>6. CASE ~start
    <3>1. \A q \in Peers : q \in Syncing' <=> q \in Syncing
      BY <2>1, <2>2, <2>6, Zenon
    <3>2. Syncing' = Syncing
      BY <2>3, <3>1, SameMembers, Zenon
    <3> QED BY <2>4, <2>6, <3>2
  <2> QED BY <2>5, <2>6
<1>17. Counters'
  BY <1>13, <1>16 DEF IndInv, Counters
<1> QED BY <1>12, <1>14, <1>15, <1>17 DEF IndInv

LEMMA SendMessagesInv ==
    ASSUME IndInv, NEW p \in Peers, NEW recent \in BOOLEAN, SendMessages(p, recent)
    PROVE  IndInv'
<1> DEFINE n0 == nodes[p]
           fFetch == n0.fPreferredDownload \/ nPreferredDownload = 0
           start == ~n0.fSyncStarted /\ ~n0.fClient /\ fFetch /\ (nSyncStarted = 0 \/ recent)
           n1 == [n0 EXCEPT !.fSyncStarted = @ \/ start, !.fDisconnect = @ \/ TimedOut(n0)]
           asks == /\ ~n1.fDisconnect /\ ~n1.fClient /\ fFetch
                   /\ n1.nBlocksInFlight < MAX_BLOCKS_IN_TRANSIT_PER_PEER
           count == MAX_BLOCKS_IN_TRANSIT_PER_PEER - n1.nBlocksInFlight
           found == FindNextBlocksToDownload(p, n1, count)
           n2 == Requested(found.node, found.vBlocks)
           stalls == n2.nBlocksInFlight = 0 /\ found.staller # None
<1>1. /\ nodes[p] # None
      /\ nSyncStarted' = nSyncStarted + (IF start THEN 1 ELSE 0)
      /\ UNCHANGED <<tree, nPreferredDownload, sessions>>
  BY DEF SendMessages
<1>2. asks =>
         /\ nodes' = [q \in Peers |->
               LET m == IF q = p THEN n2 ELSE nodes[q]
               IN  IF stalls /\ q = found.staller /\ m.nStallingSince = 0
                   THEN [m EXCEPT !.nStallingSince = 1] ELSE m]
         /\ inFlight' = [b \in Blocks |->
               IF \E i \in 1..Len(found.vBlocks) : found.vBlocks[i] = b THEN p ELSE inFlight[b]]
         /\ nQueuedValidatedHeaders' = nQueuedValidatedHeaders + Len(found.vBlocks)
  BY DEF SendMessages
<1>3. ~asks => /\ nodes' = [nodes EXCEPT ![p] = n1]
               /\ UNCHANGED <<inFlight, nQueuedValidatedHeaders>>
  BY DEF SendMessages
<1>4. start \in BOOLEAN /\ TimedOut(n0) \in BOOLEAN /\ (start => ~nodes[p].fSyncStarted)
      /\ stalls \in BOOLEAN
  BY DEF TimedOut
<1>5. /\ n1 \in NodeStates /\ n1 # None /\ n1.fSyncStarted = (nodes[p].fSyncStarted \/ start)
      /\ n1.fPreferredDownload = nodes[p].fPreferredDownload /\ n1.greeted = nodes[p].greeted
      /\ n1.vBlocksInFlight = nodes[p].vBlocksInFlight
      /\ n1.nBlocksInFlight = nodes[p].nBlocksInFlight
      /\ n1.nStallingSince = nodes[p].nStallingSince
      /\ n1.pindexLastCommonBlock = nodes[p].pindexLastCommonBlock
      /\ nSyncStarted' \in Nat
      /\ nSyncStarted' = Cardinality(Syncing \cup (IF start THEN {p} ELSE {}))
  <2> DEFINE late == TimedOut(n0)
  <2>1. n0 \in NodeStates /\ late \in BOOLEAN
    BY <1>1, <1>4 DEF IndInv, Types
  <2>2. n1 = [n0 EXCEPT !.fSyncStarted = @ \/ start, !.fDisconnect = @ \/ late]
    OBVIOUS
  <2> HIDE DEF start, late, n1
  <2>3. /\ n1 \in NodeStates /\ n1.fSyncStarted = (nodes[p].fSyncStarted \/ start)
        /\ n1.fPreferredDownload = nodes[p].fPreferredDownload /\ n1.greeted = nodes[p].greeted
        /\ n1.vBlocksInFlight = nodes[p].vBlocksInFlight
        /\ n1.nBlocksInFlight = nodes[p].nBlocksInFlight
        /\ n1.nStallingSince = nodes[p].nStallingSince
        /\ n1.pindexLastCommonBlock = nodes[p].pindexLastCommonBlock
    BY <1>4, <2>1, <2>2 DEF NodeStates
  <2>4. n1 # None
    BY <2>3, BlockDownloadAssumption
  <2> QED BY <1>1, <1>4, <2>3, <2>4, SyncCount
<1>6. CASE ~asks
  <2> HIDE DEF n1, asks, start
  <2>1. /\ nodes' = [nodes EXCEPT ![p] = n1]
        /\ UNCHANGED <<inFlight, nQueuedValidatedHeaders>>
    BY <1>3, <1>6
  <2>2. nodes'[p] = n1 /\ \A q \in Peers \ {p} : nodes'[q] = nodes[q]
    BY <2>1 DEF IndInv, Types
  <2>3. Types' /\ Linked(tip)'
    BY <1>1, <1>5, <2>1 DEF IndInv, Types, tree, Linked
  <2>4. \A q \in Peers : /\ nodes'[q] = None <=> nodes[q] = None
                         /\ nodes[q] # None => SameQueue(nodes'[q], nodes[q])
    BY <1>1, <1>5, <2>2 DEF SameQueue
  <2>5. Queues'
    BY <2>1, <2>3, <2>4, QueuesKept DEF IndInv
  <2>6. Commons' /\ Greetings'
    BY <1>1, <1>5, <2>2 DEF IndInv, Commons, Greetings, CommonOK, Linked, tree
  <2>7. /\ Syncing' = Syncing \cup (IF start THEN {p} ELSE {})
        /\ Preferred' = Preferred /\ Asked' = Asked
    BY <1>1, <1>4, <1>5, <2>1, <2>2 DEF Syncing, Preferred, Asked
  <2> QED BY <1>1, <1>5, <2>1, <2>3, <2>5, <2>6, <2>7 DEF IndInv, Counters
<1>7. CASE asks
  <2> HIDE DEF n1, start
  <2>1. count \in Nat \ {0} /\ CommonOK(n1) /\ QueueOK(nodes[p], p)
    <3>1. n1.nBlocksInFlight \in Nat /\ n1.nBlocksInFlight < MAX_BLOCKS_IN_TRANSIT_PER_PEER
      BY <1>5, <1>7 DEF NodeStates
    <3>2. CommonOK(n1) /\ QueueOK(nodes[p], p)
      BY <1>1, <1>5 DEF IndInv, Commons, Queues, CommonOK
    <3> QED BY <3>1, <3>2, BlockDownloadAssumption
  <2>2. /\ found.node \in NodeStates /\ SameRequests(found.node, n1) /\ CommonOK(found.node)
        /\ Askable(found.vBlocks, count)
        /\ found.staller # None => found.staller # p /\ Owes(found.staller)
    <3> HIDE DEF count
    <3>1. tip \in Blocks /\ index \subseteq Blocks /\ Linked(tip)
          /\ inFlight \in [Blocks -> Peers \cup {None}]
      BY DEF IndInv, Types
    <3> QED BY <1>5, <2>1, <3>1, Found
  <2> HIDE DEF found
  <2>3. /\ found.node.vBlocksInFlight = n1.vBlocksInFlight
        /\ found.node.nBlocksInFlight = n1.nBlocksInFlight
        /\ found.node.nStallingSince = n1.nStallingSince
        /\ found.node.greeted = n1.greeted
        /\ found.node.fSyncStarted = n1.fSyncStarted
        /\ found.node.fPreferredDownload = n1.fPreferredDownload
        /\ found.node.nBlocksInFlight = Len(found.node.vBlocksInFlight)
    BY <1>5, <2>1, <2>2 DEF SameRequests, QueueOK
  <2>4. Askable(found.vBlocks, MAX_BLOCKS_IN_TRANSIT_PER_PEER - found.node.nBlocksInFlight)
    BY <2>2, <2>3
  <2> DEFINE v == n1.vBlocksInFlight
             bs == found.vBlocks
  <2>5. /\ n2 \in NodeStates
        /\ n2.nBlocksInFlight = Len(n2.vBlocksInFlight)
        /\ \A i \in 1..Len(v) : i \in 1..Len(n2.vBlocksInFlight) /\ n2.vBlocksInFlight[i] = v[i]
        /\ \A i \in 1..Len(bs) : /\ Len(v) + i \in 1..Len(n2.vBlocksInFlight)
                                 /\ n2.vBlocksInFlight[Len(v) + i].hash = bs[i]
        /\ \A i \in 1..Len(n2.vBlocksInFlight) :
              i \in 1..Len(v) \/ \E j \in 1..Len(bs) : i = Len(v) + j
        /\ n2.pindexLastCommonBlock = found.node.pindexLastCommonBlock
        /\ n2.fSyncStarted = found.node.fSyncStarted
        /\ n2.fPreferredDownload = found.node.fPreferredDownload
        /\ n2.greeted = found.node.greeted /\ n2.nStallingSince = found.node.nStallingSince
    <3>1. nQueuedValidatedHeaders \in Nat
      BY DEF IndInv, Types
    <3> DEFINE m == found.node
    <3>2. /\ m \in NodeStates /\ m.nBlocksInFlight = Len(m.vBlocksInFlight)
          /\ Askable(bs, MAX_BLOCKS_IN_TRANSIT_PER_PEER - m.nBlocksInFlight)
          /\ n2 = Requested(m, bs) /\ v = m.vBlocksInFlight
      BY <2>2, <2>3, <2>4
    <3> HIDE DEF m, bs, v, n2
    <3>3. /\ n2 \in NodeStates
          /\ n2.nBlocksInFlight = Len(n2.vBlocksInFlight)
          /\ \A i \in 1..Len(v) : i \in 1..Len(n2.vBlocksInFlight) /\ n2.vBlocksInFlight[i] = v[i]
          /\ \A i \in 1..Len(bs) : /\ Len(v) + i \in 1..Len(n2.vBlocksInFlight)
                                   /\ n2.vBlocksInFlight[Len(v) + i].hash = bs[i]
          /\ \A i \in 1..Len(n2.vBlocksInFlight) :
                i \in 1..Len(v) \/ \E j \in 1..Len(bs) : i = Len(v) + j
          /\ n2.pindexLastCommonBlock = m.pindexLastCommonBlock
          /\ n2.fSyncStarted = m.fSyncStarted
          /\ n2.fPreferredDownload = m.fPreferredDownload
          /\ n2.greeted = m.greeted /\ n2.nStallingSince = m.nStallingSince
      BY <3>1, <3>2, RequestedFacts
    <3> QED BY <3>3 DEF m
  <2> HIDE DEF n2
  <2>6. CommonOK(n2)
    BY <2>2, <2>5 DEF CommonOK
  <2>7. stalls => found.staller # None /\ found.staller # p /\ Owes(found.staller)
    BY <2>2
  <2> HIDE DEF asks, stalls
  <2> DEFINE st == found.staller
  <2>8. /\ nodes' = [q \in Peers |->
               LET m == IF q = p THEN n2 ELSE nodes[q]
               IN  IF stalls /\ q = st /\ m.nStallingSince = 0
                   THEN [m EXCEPT !.nStallingSince = 1] ELSE m]
        /\ inFlight' = [b \in Blocks |->
               IF \E i \in 1..Len(bs) : bs[i] = b THEN p ELSE inFlight[b]]
        /\ nQueuedValidatedHeaders' = nQueuedValidatedHeaders + Len(bs)
    BY <1>2, <1>7, Zenon
  <2>9. /\ n2.nStallingSince = n1.nStallingSince /\ n2.greeted = n1.greeted
        /\ n2.fSyncStarted = n1.fSyncStarted /\ n2.fPreferredDownload = n1.fPreferredDownload
    BY <2>3, <2>5
  <2>10. Askable(bs, MAX_BLOCKS_IN_TRANSIT_PER_PEER - n1.nBlocksInFlight)
    BY <2>2
  <2>11. stalls => st # None /\ st # p /\ Owes(st)
    BY <2>7
  <2> HIDE DEF bs, v, st
  <2>12. Began(p, start, n1)
    BY <1>4, <1>5 DEF Began
  <2>13. AskedFor(n1, n2, bs)
    <3>1. /\ \A i \in 1..Len(n1.vBlocksInFlight) :
                i \in 1..Len(n2.vBlocksInFlight) /\ n2.vBlocksInFlight[i] = n1.vBlocksInFlight[i]
          /\ \A i \in 1..Len(bs) : /\ Len(n1.vBlocksInFlight) + i \in 1..Len(n2.vBlocksInFlight)
                                   /\ n2.vBlocksInFlight[Len(n1.vBlocksInFlight) + i].hash = bs[i]
          /\ \A i \in 1..Len(n2.vBlocksInFlight) :
                \/ i \in 1..Len(n1.vBlocksInFlight)
                \/ \E j \in 1..Len(bs) : i = Len(n1.vBlocksInFlight) + j
      BY <2>5, Zenon DEF v
    <3>2. n2 \in NodeStates /\ n2.nBlocksInFlight = Len(n2.vBlocksInFlight)
      BY <2>5, Zenon
    <3> QED BY <2>6, <2>9, <2>10, <3>1, <3>2, Zenon DEF AskedFor
  <2>14. /\ nSyncStarted' \in Nat
         /\ nSyncStarted' = Cardinality(Syncing \cup (IF start THEN {p} ELSE {}))
         /\ stalls \in BOOLEAN /\ nodes[p] # None
         /\ UNCHANGED <<tree, nPreferredDownload, sessions>>
    <3> HIDE DEF start, stalls
    <3> QED BY <1>1, <1>4, <1>5, Zenon
  <2>15. Sent(p, n2, bs, st, stalls)
    BY <2>8, Zenon DEF Sent
  <2> QED BY <2>11, <2>12, <2>13, <2>14, <2>15, AskedInv, Zenon
<1> QED BY <1>6, <1>7

-----------------------------------------------------------------------------
(* The theorems *)

LEMMA NextInv == IndInv /\ [Next]_vars => IndInv'
<1> SUFFICES ASSUME IndInv, [Next]_vars PROVE IndInv'
  OBVIOUS
<1>1. ASSUME NEW p \in Peers, InitializeNode(p) PROVE IndInv'
  BY <1>1, InitializeNodeInv
<1>2. ASSUME NEW p \in Peers, FinalizeNode(p) PROVE IndInv'
  BY <1>2, FinalizeNodeInv
<1>3. ASSUME NEW p \in Peers, NEW client \in BOOLEAN, NEW preferred \in BOOLEAN,
             Version(p, client, preferred)
      PROVE  IndInv'
  BY <1>3, VersionInv
<1>4. ASSUME NEW p \in Peers, NEW b \in Announces[p], Inv(p, b) PROVE IndInv'
  <2>1. b \in Blocks
    BY BlockDownloadAssumption
  <2> QED BY <1>4, <2>1, InvInv
<1>5. ASSUME NEW p \in Peers, NEW b \in Blocks, BlockMessage(p, b) PROVE IndInv'
  BY <1>5, ProcessNewBlockInv DEF BlockMessage
<1>6. ASSUME NEW p \in Peers, NEW recent \in BOOLEAN, SendMessages(p, recent) PROVE IndInv'
  BY <1>6, SendMessagesInv
<1>7. ASSUME NEW b \in Blocks, SubmitBlock(b) PROVE IndInv'
  BY <1>7, ProcessNewBlockInv DEF SubmitBlock
<1>8. CASE Tick
  BY <1>8, TickInv
<1>9. CASE UNCHANGED vars
  BY <1>9 DEF vars, tree, IndInv, Types, Linked, Queues, QueueOK, InQueue, Commons, CommonOK,
              Greetings, Counters, Syncing, Preferred, Asked
<1> QED BY <1>1, <1>2, <1>3, <1>4, <1>5, <1>6, <1>7, <1>8, <1>9 DEF Next

LEMMA Invariance == Spec => []IndInv
<1> QED BY InitInv, NextInv, PTL DEF Spec

\* The entries of block b in the queue of p are one when the map names p, and
\* none otherwise.
LEMMA OneEntry ==
    ASSUME IndInv, NEW p \in Peers, NEW b \in Blocks
    PROVE  Cardinality(EntriesOf(p, b)) = (IF inFlight[b] = p THEN 1 ELSE 0)
<1> DEFINE E == EntriesOf(p, b)
<1>1. p # None
  BY BlockDownloadAssumption
<1>2. CASE inFlight[b] = p
  <2>1. nodes[p] # None /\ InQueue(nodes[p], b) /\ QueueOK(nodes[p], p)
    BY <1>1, <1>2 DEF IndInv, Queues
  <2>2. PICK i \in 1..Len(nodes[p].vBlocksInFlight) : nodes[p].vBlocksInFlight[i].hash = b
    BY <2>1 DEF InQueue
  <2>3. \A j \in E : j = i
    BY <2>1, <2>2 DEF EntriesOf, QueueOK
  <2>4. i \in E
    BY <2>1, <2>2 DEF EntriesOf
  <2>5. E = {i}
    <3> HIDE DEF E
    <3> QED BY <2>3, <2>4
  <2>6. Cardinality(E) = 1
    BY <2>5, FS_Singleton
  <2> QED BY <1>2, <2>6
<1>3. CASE inFlight[b] # p
  <2>1. E = {}
    <3>1. CASE nodes[p] = None
      BY <3>1 DEF EntriesOf
    <3>2. CASE nodes[p] # None
      <4>1. QueueOK(nodes[p], p)
        BY <3>2 DEF IndInv, Queues
      <4> QED BY <1>3, <3>2, <4>1 DEF QueueOK, EntriesOf
    <3> QED BY <3>1, <3>2
  <2>2. Cardinality(E) = 0
    BY <2>1, FS_EmptySet
  <2> QED BY <1>3, <2>2
<1> QED BY <1>2, <1>3

\* Every block that mapBlocksInFlight names is in the queue of that connected
\* peer, once, and in no other queue, and each peer's counter is the length of
\* its queue (MarkBlockAsInFlight, MarkBlockAsReceived, FinalizeNode).
THEOREM RequestsConsistent == Spec => []InFlightConsistent
<1>1. IndInv => InFlightConsistent
  <2> SUFFICES ASSUME IndInv PROVE InFlightConsistent
    OBVIOUS
  <2>1. TypeOK
    BY DEF IndInv, Types, TypeOK
  <2>2. \A p \in Peers, b \in Blocks :
           Cardinality(EntriesOf(p, b)) = (IF inFlight[b] = p THEN 1 ELSE 0)
    BY OneEntry
  <2>3. \A p \in Connected : nodes[p].nBlocksInFlight = Len(nodes[p].vBlocksInFlight)
    BY DEF Connected, IndInv, Queues, QueueOK
  <2> QED BY <2>1, <2>2, <2>3 DEF InFlightConsistent
<1> QED BY <1>1, Invariance, PTL

\* nSyncStarted and nPreferredDownload are exactly the numbers of connected
\* peers they count, whoever connects, greets, times out and leaves, and
\* nQueuedValidatedHeaders never falls below the number of requests.
THEOREM CountersStayExact == Spec => []CountersExact
<1>1. IndInv => CountersExact
  <2>1. Syncing = {p \in Connected : nodes[p].fSyncStarted}
    BY DEF Syncing, Connected
  <2>2. Preferred = {p \in Connected : nodes[p].fPreferredDownload}
    BY DEF Preferred, Connected
  <2> QED BY <2>1, <2>2 DEF IndInv, Counters, Asked, CountersExact
<1> QED BY <1>1, Invariance, PTL

\* A peer is suspected of stalling (SendMessages) only while a request is on
\* its books: MarkBlockAsReceived clears the suspicion with every request that
\* it takes off them.
THEOREM SuspectsOwe == Spec => []StallerOwesBlock
<1>1. IndInv => StallerOwesBlock
  BY DEF IndInv, Queues, QueueOK, StallerOwesBlock, Connected
<1> QED BY <1>1, Invariance, PTL

\* FindNextBlocksToDownload never moves pindexLastCommonBlock to a block with
\* an ancestor whose data is missing.
THEOREM CommonBlocksLinked == Spec => []CommonBlockLinked
<1>1. IndInv => CommonBlockLinked
  BY DEF IndInv, Commons, CommonOK, Linked, CommonBlockLinked, Connected
<1> QED BY <1>1, Invariance, PTL
=============================================================================
