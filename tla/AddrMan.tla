------------------------------- MODULE AddrMan -------------------------------
(***************************************************************************)
(* The address manager (addrman.h, addrman.cpp): peers heard of, in "new"  *)
(* and "tried" tables whose slots follow from a secret key, with a         *)
(* reference count per address, a vector in random order and two counters  *)
(* that must all agree; and peers.dat, from which they are rebuilt.        *)
(*                                                                         *)
(* All operations hold CAddrMan::cs.  Times are left out: whether an       *)
(* announcement is news, whether the stochastic test is passed, and        *)
(* whether an entry is terrible may go either way.  Attempt_, Connected_   *)
(* and Select_ change times only or nothing.  Positions in vRandom count   *)
(* from 1.                                                                 *)
(***************************************************************************)
EXTENDS Integers, Sequences, FiniteSets

CONSTANTS Services, Net,               \* CService, and its CNetAddr (without the port)
          Sources,
          Keys,                        \* the values of nKey
          GetNewBucket, GetTriedBucket, GetBucketPosition,  \* hashes with nKey
          NewBuckets, TriedBuckets, Positions,
          ADDRMAN_NEW_BUCKETS_PER_ADDRESS,
          MaxIds                       \* bound on nIdCount

ASSUME AddrManAssumption ==
    /\ GetNewBucket \in [Keys \X Services \X Sources -> NewBuckets]
    /\ GetTriedBucket \in [Keys \X Services -> TriedBuckets]
    /\ GetBucketPosition \in [Keys \X {"N", "K"} \X (NewBuckets \cup TriedBuckets)
                                  \X Services -> Positions]
    /\ NewBuckets \subseteq Nat /\ TriedBuckets \subseteq Nat /\ Positions \subseteq Nat
    /\ IsFiniteSet(NewBuckets) /\ IsFiniteSet(TriedBuckets) /\ IsFiniteSet(Positions)
    /\ IsFiniteSet(Services)
    /\ ADDRMAN_NEW_BUCKETS_PER_ADDRESS \in Nat \ {0} /\ MaxIds \in Nat

VARIABLE m     \* the members of CAddrMan

\* Empty tables, as Clear leaves them in an object that is new: it does not clear
\* mapInfo and mapAddr, and is only called by the constructor and before a file is
\* read into an object that is still empty.
Cleared(key) ==
    [nKey |-> key, nIdCount |-> 0, mapInfo |-> <<>>, mapAddr |-> <<>>, vRandom |-> <<>>,
     vvNew |-> [slot \in NewBuckets \X Positions |-> -1], nNew |-> 0,
     vvTried |-> [slot \in TriedBuckets \X Positions |-> -1], nTried |-> 0]

NewSlot(am, s, bucket) == <<bucket, GetBucketPosition[am.nKey, "N", bucket, s]>>
PrimarySlot(am, info) == NewSlot(am, info.s, GetNewBucket[am.nKey, info.s, info.source])
TriedSlot(am, s) ==
    LET bucket == GetTriedBucket[am.nKey, s]
    IN  <<bucket, GetBucketPosition[am.nKey, "K", bucket, s]>>

\* f with the value v for x, and f without x.
With(f, x, v) == [y \in DOMAIN f \cup {x} |-> IF y = x THEN v ELSE f[y]]
Without(f, x) == [y \in DOMAIN f \ {x} |-> f[y]]

-----------------------------------------------------------------------------
(* The parts of an operation *)

Create(am, s, source) ==
    LET id == am.nIdCount
    IN  [am EXCEPT
           !.nIdCount = @ + 1,
           !.mapInfo = With(@, id, [s |-> s, source |-> source, nRefCount |-> 0,
                                    fInTried |-> FALSE, nRandomPos |-> Len(am.vRandom) + 1]),
           !.mapAddr = With(@, Net[s], id),
           !.vRandom = Append(@, id)]

SwapRandom(am, i, j) ==
    LET x == am.vRandom[i]
        y == am.vRandom[j]
    IN  IF i = j THEN am
        ELSE [am EXCEPT !.mapInfo[x].nRandomPos = j, !.mapInfo[y].nRandomPos = i,
                        !.vRandom = [k \in DOMAIN @ |-> CASE k = i -> y [] k = j -> x
                                                         [] OTHER -> @[k]]]

Delete_NoSwap(am, id) ==
    [am EXCEPT !.vRandom = SelectSeq(@, LAMBDA x : x # id),
               !.mapAddr = Without(@, Net[am.mapInfo[id].s]),
               !.mapInfo = Without(@, id), !.nNew = @ - 1]
Delete(am, id) ==
    LET swapped == SwapRandom(am, am.mapInfo[id].nRandomPos, Len(am.vRandom))
    IN  [swapped EXCEPT !.vRandom = SubSeq(@, 1, Len(@) - 1),
                        !.mapAddr = Without(@, Net[am.mapInfo[id].s]),
                        !.mapInfo = Without(@, id), !.nNew = @ - 1]

ClearNew(am, slot) ==
    LET id == am.vvNew[slot]
        unref == [am EXCEPT !.mapInfo[id].nRefCount = @ - 1, !.vvNew[slot] = -1]
    IN  IF id = -1 THEN am
        ELSE IF am.mapInfo[id].nRefCount = 1 THEN Delete(unref, id) ELSE unref

\* Put id, which has no reference to this slot yet, into a slot of the new table.
Refer(am, id, slot) ==
    LET free == ClearNew(am, slot)
    IN  [free EXCEPT !.mapInfo[id].nRefCount = @ + 1, !.vvNew[slot] = id]

\* The entry a tried entry displaces goes back to the new table.
Evict_Lost(am, id) ==
    [Delete([am EXCEPT !.mapInfo[id].fInTried = FALSE], id) EXCEPT !.nTried = @ - 1, !.nNew = @ + 1]
Evict(am, id) ==
    LET old == [am EXCEPT !.mapInfo[id].fInTried = FALSE, !.nTried = @ - 1]
    IN  [Refer(old, id, PrimarySlot(am, am.mapInfo[id])) EXCEPT !.nNew = @ + 1]

MakeTried(am, id) ==
    LET s == am.mapInfo[id].s
        held == {b \in NewBuckets : am.vvNew[NewSlot(am, s, b)] = id}
        slot == TriedSlot(am, s)
        off == [am EXCEPT !.vvNew = [x \in DOMAIN @ |->
                                        IF \E b \in held : x = NewSlot(am, s, b) THEN -1 ELSE @[x]],
                          !.mapInfo[id].nRefCount = @ - Cardinality(held),
                          !.nNew = @ - 1]
        free == IF off.vvTried[slot] = -1 THEN off ELSE Evict(off, off.vvTried[slot])
    IN  [free EXCEPT !.vvTried[slot] = id, !.nTried = @ + 1, !.mapInfo[id].fInTried = TRUE]

-----------------------------------------------------------------------------
(* peers.dat *)

\* The place of id among S, and the members of S in the order in which a
\* std::map with these keys is walked.
Rank(S, id) == Cardinality({x \in S : x <= id})
Sorted(S) ==
    LET n == Cardinality(S)
    IN  CHOOSE q \in [1..n -> S] : \A i \in 1..n : Rank(S, q[i]) = i

Referenced(am) == {id \in DOMAIN am.mapInfo : am.mapInfo[id].nRefCount > 0}
Tried(am) == {id \in DOMAIN am.mapInfo : am.mapInfo[id].fInTried}
Entry(am, id) == [s |-> am.mapInfo[id].s, source |-> am.mapInfo[id].source]

\* mapUnkIds: the place of a new entry among those written.
Index_OfAll(am, id) == Rank(DOMAIN am.mapInfo, id)
Index(am, id) == Rank(Referenced(am), id)

\* Serialize: the entries of both tables, and per bucket the indices of its entries.
Serialize(am) ==
    LET new == Sorted(Referenced(am))
        tried == Sorted(Tried(am))
    IN  [nKey |-> am.nKey,
         new |-> [i \in DOMAIN new |-> Entry(am, new[i])],
         tried |-> [i \in DOMAIN tried |-> Entry(am, tried[i])],
         buckets |-> [b \in NewBuckets |->
                         {Index(am, am.vvNew[<<b, p>>]) : p \in {q \in Positions : am.vvNew[<<b, q>>] # -1}}]]

\* The id that gets a slot which the entries with the numbers S want: the first
\* of them, and entries take ids in the order of the file.
First(S) == IF S = {} THEN -1 ELSE (CHOOSE i \in S : \A j \in S : i <= j) - 1

\* The slots as a file fills them.  Its positions are used only if it has the
\* same format; no entry in a file has more references than
\* ADDRMAN_NEW_BUCKETS_PER_ADDRESS.
Wants(f, same, i, b) ==
    IF same THEN i \in f.buckets[b] ELSE GetNewBucket[f.nKey, f.new[i].s, f.new[i].source] = b
NewOf(f, same) ==
    [slot \in NewBuckets \X Positions |->
        First({i \in DOMAIN f.new : /\ Wants(f, same, i, slot[1])
                                    /\ NewSlot(f, f.new[i].s, slot[1]) = slot})]
TriedOf(f) ==
    [slot \in TriedBuckets \X Positions |->
        First({Len(f.new) + i : i \in {k \in DOMAIN f.tried : TriedSlot(f, f.tried[k].s) = slot}})]

\* Unserialize up to the pruning of entries.  The key is in the file, so the
\* tried addresses of a file have a slot each, as they had before: nLost is 0.
Loaded(f, same) ==
    LET entries == f.new \o f.tried
        new == NewOf(f, same)
    IN  [Cleared(f.nKey) EXCEPT
            !.nIdCount = Len(entries),
            !.mapInfo = [id \in 0 .. Len(entries) - 1 |->
                [s |-> entries[id + 1].s, source |-> entries[id + 1].source,
                 nRefCount |-> Cardinality({slot \in DOMAIN new : new[slot] = id}),
                 fInTried |-> id >= Len(f.new), nRandomPos |-> id + 1]],
            !.mapAddr = [n \in {Net[entries[i].s] : i \in DOMAIN entries} |->
                            (CHOOSE i \in DOMAIN entries : Net[entries[i].s] = n) - 1],
            !.vRandom = [i \in DOMAIN entries |-> i - 1],
            !.vvNew = new, !.nNew = Len(f.new),
            !.vvTried = TriedOf(f), !.nTried = Len(f.tried)]

\* Entries of the new table that got no slot are deleted, in the order of mapInfo.
Lost(am) == {id \in DOMAIN am.mapInfo : ~am.mapInfo[id].fInTried /\ am.mapInfo[id].nRefCount = 0}
Pruned(am, q) ==
    LET pruned[i \in 0 .. Len(q)] == IF i = 0 THEN am ELSE Delete(pruned[i - 1], q[i])
    IN  pruned[Len(q)]
Unserialize(f, same) ==
    LET am == Loaded(f, same)
    IN  IF Lost(am) = {} THEN am ELSE Pruned(am, Sorted(Lost(am)))

-----------------------------------------------------------------------------
(* Operations *)

Init == \E key \in Keys : m = Cleared(key)

\* Add_ for an address that is news; over says whether an entry in the slot is
\* terrible.
Inserts(am, id, slot, terrible) ==
    LET there == am.vvNew[slot]
    IN  IF there = -1 THEN TRUE
        ELSE terrible \/ (am.mapInfo[there].nRefCount > 1 /\ am.mapInfo[id].nRefCount = 0)
Added(s, source, terrible) ==
    LET known == Net[s] \in DOMAIN m.mapAddr
        id == IF known THEN m.mapAddr[Net[s]] ELSE m.nIdCount
        am == IF known THEN m ELSE [Create(m, s, source) EXCEPT !.nNew = @ + 1]
        slot == NewSlot(am, am.mapInfo[id].s, GetNewBucket[am.nKey, am.mapInfo[id].s, source])
    IN  IF am.vvNew[slot] = id THEN am
        ELSE IF Inserts(am, id, slot, terrible) THEN Refer(am, id, slot)
        ELSE IF am.mapInfo[id].nRefCount = 0 THEN Delete(am, id) ELSE am

MayGrow(id) ==
    ~m.mapInfo[id].fInTried /\ m.mapInfo[id].nRefCount # ADDRMAN_NEW_BUCKETS_PER_ADDRESS
Add(s, source, terrible) ==
    /\ IF Net[s] \in DOMAIN m.mapAddr THEN MayGrow(m.mapAddr[Net[s]]) ELSE m.nIdCount < MaxIds
    /\ m' = Added(s, source, terrible)

\* Good_; only for the very service, port included, and only from the new table.
Good(s) ==
    /\ Net[s] \in DOMAIN m.mapAddr
    /\ LET id == m.mapAddr[Net[s]]
       IN  /\ m.mapInfo[id].s = s /\ ~m.mapInfo[id].fInTried
           /\ \E b \in NewBuckets : m.vvNew[NewSlot(m, s, b)] = id
           /\ m' = MakeTried(m, id)

\* One of the swaps by which GetAddr_ shuffles as much of vRandom as it returns.
GetAddr(i, j) == i < j /\ m' = SwapRandom(m, i, j)

\* DumpAddresses writes peers.dat, and the next start reads it.  The file of
\* an earlier time, which a crash leaves, gives a state that a restart at that
\* time gives as well.  The file may come from a build with other tables.
Restart == \E same \in BOOLEAN : m' = Unserialize(Serialize(m), same)

\* A crash while peers.dat is written in place, or no file: all is forgotten.
RestartEmpty == \E key \in Keys : m' = Cleared(key)

Next ==
    \/ \E s \in Services : \/ Good(s)
                           \/ \E source \in Sources, t \in BOOLEAN : Add(s, source, t)
    \/ \E i, j \in DOMAIN m.vRandom : GetAddr(i, j)
    \/ Restart \/ RestartEmpty

Spec == Init /\ [][Next]_m

-----------------------------------------------------------------------------
(* Properties *)

Present(am, fInTried) ==
    {am.mapInfo[id].s : id \in {x \in DOMAIN am.mapInfo : am.mapInfo[x].fInTried = fInTried}}

\* Type invariant: mapInfo, mapAddr and the tables hold ids that were given
\* out, and references are counted up to their limit.
TypeOK ==
    /\ m.nKey \in Keys /\ m.nIdCount \in 0..(MaxIds + Cardinality(Services))
    /\ DOMAIN m.mapInfo \subseteq 0 .. m.nIdCount - 1
    /\ \A id \in DOMAIN m.mapInfo : m.mapInfo[id].nRefCount \in 0..ADDRMAN_NEW_BUCKETS_PER_ADDRESS
    /\ m.nNew \in Nat /\ m.nTried \in Nat

\* The consistency check the developers left in the code, Check_ (addrman.cpp
\* 378-452): counters, reference counts, slots, the random vector and mapAddr
\* agree after any sequence of operations, collisions, evictions and reloads.
CheckPasses ==
    /\ TypeOK
    /\ Len(m.vRandom) = m.nNew + m.nTried
    /\ m.nTried = Cardinality({id \in DOMAIN m.mapInfo : m.mapInfo[id].fInTried})
    /\ m.nNew = Cardinality({id \in DOMAIN m.mapInfo : ~m.mapInfo[id].fInTried})
    /\ \A id \in DOMAIN m.mapInfo :
          LET info == m.mapInfo[id]
              refs == {slot \in DOMAIN m.vvNew : m.vvNew[slot] = id}
              tried == {slot \in DOMAIN m.vvTried : m.vvTried[slot] = id}
          IN  /\ info.nRefCount = Cardinality(refs)
              /\ IF info.fInTried THEN refs = {} /\ tried = {TriedSlot(m, info.s)}
                                  ELSE refs # {} /\ tried = {}
              /\ \A slot \in refs : slot = NewSlot(m, info.s, slot[1])
              /\ Net[info.s] \in DOMAIN m.mapAddr /\ m.mapAddr[Net[info.s]] = id
              /\ info.nRandomPos \in DOMAIN m.vRandom /\ m.vRandom[info.nRandomPos] = id
    /\ \A slot \in DOMAIN m.vvNew : m.vvNew[slot] \in DOMAIN m.mapInfo \cup {-1}
    /\ \A slot \in DOMAIN m.vvTried : m.vvTried[slot] \in DOMAIN m.mapInfo \cup {-1}

\* What peers.dat preserves (addrman.h 277-427): the manager read back from it
\* has the same service in every slot of both tables, although ids, mapAddr,
\* vRandom and vvTried are not in the file.
Content(am) ==
    LET service(id) == IF id = -1 THEN {} ELSE {am.mapInfo[id].s}
    IN  <<[slot \in DOMAIN am.vvNew |-> service(am.vvNew[slot])],
          [slot \in DOMAIN am.vvTried |-> service(am.vvTried[slot])]>>
ReloadKeepsTables == Content(Unserialize(Serialize(m), TRUE)) = Content(m)

\* While the node runs, a peer leaves the tried table only for another that
\* takes its slot, and the step that moves it out puts it into the new table
\* (addrman.cpp 150-196), whatever entry held the slot there.  No more than that:
\* in the new table it may later give way to other addresses (135-148, 297-303).
EvictedBecomesNew ==
    [][~Restart /\ ~RestartEmpty =>
          /\ Present(m, TRUE) \ Present(m', TRUE) \subseteq Present(m', FALSE)
          /\ \A slot \in DOMAIN m.vvTried : m.vvTried[slot] # -1 => m'.vvTried[slot] # -1]_m
=============================================================================
