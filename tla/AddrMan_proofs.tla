--------------------------- MODULE AddrMan_proofs ---------------------------
(***************************************************************************)
(* Proofs about the address manager, for every set of services and         *)
(* sources, every key, every choice of the hash functions and every size   *)
(* of the tables: the check the developers left in the code passes after   *)
(* any sequence of operations, a peer that leaves the tried table is new,  *)
(* and peers.dat gives back the tables that were written to it.            *)
(***************************************************************************)
EXTENDS AddrMan, FiniteSetTheorems, SequenceTheorems, TLAPS

-----------------------------------------------------------------------------
(* The inductive invariant *)

NewSlots == NewBuckets \X Positions
TriedSlots == TriedBuckets \X Positions

Info == [s : Services, source : Sources, nRefCount : Int, fInTried : BOOLEAN, nRandomPos : Nat]
InfoMaps == UNION {[D -> Info] : D \in SUBSET Nat}
AddrMaps == UNION {[D -> Nat] : D \in SUBSET {Net[s] : s \in Services}}
Managers ==
    [nKey : Keys, nIdCount : Nat, mapInfo : InfoMaps, mapAddr : AddrMaps, vRandom : Seq(Nat),
     vvNew : [NewSlots -> Int], nNew : Int, vvTried : [TriedSlots -> Int], nTried : Int]

\* Ids are given out in order, and vRandom lists those in use.
Random(am) ==
    /\ \A id \in DOMAIN am.mapInfo :
          /\ id < am.nIdCount
          /\ am.mapInfo[id].nRandomPos \in 1 .. Len(am.vRandom)
          /\ am.vRandom[am.mapInfo[id].nRandomPos] = id
    /\ \A i \in 1 .. Len(am.vRandom) :
          /\ am.vRandom[i] \in DOMAIN am.mapInfo
          /\ am.mapInfo[am.vRandom[i]].nRandomPos = i

\* mapAddr finds the entry of each address, and nothing else.
Addresses(am) ==
    /\ \A id \in DOMAIN am.mapInfo :
          Net[am.mapInfo[id].s] \in DOMAIN am.mapAddr /\ am.mapAddr[Net[am.mapInfo[id].s]] = id
    /\ \A n \in DOMAIN am.mapAddr :
          am.mapAddr[n] \in DOMAIN am.mapInfo /\ Net[am.mapInfo[am.mapAddr[n]].s] = n

\* Slots of the new table hold entries that belong there, and nRefCount counts them.
Refs(am, id) == {slot \in NewSlots : am.vvNew[slot] = id}
NewTable(am) ==
    /\ \A slot \in NewSlots : am.vvNew[slot] # -1 =>
          /\ am.vvNew[slot] \in DOMAIN am.mapInfo
          /\ ~am.mapInfo[am.vvNew[slot]].fInTried
          /\ NewSlot(am, am.mapInfo[am.vvNew[slot]].s, slot[1]) = slot
    /\ \A id \in DOMAIN am.mapInfo : am.mapInfo[id].nRefCount = Cardinality(Refs(am, id))

\* Slots of the tried table hold entries that belong there, and each tried
\* entry is in its slot.
TriedTable(am) ==
    /\ \A slot \in TriedSlots : am.vvTried[slot] # -1 =>
          /\ am.vvTried[slot] \in DOMAIN am.mapInfo
          /\ am.mapInfo[am.vvTried[slot]].fInTried
          /\ TriedSlot(am, am.mapInfo[am.vvTried[slot]].s) = slot
    /\ \A id \in DOMAIN am.mapInfo :
          am.mapInfo[id].fInTried => am.vvTried[TriedSlot(am, am.mapInfo[id].s)] = id

Untried(am) == DOMAIN am.mapInfo \ Tried(am)
Counters(am) ==
    /\ am.nNew = Cardinality(Untried(am)) /\ am.nTried = Cardinality(Tried(am))
    /\ Len(am.vRandom) = am.nNew + am.nTried

\* What the parts of an operation keep, what holds between the deletions when
\* a file is read, and what holds between operations.
Base(am) == am \in Managers /\ Random(am) /\ Addresses(am) /\ NewTable(am)
Coherent(am) == Base(am) /\ TriedTable(am) /\ Counters(am)
Limited(am) ==
    /\ am.nIdCount <= MaxIds + Cardinality(Services)
    /\ \A id \in DOMAIN am.mapInfo : am.mapInfo[id].nRefCount <= ADDRMAN_NEW_BUCKETS_PER_ADDRESS
InTable(am) == \A id \in DOMAIN am.mapInfo : am.mapInfo[id].fInTried \/ am.mapInfo[id].nRefCount > 0
Sound(am) == Coherent(am) /\ Limited(am) /\ InTable(am)
IndInv == Sound(m)

-----------------------------------------------------------------------------
(* Types *)

LEMMA InfoMapsDef ==
    ASSUME NEW f
    PROVE  f \in InfoMaps <=> /\ DOMAIN f \subseteq Nat
                              /\ f = [x \in DOMAIN f |-> f[x]]
                              /\ \A x \in DOMAIN f : f[x] \in Info
<1>1. ASSUME f \in InfoMaps
      PROVE  DOMAIN f \subseteq Nat /\ f = [x \in DOMAIN f |-> f[x]] /\ \A x \in DOMAIN f : f[x] \in Info
  <2>1. PICK D \in SUBSET Nat : f \in [D -> Info]
    BY <1>1 DEF InfoMaps
  <2> QED BY <2>1
<1>2. ASSUME DOMAIN f \subseteq Nat, f = [x \in DOMAIN f |-> f[x]], \A x \in DOMAIN f : f[x] \in Info
      PROVE  f \in InfoMaps
  <2>1. f \in [DOMAIN f -> Info]
    BY <1>2
  <2> QED BY <1>2, <2>1 DEF InfoMaps
<1> QED BY <1>1, <1>2

LEMMA AddrMapsDef ==
    ASSUME NEW f
    PROVE  f \in AddrMaps <=> /\ DOMAIN f \subseteq {Net[s] : s \in Services}
                              /\ f = [x \in DOMAIN f |-> f[x]]
                              /\ \A x \in DOMAIN f : f[x] \in Nat
<1>1. ASSUME f \in AddrMaps
      PROVE  /\ DOMAIN f \subseteq {Net[s] : s \in Services}
             /\ f = [x \in DOMAIN f |-> f[x]] /\ \A x \in DOMAIN f : f[x] \in Nat
  <2>1. PICK D \in SUBSET {Net[s] : s \in Services} : f \in [D -> Nat]
    BY <1>1 DEF AddrMaps
  <2> QED BY <2>1
<1>2. ASSUME DOMAIN f \subseteq {Net[s] : s \in Services},
             f = [x \in DOMAIN f |-> f[x]], \A x \in DOMAIN f : f[x] \in Nat
      PROVE  f \in AddrMaps
  <2>1. f \in [DOMAIN f -> Nat]
    BY <1>2
  <2> QED BY <1>2, <2>1 DEF AddrMaps
<1> QED BY <1>1, <1>2

\* What is known of a manager and of its entries.
LEMMA ManagerType ==
    ASSUME NEW am \in Managers
    PROVE  /\ DOMAIN am = {"nKey", "nIdCount", "mapInfo", "mapAddr", "vRandom",
                           "vvNew", "nNew", "vvTried", "nTried"}
           /\ am.nKey \in Keys /\ am.nIdCount \in Nat /\ am.nNew \in Int /\ am.nTried \in Int
           /\ am.vvNew \in [NewSlots -> Int] /\ am.vvTried \in [TriedSlots -> Int]
           /\ am.vRandom \in Seq(Nat) /\ Len(am.vRandom) \in Nat
           /\ DOMAIN am.vRandom = 1 .. Len(am.vRandom)
           /\ \A i \in 1 .. Len(am.vRandom) : am.vRandom[i] \in Nat
           /\ DOMAIN am.mapInfo \subseteq Nat
           /\ am.mapInfo = [id \in DOMAIN am.mapInfo |-> am.mapInfo[id]]
           /\ \A id \in DOMAIN am.mapInfo :
                 /\ am.mapInfo[id] \in Info
                 /\ am.mapInfo[id].s \in Services /\ am.mapInfo[id].source \in Sources
                 /\ am.mapInfo[id].nRefCount \in Int /\ am.mapInfo[id].fInTried \in BOOLEAN
                 /\ am.mapInfo[id].nRandomPos \in Nat
           /\ DOMAIN am.mapAddr \subseteq {Net[s] : s \in Services}
           /\ am.mapAddr = [n \in DOMAIN am.mapAddr |-> am.mapAddr[n]]
           /\ \A n \in DOMAIN am.mapAddr : am.mapAddr[n] \in Nat
<1>1. am.mapInfo \in InfoMaps /\ am.mapAddr \in AddrMaps
  BY DEF Managers
<1>2. am.vRandom \in Seq(Nat)
  BY DEF Managers
<1>3. \A id \in DOMAIN am.mapInfo : am.mapInfo[id] \in Info
  BY <1>1, InfoMapsDef
<1>4. \A id \in DOMAIN am.mapInfo :
                 /\ am.mapInfo[id].s \in Services /\ am.mapInfo[id].source \in Sources
                 /\ am.mapInfo[id].nRefCount \in Int /\ am.mapInfo[id].fInTried \in BOOLEAN
                 /\ am.mapInfo[id].nRandomPos \in Nat
  BY <1>3 DEF Info
<1>5. Len(am.vRandom) \in Nat /\ DOMAIN am.vRandom = 1 .. Len(am.vRandom)
      /\ \A i \in 1 .. Len(am.vRandom) : am.vRandom[i] \in Nat
  BY <1>2
<1>6. DOMAIN am.mapInfo \subseteq Nat /\ am.mapInfo = [id \in DOMAIN am.mapInfo |-> am.mapInfo[id]]
  BY <1>1, InfoMapsDef
<1>7. /\ DOMAIN am.mapAddr \subseteq {Net[s] : s \in Services}
      /\ am.mapAddr = [n \in DOMAIN am.mapAddr |-> am.mapAddr[n]]
      /\ \A n \in DOMAIN am.mapAddr : am.mapAddr[n] \in Nat
  BY <1>1, AddrMapsDef
<1>8. /\ DOMAIN am = {"nKey", "nIdCount", "mapInfo", "mapAddr", "vRandom",
                           "vvNew", "nNew", "vvTried", "nTried"}
      /\ am.nKey \in Keys /\ am.nIdCount \in Nat /\ am.nNew \in Int /\ am.nTried \in Int
      /\ am.vvNew \in [NewSlots -> Int] /\ am.vvTried \in [TriedSlots -> Int]
  BY DEF Managers
<1> QED BY <1>2, <1>3, <1>4, <1>5, <1>6, <1>7, <1>8

LEMMA SlotTypes ==
    ASSUME NEW am \in Managers, NEW s \in Services
    PROVE  /\ TriedSlot(am, s) \in TriedSlots
           /\ \A b \in NewBuckets : NewSlot(am, s, b) \in NewSlots /\ NewSlot(am, s, b)[1] = b
           /\ \A source \in Sources : GetNewBucket[am.nKey, s, source] \in NewBuckets
<1>1. am.nKey \in Keys
  BY ManagerType
<1>2. GetTriedBucket[am.nKey, s] \in TriedBuckets
  BY <1>1, AddrManAssumption
<1>3. \A b \in NewBuckets \cup TriedBuckets : \A k \in {"N", "K"} :
          GetBucketPosition[am.nKey, k, b, s] \in Positions
  BY <1>1, AddrManAssumption
<1>4. \A source \in Sources : GetNewBucket[am.nKey, s, source] \in NewBuckets
  BY <1>1, AddrManAssumption
<1> QED BY <1>2, <1>3, <1>4 DEF TriedSlot, NewSlot, TriedSlots, NewSlots

\* A record put together from fields of these types is a manager.
LEMMA Assembled ==
    ASSUME NEW am, 
           DOMAIN am = {"nKey", "nIdCount", "mapInfo", "mapAddr", "vRandom",
                           "vvNew", "nNew", "vvTried", "nTried"},
           am = [x \in DOMAIN am |-> am[x]],
           am.nKey \in Keys, am.nIdCount \in Nat, am.nNew \in Int, am.nTried \in Int,
           am.vvNew \in [NewSlots -> Int], am.vvTried \in [TriedSlots -> Int],
           am.vRandom \in Seq(Nat), am.mapInfo \in InfoMaps, am.mapAddr \in AddrMaps
    PROVE  am \in Managers
BY DEF Managers

-----------------------------------------------------------------------------
(* SwapRandom and Delete *)

\* r and t are the same entry, but for the place in vRandom.
SameEntry(r, t) ==
    r.s = t.s /\ r.source = t.source /\ r.nRefCount = t.nRefCount /\ r.fInTried = t.fInTried

\* b has the entries and tables of a.
Alike(a, b) ==
    /\ DOMAIN b.mapInfo = DOMAIN a.mapInfo
    /\ \A id \in DOMAIN a.mapInfo : SameEntry(b.mapInfo[id], a.mapInfo[id])
    /\ b.nKey = a.nKey /\ b.nIdCount = a.nIdCount /\ b.mapAddr = a.mapAddr
    /\ b.vvNew = a.vvNew /\ b.nNew = a.nNew /\ b.vvTried = a.vvTried /\ b.nTried = a.nTried
    /\ Len(b.vRandom) = Len(a.vRandom)

\* An entry is changed one member at a time.
LEMMA EntryChanges ==
    ASSUME NEW r \in Info, NEW k \in Nat, NEW n \in Int
    PROVE  /\ [r EXCEPT !.nRandomPos = k] \in Info /\ SameEntry([r EXCEPT !.nRandomPos = k], r)
           /\ [r EXCEPT !.nRandomPos = k].nRandomPos = k
           /\ [r EXCEPT !.nRefCount = n] \in Info
           /\ [r EXCEPT !.nRefCount = n].s = r.s /\ [r EXCEPT !.nRefCount = n].source = r.source
           /\ [r EXCEPT !.nRefCount = n].fInTried = r.fInTried
           /\ [r EXCEPT !.nRefCount = n].nRefCount = n
           /\ [r EXCEPT !.nRefCount = n].nRandomPos = r.nRandomPos
<1>1. /\ [r EXCEPT !.nRandomPos = k] \in Info /\ [r EXCEPT !.nRefCount = n] \in Info
  BY DEF Info
<1>2. [r EXCEPT !.nRandomPos = k].nRandomPos = k /\ [r EXCEPT !.nRefCount = n].nRefCount = n
  BY DEF Info
<1>3. [r EXCEPT !.nRandomPos = k].s = r.s /\ [r EXCEPT !.nRandomPos = k].source = r.source
  BY DEF Info
<1>4. [r EXCEPT !.nRandomPos = k].fInTried = r.fInTried /\ [r EXCEPT !.nRefCount = n].fInTried = r.fInTried
  BY DEF Info
<1>5. [r EXCEPT !.nRandomPos = k].nRefCount = r.nRefCount
  BY DEF Info
<1>6. /\ [r EXCEPT !.nRefCount = n].s = r.s /\ [r EXCEPT !.nRefCount = n].source = r.source
      /\ [r EXCEPT !.nRefCount = n].nRandomPos = r.nRandomPos
  BY DEF Info
<1> QED BY <1>1, <1>2, <1>3, <1>4, <1>5, <1>6 DEF SameEntry

LEMMA SwapFacts ==
    ASSUME NEW am \in Managers, Random(am),
           NEW i \in 1 .. Len(am.vRandom), NEW j \in 1 .. Len(am.vRandom)
    PROVE  /\ SwapRandom(am, i, j) \in Managers /\ Random(SwapRandom(am, i, j))
           /\ Alike(am, SwapRandom(am, i, j))
           /\ SwapRandom(am, i, j).vRandom[j] = am.vRandom[i]
<1> DEFINE x == am.vRandom[i]
           y == am.vRandom[j]
           b == SwapRandom(am, i, j)
           info == [id \in DOMAIN am.mapInfo |->
                      IF id = x THEN [am.mapInfo[id] EXCEPT !.nRandomPos = j]
                      ELSE IF id = y THEN [am.mapInfo[id] EXCEPT !.nRandomPos = i]
                      ELSE am.mapInfo[id]]
           vec == [k \in 1 .. Len(am.vRandom) |-> IF k = i THEN y ELSE IF k = j THEN x ELSE am.vRandom[k]]
<1>1. CASE i = j
  <2>1. b = am
    BY <1>1 DEF SwapRandom
  <2> QED BY <1>1, <2>1 DEF Alike, SameEntry
<1>2. CASE i # j
  <2>1. /\ x \in DOMAIN am.mapInfo /\ y \in DOMAIN am.mapInfo
        /\ am.mapInfo[x].nRandomPos = i /\ am.mapInfo[y].nRandomPos = j /\ x # y
    BY <1>2 DEF Random
  <2>2. b = [[am EXCEPT !.mapInfo = info] EXCEPT !.vRandom = vec]
    <3>1. DOMAIN am.vRandom = 1 .. Len(am.vRandom)
      BY ManagerType
    <3>2. [[am.mapInfo EXCEPT ![x].nRandomPos = j] EXCEPT ![y].nRandomPos = i] = info
      BY <2>1, ManagerType
    <3>3. [k \in DOMAIN am.vRandom |-> CASE k = i -> y [] k = j -> x [] OTHER -> am.vRandom[k]] = vec
      BY <1>2, <3>1
    <3> HIDE DEF info, vec
    <3>4. b = [am EXCEPT !.mapInfo[x].nRandomPos = j, !.mapInfo[y].nRandomPos = i,
                        !.vRandom = [k \in DOMAIN @ |-> CASE k = i -> y [] k = j -> x
                                                         [] OTHER -> @[k]]]
      BY <1>2 DEF SwapRandom
    <3>5. b = [am EXCEPT !.mapInfo = [[am.mapInfo EXCEPT ![x].nRandomPos = j] EXCEPT ![y].nRandomPos = i],
                         !.vRandom = [k \in DOMAIN am.vRandom |-> CASE k = i -> y [] k = j -> x
                                                         [] OTHER -> am.vRandom[k]]]
      BY <3>4, ManagerType
    <3> QED BY <3>2, <3>3, <3>5
  <2> HIDE DEF b
  <2>3. /\ DOMAIN b = DOMAIN am /\ b = [z \in DOMAIN b |-> b[z]]
        /\ b.mapInfo = info /\ b.vRandom = vec
        /\ b.nKey = am.nKey /\ b.nIdCount = am.nIdCount /\ b.mapAddr = am.mapAddr
        /\ b.vvNew = am.vvNew /\ b.nNew = am.nNew /\ b.vvTried = am.vvTried /\ b.nTried = am.nTried
    <3> HIDE DEF info, vec
    <3> QED BY <2>2, ManagerType
  <2>4. /\ \A k \in 1 .. Len(am.vRandom) : vec[k] \in Nat
        /\ Len(am.vRandom) \in Nat
    BY ManagerType
  <2>5. vec \in Seq(Nat) /\ Len(vec) = Len(am.vRandom)
    <3>1. vec \in [1 .. Len(am.vRandom) -> Nat]
      BY <2>4
    <3> HIDE DEF vec
    <3> QED BY <2>4, <3>1, SMTT(30)
  <2>6. \A id \in DOMAIN am.mapInfo : info[id] \in Info /\ SameEntry(info[id], am.mapInfo[id])
    <3> SUFFICES ASSUME NEW id \in DOMAIN am.mapInfo
                 PROVE  info[id] \in Info /\ SameEntry(info[id], am.mapInfo[id])
      OBVIOUS
    <3>1. am.mapInfo[id] \in Info
      BY ManagerType
    <3>2. i \in Nat /\ j \in Nat /\ 0 \in Int
      BY ManagerType
    <3>3. SameEntry(am.mapInfo[id], am.mapInfo[id])
      BY DEF SameEntry
    <3> QED BY <3>1, <3>2, <3>3, EntryChanges
  <2>7. info \in InfoMaps
    <3>1. info = [id \in DOMAIN info |-> info[id]] /\ DOMAIN info = DOMAIN am.mapInfo
      OBVIOUS
    <3> HIDE DEF info
    <3> QED BY <2>6, <3>1, ManagerType, InfoMapsDef
  <2>8. b \in Managers
    <3>1. am.mapAddr \in AddrMaps
      BY DEF Managers
    <3> QED BY <2>3, <2>5, <2>7, <3>1, ManagerType, Assembled
  <2>9. Alike(am, b)
    <3>1. DOMAIN info = DOMAIN am.mapInfo
      OBVIOUS
    <3> HIDE DEF info, vec
    <3> QED BY <2>3, <2>5, <2>6, <3>1 DEF Alike
  <2>10. Random(b)
    <3>1. /\ \A id \in DOMAIN am.mapInfo :
               info[id].nRandomPos = IF id = x THEN j ELSE IF id = y THEN i ELSE am.mapInfo[id].nRandomPos
          /\ DOMAIN info = DOMAIN am.mapInfo
      BY ManagerType DEF Info
    <3>2. \A k \in 1 .. Len(am.vRandom) : vec[k] = IF k = i THEN y ELSE IF k = j THEN x ELSE am.vRandom[k]
      OBVIOUS
    <3> HIDE DEF info, vec
    <3>3. ASSUME NEW id \in DOMAIN am.mapInfo
          PROVE  /\ id < b.nIdCount /\ info[id].nRandomPos \in 1 .. Len(vec) /\ vec[info[id].nRandomPos] = id
      <4>1. id < am.nIdCount /\ am.mapInfo[id].nRandomPos \in 1 .. Len(am.vRandom)
            /\ am.vRandom[am.mapInfo[id].nRandomPos] = id
        BY DEF Random
      <4> HIDE DEF x, y
      <4>2. CASE id = x
        BY <1>2, <2>1, <2>3, <2>5, <3>1, <3>2, <4>1, <4>2
      <4>3. CASE id = y
        BY <1>2, <2>1, <2>3, <2>5, <3>1, <3>2, <4>1, <4>3
      <4>4. CASE id # x /\ id # y
        <5>1. am.mapInfo[id].nRandomPos # i /\ am.mapInfo[id].nRandomPos # j
          BY <4>1, <4>4 DEF x, y
        <5> QED BY <2>3, <2>5, <3>1, <3>2, <4>1, <4>4, <5>1
      <4> QED BY <4>2, <4>3, <4>4
    <3>4. ASSUME NEW k \in 1 .. Len(vec)
          PROVE  vec[k] \in DOMAIN info /\ info[vec[k]].nRandomPos = k
      <4>1. k \in 1 .. Len(am.vRandom)
        BY <2>5
      <4>2. am.vRandom[k] \in DOMAIN am.mapInfo /\ am.mapInfo[am.vRandom[k]].nRandomPos = k
        BY <4>1 DEF Random
      <4> HIDE DEF x, y
      <4>3. CASE k = i
        BY <1>2, <2>1, <3>1, <3>2, <4>1, <4>3
      <4>4. CASE k = j
        BY <1>2, <2>1, <3>1, <3>2, <4>1, <4>4
      <4>5. CASE k # i /\ k # j
        <5>1. am.vRandom[k] # x /\ am.vRandom[k] # y
          BY <2>1, <4>2, <4>5
        <5> QED BY <3>1, <3>2, <4>1, <4>2, <4>5, <5>1
      <4> QED BY <4>3, <4>4, <4>5
    <3> QED BY <2>3, <2>5, <3>1, <3>3, <3>4 DEF Random
  <2>11. b.vRandom[j] = x
    BY <1>2, <2>3
  <2> QED BY <2>8, <2>9, <2>10, <2>11 DEF b
<1> QED BY <1>1, <1>2

LEMMA SlotsFinite ==
    /\ IsFiniteSet(NewSlots) /\ IsFiniteSet(TriedSlots)
    /\ \A am, id : IsFiniteSet(Refs(am, id)) /\ Cardinality(Refs(am, id)) \in Nat
<1>1. IsFiniteSet(NewSlots) /\ IsFiniteSet(TriedSlots)
  BY AddrManAssumption, FS_Product DEF NewSlots, TriedSlots
<1>2. \A am, id : Refs(am, id) \subseteq NewSlots
  BY DEF Refs
<1> QED BY <1>1, <1>2, FS_Subset, FS_CardinalityType

\* b is a without the entry id.
Dropped(a, b, id) ==
    /\ DOMAIN b.mapInfo = DOMAIN a.mapInfo \ {id}
    /\ \A x \in DOMAIN b.mapInfo : SameEntry(b.mapInfo[x], a.mapInfo[x])
    /\ b.nKey = a.nKey /\ b.nIdCount = a.nIdCount
    /\ b.vvNew = a.vvNew /\ b.vvTried = a.vvTried /\ b.nTried = a.nTried
    /\ b.nNew = a.nNew - 1 /\ Len(b.vRandom) = Len(a.vRandom) - 1

\* Slots depend on the key and the service only.
LEMMA SameSlots ==
    ASSUME NEW a, NEW b, b.nKey = a.nKey
    PROVE  \A s, k : NewSlot(b, s, k) = NewSlot(a, s, k) /\ TriedSlot(b, s) = TriedSlot(a, s)
BY DEF NewSlot, TriedSlot

LEMMA DeleteFacts ==
    ASSUME NEW am, Base(am), NEW id \in DOMAIN am.mapInfo, am.mapInfo[id].nRefCount = 0
    PROVE  Base(Delete(am, id)) /\ Dropped(am, Delete(am, id), id)
<1> DEFINE n == Len(am.vRandom)
           b == SwapRandom(am, am.mapInfo[id].nRandomPos, n)
           d == Delete(am, id)
           gone == Net[am.mapInfo[id].s]
           vec == SubSeq(b.vRandom, 1, Len(b.vRandom) - 1)
           info == Without(b.mapInfo, id)
           addr == Without(b.mapAddr, gone)
<1>1. am \in Managers /\ Random(am) /\ Addresses(am) /\ NewTable(am)
  BY DEF Base
<1>2. /\ am.mapInfo[id].nRandomPos \in 1 .. n /\ am.vRandom[am.mapInfo[id].nRandomPos] = id
      /\ n \in Nat /\ n \in 1 .. n
  BY <1>1, ManagerType DEF Random
<1>3. b \in Managers /\ Random(b) /\ Alike(am, b) /\ b.vRandom[n] = id
  BY <1>1, <1>2, SwapFacts
<1>4. d = [b EXCEPT !.vRandom = vec, !.mapAddr = addr, !.mapInfo = info, !.nNew = b.nNew - 1]
  BY DEF Delete
<1> HIDE DEF d, b
<1>5. /\ DOMAIN d = DOMAIN b /\ d = [z \in DOMAIN d |-> d[z]]
      /\ d.mapInfo = info /\ d.vRandom = vec /\ d.mapAddr = addr
      /\ d.nKey = am.nKey /\ d.nIdCount = am.nIdCount
      /\ d.vvNew = am.vvNew /\ d.nNew = am.nNew - 1 /\ d.vvTried = am.vvTried /\ d.nTried = am.nTried
  <2> HIDE DEF info, vec, addr
  <2>1. DOMAIN b = {"nKey", "nIdCount", "mapInfo", "mapAddr", "vRandom",
                           "vvNew", "nNew", "vvTried", "nTried"}
    BY <1>3, ManagerType
  <2>2. /\ DOMAIN d = DOMAIN b /\ d = [z \in DOMAIN d |-> d[z]]
        /\ d.mapInfo = info /\ d.vRandom = vec /\ d.mapAddr = addr
        /\ d.nKey = b.nKey /\ d.nIdCount = b.nIdCount
        /\ d.vvNew = b.vvNew /\ d.nNew = b.nNew - 1 /\ d.vvTried = b.vvTried /\ d.nTried = b.nTried
    BY <1>4, <2>1
  <2> QED BY <1>3, <2>2 DEF Alike
<1>6. /\ DOMAIN info = DOMAIN am.mapInfo \ {id}
      /\ \A x \in DOMAIN am.mapInfo \ {id} : info[x] = b.mapInfo[x]
      /\ info = [x \in DOMAIN info |-> info[x]]
  BY <1>3 DEF Without, Alike
<1>7. /\ DOMAIN addr = DOMAIN am.mapAddr \ {gone}
      /\ \A x \in DOMAIN am.mapAddr \ {gone} : addr[x] = am.mapAddr[x]
      /\ addr = [x \in DOMAIN addr |-> addr[x]]
  BY <1>3 DEF Without, Alike
<1>8. /\ vec \in Seq(Nat) /\ Len(vec) = n - 1
      /\ \A k \in 1 .. n - 1 : vec[k] = b.vRandom[k]
  <2>1. Len(b.vRandom) = n /\ \A k \in 1 .. n : b.vRandom[k] \in Nat
    BY <1>3, ManagerType DEF Alike
  <2> DEFINE u == b.vRandom
             l == n - 1
  <2>2. vec = SubSeq(u, 1, l) /\ l \in Int /\ 1 \in Int /\ \A k \in 1 .. l : u[k] \in Nat
    BY <1>2, <2>1
  <2>3. l - 1 + 1 = l /\ (IF 1 <= l THEN l - 1 + 1 ELSE 0) = l /\ \A k \in 1 .. l : 1 + k - 1 = k
    BY <1>2
  <2> HIDE DEF u, l
  <2>4. /\ SubSeq(u, 1, l) \in Seq(Nat) /\ Len(SubSeq(u, 1, l)) = l
        /\ \A k \in 1 .. l : SubSeq(u, 1, l)[k] = u[1 + k - 1]
    BY <2>2, <2>3, SubSeqProperties
  <2>5. vec \in Seq(Nat) /\ Len(vec) = l /\ \A k \in 1 .. l : vec[k] = u[k]
    BY <2>2, <2>3, <2>4
  <2> QED BY <2>5 DEF u, l
<1> HIDE DEF info, vec, addr
<1>9. d \in Managers
  <2>1. info \in InfoMaps
    <3>1. DOMAIN info \subseteq Nat /\ \A x \in DOMAIN info : info[x] \in Info
      <4>1. DOMAIN b.mapInfo \subseteq Nat /\ \A x \in DOMAIN b.mapInfo : b.mapInfo[x] \in Info
        BY <1>3, ManagerType
      <4>2. DOMAIN b.mapInfo = DOMAIN am.mapInfo
        BY <1>3 DEF Alike
      <4> QED BY <1>6, <4>1, <4>2
    <3> QED BY <1>6, <3>1, InfoMapsDef
  <2>2. addr \in AddrMaps
    <3>1. DOMAIN addr \subseteq {Net[s] : s \in Services} /\ \A x \in DOMAIN addr : addr[x] \in Nat
      BY <1>1, <1>7, ManagerType
    <3> QED BY <1>7, <3>1, AddrMapsDef
  <2>3. DOMAIN b = {"nKey", "nIdCount", "mapInfo", "mapAddr", "vRandom",
                           "vvNew", "nNew", "vvTried", "nTried"}
    BY <1>3, ManagerType
  <2>4. /\ am.nKey \in Keys /\ am.nIdCount \in Nat /\ am.nNew \in Int /\ am.nTried \in Int
        /\ am.vvNew \in [NewSlots -> Int] /\ am.vvTried \in [TriedSlots -> Int]
    BY <1>1, ManagerType
  <2>5. /\ d.nKey \in Keys /\ d.nIdCount \in Nat /\ d.nNew \in Int /\ d.nTried \in Int
        /\ d.vvNew \in [NewSlots -> Int] /\ d.vvTried \in [TriedSlots -> Int]
    BY <1>5, <2>4
  <2> QED BY <1>5, <1>8, <2>1, <2>2, <2>3, <2>5, Assembled
<1>10. Dropped(am, d, id)
  BY <1>2, <1>3, <1>5, <1>6, <1>8 DEF Dropped, Alike
<1>11. Random(d)
  <2>1. Len(b.vRandom) = n /\ DOMAIN b.mapInfo = DOMAIN am.mapInfo /\ b.nIdCount = am.nIdCount
    BY <1>3 DEF Alike
  <2>2. ASSUME NEW x \in DOMAIN info
        PROVE  x < d.nIdCount /\ info[x].nRandomPos \in 1 .. n - 1 /\ vec[info[x].nRandomPos] = x
    <3>1. x \in DOMAIN b.mapInfo /\ x # id /\ info[x] = b.mapInfo[x]
      BY <1>6, <2>1
    <3>2. x < b.nIdCount /\ b.mapInfo[x].nRandomPos \in 1 .. n /\ b.vRandom[b.mapInfo[x].nRandomPos] = x
      BY <1>3, <2>1, <3>1 DEF Random
    <3>3. b.mapInfo[x].nRandomPos # n
      BY <1>3, <3>1, <3>2
    <3> QED BY <1>2, <1>5, <1>8, <2>1, <3>1, <3>2, <3>3
  <2>3. ASSUME NEW k \in 1 .. n - 1
        PROVE  vec[k] \in DOMAIN info /\ info[vec[k]].nRandomPos = k
    <3>1. k \in 1 .. n /\ k # n
      BY <1>2
    <3>2. b.vRandom[k] \in DOMAIN b.mapInfo /\ b.mapInfo[b.vRandom[k]].nRandomPos = k
      BY <1>3, <2>1, <3>1 DEF Random
    <3>3. b.vRandom[k] # id
      <4>1. b.mapInfo[b.vRandom[n]].nRandomPos = n
        BY <1>2, <1>3, <2>1 DEF Random
      <4> QED BY <1>3, <3>1, <3>2, <4>1
    <3> QED BY <1>6, <1>8, <2>1, <3>2, <3>3
  <2> QED BY <1>5, <1>8, <2>2, <2>3 DEF Random
<1>12. Addresses(d)
  <2>1. \A x \in DOMAIN info : x \in DOMAIN am.mapInfo /\ x # id /\ info[x].s = am.mapInfo[x].s
    BY <1>3, <1>6 DEF Alike, SameEntry
  <2>2. ASSUME NEW x \in DOMAIN info
        PROVE  Net[info[x].s] \in DOMAIN addr /\ addr[Net[info[x].s]] = x
    <3>1. /\ Net[am.mapInfo[x].s] \in DOMAIN am.mapAddr /\ am.mapAddr[Net[am.mapInfo[x].s]] = x
          /\ am.mapAddr[gone] = id
      BY <1>1, <2>1, <2>2 DEF Addresses
    <3>2. Net[am.mapInfo[x].s] # gone
      BY <2>1, <2>2, <3>1
    <3> HIDE DEF gone
    <3> QED BY <1>7, <2>1, <2>2, <3>1, <3>2
  <2>3. ASSUME NEW k \in DOMAIN addr
        PROVE  addr[k] \in DOMAIN info /\ Net[info[addr[k]].s] = k
    <3>1. k \in DOMAIN am.mapAddr /\ k # gone /\ addr[k] = am.mapAddr[k]
      BY <1>7, <2>3
    <3>2. am.mapAddr[k] \in DOMAIN am.mapInfo /\ Net[am.mapInfo[am.mapAddr[k]].s] = k
      BY <1>1, <3>1 DEF Addresses
    <3>3. am.mapAddr[k] # id
      BY <3>1, <3>2
    <3> QED BY <1>6, <2>1, <3>1, <3>2, <3>3
  <2> QED BY <1>5, <2>2, <2>3 DEF Addresses
<1>13. NewTable(d)
  <2>1. Refs(am, id) = {}
    BY <1>1, SlotsFinite, FS_EmptySet DEF NewTable
  <2>2. \A slot \in NewSlots : am.vvNew[slot] # id
    BY <2>1 DEF Refs
  <2>3. /\ \A x \in DOMAIN info : x \in DOMAIN am.mapInfo /\ SameEntry(info[x], am.mapInfo[x])
        /\ \A x \in DOMAIN am.mapInfo : x # id => x \in DOMAIN info
    BY <1>3, <1>6 DEF Alike
  <2>4. \A x : Refs(d, x) = Refs(am, x)
    BY <1>5 DEF Refs
  <2>5. ASSUME NEW slot \in NewSlots, am.vvNew[slot] # -1
        PROVE  /\ am.vvNew[slot] \in DOMAIN info
               /\ ~info[am.vvNew[slot]].fInTried
               /\ NewSlot(d, info[am.vvNew[slot]].s, slot[1]) = slot
    <3>1. /\ am.vvNew[slot] \in DOMAIN am.mapInfo
          /\ ~am.mapInfo[am.vvNew[slot]].fInTried
          /\ NewSlot(am, am.mapInfo[am.vvNew[slot]].s, slot[1]) = slot
      BY <1>1, <2>5 DEF NewTable
    <3>2. am.vvNew[slot] \in DOMAIN info
      BY <2>2, <2>3, <3>1
    <3>3. SameEntry(info[am.vvNew[slot]], am.mapInfo[am.vvNew[slot]])
      BY <2>3, <3>2
    <3>4. NewSlot(d, am.mapInfo[am.vvNew[slot]].s, slot[1]) = NewSlot(am, am.mapInfo[am.vvNew[slot]].s, slot[1])
      BY <1>5, SameSlots
    <3> QED BY <3>1, <3>2, <3>3, <3>4 DEF SameEntry
  <2>6. \A x \in DOMAIN info : info[x].nRefCount = Cardinality(Refs(d, x))
    BY <1>1, <2>3, <2>4 DEF NewTable, SameEntry
  <2> QED BY <1>5, <2>5, <2>6 DEF NewTable
<1> QED BY <1>9, <1>10, <1>11, <1>12, <1>13 DEF Base, d

-----------------------------------------------------------------------------
(* ClearNew and Refer *)

\* u is a with tables and counters of its own and r for the entry id; the
\* address and the place of that entry are not changed.
Revised(a, u, id, r) ==
    /\ DOMAIN u = DOMAIN a /\ u = [z \in DOMAIN u |-> u[z]]
    /\ u.mapInfo = [a.mapInfo EXCEPT ![id] = r]
    /\ r \in Info /\ r.s = a.mapInfo[id].s /\ r.source = a.mapInfo[id].source
    /\ r.nRandomPos = a.mapInfo[id].nRandomPos
    /\ u.nKey = a.nKey /\ u.nIdCount = a.nIdCount /\ u.mapAddr = a.mapAddr /\ u.vRandom = a.vRandom
    /\ u.vvNew \in [NewSlots -> Int] /\ u.vvTried \in [TriedSlots -> Int]
    /\ u.nNew \in Int /\ u.nTried \in Int

LEMMA RevisedFacts ==
    ASSUME NEW am \in Managers, Random(am), Addresses(am), NEW id \in DOMAIN am.mapInfo,
           NEW u, NEW r, Revised(am, u, id, r)
    PROVE  /\ u \in Managers /\ Random(u) /\ Addresses(u)
           /\ DOMAIN u.mapInfo = DOMAIN am.mapInfo /\ u.mapInfo[id] = r
           /\ \A x \in DOMAIN am.mapInfo : x # id => u.mapInfo[x] = am.mapInfo[x]
           /\ \A x \in DOMAIN am.mapInfo : u.mapInfo[x].s = am.mapInfo[x].s
<1>1. /\ u.mapInfo = [am.mapInfo EXCEPT ![id] = r] /\ r \in Info
      /\ r.s = am.mapInfo[id].s /\ r.nRandomPos = am.mapInfo[id].nRandomPos
      /\ u.nKey = am.nKey /\ u.nIdCount = am.nIdCount
      /\ u.mapAddr = am.mapAddr /\ u.vRandom = am.vRandom
  BY DEF Revised
<1>2. /\ DOMAIN u.mapInfo = DOMAIN am.mapInfo /\ u.mapInfo[id] = r
      /\ \A x \in DOMAIN am.mapInfo : x # id => u.mapInfo[x] = am.mapInfo[x]
      /\ u.mapInfo = [x \in DOMAIN u.mapInfo |-> u.mapInfo[x]]
  BY <1>1
<1>3. \A x \in DOMAIN am.mapInfo : /\ u.mapInfo[x].s = am.mapInfo[x].s
                                   /\ u.mapInfo[x].nRandomPos = am.mapInfo[x].nRandomPos
  BY <1>1, <1>2
<1>4. Random(u)
  BY <1>1, <1>2, <1>3 DEF Random
<1>5. Addresses(u)
  BY <1>1, <1>2, <1>3 DEF Addresses
<1>6. u \in Managers
  <2>1. u.mapInfo \in InfoMaps
    <3>1. DOMAIN u.mapInfo \subseteq Nat /\ \A x \in DOMAIN u.mapInfo : u.mapInfo[x] \in Info
      <4>1. DOMAIN am.mapInfo \subseteq Nat /\ \A x \in DOMAIN am.mapInfo : am.mapInfo[x] \in Info
        BY ManagerType
      <4> QED BY <1>1, <1>2, <4>1
    <3> QED BY <1>2, <3>1, InfoMapsDef
  <2>2. am.nKey \in Keys /\ am.nIdCount \in Nat /\ am.vRandom \in Seq(Nat) /\ am.mapAddr \in AddrMaps
    BY DEF Managers
  <2>3. DOMAIN am = {"nKey", "nIdCount", "mapInfo", "mapAddr", "vRandom",
                           "vvNew", "nNew", "vvTried", "nTried"}
    BY ManagerType
  <2>4. u.nKey \in Keys /\ u.nIdCount \in Nat /\ u.vRandom \in Seq(Nat) /\ u.mapAddr \in AddrMaps
    BY <1>1, <2>2
  <2> QED BY <2>1, <2>3, <2>4, Assembled DEF Revised
<1> QED BY <1>2, <1>3, <1>4, <1>5, <1>6

\* The references of ids after one slot of the new table has changed hands.
LEMMA RefsChange ==
    ASSUME NEW a, NEW b, NEW slot \in NewSlots, NEW v \in Int, a.vvNew \in [NewSlots -> Int],
           b.vvNew = [a.vvNew EXCEPT ![slot] = v]
    PROVE  /\ \A x : x # v /\ x # a.vvNew[slot] => Refs(b, x) = Refs(a, x)
           /\ a.vvNew[slot] # v => 
                 /\ Cardinality(Refs(b, v)) = Cardinality(Refs(a, v)) + 1
                 /\ Cardinality(Refs(b, a.vvNew[slot])) = Cardinality(Refs(a, a.vvNew[slot])) - 1
<1> DEFINE w == a.vvNew[slot]
<1>1. \A x : x # v /\ x # a.vvNew[slot] => Refs(b, x) = Refs(a, x)
  BY DEF Refs
<1>2. ASSUME w # v
      PROVE  /\ Refs(b, v) = Refs(a, v) \cup {slot} /\ slot \notin Refs(a, v)
             /\ Refs(b, w) = Refs(a, w) \ {slot} /\ slot \in Refs(a, w)
  BY <1>2 DEF Refs
<1>3. ASSUME w # v
      PROVE  /\ Cardinality(Refs(b, v)) = Cardinality(Refs(a, v)) + 1
             /\ Cardinality(Refs(b, w)) = Cardinality(Refs(a, w)) - 1
  BY <1>2, <1>3, SlotsFinite, FS_AddElement, FS_RemoveElement
<1> QED BY <1>1, <1>3

LEMMA RefGained ==
    ASSUME NEW a, NEW b, NEW slot \in NewSlots, NEW v \in Int, a.vvNew \in [NewSlots -> Int],
           b.vvNew = [a.vvNew EXCEPT ![slot] = v], a.vvNew[slot] # v
    PROVE  Cardinality(Refs(b, v)) = Cardinality(Refs(a, v)) + 1
BY RefsChange

\* One reference to the entry in a slot is taken away.
Unref(am, slot) == [am EXCEPT !.mapInfo[am.vvNew[slot]].nRefCount = @ - 1, !.vvNew[slot] = -1]
LEMMA UnrefFacts ==
    ASSUME NEW am, Base(am), NEW slot \in NewSlots, am.vvNew[slot] # -1
    PROVE  LET id == am.vvNew[slot]
               u == Unref(am, slot)
           IN  /\ id \in DOMAIN am.mapInfo /\ Base(u) /\ DOMAIN u.mapInfo = DOMAIN am.mapInfo
               /\ u.vvNew = [am.vvNew EXCEPT ![slot] = -1]
               /\ u.mapInfo[id].nRefCount = am.mapInfo[id].nRefCount - 1
               /\ am.mapInfo[id].nRefCount >= 1
               /\ u.mapInfo[id].source = am.mapInfo[id].source
               /\ u.mapInfo[id].s = am.mapInfo[id].s /\ u.mapInfo[id].fInTried = am.mapInfo[id].fInTried
               /\ \A x \in DOMAIN am.mapInfo : x # id => u.mapInfo[x] = am.mapInfo[x]
               /\ u.nKey = am.nKey /\ u.nIdCount = am.nIdCount /\ u.vvTried = am.vvTried
               /\ u.nTried = am.nTried /\ u.nNew = am.nNew /\ Len(u.vRandom) = Len(am.vRandom)
<1> DEFINE id == am.vvNew[slot]
           u == Unref(am, slot)
           k == am.mapInfo[id].nRefCount - 1
           r == [am.mapInfo[id] EXCEPT !.nRefCount = k]
           table == [am.vvNew EXCEPT ![slot] = -1]
<1>1. am \in Managers /\ Random(am) /\ Addresses(am) /\ NewTable(am)
  BY DEF Base
<1>2. id \in DOMAIN am.mapInfo /\ ~am.mapInfo[id].fInTried
  BY <1>1 DEF NewTable
<1>3. /\ am.mapInfo[id] \in Info /\ k \in Int /\ 0 \in Nat /\ table \in [NewSlots -> Int]
      /\ am.vvNew \in [NewSlots -> Int] /\ am.mapInfo[id].nRefCount \in Int
  <2>1. /\ am.vvNew \in [NewSlots -> Int] /\ DOMAIN am.mapInfo \subseteq Nat
        /\ \A x \in DOMAIN am.mapInfo : am.mapInfo[x] \in Info /\ am.mapInfo[x].nRefCount \in Int
    BY <1>1, ManagerType
  <2>2. -1 \in Int
    OBVIOUS
  <2>3. table \in [NewSlots -> Int]
    BY <2>1, <2>2
  <2> HIDE DEF id, table
  <2> QED BY <1>2, <2>1, <2>3
<1>4. /\ r \in Info /\ r.s = am.mapInfo[id].s /\ r.source = am.mapInfo[id].source
      /\ r.nRandomPos = am.mapInfo[id].nRandomPos /\ r.fInTried = am.mapInfo[id].fInTried
      /\ r.nRefCount = k
  <2> HIDE DEF k, id
  <2> QED BY <1>3, EntryChanges, ZenonT(40)
<1>5. /\ DOMAIN u = DOMAIN am /\ u = [z \in DOMAIN u |-> u[z]]
      /\ u.mapInfo = [am.mapInfo EXCEPT ![id] = r] /\ u.vvNew = table
      /\ u.nKey = am.nKey /\ u.nIdCount = am.nIdCount /\ u.mapAddr = am.mapAddr /\ u.vRandom = am.vRandom
      /\ u.vvTried = am.vvTried /\ u.nTried = am.nTried /\ u.nNew = am.nNew
  BY <1>1, ManagerType DEF Unref
<1> HIDE DEF r, table, u
<1>6. Revised(am, u, id, r)
  BY <1>1, <1>3, <1>4, <1>5, ManagerType DEF Revised
<1>7. /\ u \in Managers /\ Random(u) /\ Addresses(u)
      /\ DOMAIN u.mapInfo = DOMAIN am.mapInfo /\ u.mapInfo[id] = r
      /\ \A x \in DOMAIN am.mapInfo : x # id => u.mapInfo[x] = am.mapInfo[x]
      /\ \A x \in DOMAIN am.mapInfo : u.mapInfo[x].s = am.mapInfo[x].s
  <2> HIDE DEF id
  <2> QED BY <1>1, <1>2, <1>6, RevisedFacts
<1>8. slot \in Refs(am, id) /\ am.mapInfo[id].nRefCount = Cardinality(Refs(am, id))
  BY <1>1, <1>2 DEF NewTable, Refs
<1>9. am.mapInfo[id].nRefCount >= 1
  BY <1>8, SlotsFinite, FS_EmptySet
<1>10. NewTable(u)
  <2>1. \A x \in DOMAIN u.mapInfo : u.mapInfo[x].nRefCount = Cardinality(Refs(u, x))
    <3>1. -1 \in Int /\ id # -1
      OBVIOUS
    <3>2. Cardinality(Refs(u, id)) = Cardinality(Refs(am, id)) - 1
      BY <1>3, <1>5, <3>1, RefsChange DEF table
    <3>3. \A x : x # -1 /\ x # id => Refs(u, x) = Refs(am, x)
      BY <1>3, <1>5, <3>1, RefsChange, SMTT(30) DEF table
    <3>4. -1 \notin DOMAIN am.mapInfo
      <4>1. DOMAIN am.mapInfo \subseteq Nat
        BY <1>1, ManagerType
      <4>2. -1 \notin Nat
        OBVIOUS
      <4> QED BY <4>1, <4>2
    <3>5. \A x \in DOMAIN am.mapInfo : am.mapInfo[x].nRefCount = Cardinality(Refs(am, x))
      BY <1>1 DEF NewTable
    <3> HIDE DEF id
    <3> QED BY <1>4, <1>7, <1>8, <3>2, <3>3, <3>4, <3>5 DEF k
  <2>2. ASSUME NEW t \in NewSlots, u.vvNew[t] # -1
        PROVE  /\ u.vvNew[t] \in DOMAIN u.mapInfo /\ ~u.mapInfo[u.vvNew[t]].fInTried
               /\ NewSlot(u, u.mapInfo[u.vvNew[t]].s, t[1]) = t
    <3>1. u.vvNew[t] = am.vvNew[t]
      BY <1>3, <1>5, <2>2 DEF table
    <3>2. /\ am.vvNew[t] \in DOMAIN am.mapInfo /\ ~am.mapInfo[am.vvNew[t]].fInTried
          /\ NewSlot(am, am.mapInfo[am.vvNew[t]].s, t[1]) = t
      BY <1>1, <2>2, <3>1 DEF NewTable
    <3>3. NewSlot(u, am.mapInfo[am.vvNew[t]].s, t[1]) = NewSlot(am, am.mapInfo[am.vvNew[t]].s, t[1])
      BY <1>5, SameSlots
    <3>4. ~u.mapInfo[am.vvNew[t]].fInTried
      <4>1. CASE am.vvNew[t] = id
        BY <1>2, <1>4, <1>7, <4>1
      <4>2. CASE am.vvNew[t] # id
        BY <1>7, <3>2, <4>2
      <4> QED BY <4>1, <4>2
    <3> QED BY <1>7, <3>1, <3>2, <3>3, <3>4
  <2> QED BY <2>1, <2>2 DEF NewTable
<1>11. Base(u)
  BY <1>7, <1>10 DEF Base
<1>12. Len(u.vRandom) = Len(am.vRandom)
  BY <1>5
<1> QED BY <1>2, <1>4, <1>5, <1>7, <1>9, <1>11, <1>12 DEF table, u

\* r and t are entries of one peer in one table.
SamePeer(r, t) == r.s = t.s /\ r.source = t.source /\ r.fInTried = t.fInTried

\* b is a after one slot of the new table has been cleared: the entry that was
\* there has gone, or has other references left.
Emptied(a, b, slot) ==
    /\ b.vvNew = [a.vvNew EXCEPT ![slot] = -1]
    /\ b.nKey = a.nKey /\ b.nIdCount = a.nIdCount /\ b.vvTried = a.vvTried /\ b.nTried = a.nTried
    /\ \/ /\ DOMAIN b.mapInfo = DOMAIN a.mapInfo
          /\ b.nNew = a.nNew /\ Len(b.vRandom) = Len(a.vRandom)
       \/ /\ a.vvNew[slot] \in DOMAIN a.mapInfo
          /\ DOMAIN b.mapInfo = DOMAIN a.mapInfo \ {a.vvNew[slot]}
          /\ b.nNew = a.nNew - 1 /\ Len(b.vRandom) = Len(a.vRandom) - 1
    /\ \A x \in DOMAIN b.mapInfo :
          /\ SamePeer(b.mapInfo[x], a.mapInfo[x])
          /\ b.mapInfo[x].nRefCount <= a.mapInfo[x].nRefCount
          /\ a.mapInfo[x].nRefCount > 0 => b.mapInfo[x].nRefCount > 0
          /\ x # a.vvNew[slot] => b.mapInfo[x].nRefCount = a.mapInfo[x].nRefCount

LEMMA ClearNewFacts ==
    ASSUME NEW am, Base(am), NEW slot \in NewSlots
    PROVE  Base(ClearNew(am, slot)) /\ Emptied(am, ClearNew(am, slot), slot)
<1> DEFINE id == am.vvNew[slot]
           u == Unref(am, slot)
           b == ClearNew(am, slot)
<1>1. /\ am \in Managers /\ am.vvNew \in [NewSlots -> Int]
      /\ \A x \in DOMAIN am.mapInfo : am.mapInfo[x].nRefCount \in Int
  BY ManagerType DEF Base
<1>2. CASE id = -1
  <2>1. b = am
    BY <1>2 DEF ClearNew
  <2>2. am.vvNew = [am.vvNew EXCEPT ![slot] = -1]
    BY <1>1, <1>2
  <2>3. \A x \in DOMAIN am.mapInfo : /\ SamePeer(am.mapInfo[x], am.mapInfo[x])
                                     /\ am.mapInfo[x].nRefCount <= am.mapInfo[x].nRefCount
    BY <1>1 DEF SamePeer
  <2>4. Emptied(am, am, slot)
    BY <2>2, <2>3 DEF Emptied
  <2> QED BY <2>1, <2>4
<1>3. CASE id # -1
  <2>1. /\ id \in DOMAIN am.mapInfo /\ Base(u) /\ DOMAIN u.mapInfo = DOMAIN am.mapInfo
        /\ u.vvNew = [am.vvNew EXCEPT ![slot] = -1]
        /\ u.mapInfo[id].nRefCount = am.mapInfo[id].nRefCount - 1
        /\ am.mapInfo[id].nRefCount >= 1
        /\ u.mapInfo[id].source = am.mapInfo[id].source
        /\ u.mapInfo[id].s = am.mapInfo[id].s /\ u.mapInfo[id].fInTried = am.mapInfo[id].fInTried
        /\ \A x \in DOMAIN am.mapInfo : x # id => u.mapInfo[x] = am.mapInfo[x]
        /\ u.nKey = am.nKey /\ u.nIdCount = am.nIdCount /\ u.vvTried = am.vvTried
        /\ u.nTried = am.nTried /\ u.nNew = am.nNew /\ Len(u.vRandom) = Len(am.vRandom)
    BY <1>3, UnrefFacts
  <2>2. b = IF am.mapInfo[id].nRefCount = 1 THEN Delete(u, id) ELSE u
    BY <1>3 DEF ClearNew, Unref
  <2> HIDE DEF id, u, b
  <2>3. \A x \in DOMAIN am.mapInfo : SamePeer(u.mapInfo[x], am.mapInfo[x])
    BY <2>1 DEF SamePeer
  <2>4. am.mapInfo[id].nRefCount \in Int
    BY <1>1, <2>1
  <2>5. CASE am.mapInfo[id].nRefCount = 1
    <3>1. u.mapInfo[id].nRefCount = 0 /\ b = Delete(u, id) /\ id \in DOMAIN u.mapInfo
      BY <2>1, <2>2, <2>5
    <3>2. Base(b) /\ Dropped(u, b, id)
      BY <2>1, <3>1, DeleteFacts
    <3>3. /\ DOMAIN b.mapInfo = DOMAIN am.mapInfo \ {id}
          /\ \A x \in DOMAIN b.mapInfo : SameEntry(b.mapInfo[x], u.mapInfo[x]) /\ u.mapInfo[x] = am.mapInfo[x]
          /\ b.nKey = u.nKey /\ b.nIdCount = u.nIdCount /\ b.vvNew = u.vvNew
          /\ b.vvTried = u.vvTried /\ b.nTried = u.nTried
          /\ b.nNew = u.nNew - 1 /\ Len(b.vRandom) = Len(u.vRandom) - 1
      BY <2>1, <3>2 DEF Dropped
    <3>4. \A x \in DOMAIN b.mapInfo :
             /\ SamePeer(b.mapInfo[x], am.mapInfo[x])
             /\ b.mapInfo[x].nRefCount = am.mapInfo[x].nRefCount
             /\ am.mapInfo[x].nRefCount \in Int
      BY <1>1, <3>3 DEF SamePeer, SameEntry
    <3>5. Emptied(am, b, slot)
      BY <2>1, <3>3, <3>4 DEF Emptied, id
    <3> QED BY <3>2, <3>5 DEF b
  <2>6. CASE am.mapInfo[id].nRefCount # 1
    <3>1. b = u /\ u.mapInfo[id].nRefCount > 0 /\ u.mapInfo[id].nRefCount <= am.mapInfo[id].nRefCount
      BY <2>1, <2>2, <2>4, <2>6
    <3>2. \A x \in DOMAIN am.mapInfo :
             /\ u.mapInfo[x].nRefCount <= am.mapInfo[x].nRefCount
             /\ am.mapInfo[x].nRefCount > 0 => u.mapInfo[x].nRefCount > 0
             /\ x # id => u.mapInfo[x].nRefCount = am.mapInfo[x].nRefCount
      <4> SUFFICES ASSUME NEW x \in DOMAIN am.mapInfo
                   PROVE  /\ u.mapInfo[x].nRefCount <= am.mapInfo[x].nRefCount
                          /\ am.mapInfo[x].nRefCount > 0 => u.mapInfo[x].nRefCount > 0
                          /\ x # id => u.mapInfo[x].nRefCount = am.mapInfo[x].nRefCount
        OBVIOUS
      <4>1. am.mapInfo[x].nRefCount \in Int
        BY <1>1
      <4>2. CASE x = id
        BY <3>1, <4>2
      <4>3. CASE x # id
        BY <2>1, <4>1, <4>3
      <4> QED BY <4>2, <4>3
    <3>3. Emptied(am, u, slot)
      BY <2>1, <2>3, <3>2 DEF Emptied, id
    <3> QED BY <2>1, <3>1, <3>3 DEF b
  <2> QED BY <2>5, <2>6
<1> QED BY <1>2, <1>3

\* b is a after the entry id has got a slot of the new table.
Referred(a, b, id, slot) ==
    /\ b.vvNew = [a.vvNew EXCEPT ![slot] = id]
    /\ b.nKey = a.nKey /\ b.nIdCount = a.nIdCount /\ b.vvTried = a.vvTried /\ b.nTried = a.nTried
    /\ \/ /\ DOMAIN b.mapInfo = DOMAIN a.mapInfo
          /\ b.nNew = a.nNew /\ Len(b.vRandom) = Len(a.vRandom)
       \/ /\ a.vvNew[slot] \in DOMAIN a.mapInfo
          /\ DOMAIN b.mapInfo = DOMAIN a.mapInfo \ {a.vvNew[slot]}
          /\ b.nNew = a.nNew - 1 /\ Len(b.vRandom) = Len(a.vRandom) - 1
    /\ \A x \in DOMAIN b.mapInfo :
          /\ SamePeer(b.mapInfo[x], a.mapInfo[x])
          /\ x # id => b.mapInfo[x].nRefCount <= a.mapInfo[x].nRefCount
          /\ x # id /\ a.mapInfo[x].nRefCount > 0 => b.mapInfo[x].nRefCount > 0
    /\ id \in DOMAIN b.mapInfo /\ b.mapInfo[id].nRefCount = a.mapInfo[id].nRefCount + 1

LEMMA ReferFacts ==
    ASSUME NEW am, Base(am), NEW id \in DOMAIN am.mapInfo, NEW slot \in NewSlots,
           ~am.mapInfo[id].fInTried, am.vvNew[slot] # id,
           NewSlot(am, am.mapInfo[id].s, slot[1]) = slot
    PROVE  Base(Refer(am, id, slot)) /\ Referred(am, Refer(am, id, slot), id, slot)
<1> DEFINE f == ClearNew(am, slot)
           u == Refer(am, id, slot)
           k == f.mapInfo[id].nRefCount + 1
           r == [f.mapInfo[id] EXCEPT !.nRefCount = k]
           table == [f.vvNew EXCEPT ![slot] = id]
<1>1. Base(f) /\ Emptied(am, f, slot)
  BY ClearNewFacts
<1>2. u = [f EXCEPT !.mapInfo[id].nRefCount = @ + 1, !.vvNew[slot] = id]
  BY DEF Refer
<1> HIDE DEF f, u
<1>3. f \in Managers /\ Random(f) /\ Addresses(f) /\ NewTable(f)
  BY <1>1 DEF Base
<1>4. am \in Managers /\ am.vvNew \in [NewSlots -> Int] /\ id \in Nat
  BY ManagerType DEF Base
<1>5. id \in DOMAIN f.mapInfo /\ SamePeer(f.mapInfo[id], am.mapInfo[id])
      /\ f.mapInfo[id].nRefCount = am.mapInfo[id].nRefCount
  BY <1>1 DEF Emptied
<1>6. /\ f.mapInfo[id] \in Info /\ k \in Int /\ 0 \in Nat /\ f.vvNew \in [NewSlots -> Int]
      /\ table \in [NewSlots -> Int] /\ f.vvTried \in [TriedSlots -> Int]
      /\ f.nNew \in Int /\ f.nTried \in Int
      /\ f.vvNew[slot] = -1
  <2>1. /\ f.vvNew \in [NewSlots -> Int] /\ f.vvTried \in [TriedSlots -> Int]
        /\ f.nNew \in Int /\ f.nTried \in Int
        /\ \A x \in DOMAIN f.mapInfo : f.mapInfo[x] \in Info /\ f.mapInfo[x].nRefCount \in Int
    BY <1>3, ManagerType
  <2>2. f.vvNew[slot] = -1
    BY <1>1, <1>4 DEF Emptied
  <2>3. table \in [NewSlots -> Int]
    BY <1>4, <2>1
  <2> QED BY <1>5, <2>1, <2>2, <2>3
<1>7. /\ r \in Info /\ r.s = f.mapInfo[id].s /\ r.source = f.mapInfo[id].source
      /\ r.nRandomPos = f.mapInfo[id].nRandomPos /\ r.fInTried = f.mapInfo[id].fInTried
      /\ r.nRefCount = k
  <2>1. f.mapInfo[id] \in Info /\ k \in Int /\ 0 \in Nat
    BY <1>6
  <2> HIDE DEF k
  <2> QED BY <2>1, EntryChanges
<1>8. /\ DOMAIN u = DOMAIN f /\ u = [z \in DOMAIN u |-> u[z]]
      /\ u.mapInfo = [f.mapInfo EXCEPT ![id] = r] /\ u.vvNew = table
      /\ u.nKey = f.nKey /\ u.nIdCount = f.nIdCount /\ u.mapAddr = f.mapAddr /\ u.vRandom = f.vRandom
      /\ u.vvTried = f.vvTried /\ u.nTried = f.nTried /\ u.nNew = f.nNew
  BY <1>2, <1>3, ManagerType
<1> HIDE DEF r, table
<1>9. Revised(f, u, id, r)
  BY <1>6, <1>7, <1>8 DEF Revised
<1>10. /\ u \in Managers /\ Random(u) /\ Addresses(u)
       /\ DOMAIN u.mapInfo = DOMAIN f.mapInfo /\ u.mapInfo[id] = r
       /\ \A x \in DOMAIN f.mapInfo : x # id => u.mapInfo[x] = f.mapInfo[x]
       /\ \A x \in DOMAIN f.mapInfo : u.mapInfo[x].s = f.mapInfo[x].s
  BY <1>3, <1>5, <1>9, RevisedFacts
<1>11. NewTable(u)
  <2>1. \A x \in DOMAIN u.mapInfo : u.mapInfo[x].nRefCount = Cardinality(Refs(u, x))
    <3>0. id \in Int /\ f.vvNew[slot] = -1 /\ f.vvNew[slot] # id
      BY <1>4, <1>6
    <3>1. f.vvNew \in [NewSlots -> Int] /\ u.vvNew = [f.vvNew EXCEPT ![slot] = id]
      BY <1>6, <1>8 DEF table
    <3>2. Cardinality(Refs(u, id)) = Cardinality(Refs(f, id)) + 1
      BY <3>0, <3>1, RefGained
    <3>3. \A x : x # -1 /\ x # id => Refs(u, x) = Refs(f, x)
      BY <3>0, <3>1, RefsChange
    <3>4. -1 \notin DOMAIN f.mapInfo
      <4>1. DOMAIN f.mapInfo \subseteq Nat
        BY <1>3, ManagerType
      <4>2. -1 \notin Nat
        OBVIOUS
      <4> QED BY <4>1, <4>2
    <3>5. \A x \in DOMAIN f.mapInfo : f.mapInfo[x].nRefCount = Cardinality(Refs(f, x))
      BY <1>3 DEF NewTable
    <3> QED BY <1>5, <1>7, <1>10, <3>2, <3>3, <3>4, <3>5 DEF k
  <2>2. ASSUME NEW t \in NewSlots, u.vvNew[t] # -1
        PROVE  /\ u.vvNew[t] \in DOMAIN u.mapInfo /\ ~u.mapInfo[u.vvNew[t]].fInTried
               /\ NewSlot(u, u.mapInfo[u.vvNew[t]].s, t[1]) = t
    <3>0. ~u.mapInfo[id].fInTried
      BY <1>5, <1>7, <1>10 DEF SamePeer
    <3>1. CASE t = slot
      <4>1. u.vvNew[t] = id
        BY <1>6, <1>8, <3>1 DEF table
      <4>2. NewSlot(u, am.mapInfo[id].s, slot[1]) = NewSlot(am, am.mapInfo[id].s, slot[1])
        BY <1>1, <1>8, SameSlots DEF Emptied
      <4> QED BY <1>5, <1>7, <1>10, <3>0, <3>1, <4>1, <4>2 DEF SamePeer
    <3>2. CASE t # slot
      <4>1. u.vvNew[t] = f.vvNew[t]
        BY <1>6, <1>8, <3>2 DEF table
      <4>2. /\ f.vvNew[t] \in DOMAIN f.mapInfo /\ ~f.mapInfo[f.vvNew[t]].fInTried
            /\ NewSlot(f, f.mapInfo[f.vvNew[t]].s, t[1]) = t
        BY <1>3, <2>2, <4>1 DEF NewTable
      <4>3. NewSlot(u, f.mapInfo[f.vvNew[t]].s, t[1]) = NewSlot(f, f.mapInfo[f.vvNew[t]].s, t[1])
        BY <1>8, SameSlots
      <4>4. ~u.mapInfo[f.vvNew[t]].fInTried
        BY <1>10, <3>0, <4>2
      <4> QED BY <1>10, <4>1, <4>2, <4>3, <4>4
    <3> QED BY <3>1, <3>2
  <2> QED BY <2>1, <2>2 DEF NewTable
<1>12. Referred(am, u, id, slot)
  <2>1. u.vvNew = [am.vvNew EXCEPT ![slot] = id]
    BY <1>1, <1>4, <1>8 DEF Emptied, table
  <2>2. /\ DOMAIN u.mapInfo = DOMAIN f.mapInfo /\ u.nNew = f.nNew /\ Len(u.vRandom) = Len(f.vRandom)
        /\ u.nKey = f.nKey /\ u.nIdCount = f.nIdCount /\ u.vvTried = f.vvTried /\ u.nTried = f.nTried
    BY <1>8, <1>10
  <2>3. u.mapInfo[id].nRefCount = am.mapInfo[id].nRefCount + 1 /\ id \in DOMAIN u.mapInfo
    BY <1>5, <1>7, <1>10 DEF k
  <2>4. \A x \in DOMAIN u.mapInfo :
          /\ SamePeer(u.mapInfo[x], am.mapInfo[x])
          /\ x # id => u.mapInfo[x].nRefCount <= am.mapInfo[x].nRefCount
          /\ x # id /\ am.mapInfo[x].nRefCount > 0 => u.mapInfo[x].nRefCount > 0
    <3> SUFFICES ASSUME NEW x \in DOMAIN u.mapInfo
                 PROVE  /\ SamePeer(u.mapInfo[x], am.mapInfo[x])
                        /\ x # id => u.mapInfo[x].nRefCount <= am.mapInfo[x].nRefCount
                        /\ x # id /\ am.mapInfo[x].nRefCount > 0 => u.mapInfo[x].nRefCount > 0
      OBVIOUS
    <3>1. CASE x = id
      BY <1>5, <1>7, <1>10, <3>1 DEF SamePeer
    <3>2. CASE x # id
      BY <1>1, <1>10, <3>2 DEF Emptied
    <3> QED BY <3>1, <3>2
  <2> QED BY <1>1, <2>1, <2>2, <2>3, <2>4 DEF Referred, Emptied
<1> QED BY <1>10, <1>11, <1>12 DEF Base, u

-----------------------------------------------------------------------------
(* The tried table and the counters *)

LEMMA IdsFinite ==
    ASSUME NEW am \in Managers, Random(am)
    PROVE  /\ IsFiniteSet(DOMAIN am.mapInfo)
           /\ IsFiniteSet(Tried(am)) /\ Cardinality(Tried(am)) \in Nat
           /\ IsFiniteSet(Untried(am)) /\ Cardinality(Untried(am)) \in Nat
<1>1. am.nIdCount \in Nat /\ DOMAIN am.mapInfo \subseteq Nat
  BY ManagerType
<1>2. \A id \in DOMAIN am.mapInfo : id \in Nat /\ id < am.nIdCount
  BY <1>1 DEF Random
<1>3. DOMAIN am.mapInfo \subseteq 0 .. am.nIdCount
  BY <1>1, <1>2
<1>4. IsFiniteSet(0 .. am.nIdCount)
  BY <1>1, FS_Interval
<1>5. IsFiniteSet(DOMAIN am.mapInfo)
  BY <1>3, <1>4, FS_Subset
<1>6. Tried(am) \subseteq DOMAIN am.mapInfo /\ Untried(am) \subseteq DOMAIN am.mapInfo
  BY DEF Tried, Untried
<1>7. IsFiniteSet(Tried(am)) /\ IsFiniteSet(Untried(am))
  BY <1>5, <1>6, FS_Subset
<1> QED BY <1>5, <1>7, FS_CardinalityType

\* The tried table is not concerned by a change to other entries.
LEMMA TriedKept ==
    ASSUME NEW a, NEW b, TriedTable(a), b.vvTried = a.vvTried, b.nKey = a.nKey,
           \A x \in DOMAIN a.mapInfo : a.mapInfo[x].fInTried =>
               x \in DOMAIN b.mapInfo /\ SamePeer(b.mapInfo[x], a.mapInfo[x]),
           \A x \in DOMAIN b.mapInfo : b.mapInfo[x].fInTried =>
               x \in DOMAIN a.mapInfo /\ SamePeer(b.mapInfo[x], a.mapInfo[x])
    PROVE  TriedTable(b) /\ Tried(b) = Tried(a)
<1>1. ASSUME NEW t \in TriedSlots, b.vvTried[t] # -1
      PROVE  /\ b.vvTried[t] \in DOMAIN b.mapInfo /\ b.mapInfo[b.vvTried[t]].fInTried
             /\ TriedSlot(b, b.mapInfo[b.vvTried[t]].s) = t
  <2>1. /\ a.vvTried[t] \in DOMAIN a.mapInfo /\ a.mapInfo[a.vvTried[t]].fInTried
        /\ TriedSlot(a, a.mapInfo[a.vvTried[t]].s) = t
    BY <1>1 DEF TriedTable
  <2>2. SamePeer(b.mapInfo[a.vvTried[t]], a.mapInfo[a.vvTried[t]]) /\ a.vvTried[t] \in DOMAIN b.mapInfo
    BY <2>1
  <2>3. TriedSlot(b, a.mapInfo[a.vvTried[t]].s) = TriedSlot(a, a.mapInfo[a.vvTried[t]].s)
    BY SameSlots
  <2> QED BY <2>1, <2>2, <2>3 DEF SamePeer
<1>2. ASSUME NEW x \in DOMAIN b.mapInfo, b.mapInfo[x].fInTried
      PROVE  b.vvTried[TriedSlot(b, b.mapInfo[x].s)] = x
  <2>1. x \in DOMAIN a.mapInfo /\ SamePeer(b.mapInfo[x], a.mapInfo[x])
    BY <1>2
  <2>2. a.vvTried[TriedSlot(a, a.mapInfo[x].s)] = x
    BY <1>2, <2>1 DEF TriedTable, SamePeer
  <2>3. TriedSlot(b, a.mapInfo[x].s) = TriedSlot(a, a.mapInfo[x].s)
    BY SameSlots
  <2> QED BY <2>1, <2>2, <2>3 DEF SamePeer
<1>3. TriedTable(b)
  BY <1>1, <1>2 DEF TriedTable
<1>4. Tried(b) = Tried(a)
  <2>1. \A x \in Tried(a) : x \in Tried(b)
    BY DEF Tried, SamePeer
  <2>2. \A x \in Tried(b) : x \in Tried(a)
    BY DEF Tried, SamePeer
  <2> QED BY <2>1, <2>2
<1> QED BY <1>3, <1>4

\* An entry of the new table comes or goes.
LEMMA CountersDrop ==
    ASSUME NEW a \in Managers, Random(a), Counters(a), NEW b, Tried(b) = Tried(a), b.nTried = a.nTried,
           NEW x \in Untried(a), DOMAIN b.mapInfo = DOMAIN a.mapInfo \ {x},
           b.nNew = a.nNew - 1, Len(b.vRandom) = Len(a.vRandom) - 1
    PROVE  Counters(b)
<1>1. Untried(b) = Untried(a) \ {x}
  BY DEF Untried
<1>2. Cardinality(Untried(b)) = Cardinality(Untried(a)) - 1
  BY <1>1, IdsFinite, FS_RemoveElement
<1>3. a.nNew \in Int /\ a.nTried \in Int /\ Len(a.vRandom) \in Nat
  BY ManagerType
<1>4. a.nNew = Cardinality(Untried(a)) /\ a.nTried = Cardinality(Tried(a)) /\ Len(a.vRandom) = a.nNew + a.nTried
  BY DEF Counters
<1> QED BY <1>2, <1>3, <1>4 DEF Counters

LEMMA CountersAdd ==
    ASSUME NEW a \in Managers, Random(a), Counters(a), NEW b, Tried(b) = Tried(a), b.nTried = a.nTried,
           NEW x, x \notin DOMAIN a.mapInfo, DOMAIN b.mapInfo = DOMAIN a.mapInfo \cup {x},
           b.nNew = a.nNew + 1, Len(b.vRandom) = Len(a.vRandom) + 1
    PROVE  Counters(b)
<1>1. Untried(b) = Untried(a) \cup {x} /\ x \notin Untried(a)
  BY DEF Untried, Tried
<1>2. Cardinality(Untried(b)) = Cardinality(Untried(a)) + 1
  BY <1>1, IdsFinite, FS_AddElement
<1>3. a.nNew \in Int /\ a.nTried \in Int /\ Len(a.vRandom) \in Nat
  BY ManagerType
<1>4. a.nNew = Cardinality(Untried(a)) /\ a.nTried = Cardinality(Tried(a)) /\ Len(a.vRandom) = a.nNew + a.nTried
  BY DEF Counters
<1> QED BY <1>2, <1>3, <1>4 DEF Counters

-----------------------------------------------------------------------------
(* Create *)

\* Create, with the count that Add_ keeps.
Created(am, s, source) == [Create(am, s, source) EXCEPT !.nNew = @ + 1]

\* b is a with a fresh entry for s.
Grown(a, b, s) ==
    /\ b.nIdCount = a.nIdCount + 1 /\ b.vvTried = a.vvTried
    /\ a.nIdCount \notin DOMAIN a.mapInfo /\ DOMAIN b.mapInfo = DOMAIN a.mapInfo \cup {a.nIdCount}
    /\ b.mapInfo[a.nIdCount].s = s /\ b.mapInfo[a.nIdCount].nRefCount = 0
    /\ b.mapInfo[a.nIdCount].fInTried = FALSE
    /\ \A x \in DOMAIN a.mapInfo : b.mapInfo[x] = a.mapInfo[x]

LEMMA CreateFacts ==
    ASSUME NEW am, Coherent(am), NEW s \in Services, NEW source \in Sources,
           Net[s] \notin DOMAIN am.mapAddr
    PROVE  Coherent(Created(am, s, source)) /\ Grown(am, Created(am, s, source), s)
<1> DEFINE b == Created(am, s, source)
           id == am.nIdCount
           n == Len(am.vRandom)
           r == [s |-> s, source |-> source, nRefCount |-> 0, fInTried |-> FALSE, nRandomPos |-> n + 1]
           info == With(am.mapInfo, id, r)
           addr == With(am.mapAddr, Net[s], id)
           vec == Append(am.vRandom, id)
<1>1. am \in Managers /\ Random(am) /\ Addresses(am) /\ NewTable(am) /\ TriedTable(am) /\ Counters(am)
  BY DEF Coherent, Base
<1>2. /\ id \in Nat /\ n \in Nat /\ am.vRandom \in Seq(Nat) /\ DOMAIN am.mapInfo \subseteq Nat
      /\ \A x \in DOMAIN am.mapInfo : am.mapInfo[x] \in Info
  BY <1>1, ManagerType
<1>3. id \notin DOMAIN am.mapInfo
  BY <1>1, <1>2 DEF Random
<1>4. /\ DOMAIN b = DOMAIN am /\ b = [z \in DOMAIN b |-> b[z]]
      /\ b.mapInfo = info /\ b.mapAddr = addr /\ b.vRandom = vec
      /\ b.nIdCount = id + 1 /\ b.nNew = am.nNew + 1
      /\ b.nKey = am.nKey /\ b.vvNew = am.vvNew /\ b.vvTried = am.vvTried /\ b.nTried = am.nTried
  <2>1. DOMAIN am = {"nKey", "nIdCount", "mapInfo", "mapAddr", "vRandom",
                           "vvNew", "nNew", "vvTried", "nTried"}
    BY <1>1, ManagerType
  <2> HIDE DEF info, addr, vec
  <2>2. Create(am, s, source) = [am EXCEPT !.nIdCount = am.nIdCount + 1, !.mapInfo = info,
                                           !.mapAddr = addr, !.vRandom = vec]
    BY DEF Create, info, addr, vec
  <2>3. b = [[am EXCEPT !.nIdCount = am.nIdCount + 1, !.mapInfo = info,
                        !.mapAddr = addr, !.vRandom = vec] EXCEPT !.nNew = @ + 1]
    BY <2>2 DEF Created
  <2> QED BY <2>1, <2>3
<1>5. /\ r \in Info /\ r.s = s /\ r.nRefCount = 0 /\ r.fInTried = FALSE /\ r.nRandomPos = n + 1
  BY <1>2 DEF Info
<1> HIDE DEF r, b
<1>6. /\ DOMAIN info = DOMAIN am.mapInfo \cup {id} /\ info[id] = r
      /\ \A x \in DOMAIN am.mapInfo : info[x] = am.mapInfo[x]
      /\ info = [x \in DOMAIN info |-> info[x]]
  BY <1>3 DEF With
<1>7. /\ DOMAIN addr = DOMAIN am.mapAddr \cup {Net[s]} /\ addr[Net[s]] = id
      /\ \A x \in DOMAIN am.mapAddr : addr[x] = am.mapAddr[x]
      /\ addr = [x \in DOMAIN addr |-> addr[x]]
  BY DEF With
<1>8. /\ vec \in Seq(Nat) /\ Len(vec) = n + 1 /\ vec[n + 1] = id
      /\ \A k \in 1 .. n : vec[k] = am.vRandom[k]
  BY <1>2, AppendProperties
<1> HIDE DEF info, addr, vec
<1>9. b \in Managers
  <2>1. info \in InfoMaps
    <3>1. DOMAIN info \subseteq Nat /\ \A x \in DOMAIN info : info[x] \in Info
      BY <1>2, <1>5, <1>6
    <3> QED BY <1>6, <3>1, InfoMapsDef
  <2>2. addr \in AddrMaps
    <3>1. /\ DOMAIN am.mapAddr \subseteq {Net[x] : x \in Services}
          /\ \A x \in DOMAIN am.mapAddr : am.mapAddr[x] \in Nat
      BY <1>1, ManagerType
    <3>2. /\ DOMAIN addr \subseteq {Net[x] : x \in Services}
      BY <1>7, <3>1
    <3>3. \A x \in DOMAIN addr : addr[x] \in Nat
      BY <1>2, <1>7, <3>1
    <3> QED BY <1>7, <3>2, <3>3, AddrMapsDef
  <2>3. DOMAIN am = {"nKey", "nIdCount", "mapInfo", "mapAddr", "vRandom",
                           "vvNew", "nNew", "vvTried", "nTried"}
    BY <1>1, ManagerType
  <2>4. /\ am.nKey \in Keys /\ am.nNew \in Int /\ am.nTried \in Int
        /\ am.vvNew \in [NewSlots -> Int] /\ am.vvTried \in [TriedSlots -> Int]
    BY <1>1, ManagerType
  <2>5. /\ b.nKey \in Keys /\ b.nIdCount \in Nat /\ b.nNew \in Int /\ b.nTried \in Int
        /\ b.vvNew \in [NewSlots -> Int] /\ b.vvTried \in [TriedSlots -> Int]
    BY <1>2, <1>4, <2>4
  <2> QED BY <1>4, <1>8, <2>1, <2>2, <2>3, <2>5, Assembled
<1>10. Random(b)
  <2>1. ASSUME NEW x \in DOMAIN info
        PROVE  x < id + 1 /\ info[x].nRandomPos \in 1 .. n + 1 /\ vec[info[x].nRandomPos] = x
    <3>1. CASE x = id
      BY <1>2, <1>5, <1>6, <1>8, <3>1
    <3>2. CASE x # id
      <4>1. x \in DOMAIN am.mapInfo /\ info[x] = am.mapInfo[x] /\ x \in Nat
        BY <1>2, <1>6, <2>1, <3>2
      <4>2. x < id /\ am.mapInfo[x].nRandomPos \in 1 .. n /\ am.vRandom[am.mapInfo[x].nRandomPos] = x
        BY <1>1, <4>1 DEF Random
      <4> DEFINE k == am.mapInfo[x].nRandomPos
      <4>3. k \in 1 .. n /\ info[x].nRandomPos = k /\ am.vRandom[k] = x
        BY <4>1, <4>2
      <4> HIDE DEF k
      <4>4. vec[k] = x
        BY <1>8, <4>3
      <4>5. n \in Nat /\ id \in Nat
        BY <1>2
      <4>6. k \in 1 .. n + 1 /\ x < id + 1
        BY <4>1, <4>2, <4>3, <4>5
      <4> QED BY <4>3, <4>4, <4>6
    <3> QED BY <3>1, <3>2
  <2>2. ASSUME NEW k \in 1 .. n + 1
        PROVE  vec[k] \in DOMAIN info /\ info[vec[k]].nRandomPos = k
    <3>1. CASE k = n + 1
      BY <1>5, <1>6, <1>8, <3>1
    <3>2. CASE k # n + 1
      <4>1. k \in 1 .. n /\ vec[k] = am.vRandom[k]
        BY <1>2, <1>8, <2>2, <3>2, SMTT(30)
      <4>2. am.vRandom[k] \in DOMAIN am.mapInfo /\ am.mapInfo[am.vRandom[k]].nRandomPos = k
        BY <1>1, <4>1 DEF Random
      <4> QED BY <1>6, <4>1, <4>2
    <3> QED BY <3>1, <3>2
  <2> QED BY <1>4, <1>8, <2>1, <2>2 DEF Random
<1>11. Addresses(b)
  <2>1. ASSUME NEW x \in DOMAIN info
        PROVE  Net[info[x].s] \in DOMAIN addr /\ addr[Net[info[x].s]] = x
    <3>1. CASE x = id
      BY <1>5, <1>6, <1>7, <3>1
    <3>2. CASE x # id
      <4>1. x \in DOMAIN am.mapInfo /\ info[x] = am.mapInfo[x]
        BY <1>6, <2>1, <3>2
      <4>2. Net[am.mapInfo[x].s] \in DOMAIN am.mapAddr /\ am.mapAddr[Net[am.mapInfo[x].s]] = x
        BY <1>1, <4>1 DEF Addresses
      <4> QED BY <1>7, <4>1, <4>2
    <3> QED BY <3>1, <3>2
  <2>2. ASSUME NEW k \in DOMAIN addr
        PROVE  addr[k] \in DOMAIN info /\ Net[info[addr[k]].s] = k
    <3>1. CASE k = Net[s]
      BY <1>5, <1>6, <1>7, <3>1
    <3>2. CASE k # Net[s]
      <4>1. k \in DOMAIN am.mapAddr /\ addr[k] = am.mapAddr[k]
        BY <1>7, <2>2, <3>2
      <4>2. am.mapAddr[k] \in DOMAIN am.mapInfo /\ Net[am.mapInfo[am.mapAddr[k]].s] = k
        BY <1>1, <4>1 DEF Addresses
      <4> QED BY <1>6, <4>1, <4>2
    <3> QED BY <3>1, <3>2
  <2> QED BY <1>4, <2>1, <2>2 DEF Addresses
<1>12. NewTable(b)
  <2>1. \A x : Refs(b, x) = Refs(am, x)
    BY <1>4 DEF Refs
  <2>2. \A slot \in NewSlots : am.vvNew[slot] # id
    <3>1. id # -1
      BY <1>2
    <3> HIDE DEF id
    <3> QED BY <1>1, <1>3, <3>1 DEF NewTable
  <2>3. Refs(am, id) = {}
    BY <2>2 DEF Refs
  <2>4. \A x \in DOMAIN info : info[x].nRefCount = Cardinality(Refs(b, x))
    BY <1>1, <1>5, <1>6, <2>1, <2>3, FS_EmptySet, ZenonT(40) DEF NewTable
  <2>5. ASSUME NEW t \in NewSlots, am.vvNew[t] # -1
        PROVE  /\ am.vvNew[t] \in DOMAIN info /\ ~info[am.vvNew[t]].fInTried
               /\ NewSlot(b, info[am.vvNew[t]].s, t[1]) = t
    <3>1. /\ am.vvNew[t] \in DOMAIN am.mapInfo /\ ~am.mapInfo[am.vvNew[t]].fInTried
          /\ NewSlot(am, am.mapInfo[am.vvNew[t]].s, t[1]) = t
      BY <1>1, <2>5 DEF NewTable
    <3>2. NewSlot(b, am.mapInfo[am.vvNew[t]].s, t[1]) = NewSlot(am, am.mapInfo[am.vvNew[t]].s, t[1])
      BY <1>4, SameSlots
    <3> QED BY <1>6, <3>1, <3>2
  <2> QED BY <1>4, <2>4, <2>5 DEF NewTable
<1>13. TriedTable(b) /\ Tried(b) = Tried(am)
  <2>1. \A x \in DOMAIN am.mapInfo : x \in DOMAIN b.mapInfo /\ SamePeer(b.mapInfo[x], am.mapInfo[x])
    BY <1>4, <1>6 DEF SamePeer
  <2>2. \A x \in DOMAIN b.mapInfo : b.mapInfo[x].fInTried => x \in DOMAIN am.mapInfo
    BY <1>4, <1>5, <1>6
  <2> QED BY <1>1, <1>4, <2>1, <2>2, TriedKept
<1>14. Counters(b)
  <2>1. DOMAIN b.mapInfo = DOMAIN am.mapInfo \cup {id} /\ Len(b.vRandom) = Len(am.vRandom) + 1
    BY <1>4, <1>6, <1>8
  <2> HIDE DEF id
  <2> QED BY <1>1, <1>3, <1>4, <1>13, <2>1, CountersAdd
<1>15. Coherent(b)
  BY <1>9, <1>10, <1>11, <1>12, <1>13, <1>14 DEF Coherent, Base
<1>16. Grown(am, b, s)
  BY <1>3, <1>4, <1>5, <1>6 DEF Grown
<1> QED BY <1>15, <1>16 DEF b

-----------------------------------------------------------------------------
(* Add *)

\* Every entry but id is in a table.
OthersIn(am, id) ==
    \A x \in DOMAIN am.mapInfo : x # id => am.mapInfo[x].fInTried \/ am.mapInfo[x].nRefCount > 0

\* b has an entry in every tried slot that has one in a.
Filled(a, b) == \A slot \in TriedSlots : a.vvTried[slot] # -1 => b.vvTried[slot] # -1

\* b still has every peer that is tried in a, in a table or the other.
Remembers(a, b) ==
    Filled(a, b) /\ \A x \in Tried(a) : x \in DOMAIN b.mapInfo /\ b.mapInfo[x].s = a.mapInfo[x].s

LEMMA DeleteCoherent ==
    ASSUME NEW am, Coherent(am), Limited(am), NEW id \in DOMAIN am.mapInfo,
           ~am.mapInfo[id].fInTried, am.mapInfo[id].nRefCount = 0
    PROVE  /\ Coherent(Delete(am, id)) /\ Limited(Delete(am, id))
           /\ Dropped(am, Delete(am, id), id) /\ Remembers(am, Delete(am, id))
<1> DEFINE b == Delete(am, id)
<1>1. am \in Managers /\ Random(am) /\ TriedTable(am) /\ Counters(am) /\ Base(am)
  BY DEF Coherent, Base
<1>2. Base(b) /\ Dropped(am, b, id)
  BY <1>1, DeleteFacts
<1> HIDE DEF b
<1>3. /\ DOMAIN b.mapInfo = DOMAIN am.mapInfo \ {id}
      /\ \A x \in DOMAIN b.mapInfo : SamePeer(b.mapInfo[x], am.mapInfo[x])
      /\ \A x \in DOMAIN b.mapInfo : b.mapInfo[x].nRefCount = am.mapInfo[x].nRefCount
      /\ b.nKey = am.nKey /\ b.nIdCount = am.nIdCount /\ b.vvTried = am.vvTried /\ b.nTried = am.nTried
      /\ b.nNew = am.nNew - 1 /\ Len(b.vRandom) = Len(am.vRandom) - 1
  BY <1>2 DEF Dropped, SameEntry, SamePeer
<1>4. TriedTable(b) /\ Tried(b) = Tried(am)
  <2>1. \A x \in DOMAIN am.mapInfo : am.mapInfo[x].fInTried =>
            x \in DOMAIN b.mapInfo /\ SamePeer(b.mapInfo[x], am.mapInfo[x])
    BY <1>3
  <2>2. \A x \in DOMAIN b.mapInfo : b.mapInfo[x].fInTried =>
            x \in DOMAIN am.mapInfo /\ SamePeer(b.mapInfo[x], am.mapInfo[x])
    BY <1>3
  <2> QED BY <1>1, <1>3, <2>1, <2>2, TriedKept
<1>5. Counters(b)
  <2>1. id \in Untried(am)
    BY DEF Untried, Tried
  <2> QED BY <1>1, <1>3, <1>4, <2>1, CountersDrop
<1>6. Limited(b)
  BY <1>3 DEF Limited
<1>7. Remembers(am, b)
  BY <1>3, <1>4 DEF Remembers, Filled, Tried, SamePeer
<1> QED BY <1>2, <1>4, <1>5, <1>6, <1>7 DEF Coherent, b

LEMMA DeleteSound ==
    ASSUME NEW am, Coherent(am), Limited(am), NEW id \in DOMAIN am.mapInfo,
           ~am.mapInfo[id].fInTried, am.mapInfo[id].nRefCount = 0, OthersIn(am, id)
    PROVE  Sound(Delete(am, id)) /\ Remembers(am, Delete(am, id))
<1> DEFINE b == Delete(am, id)
<1>1. Coherent(b) /\ Limited(b) /\ Dropped(am, b, id) /\ Remembers(am, b)
  BY DeleteCoherent
<1> HIDE DEF b
<1>2. InTable(b)
  BY <1>1 DEF Dropped, SameEntry, InTable, OthersIn
<1> QED BY <1>1, <1>2 DEF Sound, b

LEMMA ReferSound ==
    ASSUME NEW am, Coherent(am), Limited(am), NEW id \in DOMAIN am.mapInfo, NEW slot \in NewSlots,
           ~am.mapInfo[id].fInTried, am.vvNew[slot] # id,
           NewSlot(am, am.mapInfo[id].s, slot[1]) = slot, OthersIn(am, id),
           am.mapInfo[id].nRefCount < ADDRMAN_NEW_BUCKETS_PER_ADDRESS
    PROVE  Sound(Refer(am, id, slot)) /\ Remembers(am, Refer(am, id, slot))
<1> DEFINE b == Refer(am, id, slot)
           y == am.vvNew[slot]
<1>1. am \in Managers /\ Random(am) /\ NewTable(am) /\ TriedTable(am) /\ Counters(am) /\ Base(am)
  BY DEF Coherent, Base
<1>2. Base(b) /\ Referred(am, b, id, slot)
  BY <1>1, ReferFacts
<1>3. y \in DOMAIN am.mapInfo => ~am.mapInfo[y].fInTried
  <2>1. DOMAIN am.mapInfo \subseteq Nat
    BY <1>1, ManagerType
  <2>2. y \in DOMAIN am.mapInfo => y # -1
    BY <2>1
  <2> QED BY <1>1, <2>2 DEF NewTable
<1> HIDE DEF b
<1>4. /\ b.nKey = am.nKey /\ b.nIdCount = am.nIdCount /\ b.vvTried = am.vvTried /\ b.nTried = am.nTried
      /\ \/ /\ DOMAIN b.mapInfo = DOMAIN am.mapInfo
            /\ b.nNew = am.nNew /\ Len(b.vRandom) = Len(am.vRandom)
         \/ /\ y \in DOMAIN am.mapInfo
            /\ DOMAIN b.mapInfo = DOMAIN am.mapInfo \ {y}
            /\ b.nNew = am.nNew - 1 /\ Len(b.vRandom) = Len(am.vRandom) - 1
      /\ \A x \in DOMAIN b.mapInfo : SamePeer(b.mapInfo[x], am.mapInfo[x])
      /\ \A x \in DOMAIN b.mapInfo :
            /\ x # id => b.mapInfo[x].nRefCount <= am.mapInfo[x].nRefCount
            /\ x # id /\ am.mapInfo[x].nRefCount > 0 => b.mapInfo[x].nRefCount > 0
      /\ b.mapInfo[id].nRefCount = am.mapInfo[id].nRefCount + 1
  BY <1>2 DEF Referred
<1> HIDE DEF y
<1>5. TriedTable(b) /\ Tried(b) = Tried(am)
  <2>1. \A x \in DOMAIN am.mapInfo : am.mapInfo[x].fInTried =>
            x \in DOMAIN b.mapInfo /\ SamePeer(b.mapInfo[x], am.mapInfo[x])
    BY <1>3, <1>4
  <2>2. \A x \in DOMAIN b.mapInfo : b.mapInfo[x].fInTried =>
            x \in DOMAIN am.mapInfo /\ SamePeer(b.mapInfo[x], am.mapInfo[x])
    BY <1>4
  <2> QED BY <1>1, <1>4, <2>1, <2>2, TriedKept
<1>6. Counters(b)
  <2>1. CASE DOMAIN b.mapInfo = DOMAIN am.mapInfo /\ b.nNew = am.nNew /\ Len(b.vRandom) = Len(am.vRandom)
    <3>1. Untried(b) = Untried(am)
      BY <1>5, <2>1 DEF Untried
    <3> QED BY <1>1, <1>4, <1>5, <2>1, <3>1 DEF Counters
  <2>2. CASE /\ y \in DOMAIN am.mapInfo /\ DOMAIN b.mapInfo = DOMAIN am.mapInfo \ {y}
             /\ b.nNew = am.nNew - 1 /\ Len(b.vRandom) = Len(am.vRandom) - 1
    <3>1. y \in Untried(am)
      BY <1>3, <2>2 DEF Untried, Tried
    <3> QED BY <1>1, <1>4, <1>5, <2>2, <3>1, CountersDrop
  <2> QED BY <1>4, <2>1, <2>2
<1>7. Limited(b)
  <2>1. \A x \in DOMAIN am.mapInfo : am.mapInfo[x].nRefCount \in Int
    BY <1>1, ManagerType
  <2>2. \A x \in DOMAIN b.mapInfo : b.mapInfo[x].nRefCount \in Int /\ x \in DOMAIN am.mapInfo
    BY <1>2, <1>4, ManagerType DEF Base
  <2>3. /\ am.nIdCount <= MaxIds + Cardinality(Services)
        /\ \A x \in DOMAIN am.mapInfo : am.mapInfo[x].nRefCount <= ADDRMAN_NEW_BUCKETS_PER_ADDRESS
    BY DEF Limited
  <2>4. ADDRMAN_NEW_BUCKETS_PER_ADDRESS \in Int
    BY AddrManAssumption
  <2>5. ASSUME NEW x \in DOMAIN b.mapInfo PROVE b.mapInfo[x].nRefCount <= ADDRMAN_NEW_BUCKETS_PER_ADDRESS
    <3>1. CASE x = id
      BY <1>4, <2>1, <2>4, <3>1
    <3>2. CASE x # id
      <4>1. b.mapInfo[x].nRefCount <= am.mapInfo[x].nRefCount
        BY <1>4, <3>2
      <4> QED BY <2>1, <2>2, <2>3, <2>4, <4>1
    <3> QED BY <3>1, <3>2
  <2> QED BY <1>4, <2>3, <2>5 DEF Limited
<1>8. InTable(b)
  <2>1. am.mapInfo[id].nRefCount \in Nat
    BY <1>1, SlotsFinite DEF NewTable
  <2>2. ASSUME NEW x \in DOMAIN b.mapInfo PROVE b.mapInfo[x].fInTried \/ b.mapInfo[x].nRefCount > 0
    <3>1. CASE x = id
      BY <1>4, <2>1, <3>1
    <3>2. CASE x # id
      BY <1>4, <3>2 DEF OthersIn, SamePeer
    <3> QED BY <3>1, <3>2
  <2> QED BY <2>2 DEF InTable
<1>9. Remembers(am, b)
  <2>1. \A x \in Tried(b) : x \in DOMAIN b.mapInfo
    BY DEF Tried
  <2> QED BY <1>4, <1>5, <2>1 DEF Remembers, Filled, SamePeer
<1> QED BY <1>2, <1>5, <1>6, <1>7, <1>8, <1>9 DEF Sound, Coherent, b

LEMMA AddInv ==
    ASSUME IndInv, NEW s \in Services, NEW source \in Sources, NEW t \in BOOLEAN, Add(s, source, t)
    PROVE  IndInv' /\ Remembers(m, m')
<1> DEFINE known == Net[s] \in DOMAIN m.mapAddr
           id == IF known THEN m.mapAddr[Net[s]] ELSE m.nIdCount
           am == IF known THEN m ELSE Created(m, s, source)
           bucket == GetNewBucket[am.nKey, am.mapInfo[id].s, source]
           slot == NewSlot(am, am.mapInfo[id].s, bucket)
<1>1. Coherent(m) /\ Limited(m) /\ InTable(m) /\ m \in Managers /\ Addresses(m)
  BY DEF IndInv, Sound, Coherent, Base
<1>2. m' = IF am.vvNew[slot] = id THEN am
           ELSE IF Inserts(am, id, slot, t) THEN Refer(am, id, slot)
           ELSE IF am.mapInfo[id].nRefCount = 0 THEN Delete(am, id) ELSE am
  BY DEF Add, Added, Created
<1>3. \A x \in DOMAIN m.mapInfo : m.mapInfo[x].nRefCount \in Int
  BY <1>1, ManagerType
<1>4. /\ ADDRMAN_NEW_BUCKETS_PER_ADDRESS \in Int /\ 0 < ADDRMAN_NEW_BUCKETS_PER_ADDRESS
      /\ MaxIds \in Nat /\ Cardinality(Services) \in Nat
  BY AddrManAssumption, FS_CardinalityType
<1>5. /\ Coherent(am) /\ Limited(am) /\ id \in DOMAIN am.mapInfo /\ ~am.mapInfo[id].fInTried
      /\ OthersIn(am, id) /\ am.mapInfo[id].nRefCount < ADDRMAN_NEW_BUCKETS_PER_ADDRESS
      /\ am.mapInfo[id].nRefCount = 0 => ~known /\ Refs(am, id) = {}
      /\ am.vvTried = m.vvTried
      /\ \A x \in Tried(m) : x \in Tried(am) /\ am.mapInfo[x].s = m.mapInfo[x].s
  <2>1. CASE known
    <3>1. am = m /\ id \in DOMAIN m.mapInfo
      BY <1>1, <2>1 DEF Addresses
    <3>2. MayGrow(id)
      BY <2>1 DEF Add
    <3>3. m.mapInfo[id].nRefCount <= ADDRMAN_NEW_BUCKETS_PER_ADDRESS /\ m.mapInfo[id].nRefCount \in Int
      BY <1>1, <1>3, <3>1 DEF Limited
    <3>4. ~m.mapInfo[id].fInTried /\ m.mapInfo[id].nRefCount # ADDRMAN_NEW_BUCKETS_PER_ADDRESS
      BY <3>2 DEF MayGrow
    <3>5. m.mapInfo[id].nRefCount < ADDRMAN_NEW_BUCKETS_PER_ADDRESS
      BY <1>4, <3>3, <3>4
    <3>6. m.mapInfo[id].nRefCount > 0
      BY <1>1, <3>1, <3>4 DEF InTable
    <3>7. OthersIn(m, id)
      BY <1>1 DEF InTable, OthersIn
    <3> HIDE DEF am, id
    <3> QED BY <1>1, <3>1, <3>3, <3>4, <3>5, <3>6, <3>7
  <2>2. CASE ~known
    <3>1. am = Created(m, s, source) /\ id = m.nIdCount
      BY <2>2
    <3>2. m.nIdCount < MaxIds /\ m.nIdCount \in Nat
      BY <1>1, <2>2, ManagerType DEF Add
    <3> DEFINE c == Created(m, s, source)
               k == m.nIdCount
    <3>3. /\ Coherent(c) /\ c.nIdCount = k + 1
          /\ k \notin DOMAIN m.mapInfo /\ DOMAIN c.mapInfo = DOMAIN m.mapInfo \cup {k}
          /\ c.mapInfo[k].s = s /\ c.mapInfo[k].nRefCount = 0 /\ c.mapInfo[k].fInTried = FALSE
          /\ c.vvTried = m.vvTried
          /\ \A x \in DOMAIN m.mapInfo : c.mapInfo[x] = m.mapInfo[x]
      <4>1. Coherent(m) /\ Net[s] \notin DOMAIN m.mapAddr
        BY <1>1, <2>2
      <4>2. Coherent(c) /\ Grown(m, c, s)
        BY <4>1, CreateFacts
      <4> QED BY <4>2 DEF Grown
    <3> HIDE DEF c
    <3>4. Limited(c)
      <4>1. k + 1 <= MaxIds + Cardinality(Services)
        BY <1>4, <3>2
      <4>2. \A x \in DOMAIN m.mapInfo : m.mapInfo[x].nRefCount <= ADDRMAN_NEW_BUCKETS_PER_ADDRESS
        BY <1>1 DEF Limited
      <4>3. 0 <= ADDRMAN_NEW_BUCKETS_PER_ADDRESS
        BY <1>4
      <4> QED BY <3>3, <4>1, <4>2, <4>3 DEF Limited
    <3>5. OthersIn(c, k)
      BY <1>1, <3>3 DEF InTable, OthersIn
    <3>6. Refs(c, k) = {}
      <4>1. c.mapInfo[k].nRefCount = Cardinality(Refs(c, k))
        BY <3>3 DEF Coherent, Base, NewTable
      <4> QED BY <3>3, <4>1, SlotsFinite, FS_EmptySet
    <3>7. \A x \in Tried(m) : x \in Tried(c) /\ c.mapInfo[x].s = m.mapInfo[x].s
      BY <3>3 DEF Tried
    <3> HIDE DEF am, id, k
    <3>8. am = c /\ id = k
      BY <3>1 DEF c, k
    <3> QED BY <1>4, <2>2, <3>3, <3>4, <3>5, <3>6, <3>7, <3>8
  <2> QED BY <2>1, <2>2
<1> HIDE DEF am, id
<1>6. am \in Managers /\ am.mapInfo[id].s \in Services /\ am.mapInfo[id].nRefCount \in Int
  BY <1>5, ManagerType DEF Coherent, Base
<1>7. bucket \in NewBuckets
  BY <1>6, SlotTypes
<1>8. slot \in NewSlots /\ slot[1] = bucket /\ NewSlot(am, am.mapInfo[id].s, slot[1]) = slot
  BY <1>6, <1>7, SlotTypes
<1> HIDE DEF slot
<1>9. am.mapInfo[id].nRefCount > 0 => Sound(am)
  BY <1>5 DEF Sound, InTable, OthersIn
<1>10. am.mapInfo[id].nRefCount >= 0
  <2>1. am.mapInfo[id].nRefCount = Cardinality(Refs(am, id))
    BY <1>5 DEF Coherent, Base, NewTable
  <2> QED BY <2>1, SlotsFinite
<1>11. CASE am.vvNew[slot] = id
  <2>1. slot \in Refs(am, id)
    BY <1>8, <1>11 DEF Refs
  <2>2. am.mapInfo[id].nRefCount > 0
    BY <1>5, <1>6, <1>10, <2>1
  <2>3. m' = am
    BY <1>2, <1>11
  <2>4. Remembers(m, m')
    BY <1>5, <2>3 DEF Remembers, Filled, Tried
  <2> QED BY <1>9, <2>2, <2>3, <2>4 DEF IndInv
<1>12. CASE am.vvNew[slot] # id /\ Inserts(am, id, slot, t)
  <2>1. Sound(Refer(am, id, slot)) /\ Remembers(am, Refer(am, id, slot))
    BY <1>5, <1>8, <1>12, ReferSound
  <2>2. m' = Refer(am, id, slot)
    BY <1>2, <1>12
  <2>3. Remembers(m, m')
    BY <1>5, <2>1, <2>2 DEF Remembers, Filled
  <2> QED BY <2>1, <2>2, <2>3 DEF IndInv
<1>13. CASE am.vvNew[slot] # id /\ ~Inserts(am, id, slot, t)
  <2>1. CASE am.mapInfo[id].nRefCount = 0
    <3>1. Sound(Delete(am, id)) /\ Remembers(am, Delete(am, id))
      BY <1>5, <2>1, DeleteSound
    <3>2. m' = Delete(am, id)
      BY <1>2, <1>13, <2>1
    <3>3. Remembers(m, m')
      BY <1>5, <3>1, <3>2 DEF Remembers, Filled
    <3> QED BY <3>1, <3>2, <3>3 DEF IndInv
  <2>2. CASE am.mapInfo[id].nRefCount # 0
    <3>1. Sound(am)
      BY <1>6, <1>9, <1>10, <2>2
    <3>2. m' = am
      BY <1>2, <1>13, <2>2
    <3>3. Remembers(m, m')
      BY <1>5, <3>2 DEF Remembers, Filled, Tried
    <3> QED BY <3>1, <3>2, <3>3 DEF IndInv
  <2> QED BY <2>1, <2>2
<1> QED BY <1>11, <1>12, <1>13

-----------------------------------------------------------------------------
(* MakeTried *)

\* f pairs the members of S with those of T.
Pairs(f, S, T) ==
    /\ f \in [S -> T]
    /\ \A x, y \in S : f[x] = f[y] => x = y
    /\ \A y \in T : \E x \in S : f[x] = y

LEMMA SameSize ==
    ASSUME NEW S, NEW T, IsFiniteSet(T), NEW f, Pairs(f, S, T)
    PROVE  Cardinality(S) = Cardinality(T) /\ IsFiniteSet(S)
<1>1. f \in Injection(S, T)
  BY DEF Pairs, Injection, IsInjective
<1>2. f \in Surjection(S, T)
  BY DEF Pairs, Surjection
<1> QED BY <1>1, <1>2, FS_Injection

\* All references to id are taken away.
Held(am, id) == {b \in NewBuckets : am.vvNew[NewSlot(am, am.mapInfo[id].s, b)] = id}
Withdrawn(am, id) ==
    [am EXCEPT !.vvNew = [x \in DOMAIN @ |->
                             IF \E b \in Held(am, id) : x = NewSlot(am, am.mapInfo[id].s, b)
                             THEN -1 ELSE @[x]],
               !.mapInfo[id].nRefCount = @ - Cardinality(Held(am, id)),
               !.nNew = @ - 1]

\* b is a with no slot of the new table for id.
Freed(a, b, id) ==
    /\ DOMAIN b.mapInfo = DOMAIN a.mapInfo
    /\ SamePeer(b.mapInfo[id], a.mapInfo[id]) /\ b.mapInfo[id].nRefCount = 0
    /\ \A x \in DOMAIN a.mapInfo : x # id => b.mapInfo[x] = a.mapInfo[x]
    /\ b.nKey = a.nKey /\ b.nIdCount = a.nIdCount /\ b.vvTried = a.vvTried /\ b.nTried = a.nTried
    /\ b.nNew = a.nNew - 1 /\ Len(b.vRandom) = Len(a.vRandom)
    /\ \A t \in NewSlots : b.vvNew[t] = IF a.vvNew[t] = id THEN -1 ELSE a.vvNew[t]

LEMMA HeldSlots ==
    ASSUME NEW am, Base(am), NEW id \in DOMAIN am.mapInfo
    PROVE  /\ Cardinality(Held(am, id)) = am.mapInfo[id].nRefCount
           /\ \A t \in NewSlots : (\E b \in Held(am, id) : t = NewSlot(am, am.mapInfo[id].s, b))
                                    <=> am.vvNew[t] = id
<1> DEFINE s == am.mapInfo[id].s
           H == Held(am, id)
           f == [b \in H |-> NewSlot(am, s, b)]
<1>1. am \in Managers /\ NewTable(am)
  BY DEF Base
<1>2. id \in Nat /\ s \in Services
  BY <1>1, ManagerType
<1>3. \A b \in NewBuckets : NewSlot(am, s, b) \in NewSlots /\ NewSlot(am, s, b)[1] = b
  BY <1>1, <1>2, SlotTypes
<1>4. \A t \in NewSlots : t[1] \in NewBuckets
  BY DEF NewSlots
<1>5. \A t \in Refs(am, id) : t \in NewSlots /\ NewSlot(am, s, t[1]) = t
  <2>1. id # -1
    BY <1>2
  <2> QED BY <1>1, <2>1 DEF Refs, NewTable
<1>6. \A b \in H : b \in NewBuckets /\ NewSlot(am, s, b) \in Refs(am, id)
  BY <1>3 DEF Held, Refs
<1>7. \A t \in Refs(am, id) : t[1] \in H /\ NewSlot(am, s, t[1]) = t
  <2> SUFFICES ASSUME NEW t \in Refs(am, id) PROVE t[1] \in H /\ NewSlot(am, s, t[1]) = t
    OBVIOUS
  <2>1. t \in NewSlots /\ am.vvNew[t] = id
    BY DEF Refs
  <2>2. t[1] \in NewBuckets /\ NewSlot(am, s, t[1]) = t
    BY <1>4, <1>5, <2>1
  <2> QED BY <2>1, <2>2 DEF Held
<1> HIDE DEF s, H
<1>8. Pairs(f, H, Refs(am, id))
  <2>1. f \in [H -> Refs(am, id)]
    BY <1>6
  <2>2. \A x, y \in H : f[x] = f[y] => x = y
    BY <1>3, <1>6
  <2>3. \A t \in Refs(am, id) : \E b \in H : f[b] = t
    BY <1>7
  <2> HIDE DEF f
  <2> QED BY <2>1, <2>2, <2>3 DEF Pairs
<1> HIDE DEF f
<1>9. Cardinality(H) = Cardinality(Refs(am, id))
  BY <1>8, SlotsFinite, SameSize
<1>10. am.mapInfo[id].nRefCount = Cardinality(Refs(am, id))
  BY <1>1 DEF NewTable
<1>11. \A t \in NewSlots : (\E b \in H : t = NewSlot(am, s, b)) <=> t \in Refs(am, id)
  BY <1>6, <1>7
<1>12. \A t \in NewSlots : t \in Refs(am, id) <=> am.vvNew[t] = id
  BY DEF Refs
<1> QED BY <1>9, <1>10, <1>11, <1>12 DEF s, H

LEMMA WithdrawnFacts ==
    ASSUME NEW am, Base(am), NEW id \in DOMAIN am.mapInfo
    PROVE  Base(Withdrawn(am, id)) /\ Freed(am, Withdrawn(am, id), id)
<1> DEFINE u == Withdrawn(am, id)
           k == am.mapInfo[id].nRefCount - Cardinality(Held(am, id))
           r == [am.mapInfo[id] EXCEPT !.nRefCount = k]
           table == [x \in DOMAIN am.vvNew |->
                             IF \E b \in Held(am, id) : x = NewSlot(am, am.mapInfo[id].s, b)
                             THEN -1 ELSE am.vvNew[x]]
<1>1. am \in Managers /\ Random(am) /\ Addresses(am) /\ NewTable(am)
  BY DEF Base
<1>2. /\ am.mapInfo[id] \in Info /\ am.mapInfo[id].nRefCount \in Int /\ id \in Nat
      /\ am.vvNew \in [NewSlots -> Int] /\ am.vvTried \in [TriedSlots -> Int]
      /\ am.nNew \in Int /\ am.nTried \in Int
  BY <1>1, ManagerType
<1>3. k = 0
  BY <1>2, HeldSlots
<1>4. /\ r \in Info /\ r.s = am.mapInfo[id].s /\ r.source = am.mapInfo[id].source
      /\ r.nRandomPos = am.mapInfo[id].nRandomPos /\ r.fInTried = am.mapInfo[id].fInTried
      /\ r.nRefCount = 0
  <2>1. am.mapInfo[id] \in Info /\ k \in Int /\ 0 \in Nat
    BY <1>2, <1>3
  <2> HIDE DEF k
  <2>2. /\ r \in Info /\ r.s = am.mapInfo[id].s /\ r.source = am.mapInfo[id].source
        /\ r.nRandomPos = am.mapInfo[id].nRandomPos /\ r.fInTried = am.mapInfo[id].fInTried
        /\ r.nRefCount = k
    BY <2>1, EntryChanges
  <2> QED BY <1>3, <2>2
<1>5. /\ DOMAIN table = NewSlots
      /\ \A t \in NewSlots : table[t] = IF am.vvNew[t] = id THEN -1 ELSE am.vvNew[t]
      /\ table = [t \in DOMAIN table |-> table[t]]
  <2>1. DOMAIN am.vvNew = NewSlots
    BY <1>2
  <2> QED BY <2>1, HeldSlots
<1>6. u = [am EXCEPT !.vvNew = table, !.mapInfo[id].nRefCount = k, !.nNew = am.nNew - 1]
  BY DEF Withdrawn
<1> HIDE DEF table, u, k
<1>7. /\ DOMAIN u = DOMAIN am /\ u = [z \in DOMAIN u |-> u[z]]
      /\ u.mapInfo = [am.mapInfo EXCEPT ![id] = r] /\ u.vvNew = table
      /\ u.nKey = am.nKey /\ u.nIdCount = am.nIdCount /\ u.mapAddr = am.mapAddr /\ u.vRandom = am.vRandom
      /\ u.vvTried = am.vvTried /\ u.nTried = am.nTried /\ u.nNew = am.nNew - 1
  <2>1. DOMAIN am = {"nKey", "nIdCount", "mapInfo", "mapAddr", "vRandom",
                           "vvNew", "nNew", "vvTried", "nTried"}
    BY <1>1, ManagerType
  <2> QED BY <1>6, <2>1
<1> HIDE DEF r
<1>8. table \in [NewSlots -> Int]
  <2>1. \A t \in NewSlots : table[t] \in Int
    BY <1>2, <1>5
  <2> QED BY <1>5, <2>1
<1>9. Revised(am, u, id, r)
  <2>1. u.nNew \in Int /\ u.nTried \in Int /\ u.vvTried \in [TriedSlots -> Int]
    BY <1>2, <1>7
  <2> QED BY <1>4, <1>7, <1>8, <2>1 DEF Revised
<1>10. /\ u \in Managers /\ Random(u) /\ Addresses(u)
       /\ DOMAIN u.mapInfo = DOMAIN am.mapInfo /\ u.mapInfo[id] = r
       /\ \A x \in DOMAIN am.mapInfo : x # id => u.mapInfo[x] = am.mapInfo[x]
       /\ \A x \in DOMAIN am.mapInfo : u.mapInfo[x].s = am.mapInfo[x].s
  BY <1>1, <1>9, RevisedFacts
<1>11. \A t \in NewSlots : u.vvNew[t] = IF am.vvNew[t] = id THEN -1 ELSE am.vvNew[t]
  BY <1>5, <1>7
<1>12. Freed(am, u, id)
  BY <1>4, <1>7, <1>10, <1>11 DEF Freed, SamePeer
<1>13. NewTable(u)
  <2>1. \A x \in DOMAIN am.mapInfo : x # id => Refs(u, x) = Refs(am, x)
    <3>1. DOMAIN am.mapInfo \subseteq Nat
      BY <1>1, ManagerType
    <3>2. \A x \in DOMAIN am.mapInfo : x # -1
      BY <3>1
    <3> QED BY <1>11, <3>2 DEF Refs
  <2>2. Refs(u, id) = {}
    <3>1. id # -1
      BY <1>2
    <3> QED BY <1>11, <3>1 DEF Refs
  <2>3. \A x \in DOMAIN u.mapInfo : u.mapInfo[x].nRefCount = Cardinality(Refs(u, x))
    <3>1. Cardinality(Refs(u, id)) = 0
      BY <2>2, FS_EmptySet
    <3> QED BY <1>1, <1>4, <1>10, <2>1, <3>1 DEF NewTable
  <2>4. ASSUME NEW t \in NewSlots, u.vvNew[t] # -1
        PROVE  /\ u.vvNew[t] \in DOMAIN u.mapInfo /\ ~u.mapInfo[u.vvNew[t]].fInTried
               /\ NewSlot(u, u.mapInfo[u.vvNew[t]].s, t[1]) = t
    <3>1. u.vvNew[t] = am.vvNew[t] /\ am.vvNew[t] # id
      BY <1>11, <2>4
    <3>2. /\ am.vvNew[t] \in DOMAIN am.mapInfo /\ ~am.mapInfo[am.vvNew[t]].fInTried
          /\ NewSlot(am, am.mapInfo[am.vvNew[t]].s, t[1]) = t
      BY <1>1, <2>4, <3>1 DEF NewTable
    <3>3. NewSlot(u, am.mapInfo[am.vvNew[t]].s, t[1]) = NewSlot(am, am.mapInfo[am.vvNew[t]].s, t[1])
      BY <1>7, SameSlots
    <3> QED BY <1>10, <3>1, <3>2, <3>3
  <2> QED BY <2>3, <2>4 DEF NewTable
<1> QED BY <1>10, <1>12, <1>13 DEF Base, u

LEMMA TriedChanges ==
    ASSUME NEW r \in Info, NEW v \in BOOLEAN
    PROVE  LET e == [r EXCEPT !.fInTried = v]
           IN  /\ e \in Info /\ e.s = r.s /\ e.source = r.source /\ e.nRefCount = r.nRefCount
               /\ e.nRandomPos = r.nRandomPos /\ e.fInTried = v
<1> DEFINE e == [r EXCEPT !.fInTried = v]
<1>1. e \in Info
  BY DEF Info
<1>2. e.s = r.s /\ e.source = r.source
  BY DEF Info
<1>3. e.nRefCount = r.nRefCount /\ e.nRandomPos = r.nRandomPos
  BY DEF Info
<1>4. e.fInTried = v
  BY DEF Info
<1> QED BY <1>1, <1>2, <1>3, <1>4

\* am with the entry id in the table that v says.
Move(am, id, v, table, k) == [am EXCEPT !.mapInfo[id].fInTried = v, !.vvTried = table, !.nTried = k]
Moved(a, b, id, v) ==
    /\ DOMAIN b.mapInfo = DOMAIN a.mapInfo
    /\ b.mapInfo[id].s = a.mapInfo[id].s /\ b.mapInfo[id].source = a.mapInfo[id].source
    /\ b.mapInfo[id].nRefCount = a.mapInfo[id].nRefCount /\ b.mapInfo[id].fInTried = v
    /\ \A x \in DOMAIN a.mapInfo : x # id => b.mapInfo[x] = a.mapInfo[x]
    /\ b.nKey = a.nKey /\ b.nIdCount = a.nIdCount /\ b.vvNew = a.vvNew /\ b.nNew = a.nNew
    /\ Len(b.vRandom) = Len(a.vRandom)

LEMMA MovedFacts ==
    ASSUME NEW am, Base(am), NEW id \in DOMAIN am.mapInfo, NEW v \in BOOLEAN,
           NEW table \in [TriedSlots -> Int], NEW k \in Int,
           v => \A t \in NewSlots : am.vvNew[t] # id
    PROVE  /\ Base(Move(am, id, v, table, k)) /\ Moved(am, Move(am, id, v, table, k), id, v)
           /\ Move(am, id, v, table, k).vvTried = table /\ Move(am, id, v, table, k).nTried = k
<1> DEFINE u == Move(am, id, v, table, k)
           r == [am.mapInfo[id] EXCEPT !.fInTried = v]
<1>1. am \in Managers /\ Random(am) /\ Addresses(am) /\ NewTable(am)
  BY DEF Base
<1>2. am.mapInfo[id] \in Info /\ am.vvNew \in [NewSlots -> Int] /\ am.nNew \in Int
  BY <1>1, ManagerType
<1>3. /\ r \in Info /\ r.s = am.mapInfo[id].s /\ r.source = am.mapInfo[id].source
      /\ r.nRandomPos = am.mapInfo[id].nRandomPos /\ r.nRefCount = am.mapInfo[id].nRefCount
      /\ r.fInTried = v
  BY <1>2, TriedChanges
<1>4. /\ DOMAIN u = DOMAIN am /\ u = [z \in DOMAIN u |-> u[z]]
      /\ u.mapInfo = [am.mapInfo EXCEPT ![id] = r] /\ u.vvTried = table /\ u.nTried = k
      /\ u.nKey = am.nKey /\ u.nIdCount = am.nIdCount /\ u.mapAddr = am.mapAddr /\ u.vRandom = am.vRandom
      /\ u.vvNew = am.vvNew /\ u.nNew = am.nNew
  <2>1. DOMAIN am = {"nKey", "nIdCount", "mapInfo", "mapAddr", "vRandom",
                           "vvNew", "nNew", "vvTried", "nTried"}
    BY <1>1, ManagerType
  <2> QED BY <2>1 DEF Move
<1> HIDE DEF u, r
<1>5. Revised(am, u, id, r)
  BY <1>2, <1>3, <1>4 DEF Revised
<1>6. /\ u \in Managers /\ Random(u) /\ Addresses(u)
      /\ DOMAIN u.mapInfo = DOMAIN am.mapInfo /\ u.mapInfo[id] = r
      /\ \A x \in DOMAIN am.mapInfo : x # id => u.mapInfo[x] = am.mapInfo[x]
      /\ \A x \in DOMAIN am.mapInfo : u.mapInfo[x].s = am.mapInfo[x].s
  BY <1>1, <1>5, RevisedFacts
<1>7. Moved(am, u, id, v)
  BY <1>3, <1>4, <1>6 DEF Moved
<1>8. NewTable(u)
  <2>1. \A x : Refs(u, x) = Refs(am, x)
    BY <1>4 DEF Refs
  <2>2. \A x \in DOMAIN am.mapInfo : u.mapInfo[x].nRefCount = am.mapInfo[x].nRefCount
    BY <1>3, <1>6
  <2>3. \A x \in DOMAIN u.mapInfo : u.mapInfo[x].nRefCount = Cardinality(Refs(u, x))
    BY <1>1, <1>6, <2>1, <2>2 DEF NewTable
  <2>4. ASSUME NEW t \in NewSlots, am.vvNew[t] # -1
        PROVE  /\ am.vvNew[t] \in DOMAIN u.mapInfo /\ ~u.mapInfo[am.vvNew[t]].fInTried
               /\ NewSlot(u, u.mapInfo[am.vvNew[t]].s, t[1]) = t
    <3>1. /\ am.vvNew[t] \in DOMAIN am.mapInfo /\ ~am.mapInfo[am.vvNew[t]].fInTried
          /\ NewSlot(am, am.mapInfo[am.vvNew[t]].s, t[1]) = t
      BY <1>1, <2>4 DEF NewTable
    <3>2. NewSlot(u, am.mapInfo[am.vvNew[t]].s, t[1]) = NewSlot(am, am.mapInfo[am.vvNew[t]].s, t[1])
      BY <1>4, SameSlots
    <3>3. ~u.mapInfo[am.vvNew[t]].fInTried
      <4>1. CASE am.vvNew[t] = id
        BY <1>3, <1>6, <4>1
      <4>2. CASE am.vvNew[t] # id
        BY <1>6, <3>1, <4>2
      <4> QED BY <4>1, <4>2
    <3> QED BY <1>6, <3>1, <3>2, <3>3
  <2> QED BY <1>4, <2>3, <2>4 DEF NewTable
<1>9. Base(u)
  BY <1>6, <1>8 DEF Base
<1> QED BY <1>4, <1>7, <1>9 DEF u

\* The counter of the new table is set to k.
LEMMA NewCount ==
    ASSUME NEW am, Base(am), NEW k \in Int
    PROVE  LET b == [am EXCEPT !.nNew = k]
           IN  /\ Base(b) /\ b.nNew = k /\ b.mapInfo = am.mapInfo /\ b.vvNew = am.vvNew
               /\ b.nKey = am.nKey /\ b.nIdCount = am.nIdCount /\ b.vvTried = am.vvTried
               /\ b.nTried = am.nTried /\ b.vRandom = am.vRandom
<1> DEFINE b == [am EXCEPT !.nNew = k]
<1>1. am \in Managers /\ Random(am) /\ Addresses(am) /\ NewTable(am)
  BY DEF Base
<1>2. DOMAIN am = {"nKey", "nIdCount", "mapInfo", "mapAddr", "vRandom",
                           "vvNew", "nNew", "vvTried", "nTried"}
  BY <1>1, ManagerType
<1>3. /\ b.nNew = k /\ b.mapInfo = am.mapInfo /\ b.mapAddr = am.mapAddr /\ b.vvNew = am.vvNew
      /\ b.nKey = am.nKey /\ b.nIdCount = am.nIdCount /\ b.vvTried = am.vvTried
      /\ b.nTried = am.nTried /\ b.vRandom = am.vRandom
      /\ DOMAIN b = DOMAIN am /\ b = [z \in DOMAIN b |-> b[z]]
  BY <1>2
<1>4. b \in Managers
  BY <1>1 DEF Managers
<1> HIDE DEF b
<1>5. Random(b)
  BY <1>1, <1>3 DEF Random
<1>6. Addresses(b)
  BY <1>1, <1>3 DEF Addresses
<1>7. NewTable(b)
  <2>1. \A x : Refs(b, x) = Refs(am, x)
    BY <1>3 DEF Refs
  <2>2. \A s, t : NewSlot(b, s, t) = NewSlot(am, s, t)
    BY <1>3, SameSlots
  <2> QED BY <1>1, <1>3, <2>1, <2>2 DEF NewTable
<1> QED BY <1>3, <1>4, <1>5, <1>6, <1>7 DEF Base, b

\* f is a with all that MakeTried does before it enters id into the tried slot:
\* no reference to id, and the entry of the slot, if any, in the new table.
Ready(a, f, id, slot) ==
    /\ Base(f)
    /\ id \in Untried(f) /\ f.mapInfo[id].nRefCount = 0 /\ \A t \in NewSlots : f.vvNew[t] # id
    /\ f.nKey = a.nKey /\ f.nIdCount = a.nIdCount /\ f.vvTried = a.vvTried
    /\ DOMAIN f.mapInfo \subseteq DOMAIN a.mapInfo
    /\ \A x \in DOMAIN f.mapInfo : f.mapInfo[x].s = a.mapInfo[x].s
    /\ Tried(a) \subseteq DOMAIN f.mapInfo /\ Tried(f) = Tried(a) \ {a.vvTried[slot]}
    /\ f.nTried = Cardinality(Tried(f)) /\ f.nNew = Cardinality(Untried(f)) - 1
    /\ Len(f.vRandom) = f.nNew + f.nTried + 1
    /\ OthersIn(f, id)
    /\ \A x \in DOMAIN f.mapInfo : f.mapInfo[x].nRefCount <= ADDRMAN_NEW_BUCKETS_PER_ADDRESS

Promoted(f, id, slot) ==
    [f EXCEPT !.vvTried[slot] = id, !.nTried = @ + 1, !.mapInfo[id].fInTried = TRUE]
SoundAs(b, a, f) ==
    /\ Sound(b) /\ DOMAIN b.mapInfo = DOMAIN f.mapInfo /\ Filled(a, b)
    /\ \A x \in DOMAIN f.mapInfo : b.mapInfo[x].s = a.mapInfo[x].s
LEMMA PromoteSound ==
    ASSUME NEW a, Sound(a), NEW f, NEW id \in DOMAIN a.mapInfo,
           NEW slot, slot = TriedSlot(a, a.mapInfo[id].s), Ready(a, f, id, slot)
    PROVE  SoundAs(Promoted(f, id, slot), a, f)
<1> DEFINE table == [f.vvTried EXCEPT ![slot] = id]
           k == f.nTried + 1
           b == Promoted(f, id, slot)
           c == Move(f, id, TRUE, table, k)
<1>1. /\ Base(f) /\ f \in Managers /\ Random(f)
      /\ id \in Untried(f) /\ f.mapInfo[id].nRefCount = 0 /\ (\A t \in NewSlots : f.vvNew[t] # id)
      /\ f.nKey = a.nKey /\ f.nIdCount = a.nIdCount /\ f.vvTried = a.vvTried
      /\ DOMAIN f.mapInfo \subseteq DOMAIN a.mapInfo
      /\ (\A x \in DOMAIN f.mapInfo : f.mapInfo[x].s = a.mapInfo[x].s)
      /\ Tried(a) \subseteq DOMAIN f.mapInfo /\ Tried(f) = Tried(a) \ {a.vvTried[slot]}
      /\ f.nTried = Cardinality(Tried(f)) /\ f.nNew = Cardinality(Untried(f)) - 1
      /\ Len(f.vRandom) = f.nNew + f.nTried + 1
      /\ OthersIn(f, id)
      /\ (\A x \in DOMAIN f.mapInfo : f.mapInfo[x].nRefCount <= ADDRMAN_NEW_BUCKETS_PER_ADDRESS)
  BY DEF Ready, Base
<1>2. a \in Managers /\ TriedTable(a) /\ Limited(a)
  BY DEF Sound, Coherent, Base
<1>3. a.mapInfo[id].s \in Services /\ slot \in TriedSlots
  BY <1>2, ManagerType, SlotTypes
<1>4. id \in DOMAIN f.mapInfo /\ id \in Int /\ id # -1 /\ ~f.mapInfo[id].fInTried
  <2>1. id \in DOMAIN f.mapInfo
    BY <1>1 DEF Untried
  <2>2. id \in Nat
    BY <1>1, <2>1, ManagerType
  <2> QED BY <1>1, <2>1, <2>2 DEF Untried, Tried
<1>5. /\ f.vvTried \in [TriedSlots -> Int] /\ f.nTried \in Int /\ f.nNew \in Int
      /\ f.mapInfo = [x \in DOMAIN f.mapInfo |-> f.mapInfo[x]] /\ f.mapInfo[id] \in Info
      /\ DOMAIN f = {"nKey", "nIdCount", "mapInfo", "mapAddr", "vRandom",
                           "vvNew", "nNew", "vvTried", "nTried"}
  BY <1>1, <1>4, ManagerType
<1>6. b = c
  BY <1>5 DEF Move, Promoted
<1>7. table \in [TriedSlots -> Int] /\ k \in Int /\ TRUE \in BOOLEAN
  BY <1>3, <1>4, <1>5
<1>8. \A t \in TriedSlots : table[t] = IF t = slot THEN id ELSE a.vvTried[t]
  BY <1>1, <1>5
<1> HIDE DEF table, k
<1>9. Base(c) /\ Moved(f, c, id, TRUE) /\ c.vvTried = table /\ c.nTried = k
  <2> DEFINE v == TRUE
  <2>1. v \in BOOLEAN /\ (v => \A t \in NewSlots : f.vvNew[t] # id)
    BY <1>1
  <2> HIDE DEF v, c
  <2>2. /\ Base(Move(f, id, v, table, k)) /\ Moved(f, Move(f, id, v, table, k), id, v)
        /\ Move(f, id, v, table, k).vvTried = table /\ Move(f, id, v, table, k).nTried = k
    BY <1>1, <1>4, <1>7, <2>1, MovedFacts
  <2> QED BY <2>2 DEF v, c
<1> HIDE DEF c
<1>10. /\ DOMAIN c.mapInfo = DOMAIN f.mapInfo
       /\ c.mapInfo[id].s = f.mapInfo[id].s /\ c.mapInfo[id].nRefCount = f.mapInfo[id].nRefCount
       /\ c.mapInfo[id].fInTried = TRUE
       /\ \A x \in DOMAIN f.mapInfo : x # id => c.mapInfo[x] = f.mapInfo[x]
       /\ c.nKey = f.nKey /\ c.nIdCount = f.nIdCount /\ c.nNew = f.nNew /\ Len(c.vRandom) = Len(f.vRandom)
  BY <1>9 DEF Moved
<1>11. \A x \in DOMAIN c.mapInfo : c.mapInfo[x].s = a.mapInfo[x].s /\ x \in DOMAIN a.mapInfo
  BY <1>1, <1>4, <1>10
<1>12. Tried(c) = Tried(f) \cup {id} /\ id \notin Tried(f)
  <2>1. \A x \in DOMAIN f.mapInfo : x # id => (c.mapInfo[x].fInTried <=> f.mapInfo[x].fInTried)
    BY <1>10
  <2>2. id \notin Tried(f)
    BY <1>4 DEF Tried
  <2>3. \A x : x \in Tried(c) <=> x \in Tried(f) \/ x = id
    BY <1>4, <1>10, <2>1 DEF Tried
  <2> QED BY <2>2, <2>3
<1>13. TriedTable(c)
  <2>1. ASSUME NEW t \in TriedSlots, table[t] # -1
        PROVE  /\ table[t] \in DOMAIN c.mapInfo /\ c.mapInfo[table[t]].fInTried
               /\ TriedSlot(c, c.mapInfo[table[t]].s) = t
    <3>1. CASE t = slot
      <4>1. table[t] = id
        BY <1>8, <3>1
      <4>2. TriedSlot(c, a.mapInfo[id].s) = TriedSlot(a, a.mapInfo[id].s)
        BY <1>1, <1>10, SameSlots
      <4> QED BY <1>4, <1>10, <1>11, <3>1, <4>1, <4>2
    <3>2. CASE t # slot
      <4> DEFINE y == a.vvTried[t]
      <4>1. table[t] = y /\ y # -1
        BY <1>8, <2>1, <3>2
      <4>2. y \in DOMAIN a.mapInfo /\ a.mapInfo[y].fInTried /\ TriedSlot(a, a.mapInfo[y].s) = t
        BY <1>2, <4>1 DEF TriedTable
      <4>3. y # a.vvTried[slot]
        <5>1. a.vvTried[slot] # -1 => TriedSlot(a, a.mapInfo[a.vvTried[slot]].s) = slot
          BY <1>2, <1>3 DEF TriedTable
        <5> QED BY <3>2, <4>1, <4>2, <5>1
      <4> HIDE DEF y
      <4>4. y \in Tried(f)
        BY <1>1, <4>2, <4>3 DEF Tried
      <4>5. y \in Tried(c)
        BY <1>12, <4>4
      <4>6. y \in DOMAIN c.mapInfo /\ c.mapInfo[y].fInTried /\ c.mapInfo[y].s = a.mapInfo[y].s
        BY <1>11, <4>5 DEF Tried
      <4>7. TriedSlot(c, a.mapInfo[y].s) = TriedSlot(a, a.mapInfo[y].s)
        BY <1>1, <1>10, SameSlots
      <4> QED BY <4>1, <4>2, <4>6, <4>7
    <3> QED BY <3>1, <3>2
  <2>2. ASSUME NEW x \in DOMAIN c.mapInfo, c.mapInfo[x].fInTried
        PROVE  table[TriedSlot(c, c.mapInfo[x].s)] = x
    <3>1. TriedSlot(c, a.mapInfo[x].s) = TriedSlot(a, a.mapInfo[x].s) /\ c.mapInfo[x].s = a.mapInfo[x].s
      BY <1>1, <1>10, <1>11, SameSlots, SMTT(30)
    <3>2. CASE x = id
      <4>1. TriedSlot(c, c.mapInfo[x].s) = slot
        BY <3>1, <3>2
      <4> QED BY <1>3, <1>8, <3>2, <4>1
    <3>3. CASE x # id
      <4>1. x \in Tried(c)
        BY <2>2 DEF Tried
      <4>2. x \in Tried(a) /\ x # a.vvTried[slot]
        BY <1>1, <1>12, <3>3, <4>1
      <4>3. x \in DOMAIN a.mapInfo /\ a.mapInfo[x].fInTried /\ a.mapInfo[x].s \in Services
        BY <1>2, <4>2, ManagerType DEF Tried
      <4>4. a.vvTried[TriedSlot(a, a.mapInfo[x].s)] = x
        BY <1>2, <4>3 DEF TriedTable
      <4>5. TriedSlot(a, a.mapInfo[x].s) \in TriedSlots
        BY <1>2, <4>3, SlotTypes
      <4>6. TriedSlot(a, a.mapInfo[x].s) # slot
        BY <4>2, <4>4
      <4> QED BY <1>8, <3>1, <4>4, <4>5, <4>6
    <3> QED BY <3>2, <3>3
  <2> QED BY <1>9, <2>1, <2>2 DEF TriedTable
<1>14. Counters(c)
  <2>1. Untried(c) = Untried(f) \ {id}
    BY <1>10, <1>12 DEF Untried
  <2>2. /\ Cardinality(Untried(c)) = Cardinality(Untried(f)) - 1
        /\ Cardinality(Tried(c)) = Cardinality(Tried(f)) + 1
    <3>1. IsFiniteSet(Untried(f)) /\ IsFiniteSet(Tried(f))
      BY <1>1, IdsFinite
    <3>2. Cardinality(Untried(f) \ {id}) = Cardinality(Untried(f)) - 1
      BY <1>1, <3>1, FS_RemoveElement
    <3>3. Cardinality(Tried(f) \cup {id}) = Cardinality(Tried(f)) + 1
      BY <1>12, <3>1, FS_AddElement
    <3> QED BY <1>12, <2>1, <3>2, <3>3
  <2>3. Cardinality(Untried(f)) \in Nat /\ Cardinality(Tried(f)) \in Nat
    BY <1>1, IdsFinite
  <2> QED BY <1>1, <1>9, <1>10, <2>2, <2>3 DEF Counters, k
<1>15. Limited(c)
  <2>1. \A x \in DOMAIN c.mapInfo : c.mapInfo[x].nRefCount = f.mapInfo[x].nRefCount
    BY <1>10
  <2> QED BY <1>1, <1>2, <1>10, <2>1 DEF Limited
<1>16. InTable(c)
  BY <1>1, <1>10 DEF InTable, OthersIn
<1>17. Sound(c) /\ DOMAIN c.mapInfo = DOMAIN f.mapInfo /\ \A x \in DOMAIN c.mapInfo : c.mapInfo[x].s = a.mapInfo[x].s
  BY <1>9, <1>10, <1>11, <1>13, <1>14, <1>15, <1>16 DEF Sound, Coherent
<1>18. Filled(a, c)
  BY <1>4, <1>8, <1>9 DEF Filled
<1> HIDE DEF b
<1>19. Sound(b) /\ DOMAIN b.mapInfo = DOMAIN f.mapInfo /\ \A x \in DOMAIN b.mapInfo : b.mapInfo[x].s = a.mapInfo[x].s
  BY <1>6, <1>17
<1>20. Filled(a, b)
  BY <1>6, <1>18
<1> QED BY <1>19, <1>20 DEF b, SoundAs

\* f is a with no reference to id, and with id no longer counted.
Half(a, f, id) ==
    /\ Base(f) /\ TriedTable(f)
    /\ id \in Untried(f) /\ f.mapInfo[id].nRefCount = 0 /\ \A t \in NewSlots : f.vvNew[t] # id
    /\ f.nKey = a.nKey /\ f.nIdCount = a.nIdCount /\ f.vvTried = a.vvTried
    /\ DOMAIN f.mapInfo = DOMAIN a.mapInfo
    /\ \A x \in DOMAIN f.mapInfo : f.mapInfo[x].s = a.mapInfo[x].s
    /\ Tried(f) = Tried(a)
    /\ f.nTried = Cardinality(Tried(f)) /\ f.nNew = Cardinality(Untried(f)) - 1
    /\ Len(f.vRandom) = f.nNew + f.nTried + 1
    /\ OthersIn(f, id)
    /\ \A x \in DOMAIN f.mapInfo : f.mapInfo[x].nRefCount <= ADDRMAN_NEW_BUCKETS_PER_ADDRESS

LEMMA HalfWay ==
    ASSUME NEW a, Sound(a), NEW id \in Untried(a)
    PROVE  Half(a, Withdrawn(a, id), id)
<1> DEFINE f == Withdrawn(a, id)
<1>1. Base(a) /\ a \in Managers /\ Random(a) /\ TriedTable(a) /\ Counters(a) /\ Limited(a) /\ InTable(a)
  BY DEF Sound, Coherent, Base
<1>2. id \in DOMAIN a.mapInfo /\ ~a.mapInfo[id].fInTried /\ id # -1
  <2>1. id \in DOMAIN a.mapInfo
    BY DEF Untried
  <2>2. id \in Nat
    BY <1>1, <2>1, ManagerType
  <2> QED BY <2>1, <2>2 DEF Untried, Tried
<1>3. Base(f) /\ Freed(a, f, id)
  BY <1>1, <1>2, WithdrawnFacts
<1> HIDE DEF f
<1>4. /\ DOMAIN f.mapInfo = DOMAIN a.mapInfo
      /\ SamePeer(f.mapInfo[id], a.mapInfo[id]) /\ f.mapInfo[id].nRefCount = 0
      /\ (\A x \in DOMAIN a.mapInfo : x # id => f.mapInfo[x] = a.mapInfo[x])
      /\ f.nKey = a.nKey /\ f.nIdCount = a.nIdCount /\ f.vvTried = a.vvTried /\ f.nTried = a.nTried
      /\ f.nNew = a.nNew - 1 /\ Len(f.vRandom) = Len(a.vRandom)
      /\ \A t \in NewSlots : f.vvNew[t] = IF a.vvNew[t] = id THEN -1 ELSE a.vvNew[t]
  BY <1>3 DEF Freed
<1>5. \A x \in DOMAIN a.mapInfo : SamePeer(f.mapInfo[x], a.mapInfo[x])
  BY <1>4 DEF SamePeer
<1>6. TriedTable(f) /\ Tried(f) = Tried(a)
  BY <1>1, <1>4, <1>5, TriedKept
<1>7. Untried(f) = Untried(a)
  BY <1>4, <1>6 DEF Untried
<1>8. \A t \in NewSlots : f.vvNew[t] # id
  BY <1>2, <1>4
<1>9. /\ f.nTried = Cardinality(Tried(f)) /\ f.nNew = Cardinality(Untried(f)) - 1
      /\ Len(f.vRandom) = f.nNew + f.nTried + 1
  <2>1. Cardinality(Untried(a)) \in Nat /\ Cardinality(Tried(a)) \in Nat
    BY <1>1, IdsFinite
  <2> QED BY <1>1, <1>4, <1>6, <1>7, <2>1 DEF Counters
<1>10. OthersIn(f, id)
  BY <1>1, <1>4 DEF OthersIn, InTable
<1>11. \A x \in DOMAIN f.mapInfo : f.mapInfo[x].nRefCount <= ADDRMAN_NEW_BUCKETS_PER_ADDRESS
  BY <1>1, <1>4, AddrManAssumption DEF Limited
<1>12. \A x \in DOMAIN f.mapInfo : f.mapInfo[x].s = a.mapInfo[x].s
  BY <1>4, <1>5 DEF SamePeer
<1>13. Half(a, f, id)
  BY <1>3, <1>4, <1>6, <1>7, <1>8, <1>9, <1>10, <1>11, <1>12 DEF Half
<1> QED BY <1>13 DEF f

\* The slot is empty.
LEMMA ReadyFree ==
    ASSUME NEW a, Sound(a), NEW f, NEW id, Half(a, f, id), NEW slot, a.vvTried[slot] = -1
    PROVE  Ready(a, f, id, slot)
<1>1. Tried(a) \subseteq DOMAIN a.mapInfo /\ DOMAIN a.mapInfo \subseteq Nat
  <2>1. a \in Managers
    BY DEF Sound, Coherent, Base
  <2> QED BY <2>1, ManagerType DEF Tried
<1>2. -1 \notin Tried(a)
  BY <1>1
<1> QED BY <1>1, <1>2 DEF Half, Ready

\* The entry e of the slot is no longer tried, and not yet in the new table.
Demoted(f, e) == [f EXCEPT !.mapInfo[e].fInTried = FALSE, !.nTried = @ - 1]

LEMMA DemotedFacts ==
    ASSUME NEW f, Base(f), NEW e \in DOMAIN f.mapInfo
    PROVE  /\ Base(Demoted(f, e)) /\ Moved(f, Demoted(f, e), e, FALSE)
           /\ Demoted(f, e).vvTried = f.vvTried /\ Demoted(f, e).nTried = f.nTried - 1
<1> DEFINE v == FALSE
           table == f.vvTried
           k == f.nTried - 1
<1>1. /\ DOMAIN f = {"nKey", "nIdCount", "mapInfo", "mapAddr", "vRandom",
                           "vvNew", "nNew", "vvTried", "nTried"}
      /\ table \in [TriedSlots -> Int] /\ f.nTried \in Int
      /\ f.mapInfo = [x \in DOMAIN f.mapInfo |-> f.mapInfo[x]] /\ f.mapInfo[e] \in Info
      /\ f = [z \in DOMAIN f |-> f[z]]
  <2>1. f \in Managers
    BY DEF Base
  <2>2. f = [z \in DOMAIN f |-> f[z]]
    BY <2>1 DEF Managers
  <2> QED BY <2>1, <2>2, ManagerType
<1>2. k \in Int /\ v \in BOOLEAN /\ (v => \A t \in NewSlots : f.vvNew[t] # e)
  BY <1>1
<1>3. Demoted(f, e) = Move(f, e, v, table, k)
  BY <1>1 DEF Demoted, Move
<1> HIDE DEF v, table, k
<1>4. /\ Base(Move(f, e, v, table, k)) /\ Moved(f, Move(f, e, v, table, k), e, v)
      /\ Move(f, e, v, table, k).vvTried = table /\ Move(f, e, v, table, k).nTried = k
  BY <1>1, <1>2, MovedFacts
<1> QED BY <1>3, <1>4 DEF v, table, k

\* The entry of the slot goes back to the new table.
LEMMA ReadyEvicted ==
    ASSUME NEW a, Sound(a), NEW f, NEW id, Half(a, f, id), NEW slot \in TriedSlots, a.vvTried[slot] # -1
    PROVE  Ready(a, Evict(f, a.vvTried[slot]), id, slot)
<1> DEFINE e == a.vvTried[slot]
           old == Demoted(f, e)
           place == PrimarySlot(f, f.mapInfo[e])
           ref == Refer(old, e, place)
           g == [ref EXCEPT !.nNew = @ + 1]
<1>1. /\ Base(f) /\ f \in Managers /\ Random(f) /\ NewTable(f) /\ TriedTable(f)
      /\ id \in Untried(f) /\ f.mapInfo[id].nRefCount = 0 /\ (\A t \in NewSlots : f.vvNew[t] # id)
      /\ f.nKey = a.nKey /\ f.nIdCount = a.nIdCount /\ f.vvTried = a.vvTried
      /\ DOMAIN f.mapInfo = DOMAIN a.mapInfo
      /\ (\A x \in DOMAIN f.mapInfo : f.mapInfo[x].s = a.mapInfo[x].s)
      /\ Tried(f) = Tried(a)
      /\ f.nTried = Cardinality(Tried(f)) /\ f.nNew = Cardinality(Untried(f)) - 1
      /\ Len(f.vRandom) = f.nNew + f.nTried + 1
      /\ OthersIn(f, id)
      /\ \A x \in DOMAIN f.mapInfo : f.mapInfo[x].nRefCount <= ADDRMAN_NEW_BUCKETS_PER_ADDRESS
  BY DEF Half, Base
<1>2. e \in DOMAIN f.mapInfo /\ f.mapInfo[e].fInTried /\ e \in Tried(f) /\ e # id /\ e \in Nat
  <2>1. f.vvTried[slot] \in DOMAIN f.mapInfo /\ f.mapInfo[f.vvTried[slot]].fInTried
    BY <1>1 DEF TriedTable
  <2>2. e \in Tried(f)
    BY <1>1, <2>1 DEF Tried
  <2>3. e \in Nat
    BY <1>1, <2>1, ManagerType
  <2> QED BY <1>1, <2>1, <2>2, <2>3 DEF Untried
<1>3. Evict(f, e) = g
  BY DEF Evict, Demoted
<1> HIDE DEF e
<1>4. Base(old) /\ Moved(f, old, e, FALSE) /\ old.vvTried = f.vvTried /\ old.nTried = f.nTried - 1
  BY <1>1, <1>2, DemotedFacts
<1> HIDE DEF old
<1>5. /\ DOMAIN old.mapInfo = DOMAIN f.mapInfo
      /\ old.mapInfo[e].s = f.mapInfo[e].s /\ old.mapInfo[e].nRefCount = f.mapInfo[e].nRefCount
      /\ old.mapInfo[e].fInTried = FALSE
      /\ (\A x \in DOMAIN f.mapInfo : x # e => old.mapInfo[x] = f.mapInfo[x])
      /\ old.nKey = f.nKey /\ old.nIdCount = f.nIdCount /\ old.vvNew = f.vvNew /\ old.nNew = f.nNew
      /\ Len(old.vRandom) = Len(f.vRandom)
  BY <1>4 DEF Moved
<1>6. \A t \in NewSlots : f.vvNew[t] # e
  <2>1. e # -1
    BY <1>2
  <2> QED BY <1>1, <1>2, <2>1 DEF NewTable
<1>7. f.mapInfo[e].nRefCount = 0
  <2>1. Refs(f, e) = {}
    BY <1>6 DEF Refs
  <2> QED BY <1>1, <1>2, <2>1, FS_EmptySet DEF NewTable
<1>8. place \in NewSlots /\ NewSlot(old, old.mapInfo[e].s, place[1]) = place
  <2> DEFINE s == f.mapInfo[e].s
             b == GetNewBucket[f.nKey, s, f.mapInfo[e].source]
  <2>1. s \in Services /\ f.mapInfo[e].source \in Sources
    BY <1>1, <1>2, ManagerType
  <2>2. b \in NewBuckets
    BY <1>1, <2>1, SlotTypes
  <2>3. place = NewSlot(f, s, b)
    BY DEF PrimarySlot
  <2> HIDE DEF place, s, b
  <2>4. place \in NewSlots /\ place[1] = b
    BY <1>1, <2>1, <2>2, <2>3, SlotTypes
  <2>5. NewSlot(old, s, b) = NewSlot(f, s, b)
    BY <1>5, SameSlots
  <2>6. old.mapInfo[e].s = s
    BY <1>5 DEF s
  <2> QED BY <2>3, <2>4, <2>5, <2>6
<1> HIDE DEF place
<1>9. Base(ref) /\ Referred(old, ref, e, place)
  <2>1. old.vvNew[place] # e /\ ~old.mapInfo[e].fInTried /\ e \in DOMAIN old.mapInfo
    BY <1>2, <1>5, <1>6, <1>8
  <2> QED BY <1>4, <1>8, <2>1, ReferFacts
<1> HIDE DEF ref
<1> DEFINE y == old.vvNew[place]
<1>10. /\ ref.nKey = old.nKey /\ ref.nIdCount = old.nIdCount /\ ref.vvTried = old.vvTried
       /\ ref.nTried = old.nTried /\ ref.vvNew = [old.vvNew EXCEPT ![place] = e]
       /\ \A x \in DOMAIN ref.mapInfo :
            /\ SamePeer(ref.mapInfo[x], old.mapInfo[x])
            /\ x # e => ref.mapInfo[x].nRefCount <= old.mapInfo[x].nRefCount
            /\ x # e /\ old.mapInfo[x].nRefCount > 0 => ref.mapInfo[x].nRefCount > 0
       /\ e \in DOMAIN ref.mapInfo /\ ref.mapInfo[e].nRefCount = old.mapInfo[e].nRefCount + 1
  BY <1>9 DEF Referred
<1>11. \/ /\ DOMAIN ref.mapInfo = DOMAIN old.mapInfo
          /\ ref.nNew = old.nNew /\ Len(ref.vRandom) = Len(old.vRandom)
       \/ /\ y \in DOMAIN old.mapInfo
          /\ DOMAIN ref.mapInfo = DOMAIN old.mapInfo \ {y}
          /\ ref.nNew = old.nNew - 1 /\ Len(ref.vRandom) = Len(old.vRandom) - 1
  BY <1>9 DEF Referred
<1>12. y # e /\ y # id /\ y \notin Tried(f)
  <2>1. y = f.vvNew[place]
    BY <1>5
  <2>2. y \in Tried(f) => y \in Nat
    BY <1>1, ManagerType DEF Tried
  <2>3. y \in Tried(f) => y # -1
    BY <2>2
  <2> QED BY <1>1, <1>6, <1>8, <2>1, <2>3 DEF NewTable, Tried
<1> HIDE DEF y
<1>13. DOMAIN ref.mapInfo \subseteq DOMAIN f.mapInfo /\ id \in DOMAIN ref.mapInfo /\ Tried(f) \subseteq DOMAIN ref.mapInfo
  <2>1. id \in DOMAIN f.mapInfo /\ Tried(f) \subseteq DOMAIN f.mapInfo
    BY <1>1 DEF Untried, Tried
  <2> QED BY <1>5, <1>11, <1>12, <2>1
<1>14. Tried(ref) = Tried(f) \ {e}
  <2>1. \A x \in DOMAIN ref.mapInfo : x # e => (ref.mapInfo[x].fInTried <=> f.mapInfo[x].fInTried)
    BY <1>5, <1>10, <1>13 DEF SamePeer
  <2>2. ~ref.mapInfo[e].fInTried
    BY <1>5, <1>10 DEF SamePeer
  <2>3. \A x : x \in Tried(ref) <=> x \in Tried(f) /\ x # e
    BY <1>13, <2>1, <2>2 DEF Tried
  <2> QED BY <2>3
<1>15. \A x \in DOMAIN ref.mapInfo : ref.mapInfo[x].s = a.mapInfo[x].s
  <2>1. \A x \in DOMAIN ref.mapInfo : ref.mapInfo[x].s = old.mapInfo[x].s
    BY <1>10 DEF SamePeer
  <2> QED BY <1>1, <1>5, <1>13, <2>1
<1>16. Base(g) /\ g.nNew = ref.nNew + 1 /\ g.mapInfo = ref.mapInfo /\ g.vvNew = ref.vvNew
       /\ g.nKey = ref.nKey /\ g.nIdCount = ref.nIdCount /\ g.vvTried = ref.vvTried
       /\ g.nTried = ref.nTried /\ g.vRandom = ref.vRandom
  <2> DEFINE k == ref.nNew + 1
  <2>1. ref.nNew \in Int
    BY <1>9, ManagerType DEF Base
  <2>2. k \in Int
    BY <2>1
  <2>3. g = [ref EXCEPT !.nNew = k]
    OBVIOUS
  <2> HIDE DEF g, k
  <2>4. /\ Base([ref EXCEPT !.nNew = k]) /\ [ref EXCEPT !.nNew = k].nNew = k
        /\ [ref EXCEPT !.nNew = k].mapInfo = ref.mapInfo /\ [ref EXCEPT !.nNew = k].vvNew = ref.vvNew
        /\ [ref EXCEPT !.nNew = k].nKey = ref.nKey /\ [ref EXCEPT !.nNew = k].nIdCount = ref.nIdCount
        /\ [ref EXCEPT !.nNew = k].vvTried = ref.vvTried
        /\ [ref EXCEPT !.nNew = k].nTried = ref.nTried /\ [ref EXCEPT !.nNew = k].vRandom = ref.vRandom
    BY <1>9, <2>2, NewCount
  <2> QED BY <2>3, <2>4 DEF k
<1> HIDE DEF g
<1>17. Tried(g) = Tried(f) \ {e} /\ Untried(g) = Untried(ref)
  BY <1>14, <1>16 DEF Untried, Tried
<1>18. /\ g.nTried = Cardinality(Tried(g)) /\ g.nNew = Cardinality(Untried(g)) - 1
       /\ Len(g.vRandom) = g.nNew + g.nTried + 1
  <2>1. /\ IsFiniteSet(Tried(f)) /\ Cardinality(Tried(f)) \in Nat
        /\ IsFiniteSet(Untried(f)) /\ Cardinality(Untried(f)) \in Nat
    BY <1>1, IdsFinite
  <2>2. Cardinality(Tried(f) \ {e}) = Cardinality(Tried(f)) - 1
    BY <1>2, <2>1, FS_RemoveElement
  <2>3. /\ IsFiniteSet(Untried(f) \cup {e})
        /\ Cardinality(Untried(f) \cup {e}) = Cardinality(Untried(f)) + 1
    <3>1. e \notin Untried(f)
      BY <1>2 DEF Untried
    <3> QED BY <2>1, <3>1, FS_AddElement
  <2>4. g.nTried = Cardinality(Tried(g))
    BY <1>1, <1>4, <1>10, <1>16, <1>17, <2>2
  <2>5. CASE DOMAIN ref.mapInfo = DOMAIN old.mapInfo /\ ref.nNew = old.nNew
             /\ Len(ref.vRandom) = Len(old.vRandom)
    <3>1. Untried(ref) = Untried(f) \cup {e}
      BY <1>2, <1>5, <1>14, <2>5 DEF Untried
    <3> QED BY <1>1, <1>4, <1>5, <1>10, <1>16, <1>17, <2>1, <2>3, <2>4, <2>5, <3>1
  <2>6. CASE /\ y \in DOMAIN old.mapInfo /\ DOMAIN ref.mapInfo = DOMAIN old.mapInfo \ {y}
             /\ ref.nNew = old.nNew - 1 /\ Len(ref.vRandom) = Len(old.vRandom) - 1
    <3>1. Untried(ref) = (Untried(f) \cup {e}) \ {y} /\ y \in Untried(f) \cup {e}
      BY <1>2, <1>5, <1>12, <1>14, <2>6 DEF Untried
    <3>2. Cardinality(Untried(ref)) = Cardinality(Untried(f) \cup {e}) - 1
      BY <2>3, <3>1, FS_RemoveElement
    <3> QED BY <1>1, <1>4, <1>5, <1>10, <1>16, <1>17, <2>1, <2>3, <2>4, <2>6, <3>2
  <2> QED BY <1>11, <2>5, <2>6
<1>19. OthersIn(g, id) /\ g.mapInfo[id].nRefCount = 0 /\ id \in Untried(g)
  <2>1. ASSUME NEW x \in DOMAIN g.mapInfo, x # id
        PROVE  g.mapInfo[x].fInTried \/ g.mapInfo[x].nRefCount > 0
    <3>1. CASE x = e
      BY <1>5, <1>7, <1>10, <1>16, <3>1
    <3>2. CASE x # e
      <4>1. x \in DOMAIN f.mapInfo /\ x \in DOMAIN ref.mapInfo
        BY <1>13, <1>16
      <4>2. f.mapInfo[x].fInTried \/ f.mapInfo[x].nRefCount > 0
        BY <1>1, <2>1, <4>1 DEF OthersIn
      <4>3. ref.mapInfo[x].fInTried = f.mapInfo[x].fInTried
        BY <1>5, <1>10, <3>2, <4>1 DEF SamePeer
      <4> QED BY <1>5, <1>10, <1>16, <3>2, <4>1, <4>2, <4>3
    <3> QED BY <3>1, <3>2
  <2>2. g.mapInfo[id].nRefCount = 0
    <3>1. \A t \in NewSlots : g.vvNew[t] # id
      <4>1. old.vvNew \in [NewSlots -> Int]
        BY <1>4, ManagerType DEF Base
      <4> QED BY <1>1, <1>2, <1>5, <1>8, <1>10, <1>16, <4>1
    <3>2. Refs(g, id) = {}
      BY <3>1 DEF Refs
    <3> QED BY <1>13, <1>16, <3>2, FS_EmptySet DEF Base, NewTable
  <2>3. id \in Untried(g)
    BY <1>1, <1>13, <1>16, <1>17 DEF Untried
  <2> QED BY <2>1, <2>2, <2>3 DEF OthersIn
<1>20. \A t \in NewSlots : g.vvNew[t] # id
  <2>1. old.vvNew \in [NewSlots -> Int]
    BY <1>4, ManagerType DEF Base
  <2> QED BY <1>1, <1>2, <1>5, <1>8, <1>10, <1>16, <2>1
<1>21. \A x \in DOMAIN g.mapInfo : g.mapInfo[x].nRefCount <= ADDRMAN_NEW_BUCKETS_PER_ADDRESS
  <2>1. ASSUME NEW x \in DOMAIN g.mapInfo
        PROVE  g.mapInfo[x].nRefCount <= ADDRMAN_NEW_BUCKETS_PER_ADDRESS
    <3>1. CASE x = e
      BY <1>5, <1>7, <1>10, <1>16, <3>1, AddrManAssumption
    <3>2. CASE x # e
      <4>1. x \in DOMAIN f.mapInfo /\ x \in DOMAIN ref.mapInfo
        BY <1>13, <1>16
      <4>2. f.mapInfo[x].nRefCount \in Int /\ ref.mapInfo[x].nRefCount \in Int
        BY <1>1, <1>9, <4>1, ManagerType DEF Base
      <4>3. ref.mapInfo[x].nRefCount <= f.mapInfo[x].nRefCount
        BY <1>5, <1>10, <3>2, <4>1
      <4>4. f.mapInfo[x].nRefCount <= ADDRMAN_NEW_BUCKETS_PER_ADDRESS
        BY <1>1, <4>1
      <4> QED BY <1>16, <4>2, <4>3, <4>4, AddrManAssumption
    <3> QED BY <3>1, <3>2
  <2> QED BY <2>1
<1>22. g.nKey = a.nKey /\ g.nIdCount = a.nIdCount /\ g.vvTried = a.vvTried
  BY <1>1, <1>4, <1>5, <1>10, <1>16
<1>23. /\ DOMAIN g.mapInfo \subseteq DOMAIN a.mapInfo
       /\ (\A x \in DOMAIN g.mapInfo : g.mapInfo[x].s = a.mapInfo[x].s)
       /\ Tried(a) \subseteq DOMAIN g.mapInfo /\ Tried(g) = Tried(a) \ {a.vvTried[slot]}
  BY <1>1, <1>13, <1>15, <1>16, <1>17 DEF e
<1>24. Ready(a, g, id, slot)
  BY <1>16, <1>18, <1>19, <1>20, <1>21, <1>22, <1>23 DEF Ready
<1> QED BY <1>3, <1>24 DEF e

-----------------------------------------------------------------------------
(* Good, GetAddr and an empty manager *)

LEMMA MakeTriedSound ==
    ASSUME NEW a, Sound(a), NEW id \in Untried(a)
    PROVE  Sound(MakeTried(a, id)) /\ Remembers(a, MakeTried(a, id))
<1> DEFINE slot == TriedSlot(a, a.mapInfo[id].s)
           off == Withdrawn(a, id)
           free == IF off.vvTried[slot] = -1 THEN off ELSE Evict(off, off.vvTried[slot])
           b == Promoted(free, id, slot)
<1>1. MakeTried(a, id) = b /\ slot = TriedSlot(a, a.mapInfo[id].s)
  BY DEF MakeTried, Withdrawn, Held, Promoted
<1>2. id \in DOMAIN a.mapInfo /\ slot \in TriedSlots
  <2>1. id \in DOMAIN a.mapInfo /\ a \in Managers
    BY DEF Untried, Sound, Coherent, Base
  <2>2. a.mapInfo[id].s \in Services
    BY <2>1, ManagerType
  <2> QED BY <2>1, <2>2, SlotTypes
<1>3. Half(a, off, id)
  BY HalfWay
<1>4. off.vvTried = a.vvTried
  BY <1>3 DEF Half
<1> HIDE DEF off, slot
<1>5. Ready(a, free, id, slot)
  <2>1. CASE a.vvTried[slot] = -1
    BY <1>3, <1>4, <2>1, ReadyFree
  <2>2. CASE a.vvTried[slot] # -1
    BY <1>2, <1>3, <1>4, <2>2, ReadyEvicted
  <2> QED BY <2>1, <2>2
<1> HIDE DEF free
<1>6. /\ Sound(b) /\ DOMAIN b.mapInfo = DOMAIN free.mapInfo /\ Filled(a, b)
      /\ \A x \in DOMAIN free.mapInfo : b.mapInfo[x].s = a.mapInfo[x].s
  <2>1. slot = TriedSlot(a, a.mapInfo[id].s) /\ id \in DOMAIN a.mapInfo
    BY <1>1, <1>2
  <2>2. SoundAs(Promoted(free, id, slot), a, free)
    BY <1>5, <2>1, PromoteSound
  <2> QED BY <2>2 DEF SoundAs
<1> HIDE DEF b
<1>7. Remembers(a, b)
  BY <1>5, <1>6 DEF Ready, Remembers
<1> QED BY <1>1, <1>6, <1>7

LEMMA GoodInv ==
    ASSUME IndInv, NEW s \in Services, Good(s)
    PROVE  IndInv' /\ Remembers(m, m')
<1> DEFINE id == m.mapAddr[Net[s]]
<1>1. Net[s] \in DOMAIN m.mapAddr /\ ~m.mapInfo[id].fInTried /\ m' = MakeTried(m, id)
  BY DEF Good
<1>2. Sound(m) /\ Addresses(m)
  BY DEF IndInv, Sound, Coherent, Base
<1>3. id \in Untried(m)
  BY <1>1, <1>2 DEF Addresses, Untried, Tried
<1> HIDE DEF id
<1>4. Sound(MakeTried(m, id)) /\ Remembers(m, MakeTried(m, id))
  BY <1>2, <1>3, MakeTriedSound
<1>5. Sound(m') /\ Remembers(m, m')
  BY <1>1, <1>4
<1> QED BY <1>5 DEF IndInv

\* Shuffling vRandom changes nothing else.
LEMMA AlikeSound ==
    ASSUME NEW a, Sound(a), NEW b \in Managers, Random(b), Alike(a, b)
    PROVE  Sound(b) /\ Remembers(a, b)
<1>1. /\ a \in Managers /\ Random(a) /\ Addresses(a) /\ NewTable(a) /\ TriedTable(a)
      /\ Counters(a) /\ Limited(a) /\ InTable(a)
  BY DEF Sound, Coherent, Base
<1>2. /\ DOMAIN b.mapInfo = DOMAIN a.mapInfo
      /\ (\A id \in DOMAIN a.mapInfo : SameEntry(b.mapInfo[id], a.mapInfo[id]))
      /\ b.nKey = a.nKey /\ b.nIdCount = a.nIdCount /\ b.mapAddr = a.mapAddr
      /\ b.vvNew = a.vvNew /\ b.nNew = a.nNew /\ b.vvTried = a.vvTried /\ b.nTried = a.nTried
      /\ Len(b.vRandom) = Len(a.vRandom)
  BY DEF Alike
<1>3. \A id \in DOMAIN a.mapInfo :
         /\ b.mapInfo[id].s = a.mapInfo[id].s /\ b.mapInfo[id].nRefCount = a.mapInfo[id].nRefCount
         /\ b.mapInfo[id].fInTried = a.mapInfo[id].fInTried /\ SamePeer(b.mapInfo[id], a.mapInfo[id])
  BY <1>2 DEF SameEntry, SamePeer
<1>4. Addresses(b)
  BY <1>1, <1>2, <1>3 DEF Addresses
<1>5. NewTable(b)
  <2>1. \A x : Refs(b, x) = Refs(a, x)
    BY <1>2 DEF Refs
  <2>2. \A s, t : NewSlot(b, s, t) = NewSlot(a, s, t)
    BY <1>2, SameSlots
  <2> QED BY <1>1, <1>2, <1>3, <2>1, <2>2 DEF NewTable
<1>6. TriedTable(b) /\ Tried(b) = Tried(a)
  BY <1>1, <1>2, <1>3, TriedKept
<1>7. Counters(b)
  BY <1>1, <1>2, <1>6 DEF Counters, Untried
<1>8. Limited(b) /\ InTable(b)
  BY <1>1, <1>2, <1>3 DEF Limited, InTable
<1>9. Remembers(a, b)
  BY <1>2, <1>3 DEF Remembers, Filled, Tried
<1> QED BY <1>4, <1>5, <1>6, <1>7, <1>8, <1>9 DEF Sound, Coherent, Base

LEMMA GetAddrInv ==
    ASSUME IndInv, NEW i \in DOMAIN m.vRandom, NEW j \in DOMAIN m.vRandom, GetAddr(i, j)
    PROVE  IndInv' /\ Remembers(m, m')
<1>1. Sound(m) /\ m \in Managers /\ Random(m) /\ m' = SwapRandom(m, i, j)
  BY DEF IndInv, Sound, Coherent, Base, GetAddr
<1>2. i \in 1 .. Len(m.vRandom) /\ j \in 1 .. Len(m.vRandom)
  BY <1>1, ManagerType
<1>3. m' \in Managers /\ Random(m') /\ Alike(m, m')
  BY <1>1, <1>2, SwapFacts
<1>4. Sound(m') /\ Remembers(m, m')
  BY <1>1, <1>3, AlikeSound
<1> QED BY <1>4 DEF IndInv

LEMMA ClearedSound ==
    ASSUME NEW key \in Keys
    PROVE  Sound(Cleared(key)) /\ Cleared(key).mapInfo = <<>>
<1> DEFINE c == Cleared(key)
<1>1. /\ c.nKey = key /\ c.nIdCount = 0 /\ c.mapInfo = <<>> /\ c.mapAddr = <<>> /\ c.vRandom = <<>>
      /\ c.vvNew = [slot \in NewSlots |-> -1] /\ c.nNew = 0
      /\ c.vvTried = [slot \in TriedSlots |-> -1] /\ c.nTried = 0
      /\ DOMAIN c = {"nKey", "nIdCount", "mapInfo", "mapAddr", "vRandom",
                           "vvNew", "nNew", "vvTried", "nTried"}
      /\ c = [x \in DOMAIN c |-> c[x]]
  BY DEF Cleared, NewSlots, TriedSlots
<1> HIDE DEF c
<1>2. DOMAIN c.mapInfo = {} /\ DOMAIN c.mapAddr = {} /\ Len(c.vRandom) = 0 /\ c.vRandom \in Seq(Nat)
      /\ c.mapInfo = [x \in DOMAIN c.mapInfo |-> c.mapInfo[x]]
      /\ c.mapAddr = [x \in DOMAIN c.mapAddr |-> c.mapAddr[x]]
  <2>1. <<>> \in Seq(Nat) /\ Len(<<>>) = 0 /\ DOMAIN <<>> = {}
    OBVIOUS
  <2>2. <<>> = [x \in DOMAIN <<>> |-> <<>>[x]]
    BY <2>1
  <2> QED BY <1>1, <2>1, <2>2
<1>3. c.mapInfo \in InfoMaps /\ c.mapAddr \in AddrMaps
  BY <1>2, InfoMapsDef, AddrMapsDef
<1>4. c \in Managers
  <2>1. c.vvNew \in [NewSlots -> Int] /\ c.vvTried \in [TriedSlots -> Int]
    BY <1>1
  <2>2. c.nKey \in Keys /\ c.nIdCount \in Nat /\ c.nNew \in Int /\ c.nTried \in Int
    BY <1>1
  <2>3. DOMAIN c = {"nKey", "nIdCount", "mapInfo", "mapAddr", "vRandom",
                           "vvNew", "nNew", "vvTried", "nTried"}
        /\ c = [x \in DOMAIN c |-> c[x]]
    BY <1>1
  <2> QED BY <1>2, <1>3, <2>1, <2>2, <2>3, Assembled
<1>5. Random(c) /\ Addresses(c)
  BY <1>2 DEF Random, Addresses
<1>6. NewTable(c) /\ TriedTable(c)
  BY <1>1, <1>2 DEF NewTable, TriedTable
<1>7. Counters(c)
  BY <1>1, <1>2, FS_EmptySet DEF Counters, Tried, Untried
<1>8. Limited(c) /\ InTable(c)
  BY <1>1, <1>2, AddrManAssumption, FS_CardinalityType DEF Limited, InTable
<1>9. Sound(c)
  BY <1>4, <1>5, <1>6, <1>7, <1>8 DEF Sound, Coherent, Base
<1> QED BY <1>1, <1>9 DEF c

-----------------------------------------------------------------------------
(* Induction over a range *)

\* "Less than" on the natural numbers is well-founded.
LEMMA LessThan ==
    \E R : IsWellFoundedOn(R, Nat) /\ \A i, j \in Nat : i < j => <<i, j>> \in R
<1> DEFINE R == OpToRel(<, Nat)
<1>1. IsWellFoundedOn(R, Nat)
  BY NatLessThanWellFounded
<1>2. \A i, j \in Nat : i < j => <<i, j>> \in R
  BY Zenon DEF OpToRel
<1> HIDE DEF R
<1> QED BY <1>1, <1>2

\* A set of natural numbers has a least element.
LEMMA Least ==
    ASSUME NEW T \in SUBSET Nat, T # {}
    PROVE  \E n \in T : \A k \in T : n <= k
<1>1. PICK R : IsWellFoundedOn(R, Nat) /\ \A i, j \in Nat : i < j => <<i, j>> \in R
  BY LessThan
<1>2. PICK n \in T : \A k \in T : ~(<<k, n>> \in R)
  <2>1. IsWellFoundedOn(R, Nat) /\ T \subseteq Nat /\ T # {}
    BY <1>1
  <2> QED BY <2>1, WFMin, Zenon
<1>3. n \in Int /\ \A k \in T : k \in Int
  OBVIOUS
<1>4. \A k \in T : ~(k < n)
  BY <1>1, <1>2
<1> QED BY <1>3, <1>4

\* Induction over 0..n: a set that holds 0 and the successors of its
\* members holds all of 0..n.
LEMMA Upwards ==
    ASSUME NEW n \in Nat, NEW S, 0 \in S, \A i \in 0..n : i \in S /\ i < n => i + 1 \in S
    PROVE  \A i \in 0..n : i \in S
<1> SUFFICES ASSUME (0..n) \ S # {} PROVE FALSE
  OBVIOUS
<1>1. (0..n) \ S \in SUBSET Nat
  OBVIOUS
<1>2. PICK h \in (0..n) \ S : \A k \in (0..n) \ S : h <= k
  BY <1>1, Least
<1>3. h \in Nat /\ 0 < h /\ h <= n
  BY <1>2
<1>4. h - 1 \in 0..n /\ h - 1 < n /\ h - 1 + 1 = h /\ ~(h <= h - 1)
  BY <1>3
<1>5. h - 1 \in S
  BY <1>2, <1>4
<1> QED BY <1>2, <1>4, <1>5

-----------------------------------------------------------------------------
(* The order in which a map is walked *)

LEMMA RankFacts ==
    ASSUME NEW S \in SUBSET Nat, IsFiniteSet(S)
    PROVE  /\ Cardinality(S) \in Nat
           /\ \A x \in S : Rank(S, x) \in 1 .. Cardinality(S)
           /\ \A x, y \in S : Rank(S, x) = Rank(S, y) => x = y
           /\ \A i \in 1 .. Cardinality(S) : \E x \in S : Rank(S, x) = i
<1> DEFINE n == Cardinality(S)
           Upto(x) == {y \in S : y <= x}
<1>1. n \in Nat
  BY FS_CardinalityType
<1>2. \A x \in S : IsFiniteSet(Upto(x)) /\ Cardinality(Upto(x)) \in Nat /\ Cardinality(Upto(x)) <= n
  <2> TAKE x \in S
  <2>1. Upto(x) \in SUBSET S
    OBVIOUS
  <2> HIDE DEF Upto
  <2> QED BY <2>1, FS_Subset, FS_CardinalityType
<1>3. \A x \in S : Rank(S, x) \in 1 .. n
  <2> TAKE x \in S
  <2>1. x \in Upto(x)
    OBVIOUS
  <2>2. Rank(S, x) = Cardinality(Upto(x))
    BY DEF Rank
  <2> HIDE DEF Upto
  <2>3. Cardinality(Upto(x)) # 0
    BY <1>2, <2>1, FS_EmptySet
  <2> QED BY <1>1, <1>2, <2>2, <2>3
<1>4. ASSUME NEW x \in S, NEW y \in S, x < y PROVE Rank(S, x) # Rank(S, y)
  <2>1. Upto(x) \in SUBSET Upto(y) /\ y \in Upto(y) /\ y \notin Upto(x)
    <3>1. x \in Int /\ y \in Int /\ \A z \in S : z \in Int
      OBVIOUS
    <3>2. \A z \in S : z <= x => z <= y
      BY <1>4, <3>1
    <3>3. y <= y /\ ~(y <= x)
      BY <1>4, <3>1
    <3> QED BY <3>2, <3>3
  <2>2. Rank(S, x) = Cardinality(Upto(x)) /\ Rank(S, y) = Cardinality(Upto(y))
    BY DEF Rank
  <2> HIDE DEF Upto
  <2>3. Cardinality(Upto(y)) = Cardinality(Upto(x)) => Upto(y) = Upto(x)
    BY <1>2, <2>1, FS_Subset
  <2> QED BY <2>1, <2>2, <2>3
<1>5. \A x, y \in S : Rank(S, x) = Rank(S, y) => x = y
  <2> TAKE x, y \in S
  <2>1. x < y \/ y < x \/ x = y
    OBVIOUS
  <2> QED BY <1>4, <2>1
<1>6. \A i \in 1 .. n : \E x \in S : Rank(S, x) = i
  <2> DEFINE f == [x \in S |-> Rank(S, x)]
  <2>1. f \in Injection(S, 1 .. n)
    BY <1>3, <1>5 DEF Injection, IsInjective
  <2>2. IsFiniteSet(1 .. n) /\ Cardinality(1 .. n) = n
    BY <1>1, FS_Interval
  <2>3. f \in Surjection(S, 1 .. n)
    <3> HIDE DEF f, n
    <3>1. Cardinality(S) = Cardinality(1 .. n)
      BY <2>2 DEF n
    <3> QED BY <2>1, <2>2, <3>1, FS_Injection
  <2>4. \A i \in 1 .. n : \E x \in S : f[x] = i
    <3> HIDE DEF f
    <3> QED BY <2>3 DEF Surjection
  <2> QED BY <2>4
<1> QED BY <1>1, <1>3, <1>5, <1>6

LEMMA SortedFacts ==
    ASSUME NEW S \in SUBSET Nat, IsFiniteSet(S)
    PROVE  /\ Pairs(Sorted(S), 1 .. Cardinality(S), S)
           /\ \A x \in S : Sorted(S)[Rank(S, x)] = x
           /\ Len(Sorted(S)) = Cardinality(S)
<1> DEFINE n == Cardinality(S)
           q == Sorted(S)
           p == [i \in 1 .. n |-> CHOOSE x \in S : Rank(S, x) = i]
<1>1. /\ n \in Nat
      /\ \A x \in S : Rank(S, x) \in 1 .. n
      /\ \A x, y \in S : Rank(S, x) = Rank(S, y) => x = y
      /\ \A i \in 1 .. n : \E x \in S : Rank(S, x) = i
  BY RankFacts
<1>2. p \in [1 .. n -> S] /\ \A i \in 1 .. n : Rank(S, p[i]) = i
  <2> HIDE DEF n
  <2>1. \A i \in 1 .. n : p[i] \in S /\ Rank(S, p[i]) = i
    BY <1>1
  <2> QED BY <2>1
<1>3. q \in [1 .. n -> S] /\ \A i \in 1 .. n : Rank(S, q[i]) = i
  <2>1. q = CHOOSE h \in [1 .. n -> S] : \A i \in 1 .. n : Rank(S, h[i]) = i
    BY DEF Sorted
  <2> HIDE DEF p, q, n
  <2> QED BY <1>2, <2>1
<1> HIDE DEF q, n
<1>4. \A x \in S : q[Rank(S, x)] = x
  BY <1>1, <1>3
<1>5. \A i, j \in 1 .. n : q[i] = q[j] => i = j
  BY <1>3
<1>6. Pairs(q, 1 .. n, S)
  BY <1>1, <1>3, <1>4, <1>5 DEF Pairs
<1>7. Len(q) = n
  BY <1>1, <1>3
<1> QED BY <1>4, <1>6, <1>7 DEF q, n

-----------------------------------------------------------------------------
(* Serialize *)

\* What is written of an entry.
Entries == [s : Services, source : Sources]

\* The numbers of entries of either table, and the ids in the order of the file.
NewNum(am) == Cardinality(Referenced(am))
TriedNum(am) == Cardinality(Tried(am))
Total(am) == NewNum(am) + TriedNum(am)
Listed(am) ==
    [i \in 1 .. Total(am) |-> IF i <= NewNum(am) THEN Sorted(Referenced(am))[i]
                              ELSE Sorted(Tried(am))[i - NewNum(am)]]

LEMMA Occupied ==
    ASSUME NEW am, Sound(am)
    PROVE  Referenced(am) = Untried(am)
<1>1. am \in Managers /\ NewTable(am) /\ InTable(am)
  BY DEF Sound, Coherent, Base
<1>2. ASSUME NEW x \in Referenced(am) PROVE x \in Untried(am)
  <2>1. x \in DOMAIN am.mapInfo /\ am.mapInfo[x].nRefCount > 0 /\ am.mapInfo[x].nRefCount = Cardinality(Refs(am, x))
    BY <1>1, <1>2 DEF Referenced, NewTable
  <2>2. Refs(am, x) # {}
    <3>1. Cardinality(Refs(am, x)) # 0
      BY <2>1
    <3> QED BY <3>1, FS_EmptySet
  <2>3. PICK slot \in NewSlots : am.vvNew[slot] = x
    BY <2>2 DEF Refs
  <2>4. x # -1
    <3>1. x \in Nat
      BY <1>1, <2>1, ManagerType
    <3> QED BY <3>1
  <2> QED BY <1>1, <2>1, <2>3, <2>4 DEF NewTable, Untried, Tried
<1>3. ASSUME NEW x \in Untried(am) PROVE x \in Referenced(am)
  BY <1>1, <1>3 DEF Untried, Tried, Referenced, InTable
<1> QED BY <1>2, <1>3

LEMMA ListedFacts ==
    ASSUME NEW am, Sound(am)
    PROVE  /\ NewNum(am) \in Nat /\ TriedNum(am) \in Nat /\ Total(am) \in Nat
           /\ Pairs(Listed(am), 1 .. Total(am), DOMAIN am.mapInfo)
           /\ Pairs(Sorted(Referenced(am)), 1 .. NewNum(am), Untried(am))
           /\ Pairs(Sorted(Tried(am)), 1 .. TriedNum(am), Tried(am))
           /\ \A x \in Untried(am) : Sorted(Referenced(am))[Rank(Referenced(am), x)] = x
           /\ \A x \in Untried(am) : Rank(Referenced(am), x) \in 1 .. NewNum(am)
           /\ \A i \in 1 .. NewNum(am) : i \in 1 .. Total(am) /\ Listed(am)[i] = Sorted(Referenced(am))[i]
           /\ \A i \in 1 .. TriedNum(am) : /\ NewNum(am) + i \in 1 .. Total(am)
                                           /\ Listed(am)[NewNum(am) + i] = Sorted(Tried(am))[i]
           /\ \A i \in 1 .. Total(am) : /\ i <= NewNum(am) => Listed(am)[i] \in Untried(am)
                                        /\ i > NewNum(am) => Listed(am)[i] \in Tried(am)
<1> DEFINE n == NewNum(am)
           k == TriedNum(am)
           r == Sorted(Referenced(am))
           t == Sorted(Tried(am))
           q == Listed(am)
<1>1. /\ am \in Managers /\ Random(am) /\ Referenced(am) = Untried(am)
      /\ DOMAIN am.mapInfo \subseteq Nat
  <2>1. am \in Managers /\ Random(am)
    BY DEF Sound, Coherent, Base
  <2> QED BY <2>1, Occupied, ManagerType
<1>2. /\ Untried(am) \in SUBSET Nat /\ Tried(am) \in SUBSET Nat
      /\ IsFiniteSet(Untried(am)) /\ IsFiniteSet(Tried(am))
      /\ Untried(am) \cup Tried(am) = DOMAIN am.mapInfo
      /\ \A x \in Untried(am) : x \notin Tried(am)
  <2>1. IsFiniteSet(Untried(am)) /\ IsFiniteSet(Tried(am))
    BY <1>1, IdsFinite
  <2> QED BY <1>1, <2>1 DEF Untried, Tried
<1>3. /\ n = Cardinality(Untried(am)) /\ k = Cardinality(Tried(am)) /\ Total(am) = n + k
      /\ n \in Nat /\ k \in Nat
  BY <1>1, <1>2, FS_CardinalityType DEF NewNum, TriedNum, Total
<1>4. /\ Pairs(r, 1 .. n, Untried(am)) /\ Pairs(t, 1 .. k, Tried(am))
      /\ \A x \in Untried(am) : r[Rank(Referenced(am), x)] = x
      /\ \A x \in Untried(am) : Rank(Referenced(am), x) \in 1 .. n
  <2>1. Pairs(Sorted(Untried(am)), 1 .. Cardinality(Untried(am)), Untried(am))
        /\ \A x \in Untried(am) : Sorted(Untried(am))[Rank(Untried(am), x)] = x
    BY <1>2, SortedFacts
  <2>2. \A x \in Untried(am) : Rank(Untried(am), x) \in 1 .. Cardinality(Untried(am))
    BY <1>2, RankFacts
  <2>3. Pairs(Sorted(Tried(am)), 1 .. Cardinality(Tried(am)), Tried(am))
    BY <1>2, SortedFacts
  <2> QED BY <1>1, <1>3, <2>1, <2>2, <2>3
<1>5. q = [i \in 1 .. n + k |-> IF i <= n THEN r[i] ELSE t[i - n]]
  BY <1>3 DEF Listed
<1> HIDE DEF n, k, r, t, q
<1>6. /\ \A i \in 1 .. n : i \in 1 .. n + k /\ q[i] = r[i]
      /\ \A i \in 1 .. k : n + i \in 1 .. n + k /\ q[n + i] = t[i]
  <2>1. \A i \in 1 .. n : i \in 1 .. n + k /\ i <= n
    BY <1>3
  <2>2. \A i \in 1 .. k : n + i \in 1 .. n + k /\ ~(n + i <= n) /\ n + i - n = i
    BY <1>3
  <2>3. \A i \in 1 .. n : q[i] = r[i]
    BY <1>5, <2>1
  <2>4. ASSUME NEW i \in 1 .. k PROVE q[n + i] = t[i]
    <3> DEFINE j == n + i
    <3>1. j \in 1 .. n + k /\ ~(j <= n) /\ j - n = i
      BY <1>3
    <3> HIDE DEF j
    <3>2. q[j] = t[j - n]
      BY <1>5, <3>1
    <3> QED BY <3>1, <3>2 DEF j
  <2> QED BY <2>1, <2>2, <2>3, <2>4
<1>7. /\ r \in [1 .. n -> Untried(am)] /\ t \in [1 .. k -> Tried(am)]
      /\ \A i, j \in 1 .. n : r[i] = r[j] => i = j
      /\ \A i, j \in 1 .. k : t[i] = t[j] => i = j
      /\ \A x \in Untried(am) : \E i \in 1 .. n : r[i] = x
      /\ \A x \in Tried(am) : \E i \in 1 .. k : t[i] = x
  BY <1>4 DEF Pairs
<1>8. \A i \in 1 .. n + k : \/ i \in 1 .. n /\ q[i] = r[i] /\ q[i] \in Untried(am) /\ i <= n
                            \/ i - n \in 1 .. k /\ q[i] = t[i - n] /\ q[i] \in Tried(am) /\ i > n
  <2> TAKE i \in 1 .. n + k
  <2>1. CASE i <= n
    <3>1. i \in 1 .. n
      BY <1>3, <2>1
    <3> QED BY <1>6, <1>7, <2>1, <3>1
  <2>2. CASE i > n
    <3>1. i - n \in 1 .. k /\ n + (i - n) = i
      BY <1>3, <2>2
    <3>2. q[n + (i - n)] = t[i - n]
      BY <1>6, <3>1
    <3> QED BY <1>7, <2>2, <3>1, <3>2
  <2> QED BY <1>3, <2>1, <2>2
<1>9. Pairs(q, 1 .. n + k, DOMAIN am.mapInfo)
  <2>1. q \in [1 .. n + k -> DOMAIN am.mapInfo]
    <3>1. \A i \in 1 .. n + k : q[i] \in DOMAIN am.mapInfo
      BY <1>2, <1>8
    <3> QED BY <1>5, <3>1
  <2>2. ASSUME NEW i \in 1 .. n + k, NEW j \in 1 .. n + k, q[i] = q[j] PROVE i = j
    <3>1. CASE i \in 1 .. n /\ q[i] = r[i] /\ q[i] \in Untried(am)
      <4>1. j \in 1 .. n /\ q[j] = r[j]
        BY <1>2, <1>8, <2>2, <3>1
      <4> QED BY <1>7, <2>2, <3>1, <4>1, ZenonT(40)
    <3>2. CASE i - n \in 1 .. k /\ q[i] = t[i - n] /\ q[i] \in Tried(am)
      <4>1. j - n \in 1 .. k /\ q[j] = t[j - n]
        BY <1>2, <1>8, <2>2, <3>2
      <4>2. i - n = j - n
        BY <1>7, <2>2, <3>2, <4>1
      <4> QED BY <1>3, <4>2
    <3> QED BY <1>8, <3>1, <3>2
  <2>3. \A x \in DOMAIN am.mapInfo : \E i \in 1 .. n + k : q[i] = x
    <3> TAKE x \in DOMAIN am.mapInfo
    <3>1. CASE x \in Untried(am)
      BY <1>6, <1>7, <3>1
    <3>2. CASE x \in Tried(am)
      BY <1>6, <1>7, <3>2
    <3> QED BY <1>2, <3>1, <3>2
  <2> QED BY <2>1, <2>2, <2>3 DEF Pairs
<1>10. \A i \in 1 .. n + k : /\ i <= n => q[i] \in Untried(am)
                             /\ i > n => q[i] \in Tried(am)
  <2> TAKE i \in 1 .. n + k
  <2> QED BY <1>3, <1>8
<1>11. Total(am) \in Nat
  BY <1>3
<1> QED BY <1>3, <1>4, <1>6, <1>9, <1>10, <1>11 DEF n, k, r, t, q

LEMMA EntryFields ==
    \A am, x : Entry(am, x).s = am.mapInfo[x].s /\ Entry(am, x).source = am.mapInfo[x].source
BY DEF Entry

\* f is what is written for am.
File(am, f) ==
    /\ f.nKey = am.nKey
    /\ f.new \in Seq(Entries) /\ Len(f.new) = NewNum(am)
    /\ \A i \in 1 .. NewNum(am) : f.new[i] = Entry(am, Listed(am)[i])
    /\ f.tried \in Seq(Entries) /\ Len(f.tried) = TriedNum(am)
    /\ \A i \in 1 .. TriedNum(am) : f.tried[i] = Entry(am, Listed(am)[NewNum(am) + i])
    /\ \A b \in NewBuckets : \A i \in f.buckets[b] :
          \E p \in Positions : am.vvNew[<<b, p>>] # -1 /\ i = Rank(Referenced(am), am.vvNew[<<b, p>>])
    /\ \A slot \in NewSlots : am.vvNew[slot] # -1 => Rank(Referenced(am), am.vvNew[slot]) \in f.buckets[slot[1]]

LEMMA SerializeFacts ==
    ASSUME NEW am, Sound(am)
    PROVE  File(am, Serialize(am))
<1> DEFINE f == Serialize(am)
           n == NewNum(am)
           k == TriedNum(am)
           r == Sorted(Referenced(am))
           t == Sorted(Tried(am))
           Used(b) == {q \in Positions : am.vvNew[<<b, q>>] # -1}
<1>1. am \in Managers /\ n \in Nat /\ k \in Nat
  BY ListedFacts DEF Sound, Coherent, Base
<1>2. r \in [1 .. n -> Untried(am)] /\ t \in [1 .. k -> Tried(am)]
  BY ListedFacts DEF Pairs
<1>3. DOMAIN r = 1 .. n /\ DOMAIN t = 1 .. k
  BY <1>2
<1>4. \A x \in DOMAIN am.mapInfo : Entry(am, x) \in Entries
  BY <1>1, ManagerType DEF Entry, Entries
<1>5. \A x \in Untried(am) \cup Tried(am) : x \in DOMAIN am.mapInfo
  BY DEF Untried, Tried
<1>6. /\ f.nKey = am.nKey
      /\ f.new = [i \in DOMAIN r |-> Entry(am, r[i])]
      /\ f.tried = [i \in DOMAIN t |-> Entry(am, t[i])]
      /\ f.buckets = [b \in NewBuckets |-> {Index(am, am.vvNew[<<b, p>>]) : p \in Used(b)}]
  BY DEF Serialize
<1> HIDE DEF f, r, t, n, k
<1>7. f.new \in Seq(Entries) /\ Len(f.new) = n /\ \A i \in 1 .. n : f.new[i] = Entry(am, r[i])
  <2>1. f.new \in [1 .. n -> Entries]
    BY <1>2, <1>3, <1>4, <1>5, <1>6
  <2> QED BY <1>1, <1>3, <1>6, <2>1
<1>8. f.tried \in Seq(Entries) /\ Len(f.tried) = k /\ \A i \in 1 .. k : f.tried[i] = Entry(am, t[i])
  <2>1. f.tried \in [1 .. k -> Entries]
    BY <1>2, <1>3, <1>4, <1>5, <1>6
  <2> QED BY <1>1, <1>3, <1>6, <2>1
<1>9. /\ \A i \in 1 .. n : Listed(am)[i] = r[i]
      /\ \A i \in 1 .. k : Listed(am)[n + i] = t[i]
  BY ListedFacts DEF n, k, r, t
<1>10. \A b \in NewBuckets : \A i \in f.buckets[b] :
          \E p \in Positions : am.vvNew[<<b, p>>] # -1 /\ i = Rank(Referenced(am), am.vvNew[<<b, p>>])
  BY <1>6 DEF Index
<1>11. ASSUME NEW slot \in NewSlots, am.vvNew[slot] # -1
       PROVE  Rank(Referenced(am), am.vvNew[slot]) \in f.buckets[slot[1]]
  <2>1. PICK b \in NewBuckets, p \in Positions : slot = <<b, p>>
    BY DEF NewSlots
  <2>2. p \in Used(b) /\ slot[1] = b
    BY <1>11, <2>1
  <2> HIDE DEF Used
  <2> QED BY <1>6, <2>1, <2>2 DEF Index
<1>12. File(am, f)
  BY <1>6, <1>7, <1>8, <1>9, <1>10, <1>11 DEF File, n, k
<1> QED BY <1>12 DEF f

-----------------------------------------------------------------------------
(* The slots as a file fills them *)

LEMMA FirstFacts ==
    ASSUME NEW S \in SUBSET Nat, 0 \notin S
    PROVE  /\ First(S) \in Int /\ (First(S) # -1 <=> S # {})
           /\ First(S) # -1 => First(S) \in Nat /\ First(S) + 1 \in S
           /\ \A x \in Nat : S = {x} => First(S) = x - 1
<1>1. CASE S = {}
  <2>1. First(S) = -1
    BY <1>1 DEF First
  <2> QED BY <1>1, <2>1
<1>2. CASE S # {}
  <2> DEFINE c == CHOOSE i \in S : \A j \in S : i <= j
  <2>1. \E i \in S : \A j \in S : i <= j
    BY <1>2, Least
  <2>2. c \in S
    BY <2>1
  <2>3. First(S) = c - 1
    BY <1>2 DEF First
  <2> HIDE DEF c
  <2>4. c \in Nat /\ c # 0
    BY <2>2
  <2>5. First(S) \in Nat /\ First(S) + 1 = c
    BY <2>3, <2>4
  <2>6. First(S) # -1
    BY <2>5
  <2>7. \A x \in Nat : S = {x} => First(S) = x - 1
    BY <2>2, <2>3
  <2> QED BY <1>2, <2>2, <2>5, <2>6, <2>7
<1> QED BY <1>1, <1>2

\* The id that the entry read back with id had in am.
Old(am, id) == Listed(am)[id + 1]

LEMMA OldFacts ==
    ASSUME NEW am, Sound(am)
    PROVE  /\ \A id \in 0 .. Total(am) - 1 :
                 /\ id + 1 \in 1 .. Total(am) /\ Old(am, id) \in DOMAIN am.mapInfo
                 /\ id < NewNum(am) => Old(am, id) \in Untried(am)
                 /\ id >= NewNum(am) => Old(am, id) \in Tried(am)
                 /\ am.mapInfo[Old(am, id)].s \in Services
                 /\ am.mapInfo[Old(am, id)].source \in Sources
           /\ \A id, x \in 0 .. Total(am) - 1 : Old(am, id) = Old(am, x) => id = x
           /\ \A y \in DOMAIN am.mapInfo : \E id \in 0 .. Total(am) - 1 : Old(am, id) = y
<1> DEFINE n == NewNum(am)
           t == Total(am)
           q == Listed(am)
<1>1. /\ n \in Nat /\ t \in Nat /\ q \in [1 .. t -> DOMAIN am.mapInfo]
      /\ \A i, j \in 1 .. t : q[i] = q[j] => i = j
      /\ \A y \in DOMAIN am.mapInfo : \E i \in 1 .. t : q[i] = y
      /\ \A i \in 1 .. t : /\ i <= n => q[i] \in Untried(am)
                           /\ i > n => q[i] \in Tried(am)
  BY ListedFacts DEF Pairs
<1>2. am \in Managers
  BY DEF Sound, Coherent, Base
<1> HIDE DEF n, t, q
<1>3. \A id \in 0 .. t - 1 : id + 1 \in 1 .. t /\ (id < n => id + 1 <= n) /\ (id >= n => id + 1 > n)
  BY <1>1
<1>4. \A id \in 0 .. t - 1 : Old(am, id) = q[id + 1]
  BY DEF Old, q
<1>5. \A id \in 0 .. t - 1 : /\ Old(am, id) \in DOMAIN am.mapInfo
                             /\ id < n => Old(am, id) \in Untried(am)
                             /\ id >= n => Old(am, id) \in Tried(am)
  BY <1>1, <1>3, <1>4
<1>6. \A id \in 0 .. t - 1 : am.mapInfo[Old(am, id)].s \in Services /\ am.mapInfo[Old(am, id)].source \in Sources
  BY <1>2, <1>5, ManagerType
<1>7. ASSUME NEW id \in 0 .. t - 1, NEW x \in 0 .. t - 1, Old(am, id) = Old(am, x) PROVE id = x
  <2>1. id + 1 = x + 1
    BY <1>1, <1>3, <1>4, <1>7
  <2> QED BY <2>1
<1>8. ASSUME NEW y \in DOMAIN am.mapInfo PROVE \E id \in 0 .. t - 1 : Old(am, id) = y
  <2>1. PICK i \in 1 .. t : q[i] = y
    BY <1>1
  <2>2. i - 1 \in 0 .. t - 1 /\ i - 1 + 1 = i
    BY <1>1
  <2>3. Old(am, i - 1) = q[i]
    BY <1>4, <2>2
  <2> QED BY <2>1, <2>2, <2>3
<1> QED BY <1>3, <1>5, <1>6, <1>7, <1>8 DEF n, t

LEMMA NewOfFacts ==
    ASSUME NEW am, Sound(am), NEW f, File(am, f), NEW same \in BOOLEAN
    PROVE  /\ NewOf(f, same) \in [NewSlots -> Int]
           /\ \A slot \in NewSlots : NewOf(f, same)[slot] # -1 =>
                 /\ NewOf(f, same)[slot] \in Nat /\ NewOf(f, same)[slot] < NewNum(am)
                 /\ Wants(f, same, NewOf(f, same)[slot] + 1, slot[1])
                 /\ NewSlot(am, am.mapInfo[Old(am, NewOf(f, same)[slot])].s, slot[1]) = slot
           /\ \A slot \in NewSlots : \A i \in 1 .. NewNum(am) :
                 /\ Wants(f, same, i, slot[1])
                 /\ NewSlot(am, am.mapInfo[Listed(am)[i]].s, slot[1]) = slot
                 => NewOf(f, same)[slot] # -1
<1> DEFINE n == NewNum(am)
           g == NewOf(f, same)
           Cand(slot) == {i \in 1 .. n : Wants(f, same, i, slot[1]) /\ NewSlot(f, f.new[i].s, slot[1]) = slot}
<1>1. /\ n \in Nat /\ f.nKey = am.nKey /\ f.new \in Seq(Entries) /\ Len(f.new) = n
      /\ \A i \in 1 .. n : f.new[i] = Entry(am, Listed(am)[i])
  BY ListedFacts DEF File
<1>2. DOMAIN f.new = 1 .. n
  BY <1>1
<1>3. g = [slot \in NewSlots |-> First(Cand(slot))]
  BY <1>2 DEF NewOf, NewSlots
<1> HIDE DEF n, g
<1>4. \A slot \in NewSlots : Cand(slot) \in SUBSET Nat /\ 0 \notin Cand(slot)
  BY <1>1
<1> HIDE DEF Cand
<1>5. \A slot \in NewSlots : /\ g[slot] \in Int /\ (g[slot] # -1 <=> Cand(slot) # {})
                             /\ g[slot] # -1 => g[slot] \in Nat /\ g[slot] + 1 \in Cand(slot)
  <2> TAKE slot \in NewSlots
  <2>1. /\ First(Cand(slot)) \in Int /\ (First(Cand(slot)) # -1 <=> Cand(slot) # {})
        /\ First(Cand(slot)) # -1 => First(Cand(slot)) \in Nat /\ First(Cand(slot)) + 1 \in Cand(slot)
    BY <1>4, FirstFacts
  <2> QED BY <1>3, <2>1
<1>6. g \in [NewSlots -> Int]
  BY <1>3, <1>5
<1>7. ASSUME NEW slot \in NewSlots, g[slot] # -1
      PROVE  /\ g[slot] \in Nat /\ g[slot] < n /\ Wants(f, same, g[slot] + 1, slot[1])
             /\ NewSlot(am, am.mapInfo[Old(am, g[slot])].s, slot[1]) = slot
  <2> DEFINE i == g[slot] + 1
  <2>1. g[slot] \in Nat /\ i \in 1 .. n /\ Wants(f, same, i, slot[1]) /\ NewSlot(f, f.new[i].s, slot[1]) = slot
    BY <1>5, <1>7 DEF Cand
  <2>2. g[slot] < n
    BY <1>1, <2>1
  <2>3. f.new[i].s = am.mapInfo[Old(am, g[slot])].s
    <3> HIDE DEF i
    <3>1. f.new[i] = Entry(am, Listed(am)[i])
      BY <1>1, <2>1
    <3>2. Listed(am)[i] = Old(am, g[slot])
      BY DEF Old, i
    <3> QED BY <3>1, <3>2, EntryFields
  <2>4. NewSlot(am, am.mapInfo[Old(am, g[slot])].s, slot[1]) = NewSlot(f, am.mapInfo[Old(am, g[slot])].s, slot[1])
    BY <1>1 DEF NewSlot
  <2> HIDE DEF i
  <2> QED BY <2>1, <2>2, <2>3, <2>4 DEF i
<1>8. ASSUME NEW slot \in NewSlots, NEW i \in 1 .. n, Wants(f, same, i, slot[1]),
             NewSlot(am, am.mapInfo[Listed(am)[i]].s, slot[1]) = slot
      PROVE  g[slot] # -1
  <2>1. f.new[i].s = am.mapInfo[Listed(am)[i]].s
    BY <1>1, EntryFields
  <2>2. \A s, b : NewSlot(am, s, b) = NewSlot(f, s, b)
    BY <1>1 DEF NewSlot
  <2>3. i \in Cand(slot)
    BY <1>8, <2>1, <2>2 DEF Cand
  <2> QED BY <1>5, <2>3
<1> QED BY <1>6, <1>7, <1>8 DEF g, n

LEMMA TriedOfFacts ==
    ASSUME NEW am, Sound(am), NEW f, File(am, f)
    PROVE  /\ TriedOf(f) \in [TriedSlots -> Int]
           /\ \A slot \in TriedSlots : TriedOf(f)[slot] # -1 =>
                 /\ TriedOf(f)[slot] \in NewNum(am) .. Total(am) - 1
                 /\ TriedSlot(am, am.mapInfo[Old(am, TriedOf(f)[slot])].s) = slot
           /\ \A id \in NewNum(am) .. Total(am) - 1 :
                 TriedOf(f)[TriedSlot(am, am.mapInfo[Old(am, id)].s)] = id
<1> DEFINE n == NewNum(am)
           k == TriedNum(am)
           g == TriedOf(f)
           Own(slot) == {i \in 1 .. k : TriedSlot(f, f.tried[i].s) = slot}
           Cand(slot) == {n + i : i \in Own(slot)}
<1>1. /\ n \in Nat /\ k \in Nat /\ Total(am) = n + k
      /\ f.nKey = am.nKey /\ f.tried \in Seq(Entries) /\ Len(f.tried) = k /\ Len(f.new) = n
      /\ \A i \in 1 .. k : f.tried[i] = Entry(am, Listed(am)[n + i])
  BY ListedFacts DEF File, Total
<1>2. DOMAIN f.tried = 1 .. k
  BY <1>1
<1>3. g = [slot \in TriedSlots |-> First(Cand(slot))]
  BY <1>1, <1>2 DEF TriedOf, TriedSlots
<1>4. TriedTable(am) /\ am \in Managers
  BY DEF Sound, Coherent, Base
<1> HIDE DEF n, k, g
<1>5. \A slot : Cand(slot) \in SUBSET Nat /\ 0 \notin Cand(slot)
  BY <1>1
<1>6. \A i \in 1 .. k : TriedSlot(f, f.tried[i].s) = TriedSlot(am, am.mapInfo[Listed(am)[n + i]].s)
  <2>1. \A i \in 1 .. k : f.tried[i].s = am.mapInfo[Listed(am)[n + i]].s
    BY <1>1, EntryFields
  <2>2. \A s : TriedSlot(f, s) = TriedSlot(am, s)
    BY <1>1, SameSlots
  <2> QED BY <2>1, <2>2
<1>7. \A slot \in TriedSlots : /\ g[slot] \in Int
                               /\ g[slot] # -1 => g[slot] \in Nat /\ g[slot] + 1 \in Cand(slot)
  <2> TAKE slot \in TriedSlots
  <2> HIDE DEF Cand
  <2>1. /\ First(Cand(slot)) \in Int
        /\ First(Cand(slot)) # -1 => First(Cand(slot)) \in Nat /\ First(Cand(slot)) + 1 \in Cand(slot)
    BY <1>5, FirstFacts
  <2> QED BY <1>3, <2>1
<1>8. g \in [TriedSlots -> Int]
  <2> HIDE DEF Cand
  <2> QED BY <1>3, <1>7
<1>9. ASSUME NEW slot \in TriedSlots, g[slot] # -1
      PROVE  /\ g[slot] \in n .. Total(am) - 1
             /\ TriedSlot(am, am.mapInfo[Old(am, g[slot])].s) = slot
  <2>1. g[slot] \in Nat /\ g[slot] + 1 \in Cand(slot)
    BY <1>7, <1>9
  <2>2. PICK i \in 1 .. k : g[slot] + 1 = n + i /\ TriedSlot(f, f.tried[i].s) = slot
    BY <2>1
  <2>3. g[slot] \in n .. Total(am) - 1
    BY <1>1, <2>1, <2>2
  <2>4. Old(am, g[slot]) = Listed(am)[n + i]
    BY <2>2 DEF Old
  <2> QED BY <1>6, <2>2, <2>3, <2>4
<1>10. ASSUME NEW id \in n .. Total(am) - 1
       PROVE  g[TriedSlot(am, am.mapInfo[Old(am, id)].s)] = id
  <2> DEFINE slot == TriedSlot(am, am.mapInfo[Old(am, id)].s)
             i == id + 1 - n
  <2>1. id \in 0 .. Total(am) - 1 /\ id >= n /\ i \in 1 .. k /\ n + i = id + 1 /\ n + i \in Nat
    BY <1>1
  <2>2. /\ Old(am, id) \in Tried(am) /\ am.mapInfo[Old(am, id)].s \in Services
        /\ \A x, y \in 0 .. Total(am) - 1 : Old(am, x) = Old(am, y) => x = y
    BY <2>1, OldFacts DEF n
  <2>3. slot \in TriedSlots /\ am.vvTried[slot] = Old(am, id)
    BY <1>4, <2>2, SlotTypes DEF TriedTable, Tried
  <2> HIDE DEF slot, i
  <2>4. Listed(am)[n + i] = Old(am, id)
    BY <2>1 DEF Old
  <2>5. i \in Own(slot)
    BY <1>6, <2>1, <2>4 DEF slot
  <2>6. ASSUME NEW j \in Own(slot) PROVE j = i
    <3> DEFINE y == n + j - 1
    <3>1. j \in 1 .. k /\ y \in 0 .. Total(am) - 1 /\ y >= n /\ y + 1 = n + j
      BY <1>1
    <3>2. TriedSlot(am, am.mapInfo[Listed(am)[n + j]].s) = slot
      BY <1>6, <2>6
    <3> HIDE DEF y
    <3>3. Listed(am)[n + j] = Old(am, y)
      BY <3>1 DEF Old
    <3>4. Old(am, y) \in Tried(am)
      BY <3>1, OldFacts DEF n
    <3>5. am.vvTried[slot] = Old(am, y)
      BY <1>4, <3>2, <3>3, <3>4 DEF TriedTable, Tried
    <3>6. y = id
      BY <2>1, <2>2, <2>3, <3>1, <3>5
    <3> QED BY <1>1, <2>1, <3>1, <3>6
  <2>7. Cand(slot) = {n + i}
    BY <2>5, <2>6
  <2> HIDE DEF Cand
  <2> DEFINE w == n + i
  <2>8. w \in Nat /\ Cand(slot) = {w} /\ w - 1 = id
    BY <2>1, <2>7
  <2> HIDE DEF w
  <2>9. First(Cand(slot)) = w - 1
    BY <1>5, <2>8, FirstFacts
  <2>10. g[slot] = w - 1
    BY <1>3, <2>3, <2>9
  <2> QED BY <2>8, <2>10 DEF slot
<1> QED BY <1>8, <1>9, <1>10 DEF g, n

-----------------------------------------------------------------------------
(* The manager read back, before entries are pruned *)

\* g has the entries of am, numbered as in the file, and these slots.
ReadBack(am, g) ==
    /\ DOMAIN g = {"nKey", "nIdCount", "mapInfo", "mapAddr", "vRandom",
                   "vvNew", "nNew", "vvTried", "nTried"}
    /\ g = [x \in DOMAIN g |-> g[x]]
    /\ g.nKey = am.nKey /\ g.nIdCount = Total(am) /\ g.nNew = NewNum(am) /\ g.nTried = TriedNum(am)
    /\ g.vRandom = [i \in 1 .. Total(am) |-> i - 1]
    /\ g.mapInfo = [id \in 0 .. Total(am) - 1 |-> g.mapInfo[id]]
    /\ \A id \in 0 .. Total(am) - 1 :
          /\ g.mapInfo[id] \in Info
          /\ g.mapInfo[id].s = am.mapInfo[Old(am, id)].s
          /\ g.mapInfo[id].nRefCount = Cardinality(Refs(g, id))
          /\ g.mapInfo[id].fInTried = (id >= NewNum(am)) /\ g.mapInfo[id].nRandomPos = id + 1
    /\ g.mapAddr \in AddrMaps
    /\ DOMAIN g.mapAddr = {Net[am.mapInfo[Old(am, id)].s] : id \in 0 .. Total(am) - 1}
    /\ \A id \in 0 .. Total(am) - 1 : g.mapAddr[Net[am.mapInfo[Old(am, id)].s]] = id

LEMMA EntriesRead ==
    ASSUME NEW am, Sound(am), NEW f, File(am, f)
    PROVE  /\ f.new \o f.tried \in Seq(Entries) /\ Len(f.new \o f.tried) = Total(am)
           /\ DOMAIN (f.new \o f.tried) = 1 .. Total(am)
           /\ \A i \in 1 .. Total(am) : (f.new \o f.tried)[i] = Entry(am, Listed(am)[i])
<1> DEFINE n == NewNum(am)
           k == TriedNum(am)
           e == f.new \o f.tried
<1>1. /\ n \in Nat /\ k \in Nat /\ Total(am) = n + k
      /\ f.new \in Seq(Entries) /\ Len(f.new) = n
      /\ f.tried \in Seq(Entries) /\ Len(f.tried) = k
      /\ \A i \in 1 .. n : f.new[i] = Entry(am, Listed(am)[i])
      /\ \A i \in 1 .. k : f.tried[i] = Entry(am, Listed(am)[n + i])
  BY ListedFacts DEF File, Total
<1> HIDE DEF n, k
<1>2. /\ e \in Seq(Entries) /\ Len(e) = n + k
      /\ \A i \in 1 .. n + k : e[i] = IF i <= n THEN f.new[i] ELSE f.tried[i - n]
  <2>1. /\ e \in Seq(Entries) /\ Len(e) = Len(f.new) + Len(f.tried)
        /\ \A i \in 1 .. Len(f.new) + Len(f.tried) :
              e[i] = IF i <= Len(f.new) THEN f.new[i] ELSE f.tried[i - Len(f.new)]
    BY <1>1, ConcatProperties
  <2> HIDE DEF e
  <2> QED BY <1>1, <2>1
<1> HIDE DEF e
<1>3. DOMAIN e = 1 .. n + k
  BY <1>2
<1>4. ASSUME NEW i \in 1 .. n + k PROVE e[i] = Entry(am, Listed(am)[i])
  <2>1. CASE i <= n
    <3>1. i \in 1 .. n
      BY <1>1, <2>1
    <3> QED BY <1>1, <1>2, <2>1, <3>1
  <2>2. CASE ~(i <= n)
    <3>1. i - n \in 1 .. k /\ n + (i - n) = i
      BY <1>1, <2>2
    <3>2. f.tried[i - n] = Entry(am, Listed(am)[n + (i - n)])
      BY <1>1, <3>1
    <3> QED BY <1>2, <2>2, <3>1, <3>2
  <2> QED BY <2>1, <2>2
<1> QED BY <1>1, <1>2, <1>3, <1>4 DEF e

LEMMA LoadedFields ==
    ASSUME NEW am, Sound(am), NEW f, File(am, f), NEW same \in BOOLEAN
    PROVE  /\ ReadBack(am, Loaded(f, same))
           /\ Loaded(f, same).vvNew = NewOf(f, same) /\ Loaded(f, same).vvTried = TriedOf(f)
<1> DEFINE g == Loaded(f, same)
           e == f.new \o f.tried
           t == Total(am)
           n == NewNum(am)
           new == NewOf(f, same)
           S(id) == am.mapInfo[Old(am, id)].s
           info == [id \in 0 .. t - 1 |->
                       [s |-> e[id + 1].s, source |-> e[id + 1].source,
                        nRefCount |-> Cardinality({slot \in DOMAIN new : new[slot] = id}),
                        fInTried |-> id >= n, nRandomPos |-> id + 1]]
           addr == [x \in {Net[e[i].s] : i \in 1 .. t} |->
                       (CHOOSE i \in 1 .. t : Net[e[i].s] = x) - 1]
<1>1. /\ n \in Nat /\ t \in Nat /\ f.nKey = am.nKey /\ Len(f.new) = n /\ Len(f.tried) = TriedNum(am)
  BY ListedFacts DEF File
<1>2. /\ Len(e) = t /\ DOMAIN e = 1 .. t
      /\ \A i \in 1 .. t : e[i] = Entry(am, Listed(am)[i])
  BY EntriesRead
<1>3. /\ DOMAIN g = {"nKey", "nIdCount", "mapInfo", "mapAddr", "vRandom",
                     "vvNew", "nNew", "vvTried", "nTried"}
      /\ g = [x \in DOMAIN g |-> g[x]]
      /\ g.nKey = am.nKey /\ g.nIdCount = t /\ g.nNew = n /\ g.nTried = TriedNum(am)
      /\ g.vRandom = [i \in 1 .. t |-> i - 1]
      /\ g.mapInfo = info /\ g.mapAddr = addr
      /\ g.vvNew = new /\ g.vvTried = TriedOf(f)
  <2> DEFINE c == Cleared(f.nKey)
             size == Len(e)
             mi == [id \in 0 .. size - 1 |->
                       [s |-> e[id + 1].s, source |-> e[id + 1].source,
                        nRefCount |-> Cardinality({slot \in DOMAIN new : new[slot] = id}),
                        fInTried |-> id >= Len(f.new), nRandomPos |-> id + 1]]
             ma == [x \in {Net[e[i].s] : i \in DOMAIN e} |->
                       (CHOOSE i \in DOMAIN e : Net[e[i].s] = x) - 1]
             vr == [i \in DOMAIN e |-> i - 1]
             tt == TriedOf(f)
  <2>1. g = [c EXCEPT !.nIdCount = size, !.mapInfo = mi, !.mapAddr = ma, !.vRandom = vr,
                      !.vvNew = new, !.nNew = Len(f.new), !.vvTried = tt, !.nTried = Len(f.tried)]
    BY DEF Loaded
  <2>2. /\ DOMAIN c = {"nKey", "nIdCount", "mapInfo", "mapAddr", "vRandom",
                        "vvNew", "nNew", "vvTried", "nTried"}
        /\ c = [x \in DOMAIN c |-> c[x]] /\ c.nKey = f.nKey
    BY DEF Cleared
  <2>3. size = t /\ vr = [i \in 1 .. t |-> i - 1] /\ ma = addr
    <3> HIDE DEF e, t
    <3> QED BY <1>2
  <2>4. mi = info
    <3> HIDE DEF e, t, n, new, size
    <3> QED BY <1>1, <2>3
  <2> HIDE DEF c, size, mi, ma, vr, tt, g, e, t, n, new, info, addr
  <2>5. /\ DOMAIN g = DOMAIN c /\ g = [x \in DOMAIN g |-> g[x]] /\ g.nKey = c.nKey
        /\ g.nIdCount = size /\ g.mapInfo = mi /\ g.mapAddr = ma /\ g.vRandom = vr
        /\ g.vvNew = new /\ g.nNew = Len(f.new) /\ g.vvTried = tt /\ g.nTried = Len(f.tried)
    BY <2>1, <2>2
  <2> QED BY <1>1, <2>2, <2>3, <2>4, <2>5 DEF tt
<1> HIDE DEF g, e, t, n, new
<1>4. new \in [NewSlots -> Int]
  BY NewOfFacts DEF new
<1>5. \A id \in 0 .. t - 1 :
         /\ id + 1 \in 1 .. t /\ e[id + 1].s = S(id) /\ e[id + 1].source = am.mapInfo[Old(am, id)].source
         /\ S(id) \in Services /\ am.mapInfo[Old(am, id)].source \in Sources
  <2>1. \A id \in 0 .. t - 1 : id + 1 \in 1 .. t /\ S(id) \in Services /\ am.mapInfo[Old(am, id)].source \in Sources
    BY OldFacts DEF t
  <2>2. \A id \in 0 .. t - 1 : e[id + 1] = Entry(am, Old(am, id))
    BY <1>2, <2>1 DEF Old
  <2> QED BY <2>1, <2>2, EntryFields
<1>6. \A id \in 0 .. t - 1 :
          /\ g.mapInfo[id] \in Info /\ g.mapInfo[id].s = S(id)
          /\ g.mapInfo[id].nRefCount = Cardinality(Refs(g, id))
          /\ g.mapInfo[id].fInTried = (id >= n) /\ g.mapInfo[id].nRandomPos = id + 1
  <2> TAKE id \in 0 .. t - 1
  <2>1. {slot \in DOMAIN new : new[slot] = id} = Refs(g, id)
    BY <1>3, <1>4 DEF Refs
  <2>2. g.mapInfo[id] = [s |-> S(id), source |-> am.mapInfo[Old(am, id)].source,
                         nRefCount |-> Cardinality(Refs(g, id)),
                         fInTried |-> id >= n, nRandomPos |-> id + 1]
    BY <1>3, <1>5, <2>1
  <2>3. Cardinality(Refs(g, id)) \in Nat
    BY SlotsFinite
  <2>4. id + 1 \in Nat
    BY <1>1
  <2> HIDE DEF S
  <2> QED BY <1>5, <2>2, <2>3, <2>4 DEF Info
<1>7. DOMAIN g.mapAddr = {Net[S(id)] : id \in 0 .. t - 1}
  <2>1. DOMAIN g.mapAddr = {Net[e[i].s] : i \in 1 .. t}
    BY <1>3
  <2>2. \A i \in 1 .. t : i - 1 \in 0 .. t - 1 /\ i - 1 + 1 = i
    BY <1>1
  <2>3. \A i \in 1 .. t : e[i].s = S(i - 1)
    <3> TAKE i \in 1 .. t
    <3> DEFINE j == i - 1
    <3>1. j \in 0 .. t - 1 /\ j + 1 = i
      BY <2>2
    <3> HIDE DEF j, S
    <3>2. e[j + 1].s = S(j)
      BY <1>5, <3>1
    <3> QED BY <3>1, <3>2 DEF j
  <2> HIDE DEF S
  <2>4. \A x : x \in {Net[e[i].s] : i \in 1 .. t} <=> x \in {Net[S(id)] : id \in 0 .. t - 1}
    BY <1>5, <2>2, <2>3
  <2> QED BY <2>1, <2>4
<1>8. ASSUME NEW id \in 0 .. t - 1 PROVE g.mapAddr[Net[S(id)]] = id
  <2> DEFINE x == Net[S(id)]
             c == CHOOSE i \in 1 .. t : Net[e[i].s] = x
  <2>1. id + 1 \in 1 .. t /\ Net[e[id + 1].s] = x
    BY <1>5
  <2>2. c \in 1 .. t /\ Net[e[c].s] = x
    <3> HIDE DEF x
    <3> QED BY <2>1
  <2> DEFINE j == c - 1
  <2>3. j \in 0 .. t - 1 /\ j + 1 = c
    <3> HIDE DEF c
    <3> QED BY <1>1, <2>2
  <2>4. g.mapAddr[x] = j
    <3> HIDE DEF x
    <3> QED BY <1>3, <2>1
  <2> HIDE DEF c, j, x
  <2>5. e[j + 1].s = S(j)
    BY <1>5, <2>3
  <2>6. Net[S(j)] = Net[S(id)]
    BY <2>2, <2>3, <2>5 DEF x
  <2>7. Old(am, j) = Old(am, id)
    <3>1. Addresses(am) /\ Old(am, j) \in DOMAIN am.mapInfo /\ Old(am, id) \in DOMAIN am.mapInfo
      BY <2>3, OldFacts DEF t, Sound, Coherent, Base
    <3> QED BY <2>6, <3>1 DEF Addresses
  <2>8. j = id
    BY <2>3, <2>7, OldFacts DEF t
  <2> QED BY <2>4, <2>8 DEF x
<1>9. g.mapAddr \in AddrMaps
  <2>1. DOMAIN g.mapAddr \subseteq {Net[s] : s \in Services}
    <3> HIDE DEF S
    <3> QED BY <1>5, <1>7
  <2>2. g.mapAddr = [x \in DOMAIN g.mapAddr |-> g.mapAddr[x]]
    BY <1>3
  <2>3. \A x \in DOMAIN g.mapAddr : g.mapAddr[x] \in Nat
    <3> HIDE DEF S
    <3>1. \A id \in 0 .. t - 1 : id \in Nat
      BY <1>1
    <3> QED BY <1>7, <1>8, <3>1
  <2> QED BY <2>1, <2>2, <2>3, AddrMapsDef
<1>10. g.mapInfo = [id \in 0 .. t - 1 |-> g.mapInfo[id]]
  BY <1>3
<1>11. ReadBack(am, g)
  BY <1>3, <1>6, <1>7, <1>8, <1>9, <1>10 DEF ReadBack, t, n
<1> QED BY <1>3, <1>11 DEF g, new

\* No more addresses than services are known.
LEMMA FewEntries ==
    ASSUME NEW am, Sound(am)
    PROVE  Total(am) <= Cardinality(Services)
<1> DEFINE t == Total(am)
           f == [id \in 0 .. t - 1 |-> am.mapInfo[Old(am, id)].s]
<1>1. t \in Nat
  BY ListedFacts
<1>2. Addresses(am)
  BY DEF Sound, Coherent, Base
<1> HIDE DEF t
<1>3. f \in [0 .. t - 1 -> Services]
  BY OldFacts DEF t
<1>4. ASSUME NEW x \in 0 .. t - 1, NEW y \in 0 .. t - 1, f[x] = f[y] PROVE x = y
  <2>1. Old(am, x) \in DOMAIN am.mapInfo /\ Old(am, y) \in DOMAIN am.mapInfo
    BY OldFacts DEF t
  <2>2. am.mapInfo[Old(am, x)].s = am.mapInfo[Old(am, y)].s
    BY <1>4
  <2>3. Old(am, x) = Old(am, y)
    BY <1>2, <2>1, <2>2 DEF Addresses
  <2> QED BY <2>3, OldFacts DEF t
<1> HIDE DEF f
<1>5. f \in Injection(0 .. t - 1, Services)
  BY <1>3, <1>4 DEF Injection, IsInjective
<1>6. Cardinality(0 .. t - 1) <= Cardinality(Services)
  BY <1>5, AddrManAssumption, FS_Injection
<1>7. Cardinality(0 .. t - 1) = t
  BY <1>1, FS_Interval
<1> QED BY <1>6, <1>7 DEF t

\* With the positions of the file, a slot gets the entry it had.
LEMMA SlotReadBack ==
    ASSUME NEW am, Sound(am), NEW f, File(am, f), NEW slot \in NewSlots, NewOf(f, TRUE)[slot] # -1
    PROVE  am.vvNew[slot] = Old(am, NewOf(f, TRUE)[slot])
<1> DEFINE same == TRUE
           id == NewOf(f, same)[slot]
           x == Old(am, id)
<1>1. NewTable(am) /\ same \in BOOLEAN
  BY DEF Sound, Coherent, Base
<1> HIDE DEF same
<1>2. /\ id \in Nat /\ id < NewNum(am) /\ Wants(f, same, id + 1, slot[1])
      /\ NewSlot(am, am.mapInfo[x].s, slot[1]) = slot
  <2>1. NewOf(f, same)[slot] # -1
    BY DEF same
  <2> QED BY <1>1, <2>1, NewOfFacts
<1> HIDE DEF id, x
<1>3. id + 1 \in f.buckets[slot[1]] /\ slot[1] \in NewBuckets
  BY <1>2 DEF Wants, NewSlots, same
<1>4. PICK p \in Positions : /\ am.vvNew[<<slot[1], p>>] # -1
                             /\ id + 1 = Rank(Referenced(am), am.vvNew[<<slot[1], p>>])
  BY <1>3 DEF File
<1> DEFINE z == <<slot[1], p>>
           y == am.vvNew[z]
<1>5. z \in NewSlots /\ z[1] = slot[1]
  BY <1>3 DEF NewSlots
<1>6. y \in DOMAIN am.mapInfo /\ ~am.mapInfo[y].fInTried /\ NewSlot(am, am.mapInfo[y].s, z[1]) = z
  BY <1>1, <1>4, <1>5 DEF NewTable
<1> HIDE DEF z, y
<1>7. y \in Untried(am)
  BY <1>6 DEF Untried, Tried
<1>8. Sorted(Referenced(am))[Rank(Referenced(am), y)] = y /\ Rank(Referenced(am), y) = id + 1
  BY <1>4, <1>7, ListedFacts DEF y, z
<1>9. id + 1 \in 1 .. NewNum(am)
  BY <1>7, <1>8, ListedFacts
<1>10. Listed(am)[id + 1] = Sorted(Referenced(am))[id + 1]
  BY <1>9, ListedFacts
<1>11. y = x
  BY <1>8, <1>10 DEF x, Old
<1>12. z = slot
  BY <1>2, <1>5, <1>6, <1>11
<1>13. am.vvNew[slot] = x
  BY <1>11, <1>12 DEF y
<1> QED BY <1>13 DEF x, id, same

\* Nor has an entry more references than it had.
LEMMA FewReferences ==
    ASSUME NEW am, Sound(am), NEW f, File(am, f), NEW same \in BOOLEAN,
           NEW g, g.vvNew = NewOf(f, same), NEW id \in 0 .. Total(am) - 1
    PROVE  Cardinality(Refs(g, id)) <= ADDRMAN_NEW_BUCKETS_PER_ADDRESS
<1> DEFINE x == Old(am, id)
<1>1. am \in Managers /\ NewTable(am) /\ Limited(am)
  BY DEF Sound, Coherent, Base
<1>2. x \in DOMAIN am.mapInfo /\ id \in Nat /\ id # -1
  BY OldFacts
<1>3. \A slot \in Refs(g, id) :
         /\ slot \in NewSlots /\ id < NewNum(am) /\ Wants(f, same, id + 1, slot[1])
         /\ NewSlot(am, am.mapInfo[x].s, slot[1]) = slot
  <2>1. \A slot \in Refs(g, id) : slot \in NewSlots /\ NewOf(f, same)[slot] = id
    BY DEF Refs
  <2> HIDE DEF x
  <2> QED BY <1>2, <2>1, NewOfFacts DEF x
<1>4. ADDRMAN_NEW_BUCKETS_PER_ADDRESS \in Nat /\ 1 <= ADDRMAN_NEW_BUCKETS_PER_ADDRESS
  BY AddrManAssumption
<1> HIDE DEF x
<1>5. CASE same
  <2>1. \A slot \in Refs(g, id) : slot \in Refs(am, x)
    <3> TAKE slot \in Refs(g, id)
    <3>1. slot \in NewSlots /\ NewOf(f, TRUE)[slot] = id
      BY <1>5 DEF Refs
    <3>2. am.vvNew[slot] = x
      BY <1>2, <3>1, SlotReadBack DEF x
    <3> QED BY <3>1, <3>2 DEF Refs
  <2>2. Refs(g, id) \in SUBSET Refs(am, x)
    BY <2>1
  <2>3. Cardinality(Refs(g, id)) <= Cardinality(Refs(am, x))
    BY <2>2, SlotsFinite, FS_Subset
  <2>4. Cardinality(Refs(am, x)) <= ADDRMAN_NEW_BUCKETS_PER_ADDRESS
    BY <1>1, <1>2 DEF NewTable, Limited
  <2> QED BY <1>4, <2>3, <2>4, SlotsFinite
<1>6. CASE ~same
  <2> DEFINE b == GetNewBucket[f.nKey, f.new[id + 1].s, f.new[id + 1].source]
             z == NewSlot(am, am.mapInfo[x].s, b)
  <2>1. \A slot \in Refs(g, id) : slot[1] = b
    <3> TAKE slot \in Refs(g, id)
    <3>1. Wants(f, same, id + 1, slot[1])
      BY <1>3
    <3> QED BY <1>6, <3>1 DEF Wants
  <2> HIDE DEF b
  <2>2. \A slot \in Refs(g, id) : slot = z
    BY <1>3, <2>1
  <2> HIDE DEF z
  <2>3. Refs(g, id) \in SUBSET {z}
    BY <2>2
  <2>4. Cardinality(Refs(g, id)) <= Cardinality({z}) /\ Cardinality({z}) = 1
    BY <2>3, FS_Singleton, FS_Subset
  <2> QED BY <1>4, <2>4, SlotsFinite
<1> QED BY <1>5, <1>6

LEMMA LoadedSound ==
    ASSUME NEW am, Sound(am), NEW f, File(am, f), NEW same \in BOOLEAN
    PROVE  Coherent(Loaded(f, same)) /\ Limited(Loaded(f, same))
<1> DEFINE g == Loaded(f, same)
           t == Total(am)
           n == NewNum(am)
           k == TriedNum(am)
<1>1. n \in Nat /\ k \in Nat /\ t \in Nat /\ t = n + k
  BY ListedFacts DEF Total
<1>2. ReadBack(am, g) /\ g.vvNew = NewOf(f, same) /\ g.vvTried = TriedOf(f)
  BY LoadedFields
<1> HIDE DEF g
<1>3. /\ DOMAIN g = {"nKey", "nIdCount", "mapInfo", "mapAddr", "vRandom",
                     "vvNew", "nNew", "vvTried", "nTried"}
      /\ g = [x \in DOMAIN g |-> g[x]]
      /\ g.nKey = am.nKey /\ g.nIdCount = t /\ g.nNew = n /\ g.nTried = k
      /\ g.vRandom = [i \in 1 .. t |-> i - 1]
      /\ g.mapInfo = [id \in 0 .. t - 1 |-> g.mapInfo[id]]
      /\ \A id \in 0 .. t - 1 :
            /\ g.mapInfo[id] \in Info
            /\ g.mapInfo[id].s = am.mapInfo[Old(am, id)].s
            /\ g.mapInfo[id].nRefCount = Cardinality(Refs(g, id))
            /\ g.mapInfo[id].fInTried = (id >= n) /\ g.mapInfo[id].nRandomPos = id + 1
  BY <1>2 DEF ReadBack
<1>4. /\ g.mapAddr \in AddrMaps
      /\ DOMAIN g.mapAddr = {Net[am.mapInfo[Old(am, id)].s] : id \in 0 .. t - 1}
      /\ \A id \in 0 .. t - 1 : g.mapAddr[Net[am.mapInfo[Old(am, id)].s]] = id
  BY <1>2 DEF ReadBack
<1> HIDE DEF t, n, k
<1>5. DOMAIN g.mapInfo = 0 .. t - 1 /\ \A id \in 0 .. t - 1 : id \in Nat /\ id # -1
  <2>1. DOMAIN g.mapInfo = 0 .. t - 1
    BY <1>3
  <2> QED BY <1>1, <2>1
<1>6. g.vRandom \in Seq(Nat) /\ Len(g.vRandom) = t
  <2>1. g.vRandom \in [1 .. t -> Nat]
    BY <1>1, <1>3
  <2> QED BY <1>1, <2>1
<1>7. g \in Managers
  <2>1. g.mapInfo \in InfoMaps
    <3>1. DOMAIN g.mapInfo \subseteq Nat
      BY <1>5
    <3>2. \A x \in DOMAIN g.mapInfo : g.mapInfo[x] \in Info
      BY <1>3, <1>5
    <3>3. g.mapInfo = [x \in DOMAIN g.mapInfo |-> g.mapInfo[x]]
      BY <1>3
    <3> QED BY <3>1, <3>2, <3>3, InfoMapsDef
  <2>2. g.vvNew \in [NewSlots -> Int] /\ g.vvTried \in [TriedSlots -> Int]
    BY <1>2, NewOfFacts, TriedOfFacts
  <2>3. g.nKey \in Keys /\ g.nIdCount \in Nat /\ g.nNew \in Int /\ g.nTried \in Int
    <3>1. am.nKey \in Keys
      BY ManagerType DEF Sound, Coherent, Base
    <3> QED BY <1>1, <1>3, <3>1
  <2>4. DOMAIN g = {"nKey", "nIdCount", "mapInfo", "mapAddr", "vRandom",
                     "vvNew", "nNew", "vvTried", "nTried"} /\ g = [x \in DOMAIN g |-> g[x]]
    BY <1>3
  <2> QED BY <1>4, <1>6, <2>1, <2>2, <2>3, <2>4, Assembled
<1>8. Random(g)
  <2>1. ASSUME NEW id \in 0 .. t - 1
        PROVE  /\ id < g.nIdCount /\ g.mapInfo[id].nRandomPos \in 1 .. Len(g.vRandom)
               /\ g.vRandom[g.mapInfo[id].nRandomPos] = id
    <3>1. id < t /\ id + 1 \in 1 .. t /\ id + 1 - 1 = id
      BY <1>1
    <3>2. g.vRandom[id + 1] = id + 1 - 1
      BY <1>3, <3>1
    <3>3. g.mapInfo[id].nRandomPos = id + 1
      BY <1>3
    <3> QED BY <1>3, <1>6, <3>1, <3>2, <3>3
  <2>2. ASSUME NEW i \in 1 .. t
        PROVE  g.vRandom[i] \in 0 .. t - 1 /\ g.mapInfo[g.vRandom[i]].nRandomPos = i
    <3>1. i - 1 \in 0 .. t - 1 /\ i - 1 + 1 = i
      BY <1>1
    <3>2. g.vRandom[i] = i - 1
      BY <1>3
    <3>3. g.mapInfo[i - 1].nRandomPos = i - 1 + 1
      BY <1>3, <3>1
    <3> QED BY <3>1, <3>2, <3>3
  <2> QED BY <1>5, <1>6, <2>1, <2>2 DEF Random
<1>9. Addresses(g)
  BY <1>3, <1>4, <1>5, SMTT(30) DEF Addresses
<1>10. NewTable(g)
  <2>1. ASSUME NEW slot \in NewSlots, g.vvNew[slot] # -1
        PROVE  /\ g.vvNew[slot] \in DOMAIN g.mapInfo /\ ~g.mapInfo[g.vvNew[slot]].fInTried
               /\ NewSlot(g, g.mapInfo[g.vvNew[slot]].s, slot[1]) = slot
    <3> DEFINE id == g.vvNew[slot]
    <3>1. /\ id \in Nat /\ id < n
          /\ NewSlot(am, am.mapInfo[Old(am, id)].s, slot[1]) = slot
      BY <1>2, <2>1, NewOfFacts DEF n
    <3> HIDE DEF id
    <3>2. id \in 0 .. t - 1 /\ ~(id >= n)
      BY <1>1, <3>1
    <3>3. NewSlot(g, am.mapInfo[Old(am, id)].s, slot[1]) = NewSlot(am, am.mapInfo[Old(am, id)].s, slot[1])
      BY <1>3, SameSlots
    <3>4. id \in DOMAIN g.mapInfo /\ ~g.mapInfo[id].fInTried /\ NewSlot(g, g.mapInfo[id].s, slot[1]) = slot
      BY <1>3, <1>5, <3>1, <3>2, <3>3
    <3> QED BY <3>4 DEF id
  <2>2. \A id \in DOMAIN g.mapInfo : g.mapInfo[id].nRefCount = Cardinality(Refs(g, id))
    BY <1>3, <1>5
  <2> QED BY <2>1, <2>2 DEF NewTable
<1>11. TriedTable(g)
  <2>1. \A s : TriedSlot(g, s) = TriedSlot(am, s)
    <3>1. g.nKey = am.nKey
      BY <1>3
    <3> QED BY <3>1, SameSlots
  <2>2. ASSUME NEW slot \in TriedSlots, g.vvTried[slot] # -1
        PROVE  /\ g.vvTried[slot] \in DOMAIN g.mapInfo /\ g.mapInfo[g.vvTried[slot]].fInTried
               /\ TriedSlot(g, g.mapInfo[g.vvTried[slot]].s) = slot
    <3> DEFINE id == g.vvTried[slot]
    <3>1. id \in n .. t - 1 /\ TriedSlot(am, am.mapInfo[Old(am, id)].s) = slot
      BY <1>2, <2>2, TriedOfFacts DEF n, t
    <3> HIDE DEF id
    <3>2. id \in 0 .. t - 1 /\ id >= n
      BY <1>1, <3>1
    <3>3. id \in DOMAIN g.mapInfo /\ g.mapInfo[id].fInTried /\ TriedSlot(g, g.mapInfo[id].s) = slot
      BY <1>3, <1>5, <2>1, <3>1, <3>2
    <3> QED BY <3>3 DEF id
  <2>3. ASSUME NEW id \in DOMAIN g.mapInfo, g.mapInfo[id].fInTried
        PROVE  g.vvTried[TriedSlot(g, g.mapInfo[id].s)] = id
    <3>1. id \in 0 .. t - 1 /\ id >= n
      BY <1>3, <1>5, <2>3
    <3>2. id \in n .. t - 1
      BY <1>1, <3>1
    <3>3. g.vvTried[TriedSlot(am, am.mapInfo[Old(am, id)].s)] = id
      BY <1>2, <3>2, TriedOfFacts DEF n, t
    <3> QED BY <1>3, <2>1, <3>1, <3>3
  <2> QED BY <2>2, <2>3 DEF TriedTable
<1>12. Counters(g)
  <2>1. Tried(g) = n .. t - 1
    <3>1. \A id : id \in n .. t - 1 <=> id \in 0 .. t - 1 /\ id >= n
      BY <1>1
    <3>2. \A id \in 0 .. t - 1 : g.mapInfo[id].fInTried <=> id >= n
      BY <1>3
    <3> QED BY <1>5, <3>1, <3>2 DEF Tried
  <2>2. Untried(g) = 0 .. n - 1
    <3>1. (0 .. t - 1) \ (n .. t - 1) = 0 .. n - 1
      BY <1>1
    <3> QED BY <1>5, <2>1, <3>1 DEF Untried
  <2>3. Cardinality(0 .. n - 1) = n
    BY <1>1, FS_Interval
  <2>4. Cardinality(n .. t - 1) = k
    BY <1>1, FS_Interval
  <2> QED BY <1>1, <1>3, <1>6, <2>1, <2>2, <2>3, <2>4 DEF Counters
<1>13. Limited(g)
  <2>1. t <= MaxIds + Cardinality(Services)
    <3>1. t <= Cardinality(Services)
      BY FewEntries DEF t
    <3>2. MaxIds \in Nat /\ Cardinality(Services) \in Nat
      BY AddrManAssumption, FS_CardinalityType
    <3> QED BY <1>1, <3>1, <3>2
  <2>2. \A id \in 0 .. t - 1 : g.mapInfo[id].nRefCount <= ADDRMAN_NEW_BUCKETS_PER_ADDRESS
    BY <1>2, <1>3, FewReferences DEF t
  <2> QED BY <1>3, <1>5, <2>1, <2>2 DEF Limited
<1> QED BY <1>7, <1>8, <1>9, <1>10, <1>11, <1>12, <1>13 DEF Coherent, Base, g

-----------------------------------------------------------------------------
(* Pruning *)

\* The states between the deletions.
Deletes(f, n, am, q) ==
    /\ f = [i \in 0 .. n |-> f[i]] /\ f[0] = am
    /\ \A i \in 1 .. n : f[i] = Delete(f[i - 1], q[i])

LEMMA DeletesExist ==
    ASSUME NEW n \in Nat, NEW am, NEW q
    PROVE  \E f : Deletes(f, n, am, q)
<1> DEFINE S == {h \in 0 .. n : \E f : Deletes(f, h, am, q)}
<1>1. 0 \in S
  <2> DEFINE f == [i \in 0 .. 0 |-> am]
  <2>1. f = [i \in 0 .. 0 |-> f[i]] /\ f[0] = am /\ 1 .. 0 = {}
    OBVIOUS
  <2> HIDE DEF f
  <2>2. Deletes(f, 0, am, q)
    BY <2>1 DEF Deletes
  <2> QED BY <2>2
<1>2. ASSUME NEW h \in 0 .. n, h \in S, h < n PROVE h + 1 \in S
  <2>1. PICK f : Deletes(f, h, am, q)
    BY <1>2
  <2> DEFINE e == [i \in 0 .. h + 1 |-> IF i = h + 1 THEN Delete(f[h], q[h + 1]) ELSE f[i]]
  <2>2. h \in Nat /\ h + 1 \in 0 .. n
    BY <1>2
  <2>3. e[0] = am
    <3>1. 0 \in 0 .. h + 1 /\ 0 # h + 1
      BY <2>2
    <3> QED BY <2>1, <3>1 DEF Deletes
  <2>4. ASSUME NEW i \in 1 .. h + 1 PROVE e[i] = Delete(e[i - 1], q[i])
    <3>1. i \in 0 .. h + 1 /\ i - 1 \in 0 .. h + 1 /\ i - 1 # h + 1
      BY <2>2
    <3>2. e[i - 1] = f[i - 1]
      BY <3>1
    <3>3. CASE i = h + 1
      <4>1. i - 1 = h
        BY <2>2, <3>3
      <4> QED BY <3>1, <3>2, <3>3, <4>1
    <3>4. CASE i # h + 1
      <4>1. i \in 1 .. h
        BY <2>2, <3>4
      <4>2. e[i] = f[i]
        BY <3>1, <3>4
      <4>3. f[i] = Delete(f[i - 1], q[i])
        BY <2>1, <4>1 DEF Deletes
      <4> HIDE DEF e
      <4> QED BY <3>2, <4>2, <4>3
    <3> QED BY <3>3, <3>4
  <2>5. e = [i \in 0 .. h + 1 |-> e[i]]
    OBVIOUS
  <2> HIDE DEF e
  <2>6. Deletes(e, h + 1, am, q)
    BY <2>3, <2>4, <2>5 DEF Deletes
  <2> QED BY <2>2, <2>6
<1> HIDE DEF S
<1>3. n \in S
  BY <1>1, <1>2, Upwards
<1> QED BY <1>3 DEF S

LEMMA PrunedRun ==
    ASSUME NEW am, NEW q, Len(q) \in Nat
    PROVE  \E f : Deletes(f, Len(q), am, q) /\ Pruned(am, q) = f[Len(q)]
<1> DEFINE n == Len(q)
           Body(f, i) == IF i = 0 THEN am ELSE Delete(f[i - 1], q[i])
           F == CHOOSE f : f = [i \in 0 .. n |-> Body(f, i)]
<1>1. Pruned(am, q) = F[n]
  BY DEF Pruned
<1> HIDE DEF n
<1>2. n \in Nat
  BY DEF n
<1>3. \E f : f = [i \in 0 .. n |-> Body(f, i)]
  <2>1. PICK f : Deletes(f, n, am, q)
    BY <1>2, DeletesExist
  <2>2. \A i \in 0 .. n : f[i] = Body(f, i)
    <3>1. \A i \in 0 .. n : i = 0 \/ i \in 1 .. n
      BY <1>2
    <3> QED BY <2>1, <3>1 DEF Deletes
  <2>3. f = [i \in 0 .. n |-> f[i]]
    BY <2>1 DEF Deletes
  <2> HIDE DEF Body
  <2> QED BY <2>2, <2>3
<1>4. F = [i \in 0 .. n |-> Body(F, i)]
  <2> HIDE DEF Body
  <2> QED BY <1>3
<1> HIDE DEF F
<1>5. Deletes(F, n, am, q)
  <2>1. \A i \in 0 .. n : F[i] = Body(F, i)
    <3> HIDE DEF Body
    <3> QED BY <1>4
  <2>2. 0 \in 0 .. n /\ \A i \in 1 .. n : i \in 0 .. n /\ i # 0
    BY <1>2
  <2>3. F = [i \in 0 .. n |-> F[i]]
    <3> HIDE DEF Body
    <3> QED BY <1>4
  <2> QED BY <2>1, <2>2, <2>3 DEF Deletes
<1> QED BY <1>1, <1>5 DEF n

\* x is a after the first i of the lost entries, in the order q, are deleted.
Stage(a, q, i, x) ==
    /\ Coherent(x) /\ Limited(x)
    /\ DOMAIN x.mapInfo = DOMAIN a.mapInfo \ {q[j] : j \in 1 .. i}
    /\ \A y \in DOMAIN x.mapInfo : SameEntry(x.mapInfo[y], a.mapInfo[y])

LEMMA PrunedSound ==
    ASSUME NEW a, Coherent(a), Limited(a)
    PROVE  Sound(Pruned(a, Sorted(Lost(a))))
<1> DEFINE q == Sorted(Lost(a))
           n == Cardinality(Lost(a))
<1>1. a \in Managers /\ Random(a) /\ NewTable(a)
  BY DEF Coherent, Base
<1>2. Lost(a) \in SUBSET Nat /\ IsFiniteSet(Lost(a)) /\ n \in Nat
  <2>1. Lost(a) \in SUBSET DOMAIN a.mapInfo
    BY DEF Lost
  <2>2. DOMAIN a.mapInfo \subseteq Nat /\ IsFiniteSet(DOMAIN a.mapInfo)
    BY <1>1, ManagerType, IdsFinite
  <2>3. IsFiniteSet(Lost(a))
    BY <2>1, <2>2, FS_Subset
  <2> QED BY <2>1, <2>2, <2>3, FS_CardinalityType
<1>3. Pairs(q, 1 .. n, Lost(a)) /\ Len(q) = n
  BY <1>2, SortedFacts
<1> HIDE DEF q, n
<1>4. /\ q \in [1 .. n -> Lost(a)]
      /\ \A i, j \in 1 .. n : q[i] = q[j] => i = j
      /\ \A y \in Lost(a) : \E i \in 1 .. n : q[i] = y
  BY <1>3 DEF Pairs
<1>5. PICK f : Deletes(f, n, a, q) /\ Pruned(a, q) = f[n]
  BY <1>2, <1>3, PrunedRun
<1> DEFINE S == {i \in 0 .. n : Stage(a, q, i, f[i])}
<1>6. 0 \in S
  <2>1. f[0] = a /\ 0 \in 0 .. n /\ 1 .. 0 = {}
    BY <1>2, <1>5 DEF Deletes
  <2>2. Stage(a, q, 0, a)
    BY <2>1 DEF Stage, SameEntry
  <2> QED BY <2>1, <2>2
<1>7. ASSUME NEW i \in 0 .. n, i \in S, i < n PROVE i + 1 \in S
  <2> DEFINE x == f[i]
             y == q[i + 1]
             z == f[i + 1]
  <2>1. i + 1 \in 1 .. n /\ i + 1 \in 0 .. n /\ i + 1 - 1 = i
    BY <1>2, <1>7
  <2>2. z = Delete(x, y)
    BY <1>5, <2>1, SMTT(30) DEF Deletes
  <2>3. y \in Lost(a)
    BY <1>4, <2>1
  <2>4. Stage(a, q, i, x)
    BY <1>7
  <2>5. \A j \in 1 .. i : j \in 1 .. n /\ j # i + 1
    BY <1>2, <2>1
  <2>6. y \notin {q[j] : j \in 1 .. i}
    BY <1>4, <2>1, <2>5
  <2> HIDE DEF x, y, z
  <2>7. y \in DOMAIN x.mapInfo /\ ~x.mapInfo[y].fInTried /\ x.mapInfo[y].nRefCount = 0
    BY <2>3, <2>4, <2>6 DEF Stage, Lost, SameEntry
  <2>8. Coherent(z) /\ Limited(z) /\ Dropped(x, z, y)
    BY <2>2, <2>4, <2>7, DeleteCoherent DEF Stage
  <2>9. {q[j] : j \in 1 .. i + 1} = {q[j] : j \in 1 .. i} \cup {y}
    <3>1. 1 .. i + 1 = (1 .. i) \cup {i + 1}
      BY <2>1
    <3> QED BY <3>1 DEF y
  <2>10. DOMAIN z.mapInfo = DOMAIN a.mapInfo \ {q[j] : j \in 1 .. i + 1}
    <3>1. DOMAIN z.mapInfo = DOMAIN x.mapInfo \ {y}
      BY <2>8 DEF Dropped
    <3>2. DOMAIN x.mapInfo = DOMAIN a.mapInfo \ {q[j] : j \in 1 .. i}
      BY <2>4 DEF Stage
    <3> QED BY <2>9, <3>1, <3>2
  <2>11. \A v \in DOMAIN z.mapInfo : SameEntry(z.mapInfo[v], a.mapInfo[v])
    BY <2>4, <2>8 DEF Stage, Dropped, SameEntry
  <2>12. Stage(a, q, i + 1, z)
    BY <2>8, <2>10, <2>11 DEF Stage
  <2> QED BY <2>1, <2>12 DEF z
<1> HIDE DEF S
<1>8. n \in S
  BY <1>2, <1>6, <1>7, Upwards
<1> DEFINE b == f[n]
<1>9. Stage(a, q, n, b)
  BY <1>8 DEF S
<1> HIDE DEF b
<1>10. {q[j] : j \in 1 .. n} = Lost(a)
  BY <1>4
<1>11. Coherent(b) /\ Limited(b) /\ DOMAIN b.mapInfo = DOMAIN a.mapInfo \ Lost(a)
       /\ \A y \in DOMAIN b.mapInfo : SameEntry(b.mapInfo[y], a.mapInfo[y])
  BY <1>9, <1>10 DEF Stage
<1>12. InTable(b)
  <2>1. \A y \in DOMAIN a.mapInfo : a.mapInfo[y].nRefCount \in Nat
    BY <1>1, SlotsFinite DEF NewTable
  <2>2. \A y \in DOMAIN b.mapInfo : y \in DOMAIN a.mapInfo /\ (a.mapInfo[y].fInTried \/ a.mapInfo[y].nRefCount > 0)
    BY <1>11, <2>1 DEF Lost
  <2> QED BY <1>11, <2>2 DEF InTable, SameEntry
<1>13. Sound(b)
  BY <1>11, <1>12 DEF Sound
<1> QED BY <1>5, <1>13 DEF b, q

LEMMA UnserializeSound ==
    ASSUME NEW am, Sound(am), NEW same \in BOOLEAN
    PROVE  Sound(Unserialize(Serialize(am), same))
<1> DEFINE f == Serialize(am)
           g == Loaded(f, same)
<1>1. File(am, f)
  BY SerializeFacts
<1>2. Unserialize(f, same) = IF Lost(g) = {} THEN g ELSE Pruned(g, Sorted(Lost(g)))
  BY DEF Unserialize
<1> HIDE DEF f
<1>3. Coherent(g) /\ Limited(g)
  BY <1>1, LoadedSound
<1> HIDE DEF g
<1>4. CASE Lost(g) = {}
  <2>1. \A y \in DOMAIN g.mapInfo : g.mapInfo[y].nRefCount \in Nat
    BY <1>3, SlotsFinite DEF NewTable, Coherent, Base
  <2>2. InTable(g)
    BY <1>4, <2>1 DEF InTable, Lost
  <2> QED BY <1>2, <1>3, <1>4, <2>2 DEF Sound, f
<1>5. CASE Lost(g) # {}
  BY <1>2, <1>3, <1>5, PrunedSound DEF f
<1> QED BY <1>4, <1>5

-----------------------------------------------------------------------------
(* The invariant *)

LEMMA InitInv == Init => IndInv
<1> SUFFICES ASSUME Init PROVE IndInv
  OBVIOUS
<1>1. PICK key \in Keys : m = Cleared(key)
  BY DEF Init
<1> QED BY <1>1, ClearedSound DEF IndInv

LEMMA RestartInv ==
    ASSUME IndInv, Restart
    PROVE  IndInv'
<1>1. PICK same \in BOOLEAN : m' = Unserialize(Serialize(m), same)
  BY DEF Restart
<1>2. Sound(m')
  BY <1>1, UnserializeSound DEF IndInv
<1> QED BY <1>2 DEF IndInv

LEMMA RestartEmptyInv ==
    ASSUME RestartEmpty
    PROVE  IndInv'
<1>1. PICK key \in Keys : m' = Cleared(key)
  BY DEF RestartEmpty
<1>2. Sound(m')
  BY <1>1, ClearedSound
<1> QED BY <1>2 DEF IndInv

\* Every operation keeps the invariant, and those that are not a restart
\* forget no peer that was tried.
LEMMA NextInv ==
    ASSUME IndInv, [Next]_m
    PROVE  IndInv' /\ (~Restart /\ ~RestartEmpty => Remembers(m, m'))
<1>1. ASSUME NEW s \in Services, Good(s) PROVE IndInv' /\ Remembers(m, m')
  BY <1>1, GoodInv
<1>2. ASSUME NEW s \in Services, NEW source \in Sources, NEW t \in BOOLEAN, Add(s, source, t)
      PROVE  IndInv' /\ Remembers(m, m')
  BY <1>2, AddInv
<1>3. ASSUME NEW i \in DOMAIN m.vRandom, NEW j \in DOMAIN m.vRandom, GetAddr(i, j)
      PROVE  IndInv' /\ Remembers(m, m')
  BY <1>3, GetAddrInv
<1>4. CASE Restart
  BY <1>4, RestartInv
<1>5. CASE RestartEmpty
  BY <1>5, RestartEmptyInv
<1>6. CASE UNCHANGED m
  <2>1. Remembers(m, m)
    BY DEF Remembers, Filled, Tried
  <2> QED BY <1>6, <2>1 DEF IndInv
<1> QED BY <1>1, <1>2, <1>3, <1>4, <1>5, <1>6 DEF Next

\* The members of CAddrMan agree between any two operations.
THEOREM IndInvariant == Spec => []IndInv
<1>1. IndInv /\ [Next]_m => IndInv'
  BY NextInv
<1> QED BY <1>1, InitInv, PTL DEF Spec

-----------------------------------------------------------------------------
(* What the invariant gives *)

LEMMA InvCheck == IndInv => CheckPasses
<1> SUFFICES ASSUME IndInv PROVE CheckPasses
  OBVIOUS
<1>1. /\ m \in Managers /\ Random(m) /\ Addresses(m) /\ NewTable(m) /\ TriedTable(m)
      /\ Counters(m) /\ Limited(m) /\ InTable(m)
  BY DEF IndInv, Sound, Coherent, Base
<1>2. /\ m.nKey \in Keys /\ m.nIdCount \in Nat /\ DOMAIN m.mapInfo \subseteq Nat
      /\ DOMAIN m.vvNew = NewSlots /\ DOMAIN m.vvTried = TriedSlots
      /\ DOMAIN m.vRandom = 1 .. Len(m.vRandom)
      /\ \A id \in DOMAIN m.mapInfo : m.mapInfo[id].fInTried \in BOOLEAN
  BY <1>1, ManagerType
<1>3. \A id \in DOMAIN m.mapInfo : m.mapInfo[id].nRefCount \in 0 .. ADDRMAN_NEW_BUCKETS_PER_ADDRESS
  <2>1. \A id \in DOMAIN m.mapInfo : m.mapInfo[id].nRefCount \in Nat
    BY <1>1, SlotsFinite DEF NewTable
  <2> QED BY <1>1, <2>1, AddrManAssumption DEF Limited
<1>4. m.nNew \in Nat /\ m.nTried \in Nat
  BY <1>1, IdsFinite DEF Counters
<1>5. TypeOK
  <2>1. m.nIdCount \in 0 .. MaxIds + Cardinality(Services)
    <3>1. MaxIds \in Nat /\ Cardinality(Services) \in Nat
      BY AddrManAssumption, FS_CardinalityType
    <3> QED BY <1>1, <1>2, <3>1 DEF Limited
  <2>2. DOMAIN m.mapInfo \subseteq 0 .. m.nIdCount - 1
    BY <1>1, <1>2 DEF Random
  <2> QED BY <1>2, <1>3, <1>4, <2>1, <2>2 DEF TypeOK
<1>6. {id \in DOMAIN m.mapInfo : m.mapInfo[id].fInTried} = Tried(m)
      /\ {id \in DOMAIN m.mapInfo : ~m.mapInfo[id].fInTried} = Untried(m)
  BY DEF Tried, Untried
<1>7. ASSUME NEW id \in DOMAIN m.mapInfo
      PROVE  LET info == m.mapInfo[id]
                 refs == {slot \in DOMAIN m.vvNew : m.vvNew[slot] = id}
                 tried == {slot \in DOMAIN m.vvTried : m.vvTried[slot] = id}
             IN  /\ info.nRefCount = Cardinality(refs)
                 /\ IF info.fInTried THEN refs = {} /\ tried = {TriedSlot(m, info.s)}
                                     ELSE refs # {} /\ tried = {}
                 /\ \A slot \in refs : slot = NewSlot(m, info.s, slot[1])
                 /\ Net[info.s] \in DOMAIN m.mapAddr /\ m.mapAddr[Net[info.s]] = id
                 /\ info.nRandomPos \in DOMAIN m.vRandom /\ m.vRandom[info.nRandomPos] = id
  <2> DEFINE info == m.mapInfo[id]
             refs == {slot \in DOMAIN m.vvNew : m.vvNew[slot] = id}
             tried == {slot \in DOMAIN m.vvTried : m.vvTried[slot] = id}
  <2>1. refs = Refs(m, id)
    BY <1>2 DEF Refs
  <2>2. id # -1 /\ info.s \in Services
    <3>1. id \in Nat
      BY <1>2
    <3>2. id # -1
      BY <3>1
    <3>3. info.s \in Services
      BY <1>1, ManagerType
    <3> QED BY <3>2, <3>3
  <2>3. info.nRefCount = Cardinality(refs)
    BY <1>1, <2>1 DEF NewTable
  <2>4. \A slot \in refs : slot = NewSlot(m, info.s, slot[1]) /\ ~info.fInTried
    BY <1>1, <1>2, <2>2 DEF NewTable
  <2>5. Net[info.s] \in DOMAIN m.mapAddr /\ m.mapAddr[Net[info.s]] = id
    BY <1>1 DEF Addresses
  <2>6. info.nRandomPos \in DOMAIN m.vRandom /\ m.vRandom[info.nRandomPos] = id
    BY <1>1, <1>2 DEF Random
  <2>7. \A slot \in tried : info.fInTried /\ slot = TriedSlot(m, info.s)
    BY <1>1, <1>2, <2>2 DEF TriedTable
  <2>8. CASE info.fInTried
    <3>1. refs = {}
      <4> HIDE DEF refs, info
      <4> QED BY <2>4, <2>8
    <3>2. TriedSlot(m, info.s) \in tried
      <4>1. TriedSlot(m, info.s) \in TriedSlots
        BY <1>1, <2>2, SlotTypes
      <4> QED BY <1>1, <1>2, <2>8, <4>1 DEF TriedTable
    <3>3. tried = {TriedSlot(m, info.s)}
      <4> HIDE DEF tried, info
      <4> QED BY <2>7, <3>2
    <3> HIDE DEF tried, refs, info
    <3>4. /\ info.nRefCount = Cardinality(refs)
          /\ IF info.fInTried THEN refs = {} /\ tried = {TriedSlot(m, info.s)} ELSE refs # {} /\ tried = {}
          /\ \A slot \in refs : slot = NewSlot(m, info.s, slot[1])
          /\ Net[info.s] \in DOMAIN m.mapAddr /\ m.mapAddr[Net[info.s]] = id
          /\ info.nRandomPos \in DOMAIN m.vRandom /\ m.vRandom[info.nRandomPos] = id
      BY <2>3, <2>4, <2>5, <2>6, <2>8, <3>1, <3>3
    <3> QED BY <3>4 DEF tried, refs, info
  <2>9. CASE ~info.fInTried
    <3>1. refs # {}
      <4>1. info.nRefCount > 0
        BY <1>1, <2>9 DEF InTable
      <4> HIDE DEF refs, info
      <4> QED BY <2>3, <4>1, FS_EmptySet
    <3>2. tried = {}
      <4> HIDE DEF tried, info
      <4> QED BY <2>7, <2>9
    <3> HIDE DEF tried, refs, info
    <3>3. /\ info.nRefCount = Cardinality(refs)
          /\ IF info.fInTried THEN refs = {} /\ tried = {TriedSlot(m, info.s)} ELSE refs # {} /\ tried = {}
          /\ \A slot \in refs : slot = NewSlot(m, info.s, slot[1])
          /\ Net[info.s] \in DOMAIN m.mapAddr /\ m.mapAddr[Net[info.s]] = id
          /\ info.nRandomPos \in DOMAIN m.vRandom /\ m.vRandom[info.nRandomPos] = id
      BY <2>3, <2>4, <2>5, <2>6, <2>9, <3>1, <3>2
    <3> QED BY <3>3 DEF tried, refs, info
  <2> QED BY <2>8, <2>9
<1>8. /\ \A slot \in DOMAIN m.vvNew : m.vvNew[slot] \in DOMAIN m.mapInfo \cup {-1}
      /\ \A slot \in DOMAIN m.vvTried : m.vvTried[slot] \in DOMAIN m.mapInfo \cup {-1}
  BY <1>1, <1>2 DEF NewTable, TriedTable
<1>9. /\ Len(m.vRandom) = m.nNew + m.nTried
      /\ m.nTried = Cardinality({id \in DOMAIN m.mapInfo : m.mapInfo[id].fInTried})
      /\ m.nNew = Cardinality({id \in DOMAIN m.mapInfo : ~m.mapInfo[id].fInTried})
  BY <1>1, <1>6 DEF Counters
<1> QED BY <1>5, <1>7, <1>8, <1>9 DEF CheckPasses

\* Check_, the consistency check of addrman.cpp 378-452, never fails: after any
\* sequence of additions, promotions, evictions, shuffles and restarts the
\* counters, reference counts, slots, the random vector and mapAddr agree.
THEOREM CheckAlwaysPasses == Spec => []CheckPasses
BY IndInvariant, InvCheck, PTL

\* Present and the ids of tried entries.
LEMMA PresentFacts ==
    ASSUME NEW a \in Managers, NEW b \in Managers, Remembers(a, b)
    PROVE  /\ Present(a, TRUE) \ Present(b, TRUE) \subseteq Present(b, FALSE)
           /\ \A slot \in DOMAIN a.vvTried : a.vvTried[slot] # -1 => b.vvTried[slot] # -1
<1>1. ASSUME NEW s \in Present(a, TRUE) PROVE s \in Present(b, TRUE) \cup Present(b, FALSE)
  <2>1. PICK x \in DOMAIN a.mapInfo : a.mapInfo[x].fInTried = TRUE /\ s = a.mapInfo[x].s
    BY DEF Present
  <2>2. x \in DOMAIN b.mapInfo /\ b.mapInfo[x].s = s
    BY <2>1 DEF Remembers, Tried
  <2>3. b.mapInfo[x].fInTried \in BOOLEAN
    BY <2>2, ManagerType
  <2> QED BY <2>2, <2>3 DEF Present
<1>2. DOMAIN a.vvTried = TriedSlots
  BY ManagerType
<1> QED BY <1>1, <1>2 DEF Remembers, Filled

\* Only a peer that takes its slot moves another out of the tried table, and
\* the step that does puts the other into the new table (MakeTried, addrman.cpp
\* 150-196); what becomes of it there is not part of the claim.
THEOREM EvictedIsNew == Spec => EvictedBecomesNew
<1>1. ASSUME IndInv, IndInv', [Next]_m
      PROVE  [~Restart /\ ~RestartEmpty =>
                 /\ Present(m, TRUE) \ Present(m', TRUE) \subseteq Present(m', FALSE)
                 /\ \A slot \in DOMAIN m.vvTried : m.vvTried[slot] # -1 => m'.vvTried[slot] # -1]_m
  <2>1. m \in Managers
    BY <1>1 DEF IndInv, Sound, Coherent, Base
  <2>2. Sound(m')
    BY <1>1 DEF IndInv
  <2>3. m' \in Managers
    BY <2>2 DEF Sound, Coherent, Base
  <2>4. ~Restart /\ ~RestartEmpty => Remembers(m, m')
    BY <1>1, NextInv
  <2> QED BY <2>1, <2>3, <2>4, PresentFacts
<1> QED BY <1>1, IndInvariant, PTL DEF Spec, EvictedBecomesNew

-----------------------------------------------------------------------------
(* peers.dat *)

\* With the positions of the file, every slot of the new table has its entry.
LEMMA NewReadBack ==
    ASSUME NEW am, Sound(am), NEW f, File(am, f), NEW slot \in NewSlots, am.vvNew[slot] # -1
    PROVE  NewOf(f, TRUE)[slot] # -1
<1> DEFINE same == TRUE
           y == am.vvNew[slot]
           i == Rank(Referenced(am), y)
<1>1. NewTable(am) /\ same \in BOOLEAN
  BY DEF Sound, Coherent, Base
<1>2. y \in DOMAIN am.mapInfo /\ ~am.mapInfo[y].fInTried /\ NewSlot(am, am.mapInfo[y].s, slot[1]) = slot
  BY <1>1 DEF NewTable
<1>3. i \in f.buckets[slot[1]]
  BY DEF File
<1>4. Wants(f, same, i, slot[1])
  BY <1>3 DEF Wants
<1> HIDE DEF same, y, i
<1>5. y \in Untried(am)
  BY <1>2 DEF Untried, Tried
<1>6. i \in 1 .. NewNum(am) /\ Sorted(Referenced(am))[i] = y
  BY <1>5, ListedFacts DEF i
<1>7. Listed(am)[i] = y
  BY <1>6, ListedFacts
<1>8. NewOf(f, same)[slot] # -1
  BY <1>1, <1>2, <1>4, <1>6, <1>7, NewOfFacts
<1> QED BY <1>8 DEF same

\* Every slot of the tried table has its entry.
LEMMA TriedReadBack ==
    ASSUME NEW am, Sound(am), NEW f, File(am, f), NEW slot \in TriedSlots
    PROVE  /\ am.vvTried[slot] = -1 <=> TriedOf(f)[slot] = -1
           /\ TriedOf(f)[slot] # -1 => /\ am.vvTried[slot] = Old(am, TriedOf(f)[slot])
                                       /\ TriedOf(f)[slot] \in 0 .. Total(am) - 1
<1>1. TriedTable(am) /\ am \in Managers
  BY DEF Sound, Coherent, Base
<1>2. NewNum(am) \in Nat /\ Total(am) \in Nat
  BY ListedFacts
<1>3. ASSUME TriedOf(f)[slot] # -1
      PROVE  /\ am.vvTried[slot] = Old(am, TriedOf(f)[slot]) /\ am.vvTried[slot] # -1
             /\ TriedOf(f)[slot] \in 0 .. Total(am) - 1
  <2> DEFINE id == TriedOf(f)[slot]
  <2>1. id \in NewNum(am) .. Total(am) - 1 /\ TriedSlot(am, am.mapInfo[Old(am, id)].s) = slot
    BY <1>3, TriedOfFacts
  <2> HIDE DEF id
  <2>2. id \in 0 .. Total(am) - 1 /\ id >= NewNum(am)
    BY <1>2, <2>1
  <2>3. Old(am, id) \in Tried(am)
    BY <2>2, OldFacts
  <2>4. am.vvTried[slot] = Old(am, id)
    BY <1>1, <2>1, <2>3 DEF TriedTable, Tried
  <2>5. Old(am, id) \in Nat
    BY <1>1, <2>3, ManagerType DEF Tried
  <2>6. Old(am, id) # -1
    BY <2>5
  <2> QED BY <2>2, <2>4, <2>6 DEF id
<1>4. ASSUME am.vvTried[slot] # -1
      PROVE  TriedOf(f)[slot] # -1
  <2> DEFINE y == am.vvTried[slot]
  <2>1. y \in DOMAIN am.mapInfo /\ am.mapInfo[y].fInTried /\ TriedSlot(am, am.mapInfo[y].s) = slot
    BY <1>1, <1>4 DEF TriedTable
  <2> HIDE DEF y
  <2>2. PICK id \in 0 .. Total(am) - 1 : Old(am, id) = y
    BY <2>1, OldFacts
  <2>3. ~(id < NewNum(am))
    <3>1. id < NewNum(am) => y \in Untried(am)
      BY <2>2, OldFacts
    <3> QED BY <2>1, <3>1 DEF Untried, Tried
  <2>4. id \in NewNum(am) .. Total(am) - 1 /\ id # -1
    BY <1>2, <2>3
  <2>5. TriedOf(f)[slot] = id
    BY <2>1, <2>2, <2>4, TriedOfFacts
  <2> QED BY <2>4, <2>5
<1> QED BY <1>3, <1>4

\* With the positions of the file, no entry is lost.
LEMMA NothingLost ==
    ASSUME NEW am, Sound(am), NEW f, File(am, f)
    PROVE  Lost(Loaded(f, TRUE)) = {}
<1> DEFINE same == TRUE
           g == Loaded(f, same)
<1>1. same \in BOOLEAN
  OBVIOUS
<1>2. /\ \A slot \in NewSlots : am.vvNew[slot] # -1 => NewOf(f, same)[slot] # -1
      /\ \A slot \in NewSlots : NewOf(f, same)[slot] # -1 => am.vvNew[slot] = Old(am, NewOf(f, same)[slot])
  BY NewReadBack, SlotReadBack
<1> HIDE DEF same
<1>3. ReadBack(am, g) /\ g.vvNew = NewOf(f, same)
  BY <1>1, LoadedFields
<1> HIDE DEF g
<1>4. /\ am \in Managers /\ NewTable(am) /\ InTable(am) /\ NewNum(am) \in Nat /\ Total(am) \in Nat
      /\ NewNum(am) <= Total(am)
  <2>1. TriedNum(am) \in Nat
    BY ListedFacts
  <2> QED BY <2>1, ListedFacts DEF Sound, Coherent, Base, Total
<1>5. ASSUME NEW id \in Lost(g) PROVE FALSE
  <2>1. DOMAIN g.mapInfo = 0 .. Total(am) - 1
    BY <1>3 DEF ReadBack
  <2>2. id \in 0 .. Total(am) - 1 /\ ~g.mapInfo[id].fInTried /\ g.mapInfo[id].nRefCount = 0
    BY <2>1 DEF Lost
  <2>3. ~(id >= NewNum(am)) /\ Cardinality(Refs(g, id)) = 0
    BY <1>3, <2>2 DEF ReadBack
  <2>4. Refs(g, id) = {}
    BY <2>3, SlotsFinite, FS_EmptySet
  <2> DEFINE y == Old(am, id)
  <2>5. y \in Untried(am)
    <3>1. id < NewNum(am)
      BY <1>4, <2>2, <2>3
    <3> QED BY <2>2, <3>1, OldFacts
  <2> HIDE DEF y
  <2>6. y \in DOMAIN am.mapInfo /\ am.mapInfo[y].nRefCount > 0
    BY <1>4, <2>5 DEF Untried, Tried, InTable
  <2>7. Cardinality(Refs(am, y)) > 0 /\ y # -1
    <3>1. y \in Nat
      BY <1>4, <2>6, ManagerType
    <3>2. y # -1
      BY <3>1
    <3> QED BY <1>4, <2>6, <3>2 DEF NewTable
  <2>8. Refs(am, y) # {}
    BY <2>7, FS_EmptySet
  <2>9. PICK slot \in NewSlots : am.vvNew[slot] = y
    BY <2>8 DEF Refs
  <2> DEFINE x == NewOf(f, same)[slot]
  <2>10. x # -1 /\ Old(am, x) = y
    BY <1>2, <2>7, <2>9
  <2>11. x \in Nat /\ x < NewNum(am)
    BY <1>1, <2>10, NewOfFacts
  <2> HIDE DEF x
  <2>12. x \in 0 .. Total(am) - 1
    BY <1>4, <2>11
  <2>13. x = id
    BY <2>2, <2>10, <2>12, OldFacts DEF y
  <2> QED BY <1>3, <2>4, <2>9, <2>13 DEF Refs, x
<1>6. Lost(g) = {}
  BY <1>5
<1> QED BY <1>6 DEF g, same

LEMMA InvReload == IndInv => ReloadKeepsTables
<1> SUFFICES ASSUME IndInv PROVE ReloadKeepsTables
  OBVIOUS
<1> DEFINE f == Serialize(m)
           same == TRUE
           g == Loaded(f, same)
<1>1. Sound(m) /\ m \in Managers /\ NewTable(m) /\ TriedTable(m) /\ same \in BOOLEAN
  BY DEF IndInv, Sound, Coherent, Base
<1>2. File(m, f)
  BY <1>1, SerializeFacts
<1>3. Unserialize(f, TRUE) = g
  <2> HIDE DEF f
  <2>1. Lost(Loaded(f, TRUE)) = {}
    BY <1>1, <1>2, NothingLost
  <2> QED BY <2>1 DEF Unserialize
<1> HIDE DEF f
<1>4. /\ \A slot \in NewSlots : m.vvNew[slot] # -1 => NewOf(f, same)[slot] # -1
      /\ \A slot \in NewSlots : NewOf(f, same)[slot] # -1 => m.vvNew[slot] = Old(m, NewOf(f, same)[slot])
  BY <1>1, <1>2, NewReadBack, SlotReadBack
<1> HIDE DEF same
<1>5. ReadBack(m, g) /\ g.vvNew = NewOf(f, same) /\ g.vvTried = TriedOf(f)
  BY <1>1, <1>2, LoadedFields
<1> HIDE DEF g
<1>6. \A id \in 0 .. Total(m) - 1 : g.mapInfo[id].s = m.mapInfo[Old(m, id)].s
  BY <1>5 DEF ReadBack
<1>7. /\ m.vvNew \in [NewSlots -> Int] /\ m.vvTried \in [TriedSlots -> Int]
      /\ g.vvNew \in [NewSlots -> Int] /\ g.vvTried \in [TriedSlots -> Int]
  <2>1. m.vvNew \in [NewSlots -> Int] /\ m.vvTried \in [TriedSlots -> Int]
    BY <1>1, ManagerType
  <2>2. NewOf(f, same) \in [NewSlots -> Int]
    BY <1>1, <1>2, NewOfFacts
  <2>3. TriedOf(f) \in [TriedSlots -> Int]
    BY <1>1, <1>2, TriedOfFacts
  <2> QED BY <1>5, <2>1, <2>2, <2>3
<1>8. NewNum(m) \in Nat /\ Total(m) \in Nat /\ NewNum(m) <= Total(m)
  <2>1. NewNum(m) \in Nat /\ TriedNum(m) \in Nat
    BY <1>1, ListedFacts
  <2> QED BY <2>1 DEF Total
<1> DEFINE Of(am, id) == IF id = -1 THEN {} ELSE {am.mapInfo[id].s}
<1>9. \A slot \in NewSlots : Of(g, g.vvNew[slot]) = Of(m, m.vvNew[slot])
  <2> TAKE slot \in NewSlots
  <2> DEFINE x == NewOf(f, same)[slot]
  <2>1. x = g.vvNew[slot]
    BY <1>5
  <2>2. x = -1 => m.vvNew[slot] = -1
    BY <1>4
  <2>3. x # -1 => x \in Nat /\ x < NewNum(m) /\ m.vvNew[slot] = Old(m, x)
    BY <1>1, <1>2, <1>4, NewOfFacts
  <2> HIDE DEF x
  <2>4. x # -1 => x \in 0 .. Total(m) - 1
    BY <1>8, <2>3
  <2>5. x # -1 => m.vvNew[slot] # -1
    <3>1. x # -1 => Old(m, x) \in DOMAIN m.mapInfo
      BY <1>1, <2>4, OldFacts
    <3>2. \A y \in DOMAIN m.mapInfo : y \in Nat
      BY <1>1, ManagerType
    <3>3. \A y \in DOMAIN m.mapInfo : y # -1
      BY <3>2
    <3> QED BY <2>3, <3>1, <3>3
  <2> QED BY <1>6, <2>1, <2>2, <2>3, <2>4, <2>5
<1>10. \A slot \in TriedSlots : Of(g, g.vvTried[slot]) = Of(m, m.vvTried[slot])
  <2> TAKE slot \in TriedSlots
  <2> DEFINE x == TriedOf(f)[slot]
  <2>1. x = g.vvTried[slot]
    BY <1>5
  <2>2. /\ m.vvTried[slot] = -1 <=> x = -1
        /\ x # -1 => m.vvTried[slot] = Old(m, x) /\ x \in 0 .. Total(m) - 1
    BY <1>1, <1>2, TriedReadBack
  <2> HIDE DEF x
  <2> QED BY <1>6, <2>1, <2>2
<1>11. Content(g) = Content(m)
  <2>1. \A am : Content(am) = <<[slot \in DOMAIN am.vvNew |-> Of(am, am.vvNew[slot])],
                                [slot \in DOMAIN am.vvTried |-> Of(am, am.vvTried[slot])]>>
    BY DEF Content
  <2> HIDE DEF Of
  <2>2. [slot \in DOMAIN g.vvNew |-> Of(g, g.vvNew[slot])] = [slot \in DOMAIN m.vvNew |-> Of(m, m.vvNew[slot])]
    BY <1>7, <1>9
  <2>3. [slot \in DOMAIN g.vvTried |-> Of(g, g.vvTried[slot])]
          = [slot \in DOMAIN m.vvTried |-> Of(m, m.vvTried[slot])]
    BY <1>7, <1>10
  <2> QED BY <2>1, <2>2, <2>3
<1> QED BY <1>3, <1>11 DEF ReloadKeepsTables, f

\* What is written to peers.dat and read back has the same service in every
\* slot of both tables, from any state (Serialize and Unserialize, addrman.h
\* 277-427).
THEOREM ReloadKeeps == Spec => []ReloadKeepsTables
BY IndInvariant, InvReload, PTL

=============================================================================
