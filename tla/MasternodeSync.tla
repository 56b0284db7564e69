--------------------------- MODULE MasternodeSync ---------------------------
(***************************************************************************)
(* How a node catches up with sporks, masternodes and payment votes        *)
(* (masternode-sync.cpp), together with the sporks themselves: Process     *)
(* runs every five seconds in the obfuscation thread, asks each peer once  *)
(* per asset and moves on, fails or starts again depending on what arrived *)
(* and when.  Peers come and go, items are repeated by them, the locks are *)
(* only tried, and the process may be restarted.                           *)
(*                                                                         *)
(* Time is kept as what Process tests: whether the last item is older than *)
(* 10 seconds, the asset was started 25 seconds ago, the failure is older  *)
(* than a minute.  The counts of the "ssc" message are only displayed and  *)
(* are left out, as is the shortcut for the regression-test network.       *)
(* Nothing is erased from mapSeenSyncMNB and mapSeenSyncMNW here.  The     *)
(* code erases announcements of masternodes it removes (masternodeman.cpp  *)
(* 265, 323) and votes a thousand blocks old (masternode-payments.cpp 558) *)
(* and the hash then counts as new.                                        *)
(***************************************************************************)
EXTENDS Sporks

CONSTANTS Peers,
          Modern,                       \* peers with a recent protocol version
          Items,                        \* hashes of announcements, and of votes
          MASTERNODE_SYNC_THRESHOLD,
          SPORK_8_MASTERNODE_PAYMENT_ENFORCEMENT,
          MaxReboots                    \* bound: restarts of the process

ASSUME MasternodeSyncAssumption ==
    /\ Modern \subseteq Peers
    /\ MASTERNODE_SYNC_THRESHOLD \in Nat \ {0}
    /\ SPORK_8_MASTERNODE_PAYMENT_ENFORCEMENT \in SporkIDs
    /\ MaxReboots \in Nat

VARIABLES
    sync,       \* the CMasternodeSync object
    asked,      \* per peer the requests noted with FulfilledRequest, or Absent: no peer
    enabled,    \* mnodeman.CountEnabled() > 0
    tipRecent,  \* what IsBlockchainSynced answers
    reboots

syncVars == <<sporkVars, sync, asked, enabled, tipRecent, reboots>>

Assets == {"INITIAL", "SPORKS", "LIST", "MNW", "BUDGET", "FINISHED", "FAILED"}
Requests == {"getspork", "mnsync", "mnwsync"}

\* last: the last item of the list and of the votes: 0 none yet, 1 fresh,
\* 2 more than 10 seconds ago.  seen: how often an item has counted.
Reset ==
    [RequestedMasternodeAssets |-> "INITIAL",
     RequestedMasternodeAttempt |-> 0,
     last |-> [a \in {"LIST", "MNW"} |-> 0],
     seen |-> [a \in {"LIST", "MNW"} |-> [h \in Items |-> 0]],
     late |-> FALSE]     \* the asset was started 25 seconds, or has failed a minute ago

SyncInit ==
    /\ SporksInit
    /\ sync = Reset /\ asked = [p \in Peers |-> Absent]
    /\ enabled = FALSE /\ tipRecent = FALSE /\ reboots = 0

-----------------------------------------------------------------------------
(* Process *)

Successor(a) ==
    CASE a \in {"INITIAL", "FAILED"} -> "SPORKS"
      [] a = "SPORKS" -> "LIST"
      [] a = "LIST" -> "MNW"
      [] a = "MNW" -> "BUDGET"
      [] a \in {"BUDGET", "FINISHED"} -> "FINISHED"

GetNextAsset(s) ==
    [s EXCEPT !.RequestedMasternodeAssets = Successor(@),
              !.RequestedMasternodeAttempt = 0, !.late = FALSE]

MorePeers(s) == [s EXCEPT !.RequestedMasternodeAttempt = @ + 1]

Failed(s) ==
    [s EXCEPT !.RequestedMasternodeAssets = "FAILED", !.RequestedMasternodeAttempt = 0,
              !.late = FALSE]

\* Asking for sporks: the third peer is the last one.  The attempt is counted
\* after the next asset has reset the counter.
AskSporks(s) ==
    MorePeers(IF s.RequestedMasternodeAttempt > 1 THEN GetNextAsset(s) ELSE s)

\* Enough peers were asked, and no item came for 10 seconds.
Quiet(s, a) ==
    s.last[a] = 2 /\ s.RequestedMasternodeAttempt >= MASTERNODE_SYNC_THRESHOLD

AskItems_NoLimit(s, a) ==
    IF s.last[a] = 0 /\ s.late
    THEN IF IsSporkActive(SPORK_8_MASTERNODE_PAYMENT_ENFORCEMENT)
         THEN Failed(s) ELSE GetNextAsset(s)
    ELSE MorePeers(s)

\* Asking another peer for the list or the votes: give up when nothing at all
\* has come, do nothing when enough peers were asked.
AskItems(s, a) ==
    LET many == s.RequestedMasternodeAttempt >= MASTERNODE_SYNC_THRESHOLD * 3
    IN  IF s.last[a] = 0 /\ (many \/ s.late)
        THEN IF IsSporkActive(SPORK_8_MASTERNODE_PAYMENT_ENFORCEMENT)
             THEN Failed(s) ELSE GetNextAsset(s)
        ELSE IF many THEN s ELSE MorePeers(s)

Unasked(ns, r) == {p \in Peers : ns[p] # Absent /\ r \notin ns[p]}
Ask(ns, p, r) == [ns EXCEPT ![p] = @ \cup {r}]

\* The loop over vNodes, whose order is arbitrary: sync' and asked' for the
\* object s and the requests ns.
Loop(s, ns) ==
    LET a == s.RequestedMasternodeAssets
        modern == {p \in Modern : ns[p] # Absent}
        r == IF a = "LIST" THEN "mnsync" ELSE "mnwsync"
    IN  \/ /\ a = "SPORKS"
           /\ \E p \in Unasked(ns, "getspork") :
                 sync' = AskSporks(s) /\ asked' = Ask(ns, p, "getspork")
        \/ /\ a \in {"LIST", "MNW"} /\ modern # {} /\ Quiet(s, a)
           /\ sync' = GetNextAsset(s) /\ asked' = ns
        \/ /\ a \in {"LIST", "MNW"} /\ ~Quiet(s, a)
           /\ \E p \in Unasked(ns, r) \cap Modern :
                 sync' = AskItems(s, a) /\ asked' = Ask(ns, p, r)
        \/ /\ a = "BUDGET" /\ modern # {}
           /\ sync' = GetNextAsset(s) /\ asked' = ns
        \/ \* no peer is left to ask
           /\ a = "SPORKS" => Unasked(ns, "getspork") = {}
           /\ a \in {"LIST", "MNW"} => ~(modern # {} /\ Quiet(s, a)) /\ Unasked(ns, r) \cap Modern = {}
           /\ a = "BUDGET" => modern = {}
           /\ sync' = s /\ asked' = ns

\* Once all masternodes are lost, or a minute after a failure.
StartsAgain_NotAfterLoss(s) == s.RequestedMasternodeAssets = "FAILED" /\ s.late
StartsAgain(s) ==
    \/ s.RequestedMasternodeAssets = "FINISHED" /\ ~enabled
    \/ s.RequestedMasternodeAssets = "FAILED" /\ s.late

\* cleared, locked: cs_vNodes was free when ClearFulfilledRequest and Process
\* tried to lock it.
Process(cleared, locked) ==
    LET s == IF StartsAgain(sync) THEN Reset ELSE sync
        fresh == s.RequestedMasternodeAssets = "INITIAL"
        s1 == IF fresh THEN GetNextAsset(s) ELSE s
        ns == [p \in Peers |-> IF fresh /\ cleared /\ asked[p] # Absent THEN {} ELSE asked[p]]
        waits == ~tipRecent /\ s1.RequestedMasternodeAssets # "SPORKS"
    IN  /\ s.RequestedMasternodeAssets \notin {"FINISHED", "FAILED"}
        /\ IF waits \/ ~locked THEN sync' = s1 /\ asked' = ns ELSE Loop(s1, ns)
        /\ UNCHANGED <<sporkVars, enabled, tipRecent, reboots>>

-----------------------------------------------------------------------------
(* Messages and surroundings *)

\* AddedMasternodeList and AddedMasternodeWinner: an item that has counted
\* often enough does not put off the end of the asset any more.  The callers
\* have put the hash into mapSeenMasternodeBroadcast or mapMasternodePayeeVotes,
\* so the branches for an unknown hash (masternode-sync.cpp 89, 102) are not taken.
Added_Always(a, h) ==
    /\ sync' = [sync EXCEPT !.last[a] = 1]
    /\ sync' # sync
    /\ UNCHANGED <<sporkVars, asked, enabled, tipRecent, reboots>>
Added(a, h) ==
    /\ sync.seen[a][h] < MASTERNODE_SYNC_THRESHOLD
    /\ sync' = [sync EXCEPT !.last[a] = 1, !.seen[a][h] = @ + 1]
    /\ UNCHANGED <<sporkVars, asked, enabled, tipRecent, reboots>>

\* Time passes.
Later ==
    /\ sync' \in {[sync EXCEPT !.last["LIST"] = IF @ = 1 THEN 2 ELSE @],
                  [sync EXCEPT !.last["MNW"] = IF @ = 1 THEN 2 ELSE @],
                  [sync EXCEPT !.late = sync.RequestedMasternodeAssets \in {"LIST", "MNW", "FAILED"}]}
    /\ sync' # sync
    /\ UNCHANGED <<sporkVars, asked, enabled, tipRecent, reboots>>

Connect(p) ==
    /\ asked[p] = Absent /\ asked' = [asked EXCEPT ![p] = {}]
    /\ UNCHANGED <<sporkVars, sync, enabled, tipRecent, reboots>>

Disconnect(p) ==
    /\ asked[p] # Absent /\ asked' = [asked EXCEPT ![p] = Absent]
    /\ UNCHANGED <<sporkVars, sync, enabled, tipRecent, reboots>>

\* Masternodes appear, or the last one expires.
MasternodesChange ==
    /\ enabled' = ~enabled
    /\ UNCHANGED <<sporkVars, sync, asked, tipRecent, reboots>>

\* The tip is no older than an hour before the first call of
\* IsBlockchainSynced, whose clock never moves again.
TipCatchesUp ==
    /\ ~tipRecent /\ tipRecent' = TRUE
    /\ UNCHANGED <<sporkVars, sync, asked, enabled, reboots>>

\* "mnsync reset"
ResetCommand ==
    /\ sync' = Reset /\ sync' # sync
    /\ UNCHANGED <<sporkVars, asked, enabled, tipRecent, reboots>>

Restart ==
    /\ reboots < MaxReboots /\ reboots' = reboots + 1
    /\ LoadSporksFromDB
    /\ sync' = Reset /\ asked' = [p \in Peers |-> Absent]
    /\ enabled' = FALSE /\ tipRecent' = FALSE

Spork ==
    /\ \/ \E m \in SporkMessages : ProcessSpork(m)
       \/ Write
    /\ UNCHANGED <<sync, asked, enabled, tipRecent, reboots>>

-----------------------------------------------------------------------------
SyncNext ==
    \/ \E cleared, locked \in BOOLEAN : Process(cleared, locked)
    \/ \E a \in {"LIST", "MNW"}, h \in Items : Added(a, h)
    \/ Later \/ MasternodesChange \/ TipCatchesUp \/ ResetCommand \/ Restart \/ Spork
    \/ \E p \in Peers : Connect(p) \/ Disconnect(p)

NewestSporks ==
    {m \in SporkMessages : \A n \in SporkMessages :
         n.nSporkID = m.nSporkID => n.nTimeSigned <= m.nTimeSigned}

\* The obfuscation thread calls Process for ever and finds the lock free
\* again and again, and time passes.  Peers with a recent version are always
\* looked for, and every peer passes on the newest spork it knows.
Fairness ==
    /\ SF_syncVars(Process(TRUE, TRUE)) /\ WF_syncVars(Later) /\ WF_syncVars(TipCatchesUp)
    /\ \A p \in Modern : WF_syncVars(Connect(p))
    /\ WF_syncVars(Write /\ UNCHANGED <<sync, asked, enabled, tipRecent, reboots>>)
    /\ \A m \in NewestSporks :
          SF_syncVars(ProcessSpork(m) /\ UNCHANGED <<sync, asked, enabled, tipRecent, reboots>>)
SyncSpec == SyncInit /\ [][SyncNext]_syncVars /\ Fairness

-----------------------------------------------------------------------------
(* Properties *)

\* No asset is asked of more than 3 * MASTERNODE_SYNC_THRESHOLD peers, or of
\* three for the sporks, however many come along (masternode-sync.cpp
\* 292-301, 314-332, 348-368).
SyncTypeOK ==
    /\ mapSporksActive \in [SporkIDs -> SporkMessages \cup {Absent}]
    /\ sync.RequestedMasternodeAssets \in Assets
    /\ sync.RequestedMasternodeAttempt \in 0..3 * MASTERNODE_SYNC_THRESHOLD
    /\ sync.RequestedMasternodeAssets = "SPORKS" => sync.RequestedMasternodeAttempt <= 2
    /\ sync.last \in [{"LIST", "MNW"} -> 0..2]
    /\ \A a \in {"LIST", "MNW"} : sync.seen[a] \in [Items -> 0..MASTERNODE_SYNC_THRESHOLD]
    /\ sync.late \in BOOLEAN
    /\ asked \in [Peers -> (SUBSET Requests) \cup {Absent}]
    /\ enabled \in BOOLEAN /\ tipRecent \in BOOLEAN /\ reboots \in 0..MaxReboots

\* Whatever was lost in a restart between memory and database, the newest
\* spork the key holder signed is in force in the end.
NewestSporkWins ==
    \A m \in NewestSporks : <>[](mapSporksActive[m.nSporkID] = m)

\* Repeated items cannot hold the synchronisation up: it does not stay at an
\* asset for ever once enough peers were asked and an item has come (masternode-sync.cpp 81-106,
\* 309-312, 343-346).
HeardAssetEnds ==
    \A a \in {"LIST", "MNW"} :
        []<>~(/\ sync.RequestedMasternodeAssets = a /\ sync.last[a] # 0
              /\ sync.RequestedMasternodeAttempt >= MASTERNODE_SYNC_THRESHOLD)

\* "Resync if we lose all masternodes" (masternode-sync.cpp 236-244), and try
\* again after a failure (246-248): the synchronisation does not stay finished
\* for ever without masternodes, or failed.
SyncStartsAgain ==
    []<>(/\ sync.RequestedMasternodeAssets = "FINISHED" => enabled
         /\ sync.RequestedMasternodeAssets # "FAILED")
=============================================================================
