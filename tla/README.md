# A TLA+ development of bitcoin2

This directory holds TLA+ specifications of the core of the bitcoin2 node, the
TLC configurations that check them on small instances, and TLAPS proofs that
hold for every instance. Source references are to the repository; file names
without a directory are in `src/`.

1. [Inventory](#1-inventory)
2. [Modules](#2-modules)
3. [What the runs check](#3-what-the-runs-check)
4. [What is proved](#4-what-is-proved)
5. [Where the code departs from its own comments](#5-where-the-code-departs-from-its-own-comments)
6. [Limits](#6-limits)
7. [Plan](#7-plan)

To check everything:

    tlc -workers 2 -config MCChainState.cfg MCChainState      # and the other runs
    tlapm ChainState_proofs.tla                               # and the other *_proofs

## 1. Inventory

bitcoin2 is a full node of a proof-of-stake coin with masternodes, derived from
Bitcoin Core 0.10, Dash and PIVX. The parts that carry logic of their own:

| part | state | operations | hard because |
|---|---|---|---|
| block tree and chain activation (`main.cpp`, `chain.h`) | `mapBlockIndex`, `setBlockIndexCandidates`, `mapBlocksUnlinked`, `chainActive`, `setDirtyBlockIndex` | `AcceptBlockHeader`, `AcceptBlock`, `ActivateBestChain`, `InvalidateBlock`, `ReconsiderBlock`, `ReprocessBlocks`, `FlushStateToDisk`, `LoadBlockIndexDB` | blocks arrive in any order; `ActivateBestChain` releases `cs_main` between rounds; a crash or a write error comes between any two writes |
| coin views (`coins.cpp`, `txdb.cpp`) | the coin database, `pcoinsTip`, short-lived views; per entry DIRTY and FRESH | `GetCoins`, `ModifyCoins`, `BatchWrite`, `Flush`, `SetBestBlock` | the flags of two cache levels; partial failure of a flush |
| script check queue (`checkqueue.h`) | the queue, `nIdle`, `nTotal`, `nTodo`, `fAllOk` | `Loop`, `Add`, the control's constructor, `Wait`, destructor | condition variables, results merged later, state carried from block to block, interruption |
| block connection and undo (`main.cpp`, `coins.cpp`, `undo.h`) | coins and undo records of a block | `ConnectBlock`, `UpdateCoins`, `DisconnectBlock` | disconnecting must be the inverse of connecting, with undo data written once and used often |
| block download (`main.cpp` 174-188, 290-564, 6939-7060) | `mapBlocksInFlight`, per-peer queues, global counters | `MarkBlockAsInFlight`, `MarkBlockAsReceived`, `FindNextBlocksToDownload`, `FinalizeNode`, `SendMessages` | timeouts racing late answers, peers that leave, blocks from peers that were not asked |
| memory pool (`txmempool.cpp`, `main.cpp`) | `mapTx`, `mapNextTx` | `AcceptToMemoryPool`, `addUnchecked`, `remove`, `removeConflicts`, `removeForBlock`, `removeCoinbaseSpends` | must follow the chain through reorganisations |
| orphan transactions (`main.cpp` 626-700, 6270-6380) | two maps that index one another | add, erase, limit, the work queue of the `tx` message | the two indexes must agree; bounded size; an accepted orphan frees others |
| wallet (`wallet.cpp`) | `mapWallet`, `hashBlock`, keys, caches | `SyncTransaction`, `AvailableCoins`, `CommitTransaction`, `ReacceptWalletTransactions` | follows reorganisations; records a payment before the pool sees it |
| SwiftX (`swifttx.cpp`) | lock requests, rejected requests, votes, locks, locked inputs | `ProcessMessageSwiftTX`, `CreateNewLock`, `ProcessConsensusVote`, `CheckForConflictingLocks`, clean-up | requests and votes in any order; expiry; a completed lock pops blocks |
| masternode synchronisation (`masternode-sync.cpp`) | the asset being asked for, attempts, times, who was asked | `Process`, `GetNextAsset`, `AddedMasternodeList`, `AddedMasternodeWinner`, `Reset` | timeouts, retries, repeated items, peers that leave |
| sporks (`spork.cpp`, `sporkdb.cpp`) | the message in force for each number; the database | `ProcessSpork`, `LoadSporksFromDB` | newest wins, whatever the order, also across a restart |
| masternode payments (`masternode-payments.cpp`) | votes, tallies per height, `mnpayments.dat` | `ProcessBlock`, `mnw`, `AddWinningMasternode`, `CleanPaymentList`, `IsTransactionValid`, `FillBlockPayee`, dump and load | votes out of order and repeated, voters that restart, two maps that must agree |
| masternode list (`masternode*.cpp`, `activemasternode.cpp`) | masternodes, pings | announcements, expiry | timeouts |
| address manager (`addrman.cpp`, `addrman.h`) | new and tried tables, `mapInfo`, `mapAddr`, `vRandom`, `peers.dat` | `Add_`, `Good_`, `GetAddr_`, `Serialize`, `Unserialize` | five structures that must agree through collisions, evictions and reloads |
| scheduler (`scheduler.cpp`) | `taskQueue`, stop flags | `schedule`, `serviceQueue`, `stop` | waiting for a time and for a change of the queue at once |
| obfuscation pool (`obfuscation.cpp`) | the mixing session | message handlers, timeouts | a multi-party protocol |
| staking, accumulators, script, cryptography | none or little | pure functions | numeric and cryptographic, not a matter for a model checker |
| peers, RPC, REST, GUI, ZMQ, alerts | buffers, sessions | I/O and formatting | - |

How they meet: message threads, the RPC threads, the staking thread and
start-up call `ProcessNewBlock`, `InvalidateBlock` and the like, all under the
lock `cs_main`. `ActivateBestChain` has a lock of its own, `m_cs_chainstate`,
for its whole duration and takes `cs_main` for one round at a time.
`ConnectTip` makes a coin view on `pcoinsTip`, hands the script checks of the
block to the check queue while it applies the block to the view, waits for the
verdict, and commits the view. `FlushStateToDisk` writes the block index and
then lets `pcoinsTip` write its batch. SwiftX calls `ReprocessBlocks`
when a lock is completed that an earlier block contradicts. `ConnectTip` and
`DisconnectTip` also bring the memory pool up to date and tell the wallet of
every transaction. Message threads hand `tx`, `inv` and `block` to the pool, the
orphan maps and the download bookkeeping; `SendMessages` asks for blocks. The
obfuscation thread calls the synchronisation and all the masternode clean-ups.

What makes each correct:

- *chain*: the tip is the best valid block the node could connect; the
  candidate set is what `CheckBlockIndex` says it is; the coins are those of the
  tip; what is on disk is enough to start from after a crash.
- *coins*: no cache can be seen from outside; the database holds the coins of
  the block it names.
- *pool, orphans, undo*: after any reorganisation the coins are what replaying
  the active chain gives, the pool is a set of transactions that could all be
  mined, and no orphan waits for a parent that is there.
- *wallet*: it knows every transaction that concerns it and where it is; what it
  takes to be spendable is.
- *block download*: every structure that says who owes which block agrees with
  the others, and no request is stuck with a silent peer.
- *SwiftX*: a lock needs distinct masternodes, holds its inputs, never takes
  them from another, and ends.
- *synchronisation and sporks*: it goes on whatever peers do, and the newest
  spork is in force in the end.
- *payments*: tallies are the votes, and two payees win one height only where
  that many masternodes have voted, or one of them twice after a restart.
- *address manager*: its own consistency check passes, reloading changes
  nothing, and a peer that is evicted from the tried table goes into the new one.
- *check queue*: the verdict on a block is the conjunction of its own checks;
  `Wait` returns; nothing of one block leaks into the next.

PROJECT.json lists the components, the hazards with their lines, and which
definition stands for which lines.

## 2. Modules

| module | content |
|---|---|
| `ScriptVerifier` | abstract: a verifier that collects checks and returns their conjunction |
| `CheckQueue` | `CCheckQueue` and `CCheckQueueControl` |
| `ChainState` | block tree, chain activation, flush, crash, restart |
| `LayeredCoins` | abstract: three plain maps of coins, one above the other |
| `CoinsCache` | `CCoinsViewDB`, `pcoinsTip` and a view on it |
| `Mempool` | coins, undo data, memory pool and orphans while blocks come and go |
| `Wallet` | extends `Mempool`: the composition of chain, pool and wallet |
| `BlockDownload` | `CNodeState`, blocks in flight, stalling and timeouts |
| `SwiftTx` | lock requests, votes, locks, locked inputs |
| `Sporks` | sporks in memory and in their database |
| `MasternodeSync` | extends `Sporks`: the synchronisation and the sporks it asks for |
| `MasternodePayments` | votes on payees, tallies, `mnpayments.dat` |
| `AddrMan` | `CAddrMan` and `peers.dat` |
| `MC...` | instances for TLC |
| `CheckQueue_proofs` | theorems on the check queue and its refinement of `ScriptVerifier` |
| `ChainState_proofs` | types, locks, coins and databases of `ChainState`, then candidates, marks and unlinked blocks |
| `CoinsCache_proofs` | the coin views and their refinement of `LayeredCoins` |
| `Wallet_proofs` | coins and undo data, pool, orphans and wallet |
| `BlockDownload_proofs`, `SwiftTx_proofs`, `AddrMan_proofs` | theorems on these modules |
| `Masternodes_proofs` | theorems on `MasternodePayments`, and on `MasternodeSync` with `Sporks` |

### CheckQueue

State: the members of `CCheckQueue` under their own names, plus the locals of
each thread (`batch` for `vChecks`/`nNow`, `fOk`) and where it is (`pc`). A
critical section of `mutex` ends only in `cond.wait`, in taking a batch or in a
return, so it is one action. A section of `Loop` has three ways in
(`FirstIteration`, `CleanUp`, `Woken`) and three ways out (`TakeBatch`,
`ReturnResult`, `GoIdle`); `Execute` is the lock-free part. A condition variable
may wake for no reason (`SpuriousWake`), and boost may interrupt a wait
(`Interrupt`): a worker is gone and stays counted in `nIdle` and `nTotal`; the
master unwinds into `~CCheckQueueControl`, which calls `Wait` again. `CallWait`
chooses freely whether this is `control.Wait()` or the destructor after an
early return of `ConnectBlock`. The queue is a set: which checks are in a batch
is left open, its size is computed as in the code. `fQuit` is never set in the
code and is left out.

### ChainState

A block tree is given by constants (`Parent`, `Anc`, `ChainWork`, `Height`);
`BadContext` and `BadConnect` are the blocks that break a rule of
`ContextualCheckBlock` and of `ConnectBlock`. `nStatus` is a set of flags:
`tree` (in the index), `data`, `undo` (connected once: undo data on disk and
`BLOCK_VALID_SCRIPTS`), `failed`, `child`. `linked` are the blocks with
`nChainTx > 0`. `disk` and `diskTip` are what a crash leaves.

A critical section of `cs_main` is one action, except where it writes:
`StepDisconnect`, `StepConnect`, `InvalidateWalk` and each single write of
`FlushStateToDisk` (`WriteBlockIndex`, `WriteCoins`) are separate, with
`cs_main` held, so that `Restart` (a crash and a start) and `FlushFails` can
come between any two. `cont` remembers who called the flush. `AcceptBlock` is
the whole call with `AddToBlockIndex` and `ReceivedBlockTransactions`;
`NowLinked` is the closure that its queue computes, and the order in which the
queue visits siblings is free. `FindMostWorkChain` is one step: the
code's loop discards candidates from the best down until one has no failed
block on its path, so the result is the best usable candidate and everything
that sorts above it is discarded. `Interventions` are what is bounded by
`Budgets`: a run allows the numbers of any one member of that set.

### CoinsCache

`cacheTip` and `cacheView` map a transaction to an entry `[coins, dirty, fresh]`
or `None`; `Pruned` is a `CCoins` without outputs and, in the database, a
missing entry. `TipFetched` and `FetchedEntry` are `FetchCoins` on the two
levels, `InsertedEntry` and `Released` the two ends of `ModifyCoins`, `Merge`
one iteration of `BatchWrite`. `Flush` empties the cache into the database in
one batch; `FlushFails` has emptied the cache when the write throws. `wrote` and
`committed` are history variables. A view lives inside one critical section of
`cs_main`, so there is at most one, and `pcoinsTip` is not flushed meanwhile.
`LayeredCoins` says what all this is for; its `Lose` step is what the comment
on `Flush` (coins.h:452) allows after a failure.

### Mempool and Wallet

`Mempool` has one action for each whole operation under `cs_main`: `ConnectTip`
and `DisconnectTip` with everything they do to coins, undo data and pool;
`ProcessTx`, the `tx` message, whose walk through the orphans is `NextWork` and
`TryOrphan`, one orphan at a time, with the maps changed at its end as in the
code; `SubmitTx`, the RPC; peers that come and go, the latter taking their
orphans along. Which block is next is `ChainState`'s affair: here it is any
child of the tip; `Height` is its height in the tree, which a coinbase tells.
`ConnectBlock` and `DisconnectBlock` are folds of one step per transaction
(`ConnectTx`, `UndoTx`), `removeForBlock` of `removeForTx`. They work on
every output with its height and the coinbase and coinstake flags, and undo data
is written at the first connection of a block only. What policy and scripts
refuse is a set the action is given.

`Wallet` conjoins each of these actions with what `SyncWithWallets` makes of it,
and adds `CommitTransaction` and `Restart`, after which
`ReacceptWalletTransactions` walks `mapWallet` in the order of the hashes
(`HashOrders`, one `Reaccept` each). `GetDepthInMainChain`, `IsSpent`, `IsTrusted` and
`AvailableCoins` are the code's functions of those names.

### BlockDownload

`nodes[p]` is the `CNodeState` of a peer with the members of `CNode` that
matter, field by field; `inFlight` is `mapBlocksInFlight`. `SendMessages(p, r)` is
the whole body under `cs_main`: start of synchronisation, stalling test,
timeout test, `FindNextBlocksToDownload`, requests; `r` says whether the best
known header is recent. A request's time is its age, which
stops growing at the limit beyond which it makes no difference. Whether and when
a peer answers is free, so lost, late, repeated and unasked blocks are all in.
The `headers` message does nothing on any network of `chainparams.cpp`.

### SwiftTx

Requests (`txlreq`, from a peer or the wallet), votes and the clean-up are one
action each. A vote's identity is masternode and transaction, as its hash is; a
lock's height is unknown until its transaction is. `due` is an expiration time
in the past, `Expire` the clock reaching it. The pool refuses double spends and
conflicts with complete locks, and anything else freely. Its own masternode
(`Self`) votes when it sees a request.

### Sporks and MasternodeSync

A spork is in force in memory before it is written; `Write` may fail and a
restart may come first. `Process` is the whole call of the obfuscation thread,
with the two lock attempts as its parameters; `asked` is what
`HasFulfilledRequest` remembers of each peer. Times are reduced to "fresh" and
"more than ten seconds ago" for items and to `late` for the asset. `enabled` and
`tipRecent` are what the masternode list and the chain answer. `sync` is the
`CMasternodeSync` object; names are kept apart from those of
`MasternodePayments`, so that one proof module can extend both.

### MasternodePayments

One node that tallies, among masternodes that vote. `ProcessBlock` at a
masternode, the `mnw` message at the node, the clean-up, the chain growing and
shrinking, restart of either, the dump to `mnpayments.dat` and a crash in it are
actions. The rank of a masternode is free, at the voter and at the node:
`ProcessBlock` votes with a rank among the first ten only, and `IsValid` lets -1
pass as well. `IsTransactionValid` judges the payee of each block; whom a block
really pays, by `FillBlockPayee` or otherwise, is left open.

### AddrMan

`m` is the object: ids, `mapInfo`, `mapAddr`, `vRandom`, the two tables and the
two counters. `Create`, `Delete`, `SwapRandom`, `ClearNew`, `MakeTried` are
operators on it that the actions `Add`, `Good` and `GetAddr` put together.
`Serialize` writes what the file keeps: the entries of the new table and of the
tried table in the order of their ids (`Sorted`), and per bucket the numbers
(`Index`) of its entries. `Unserialize` is `Loaded`, which numbers the entries
anew and fills each slot with the first entry that wants it (`NewOf`,
`TriedOf`), followed by the deletion of entries that got no slot (`Pruned`).
Hashes with the secret key are constant functions; times, randomness and
"terrible" are free.

## 3. What the runs check

| run | instance | shows |
|---|---|---|
| `checkqueue` | 1 worker and the master, 4 checks, batches of at most 2, 2 blocks | `TypeOK`, `IdleAtConstruction`, `ImplementsVerifier`, `WaitReturns` |
| `chain_reorg` | two branches of two blocks, 2 threads; one invalidation, one `ReprocessBlocks`, or two crashes | `IndexConsistent`, `BestChainActive`, `CandidatesLeft`, `ActiveChainValid`, `CoinsMatchTip`, `DiskTipOnChain` |
| `chain_faults` | a block with two children; write errors, one crash, one reconsideration | `TypeOK`, `DurableTip` |
| `chain_live` | two branches, three blocks, 2 threads | `ActivationEnds`, `GoodBlockActivated` |
| `coins` | 2 transactions, 2 values, 2 blocks, write errors, crashes | `ViewAnswers`, `FlushAssertHolds`, `ImplementsLayers` |
| `wallet` | seven blocks in two branches with a coinstake, chained and conflicting transactions; 2 peers, 2 orphans | `PoolConsistent`, `CoinsMatchChain`, `OrphansConsistent`, `WalletComplete`, `NoOrphanLeftBehind`, `CommitAccepted` |
| `download` | a chain of two blocks and a rival, 2 peers with 2 requests each, window 1, 2 connections | `InFlightConsistent`, `CountersExact`, `StallerOwesBlock`, `CommonBlockLinked`, `RequestsEnd` |
| `swifttx` | two transactions with one input in common, 2 masternodes, one of them this node, 2 signatures | `VotersDistinct`, `CompletionLocksInputs`, `LocksEnd` |
| `mnsync` | 2 peers, one of a recent version, 1 item per asset, 2 messages of one spork, one restart | `SyncTypeOK`, `NewestSporkWins`, `HeardAssetEnds`, `SyncStartsAgain` |
| `payments` | 3 masternodes, 2 payees, 2 signatures of the 2 best ranked, 2 heights, two restarts, one reorganisation | `TallyMatchesVotes`, `OneWinner` |
| `addrman` | 4 services of 3 hosts, 2 sources, 2 new buckets and 1 tried bucket of 2 slots, 4 ids | `CheckPasses`, `ReloadKeepsTables`, `EvictedBecomesNew` |
| `undo_coinstake` | as `wallet`, with a transaction `z` in a block that spends the marker of the coinstake | a violation of `UndoRestoresCoins`, see section 5 |

The type invariants of `Mempool`, `BlockDownload`, `SwiftTx`,
`MasternodePayments` and `AddrMan` are the first conjunct of the consistency
invariant of the module; that of `CoinsCache` is part of the inductive invariant
of its proofs.

Bounds. Four checks are the fewest for which a batch holds more than one check;
two blocks are needed for anything to leak from one to the next; the master
takes part in the loop, so one worker gives two threads. In the tree, `a1` and
`b1` have equal work, so the first one seen stays the tip, and `b2` has more
work than `a2`: a reorganisation is at least one disconnection and two
connections, and the second one fails because `b2` is in `BadConnect`, so the
node has to come back. Two threads are enough for one to act between two rounds
of the other, since `m_cs_chainstate` lets only one activate. Two crashes allow
one during the recovery from the other. Two committed blocks let a coin be
created, spent and created again across flushes; transactions do not interact in
`CoinsCache`, two show that.

In `wallet`, a maturity of 2 and two blocks below the fork let a coinbase and a
coinstake become mature, be spent, and be immature again after a
reorganisation; `t2` empties `t1` with two inputs, `t3` and `x` are conflicts of
one and two generations; the coinstake has the empty marker and one reward, of
which `t4` spends the second; there is room for two orphans, and `t2`, `t3` and `t5`
may all be some. In `download`, a window of 1 makes a peer stall behind the
other with two blocks, and the third block makes the peers' best blocks lie on
different branches. In `swifttx`, two required signatures of two masternodes let
votes come before, between and after the requests. In `mnsync`, a threshold of
1 keeps every limit of the code (1, 2 and 3 times the threshold) apart. In
`payments`, three voters with two signatures required are fewer than twice the
requirement, so a second winner needs a masternode that votes again; and one
more voter than ranks lets the node count votes of rank -1.
In `addrman`, two hosts share a slot in each table, and two services differ in
the port only.

Deadlock is checked except where the system may stop: a master that has no more
blocks to verify, runs that end with a crash or a failed write (the
assertions of `DisconnectBlock` and `ConnectBlock` are guards, so a node that
would abort stops), and `payments`, where the chain ends at `MaxTip`.

Fairness. `CheckQueue`: weak fairness of `InLoop(t)` only, that is a thread that
can run does run; nothing is assumed about new blocks, spurious wake-ups or
interruptions. `ChainState`: strong fairness of `Continue(t)`, because a thread
between two rounds waits for `cs_main` and for `m_cs_chainstate`, which others
take and release for ever while blocks keep arriving; the mutexes do not starve
a waiter for ever on the systems the node runs on. No fairness is assumed for
arriving blocks or operators. `BlockDownload`: the clock runs, the message
thread visits a peer that is late, the socket thread deletes a peer marked for
disconnection; nothing is assumed of the peers. `SwiftTx`: time passes and the
obfuscation thread cleans up; nothing is assumed of requests and votes.
`MasternodeSync`: time passes, the chain catches up, `Process` finds its locks
free again and again (strong: both are taken by `TRY_LOCK`), the
connection thread keeps looking for peers of a recent version, and the network
repeats the newest spork to a node that lacks it (every peer relays and answers
`getsporks`).

Symmetry is used for threads, peers, masternodes and payees in runs without
liveness properties only.

## 4. What is proved

All theorems hold for every value of the constants that the assumptions of the
modules allow: any number of threads, peers and masternodes, any finite set of
checks, any block tree, any transactions.

| theorem | statement | argument |
|---|---|---|
| `CheckQueue_proofs!TypeCorrect` | `Spec => []TypeOK` | from the accounting below |
| `CheckQueue_proofs!ConstructorAssertHolds` | `Spec => []IdleAtConstruction` | the inductive invariant counts: `nIdle` and `nTotal` are the numbers of threads that are waiting, and in `Loop`, interrupted ones included; `nTodo` is the size of the queue and of all batches, which are disjoint |
| `CheckQueue_proofs!Refinement` | `Spec => ImplementsVerifier` | every check added is queued, in a batch, or done; `fAllOk` and the threads' `fOk` account for the done ones that failed |
| `ChainState_proofs!TypeCorrect` | `Spec => []TypeOK` | tip, candidates and databases stay inside the blocks whose whole chain has data |
| `ChainState_proofs!Durable` | `Spec => []DurableTip` | a flag that memory has and the disk lacks belongs to a dirty block; the coins are at a block whose chain has data and undo data; coins are written only when nothing is dirty |
| `ChainState_proofs!CoinsAtTip` | D: `Spec => []CoinsMatchTip` | at most one thread holds `cs_main`, and only inside a flush may the coins be one block away from the tip |
| `ChainState_proofs!DiskOnChain` | D: `Spec => []DiskTipOnChain` | disconnecting always flushes before the tip moves |
| `ChainState_proofs!ActiveChainStaysValid` | D, I: `Spec => []ActiveChainValid` | a failed block is on the active chain only while the thread that marked it is walking down to it, and on the chain of the coin database only then |
| `ChainState_proofs!BestChainIsActive` | D, I, R: `Spec => []BestChainActive` | the reference candidate, below |
| `ChainState_proofs!CandidatesRemain` | D, I, R: `Spec => []CandidatesLeft` | the same |
| `ChainState_proofs!IndexStaysConsistent` | D, I, R: `Spec => []IndexConsistent` | the same, with a cause for every mark (a failed block is an invalidated one or breaks a rule, a `child` has a failed ancestor) and with `mapBlocksUnlinked` holding exactly what waits for data |
| `CoinsCache_proofs!BatchWriteAssert` | `Spec => []FlushAssertHolds` | a view's entry that is not fresh has an entry below it |
| `CoinsCache_proofs!AnswersCorrect` | `Spec => []ViewAnswers` | fetching, modifying and releasing entries never changes the answer for another transaction |
| `CoinsCache_proofs!DatabaseConsistent` | D: `Spec => []DatabaseAtBlock` | merging is exact because a fresh entry of `pcoinsTip` has nothing below it in the database |
| `CoinsCache_proofs!Refinement` | `Spec => ImplementsLayers` | each step maps to a step of the plain maps or a stutter |
| `Wallet_proofs!CoinsFollowChain` | `WalletSpec => []CoinsMatchChain` | `DisconnectBlock` inverts `ConnectBlock`, below |
| `Wallet_proofs!PoolStaysConsistent` | `WalletSpec => []PoolConsistent` | the pool is covered by the outputs that the next block may spend, below |
| `Wallet_proofs!OrphansStayConsistent` | `WalletSpec => []OrphansConsistent` | both maps change together |
| `Wallet_proofs!OrphansAreRetried` | `WalletSpec => NoOrphanLeftBehind` | during the message, an orphan that spends an output of `vWorkQueue` is to be erased, is of a misbehaving peer, lacks a parent, or has a parent in the queue that is still to come |
| `Wallet_proofs!WalletStaysComplete` | `WalletSpec => []WalletComplete` | no transaction is twice in the chain, or in the chain and in the pool, below |
| `Wallet_proofs!CommitStaysAccepted` | `WalletSpec => CommitAccepted` | from the two above: what spends an output of the wallet is known to it with a depth of at least 0, and heights and flags of the coins are those of their block |
| `BlockDownload_proofs!RequestsConsistent` | `Spec => []InFlightConsistent` | the map names the peer in whose queue the block is; no queue has a block twice |
| `BlockDownload_proofs!CountersStayExact` | `Spec => []CountersExact` | a peer is preferred only once it has sent its version; the blocks that `FindNextBlocksToDownload` returns are distinct and not in flight |
| `BlockDownload_proofs!SuspectsOwe` | `Spec => []StallerOwesBlock` | the staller it returns has a block on its books, and each request that is taken off them clears the suspicion |
| `BlockDownload_proofs!CommonBlocksLinked` | `Spec => []CommonBlockLinked` | it moves the common block only along blocks that have data |
| `SwiftTx_proofs!NoDoubleVotes` | `Spec => []VotersDistinct` | a counted vote is remembered in `mapTxLockVote`, and forgotten only with its lock |
| `SwiftTx_proofs!CompletionSettles` | `Spec => CompletionLocksInputs` | one step per action that may count a vote |
| `Masternodes_proofs!TallyCorrect` | `Spec => []TallyMatchesVotes` | votes and tallies agree in memory and in the file, and clean-up drops all votes of a height with its tally |
| `Masternodes_proofs!OnePayeeWins` | `Spec => []OneWinner` | a masternode that did not restart remembers a height at least that of every vote it cast, so it has one vote for a height, and two winners need twice the required voters |
| `Masternodes_proofs!SyncTypeCorrect` | `SyncSpec => []SyncTypeOK` | an asset starts from no attempt, or from one after the last peer asked for sporks, and each limit is tested before the count goes up |
| `Masternodes_proofs!RestartOnlyTakesBack` | `SyncSpec => []DatabaseBehind` | the message on its way to the database is the one in force, because one thread receives and writes |
| `AddrMan_proofs!CheckAlwaysPasses` | `Spec => []CheckPasses` | the tables describe one another, below |
| `AddrMan_proofs!EvictedIsNew` | `Spec => EvictedBecomesNew` | only `Evict` takes an address out of the tried table, into a slot of the new one that `ClearNew` has emptied; `Delete` meets only entries without references |
| `AddrMan_proofs!ReloadKeeps` | `Spec => []ReloadKeepsTables` | reading back, below |

D, I and R are hypotheses on the constants. Each excludes a hazard of the code
with which the invariant behind the theorem breaks:

- D, `~DiskMayFail`: no write errors; section 5 says what a failed flush does.
- I, `NoCrashAfterInvalidate`: a run of the node has invalidations or crashes,
  not both. `InvalidateBlock` has the failure flag of the tip written before the
  coins leave the tip (main.cpp:3930).
- R, `NoRevival`: nothing is reconsidered, by an operator or by
  `ReprocessBlocks`. `ReconsiderBlock` clears the flags of ancestors without
  making them candidates (main.cpp:3972). The `chain_reorg` run has one
  `ReprocessBlocks` all the same.

Crashes and restarts, invalidations, blocks that fail to connect, and any
interleaving of threads are included.

The inductive invariants, where they are more than the property:

- *Reference candidate* (`ChainState_proofs`). `FindMostWorkChain` discards
  candidates, `PruneBlockIndexCandidates` too, and between two rounds the tip may
  be no candidate. What stays, whenever nobody is walking down an invalidated
  chain, is a candidate `r` that breaks no rule, together with every good block
  that does not sort below it. So the search always ends, and with the best good
  block. A thread that steps towards a goal has nothing better than its goal in
  the index; when all threads are settled nothing is better than the tip.
- *Undo* (`CoinInv`). The coins are those of the replay of the chain up to the
  coinstake flag, and the undo data on disk fits the path on which its block was
  first connected. The path from `Base` to a block is unique, so that path is
  the one the block is on when it is disconnected. For one block: every input
  had been available, no transaction is twice in it, so restoring the inputs in
  reverse order gives back each `CCoins` (`UndoTxInverse`, `DisconnectInverse`).
  The coinstake flag is lost on the way, and no check that decides about the
  other fields reads it.
- *Covered pool* (`PoolInv`). Every input of the pool comes from the pool or is
  an unspent output, mature for the next block (`Fine`). Connecting a block
  spends some of these, and `removeForBlock` removes what depends on them; while
  a block is disconnected the outputs it made are owed, until each of its
  transactions is back in the pool or what depends on it is gone.
- *History* (`WalletInv`). The transactions of the chain have spent their
  inputs, and what is not unspent was spent by one of them. Hence no transaction
  with inputs comes twice, a coinbase does not because it tells its height, and
  what the pool accepts is not in the chain. `hashBlock` of a confirmed
  transaction is then the one block that has it.
- *Tables that describe one another* (`IndInv` of `AddrMan_proofs`). `mapAddr`
  and `mapInfo` are inverse to each other, `nRandomPos` and `vRandom` too; an
  entry is in the tried table, in the one slot its hash gives, or has as many
  slots of the new table as `nRefCount` says, each at the position its hash
  gives in that bucket, and at most `ADDRMAN_NEW_BUCKETS_PER_ADDRESS`; `nNew`
  and `nTried` count the two kinds; no entry is in neither table. Halfway
  through an operation the last part fails (an entry created and not yet referred to, one moved and not
  yet placed), so the operators preserve weaker predicates (`Base`, `Coherent`)
  and the action restores the rest.
- *Reading back*. The position in a bucket is a function of key, bucket and
  address, so each of the entries written for a bucket wants the slot it had and
  no other: the first entry that wants a slot is the one that had it. Ranks among the entries with references are a
  bijection (`RankFacts`), hence the index written for a slot names the entry
  that was in it (`NewReadBack`, `TriedReadBack`) and every entry gets all its
  references back. A file of the same format therefore loses nothing
  (`NothingLost`). For a file of another format entries may lose their
  slots; what is left after `Pruned` satisfies the invariant again
  (`UnserializeSound`).

Assumptions, which TLC evaluates in the runs, with the code that justifies them:
`CheckQueueAssumption`; `TreeAssumption` (the block tree is a tree, `Anc` its
ancestor relation, work grows along it because every block has some, there is a
thread); `CoinsAssumption` and the `None` clauses (model values are distinct);
`MempoolAssumption` (a transaction has no input twice, main.cpp:1474; only the
first transaction of a block is a coinbase, 4246; a coinbase tells the height of
its block, 4517; a coinstake has two outputs, primitives/transaction.cpp:186; `Base`, which stands for all older blocks, has only coinbases);
`WalletAssumption` (outputs of the wallet exist, it makes no coinbases and no
coinstakes with `CommitTransaction`); `BlockDownloadAssumption` (tree, positive
limits); `SwiftTxAssumption` (at least one signature is required);
`MasternodePaymentsAssumption` (masternodes are finitely many, and the horizons
of votes are ordered as in the code; nothing is assumed of how many vote);
`SporksAssumption` (the key holder does not sign two messages of one spork in
one second); `MasternodeSyncAssumption` (the threshold is positive);
`AddrManAssumption` (the hashes give buckets and positions of the tables, which
are finite).

Induction over a sequence or a number, as in the folds of `ConnectBlock` and
`DisconnectBlock`, is done by the least counterexample (`Least`, `Upwards`); a
fold is first shown to be a run of its step (`...Trace`).

Only model-checked:

- liveness (`WaitReturns`, `ActivationEnds`, `GoodBlockActivated`,
  `RequestsEnd`, `LocksEnd`, `NewestSporkWins`, `HeardAssetEnds`,
  `SyncStartsAgain`), since fairness and `ENABLED` are outside the prover;
- what the run `chain_reorg` covers beyond the hypotheses I and R: one
  `ReprocessBlocks`, with which the reference candidate is no invariant.

Every other invariant and action property of a passing run is proved. Two
theorems state what no run checks: `DatabaseConsistent`, and
`RestartOnlyTakesBack`, whose `DatabaseBehind` is part of the inductive invariant
of `Masternodes_proofs`.

## 5. Where the code departs from its own comments

`undo_coinstake` is a run that is expected to find a violation, and a finding
in PROJECT.json with the lines. `DisconnectBlock` rebuilds a wholly spent
`CCoins` from its undo record and restores version, height and `fCoinBase` but
not `fCoinStake` (main.cpp 2697-2706), although the record has it.

Ordinary payments do not get there. Output 0 of a coinstake is a marker without
value and without script (primitives/transaction.cpp:186). It is neither null
nor unspendable, so while it is unspent the `CCoins` is not empty, the undo
record of the reward has no height (coins.cpp:46), and `DisconnectBlock` takes
the other branch (2699), which keeps the flag. In the `wallet` run the markers
stay unspent. The omission shows when every output is spent, the marker
included. The wallet makes no such spend and the pool of the main network
refuses it as non-standard; no rule for blocks forbids it. In the run the block `a3` has `t4`, which spends
the reward, and `z`, which spends the marker: disconnecting it leaves a coinstake
without its flag, an ordinary transaction for `CheckInputs` (2458) from then on.
`CoinsMatchChain` says that everything else is restored in either case.

Other disagreements were met while modelling. They are what the models do, so
properties are stated around them; no run is spent on them.

- Between two rounds of `ActivateBestChain` the tip may be no candidate: the old
  tip is disconnected, a block that sorts worse is connected, the next one is
  invalid. `CheckBlockIndex`, run then by another thread, asserts that it is one
  (main.cpp:5518). `IndexConsistent` is stated for moments when no thread is
  there.
- `ReconsiderBlock` makes ancestors valid again and does not make them
  candidates (3972); the better chain stays inactive until more blocks come, and
  their other children keep `BLOCK_FAILED_CHILD`.
- `InvalidateBlock` marks the tip failed, the flush writes that before the coins
  move, and a crash in between makes the node start on a failed tip with no
  candidate at all (3930).
- Block index entries are written one by one in no useful order (3396); a crash
  leaves children without parents, or script-valid blocks on parents that are
  not.
- A failed flush has emptied the coin cache; the flush of `Shutdown` then names
  the new block over the old coins (txdb.cpp:72). In the same way, when the
  flush in `ConnectTip` or `DisconnectTip` fails, the view is committed and the
  tip is not updated (3563). The node has asked for its own shutdown then, and
  other threads run on until it happens.
- `CheckBlock` means to store a block whose payee it cannot judge "for later
  consideration" (4315); only its hash is kept, and `ReprocessBlocks` mostly finds no
  block index entry for it.
- `FinalizeNode` (389) does not take the blocks of a lost peer off
  `nQueuedValidatedHeaders`, "number of blocks in flight with validated headers"
  (184): the counter only grows, and with it the time limit of later requests.
  `CountersExact` says it never falls below the number in flight.
- A block is asked for by `SendMessages` when it is in `mapBlockIndex` without
  data, and the `block` message skips every hash that is in `mapBlockIndex` as
  "Already processed" (6470). The answer to such a request is therefore never
  used, and only timeouts and disconnections take it off the books.
  `StallerOwesBlock` and `RequestsEnd` speak of the books.
- `CMasternodePaymentWinner::IsValid` refuses votes ranked beyond
  `MNPAYMENTS_SIGNATURES_TOTAL` and lets rank -1 pass
  (masternode-payments.cpp:586), which a node finds for masternodes in its list
  that it takes to be disabled or too young. More than ten masternodes may so be counted for
  a height and two payees reach six votes; `OneWinner` names that case.
- A wallet transaction that never was in a block has depth 0 for ever
  (wallet.cpp:4443), so one that lost to a confirmed rival keeps its other
  inputs spent, against the comment at 425, and one that was never mined is not
  offered to the pool again after a restart (1503).
- The inputs of a rejected SwiftX request are locked (swifttx.cpp:110) and freed
  only if the request is in `mapTxLockReq` (441-446). A lock completed by votes
  that came before its transaction has locked nothing, so two complete rival
  locks do not always cancel each other (396-397). Clean-up frees the inputs of
  an expired request whoever holds them (445).
- A file `mnpayments.dat` that a crash left half written is never replaced
  (masternode-payments.cpp:160), and `peers.dat` is written in place although a
  temporary name is made (net.cpp 1966-1977).
- A spork may be signed up to 3600 times the current time, instead of an hour,
  in the future (spork.cpp:75).
- With `-addressindex`, `DisconnectBlock` asks for an output that is still spent
  and stops at an assertion (2666, coins.cpp:218).

## 6. Limits

- A crash is the end of the process: everything written before it survives.
  Loss of power, with unsynced file pages, is not modelled.
- The tree of blocks and the validity of each block are constants in
  `ChainState`; a lock that makes a block invalid or valid later is covered only
  in that `ReprocessBlocks` reconsiders blocks of `BadConnect`. In `Mempool` the
  tree is a constant and validity follows from the coins.
- `CorruptionPossible` failures are not modelled; as a change of
  `InvalidBlockFound` they make `ActivationEnds` fail.
- The rule by which only coinstakes spend coins older than `Zerocoin_StartHeight`
  (main.cpp 1683 and 3120, coins.cpp:244; wallet.cpp 2238 and 2327) is not in
  `Mempool` and `Wallet`: all coins are taken to be above that height.
- `CommitTransaction` has its coins chosen in the same critical section, as the
  RPC does. The graphical interface prepares and sends under two, and
  `CommitAccepted` says nothing of what happens in between.
- `SendMessages` does not distinguish one-shot connections (6942).
- Items do not leave `mapSeenSyncMNB` and `mapSeenSyncMNW`: `HeardAssetEnds` is
  about a phase in which no masternode is removed and no vote becomes a thousand
  blocks old.
- A payment vote is taken in one step. With 800 masternodes or more a clean-up
  may come between its insertion and its tally (masternode-payments.cpp 421 and
  429), and `TallyMatchesVotes` does not cover that.
- `ReloadKeepsTables` is about a file of the same format, where no tried address
  is lost (`nLost`, addrman.h:382); `CheckPasses` covers files of another format
  too.
- Not in `ChainState`: pruned block files and so the missing-data branch of
  `FindMostWorkChain`, errors of reading or writing block files, `VerifyDB`,
  `-reindex`, `pindexBestInvalid` and the fork warnings. The mempool and wallet
  side of `ConnectTip` and `DisconnectTip` is in `Mempool` and `Wallet`.
- The RPC does not invalidate the genesis block in the model.
- What happens to an index with a missing parent after start-up is not modelled;
  `torn` is a final state.
- Data races on `std::map` (the SwiftX maps read by `CheckBlock`,
  `mapRejectedBlocks` in `ReprocessBlocks`) have no useful set of outcomes; the
  handlers are atomic.

### Not modelled

- Cryptography, script interpretation, zerocoin accumulators, stake kernels, and
  all of `crypto/`, `secp256k1`, `libzerocoin`, `univalue` and `leveldb`: pure
  functions over byte strings and big numbers. Together with the graphical
  interface, the RPC and wallet front ends (argument parsing and formatting) and
  the tests they are most of the lines of the repository.
- Amounts, fees, coin selection and the wallet file: arithmetic over large
  integers and storage; the wallet's control flow towards chain and pool is
  modelled.
- The masternode list: announcements, pings and expiry compare times and ranks
  computed from hashes; the other modules see it as "who may vote" and "is any
  enabled".
- The obfuscation pool: a session needs amounts, keys and signatures of several
  parties, and only an operator's RPC starts one.
- The socket layer: select loops, buffers and bans are I/O; what its threads
  promise to the others is in `BlockDownload`, `Mempool`, `MasternodeSync` and
  `AddrMan`.
- The task scheduler: this program gives it one thread and one repeating task.

## 7. Plan

Proofs that are left: what holds of the index in `ChainState` with
`ReconsiderBlock` in play, and the refinement of a one-step "switch to the best
valid chain" specification.

Models that would come next: masternode announcements and expiry composed with
`MasternodeSync` in place of the free `enabled`; `CoinsCache` under `Mempool`.
