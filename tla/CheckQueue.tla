----------------------------- MODULE CheckQueue -----------------------------
(***************************************************************************)
(* CCheckQueue<CScriptCheck> and CCheckQueueControl (checkqueue.h): the    *)
(* pool of script-checking threads that ConnectBlock uses as a master.     *)
(*                                                                         *)
(* Every access to the shared counters happens in a critical section of    *)
(* "mutex" that only ends in cond.wait, in taking a batch, or in a return, *)
(* so one critical section is one action; executing a batch is lock-free   *)
(* and is an action of its own.  The LIFO order of the queue is abstracted *)
(* to a set: a batch is any subset of the right size.                      *)
(***************************************************************************)
EXTENDS Integers, FiniteSets

CONSTANTS Workers,      \* ThreadScriptCheck threads
          Master,       \* the thread that runs ConnectBlock under cs_main
          Checks,       \* the script checks of one block
          nBatchSize,   \* 128 in main.cpp
          MaxBlocks     \* bound: how many blocks the master verifies

ASSUME CheckQueueAssumption ==
    /\ Master \notin Workers
    /\ IsFiniteSet(Workers)
    /\ IsFiniteSet(Checks)
    /\ nBatchSize \in Nat \ {0}
    /\ MaxBlocks \in Nat

Threads == Workers \cup {Master}

VARIABLES
    queue,        \* std::vector<T> queue
    nIdle,        \* threads inside cond.wait (an interrupted one stays counted)
    nTotal,       \* threads inside Loop (an interrupted one stays counted)
    nTodo,        \* checks in the queue or in some thread's batch
    fAllOk,       \* conjunction of the results so far
    pc,           \* where each thread is
    batch,        \* vChecks of each thread; nNow is its cardinality
    fOk,          \* fOk of each thread
    added,        \* checks added through the current CCheckQueueControl
    bad,          \* checks of the current block that return false
    aborted,      \* the control is being destroyed with fDone = false
    verdict,      \* what the last control.Wait() returned
    blocks,       \* number of controls constructed
    interrupted   \* threads that got their boost::thread interruption

counters == <<nIdle, nTotal, nTodo, fAllOk>>
session == <<added, bad, aborted, verdict, blocks>>
vars == <<queue, counters, pc, batch, fOk, session, interrupted>>

Init == /\ queue = {}
        /\ nIdle = 0 /\ nTotal = 0 /\ nTodo = 0
        /\ fAllOk = TRUE
        /\ pc = [t \in Threads |-> IF t = Master THEN "out" ELSE "enter"]
        /\ batch = [t \in Threads |-> {}]
        /\ fOk = [t \in Threads |-> TRUE]
        /\ added = {} /\ bad = {} /\ aborted = FALSE
        /\ verdict = "dropped"
        /\ blocks = 0
        /\ interrupted = {}

-----------------------------------------------------------------------------
(* The three ways out of a critical section of Loop.  p, idle, total, todo *)
(* and allOk are the thread states and counters after the clean-up at the  *)
(* head of the section.                                                    *)

\* Size of the next batch, from the queue length and the idle threads.
nNow(total, idle) ==
    LET share == Cardinality(queue) \div (total + idle + 1)
        capped == IF share < nBatchSize THEN share ELSE nBatchSize
    IN  IF capped > 1 THEN capped ELSE 1

TakeBatch(t, p, idle, total, todo, allOk) ==
    /\ queue # {}
    /\ \E b \in SUBSET queue :
          /\ Cardinality(b) = nNow(total, idle)
          /\ queue' = queue \ b
          /\ batch' = [batch EXCEPT ![t] = b]
    /\ fOk' = [fOk EXCEPT ![t] = allOk]
    /\ pc' = [p EXCEPT ![t] = "working"]
    /\ nIdle' = idle /\ nTotal' = total /\ nTodo' = todo /\ fAllOk' = allOk
    /\ UNCHANGED session

\* MUTANT of ReturnResult: fAllOk is not reset for the next block.
ReturnResult_KeepsStatus(t, p, idle, total, todo, allOk) ==
    /\ queue = {}
    /\ t = Master /\ todo = 0
    /\ nTotal' = total - 1
    /\ verdict' = CASE aborted -> "dropped"
                  [] ~aborted /\ allOk -> "ok"
                  [] ~aborted /\ ~allOk -> "failed"
    /\ fAllOk' = allOk
    /\ pc' = [p EXCEPT ![t] = "out"]
    /\ batch' = [batch EXCEPT ![t] = {}]
    /\ nIdle' = idle /\ nTodo' = todo
    /\ UNCHANGED <<queue, fOk, added, bad, aborted, blocks>>

ReturnResult(t, p, idle, total, todo, allOk) ==
    /\ queue = {}
    /\ t = Master /\ todo = 0
    /\ nTotal' = total - 1
    /\ verdict' = CASE aborted -> "dropped"
                  [] ~aborted /\ allOk -> "ok"
                  [] ~aborted /\ ~allOk -> "failed"
    /\ fAllOk' = TRUE
    /\ pc' = [p EXCEPT ![t] = "out"]
    /\ batch' = [batch EXCEPT ![t] = {}]
    /\ nIdle' = idle /\ nTodo' = todo
    /\ UNCHANGED <<queue, fOk, added, bad, aborted, blocks>>

GoIdle(t, p, idle, total, todo, allOk) ==
    /\ queue = {}
    /\ ~(t = Master /\ todo = 0)
    /\ nIdle' = idle + 1
    /\ pc' = [p EXCEPT ![t] = "waiting"]
    /\ batch' = [batch EXCEPT ![t] = {}]
    /\ nTotal' = total /\ nTodo' = todo /\ fAllOk' = allOk
    /\ UNCHANGED <<queue, fOk, session>>

Proceed(t, p, idle, total, todo, allOk) ==
    \/ TakeBatch(t, p, idle, total, todo, allOk)
    \/ ReturnResult(t, p, idle, total, todo, allOk)
    \/ GoIdle(t, p, idle, total, todo, allOk)

(* The three ways into a critical section of Loop. *)

FirstIteration(t) ==
    /\ pc[t] = "enter"
    /\ Proceed(t, pc, nIdle, nTotal + 1, nTodo, fAllOk)
    /\ UNCHANGED interrupted

\* MUTANT of NotifyMaster: the last worker forgets the master.
NotifyMaster_Never(t, todo) == pc

\* condMaster.notify_one() by the worker that finished the last check.
NotifyMaster(t, todo) ==
    IF todo = 0 /\ t # Master /\ pc[Master] = "waiting"
    THEN [pc EXCEPT ![Master] = "notified"]
    ELSE pc

\* MUTANT of CleanUp: the batch's result overwrites the conjunction.
CleanUp_Overwrites(t) ==
    /\ pc[t] = "finished"
    /\ LET todo == nTodo - Cardinality(batch[t])
       IN  Proceed(t, NotifyMaster(t, todo), nIdle, nTotal, todo, fOk[t])
    /\ UNCHANGED interrupted

CleanUp(t) ==
    /\ pc[t] = "finished"
    /\ LET todo == nTodo - Cardinality(batch[t])
       IN  Proceed(t, NotifyMaster(t, todo), nIdle, nTotal, todo,
                   fAllOk /\ fOk[t])
    /\ UNCHANGED interrupted

\* MUTANT of Woken: a woken thread stays counted as idle.
Woken_StaysIdle(t) ==
    /\ pc[t] = "notified"
    /\ Proceed(t, pc, nIdle, nTotal, nTodo, fAllOk)
    /\ UNCHANGED interrupted

Woken(t) ==
    /\ pc[t] = "notified"
    /\ Proceed(t, pc, nIdle - 1, nTotal, nTodo, fAllOk)
    /\ UNCHANGED interrupted

\* The lock-free part: stop at the first check that fails.
Execute(t) ==
    /\ pc[t] = "working"
    /\ fOk' = [fOk EXCEPT ![t] = fOk[t] /\ batch[t] \cap bad = {}]
    /\ pc' = [pc EXCEPT ![t] = "finished"]
    /\ UNCHANGED <<queue, counters, batch, session, interrupted>>

\* A condition variable may wake without being notified.
SpuriousWake(t) ==
    /\ pc[t] = "waiting"
    /\ pc' = [pc EXCEPT ![t] = "notified"]
    /\ UNCHANGED <<queue, counters, batch, fOk, session, interrupted>>

\* threadGroup.interrupt_all() at shutdown: cond.wait throws.  A worker is
\* gone; the master unwinds to ~CCheckQueueControl, which calls Wait again.
Interrupt(t) ==
    /\ pc[t] \in {"waiting", "notified"}
    /\ t \notin interrupted
    /\ interrupted' = interrupted \cup {t}
    /\ \/ /\ t # Master
          /\ pc' = [pc EXCEPT ![t] = "gone"]
          /\ UNCHANGED aborted
       \/ /\ t = Master /\ ~aborted
          /\ pc' = [pc EXCEPT ![t] = "enter"]
          /\ aborted' = TRUE
    /\ UNCHANGED <<queue, counters, batch, fOk, added, bad, verdict, blocks>>

-----------------------------------------------------------------------------
(* The master outside Loop: ConnectBlock. *)

IsIdle == nTotal = nIdle /\ nTodo = 0 /\ fAllOk

Construct ==
    /\ pc[Master] = "out"
    /\ blocks < MaxBlocks
    /\ blocks' = blocks + 1
    /\ added' = {}
    /\ bad' \in SUBSET Checks
    /\ aborted' = FALSE
    /\ verdict' = "dropped"
    /\ pc' = [pc EXCEPT ![Master] = "adding"]
    /\ UNCHANGED <<queue, counters, batch, fOk, interrupted>>

\* condWorker: one waiting worker for one check, all of them for more.
NotifyWorkers(n) ==
    LET waiting == {w \in Workers : pc[w] = "waiting"}
    IN  IF n = 0 \/ waiting = {} THEN {{}}
        ELSE IF n = 1 THEN {{w} : w \in waiting} ELSE {waiting}

Add ==
    /\ pc[Master] = "adding"
    /\ \E s \in SUBSET (Checks \ added) :
          /\ queue' = queue \cup s
          /\ added' = added \cup s
          /\ nTodo' = nTodo + Cardinality(s)
          /\ \E woken \in NotifyWorkers(Cardinality(s)) :
                pc' = [t \in Threads |->
                         IF t \in woken THEN "notified" ELSE pc[t]]
    /\ UNCHANGED <<nIdle, nTotal, fAllOk, batch, fOk, bad, aborted, verdict,
                   blocks, interrupted>>

\* control.Wait(), or the destructor after an early return of ConnectBlock.
CallWait ==
    /\ pc[Master] = "adding"
    /\ aborted' \in BOOLEAN
    /\ pc' = [pc EXCEPT ![Master] = "enter"]
    /\ UNCHANGED <<queue, counters, batch, fOk, added, bad, verdict, blocks,
                   interrupted>>

InLoop(t) == FirstIteration(t) \/ CleanUp(t) \/ Woken(t) \/ Execute(t)

Next == \/ \E t \in Threads : InLoop(t) \/ SpuriousWake(t) \/ Interrupt(t)
        \/ Construct \/ Add \/ CallWait

Spec == Init /\ [][Next]_vars

\* A thread that is runnable keeps running; the master never has to verify
\* another block, and no condition variable has to wake by itself.
FairSpec == Spec /\ \A t \in Threads : WF_vars(InLoop(t))

-----------------------------------------------------------------------------
(* Type correctness of CCheckQueue's members; nTodo, an unsigned int, never *)
(* wraps below zero and no more threads are idle than are in Loop.          *)
TypeOK ==
    /\ queue \in SUBSET Checks
    /\ nIdle \in Nat /\ nTotal \in Nat /\ nIdle <= nTotal
    /\ nTodo \in Nat
    /\ fAllOk \in BOOLEAN
    /\ pc \in [Threads -> {"out", "adding", "enter", "working", "finished",
                           "waiting", "notified", "gone"}]
    /\ batch \in [Threads -> SUBSET Checks]
    /\ fOk \in [Threads -> BOOLEAN]
    /\ added \in SUBSET Checks /\ bad \in SUBSET Checks
    /\ aborted \in BOOLEAN
    /\ verdict \in {"dropped", "ok", "failed"}
    /\ blocks \in 0..MaxBlocks
    /\ interrupted \in SUBSET Threads

(* The assert(isIdle) of the CCheckQueueControl constructor never fires:    *)
(* whenever the master may construct a control, every thread in Loop is     *)
(* idle, nothing is left to do and no failure of an earlier block lingers,  *)
(* even after an early return or an interrupted wait.                       *)
IdleAtConstruction == pc[Master] = "out" => IsIdle

(* A block's verdict is the conjunction of exactly the checks added for it, *)
(* whichever threads ran them and whatever an earlier block left behind.    *)
Verifier == INSTANCE ScriptVerifier WITH open <- pc[Master] # "out"
ImplementsVerifier == Verifier!Spec

(* Once the master calls Wait it returns, also when every worker has been   *)
(* interrupted: the master serves the queue itself, and whoever finishes    *)
(* the last check wakes it.                                                 *)
WaitReturns == pc[Master] = "enter" ~> pc[Master] = "out"
=============================================================================
