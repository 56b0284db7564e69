------------------------- MODULE CheckQueue_proofs -------------------------
(***************************************************************************)
(* Proofs about CheckQueue, for any number of workers, checks and blocks.  *)
(* The inductive invariant counts: nTodo is the number of checks that are  *)
(* queued or in a batch, nIdle the number of sleeping or interrupted       *)
(* threads, and nTotal exceeds nIdle by the number of busy threads.        *)
(***************************************************************************)
EXTENDS CheckQueue, FiniteSetTheorems, TLAPS

PCs == {"out", "adding", "enter", "working", "finished", "waiting",
        "notified", "gone"}

Busy(p) == {u \in Threads : p[u] \in {"working", "finished"}}
Sleeping(p) == {u \in Threads : p[u] \in {"waiting", "notified"}}
Held(S) == UNION {batch[u] : u \in S}
Outstanding == queue \cup Held(Threads)

\* The part of TypeOK that needs no counting.
Shape ==
    /\ queue \in SUBSET Checks
    /\ nIdle \in Int /\ nTotal \in Int /\ nTodo \in Int
    /\ fAllOk \in BOOLEAN
    /\ pc \in [Threads -> PCs]
    /\ batch \in [Threads -> SUBSET Checks]
    /\ fOk \in [Threads -> BOOLEAN]
    /\ added \in SUBSET Checks /\ bad \in SUBSET Checks
    /\ aborted \in BOOLEAN
    /\ verdict \in {"dropped", "ok", "failed"}
    /\ blocks \in 0..MaxBlocks
    /\ interrupted \in SUBSET Threads

Disjoint ==
    /\ \A u \in Threads : queue \cap batch[u] = {}
    /\ \A u, v \in Threads : u # v => batch[u] \cap batch[v] = {}
    /\ \A u \in Threads : (u \in Busy(pc)) <=> (batch[u] # {})

Counts ==
    /\ nTodo = Cardinality(Outstanding)
    /\ nIdle = Cardinality(Sleeping(pc)) + Cardinality(interrupted)
    /\ nTotal = nIdle + Cardinality(Busy(pc))

\* What the partial results say about the checks of the current block.
Results ==
    /\ Outstanding \subseteq added
    /\ fAllOk /\ pc[Master] # "out" => (added \ Outstanding) \cap bad = {}
    /\ ~fAllOk => added \cap bad # {}
    /\ \A u \in Busy(pc) : ~fOk[u] => added \cap bad # {}
    /\ \A u \in Threads :
          pc[u] = "finished" /\ fOk[u] => batch[u] \cap bad = {}

Roles ==
    /\ \A w \in Workers : pc[w] \notin {"out", "adding"}
    /\ pc[Master] # "gone"
    /\ pc[Master] = "out" => nTodo = 0 /\ fAllOk

IndInv == Shape /\ Disjoint /\ Counts /\ Results /\ Roles

-----------------------------------------------------------------------------
(* The state in the middle of a critical section of thread t, after its    *)
(* clean-up: t is neither busy nor asleep, and its old batch is accounted. *)
Rest(t) == queue \cup Held(Threads \ {t})

Mid(t, p, idle, total, todo, allOk) ==
    /\ p \in [Threads -> PCs]
    /\ idle \in Int /\ total \in Int /\ todo \in Int /\ allOk \in BOOLEAN
    /\ \A u \in Threads \ {t} : (u \in Busy(p)) <=> (batch[u] # {})
    /\ \A w \in Workers : p[w] \notin {"out", "adding"}
    /\ p[Master] # "gone"
    /\ p[Master] = "out" => todo = 0 /\ allOk
    /\ todo = Cardinality(Rest(t))
    /\ idle = Cardinality(Sleeping(p) \ {t}) + Cardinality(interrupted)
    /\ total = idle + Cardinality(Busy(p) \ {t}) + 1
    /\ Rest(t) \subseteq added
    /\ allOk /\ p[Master] # "out" => (added \ Rest(t)) \cap bad = {}
    /\ ~allOk => added \cap bad # {}
    /\ \A u \in Busy(p) \ {t} : ~fOk[u] => added \cap bad # {}
    /\ \A u \in Threads \ {t} :
          p[u] = "finished" /\ fOk[u] => batch[u] \cap bad = {}

\* Every set whose size is counted is finite.
LEMMA Finiteness ==
    ASSUME Shape
    PROVE  /\ IsFiniteSet(Threads) /\ IsFiniteSet(interrupted)
           /\ \A S \in SUBSET Threads : IsFiniteSet(S) /\ Cardinality(S) \in Nat
           /\ \A S \in SUBSET Checks : IsFiniteSet(S) /\ Cardinality(S) \in Nat
<1>1. IsFiniteSet(Threads)
  BY FS_AddElement, CheckQueueAssumption DEF Threads
<1>2. \A S \in SUBSET Threads : IsFiniteSet(S) /\ Cardinality(S) \in Nat
  BY <1>1, FS_Subset, FS_CardinalityType
<1>3. \A S \in SUBSET Checks : IsFiniteSet(S) /\ Cardinality(S) \in Nat
  BY CheckQueueAssumption, FS_Subset, FS_CardinalityType
<1> QED
  BY <1>1, <1>2, <1>3 DEF Shape

\* Taking a batch b out of the queue re-establishes the invariant.
LEMMA TakeBatchInv ==
    ASSUME Shape, Disjoint, NEW t \in Threads,
           NEW p, NEW idle, NEW total, NEW todo, NEW allOk,
           Mid(t, p, idle, total, todo, allOk),
           TakeBatch(t, p, idle, total, todo, allOk), UNCHANGED interrupted
    PROVE  IndInv'
<1> PICK b \in SUBSET queue : /\ Cardinality(b) = nNow(total, idle)
                              /\ queue' = queue \ b
                              /\ batch' = [batch EXCEPT ![t] = b]
  BY DEF TakeBatch
<1>1. /\ pc' = [p EXCEPT ![t] = "working"]
      /\ fOk' = [fOk EXCEPT ![t] = allOk]
      /\ nIdle' = idle /\ nTotal' = total /\ nTodo' = todo /\ fAllOk' = allOk
      /\ UNCHANGED <<added, bad, aborted, verdict, blocks, interrupted>>
  BY DEF TakeBatch, session
<1>2. b # {}
  <2>1. nNow(total, idle) # 0
    <3>1. Cardinality(queue) \in Nat
      BY Finiteness DEF Shape
    <3> DEFINE share == Cardinality(queue) \div (total + idle + 1)
               capped == IF share < nBatchSize THEN share ELSE nBatchSize
    <3>2. CASE capped > 1
      BY <3>2, <3>1 DEF nNow
    <3>3. CASE ~(capped > 1)
      BY <3>3, <3>1 DEF nNow
    <3> QED BY <3>2, <3>3
  <2> QED
    BY <2>1, FS_EmptySet
<1>3. Shape'
  BY <1>1, CheckQueueAssumption DEF Shape, Mid, PCs
<1>4. Busy(pc') = (Busy(p) \ {t}) \cup {t} /\ Sleeping(pc') = Sleeping(p) \ {t}
  BY <1>1 DEF Busy, Sleeping, Mid
<1>5. Outstanding' = Rest(t)
  BY DEF Outstanding, Rest, Held, Shape
<1>6. Disjoint'
  <2>1. \A u \in Threads : queue' \cap batch'[u] = {}
    BY DEF Disjoint, Shape
  <2>2. \A u, v \in Threads : u # v => batch'[u] \cap batch'[v] = {}
    BY DEF Disjoint, Shape
  <2>3. \A u \in Threads : (u \in Busy(pc')) <=> (batch'[u] # {})
    BY <1>2, <1>4 DEF Mid, Shape
  <2> QED BY <2>1, <2>2, <2>3 DEF Disjoint, Busy
<1>7. Counts'
  <2>1. /\ IsFiniteSet(Busy(p) \ {t}) /\ t \notin Busy(p) \ {t}
        /\ Cardinality(Busy(p) \ {t}) \in Nat
    BY Finiteness DEF Busy
  <2>2. Cardinality(Busy(pc')) = Cardinality(Busy(p) \ {t}) + 1
    BY <2>1, <1>4, FS_AddElement
  <2>3. nTotal' = nIdle' + Cardinality(Busy(pc'))
    BY <2>1, <2>2, <1>1 DEF Mid
  <2>4. nIdle' = Cardinality(Sleeping(pc')) + Cardinality(interrupted')
    BY <1>1, <1>4 DEF Mid
  <2>5. nTodo' = Cardinality(Outstanding')
    BY <1>1, <1>5 DEF Mid
  <2> QED BY <2>3, <2>4, <2>5 DEF Counts, Busy, Sleeping
<1>8. Results'
  <2>1. pc'[Master] = "out" => p[Master] = "out"
    BY <1>1 DEF Mid, Threads
  <2>2. pc'[t] = "working" /\ fOk'[t] = allOk
    BY <1>1 DEF Mid, Shape
  <2>3. \A u \in Threads \ {t} : pc'[u] = p[u] /\ fOk'[u] = fOk[u] /\ batch'[u] = batch[u]
    BY <1>1 DEF Mid, Shape
  <2>4. p[Master] = "out" /\ t # Master => pc'[Master] = "out"
    BY <1>1 DEF Mid, Threads
  <2>5. Outstanding' \subseteq added'
    BY <1>1, <1>5 DEF Mid
  <2>6. p[Master] # "out"
    <3>1. SUFFICES ASSUME p[Master] = "out" PROVE FALSE
      OBVIOUS
    <3>2. Cardinality(Rest(t)) = 0
      BY <3>1 DEF Mid
    <3>3. Rest(t) \in SUBSET Checks
      BY DEF Rest, Held, Shape
    <3>4. Rest(t) = {}
      BY <3>2, <3>3, Finiteness, FS_EmptySet
    <3> QED BY <3>4, <1>2 DEF Rest
  <2>7. fAllOk' => (added' \ Outstanding') \cap bad' = {}
    BY <1>1, <1>5, <2>6 DEF Mid
  <2>8. ~fAllOk' => added' \cap bad' # {}
    BY <1>1 DEF Mid
  <2>9. \A u \in Busy(pc') : ~fOk'[u] => added' \cap bad' # {}
    <3>1. SUFFICES ASSUME NEW u \in Busy(pc'), ~fOk'[u]
                   PROVE  added \cap bad # {}
      BY <1>1
    <3>2. CASE u = t
      BY <3>1, <3>2, <2>2 DEF Mid
    <3>3. CASE u # t
      <4>1. u \in Busy(p) \ {t} /\ ~fOk[u]
        BY <3>1, <3>3, <1>4, <2>3 DEF Busy
      <4> QED BY <4>1 DEF Mid
    <3> QED BY <3>2, <3>3
  <2>10. \A u \in Threads : pc'[u] = "finished" /\ fOk'[u] => batch'[u] \cap bad' = {}
    BY <1>1, <2>2, <2>3 DEF Mid
  <2> QED BY <2>5, <2>7, <2>8, <2>9, <2>10 DEF Results, Busy
<1>9. Roles'
  BY <1>1 DEF Roles, Mid, Threads
<1> QED BY <1>3, <1>6, <1>7, <1>8, <1>9 DEF IndInv

\* What ReturnResult and GoIdle share: t ends up with an empty batch.
LEMMA LeaveBatch ==
    ASSUME Shape, Disjoint, NEW t \in Threads, NEW p \in [Threads -> PCs],
           NEW c \in PCs \ {"working", "finished"},
           \A u \in Threads \ {t} : (u \in Busy(p)) <=> (batch[u] # {}),
           pc' = [p EXCEPT ![t] = c],
           batch' = [batch EXCEPT ![t] = {}], queue' = queue
    PROVE  /\ Disjoint' /\ Outstanding' = Rest(t)
           /\ Busy(pc') = Busy(p) \ {t}
           /\ Sleeping(pc') = IF c \in {"waiting", "notified"}
                              THEN (Sleeping(p) \ {t}) \cup {t}
                              ELSE Sleeping(p) \ {t}
<1>1. Busy(pc') = Busy(p) \ {t}
  BY DEF Busy
<1>2. Outstanding' = Rest(t)
  BY DEF Outstanding, Rest, Held, Shape
<1>3. \A u \in Threads : (u \in Busy(pc')) <=> (batch'[u] # {})
  BY <1>1 DEF Shape
<1>4. Disjoint'
  BY <1>3 DEF Disjoint, Shape, Busy
<1>5. CASE c \in {"waiting", "notified"}
  BY <1>1, <1>2, <1>4, <1>5 DEF Sleeping
<1>6. CASE c \notin {"waiting", "notified"}
  BY <1>1, <1>2, <1>4, <1>6 DEF Sleeping
<1> QED BY <1>5, <1>6

\* The master returns with the conjunction and leaves an idle queue.
LEMMA ReturnResultInv ==
    ASSUME Shape, Disjoint, NEW t \in Threads,
           NEW p, NEW idle, NEW total, NEW todo, NEW allOk,
           Mid(t, p, idle, total, todo, allOk),
           ReturnResult(t, p, idle, total, todo, allOk), UNCHANGED interrupted
    PROVE  IndInv'
<1>1. /\ queue = {} /\ queue' = {} /\ t = Master /\ todo = 0
      /\ nTotal' = total - 1 /\ nIdle' = idle /\ nTodo' = 0 /\ fAllOk' = TRUE
      /\ pc' = [p EXCEPT ![t] = "out"] /\ batch' = [batch EXCEPT ![t] = {}]
      /\ verdict' \in {"dropped", "ok", "failed"}
      /\ UNCHANGED <<fOk, added, bad, aborted, blocks, interrupted>>
  BY DEF ReturnResult, Mid, Shape
<1>2. Shape'
  BY <1>1 DEF Shape, Mid, PCs
<1>3. /\ Disjoint' /\ Outstanding' = Rest(t)
      /\ Busy(pc') = Busy(p) \ {t} /\ Sleeping(pc') = Sleeping(p) \ {t}
  <2>1. "out" \in PCs \ {"working", "finished"}
    BY DEF PCs
  <2> QED BY <1>1, <2>1, LeaveBatch DEF Mid
<1>4. Counts'
  <2>1. Cardinality(Busy(p) \ {t}) \in Nat
    BY Finiteness DEF Busy
  <2>2. nTodo' = Cardinality(Outstanding')
    BY <1>1, <1>3 DEF Mid
  <2>3. nIdle' = Cardinality(Sleeping(pc')) + Cardinality(interrupted')
    BY <1>1, <1>3 DEF Mid
  <2>4. nTotal' = nIdle' + Cardinality(Busy(pc'))
    <3>1. idle \in Int /\ total = idle + Cardinality(Busy(p) \ {t}) + 1
      BY DEF Mid
    <3>2. nTotal' = total - 1 /\ nIdle' = idle /\ Busy(pc') = Busy(p) \ {t}
      BY <1>1, <1>3
    <3> QED BY <3>1, <3>2, <2>1
  <2> QED BY <2>2, <2>3, <2>4 DEF Counts, Busy, Sleeping
<1>5. Results'
  <2>1. pc'[Master] = "out"
    BY <1>1 DEF Mid
  <2>2. \A u \in Threads \ {t} : pc'[u] = p[u] /\ batch'[u] = batch[u]
    BY <1>1 DEF Mid, Shape
  <2>3. \A u \in Busy(pc') : ~fOk'[u] => added' \cap bad' # {}
    BY <1>1, <1>3 DEF Mid
  <2>4. \A u \in Threads : pc'[u] = "finished" /\ fOk'[u] => batch'[u] \cap bad' = {}
    BY <1>1, <2>1, <2>2 DEF Mid
  <2> QED BY <1>1, <1>3, <2>1, <2>3, <2>4 DEF Results, Mid, Busy
<1>6. Roles'
  BY <1>1, CheckQueueAssumption DEF Roles, Mid, Threads
<1> QED BY <1>2, <1>3, <1>4, <1>5, <1>6 DEF IndInv

\* A thread that finds nothing to do goes to sleep.
LEMMA GoIdleInv ==
    ASSUME Shape, Disjoint, NEW t \in Threads,
           NEW p, NEW idle, NEW total, NEW todo, NEW allOk,
           Mid(t, p, idle, total, todo, allOk),
           GoIdle(t, p, idle, total, todo, allOk), UNCHANGED interrupted
    PROVE  IndInv'
<1>1. /\ queue' = queue /\ nTotal' = total /\ nIdle' = idle + 1 /\ nTodo' = todo
      /\ fAllOk' = allOk
      /\ pc' = [p EXCEPT ![t] = "waiting"] /\ batch' = [batch EXCEPT ![t] = {}]
      /\ UNCHANGED <<fOk, added, bad, aborted, verdict, blocks, interrupted>>
  BY DEF GoIdle, session
<1>2. Shape'
  BY <1>1 DEF Shape, Mid, PCs
<1>3. /\ Disjoint' /\ Outstanding' = Rest(t)
      /\ Busy(pc') = Busy(p) \ {t}
      /\ Sleeping(pc') = (Sleeping(p) \ {t}) \cup {t}
  <2>1. "waiting" \in PCs \ {"working", "finished"}
    BY DEF PCs
  <2> QED BY <1>1, <2>1, LeaveBatch DEF Mid
<1>4. Counts'
  <2>1. Cardinality(Busy(p) \ {t}) \in Nat /\ Cardinality(interrupted) \in Nat
    BY Finiteness DEF Busy, Shape
  <2>2. IsFiniteSet(Sleeping(p) \ {t}) /\ Cardinality(Sleeping(p) \ {t}) \in Nat
    BY Finiteness DEF Sleeping
  <2>3. Cardinality(Sleeping(pc')) = Cardinality(Sleeping(p) \ {t}) + 1
    BY <1>3, <2>2, FS_AddElement
  <2> QED BY <1>1, <1>3, <2>1, <2>2, <2>3 DEF Counts, Mid, Busy, Sleeping
<1>5. Results'
  <2>1. pc'[Master] # "out" => p[Master] # "out" \/ t = Master
    BY <1>1 DEF Mid, Threads
  <2>2. \A u \in Threads \ {t} : pc'[u] = p[u] /\ batch'[u] = batch[u]
    BY <1>1 DEF Mid, Shape
  <2>3. pc'[t] = "waiting"
    BY <1>1 DEF Mid
  <2>4. \A u \in Busy(pc') : ~fOk'[u] => added' \cap bad' # {}
    BY <1>1, <1>3 DEF Mid
  <2>5. \A u \in Threads : pc'[u] = "finished" /\ fOk'[u] => batch'[u] \cap bad' = {}
    BY <1>1, <2>2, <2>3 DEF Mid
  <2>6. fAllOk' /\ pc'[Master] # "out" => (added' \ Outstanding') \cap bad' = {}
    <3>1. CASE p[Master] = "out" /\ t = Master
      BY <1>1, <3>1 DEF Mid, GoIdle
    <3>2. CASE p[Master] # "out"
      BY <1>1, <1>3, <3>2 DEF Mid
    <3> QED BY <2>1, <3>1, <3>2
  <2> QED BY <1>1, <1>3, <2>4, <2>5, <2>6 DEF Results, Mid, Busy
<1>6. Roles'
  BY <1>1 DEF Roles, Mid, Threads
<1> QED BY <1>2, <1>3, <1>4, <1>5, <1>6 DEF IndInv

LEMMA ProceedInv ==
    ASSUME Shape, Disjoint, NEW t \in Threads,
           NEW p, NEW idle, NEW total, NEW todo, NEW allOk,
           Mid(t, p, idle, total, todo, allOk),
           Proceed(t, p, idle, total, todo, allOk), UNCHANGED interrupted
    PROVE  IndInv'
  BY TakeBatchInv, ReturnResultInv, GoIdleInv DEF Proceed

\* A thread without a batch: what the first iteration and a wake-up share.
LEMMA MidWithoutBatch ==
    ASSUME IndInv, NEW t \in Threads, pc[t] \in {"enter", "notified"}
    PROVE  /\ batch[t] = {} /\ Rest(t) = Outstanding
           /\ Busy(pc) \ {t} = Busy(pc)
           /\ Sleeping(pc) = IF pc[t] = "notified" THEN (Sleeping(pc) \ {t}) \cup {t}
                             ELSE Sleeping(pc) \ {t}
           /\ Cardinality(Busy(pc)) \in Nat /\ Cardinality(interrupted) \in Nat
           /\ Cardinality(Sleeping(pc)) \in Nat
           /\ IsFiniteSet(Sleeping(pc) \ {t})
<1>1. t \notin Busy(pc)
  BY DEF Busy
<1>2. batch[t] = {}
  BY <1>1 DEF IndInv, Disjoint
<1>3. Rest(t) = Outstanding
  BY <1>2 DEF Rest, Outstanding, Held
<1>4. /\ Cardinality(Busy(pc)) \in Nat /\ Cardinality(interrupted) \in Nat
      /\ Cardinality(Sleeping(pc)) \in Nat /\ IsFiniteSet(Sleeping(pc) \ {t})
  BY Finiteness DEF Busy, Sleeping, IndInv, Shape
<1>5. CASE pc[t] = "notified"
  BY <1>1, <1>2, <1>3, <1>4, <1>5 DEF Sleeping
<1>6. CASE pc[t] = "enter"
  BY <1>1, <1>2, <1>3, <1>4, <1>6 DEF Sleeping
<1> QED BY <1>5, <1>6

LEMMA FirstIterationMid ==
    ASSUME IndInv, NEW t \in Threads, pc[t] = "enter"
    PROVE  Mid(t, pc, nIdle, nTotal + 1, nTodo, fAllOk)
<1>1. /\ nTodo = Cardinality(Rest(t))
      /\ nIdle = Cardinality(Sleeping(pc) \ {t}) + Cardinality(interrupted)
      /\ nTotal + 1 = nIdle + Cardinality(Busy(pc) \ {t}) + 1
  BY MidWithoutBatch DEF IndInv, Counts
<1>2. /\ Rest(t) \subseteq added
      /\ fAllOk /\ pc[Master] # "out" => (added \ Rest(t)) \cap bad = {}
  BY MidWithoutBatch DEF IndInv, Results
<1> QED BY <1>1, <1>2 DEF Mid, IndInv, Shape, Disjoint, Results, Roles

LEMMA FirstIterationInv ==
    ASSUME IndInv, NEW t \in Threads, FirstIteration(t)
    PROVE  IndInv'
<1>1. /\ pc[t] = "enter" /\ UNCHANGED interrupted
      /\ Proceed(t, pc, nIdle, nTotal + 1, nTodo, fAllOk)
  BY DEF FirstIteration
<1> QED BY <1>1, FirstIterationMid, ProceedInv DEF IndInv

LEMMA WokenMid ==
    ASSUME IndInv, NEW t \in Threads, pc[t] = "notified"
    PROVE  Mid(t, pc, nIdle - 1, nTotal, nTodo, fAllOk)
<1>1. Cardinality(Sleeping(pc)) = Cardinality(Sleeping(pc) \ {t}) + 1
  BY MidWithoutBatch, FS_AddElement
<1>2. Cardinality(Sleeping(pc) \ {t}) \in Nat
  BY Finiteness DEF Sleeping, IndInv
<1>3. /\ nTodo = Cardinality(Outstanding) /\ nIdle \in Int
      /\ nIdle = Cardinality(Sleeping(pc)) + Cardinality(interrupted)
      /\ nTotal = nIdle + Cardinality(Busy(pc))
  BY DEF IndInv, Counts, Shape
<1>4. /\ Rest(t) = Outstanding /\ Busy(pc) \ {t} = Busy(pc)
      /\ Cardinality(Busy(pc)) \in Nat /\ Cardinality(interrupted) \in Nat
  BY MidWithoutBatch
<1>5. nTodo = Cardinality(Rest(t))
  BY <1>3, <1>4
<1>6. nIdle - 1 = Cardinality(Sleeping(pc) \ {t}) + Cardinality(interrupted)
  BY <1>1, <1>2, <1>3, <1>4
<1>7. Cardinality(Busy(pc) \ {t}) = Cardinality(Busy(pc))
  BY <1>4
<1>8. nTotal = (nIdle - 1) + Cardinality(Busy(pc) \ {t}) + 1
  BY <1>3, <1>4, <1>7
<1>9. /\ Rest(t) \subseteq added
      /\ fAllOk /\ pc[Master] # "out" => (added \ Rest(t)) \cap bad = {}
  BY <1>4 DEF IndInv, Results
<1> QED BY <1>5, <1>6, <1>8, <1>9 DEF Mid, IndInv, Shape, Disjoint, Results, Roles

LEMMA WokenInv ==
    ASSUME IndInv, NEW t \in Threads, Woken(t)
    PROVE  IndInv'
<1>1. /\ pc[t] = "notified" /\ UNCHANGED interrupted
      /\ Proceed(t, pc, nIdle - 1, nTotal, nTodo, fAllOk)
  BY DEF Woken
<1> QED BY <1>1, WokenMid, ProceedInv DEF IndInv

\* A thread that accounts for its finished batch.
LEMMA CleanUpMid ==
    ASSUME IndInv, NEW t \in Threads, pc[t] = "finished", NEW todo,
           todo = nTodo - Cardinality(batch[t])
    PROVE  Mid(t, NotifyMaster(t, todo), nIdle, nTotal, todo, fAllOk /\ fOk[t])
<1> DEFINE p == NotifyMaster(t, todo)
<1>1. /\ Shape /\ Disjoint /\ Counts /\ Results /\ Roles
  BY DEF IndInv
<1>2. /\ p \in [Threads -> PCs] /\ p[t] = pc[t]
      /\ \A u \in Threads : p[u] = pc[u] \/ (pc[u] = "waiting" /\ p[u] = "notified")
  BY <1>1 DEF NotifyMaster, Shape, PCs, Threads
<1>3. Busy(p) = Busy(pc) /\ Sleeping(p) = Sleeping(pc)
  BY <1>2 DEF Busy, Sleeping
<1>4. t \in Busy(pc) /\ t \notin Sleeping(pc) /\ batch[t] # {}
  BY <1>1 DEF Busy, Sleeping, Disjoint
<1>5. /\ batch[t] \in SUBSET Checks /\ Rest(t) \in SUBSET Checks
      /\ Outstanding = Rest(t) \cup batch[t] /\ Rest(t) \cap batch[t] = {}
  BY <1>1 DEF Rest, Outstanding, Held, Disjoint, Shape
<1>6. todo = Cardinality(Rest(t)) /\ todo \in Int
  <2>1. /\ IsFiniteSet(batch[t]) /\ IsFiniteSet(Rest(t))
        /\ Cardinality(batch[t]) \in Nat /\ Cardinality(Rest(t)) \in Nat
    BY <1>1, <1>5, Finiteness
  <2>2. Cardinality(Outstanding) = Cardinality(Rest(t)) + Cardinality(batch[t])
    <3>1. Cardinality(Rest(t) \cup batch[t]) =
             Cardinality(Rest(t)) + Cardinality(batch[t])
               - Cardinality(Rest(t) \cap batch[t])
      BY <2>1, FS_Union
    <3>2. Cardinality(Rest(t) \cap batch[t]) = 0
      BY <1>5, FS_EmptySet
    <3>3. Cardinality(Outstanding) = Cardinality(Rest(t) \cup batch[t])
      BY <1>5
    <3> QED BY <2>1, <3>1, <3>2, <3>3
  <2>3. nTodo = Cardinality(Outstanding)
    BY <1>1 DEF Counts
  <2> QED BY <2>1, <2>2, <2>3
<1>7. nTotal = nIdle + Cardinality(Busy(p) \ {t}) + 1
  <2>1. IsFiniteSet(Busy(pc)) /\ Cardinality(Busy(pc)) \in Nat
    BY <1>1, Finiteness DEF Busy
  <2>2. Cardinality(Busy(pc) \ {t}) = Cardinality(Busy(pc)) - 1
    BY <2>1, <1>4, FS_RemoveElement
  <2>3. nTotal = nIdle + Cardinality(Busy(pc)) /\ nIdle \in Int
    BY <1>1 DEF Counts, Shape
  <2>4. Cardinality(Busy(p) \ {t}) = Cardinality(Busy(pc) \ {t})
    BY <1>3
  <2> HIDE DEF p
  <2> QED BY <2>1, <2>2, <2>3, <2>4
<1>8. nIdle = Cardinality(Sleeping(p) \ {t}) + Cardinality(interrupted)
  <2>1. Sleeping(p) \ {t} = Sleeping(pc)
    BY <1>3, <1>4
  <2> QED BY <1>1, <2>1 DEF Counts
<1>9. p[Master] # "out"
  <2>1. SUFFICES ASSUME pc[Master] = "out" PROVE FALSE
    BY <1>2 DEF Threads
  <2>2. Outstanding = {}
    <3>1. Outstanding \in SUBSET Checks
      BY <1>5
    <3>2. Cardinality(Outstanding) = 0
      BY <1>1, <2>1 DEF Roles, Counts
    <3> QED BY <1>1, <3>1, <3>2, Finiteness, FS_EmptySet
  <2> QED BY <2>2, <1>4, <1>5
<1>10. /\ \A w \in Workers : p[w] \notin {"out", "adding"}
       /\ p[Master] # "gone"
  BY <1>1, <1>2 DEF Roles, Threads
<1>11. /\ Rest(t) \subseteq added
       /\ fAllOk /\ fOk[t] => (added \ Rest(t)) \cap bad = {}
       /\ ~(fAllOk /\ fOk[t]) => added \cap bad # {}
  <2>1. pc[Master] # "out"
    BY <1>2, <1>9 DEF Threads
  <2>2. fOk[t] => batch[t] \cap bad = {}
    BY <1>1 DEF Results
  <2>3. fAllOk => (added \ Outstanding) \cap bad = {}
    BY <1>1, <2>1 DEF Results
  <2>4. /\ Rest(t) \subseteq added
        /\ fAllOk /\ fOk[t] => (added \ Rest(t)) \cap bad = {}
    BY <1>1, <1>5, <2>2, <2>3 DEF Results
  <2>5. ~(fAllOk /\ fOk[t]) => added \cap bad # {}
    BY <1>1, <1>4 DEF Results
  <2> QED BY <2>4, <2>5
<1>12. /\ \A u \in Busy(p) \ {t} : ~fOk[u] => added \cap bad # {}
       /\ \A u \in Threads \ {t} :
             p[u] = "finished" /\ fOk[u] => batch[u] \cap bad = {}
  BY <1>1, <1>2, <1>3 DEF Results
<1>13. \A u \in Threads \ {t} : (u \in Busy(p)) <=> (batch[u] # {})
  BY <1>1, <1>3 DEF Disjoint
<1>14. (fAllOk /\ fOk[t]) \in BOOLEAN /\ nIdle \in Int /\ nTotal \in Int
  BY <1>1 DEF Shape
<1> QED
  BY <1>2, <1>6, <1>7, <1>8, <1>9, <1>10, <1>11, <1>12, <1>13, <1>14 DEF Mid

LEMMA CleanUpInv ==
    ASSUME IndInv, NEW t \in Threads, CleanUp(t)
    PROVE  IndInv'
<1> DEFINE todo == nTodo - Cardinality(batch[t])
<1>1. /\ Proceed(t, NotifyMaster(t, todo), nIdle, nTotal, todo, fAllOk /\ fOk[t])
      /\ pc[t] = "finished" /\ UNCHANGED interrupted
  BY DEF CleanUp
<1>2. Mid(t, NotifyMaster(t, todo), nIdle, nTotal, todo, fAllOk /\ fOk[t])
  BY <1>1, CleanUpMid
<1> QED BY <1>1, <1>2, ProceedInv DEF IndInv

LEMMA ExecuteInv ==
    ASSUME IndInv, NEW t \in Threads, Execute(t)
    PROVE  IndInv'
<1>1. /\ pc[t] = "working" /\ pc' = [pc EXCEPT ![t] = "finished"]
      /\ fOk' = [fOk EXCEPT ![t] = fOk[t] /\ batch[t] \cap bad = {}]
      /\ UNCHANGED <<queue, nIdle, nTotal, nTodo, fAllOk, batch, added, bad,
                     aborted, verdict, blocks, interrupted>>
  BY DEF Execute, counters, session
<1>2. /\ Shape /\ Disjoint /\ Counts /\ Results /\ Roles
  BY DEF IndInv
<1>3. Shape'
  BY <1>1, <1>2 DEF Shape, PCs
<1>4. Busy(pc') = Busy(pc) /\ Sleeping(pc') = Sleeping(pc) /\ t \in Busy(pc)
  BY <1>1, <1>2 DEF Busy, Sleeping, Shape
<1>5. Outstanding' = Outstanding
  BY <1>1 DEF Outstanding, Held
<1>6. Disjoint'
  <2>1. \A u \in Threads : (u \in Busy(pc')) <=> (batch'[u] # {})
    BY <1>1, <1>2, <1>4 DEF Disjoint
  <2> QED BY <1>1, <1>2, <2>1 DEF Disjoint, Busy
<1>7. Counts'
  <2>1. /\ nTodo' = Cardinality(Outstanding')
        /\ nIdle' = Cardinality(Sleeping(pc')) + Cardinality(interrupted')
        /\ nTotal' = nIdle' + Cardinality(Busy(pc'))
    BY <1>1, <1>2, <1>4, <1>5 DEF Counts
  <2> QED BY <2>1 DEF Counts, Busy, Sleeping
<1>8. Results'
  <2>1. pc'[Master] = "out" <=> pc[Master] = "out"
    BY <1>1, <1>2 DEF Shape, Threads
  <2>2. \A u \in Threads \ {t} : pc'[u] = pc[u] /\ fOk'[u] = fOk[u]
    BY <1>1, <1>2 DEF Shape
  <2>3. fOk'[t] = (fOk[t] /\ batch[t] \cap bad = {})
    BY <1>1, <1>2 DEF Shape
  <2>4. batch[t] \subseteq added
    BY <1>2 DEF Results, Outstanding, Held
  <2>5. \A u \in Busy(pc') : ~fOk'[u] => added' \cap bad' # {}
    <3>1. SUFFICES ASSUME NEW u \in Busy(pc), ~fOk'[u]
                   PROVE  added \cap bad # {}
      BY <1>1, <1>4
    <3>2. CASE u = t
      BY <1>2, <1>4, <2>3, <2>4, <3>1, <3>2 DEF Results
    <3>3. CASE u # t
      BY <1>2, <2>2, <3>1, <3>3 DEF Results, Busy
    <3> QED BY <3>2, <3>3
  <2>6. \A u \in Threads : pc'[u] = "finished" /\ fOk'[u] => batch'[u] \cap bad' = {}
    BY <1>1, <1>2, <2>2, <2>3 DEF Results
  <2> QED BY <1>1, <1>2, <1>5, <2>1, <2>5, <2>6 DEF Results, Busy
<1>9. Roles'
  BY <1>1, <1>2, CheckQueueAssumption DEF Roles, Shape, Threads
<1> QED BY <1>3, <1>6, <1>7, <1>8, <1>9 DEF IndInv

\* Steps that move threads without touching a batch, the queue, a counter
\* or a result preserve the invariant if they keep who is busy.
LEMMA MoveInv ==
    ASSUME IndInv, Shape', Busy(pc') = Busy(pc),
           Cardinality(Sleeping(pc')) + Cardinality(interrupted') =
              Cardinality(Sleeping(pc)) + Cardinality(interrupted),
           pc'[Master] = "out" <=> pc[Master] = "out",
           \A u \in Threads : pc'[u] = "finished" => pc[u] = "finished",
           \A w \in Workers : pc'[w] \notin {"out", "adding"},
           pc'[Master] # "gone",
           UNCHANGED <<queue, nIdle, nTotal, nTodo, fAllOk, batch, fOk, added, bad>>
    PROVE  IndInv'
<1>1. /\ Shape /\ Disjoint /\ Counts /\ Results /\ Roles
  BY DEF IndInv
<1>2. Outstanding' = Outstanding
  BY DEF Outstanding, Held
<1>3. Disjoint'
  <2>1. \A u \in Threads : (u \in Busy(pc')) <=> (batch'[u] # {})
    BY <1>1 DEF Disjoint
  <2> QED BY <1>1, <2>1 DEF Disjoint, Busy
<1>4. Counts'
  <2>1. /\ nTodo' = Cardinality(Outstanding')
        /\ nIdle' = Cardinality(Sleeping(pc')) + Cardinality(interrupted')
        /\ nTotal' = nIdle' + Cardinality(Busy(pc'))
    BY <1>1, <1>2 DEF Counts
  <2> QED BY <2>1 DEF Counts, Busy, Sleeping
<1>5. Results'
  <2>1. \A u \in Busy(pc') : ~fOk'[u] => added' \cap bad' # {}
    BY <1>1 DEF Results
  <2>2. \A u \in Threads : pc'[u] = "finished" /\ fOk'[u] => batch'[u] \cap bad' = {}
    BY <1>1 DEF Results
  <2> QED BY <1>1, <1>2, <2>1, <2>2 DEF Results, Busy
<1>6. Roles'
  BY <1>1 DEF Roles
<1> QED BY <1>3, <1>4, <1>5, <1>6 DEF IndInv

LEMMA SpuriousWakeInv ==
    ASSUME IndInv, NEW t \in Threads, SpuriousWake(t)
    PROVE  IndInv'
<1>1. /\ pc[t] = "waiting" /\ pc' = [pc EXCEPT ![t] = "notified"]
      /\ UNCHANGED <<queue, nIdle, nTotal, nTodo, fAllOk, batch, fOk, added, bad,
                     aborted, verdict, blocks, interrupted>>
  BY DEF SpuriousWake, counters, session
<1>2. Shape /\ Roles
  BY DEF IndInv
<1>3. Shape' /\ Busy(pc') = Busy(pc) /\ Sleeping(pc') = Sleeping(pc)
  BY <1>1, <1>2 DEF Shape, PCs, Busy, Sleeping
<1>4. /\ pc'[Master] = "out" <=> pc[Master] = "out"
      /\ \A u \in Threads : pc'[u] = "finished" => pc[u] = "finished"
      /\ \A w \in Workers : pc'[w] \notin {"out", "adding"}
      /\ pc'[Master] # "gone"
  BY <1>1, <1>2 DEF Shape, Roles, Threads
<1> QED BY <1>1, <1>3, <1>4, MoveInv

LEMMA InterruptInv ==
    ASSUME IndInv, NEW t \in Threads, Interrupt(t)
    PROVE  IndInv'
<1>1. /\ pc[t] \in {"waiting", "notified"} /\ t \notin interrupted
      /\ interrupted' = interrupted \cup {t}
      /\ \/ t # Master /\ pc' = [pc EXCEPT ![t] = "gone"] /\ aborted' = aborted
         \/ t = Master /\ pc' = [pc EXCEPT ![t] = "enter"] /\ aborted' = TRUE
      /\ UNCHANGED <<queue, nIdle, nTotal, nTodo, fAllOk, batch, fOk, added, bad,
                     verdict, blocks>>
  BY DEF Interrupt, counters
<1>2. Shape /\ Roles
  BY DEF IndInv
<1>3. Shape'
  BY <1>1, <1>2 DEF Shape, PCs
<1>4. Busy(pc') = Busy(pc) /\ Sleeping(pc') = Sleeping(pc) \ {t} /\ t \in Sleeping(pc)
  BY <1>1, <1>2 DEF Shape, Busy, Sleeping
<1>5. Cardinality(Sleeping(pc')) + Cardinality(interrupted') =
         Cardinality(Sleeping(pc)) + Cardinality(interrupted)
  <2>1. /\ IsFiniteSet(Sleeping(pc)) /\ Cardinality(Sleeping(pc)) \in Nat
        /\ IsFiniteSet(interrupted) /\ Cardinality(interrupted) \in Nat
    BY <1>2, Finiteness DEF Sleeping, Shape
  <2>2. Cardinality(Sleeping(pc')) = Cardinality(Sleeping(pc)) - 1
    BY <2>1, <1>4, FS_RemoveElement
  <2>3. Cardinality(interrupted') = Cardinality(interrupted) + 1
    BY <2>1, <1>1, FS_AddElement
  <2> QED BY <2>1, <2>2, <2>3
<1>6. /\ pc'[Master] = "out" <=> pc[Master] = "out"
      /\ \A u \in Threads : pc'[u] = "finished" => pc[u] = "finished"
      /\ \A w \in Workers : pc'[w] \notin {"out", "adding"}
      /\ pc'[Master] # "gone"
  BY <1>1, <1>2, CheckQueueAssumption DEF Shape, Roles, Threads
<1> QED BY <1>1, <1>3, <1>4, <1>5, <1>6, MoveInv

LEMMA CallWaitInv ==
    ASSUME IndInv, CallWait
    PROVE  IndInv'
<1>1. /\ pc[Master] = "adding" /\ pc' = [pc EXCEPT ![Master] = "enter"]
      /\ aborted' \in BOOLEAN
      /\ UNCHANGED <<queue, nIdle, nTotal, nTodo, fAllOk, batch, fOk, added, bad,
                     verdict, blocks, interrupted>>
  BY DEF CallWait, counters
<1>2. Shape /\ Roles
  BY DEF IndInv
<1>3. Shape' /\ Busy(pc') = Busy(pc) /\ Sleeping(pc') = Sleeping(pc)
  BY <1>1, <1>2 DEF Shape, PCs, Busy, Sleeping
<1>4. /\ pc'[Master] = "out" <=> pc[Master] = "out"
      /\ \A u \in Threads : pc'[u] = "finished" => pc[u] = "finished"
      /\ \A w \in Workers : pc'[w] \notin {"out", "adding"}
      /\ pc'[Master] # "gone"
  BY <1>1, <1>2, CheckQueueAssumption DEF Shape, Roles, Threads
<1> QED BY <1>1, <1>3, <1>4, MoveInv

\* While the master is outside, no check is outstanding and no thread busy.
LEMMA QuietOutside ==
    ASSUME IndInv, pc[Master] = "out"
    PROVE  Outstanding = {} /\ Busy(pc) = {}
<1>1. Outstanding \in SUBSET Checks
  BY DEF IndInv, Shape, Outstanding, Held
<1>2. Cardinality(Outstanding) = 0
  BY DEF IndInv, Roles, Counts
<1>3. Outstanding = {}
  BY <1>1, <1>2, Finiteness, FS_EmptySet DEF IndInv
<1>4. \A u \in Threads : batch[u] = {}
  BY <1>3 DEF Outstanding, Held
<1> QED BY <1>3, <1>4 DEF IndInv, Disjoint, Busy

LEMMA ConstructInv ==
    ASSUME IndInv, Construct
    PROVE  IndInv'
<1>1. /\ pc[Master] = "out" /\ pc' = [pc EXCEPT ![Master] = "adding"]
      /\ added' = {} /\ bad' \in SUBSET Checks /\ aborted' = FALSE
      /\ verdict' = "dropped" /\ blocks < MaxBlocks /\ blocks' = blocks + 1
      /\ UNCHANGED <<queue, nIdle, nTotal, nTodo, fAllOk, batch, fOk, interrupted>>
  BY DEF Construct, counters
<1>2. /\ Shape /\ Disjoint /\ Counts /\ Results /\ Roles
  BY DEF IndInv
<1>3. Outstanding = {} /\ Busy(pc) = {} /\ fAllOk /\ Outstanding' = Outstanding
  <2>1. Outstanding' = Outstanding
    BY <1>1 DEF Outstanding, Held
  <2> QED BY <1>1, <1>2, <2>1, QuietOutside DEF Roles
<1>4. Shape'
  <2>1. blocks' \in 0..MaxBlocks
    BY <1>1, <1>2, CheckQueueAssumption DEF Shape
  <2>2. pc' \in [Threads -> PCs]
    BY <1>1, <1>2 DEF Shape, PCs
  <2> QED BY <1>1, <1>2, <2>1, <2>2 DEF Shape
<1>5. Busy(pc') = Busy(pc) /\ Sleeping(pc') = Sleeping(pc)
  BY <1>1, <1>2 DEF Shape, Busy, Sleeping
<1>6. Disjoint'
  <2>1. \A u \in Threads : (u \in Busy(pc')) <=> (batch'[u] # {})
    BY <1>1, <1>2, <1>5 DEF Disjoint
  <2> QED BY <1>1, <1>2, <2>1 DEF Disjoint, Busy
<1>7. Counts'
  <2>1. /\ nTodo' = Cardinality(Outstanding')
        /\ nIdle' = Cardinality(Sleeping(pc')) + Cardinality(interrupted')
        /\ nTotal' = nIdle' + Cardinality(Busy(pc'))
    BY <1>1, <1>2, <1>3, <1>5 DEF Counts
  <2> QED BY <2>1 DEF Counts, Busy, Sleeping
<1>8. Results'
  <2>1. \A u \in Threads : pc'[u] # "finished"
    BY <1>1, <1>2, <1>3 DEF Shape, Busy
  <2>2. \A u \in Busy(pc') : ~fOk'[u] => added' \cap bad' # {}
    BY <1>3, <1>5
  <2> QED BY <1>1, <1>3, <2>1, <2>2 DEF Results, Busy
<1>9. Roles'
  BY <1>1, <1>2, CheckQueueAssumption DEF Roles, Shape, Threads
<1> QED BY <1>4, <1>6, <1>7, <1>8, <1>9 DEF IndInv

LEMMA AddInv ==
    ASSUME IndInv, Add
    PROVE  IndInv'
<1>1. /\ pc[Master] = "adding"
      /\ UNCHANGED <<nIdle, nTotal, fAllOk, batch, fOk, bad, aborted, verdict,
                     blocks, interrupted>>
  BY DEF Add
<1>2. PICK s \in SUBSET (Checks \ added) :
        /\ queue' = queue \cup s /\ added' = added \cup s
        /\ nTodo' = nTodo + Cardinality(s)
        /\ \E woken \in NotifyWorkers(Cardinality(s)) :
              pc' = [t \in Threads |-> IF t \in woken THEN "notified" ELSE pc[t]]
  BY DEF Add
<1>3. PICK woken \in NotifyWorkers(Cardinality(s)) :
        pc' = [t \in Threads |-> IF t \in woken THEN "notified" ELSE pc[t]]
  BY <1>2
<1>4. \A u \in woken : u \in Workers /\ pc[u] = "waiting"
  BY DEF NotifyWorkers
<1>5. /\ Shape /\ Disjoint /\ Counts /\ Results /\ Roles
  BY DEF IndInv
<1>6. pc' \in [Threads -> PCs]
  BY <1>3, <1>5 DEF Shape, PCs
<1>7. /\ \A u \in Threads : pc'[u] = pc[u] \/ (pc[u] = "waiting" /\ pc'[u] = "notified")
      /\ pc'[Master] = "adding"
  BY <1>1, <1>3, <1>4, CheckQueueAssumption DEF Threads
<1>8. Busy(pc') = Busy(pc) /\ Sleeping(pc') = Sleeping(pc)
  BY <1>7 DEF Busy, Sleeping
<1>9. Outstanding' = Outstanding \cup s /\ Outstanding \cap s = {}
  BY <1>1, <1>2, <1>5 DEF Outstanding, Held, Results
<1>10. IsFiniteSet(s) /\ Cardinality(s) \in Nat
  BY <1>5, Finiteness
<1>11. Shape'
  <2>1. nTodo' \in Int
    BY <1>2, <1>5, <1>10 DEF Shape
  <2>2. queue' \in SUBSET Checks /\ added' \in SUBSET Checks
    BY <1>2, <1>5 DEF Shape
  <2> QED BY <1>1, <1>5, <1>6, <2>1, <2>2 DEF Shape
<1>12. Disjoint'
  <2>1. \A u \in Threads : (u \in Busy(pc')) <=> (batch'[u] # {})
    BY <1>1, <1>5, <1>8 DEF Disjoint
  <2>2. \A u \in Threads : queue' \cap batch'[u] = {}
    BY <1>1, <1>2, <1>5, <1>9 DEF Disjoint, Outstanding, Held
  <2> QED BY <1>1, <1>5, <2>1, <2>2 DEF Disjoint, Busy
<1>13. Counts'
  <2>1. nTodo' = Cardinality(Outstanding')
    <3>1. Outstanding \in SUBSET Checks
      BY <1>5 DEF Outstanding, Held, Shape
    <3>2. IsFiniteSet(Outstanding) /\ Cardinality(Outstanding) \in Nat
      BY <1>5, <3>1, Finiteness
    <3>3. Cardinality(Outstanding \cup s) =
             Cardinality(Outstanding) + Cardinality(s) - Cardinality(Outstanding \cap s)
      BY <3>2, <1>10, FS_Union
    <3>4. Cardinality(Outstanding \cap s) = 0
      BY <1>9, FS_EmptySet
    <3>5. nTodo' = Cardinality(Outstanding) + Cardinality(s)
      BY <1>2, <1>5 DEF Counts
    <3>6. Cardinality(Outstanding') = Cardinality(Outstanding \cup s)
      BY <1>9
    <3> QED BY <1>10, <3>2, <3>3, <3>4, <3>5, <3>6
  <2>2. /\ nIdle' = Cardinality(Sleeping(pc')) + Cardinality(interrupted')
        /\ nTotal' = nIdle' + Cardinality(Busy(pc'))
    BY <1>1, <1>5, <1>8 DEF Counts
  <2> QED BY <2>1, <2>2 DEF Counts, Busy, Sleeping
<1>14. Results'
  <2>1. Outstanding' \subseteq added'
    BY <1>2, <1>5, <1>9 DEF Results
  <2>2. fAllOk' => (added' \ Outstanding') \cap bad' = {}
    BY <1>1, <1>2, <1>5, <1>9 DEF Results
  <2>3. ~fAllOk' => added' \cap bad' # {}
    BY <1>1, <1>2, <1>5 DEF Results
  <2>4. \A u \in Busy(pc') : ~fOk'[u] => added' \cap bad' # {}
    BY <1>1, <1>2, <1>5, <1>8 DEF Results
  <2>5. \A u \in Threads : pc'[u] = "finished" /\ fOk'[u] => batch'[u] \cap bad' = {}
    BY <1>1, <1>5, <1>7 DEF Results
  <2> QED BY <2>1, <2>2, <2>3, <2>4, <2>5 DEF Results, Busy
<1>15. Roles'
  BY <1>5, <1>7 DEF Roles, Threads
<1> QED BY <1>11, <1>12, <1>13, <1>14, <1>15 DEF IndInv

LEMMA InitInv == Init => IndInv
<1> SUFFICES ASSUME Init PROVE IndInv
  OBVIOUS
<1>1. Shape
  <2>1. blocks \in 0..MaxBlocks
    BY CheckQueueAssumption DEF Init
  <2>2. pc \in [Threads -> PCs]
    BY DEF Init, PCs
  <2>3. batch \in [Threads -> SUBSET Checks] /\ fOk \in [Threads -> BOOLEAN]
    BY DEF Init
  <2>4. /\ queue = {} /\ nIdle = 0 /\ nTotal = 0 /\ nTodo = 0
        /\ added = {} /\ bad = {} /\ verdict = "dropped" /\ interrupted = {}
    BY DEF Init
  <2>5. fAllOk \in BOOLEAN /\ aborted \in BOOLEAN
    BY Zenon DEF Init
  <2> QED BY <2>1, <2>2, <2>3, <2>4, <2>5 DEF Shape
<1>2. Busy(pc) = {} /\ Sleeping(pc) = {} /\ Outstanding = {}
  BY DEF Init, Busy, Sleeping, Outstanding, Held
<1>3. Disjoint
  BY <1>2 DEF Init, Disjoint
<1>4. Counts
  <2>1. Cardinality({}) = 0
    BY FS_EmptySet
  <2>2. interrupted = {} /\ nTodo = 0 /\ nIdle = 0 /\ nTotal = 0
    BY DEF Init
  <2> QED BY <1>2, <2>1, <2>2 DEF Counts
<1>5. Results
  BY <1>2 DEF Init, Results, Threads
<1>6. Roles
  BY CheckQueueAssumption DEF Init, Roles, Threads
<1> QED BY <1>1, <1>3, <1>4, <1>5, <1>6 DEF IndInv

LEMMA NextInv == IndInv /\ [Next]_vars => IndInv'
<1> SUFFICES ASSUME IndInv, [Next]_vars PROVE IndInv'
  OBVIOUS
<1>1. ASSUME NEW t \in Threads, FirstIteration(t) PROVE IndInv'
  BY <1>1, FirstIterationInv
<1>2. ASSUME NEW t \in Threads, CleanUp(t) PROVE IndInv'
  BY <1>2, CleanUpInv
<1>3. ASSUME NEW t \in Threads, Woken(t) PROVE IndInv'
  BY <1>3, WokenInv
<1>4. ASSUME NEW t \in Threads, Execute(t) PROVE IndInv'
  BY <1>4, ExecuteInv
<1>5. ASSUME NEW t \in Threads, SpuriousWake(t) PROVE IndInv'
  BY <1>5, SpuriousWakeInv
<1>6. ASSUME NEW t \in Threads, Interrupt(t) PROVE IndInv'
  BY <1>6, InterruptInv
<1>7. CASE Construct
  BY <1>7, ConstructInv
<1>8. CASE Add
  BY <1>8, AddInv
<1>9. CASE CallWait
  BY <1>9, CallWaitInv
<1>10. CASE UNCHANGED vars
  <2>1. UNCHANGED <<queue, nIdle, nTotal, nTodo, fAllOk, pc, batch, fOk, added,
                    bad, aborted, verdict, blocks, interrupted>>
    BY <1>10 DEF vars, counters, session
  <2>2. Outstanding' = Outstanding
    BY <2>1 DEF Outstanding, Held
  <2>3. Shape' /\ Roles' /\ Disjoint'
    BY <2>1 DEF IndInv, Shape, Roles, Disjoint, Busy
  <2>4. Counts' /\ Results'
    BY <2>1, <2>2 DEF IndInv, Counts, Results, Busy, Sleeping
  <2> QED BY <2>3, <2>4 DEF IndInv
<1> QED
  BY <1>1, <1>2, <1>3, <1>4, <1>5, <1>6, <1>7, <1>8, <1>9, <1>10 DEF Next, InLoop

(* The counting invariant holds in every reachable state of CCheckQueue.    *)
THEOREM Inductive == Spec => []IndInv
  BY InitInv, NextInv, PTL DEF Spec

(* CCheckQueue's members keep their types: the unsigned nTodo never wraps   *)
(* and never more threads are idle than are inside Loop.                    *)
THEOREM TypeCorrect == Spec => []TypeOK
<1>1. IndInv => TypeOK
  <2> SUFFICES ASSUME IndInv PROVE TypeOK
    OBVIOUS
  <2>1. /\ Cardinality(Sleeping(pc)) \in Nat /\ Cardinality(Busy(pc)) \in Nat
        /\ Cardinality(interrupted) \in Nat
    BY Finiteness DEF IndInv, Shape, Sleeping, Busy
  <2>2. Outstanding \in SUBSET Checks
    BY DEF IndInv, Shape, Outstanding, Held
  <2>3. Cardinality(Outstanding) \in Nat
    BY <2>2, Finiteness DEF IndInv
  <2>4. nIdle \in Nat /\ nTotal \in Nat /\ nIdle <= nTotal /\ nTodo \in Nat
    BY <2>1, <2>3 DEF IndInv, Counts
  <2> QED BY <2>4 DEF IndInv, Shape, TypeOK, PCs
<1> QED BY <1>1, Inductive, PTL

(* The assert(isIdle) of the CCheckQueueControl constructor never fires.    *)
THEOREM ConstructorAssertHolds == Spec => []IdleAtConstruction
<1>1. IndInv => IdleAtConstruction
  <2> SUFFICES ASSUME IndInv, pc[Master] = "out" PROVE IsIdle
    BY DEF IdleAtConstruction
  <2>1. Busy(pc) = {}
    BY QuietOutside
  <2>2. Cardinality(Busy(pc)) = 0
    BY <2>1, FS_EmptySet
  <2> QED BY <2>2 DEF IndInv, Counts, Roles, IsIdle, Shape
<1> QED BY <1>1, Inductive, PTL

\* Leaving a critical section is a step of the abstract verifier.
LEMMA ProceedRefines ==
    ASSUME Shape, NEW t \in Threads,
           NEW p, NEW idle, NEW total, NEW todo, NEW allOk,
           Mid(t, p, idle, total, todo, allOk),
           Proceed(t, p, idle, total, todo, allOk),
           pc[t] # "out", p[Master] = "out" <=> pc[Master] = "out"
    PROVE  Verifier!Close \/ UNCHANGED Verifier!vvars
<1>1. CASE TakeBatch(t, p, idle, total, todo, allOk)
  <2>1. pc' = [p EXCEPT ![t] = "working"] /\ UNCHANGED <<added, bad, verdict>>
    BY <1>1 DEF TakeBatch, session
  <2>2. (pc'[Master] # "out") = (pc[Master] # "out")
    BY <2>1 DEF Mid, Threads
  <2> QED BY <2>1, <2>2 DEF Verifier!vvars
<1>2. CASE GoIdle(t, p, idle, total, todo, allOk)
  <2>1. pc' = [p EXCEPT ![t] = "waiting"] /\ UNCHANGED <<added, bad, verdict>>
    BY <1>2 DEF GoIdle, session
  <2>2. (pc'[Master] # "out") = (pc[Master] # "out")
    BY <2>1 DEF Mid, Threads
  <2> QED BY <2>1, <2>2 DEF Verifier!vvars
<1>3. CASE ReturnResult(t, p, idle, total, todo, allOk)
  <2>1. /\ t = Master /\ todo = 0 /\ pc' = [p EXCEPT ![t] = "out"]
        /\ UNCHANGED <<added, bad>>
    BY <1>3 DEF ReturnResult
  <2>2. pc[Master] # "out" /\ pc'[Master] = "out"
    BY <2>1 DEF Mid
  <2>3. Rest(t) \in SUBSET Checks
    BY DEF Rest, Held, Shape
  <2>4. Rest(t) = {}
    BY <2>1, <2>3, Finiteness, FS_EmptySet DEF Mid
  <2>5. allOk <=> added \cap bad = {}
    BY <2>1, <2>2, <2>4 DEF Mid
  <2>6. verdict' \in {"dropped", IF added \cap bad = {} THEN "ok" ELSE "failed"}
    BY <1>3, <2>5 DEF ReturnResult, Shape
  <2> QED BY <2>1, <2>2, <2>6 DEF Verifier!Close
<1> QED BY <1>1, <1>2, <1>3 DEF Proceed

(* CCheckQueue implements ScriptVerifier: the master is told the conjunction *)
(* of exactly the checks it added, or nothing if it abandoned the block.     *)
THEOREM Refinement == Spec => ImplementsVerifier
<1>1. Init => Verifier!Init
  BY DEF Init, Verifier!Init, Threads
<1>2. IndInv /\ [Next]_vars => [Verifier!Next]_(Verifier!vvars)
  <2> SUFFICES ASSUME IndInv, [Next]_vars
               PROVE  Verifier!Next \/ UNCHANGED Verifier!vvars
    OBVIOUS
  <2>1. ASSUME NEW t \in Threads, FirstIteration(t)
        PROVE  Verifier!Close \/ UNCHANGED Verifier!vvars
    <3>1. /\ pc[t] = "enter" /\ Proceed(t, pc, nIdle, nTotal + 1, nTodo, fAllOk)
      BY <2>1 DEF FirstIteration
    <3>2. Mid(t, pc, nIdle, nTotal + 1, nTodo, fAllOk)
      BY <3>1, FirstIterationMid
    <3> QED BY <3>1, <3>2, ProceedRefines DEF IndInv
  <2>2. ASSUME NEW t \in Threads, Woken(t)
        PROVE  Verifier!Close \/ UNCHANGED Verifier!vvars
    <3>1. /\ pc[t] = "notified" /\ Proceed(t, pc, nIdle - 1, nTotal, nTodo, fAllOk)
      BY <2>2 DEF Woken
    <3>2. Mid(t, pc, nIdle - 1, nTotal, nTodo, fAllOk)
      BY <3>1, WokenMid
    <3> QED BY <3>1, <3>2, ProceedRefines DEF IndInv
  <2>3. ASSUME NEW t \in Threads, CleanUp(t)
        PROVE  Verifier!Close \/ UNCHANGED Verifier!vvars
    <3> DEFINE todo == nTodo - Cardinality(batch[t])
    <3>1. /\ pc[t] = "finished"
          /\ Proceed(t, NotifyMaster(t, todo), nIdle, nTotal, todo, fAllOk /\ fOk[t])
      BY <2>3 DEF CleanUp
    <3>2. Mid(t, NotifyMaster(t, todo), nIdle, nTotal, todo, fAllOk /\ fOk[t])
      BY <3>1, CleanUpMid
    <3>3. NotifyMaster(t, todo)[Master] = "out" <=> pc[Master] = "out"
      BY DEF NotifyMaster, IndInv, Shape, Threads
    <3> HIDE DEF todo
    <3> QED BY <3>1, <3>2, <3>3, ProceedRefines DEF IndInv
  <2>4. ASSUME NEW t \in Threads, Execute(t) \/ SpuriousWake(t) \/ Interrupt(t)
        PROVE  UNCHANGED Verifier!vvars
    <3>1. UNCHANGED <<added, bad, verdict>>
      BY <2>4 DEF Execute, SpuriousWake, Interrupt, session
    <3>2. (pc'[Master] # "out") = (pc[Master] # "out")
      BY <2>4 DEF Execute, SpuriousWake, Interrupt, IndInv, Shape, Threads
    <3> QED BY <3>1, <3>2 DEF Verifier!vvars
  <2>5. CASE Construct
    <3>1. pc[Master] = "out" /\ pc'[Master] = "adding"
      BY <2>5 DEF Construct, IndInv, Shape, Threads
    <3> QED BY <2>5, <3>1 DEF Construct, Verifier!Open, Verifier!Next
  <2>6. CASE Add
    <3>1. pc[Master] = "adding" /\ pc'[Master] = "adding"
      BY <2>6, CheckQueueAssumption
         DEF Add, NotifyWorkers, IndInv, Shape, Threads
    <3> QED BY <2>6, <3>1 DEF Add, Verifier!Add, Verifier!Next
  <2>7. CASE CallWait
    <3>1. (pc'[Master] # "out") = (pc[Master] # "out")
      BY <2>7 DEF CallWait, IndInv, Shape, Threads
    <3> QED BY <2>7, <3>1 DEF CallWait, Verifier!vvars
  <2>8. CASE UNCHANGED vars
    BY <2>8 DEF vars, session, Verifier!vvars
  <2> QED
    BY <2>1, <2>2, <2>3, <2>4, <2>5, <2>6, <2>7, <2>8 DEF Next, InLoop, Verifier!Next
<1> QED
  BY <1>1, <1>2, Inductive, PTL DEF Spec, ImplementsVerifier, Verifier!Spec
=============================================================================
