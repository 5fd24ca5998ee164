-------------------- MODULE ReconciliationWorkerProofs --------------------
(***************************************************************************)
(* Proofs about ReconciliationWorker, for any number of workers and rows,  *)
(* any batch size and any number of faults.                                *)
(***************************************************************************)
EXTENDS ReconciliationWorker, FiniteSetTheorems, WellFoundedInduction, TLAPS

WorkerTypeOK ==
    /\ holder \in Workers \cup {Free, Ghost}
    /\ worker \in [Workers -> Cycles]
    /\ cut \subseteq Workers
    /\ faults \in 0..MaxFaults

(* A worker that holds the lock is active and has its session, and only an *)
(* active worker can have lost one.                                        *)
LockInv ==
    /\ ActiveHoldsLock
    /\ \A w \in Workers : holder = w => Active(w) /\ w \notin cut
    /\ \A w \in cut : Active(w)

(* A worker asks about a member of its batch. *)
AskInv == \A w \in Workers : worker[w].at = "ask" => worker[w].batch # {}

WorkerInv == StoreTypeOK /\ ClusterTypeOK /\ WorkerTypeOK /\ LockInv /\ AskInv

LEMMA WorkerInit == Init => WorkerInv
BY WorkerAssumption, LeaseAssumption
DEF Init, WorkerInv, WorkerTypeOK, LockInv, ActiveHoldsLock, AskInv, Active, Asleep, Cycles, Places,
    StoreTypeOK, ClusterTypeOK, ClusterInit, Statuses, JobStates

(* The store's methods keep the types of the table.                        *)
LEMMA StoreSteps ==
    ASSUME StoreTypeOK, NEW a,
           \/ ClaimExecution(a) \/ MarkUnknown(a) \/ ClaimRetryExecution(a)
           \/ MarkCompleted(a) \/ MarkFailed(a) \/ RecoverStaleExecution(a)
           \/ Ageing \/ UNCHANGED storeVars
    PROVE  StoreTypeOK'
<1>1. CASE \/ ClaimExecution(a) \/ MarkUnknown(a) \/ ClaimRetryExecution(a)
           \/ MarkCompleted(a) \/ MarkFailed(a) \/ RecoverStaleExecution(a)
  BY <1>1, LeaseAssumption
  DEF StoreTypeOK, ClaimExecution, MarkUnknown, ClaimRetryExecution, MarkCompleted, MarkFailed,
      MarkSettled, RecoverStaleExecution, Transition, Statuses
<1>2. CASE Ageing
  BY <1>2, LeaseAssumption DEF StoreTypeOK, Ageing
<1>3. CASE UNCHANGED storeVars
  BY <1>3 DEF StoreTypeOK, storeVars
<1> QED
  BY <1>1, <1>2, <1>3

(* An apply and the Job controller keep the types of the cluster.          *)
LEMMA ClusterSteps ==
    ASSUME ClusterTypeOK, NEW a,
           \/ Apply(a) /\ UNCHANGED inflight
           \/ PodFails(a) \/ JobCompletes(a) \/ UNCHANGED clusterVars
    PROVE  ClusterTypeOK'
<1>1. CASE Apply(a) /\ UNCHANGED inflight
  <2>1. CASE a \in Approvals
    BY <1>1, <2>1 DEF ClusterTypeOK, Apply, JobStates
  <2>2. CASE a \notin Approvals
    BY <1>1, <2>2 DEF ClusterTypeOK, Apply, JobStates
  <2> QED
    BY <2>1, <2>2
<1>2. CASE PodFails(a) \/ JobCompletes(a)
  BY <1>2 DEF ClusterTypeOK, PodFails, JobCompletes, Progress, JobStates
<1>3. CASE UNCHANGED clusterVars
  BY <1>3 DEF ClusterTypeOK, clusterVars
<1> QED
  BY <1>1, <1>2, <1>3

(* The row of the item is changed by a store method or not at all.         *)
LEMMA ResolutionIsStoreStep ==
    ASSUME NEW a, NEW read, NEW answer, Resolution(a, read, answer)
    PROVE  MarkCompleted(a) \/ MarkFailed(a) \/ RecoverStaleExecution(a) \/ UNCHANGED storeVars
BY DEF Resolution

(* A batch that is not empty has a row whose turn it is.                   *)
LEMMA ItemIsInBatch ==
    ASSUME worker \in [Workers -> Cycles], NEW w \in Workers, worker[w].batch # {}
    PROVE  Item(w) \in worker[w].batch
<1> DEFINE B == worker[w].batch
<1>1. B \subseteq Nat /\ B # {}
  BY WorkerAssumption DEF Cycles
<1>2. PICK a \in B : \A b \in B : <<b, a>> \notin OpToRel(<, Nat)
  <2>. HIDE DEF B
  <2> QED
    BY <1>1, NatLessThanWellFounded, WFMin
<1>3. \A b \in B : a <= b
  <2>1. \A b \in B : ~(b < a)
    BY <1>1, <1>2 DEF OpToRel
  <2> QED
    BY <1>1, <2>1
<1> QED
  BY <1>3 DEF Item

(* Going on to the next item leaves the worker awake and the others alone. *)
LEMMA NextItemKeeps ==
    ASSUME worker \in [Workers -> Cycles], NEW w \in Workers, NextItem(w)
    PROVE  /\ worker' \in [Workers -> Cycles]
           /\ worker'[w].at = "next"
           /\ \A v \in Workers \ {w} : worker'[v] = worker[v]
<1>1. [Asleep EXCEPT !.at = "next", !.batch = worker[w].batch \ {Item(w)}] \in Cycles
  <2>1. worker[w].batch \ {Item(w)} \in SUBSET Approvals
    BY DEF Cycles
  <2> QED
    BY <2>1 DEF Cycles, Places, Asleep
<1>2. [Asleep EXCEPT !.at = "next", !.batch = worker[w].batch \ {Item(w)}].at = "next"
  BY DEF Asleep
<1> QED
  BY <1>1, <1>2 DEF NextItem

(* So does an answer of kubectl. *)
LEMMA AnswerKeeps ==
    ASSUME worker \in [Workers -> Cycles], NEW w \in Workers, NEW answer \in StatusResults,
           worker' = [worker EXCEPT ![w].at = "resolve", ![w].answer = answer]
    PROVE  /\ worker' \in [Workers -> Cycles]
           /\ worker'[w].at = "resolve"
           /\ \A v \in Workers \ {w} : worker'[v] = worker[v]
<1>1. [worker[w] EXCEPT !.at = "resolve", !.answer = answer] \in Cycles
  BY DEF Cycles, Places
<1>2. worker' = [worker EXCEPT ![w] = [worker[w] EXCEPT !.at = "resolve", !.answer = answer]]
  OBVIOUS
<1>3. [worker[w] EXCEPT !.at = "resolve", !.answer = answer].at = "resolve"
  BY DEF Cycles
<1> QED
  BY <1>1, <1>2, <1>3

(* Every step keeps the invariant.                                         *)
LEMMA WorkerStep == WorkerInv /\ [Next]_workerVars => WorkerInv'
<1> SUFFICES ASSUME WorkerInv, [Next]_workerVars
             PROVE  WorkerInv'
  OBVIOUS
<1>. USE WorkerAssumption
<1>1. ASSUME NEW w \in Workers, TryAcquire(w) \/ CycleStep(w) \/ FaultStep(w)
      PROVE  WorkerInv'
  <2>1. StoreTypeOK' /\ ClusterTypeOK'
    <3>1. UNCHANGED clusterVars
      BY <1>1 DEF TryAcquire, CycleStep, ListReconcilable, ReconcileRead, ReconcileAsk,
           ReconcileResolve, EndBatch, Release, FaultStep, ListFails, ReconcileMisled, ItemFails,
           LoseSession, Die
    <3>2. \/ MarkCompleted(Item(w)) \/ MarkFailed(Item(w)) \/ RecoverStaleExecution(Item(w))
          \/ UNCHANGED storeVars
      BY <1>1, ResolutionIsStoreStep
      DEF TryAcquire, CycleStep, ListReconcilable, ReconcileRead, ReconcileAsk,
           ReconcileResolve, EndBatch, Release, FaultStep, ListFails, ReconcileMisled, ItemFails,
           LoseSession, Die
    <3> QED
      BY <3>1, <3>2, StoreSteps, ClusterSteps DEF WorkerInv
  <2>. USE DEF WorkerInv, WorkerTypeOK, LockInv, ActiveHoldsLock, AskInv, Active, Goto, Fault
  <2>2. CASE TryAcquire(w)
    BY <2>1, <2>2 DEF TryAcquire, Cycles, Places
  <2>3. CASE ListReconcilable(w)
    <3>1. Oldest({a \in Approvals : Open(a)}) \in SUBSET Approvals
      BY DEF Oldest
    <3> DEFINE oldest == Oldest({a \in Approvals : Open(a)})
    <3>2. worker' = [worker EXCEPT ![w].at = "next", ![w].batch = oldest]
      BY <2>3 DEF ListReconcilable
    <3>3. UNCHANGED <<holder, cut, faults>> /\ worker[w].at = "list"
      BY <2>3 DEF ListReconcilable
    <3>. HIDE DEF oldest
    <3>4. oldest \in SUBSET Approvals
      BY <3>1 DEF oldest
    <3> QED
      BY <2>1, <3>2, <3>3, <3>4 DEF Cycles, Places
  <2>4. CASE ReconcileRead(w)
    <3>1. CASE Open(Item(w))
      <4>1. status[Item(w)] \in Statuses
        BY <3>1 DEF Open, Statuses
      <4> QED
        BY <2>1, <2>4, <3>1, <4>1 DEF ReconcileRead, Cycles, Places
    <3>2. CASE ~Open(Item(w))
      BY <2>1, <2>4, <3>2, NextItemKeeps DEF ReconcileRead
    <3> QED
      BY <3>1, <3>2
  <2>5. CASE ReconcileAsk(w)
    <3>1. Item(w) \in Approvals
      BY <2>5, ItemIsInBatch DEF ReconcileAsk, Cycles
    <3>2. Observed(Item(w)) \in StatusResults
      BY <3>1 DEF Observed, ClusterTypeOK, JobStates, StatusResults
    <3>3. PICK answer \in StatusResults :
             worker' = [worker EXCEPT ![w].at = "resolve", ![w].answer = answer]
      BY <2>5, <3>2 DEF ReconcileAsk
    <3>4. worker[w].at = "ask" /\ UNCHANGED <<holder, cut, faults>>
      BY <2>5 DEF ReconcileAsk
    <3>5. /\ worker' \in [Workers -> Cycles]
          /\ worker'[w].at = "resolve"
          /\ \A v \in Workers \ {w} : worker'[v] = worker[v]
      BY <3>3, AnswerKeeps
    <3>6. WorkerTypeOK'
      BY <3>4, <3>5
    <3>7. LockInv'
      BY <3>4, <3>5
    <3>8. AskInv'
      BY <3>4, <3>5
    <3> QED
      BY <2>1, <3>6, <3>7, <3>8
  <2>6. CASE ReconcileResolve(w)
    BY <2>1, <2>6, NextItemKeeps DEF ReconcileResolve
  <2>7. CASE EndBatch(w)
    BY <2>1, <2>7 DEF EndBatch, Cycles, Places
  <2>8. CASE Release(w)
    BY <2>1, <2>8 DEF Release, Cycles, Places, Asleep
  <2>9. CASE ListFails(w)
    BY <2>1, <2>9 DEF ListFails, Cycles, Places
  <2>10. CASE ReconcileMisled(w)
    <3>1. PICK answer \in StatusResults :
             worker' = [worker EXCEPT ![w].at = "resolve", ![w].answer = answer]
      BY <2>10 DEF ReconcileMisled
    <3>2. worker[w].at = "ask" /\ Fault /\ UNCHANGED <<holder, cut>>
      BY <2>10 DEF ReconcileMisled
    <3>3. /\ worker' \in [Workers -> Cycles]
          /\ worker'[w].at = "resolve"
          /\ \A v \in Workers \ {w} : worker'[v] = worker[v]
      BY <3>1, AnswerKeeps
    <3>4. WorkerTypeOK'
      BY <3>2, <3>3
    <3>5. LockInv' /\ AskInv'
      BY <3>2, <3>3
    <3> QED
      BY <2>1, <3>4, <3>5
  <2>11. CASE ItemFails(w)
    BY <2>1, <2>11, NextItemKeeps DEF ItemFails
  <2>12. CASE LoseSession(w)
    BY <2>1, <2>12 DEF LoseSession
  <2>13. CASE Die(w)
    BY <2>1, <2>13 DEF Die, Cycles, Places, Asleep
  <2> QED
    BY <1>1, <2>2, <2>3, <2>4, <2>5, <2>6, <2>7, <2>8, <2>9, <2>10, <2>11, <2>12, <2>13
    DEF CycleStep, FaultStep
<1>2. ASSUME NEW a \in Approvals, OtherCallers(a) \/ Cluster(a)
      PROVE  WorkerInv'
  <2>1. StoreTypeOK'
    BY <1>2, StoreSteps DEF WorkerInv, OtherCallers, Cluster
  <2>2. ClusterTypeOK'
    BY <1>2, ClusterSteps DEF WorkerInv, OtherCallers, Cluster
  <2> QED
    BY <1>2, <2>1, <2>2
    DEF OtherCallers, Cluster, WorkerInv, WorkerTypeOK, LockInv, ActiveHoldsLock, AskInv, Active
<1>3. CASE Reap
  BY <1>3 DEF Reap, WorkerInv, WorkerTypeOK, LockInv, ActiveHoldsLock, AskInv, Active, StoreTypeOK,
     ClusterTypeOK, storeVars, clusterVars
<1>4. CASE Tick
  <2>1. StoreTypeOK' /\ ClusterTypeOK'
    BY <1>4, StoreSteps, ClusterSteps DEF WorkerInv, Tick
  <2> QED
    BY <1>4, <2>1 DEF Tick, WorkerInv, WorkerTypeOK, LockInv, ActiveHoldsLock, AskInv, Active
<1>5. CASE UNCHANGED workerVars
  BY <1>5 DEF workerVars, WorkerInv, WorkerTypeOK, LockInv, ActiveHoldsLock, AskInv, Active,
     StoreTypeOK, ClusterTypeOK
<1> QED
  BY <1>1, <1>2, <1>3, <1>4, <1>5 DEF Next

(* The invariant holds in every reachable state.                           *)
THEOREM WorkerInvariant == Spec => []WorkerInv
BY WorkerInit, WorkerStep, PTL DEF Spec

(* Every variable keeps its type, whatever the workers, the callers, the   *)
(* Jobs and the faults do.                                                 *)
THEOREM TypeCorrect == Spec => []TypeOK
<1>1. WorkerInv => TypeOK
  BY DEF WorkerInv, WorkerTypeOK, TypeOK
<1> QED
  BY <1>1, WorkerInvariant, PTL

(* Whoever reconciles holds the advisory lock or has lost its session, for *)
(* any number of replicas.                                                 *)
THEOREM ActiveWorkersHoldTheLock == Spec => []ActiveHoldsLock
<1>1. WorkerInv => ActiveHoldsLock
  BY DEF WorkerInv, LockInv
<1> QED
  BY <1>1, WorkerInvariant, PTL

(* Of the workers with an intact session at most one reconciles.           *)
COROLLARY OneIntactWorker ==
    Spec => [](\A v, w \in Workers :
                  Active(v) /\ Active(w) /\ v \notin cut /\ w \notin cut => v = w)
<1>1. ActiveHoldsLock =>
        \A v, w \in Workers : Active(v) /\ Active(w) /\ v \notin cut /\ w \notin cut => v = w
  BY DEF ActiveHoldsLock
<1> QED
  BY <1>1, ActiveWorkersHoldTheLock, PTL

(* A store method moves its row along the diagram or not at all.           *)
LEMMA StoreStepFollowsLifecycle ==
    ASSUME StoreTypeOK, UNCHANGED runs, NEW a,
           \/ ClaimExecution(a) \/ MarkUnknown(a) \/ ClaimRetryExecution(a)
           \/ MarkCompleted(a) \/ MarkFailed(a) \/ RecoverStaleExecution(a)
           \/ Ageing \/ UNCHANGED storeVars
    PROVE  [Lifecycle!Next]_(Lifecycle!lifecycleVars)
<1>1. CASE UNCHANGED status
  BY <1>1 DEF Lifecycle!lifecycleVars
<1>2. CASE status' # status
  <2>1. /\ a \in Approvals
        /\ \/ Lifecycle!Begin(a) \/ Lifecycle!LoseTrack(a)
           \/ Lifecycle!Resume(a) \/ Lifecycle!Settle(a)
    BY <1>2
    DEF StoreTypeOK, ClaimExecution, MarkUnknown, ClaimRetryExecution, MarkCompleted, MarkFailed,
        MarkSettled, RecoverStaleExecution, Stale, Ageing, Transition, Transitions, storeVars,
        Lifecycle!Begin, Lifecycle!LoseTrack, Lifecycle!Resume, Lifecycle!Settle, Lifecycle!Move
  <2> QED
    BY <2>1 DEF Lifecycle!Next
<1> QED
  BY <1>1, <1>2

(* Only an apply adds to the launched approvals, and only for an open row. *)
LEMMA ApplyFollowsLifecycle ==
    ASSUME ClusterTypeOK, UNCHANGED status, NEW a \in Approvals, Open(a), Apply(a)
    PROVE  [Lifecycle!Next]_(Lifecycle!lifecycleVars)
<1> DEFINE L == {b \in Approvals : runs[b] > 0}
<1>1. CASE UNCHANGED runs
  BY <1>1 DEF Lifecycle!lifecycleVars
<1>2. CASE runs' = [runs EXCEPT ![a] = IF @ < 2 THEN @ + 1 ELSE 2]
  <2>1. L' = L \cup {a}
    BY <1>2 DEF ClusterTypeOK
  <2>2. Lifecycle!Launch(a)
    BY <2>1 DEF Lifecycle!Launch, Lifecycle!Begun, Open
  <2> QED
    BY <2>2 DEF Lifecycle!Next
<1> QED
  BY <1>1, <1>2 DEF Apply

(* Every step of the workers, of the callers and of the cluster is a step  *)
(* of the lifecycle or leaves it alone.                                    *)
LEMMA StepFollowsLifecycle ==
    WorkerInv /\ [Next]_workerVars => [Lifecycle!Next]_(Lifecycle!lifecycleVars)
<1> SUFFICES ASSUME WorkerInv, [Next]_workerVars
             PROVE  [Lifecycle!Next]_(Lifecycle!lifecycleVars)
  OBVIOUS
<1>1. ASSUME NEW a \in Approvals, Open(a), Apply(a), UNCHANGED status
      PROVE  [Lifecycle!Next]_(Lifecycle!lifecycleVars)
  BY <1>1, ApplyFollowsLifecycle DEF WorkerInv
<1>2. CASE /\ UNCHANGED runs
           /\ \E a : \/ ClaimExecution(a) \/ MarkUnknown(a) \/ ClaimRetryExecution(a)
                     \/ MarkCompleted(a) \/ MarkFailed(a) \/ RecoverStaleExecution(a)
                     \/ Ageing \/ UNCHANGED storeVars
  BY <1>2, StoreStepFollowsLifecycle DEF WorkerInv
<1>3. \/ \E a \in Approvals : Open(a) /\ Apply(a) /\ UNCHANGED status
      \/ /\ UNCHANGED runs
         /\ \E a : \/ ClaimExecution(a) \/ MarkUnknown(a) \/ ClaimRetryExecution(a)
                   \/ MarkCompleted(a) \/ MarkFailed(a) \/ RecoverStaleExecution(a)
                   \/ Ageing \/ UNCHANGED storeVars
  BY ResolutionIsStoreStep
  DEF Next, TryAcquire, CycleStep, ListReconcilable, ReconcileRead, ReconcileAsk,
      ReconcileResolve, EndBatch, Release, FaultStep, ListFails, ReconcileMisled, ItemFails,
      LoseSession, Die, OtherCallers, Cluster, PodFails, JobCompletes, Progress, Reap, Tick,
      workerVars, storeVars, clusterVars
<1> QED
  BY <1>1, <1>2, <1>3

(* Any number of workers, with or without the lock, and the callers next   *)
(* to them keep to the lifecycle of the approvals.                         *)
THEOREM WorkersFollowLifecycle == Spec => FollowsLifecycle
BY StepFollowsLifecycle, WorkerInvariant, PTL DEF Spec, FollowsLifecycle

(* So no step rewrites a settled row.                                      *)
THEOREM SettledRowsStay ==
    Spec => [][\A a \in Approvals : status[a] \in {"COMPLETED", "FAILED"} => status'[a] = status[a]]_workerVars
<1>1. WorkerInv /\ [Next]_workerVars =>
        [\A a \in Approvals : status[a] \in {"COMPLETED", "FAILED"} => status'[a] = status[a]]_workerVars
  BY StepFollowsLifecycle
  DEF WorkerInv, StoreTypeOK, Lifecycle!Next, Lifecycle!lifecycleVars, Lifecycle!Request, Lifecycle!Decide,
      Lifecycle!Begin, Lifecycle!LoseTrack, Lifecycle!Resume, Lifecycle!Settle, Lifecycle!Launch,
      Lifecycle!Move
<1> QED
  BY <1>1, WorkerInvariant, PTL DEF Spec

----------------------------------------------------------------------------
(* The batch.  Rank counts the rows that are older than one; no two rows   *)
(* of a batch have the same.                                               *)
Older(S, a) == {b \in S : b < a}

LEMMA OlderIsFinite ==
    ASSUME NEW S \in SUBSET Nat, NEW a \in Nat
    PROVE  IsFiniteSet(Older(S, a)) /\ Cardinality(Older(S, a)) \in Nat
<1>1. IsFiniteSet(0..a)
  BY FS_Interval
<1>2. Older(S, a) \in SUBSET (0..a)
  <2> SUFFICES ASSUME NEW b \in S, b < a
               PROVE  b \in 0..a
    BY DEF Older
  <2>1. b \in Nat
    OBVIOUS
  <2> QED
    BY <2>1
<1>3. IsFiniteSet(Older(S, a))
  BY <1>1, <1>2, FS_Subset
<1> QED
  BY <1>3, FS_CardinalityType

LEMMA RankGrows ==
    ASSUME NEW S \in SUBSET Nat, NEW a \in S, NEW b \in S, a < b
    PROVE  Cardinality(Older(S, a)) # Cardinality(Older(S, b))
<1>1. /\ Older(S, a) \in SUBSET Older(S, b)
      /\ a \in Older(S, b) /\ a \notin Older(S, a)
  <2>1. a \in Nat /\ b \in Nat
    OBVIOUS
  <2>2. ASSUME NEW c \in S, c < a
        PROVE  c < b
    <3>1. c \in Nat
      OBVIOUS
    <3> QED
      BY <2>1, <2>2, <3>1
  <2>3. ~(a < a)
    BY <2>1
  <2> QED
    BY <2>2, <2>3 DEF Older
<1>2. IsFiniteSet(Older(S, b))
  BY OlderIsFinite
<1>3. Cardinality(Older(S, a)) = Cardinality(Older(S, b)) => Older(S, a) = Older(S, b)
  BY <1>1, <1>2, FS_Subset
<1> QED
  BY <1>1, <1>3

(* ORDER BY requested_at LIMIT batch_size returns at most batch_size rows. *)
LEMMA OldestIsBounded ==
    ASSUME NEW S \in SUBSET Approvals
    PROVE  IsFiniteSet(Oldest(S)) /\ Cardinality(Oldest(S)) <= BatchSize
<1> DEFINE rank == [a \in Oldest(S) |-> Cardinality(Older(S, a))]
           Ranks == 0..(BatchSize - 1)
<1>1. S \in SUBSET Nat /\ Oldest(S) \in SUBSET S /\ BatchSize \in Nat \ {0}
  BY WorkerAssumption DEF Oldest
<1>2. IsFiniteSet(Ranks) /\ Cardinality(Ranks) = BatchSize
  BY <1>1, FS_Interval
<1>3. \A a \in Oldest(S) : rank[a] \in Ranks
  <2> SUFFICES ASSUME NEW a \in Oldest(S)
               PROVE  Cardinality(Older(S, a)) \in Ranks
    OBVIOUS
  <2>1. Cardinality(Older(S, a)) < BatchSize
    BY DEF Oldest, Older
  <2>2. Cardinality(Older(S, a)) \in Nat
    BY <1>1, OlderIsFinite
  <2> QED
    BY <1>1, <2>1, <2>2
<1>4. \A a, b \in Oldest(S) : rank[a] = rank[b] => a = b
  <2> SUFFICES ASSUME NEW a \in Oldest(S), NEW b \in Oldest(S),
                      Cardinality(Older(S, a)) = Cardinality(Older(S, b))
               PROVE  a = b
    OBVIOUS
  <2>1. a \in S /\ b \in S /\ a \in Nat /\ b \in Nat
    BY <1>1
  <2>2. ~(a < b) /\ ~(b < a)
    BY <1>1, <2>1, RankGrows
  <2> QED
    BY <2>1, <2>2
<1>5. rank \in [Oldest(S) -> Ranks] /\ DOMAIN rank = Oldest(S)
  BY <1>3
<1>. HIDE DEF rank, Ranks
<1>6. rank \in Injection(Oldest(S), Ranks)
  BY <1>4, <1>5 DEF Injection, IsInjective
<1>7. IsFiniteSet(Oldest(S)) /\ Cardinality(Oldest(S)) <= Cardinality(Ranks)
  BY <1>2, <1>6, FS_Injection
<1> QED
  BY <1>2, <1>7

(* What a step does to the cycle of one worker. *)
CycleMove(w) ==
    LET from == worker[w]
        to   == worker'[w] IN
    \/ to = from
    \/ from.at = "asleep" /\ to.at = "list" /\ to.batch = from.batch
    \/ from.at = "list" /\ to.at = "next" /\ to.batch = Oldest({a \in Approvals : Open(a)})
    \/ from.at = "list" /\ to.at = "release" /\ to.batch = from.batch
    \/ from.at = "next" /\ to.at = "ask" /\ from.batch # {} /\ to.batch = from.batch
    \/ from.at = "ask" /\ to.at = "resolve" /\ to.batch = from.batch
    \/ /\ from.at \in {"next", "ask", "resolve"} /\ to.at = "next"
       /\ to.batch = from.batch \ {Item(w)}
       /\ from.at = "resolve" \/ from.batch # {}
    \/ from.at = "next" /\ to.at = "release" /\ to.batch = from.batch
    \/ from.at # "asleep" /\ to = Asleep

LEMMA CycleMoves ==
    ASSUME WorkerInv, [Next]_workerVars, NEW w \in Workers
    PROVE  CycleMove(w)
<1>. USE DEF WorkerInv, WorkerTypeOK
<1>1. \A place : worker' = [worker EXCEPT ![w].at = place] =>
                    worker'[w].at = place /\ worker'[w].batch = worker[w].batch
  BY DEF Cycles, Places
<1>2. NextItem(w) => worker'[w].at = "next" /\ worker'[w].batch = worker[w].batch \ {Item(w)}
  BY DEF NextItem, Asleep
<1>3. ASSUME TryAcquire(w) \/ CycleStep(w) \/ FaultStep(w)
      PROVE  CycleMove(w)
  <2>1. CASE TryAcquire(w) \/ ListFails(w) \/ EndBatch(w)
    BY <1>1, <2>1 DEF TryAcquire, ListFails, EndBatch, Goto, CycleMove
  <2>2. CASE ListReconcilable(w)
    <3> DEFINE oldest == Oldest({a \in Approvals : Open(a)})
    <3>1. worker[w].at = "list" /\ worker' = [worker EXCEPT ![w].at = "next", ![w].batch = oldest]
      BY <2>2 DEF ListReconcilable
    <3>. HIDE DEF oldest
    <3>2. worker'[w].at = "next" /\ worker'[w].batch = oldest
      BY <3>1 DEF Cycles
    <3> QED
      BY <3>1, <3>2 DEF CycleMove, oldest
  <2>3. CASE ReconcileRead(w)
    <3>1. CASE ~Open(Item(w))
      BY <1>2, <2>3, <3>1 DEF ReconcileRead, CycleMove
    <3>2. CASE Open(Item(w))
      <4>1. /\ worker[w].at = "next" /\ worker[w].batch # {}
            /\ worker' = [worker EXCEPT ![w].at = "ask", ![w].read = status[Item(w)]]
        BY <2>3, <3>2 DEF ReconcileRead
      <4>2. worker'[w].at = "ask" /\ worker'[w].batch = worker[w].batch
        BY <4>1 DEF Cycles
      <4> QED
        BY <4>1, <4>2 DEF CycleMove
    <3> QED
      BY <3>1, <3>2
  <2>4. CASE ReconcileAsk(w) \/ ReconcileMisled(w)
    <3>1. PICK answer :
             /\ worker[w].at = "ask"
             /\ worker' = [worker EXCEPT ![w].at = "resolve", ![w].answer = answer]
      BY <2>4 DEF ReconcileAsk, ReconcileMisled
    <3>2. worker'[w].at = "resolve" /\ worker'[w].batch = worker[w].batch
      BY <3>1 DEF Cycles
    <3> QED
      BY <3>1, <3>2 DEF CycleMove
  <2>5. CASE ReconcileResolve(w) \/ ItemFails(w)
    BY <1>2, <2>5 DEF ReconcileResolve, ItemFails, CycleMove
  <2>6. CASE Release(w) \/ Die(w)
    BY <2>6 DEF Release, Die, CycleMove
  <2>7. CASE LoseSession(w)
    BY <2>7 DEF LoseSession, CycleMove
  <2> QED
    BY <1>3, <2>1, <2>2, <2>3, <2>4, <2>5, <2>6, <2>7 DEF CycleStep, FaultStep
<1>4. ASSUME NEW v \in Workers \ {w}, TryAcquire(v) \/ CycleStep(v) \/ FaultStep(v)
      PROVE  worker'[w] = worker[w]
  BY <1>4
  DEF TryAcquire, CycleStep, FaultStep, ListReconcilable, ReconcileRead, ReconcileAsk, ReconcileResolve,
      EndBatch, Release, ListFails, ReconcileMisled, ItemFails, LoseSession, Die, Goto, NextItem
<1>5. CASE (\E a \in Approvals : OtherCallers(a) \/ Cluster(a)) \/ Reap \/ Tick \/ UNCHANGED workerVars
  BY <1>5 DEF OtherCallers, Cluster, Reap, Tick, workerVars, CycleMove
<1> QED
  BY <1>3, <1>4, <1>5 DEF Next, CycleMove

(* A batch never has more rows than the limit it was read with, and a      *)
(* worker has an answer only about a row of its batch.                     *)
BatchOK(batch) == IsFiniteSet(batch) /\ Cardinality(batch) <= BatchSize

BatchInv ==
    /\ WorkerInv
    /\ \A w \in Workers : BatchOK(worker[w].batch)
    /\ \A w \in Workers : worker[w].at = "resolve" => worker[w].batch # {}

(* Whatever is taken out of a batch leaves a smaller one. *)
LEMMA SmallerBatch ==
    ASSUME NEW batch, BatchOK(batch), NEW a
    PROVE  /\ BatchOK(batch \ {a})
           /\ Cardinality(batch) \in Nat /\ Cardinality(batch \ {a}) \in Nat
           /\ a \in batch => Cardinality(batch \ {a}) = Cardinality(batch) - 1
<1>1. IsFiniteSet(batch \ {a})
  BY FS_RemoveElement DEF BatchOK
<1>2. Cardinality(batch) \in Nat /\ Cardinality(batch \ {a}) \in Nat
  BY <1>1, FS_CardinalityType DEF BatchOK
<1>3. Cardinality(batch \ {a}) = IF a \in batch THEN Cardinality(batch) - 1 ELSE Cardinality(batch)
  BY FS_RemoveElement DEF BatchOK
<1>4. Cardinality(batch \ {a}) <= BatchSize
  BY <1>2, <1>3, WorkerAssumption DEF BatchOK
<1> QED
  BY <1>1, <1>2, <1>3, <1>4 DEF BatchOK

LEMMA EmptyBatch == BatchOK({})
BY FS_EmptySet, WorkerAssumption DEF BatchOK

LEMMA BatchStep == BatchInv /\ [Next]_workerVars => BatchInv'
<1> SUFFICES ASSUME BatchInv, [Next]_workerVars
             PROVE  BatchInv'
  OBVIOUS
<1>1. WorkerInv'
  BY WorkerStep DEF BatchInv
<1>2. BatchOK(Oldest({a \in Approvals : Open(a)}))
  BY OldestIsBounded DEF BatchOK
<1>3. ASSUME NEW w \in Workers
      PROVE  BatchOK(worker'[w].batch) /\ (worker'[w].at = "resolve" => worker'[w].batch # {})
  <2>1. CycleMove(w)
    BY CycleMoves DEF BatchInv
  <2>2. BatchOK(worker[w].batch) /\ BatchOK(worker[w].batch \ {Item(w)})
    BY SmallerBatch DEF BatchInv
  <2>3. Asleep.batch = {} /\ Asleep.at = "asleep"
    BY DEF Asleep
  <2>4. worker[w].at = "ask" => worker[w].batch # {}
    BY DEF BatchInv, WorkerInv, AskInv
  <2>5. worker[w].at = "resolve" => worker[w].batch # {}
    BY DEF BatchInv
  <2> QED
    BY <1>2, <2>1, <2>2, <2>3, <2>4, <2>5, EmptyBatch DEF CycleMove
<1> QED
  BY <1>1, <1>3 DEF BatchInv

(* The safety half of LockIsFreed.  CycleLeft bounds the steps that are    *)
(* left of a worker's cycle: three for each row of the batch, two to end   *)
(* it, and one to read the batch.                                          *)
CycleLeftAt(place, n) ==
    CASE place = "list"    -> 3 * BatchSize + 3
      [] place = "next"    -> 3 * n + 2
      [] place = "ask"     -> 3 * n + 1
      [] place = "resolve" -> 3 * n
      [] place = "release" -> 1
      [] OTHER             -> 0

CycleLeft(w) == CycleLeftAt(worker[w].at, Cardinality(worker[w].batch))

LEMMA CycleLeftIs ==
    ASSUME NEW n
    PROVE  /\ CycleLeftAt("list", n) = 3 * BatchSize + 3
           /\ CycleLeftAt("next", n) = 3 * n + 2
           /\ CycleLeftAt("ask", n) = 3 * n + 1
           /\ CycleLeftAt("resolve", n) = 3 * n
           /\ CycleLeftAt("release", n) = 1
           /\ CycleLeftAt("asleep", n) = 0
BY DEF CycleLeftAt

(* Whatever an active worker does or suffers shortens its cycle. *)
LEMMA CycleLeftFalls ==
    ASSUME BatchInv, [Next]_workerVars, NEW w \in Workers, Active(w), worker'[w] # worker[w]
    PROVE  CycleLeft(w) \in Nat /\ CycleLeft(w)' < CycleLeft(w)
<1> DEFINE n == Cardinality(worker[w].batch)
           m == Cardinality(worker'[w].batch)
           left == Cardinality(worker[w].batch \ {Item(w)})
<1>1. n \in Nat /\ left \in Nat /\ BatchSize \in Nat
  BY SmallerBatch, WorkerAssumption DEF BatchInv
<1>2. worker[w].batch # {} => left = n - 1 /\ n > 0
  <2> SUFFICES ASSUME worker[w].batch # {} PROVE left = n - 1 /\ n > 0
    OBVIOUS
  <2>1. Item(w) \in worker[w].batch
    BY ItemIsInBatch DEF BatchInv, WorkerInv, WorkerTypeOK
  <2>2. left = n - 1
    BY <2>1, SmallerBatch DEF BatchInv
  <2> QED
    BY <1>1, <2>2
<1>3. Cardinality(Oldest({a \in Approvals : Open(a)})) \in Nat
      /\ Cardinality(Oldest({a \in Approvals : Open(a)})) <= BatchSize
  BY OldestIsBounded, FS_CardinalityType
<1>4. CycleMove(w)
  BY CycleMoves DEF BatchInv
<1>5. worker[w].at = "resolve" => worker[w].batch # {}
  BY DEF BatchInv
<1>6. CycleLeft(w) = CycleLeftAt(worker[w].at, n) /\ CycleLeft(w)' = CycleLeftAt(worker'[w].at, m)
  BY DEF CycleLeft
<1>7. worker[w].at # "asleep"
  BY DEF Active
<1>8. CASE worker[w].at = "list"
  <2>1. CycleLeft(w) = 3 * BatchSize + 3
    BY <1>6, <1>8, CycleLeftIs
  <2>2. \/ worker'[w].at = "next" /\ m = Cardinality(Oldest({a \in Approvals : Open(a)}))
        \/ worker'[w].at = "release"
        \/ worker'[w].at = "asleep"
    BY <1>4, <1>8 DEF CycleMove, Asleep
  <2>3. \/ m \in Nat /\ m <= BatchSize /\ CycleLeft(w)' = 3 * m + 2
        \/ CycleLeft(w)' \in {0, 1}
    BY <1>3, <1>6, <2>2, CycleLeftIs
  <2>. HIDE DEF m
  <2> QED
    BY <1>1, <2>1, <2>3
<1>9. CASE worker[w].at \in {"next", "ask", "resolve"}
  <2>1. \/ worker[w].at = "next" /\ CycleLeft(w) = 3 * n + 2
        \/ worker[w].at = "ask" /\ CycleLeft(w) = 3 * n + 1
        \/ worker[w].at = "resolve" /\ n > 0 /\ CycleLeft(w) = 3 * n
    BY <1>2, <1>5, <1>6, <1>9, CycleLeftIs
  <2>2. \/ worker[w].at = "next" /\ worker'[w].at = "ask" /\ m = n
        \/ worker[w].at = "ask" /\ worker'[w].at = "resolve" /\ m = n
        \/ worker'[w].at = "next" /\ m = n - 1
        \/ worker[w].at = "next" /\ worker'[w].at = "release"
        \/ worker'[w].at = "asleep"
    <3>1. \/ worker[w].at = "next" /\ worker'[w].at = "ask" /\ worker'[w].batch = worker[w].batch
          \/ worker[w].at = "ask" /\ worker'[w].at = "resolve" /\ worker'[w].batch = worker[w].batch
          \/ /\ worker'[w].at = "next" /\ worker[w].batch # {}
             /\ worker'[w].batch = worker[w].batch \ {Item(w)}
          \/ worker[w].at = "next" /\ worker'[w].at = "release"
          \/ worker'[w].at = "asleep"
      BY <1>4, <1>5, <1>9 DEF CycleMove, Asleep
    <3> QED
      BY <1>2, <3>1
  <2>3. \/ worker[w].at = "next" /\ CycleLeft(w)' = 3 * n + 1
        \/ worker[w].at = "ask" /\ CycleLeft(w)' = 3 * n
        \/ CycleLeft(w)' = 3 * (n - 1) + 2
        \/ worker[w].at = "next" /\ CycleLeft(w)' = 1
        \/ CycleLeft(w)' = 0
    BY <1>6, <2>2, CycleLeftIs
  <2>. HIDE DEF n, m
  <2> QED
    BY <1>1, <2>1, <2>3
<1>10. CASE worker[w].at = "release"
  <2>1. worker'[w].at = "asleep"
    BY <1>4, <1>10 DEF CycleMove, Asleep
  <2>2. CycleLeft(w) = 1 /\ CycleLeft(w)' = 0
    BY <1>6, <1>10, <2>1, CycleLeftIs
  <2> QED
    BY <2>2
<1>11. worker[w].at \in Places
  BY DEF BatchInv, WorkerInv, WorkerTypeOK, Cycles
<1> QED
  BY <1>7, <1>8, <1>9, <1>10, <1>11 DEF Places

(* No batch has more than batch_size rows (list_reconcilable), so a cycle  *)
(* asks kubectl at most so often; and whatever a worker that may hold the  *)
(* lock does or suffers brings it nearer to the release, with a lost       *)
(* session, failing rows and a failing batch counted in (run_once).        *)
THEOREM CyclesAreBounded ==
    Spec => /\ [](\A w \in Workers : Cardinality(worker[w].batch) <= BatchSize)
            /\ [][\A w \in Workers :
                     Active(w) /\ worker'[w] # worker[w] =>
                         CycleLeft(w) \in Nat /\ CycleLeft(w)' < CycleLeft(w)]_workerVars
<1>1. Init => BatchInv
  <2> SUFFICES ASSUME Init PROVE BatchInv
    OBVIOUS
  <2>1. \A w \in Workers : worker[w] = Asleep
    BY DEF Init
  <2>2. Asleep.batch = {} /\ Asleep.at = "asleep"
    BY DEF Asleep
  <2> QED
    BY <2>1, <2>2, WorkerInit, EmptyBatch DEF BatchInv
<1>2. BatchInv => \A w \in Workers : Cardinality(worker[w].batch) <= BatchSize
  BY DEF BatchInv, BatchOK
<1>3. BatchInv /\ [Next]_workerVars =>
        [\A w \in Workers : Active(w) /\ worker'[w] # worker[w] =>
            CycleLeft(w) \in Nat /\ CycleLeft(w)' < CycleLeft(w)]_workerVars
  BY CycleLeftFalls
<1> QED
  BY <1>1, <1>2, <1>3, BatchStep, PTL DEF Spec
============================================================================
