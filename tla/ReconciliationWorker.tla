----------------------- MODULE ReconciliationWorker -----------------------
(***************************************************************************)
(* The reconciliation workers (ai_engineering/workers/                     *)
(* reconciliation_worker.py) over the approval table and the cluster: a    *)
(* PostgreSQL advisory lock admits one worker to a cycle, and a cycle      *)
(* reconciles a bounded batch of the oldest open rows.                     *)
(*                                                                         *)
(* ApprovalExecution follows one row through every handler and lets any    *)
(* number of workers at it; this module is about the rows competing for a  *)
(* place in the batch and the workers for the lock.  What it takes over    *)
(* without the detail: the audit events of a reconcile, and the other      *)
(* callers, which are the store's methods and an apply.                    *)
(*                                                                         *)
(* An approval is the number of its place in the order of requested_at.    *)
(***************************************************************************)
EXTENDS ApprovalStore, TrainingCluster, FiniteSets

CONSTANTS
    Workers,        \* the replicas of k8s/agents/ai-reconciliation-worker.yaml
    BatchSize,      \* AI_RECONCILIATION_BATCH_SIZE
    Free,           \* the lock has no holder
    Ghost,          \* the holder is gone and PostgreSQL has yet to notice
    MaxFaults       \* bound: lost sessions, deaths, and failing or wrong answers

ASSUME WorkerAssumption ==
    /\ Approvals \subseteq Nat
    /\ BatchSize \in Nat \ {0}
    /\ MaxFaults \in Nat
    /\ Free # Ghost
    /\ Free \notin Workers /\ Ghost \notin Workers

VARIABLES
    holder,         \* the session that holds the advisory lock, as PostgreSQL sees it
    worker,         \* worker[w]: where w is in its cycle
    cut,            \* the active workers whose lock session has ended
    faults          \* faults so far

workerVars == <<status, age, job, runs, inflight, holder, worker, cut, faults>>

Places == {"asleep", "list", "next", "ask", "resolve", "release"}

(* read: the status the row had when reconcile read it; answer: what       *)
(* kubectl said of its Job.                                                *)
Asleep == [at |-> "asleep", batch |-> {}, read |-> "none", answer |-> "none"]

Cycles == [at     : Places,
           batch  : SUBSET Approvals,
           read   : Statuses \cup {"none"},
           answer : StatusResults \cup {"none"}]

TypeOK ==
    /\ StoreTypeOK
    /\ ClusterTypeOK
    /\ holder \in Workers \cup {Free, Ghost}
    /\ worker \in [Workers -> Cycles]
    /\ cut \subseteq Workers
    /\ faults \in 0..MaxFaults

(* Approved rows that nobody has executed yet, and sleeping workers. *)
Init ==
    /\ status = [a \in Approvals |-> "APPROVED"]
    /\ age = [a \in Approvals |-> 0]
    /\ ClusterInit
    /\ holder = Free
    /\ worker = [w \in Workers |-> Asleep]
    /\ cut = {}
    /\ faults = 0

----------------------------------------------------------------------------
Goto(w, place) == worker' = [worker EXCEPT ![w].at = place]

Fault == faults < MaxFaults /\ faults' = faults + 1

Open(a) == status[a] \in {"UNKNOWN", "EXECUTING"}

SlipYoungestFirst(S) == {a \in S : Cardinality({b \in S : b > a}) < BatchSize}

(* ORDER BY requested_at ASC LIMIT batch_size *)
Oldest(S) == {a \in S : Cardinality({b \in S : b < a}) < BatchSize}

(* The approval whose turn it is: the batch is worked off oldest first. *)
Item(w) == CHOOSE a \in worker[w].batch : \A b \in worker[w].batch : a <= b

NextItem(w) ==
    worker' = [worker EXCEPT ![w] =
                  [Asleep EXCEPT !.at = "next", !.batch = worker[w].batch \ {Item(w)}]]

(* try_acquire; when the lock has a holder, run_once returns and the worker *)
(* sleeps on.                                                              *)
TryAcquire(w) ==
    /\ worker[w].at = "asleep"
    /\ holder = Free
    /\ holder' = w
    /\ Goto(w, "list")
    /\ UNCHANGED <<storeVars, clusterVars, cut, faults>>

(* list_reconcilable *)
ListReconcilable(w) ==
    /\ worker[w].at = "list"
    /\ worker' = [worker EXCEPT ![w].at = "next",
                                ![w].batch = Oldest({a \in Approvals : Open(a)})]
    /\ UNCHANGED <<storeVars, clusterVars, holder, cut, faults>>

SlipNoFinally(w) ==
    /\ worker[w].at = "list"
    /\ Fault
    /\ worker' = [worker EXCEPT ![w] = Asleep]
    /\ UNCHANGED <<storeVars, clusterVars, holder, cut>>

(* ... raises: the exception leaves run_once through its finally. *)
ListFails(w) ==
    /\ worker[w].at = "list"
    /\ Fault
    /\ Goto(w, "release")
    /\ UNCHANGED <<storeVars, clusterVars, holder, cut>>

(* reconcile reads the row again: others may have settled it since the     *)
(* batch was read.                                                         *)
ReconcileRead(w) ==
    /\ worker[w].at = "next"
    /\ worker[w].batch # {}
    /\ IF Open(Item(w))
       THEN worker' = [worker EXCEPT ![w].at = "ask", ![w].read = status[Item(w)]]
       ELSE NextItem(w)
    /\ UNCHANGED <<storeVars, clusterVars, holder, cut, faults>>

ReconcileAsk(w) ==
    /\ worker[w].at = "ask"
    /\ worker' = [worker EXCEPT ![w].at = "resolve", ![w].answer = Observed(Item(w))]
    /\ UNCHANGED <<storeVars, clusterVars, holder, cut, faults>>

(* kubectl is missing, or its failure is read as an absent Job. *)
ReconcileMisled(w) ==
    /\ worker[w].at = "ask"
    /\ Fault
    /\ \E answer \in StatusResults \ {"raised"} :
          /\ JobStatus(Item(w), answer)
          /\ answer # Observed(Item(w))
          /\ worker' = [worker EXCEPT ![w].at = "resolve", ![w].answer = answer]
    /\ UNCHANGED <<storeVars, clusterVars, holder, cut>>

(* What reconcile does to the row: the mark_* methods raise on a row that  *)
(* was settled the other way, and run_once catches that.                   *)
Resolution(a, read, answer) ==
    CASE answer = "completed" ->
            \/ MarkCompleted(a)
            \/ status[a] # "COMPLETED" /\ Refuses(a, "COMPLETED") /\ UNCHANGED storeVars
      [] answer = "failed" ->
            \/ MarkFailed(a)
            \/ status[a] # "FAILED" /\ Refuses(a, "FAILED") /\ UNCHANGED storeVars
      [] read = "EXECUTING" /\ answer = "absent" ->
            \/ RecoverStaleExecution(a)
            \/ ~Stale(a) /\ UNCHANGED storeVars
      [] OTHER -> UNCHANGED storeVars

ReconcileResolve(w) ==
    /\ worker[w].at = "resolve"
    /\ Resolution(Item(w), worker[w].read, worker[w].answer)
    /\ NextItem(w)
    /\ UNCHANGED <<clusterVars, holder, cut, faults>>

(* Any other exception out of reconcile: kubectl times out, or the approval *)
(* or the audit table cannot be reached.  The next item has its turn.      *)
ItemFails(w) ==
    /\ worker[w].at \in {"next", "ask", "resolve"}
    /\ worker[w].batch # {}
    /\ Fault
    /\ NextItem(w)
    /\ UNCHANGED <<storeVars, clusterVars, holder, cut>>

EndBatch(w) ==
    /\ worker[w].at = "next"
    /\ worker[w].batch = {}
    /\ Goto(w, "release")
    /\ UNCHANGED <<storeVars, clusterVars, holder, cut, faults>>

SlipReleaseAnyLock(w) ==
    /\ worker[w].at = "release"
    /\ holder' = Free
    /\ cut' = cut \ {w}
    /\ worker' = [worker EXCEPT ![w] = Asleep]
    /\ UNCHANGED <<storeVars, clusterVars, faults>>

(* release, and sleep until the next cycle.  On a session that has ended   *)
(* pg_advisory_unlock raises, which run_forever catches; the connection is *)
(* dropped either way.                                                     *)
Release(w) ==
    /\ worker[w].at = "release"
    /\ holder' = IF w \in cut THEN holder ELSE Free
    /\ cut' = cut \ {w}
    /\ worker' = [worker EXCEPT ![w] = Asleep]
    /\ UNCHANGED <<storeVars, clusterVars, faults>>

----------------------------------------------------------------------------
(* Failures, and the world around the workers.                             *)

(* The session that holds the lock ends while its worker goes on. *)
LoseSession(w) ==
    /\ worker[w].at # "asleep" /\ w \notin cut
    /\ Fault
    /\ holder' \in {Free, Ghost}
    /\ cut' = cut \cup {w}
    /\ UNCHANGED <<storeVars, clusterVars, worker>>

(* The worker dies, and Kubernetes starts it again. *)
Die(w) ==
    /\ worker[w].at # "asleep"
    /\ Fault
    /\ worker' = [worker EXCEPT ![w] = Asleep]
    /\ IF w \in cut THEN UNCHANGED holder ELSE holder' \in {Free, Ghost}
    /\ cut' = cut \ {w}
    /\ UNCHANGED <<storeVars, clusterVars>>

(* PostgreSQL closes the session of a client that is gone. *)
Reap ==
    /\ holder = Ghost
    /\ holder' = Free
    /\ UNCHANGED <<storeVars, clusterVars, worker, cut, faults>>

(* The API's callers: executions and retries that are claimed, applied, and *)
(* settled, given up as UNKNOWN, or abandoned.                             *)
OtherCallers(a) ==
    \/ /\ \/ ClaimExecution(a)
          \/ MarkUnknown(a)
          \/ ClaimRetryExecution(a)
          \/ runs[a] > 0 /\ MarkCompleted(a)
          \/ MarkFailed(a)
       /\ UNCHANGED <<clusterVars, holder, worker, cut, faults>>
    \/ /\ Open(a) /\ runs[a] = 0
       /\ Apply(a)
       /\ UNCHANGED <<storeVars, inflight, holder, worker, cut, faults>>

Cluster(a) ==
    /\ PodFails(a) \/ JobCompletes(a)
    /\ UNCHANGED <<storeVars, holder, worker, cut, faults>>

Tick == Ageing /\ UNCHANGED <<clusterVars, holder, worker, cut, faults>>

(* One cycle that meets no fault. *)
CycleStep(w) ==
    \/ ListReconcilable(w)
    \/ ReconcileRead(w)
    \/ ReconcileAsk(w)
    \/ ReconcileResolve(w)
    \/ EndBatch(w)
    \/ Release(w)

FaultStep(w) ==
    \/ ListFails(w)
    \/ ReconcileMisled(w)
    \/ ItemFails(w)
    \/ LoseSession(w)
    \/ Die(w)

Next ==
    \/ \E w \in Workers : TryAcquire(w) \/ CycleStep(w) \/ FaultStep(w)
    \/ \E a \in Approvals : OtherCallers(a) \/ Cluster(a)
    \/ Reap
    \/ Tick

Spec == Init /\ [][Next]_workerVars

(* run_forever: a worker finishes its cycle, the loop comes round to the   *)
(* lock again as long as it is free, and PostgreSQL finds a dead session.  *)
(* Nothing is assumed of the API's callers, the Jobs or the clock.         *)
Fairness ==
    /\ WF_workerVars(\E w \in Workers : TryAcquire(w))
    /\ \A w \in Workers : WF_workerVars(CycleStep(w))
    /\ WF_workerVars(Reap)

FairSpec == Spec /\ Fairness

----------------------------------------------------------------------------
(* Properties.                                                             *)

Active(w) == worker[w].at # "asleep"

(* Whoever reconciles holds the lock, unless its session has ended: two    *)
(* workers with intact sessions never reconcile at the same time, and a    *)
(* worker that has lost its session never frees the lock of another.       *)
ActiveHoldsLock ==
    \A w \in Workers : Active(w) /\ w \notin cut => holder = w

(* The workers keep to the diagram everybody else relies on                *)
(* (ApprovalLifecycle): whatever two active workers, of which one saw a    *)
(* failed pod and the other the completed Job, and the other callers do,   *)
(* no row leaves the diagram and a settled row is never rewritten.         *)
Lifecycle == INSTANCE ApprovalLifecycle WITH launched <- {a \in Approvals : runs[a] > 0}

FollowsLifecycle == [][Lifecycle!Next]_(Lifecycle!lifecycleVars)

(* The lock comes free again and again: after a cycle, after a batch that  *)
(* could not be read, and after the death of its holder.                   *)
LockIsFreed == []<>(holder = Free)

(* Reconciling this row would change it. *)
Actionable(a) ==
    \/ Open(a) /\ job[a] \in Finished
    \/ Stale(a) /\ job[a] = "absent"

InReach(a) == Cardinality({b \in Approvals : b < a /\ Open(b)}) < BatchSize

(* A row that reconciling would change, and that has fewer than batch_size *)
(* open rows before it, does not stay so for ever.                         *)
RowsInReachAreReconciled ==
    \A a \in Approvals : []<>~(Actionable(a) /\ InReach(a))
============================================================================
