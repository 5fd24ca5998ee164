------------------------- MODULE ApprovalExecution -------------------------
(***************************************************************************)
(* Approval-gated execution: the handlers of ai_engineering/api/           *)
(* agent_service.py and of services/reconciliation_service.py, run by any  *)
(* number of API requests and reconciliation workers over the approval     *)
(* table, the audit table and the cluster.                                 *)
(*                                                                         *)
(* A caller runs one handler at a time.  Each database transaction and     *)
(* each kubectl call of the handler is one step; between two of them the   *)
(* other callers, the cluster and the clock move, and the caller may die.  *)
(*                                                                         *)
(* A caller that moved a row to EXECUTING owns the execution until it      *)
(* settles the row, gives it back as UNKNOWN, or leaves.  The code has no  *)
(* token for that: the lease alone separates a slow owner from a dead one. *)
(* MaxHold is the longest, in ticks, that a live owner takes from its      *)
(* claim to the end of its ownership (120 s for kubectl apply, 30 s for    *)
(* kubectl get, and the database calls between them); the code compares it *)
(* with nothing.                                                           *)
(***************************************************************************)
EXTENDS ApprovalStore, AuditTrail, TrainingCluster

CONSTANTS
    Clients,        \* threads that serve API requests
    Workers,        \* reconciliation workers, which only reconcile
    MaxHold,        \* how long a live owner can take
    MaxCrashes,     \* bound: callers that die, per behaviour
    ReconciledWithinTTL,  \* are rows settled before a finished Job's TTL runs out?
    NoApproval      \* the approval of an idle caller

ASSUME CallersAssumption ==
    /\ MaxHold \in Nat
    /\ MaxCrashes \in Nat
    /\ ReconciledWithinTTL \in BOOLEAN

VARIABLES
    call,           \* call[p]: the handler caller p is in
    crashes         \* callers that have died so far

vars == <<status, age, audit, job, runs, inflight, call, crashes>>

Callers == Clients \cup Workers

----------------------------------------------------------------------------
(* Where a caller can be.  The names say which handler it is in and what   *)
(* it does next.                                                           *)

ExecuteSteps   == {"execute_started", "execute_apply", "execute_mark", "execute_report"}
RetrySteps     == {"retry_started", "retry_check", "retry_resolve",
                   "retry_announce", "retry_apply", "retry_mark"}
ReconcileSteps == {"reconcile_started", "reconcile_check", "reconcile_resolve",
                   "reconcile_stale", "reconcile_report"}

Steps == {"idle", "create_report", "decide_report"}
             \cup ExecuteSteps \cup RetrySteps \cup ReconcileSteps

(* The steps between claiming an execution and letting go of it. *)
OwnerSteps == (ExecuteSteps \ {"execute_report"}) \cup RetrySteps

Results == ApplyResults \cup StatusResults \cup {"none"}

(* seen: the status a reconcile read, or returned; result: the answer of   *)
(* kubectl.                                                                *)
Idle == [at |-> "idle", on |-> NoApproval, seen |-> "MISSING", result |-> "none", held |-> 0]

Owns(p, a) == call[p].at \in OwnerSteps /\ call[p].on = a
Owning(p)  == call[p].at \in OwnerSteps

Calls == [at     : Steps,
          on     : Approvals \cup {NoApproval},
          seen   : Statuses \cup {"MISSING"},
          result : Results,
          held   : 0..MaxHold]

CallTypeOK ==
    /\ call \in [Callers -> Calls]
    /\ \A p \in Callers : call[p].at # "idle" => call[p].on \in Approvals

TypeOK ==
    /\ StoreTypeOK
    /\ AuditTypeOK
    /\ ClusterTypeOK
    /\ CallTypeOK
    /\ crashes \in 0..MaxCrashes

Init ==
    /\ StoreInit
    /\ AuditInit
    /\ ClusterInit
    /\ call = [p \in Callers |-> Idle]
    /\ crashes = 0

----------------------------------------------------------------------------
(* Control flow of one caller. *)

Enter(p, a, step) ==
    /\ call[p].at = "idle"
    /\ call' = [call EXCEPT ![p] = [Idle EXCEPT !.at = step, !.on = a]]

Goto(p, step) == call' = [call EXCEPT ![p].at = step]

(* Go on with what kubectl answered. *)
GotoWith(p, step, result) == call' = [call EXCEPT ![p].at = step, ![p].result = result]

SlipConcludeAsRead(p, step, recovered) ==
    call' = [call EXCEPT ![p].at = step, ![p].held = 0]

(* Go on to report the reconciled row, with the status it was returned with, *)
(* without owning the execution any longer.                                *)
Conclude(p, step, recovered) ==
    call' = [call EXCEPT ![p].at = step, ![p].seen = recovered, ![p].held = 0]

(* Go on without owning the execution any longer. *)
Release(p, step) == call' = [call EXCEPT ![p].at = step, ![p].held = 0]

Return(p) == call' = [call EXCEPT ![p] = Idle]

(* record() and go on; record() and return. *)
Report(p, from, event, step) ==
    /\ call[p].at = from
    /\ Record(call[p].on, event)
    /\ Goto(p, step)
    /\ UNCHANGED <<storeVars, clusterVars, crashes>>

ReportAndReturn(p, from, event) ==
    /\ call[p].at = from
    /\ Record(call[p].on, event)
    /\ Return(p)
    /\ UNCHANGED <<storeVars, clusterVars, crashes>>

----------------------------------------------------------------------------
(* create_approval and create_agent_decision; decide_approval.             *)

CreateApproval(p, a) ==
    /\ Create(a)
    /\ Enter(p, a, "create_report")
    /\ UNCHANGED <<audit, clusterVars, crashes>>

DecideApproval(p, a) ==
    /\ \E approved \in BOOLEAN : Decide(a, approved)
    /\ Enter(p, a, "decide_report")
    /\ UNCHANGED <<audit, clusterVars, crashes>>

ReportCreated(p) == ReportAndReturn(p, "create_report", "APPROVAL_REQUESTED")
ReportDecided(p) == ReportAndReturn(p, "decide_report", "APPROVAL_DECIDED")

----------------------------------------------------------------------------
(* execute_approval.  The row is never deleted, and the handler reads only *)
(* its immutable action before the claim; a claim that finds the row in    *)
(* EXECUTING, or that raises (409), ends the request without a change.     *)

ExecuteClaim(p, a) ==
    /\ ClaimExecution(a)
    /\ Enter(p, a, "execute_started")
    /\ UNCHANGED <<audit, clusterVars, crashes>>

ExecuteStarted(p) == Report(p, "execute_started", "EXECUTION_STARTED", "execute_apply")

ExecuteApply(p) ==
    /\ call[p].at = "execute_apply"
    /\ \E result \in ApplyResults :
          /\ ApplyTrainingJob(call[p].on, result)
          /\ GotoWith(p, "execute_mark", result)
    /\ UNCHANGED <<storeVars, audit, crashes>>

SlipOutcomeIgnoresRefusal(result) ==
    CASE result = "timed_out" -> "UNKNOWN"
      [] result = "raised"    -> "FAILED"
      [] OTHER                -> "COMPLETED"

(* The status that execute_approval gives the row, by the kubectl result.  *)
ExecuteOutcome(result) ==
    CASE result = "timed_out" -> "UNKNOWN"
      [] result = "executed"  -> "COMPLETED"
      [] OTHER                -> "FAILED"

(* mark_unknown, mark_completed or mark_failed, by the wanted status. *)
Mark(a, target) == IF target = "UNKNOWN" THEN MarkUnknown(a) ELSE MarkSettled(a, target)

MarkRaises(a, target) ==
    IF target = "UNKNOWN" THEN Refuses(a, target)
                          ELSE status[a] # target /\ Refuses(a, target)

(* A mark that raises ends the handler: the API answers 500, the worker    *)
(* logs it, and no event is recorded.                                      *)
MarkOrRaise(p, target, Then) ==
    \/ /\ Mark(call[p].on, target)
       /\ Then
    \/ /\ MarkRaises(call[p].on, target)
       /\ Return(p)
       /\ UNCHANGED storeVars

ExecuteMark(p) ==
    /\ call[p].at = "execute_mark"
    /\ MarkOrRaise(p, ExecuteOutcome(call[p].result), Release(p, "execute_report"))
    /\ UNCHANGED <<audit, clusterVars, crashes>>

OutcomeEvent(result) ==
    CASE result = "timed_out" -> "EXECUTION_UNKNOWN"
      [] result = "executed"  -> "EXECUTION_COMPLETED"
      [] OTHER                -> "EXECUTION_FAILED"

ExecuteReport(p) ==
    ReportAndReturn(p, "execute_report", OutcomeEvent(call[p].result))

----------------------------------------------------------------------------
(* ReconciliationService.retry_if_absent.  The status read before the      *)
(* claim only filters: the claim repeats the test under the row lock.      *)

RetryClaim(p, a) ==
    /\ ClaimRetryExecution(a)
    /\ Enter(p, a, "retry_started")
    /\ UNCHANGED <<audit, clusterVars, crashes>>

RetryStarted(p) ==
    Report(p, "retry_started", "EXECUTION_RECONCILIATION_STARTED", "retry_check")

RetryCheck(p) ==
    /\ call[p].at = "retry_check"
    /\ \E result \in StatusResults :
          /\ JobStatus(call[p].on, result)
          /\ GotoWith(p, IF result = "absent" THEN "retry_announce" ELSE "retry_resolve", result)
    /\ UNCHANGED <<storeVars, audit, clusterVars, crashes>>

(* A finished Job settles the row and is reported; a running one is        *)
(* reported, as EXECUTING, and the row is left alone; without an answer    *)
(* the row is UNKNOWN again and nothing is reported.                       *)
RetryResolve(p) ==
    /\ call[p].at = "retry_resolve"
    /\ \/ /\ call[p].result = "completed"
          /\ MarkOrRaise(p, "COMPLETED", Conclude(p, "reconcile_report", "COMPLETED"))
       \/ /\ call[p].result = "failed"
          /\ MarkOrRaise(p, "FAILED", Conclude(p, "reconcile_report", "FAILED"))
       \/ /\ call[p].result = "running"
          /\ Conclude(p, "reconcile_report", "EXECUTING")
          /\ UNCHANGED storeVars
       \/ /\ call[p].result \in {"unavailable", "raised"}
          /\ MarkOrRaise(p, "UNKNOWN", Return(p))
    /\ UNCHANGED <<audit, clusterVars, crashes>>

RetryAnnounce(p) == Report(p, "retry_announce", "EXECUTION_RETRY", "retry_apply")

RetryApply(p) ==
    /\ call[p].at = "retry_apply"
    /\ \E result \in ApplyResults :
          /\ ApplyTrainingJob(call[p].on, result)
          /\ GotoWith(p, "retry_mark", result)
    /\ UNCHANGED <<storeVars, audit, crashes>>

(* The status that retry_if_absent gives the row: unlike execute_approval  *)
(* it treats every exception as an unknown outcome.  It records no event.  *)
RetryOutcome(result) ==
    CASE result \in {"timed_out", "raised"} -> "UNKNOWN"
      [] result = "executed"                -> "COMPLETED"
      [] OTHER                              -> "FAILED"

RetryMark(p) ==
    /\ call[p].at = "retry_mark"
    /\ MarkOrRaise(p, RetryOutcome(call[p].result), Return(p))
    /\ UNCHANGED <<audit, clusterVars, crashes>>

----------------------------------------------------------------------------
(* ReconciliationService.reconcile.  It owns nothing: the status it read   *)
(* first and the Job status it read next may both be old when it acts, and *)
(* the status of the row it got back may be old when it is reported.       *)

ReconcileStart(p, a) ==
    /\ status[a] \in {"UNKNOWN", "EXECUTING"}
    /\ call[p].at = "idle"
    /\ call' = [call EXCEPT ![p] = [Idle EXCEPT !.at = "reconcile_started",
                                                !.on = a,
                                                !.seen = status[a]]]
    /\ UNCHANGED <<storeVars, audit, clusterVars, crashes>>

ReconcileStarted(p) ==
    Report(p, "reconcile_started", "EXECUTION_RECONCILIATION_STARTED", "reconcile_check")

ReconcileCheck(p) ==
    /\ call[p].at = "reconcile_check"
    /\ \E result \in StatusResults :
          /\ JobStatus(call[p].on, result)
          /\ IF result = "raised" THEN Return(p)
                                  ELSE GotoWith(p, "reconcile_resolve", result)
    /\ UNCHANGED <<storeVars, audit, clusterVars, crashes>>

ReconcileResolve(p) ==
    LET a == call[p].on
        expecting == call[p].seen = "EXECUTING" /\ call[p].result = "absent"
    IN
    /\ call[p].at = "reconcile_resolve"
    /\ \/ /\ call[p].result = "completed"
          /\ MarkOrRaise(p, "COMPLETED", Conclude(p, "reconcile_report", "COMPLETED"))
       \/ /\ call[p].result = "failed"
          /\ MarkOrRaise(p, "FAILED", Conclude(p, "reconcile_report", "FAILED"))
       \/ /\ expecting
          /\ RecoverStaleExecution(a)
          /\ Conclude(p, "reconcile_stale", "UNKNOWN")
       \/ /\ \/ expecting /\ ~Stale(a)
             \/ call[p].result \in {"running", "absent", "unavailable"} /\ ~expecting
          /\ Conclude(p, "reconcile_report", status[a])
          /\ UNCHANGED storeVars
    /\ UNCHANGED <<audit, clusterVars, crashes>>

ReconcileStale(p) == Report(p, "reconcile_stale", "EXECUTION_UNKNOWN", "reconcile_report")

(* The last step of reconcile, and of the retries that find a Job. *)
ReconcileReport(p) ==
    ReportAndReturn(p, "reconcile_report", Reconciled(call[p].seen))

----------------------------------------------------------------------------
(* The caller's process is killed, or a database call inside it fails: the *)
(* rest of the handler never happens.                                      *)
Crash(p) ==
    /\ call[p].at # "idle"
    /\ crashes < MaxCrashes
    /\ crashes' = crashes + 1
    /\ Return(p)
    /\ UNCHANGED <<storeVars, audit, clusterVars>>

(* One tick.  Ownership lasts at most MaxHold ticks while its owner lives. *)
Tick ==
    /\ \A p \in Callers : Owning(p) => call[p].held < MaxHold
    /\ Ageing
    /\ call' = [p \in Callers |->
                   IF Owning(p) THEN [call[p] EXCEPT !.held = @ + 1] ELSE call[p]]
    /\ UNCHANGED <<audit, clusterVars, crashes>>

(* A finished Job is deleted a day after its end (ttlSecondsAfterFinished  *)
(* 86400): no owner, lease or kubectl timeout lasts that long, so nothing  *)
(* of the kind is pending for it by then.  Whether its row has been        *)
(* settled by then depends on the workers having been up.                  *)
Expired(a) ==
    /\ ~inflight[a]
    /\ \A p \in Callers : ~Owns(p, a)
    /\ ReconciledWithinTTL => status[a] \in {"COMPLETED", "FAILED"}

(* The cluster on its own. *)
ClusterStep(a) ==
    /\ \/ Arrive(a)
       \/ PodFails(a)
       \/ JobCompletes(a)
       \/ Expired(a) /\ Expire(a)
    /\ UNCHANGED <<storeVars, audit, call, crashes>>

(* A request or a worker begins a handler. *)
ClientStarts(p, a) ==
    \/ CreateApproval(p, a)
    \/ DecideApproval(p, a)
    \/ ExecuteClaim(p, a)
    \/ RetryClaim(p, a)
    \/ ReconcileStart(p, a)

(* A caller goes on with the handler it is in. *)
Proceed(p) ==
    \/ ReportCreated(p)
    \/ ReportDecided(p)
    \/ ExecuteStarted(p)
    \/ ExecuteApply(p)
    \/ ExecuteMark(p)
    \/ ExecuteReport(p)
    \/ RetryStarted(p)
    \/ RetryCheck(p)
    \/ RetryResolve(p)
    \/ RetryAnnounce(p)
    \/ RetryApply(p)
    \/ RetryMark(p)
    \/ ReconcileStarted(p)
    \/ ReconcileCheck(p)
    \/ ReconcileResolve(p)
    \/ ReconcileStale(p)
    \/ ReconcileReport(p)

Next ==
    \/ \E p \in Clients, a \in Approvals : ClientStarts(p, a)
    \/ \E p \in Workers, a \in Approvals : ReconcileStart(p, a)
    \/ \E p \in Callers : Proceed(p) \/ Crash(p)
    \/ \E a \in Approvals : ClusterStep(a)
    \/ Tick

Spec == Init /\ [][Next]_vars

(* What keeps the system moving: a handler that has begun is scheduled to  *)
(* its end, the worker's loop comes back to every open row, time passes, a *)
(* Job finishes, and a worker that keeps asking kubectl is now and then    *)
(* answered correctly.                                                     *)
Answered(p) ==
    /\ ReconcileCheck(p)
    /\ call'[p].result = Observed(call[p].on)

JobProgress(a) == ClusterStep(a) /\ (PodFails(a) \/ JobCompletes(a))

Fairness ==
    /\ \A p \in Callers : WF_vars(Proceed(p))
    /\ \A p \in Workers : SF_vars(Answered(p))
    /\ \A p \in Workers, a \in Approvals : WF_vars(ReconcileStart(p, a))
    /\ \A a \in Approvals : WF_vars(JobProgress(a))
    /\ WF_vars(Tick)

FairSpec == Spec /\ Fairness

----------------------------------------------------------------------------
(* Properties *)

(* No execution has two live owners: the row lock hands out one claim at a *)
(* time, and the lease takes a claim away only from a caller that is gone  *)
(* (claim_execution, claim_retry_execution, recover_stale_execution).      *)
(* Holds as long as MaxHold < Lease.                                       *)
SingleOwner ==
    \A a \in Approvals : \A p, q \in Callers : Owns(p, a) /\ Owns(q, a) => p = q

(* What makes SingleOwner inductive: the row of an execution with a live   *)
(* owner still carries that owner's claim, no older than the owner's hold, *)
(* or somebody who saw the Job finish has settled it.                      *)
OwnersHoldTheLease ==
    \A a \in Approvals, p \in Callers :
        Owns(p, a) => \/ status[a] = "EXECUTING" /\ age[a] <= call[p].held
                      \/ status[a] \in {"COMPLETED", "FAILED"}

(* A Job exists, existed or may still come to exist only for an approval   *)
(* whose claim was committed first (execute_approval claims the row before *)
(* it touches Kubernetes), and claims start from an approved row.          *)
RunsAreClaimed ==
    \A a \in Approvals :
        job[a] # "absent" \/ inflight[a] \/ runs[a] > 0
            => status[a] \in {"EXECUTING", "UNKNOWN", "COMPLETED", "FAILED"}

(* However many requests, retries, reconcilers and crashes there are, one  *)
(* approval causes one training run, if rows are settled before finished   *)
(* Jobs are deleted (ReconciledWithinTTL).                                 *)
RunsAtMostOnce == \A a \in Approvals : runs[a] <= 1

(* A COMPLETED approval had its Job: no path through execute, retry and    *)
(* reconcile reports success for a run that was never created.             *)
NoPhantomCompletion ==
    \A a \in Approvals : status[a] = "COMPLETED" => runs[a] > 0

(* The events that give the outcome of an execution: execute_approval's,   *)
(* and the end of a reconciliation that returned a settled row.            *)
Outcomes(outcome) ==
    {IF outcome = "COMPLETED" THEN "EXECUTION_COMPLETED" ELSE "EXECUTION_FAILED",
     Reconciled(outcome)}

(* An outcome in the audit trail is the outcome in the row, whoever else   *)
(* was settling that row meanwhile: a handler that lost the race raises    *)
(* before it records anything.                                             *)
AuditAgrees ==
    \A a \in Approvals :
        \A outcome \in {"COMPLETED", "FAILED"} :
            audit[a] \cap Outcomes(outcome) # {} => status[a] = outcome

(* recover_stale_execution takes an abandoned lease only: when a row goes  *)
(* from EXECUTING to UNKNOWN, no caller that owns it goes on owning it.    *)
OnlyAbandonedIsRecovered ==
    [][\A a \in Approvals, p \in Callers :
          status[a] = "EXECUTING" /\ status'[a] = "UNKNOWN" /\ Owns(p, a) => ~Owns(p, a)']_vars

(* A retry announces itself only after a check made while there was no Job *)
(* ("Retry an UNKNOWN execution only when reconciliation proves the Job is *)
(* absent", retry_approval).  Holds when GetErrors is FALSE.               *)
RetryOnlyWhenAbsent ==
    [][\A p \in Callers :
          call[p].at = "retry_check" /\ call'[p].at = "retry_announce"
              => job[call[p].on] = "absent"]_vars

(* The row is settled, and nobody who might still report it is left.       *)
SettledForGood(a) ==
    /\ status[a] \in {"COMPLETED", "FAILED"}
    /\ \A p \in Callers : call[p].on # a
    /\ crashes = 0

(* The outcome of an execution can be read from its trail ("Execution and  *)
(* reconciliation continue the same audit trace so an operator can inspect *)
(* the complete lifecycle", docs/ai-engineering-agent-workflow.md:54):     *)
(* whether execute_approval, a reconciler or a retry that found the Job    *)
(* settled the row, and whoever lost the race, an event with the status of *)
(* the row is in the trail; the end of a reconciliation that left the row  *)
(* open does not count.  Where a retry went ahead the sentence is not      *)
(* true: retry_if_absent settles the row after its apply and records no    *)
(* outcome, so rows that it may have settled are not spoken of.            *)
SettledIsAudited ==
    \A a \in Approvals :
        SettledForGood(a) /\ "EXECUTION_RETRY" \notin audit[a]
            => audit[a] \cap Outcomes(status[a]) # {}

(* The gate as the rest of the system may rely on it: this specification   *)
(* implements ApprovalLifecycle.                                           *)
Lifecycle == INSTANCE ApprovalLifecycle
                WITH launched <- {a \in Approvals : runs[a] > 0}

ImplementsLifecycle == Lifecycle!Spec

(* A row whose Job has finished is settled in the end, whatever retries,   *)
(* crashes and wrong kubectl answers come between (run_forever).           *)
FinishedJobSettles ==
    \A a \in Approvals :
        (status[a] \in {"EXECUTING", "UNKNOWN"} /\ job[a] \in Finished)
            ~> status[a] \in {"COMPLETED", "FAILED"}

(* No row stays EXECUTING for ever: its owner lets go of it, or the Job's  *)
(* end or the lease does (reconcile, recover_stale_execution).             *)
ExecutionEnds ==
    \A a \in Approvals : status[a] = "EXECUTING" ~> status[a] # "EXECUTING"
============================================================================
