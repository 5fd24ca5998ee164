-------------------------- MODULE TrainingCluster --------------------------
(***************************************************************************)
(* The Kubernetes cluster as KubernetesExecutor sees it                    *)
(* (ai_engineering/tools/kubernetes_executor.py, with the manifest         *)
(* k8s/jobs/model-training-job.yaml).  There is one Job name per approval, *)
(* credit-training-<approval_id>, so `kubectl apply` of a name that exists *)
(* changes nothing.                                                        *)
(*                                                                         *)
(* A Job runs at most two pods (backoffLimit 1): after the first one fails *)
(* it is "retrying", already counts a failed pod in its status, and may    *)
(* still complete.  Once finished it is deleted some day after             *)
(* ttlSecondsAfterFinished; when that may happen is for the module that    *)
(* composes this one to say.                                               *)
(***************************************************************************)
EXTENDS Naturals, ApprovalIds

CONSTANT
    GetErrors   \* may `kubectl get job` fail for another reason than NotFound?

ASSUME GetErrorsAssumption == GetErrors \in BOOLEAN

VARIABLES
    job,        \* job[a]: the Job of approval a
    runs,       \* runs[a]: Jobs ever created for a: 0, 1, or 2 for "two or more"
    inflight    \* inflight[a]: an apply that timed out may still reach the API server

clusterVars == <<job, runs, inflight>>

JobStates == {"absent", "running", "retrying", "completed", "failed"}
Finished  == {"completed", "failed"}

ClusterTypeOK ==
    /\ job \in [Approvals -> JobStates]
    /\ runs \in [Approvals -> 0..2]
    /\ inflight \in [Approvals -> BOOLEAN]

ClusterInit ==
    /\ job = [a \in Approvals |-> "absent"]
    /\ runs = [a \in Approvals |-> 0]
    /\ inflight = [a \in Approvals |-> FALSE]

(* The API server handles an apply of a's manifest. *)
Apply(a) ==
    IF job[a] = "absent"
    THEN /\ job' = [job EXCEPT ![a] = "running"]
         /\ runs' = [runs EXCEPT ![a] = IF @ < 2 THEN @ + 1 ELSE 2]
    ELSE UNCHANGED <<job, runs>>

ApplyResults == {"executed", "refused", "timed_out", "raised"}

(* apply_training_job returns, or raises, with the given result.           *)
(*   executed   kubectl exited with 0                                      *)
(*   refused    kubectl is missing, or exited with an error; the request   *)
(*              may have been carried out before the error                 *)
(*   timed_out  KubernetesExecutionUnknown: the request was never sent,    *)
(*              was carried out, or is still on its way                    *)
(*   raised     another exception, before kubectl was started              *)
ApplyTrainingJob(a, result) ==
    \/ /\ result \in {"executed", "refused", "timed_out"}
       /\ Apply(a)
       /\ UNCHANGED inflight
    \/ /\ result \in {"refused", "timed_out", "raised"}
       /\ UNCHANGED clusterVars
    \/ /\ result = "timed_out"
       /\ inflight' = [inflight EXCEPT ![a] = TRUE]
       /\ UNCHANGED <<job, runs>>

(* What get_training_job_status makes of the Job's status: completionTime  *)
(* first, then the count of failed pods.                                   *)
Observed(a) ==
    CASE job[a] = "retrying" -> "failed"
      [] OTHER               -> job[a]

StatusResults == {"completed", "failed", "running", "absent", "unavailable", "raised"}

(* get_training_job_status answers, or raises.  Every non-zero exit of     *)
(* kubectl is reported as "absent"; "unavailable" is the missing kubectl,  *)
(* which the code calls "unknown"; "raised" is the timeout and whatever    *)
(* else is thrown.                                                         *)
JobStatus(a, result) ==
    \/ result \in {Observed(a), "unavailable", "raised"}
    \/ GetErrors /\ result = "absent"

Arrive(a) ==
    /\ inflight[a]
    /\ inflight' = [inflight EXCEPT ![a] = FALSE]
    /\ Apply(a)

Progress(a, from, to) ==
    /\ job[a] \in from
    /\ job' = [job EXCEPT ![a] = to]
    /\ UNCHANGED <<runs, inflight>>

PodFails(a)    == \/ Progress(a, {"running"}, "retrying")
                  \/ Progress(a, {"retrying"}, "failed")
JobCompletes(a) == Progress(a, {"running", "retrying"}, "completed")

(* The TTL controller removes a finished Job. *)
Expire(a) == Progress(a, Finished, "absent")
============================================================================
