----------------------------- MODULE Monitoring -----------------------------
(***************************************************************************)
(* The monitoring loop: the batch pipeline compares the scored             *)
(* applications with the features and leaves a retrain signal, and two     *)
(* readers take it up at any time: GET /metrics of the scoring API, for    *)
(* the alert, and the monitoring agent that the orchestrator asks when a   *)
(* drift event comes in.  They keep no state: each reads the few bytes of  *)
(* the signal at once, whenever it is asked.                               *)
(***************************************************************************)
EXTENDS FeaturePipelines

TypeOK == PipelineTypeOK

Spec == PipelineInit /\ [][PipelineNext]_pipelineVars

----------------------------------------------------------------------------
(* The readers                                                             *)

(* update_retrain_required_metric: a file that is absent or no JSON is 0. *)
RetrainRequired == IF file["signal"] = "drift" THEN 1 ELSE 0

(* get_retrain_signal: the file is there and is JSON. *)
Available == file["signal"] \notin {None, "empty", Torn}

SlipSilenceIsGood ==
    CASE file["signal"] = "drift" -> "propose_retraining"
      [] OTHER                    -> "no_action"

(* MonitoringAgent.investigate. *)
Advice ==
    CASE ~Available               -> "manual_review"
      [] file["signal"] = "drift" -> "propose_retraining"
      [] OTHER                    -> "no_action"

(* OrchestratorAgent.handle: only one type of event has a workflow. *)
Decision(event) == IF event = "model_drift_detected" THEN Advice ELSE "manual_review"

----------------------------------------------------------------------------
(* Properties                                                              *)

(* A run that no other run and no replacement of the raw file got in the   *)
(* way of works on what it validated, in every script: training and test   *)
(* data come from the version of the raw file that passed validate_data,   *)
(* so does the reference of the drift report and the sample of the SHAP    *)
(* report; whatever runs before, beside or after it.                       *)
UndisturbedRunsReadTheirOwn ==
    \A p \in Runs \ disturbed : \A s \in Readers :
        /\ {got[p][s].train, got[p][s].test} \subseteq {None, checked[p]}
        /\ got[p][s].state = "finished" => checked[p] \in Valid

(* While the raw file stays as it is, builds may overlap: when nobody      *)
(* writes any more, the features are complete and of that version, since   *)
(* the split is deterministic.  (A killed build may leave a torn file.)    *)
OverlapLeavesOneVersion ==
    changes = 0 /\ kills = 0 =>
        \A f \in {"train", "test"} : writers[f] = {} => file[f] \in {None, file["raw"]}

Reported == {p \in Runs : found[p] # None}

(* Some report found no drift, or drift that its signal does not tell.     *)
NotRequired == \E p \in Reported : Signal(p) = "no_drift"

(* What the drift report shows and what the signal says agree when no      *)
(* drift task is between the two; for one reporting run, since overlapping *)
(* ones write the two files in any order, and if none was killed there.    *)
ReportAndSignalAgree ==
    (/\ \A p \in Runs : at[p] \notin {"signal", "signalOpen"}
     /\ Cardinality(Reported) <= 1
     /\ kills = 0)
        => file["signal"] = file["report"]

(* The alert fires and the agent proposes retraining only if a report      *)
(* found drift.  The agent does not take silence for an answer: it         *)
(* proposes to do nothing only on a report's word, never because the       *)
(* signal is absent, half written or mixed up.  The gauge does: it is 0    *)
(* whether a report found no drift or there is no signal to be read,       *)
(* although 0 is documented as "not required" (services/api/metrics.py:43). *)
(* What holds of a 0 without a report behind it is that no report has got  *)
(* as far as its signal, that one is just being written, that its writer   *)
(* was killed, or that two were written into each other; the gauge hides   *)
(* drift in no other way (update_retrain_required_metric).                 *)
AdviceIsFounded ==
    /\ RetrainRequired = 1 => \E p \in Runs : found[p] = "drift"
    /\ RetrainRequired = 0 =>
           \/ NotRequired
           \/ \A p \in Reported : at[p] = "signal"
           \/ \E p \in Reported : at[p] = "signalOpen"
           \/ kills > 0
           \/ Cardinality(Reported) > 1 /\ file["signal"] = Torn
    /\ \A event \in {"model_drift_detected", "other"} :
           /\ Decision(event) = "propose_retraining" => RetrainRequired = 1
           /\ Decision(event) = "no_action" => NotRequired
=============================================================================
