--------------------------- MODULE ModelPromotion ---------------------------
(***************************************************************************)
(* The champion alias of the registered model CreditScoringCatBoost, and   *)
(* those who move it: the retraining DAG (dags/credit_scoring_retraining_  *)
(* pipeline.py with src/training), which promotes the latest CatBoost run, *)
(* and reviews (agents/ml_agent.py, agents/reviewer_agent.py, workflows/   *)
(* model_promotion_workflow.py, tools/mlflow_tools.py), which compare a    *)
(* candidate with the champion, ask a human and promote.  MLflow answers   *)
(* one call at a time: everything between two calls can interleave.        *)
(*                                                                         *)
(* A run is its place in the order of start_time.  Of its metrics the area *)
(* under the curve is kept; the thresholds on recall and precision are of  *)
(* the same kind as MinAuc.  LightGBM and XGBoost, which register models   *)
(* of other names, are one family, "other".                                *)
(*                                                                         *)
(* The operator of a review hands the workflow the quality_review of the   *)
(* evaluation and the version its candidate run registered; nothing in the *)
(* code ties the two together.  A candidate of another family has no       *)
(* version of CreditScoringCatBoost and ends the review.                   *)
(***************************************************************************)
EXTENDS Naturals, Sequences

CONSTANTS
    Pipelines,      \* runs of the retraining DAG
    Reviews,        \* operators with an evaluation in hand
    Aucs,           \* values of roc_auc
    MinAuc,         \* min_roc_auc
    Nobody,         \* the owner of a run outside the DAG
    MaxRuns         \* bound: training runs

ASSUME PromotionAssumption ==
    /\ Aucs \subseteq Nat \ {0}
    /\ MinAuc \in Nat
    /\ MaxRuns \in Nat
    /\ Pipelines \cap Reviews = {}
    /\ Nobody \notin Pipelines

VARIABLES
    runs,           \* the MLflow runs of the training scripts, oldest first
    champion,       \* the run behind the alias, 0 before it is set
    pipeline,       \* pipeline[p]: where p is
    review,         \* review[r]: where r is
    raced           \* history: those who have read before the alias was set by another

promotionVars == <<runs, champion, pipeline, review, raced>>

Families == {"catboost", "other"}
RunIds   == 1..Len(runs)

TypeOK ==
    /\ runs \in Seq([family : Families, owner : Pipelines \cup {Nobody}, auc : Aucs \cup {0},
                     state : {"training", "registered", "finished", "failed"}])
    /\ champion \in 0..Len(runs)
    /\ pipeline \in [Pipelines -> [at : {"train", "promote", "set", "done", "failed"}, latest : 0..Len(runs)]]
    /\ review \in [Reviews -> [at : {"idle", "compare", "human", "execute", "set"},
                               champion : 0..Len(runs), candidate : 0..Len(runs)]]
    /\ raced \subseteq Pipelines \cup Reviews

Idle == [at |-> "idle", champion |-> 0, candidate |-> 0]

Init ==
    /\ runs = <<>>
    /\ champion = 0
    /\ pipeline = [p \in Pipelines |-> [at |-> "train", latest |-> 0]]
    /\ review = [r \in Reviews |-> Idle]
    /\ raced = {}

----------------------------------------------------------------------------
(* Training runs.                                                          *)

Owned(p, family) == {i \in RunIds : runs[i].owner = p /\ runs[i].family = family}

StartRun(family, owner) ==
    /\ Len(runs) < MaxRuns
    /\ runs' = Append(runs, [family |-> family, owner |-> owner, auc |-> 0, state |-> "training"])
    /\ UNCHANGED <<champion, pipeline, review, raced>>

(* The training tasks of the DAG run side by side. *)
StartTraining(p, family) ==
    /\ pipeline[p].at = "train"
    /\ Owned(p, family) = {}
    /\ StartRun(family, p)

(* An approved training Job runs train_catboost alone. *)
StartJob == StartRun("catboost", Nobody)

(* log_metrics, and log_model with registered_model_name. *)
Register(i) ==
    /\ runs[i].state = "training"
    /\ \E auc \in Aucs :
          runs' = [runs EXCEPT ![i].state = "registered", ![i].auc = auc]
    /\ UNCHANGED <<champion, pipeline, review, raced>>

(* The with block of start_run ends. *)
Finish(i) ==
    /\ runs[i].state = "registered"
    /\ runs' = [runs EXCEPT ![i].state = "finished"]
    /\ UNCHANGED <<champion, pipeline, review, raced>>

(* An exception leaves it; nobody reads the metrics of a failed run. *)
RunFails(i) ==
    /\ runs[i].state \in {"training", "registered"}
    /\ runs' = [runs EXCEPT ![i].state = "failed", ![i].auc = 0]
    /\ UNCHANGED <<champion, pipeline, review, raced>>

----------------------------------------------------------------------------
(* Reading and moving the alias.                                           *)

FinishedRuns(family) == {i \in RunIds : runs[i].family = family /\ runs[i].state = "finished"}

SlipLatestOfAnyState(family) ==
    LET candidates == {i \in RunIds : runs[i].family = family /\ runs[i].state # "training"}
    IN  IF candidates = {} THEN 0 ELSE CHOOSE i \in candidates : \A j \in candidates : j <= i

SlipOldestFinished(family) ==
    LET candidates == FinishedRuns(family)
    IN  IF candidates = {} THEN 0 ELSE CHOOSE i \in candidates : \A j \in candidates : i <= j

(* attributes.status = 'FINISHED', start_time DESC, the first of a family. *)
LatestFinished(family) ==
    LET candidates == FinishedRuns(family)
    IN  IF candidates = {} THEN 0 ELSE CHOOSE i \in candidates : \A j \in candidates : j <= i

Read(x) == raced' = raced \ {x}

SlipSetTheNextVersion(x, i) ==
    /\ champion' = i + 1
    /\ raced' = (Pipelines \cup Reviews) \ {x}

SetAlias(x, i) ==
    /\ champion' = i
    /\ raced' = (Pipelines \cup Reviews) \ {x}

----------------------------------------------------------------------------
(* The tail of the DAG.                                                    *)

PipelineGoes(p, place, latest) ==
    pipeline' = [pipeline EXCEPT ![p] = [at |-> place, latest |-> latest]]

SlipSelectWhenAllDone(p) ==
    /\ pipeline[p].at = "train"
    /\ \A family \in Families :
          \E i \in Owned(p, family) : runs[i].state \in {"finished", "failed"}
    /\ PipelineGoes(p, "promote", 0)
    /\ UNCHANGED <<runs, champion, review, raced>>

(* select_best_model follows when every training task has succeeded.  It   *)
(* logs which model is best; nobody reads that.                            *)
SelectBest(p) ==
    /\ pipeline[p].at = "train"
    /\ \A family \in Families : \E i \in Owned(p, family) : runs[i].state = "finished"
    /\ PipelineGoes(p, "promote", 0)
    /\ UNCHANGED <<runs, champion, review, raced>>

(* promote_model looks for the latest finished CatBoost run and the version *)
(* it registered, which every finished run has.                            *)
PromoteSearch(p) ==
    /\ pipeline[p].at = "promote"
    /\ LatestFinished("catboost") # 0
    /\ PipelineGoes(p, "set", LatestFinished("catboost"))
    /\ Read(p)
    /\ UNCHANGED <<runs, champion, review>>

PromoteSet(p) ==
    /\ pipeline[p].at = "set"
    /\ SetAlias(p, pipeline[p].latest)
    /\ PipelineGoes(p, "done", 0)
    /\ UNCHANGED <<runs, review>>

(* A task fails, before, in or after a training run; no task is retried. *)
PipelineFails(p) ==
    /\ pipeline[p].at \in {"train", "promote", "set"}
    /\ PipelineGoes(p, "failed", 0)
    /\ UNCHANGED <<runs, champion, review, raced>>

----------------------------------------------------------------------------
(* A review.                                                               *)

ReviewGoes(r, to) == review' = [review EXCEPT ![r] = to]

(* MLAgent.inspect: get_champion_model, and then compare_latest_models.    *)
(* Without a champion, or when it cannot be read, the decision is          *)
(* MANUAL_REVIEW.                                                          *)
ReadChampion(r) ==
    /\ review[r].at = "idle"
    /\ champion # 0
    /\ ReviewGoes(r, [at |-> "compare", champion |-> champion, candidate |-> 0])
    /\ Read(r)
    /\ UNCHANGED <<runs, champion, pipeline>>

(* The best of the latest runs; sorted() keeps the later of two equals     *)
(* first.                                                                  *)
Strongest ==
    LET latest == {LatestFinished(family) : family \in Families} \ {0}
    IN  IF latest = {} THEN 0
        ELSE CHOOSE i \in latest :
                \A j \in latest : runs[i].auc > runs[j].auc \/ (runs[i].auc = runs[j].auc /\ j <= i)

SlipOnlyTheThreshold(candidate, current) == runs[candidate].auc >= MinAuc

(* ReviewerAgent.review *)
Approved(candidate, current) ==
    /\ runs[candidate].auc >= MinAuc
    /\ runs[candidate].auc >= runs[current].auc

(* PROMOTE goes to the human, every other decision ends the review. *)
Evaluate(r) ==
    /\ review[r].at = "compare"
    /\ LET candidate == Strongest IN
          IF /\ candidate # 0
             /\ runs[candidate].family = "catboost"
             /\ Approved(candidate, review[r].champion)
          THEN ReviewGoes(r, [at |-> "human", champion |-> review[r].champion, candidate |-> candidate])
          ELSE ReviewGoes(r, Idle)
    /\ UNCHANGED <<runs, champion, pipeline, raced>>

HumanApproves(r) ==
    /\ review[r].at = "human"
    /\ ReviewGoes(r, [review[r] EXCEPT !.at = "execute"])
    /\ UNCHANGED <<runs, champion, pipeline, raced>>

(* promote_model finds the version and asks who the champion is; it goes   *)
(* on when that cannot be read.                                            *)
CheckChampion(r) ==
    /\ review[r].at = "execute"
    /\ \/ ReviewGoes(r, [review[r] EXCEPT !.at = "set"])
       \/ champion = review[r].candidate /\ ReviewGoes(r, Idle)
    /\ UNCHANGED <<runs, champion, pipeline, raced>>

SetChampion(r) ==
    /\ review[r].at = "set"
    /\ SetAlias(r, review[r].candidate)
    /\ ReviewGoes(r, Idle)
    /\ UNCHANGED <<runs, pipeline>>

(* The human declines, or a call to MLflow fails. *)
ReviewEnds(r) ==
    /\ review[r].at # "idle"
    /\ ReviewGoes(r, Idle)
    /\ UNCHANGED <<runs, champion, pipeline, raced>>

Next ==
    \/ StartJob
    \/ \E i \in RunIds : Register(i) \/ Finish(i) \/ RunFails(i)
    \/ \E p \in Pipelines :
          \/ \E family \in Families : StartTraining(p, family)
          \/ SelectBest(p) \/ PromoteSearch(p) \/ PromoteSet(p) \/ PipelineFails(p)
    \/ \E r \in Reviews :
          \/ ReadChampion(r) \/ Evaluate(r) \/ HumanApproves(r)
          \/ CheckChampion(r) \/ SetChampion(r) \/ ReviewEnds(r)

Spec == Init /\ [][Next]_promotionVars

----------------------------------------------------------------------------
(* Properties.                                                             *)

(* The scoring API loads what the alias names: it is a CatBoost run that   *)
(* has finished, never one that is still being written or has failed.      *)
ChampionIsFinished ==
    champion # 0 => champion \in FinishedRuns("catboost")

PipelineSets(p) == pipeline[p].at = "set" /\ pipeline'[p].at = "done"
ReviewSets(r)   == review[r].at = "set" /\ champion' = review[r].candidate /\ review'[r].at = "idle"

(* A pipeline that promotes has trained a model, and promotes that one or  *)
(* one that was started later.                                             *)
PipelinePromotesOwnOrNewer ==
    [][\A p \in Pipelines : PipelineSets(p) =>
          \E i \in Owned(p, "catboost") : runs[i].state = "finished" /\ i <= champion']_promotionVars

(* The alias goes back to an older run only when somebody else has moved   *)
(* it since the one who moves it now has read.                             *)
AliasGoesBackOnlyInRace ==
    [][champion' < champion =>
          \/ \E p \in raced \cap Pipelines : PipelineSets(p)
          \/ \E r \in raced \cap Reviews : ReviewSets(r)]_promotionVars

(* A review promotes only what passes the gates, and exchanges a champion  *)
(* for a worse one only when the champion has changed since it compared.   *)
ReviewPromotesImprovement ==
    [][\A r \in Reviews : review[r].at = "set" /\ champion' # champion /\ review'[r].at = "idle" =>
          /\ runs[champion'].auc >= MinAuc
          /\ r \in raced \/ runs[champion'].auc >= runs[champion].auc]_promotionVars
============================================================================
