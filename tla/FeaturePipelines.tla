-------------------------- MODULE FeaturePipelines --------------------------
(***************************************************************************)
(* The data pipelines: the batch and the retraining DAG (dags/), each a    *)
(* chain of scripts: validate_data, build_features, then drift_report or   *)
(* the training scripts, and shap_report.  The scripts hand their data on  *)
(* through files of one directory: LocalExecutor runs the tasks of all DAG *)
(* runs on one mount (docker-compose.yml), no run has files of its own,    *)
(* and nothing locks them.                                                 *)
(*                                                                         *)
(* A data set is a version of the raw file: build_features is a function   *)
(* of it (random_state=42), so two builds of one version write the same    *)
(* bytes.  Torn is whatever is no version: a prefix, or parts of several.  *)
(* Registering and promoting what was trained is in ModelPromotion.        *)
(***************************************************************************)
EXTENDS Naturals, FiniteSets

CONSTANTS
    Runs,       \* runs of a pipeline
    Versions,   \* versions of the raw data
    Valid,      \* those that pass validate_data
    Torn,
    None,
    Scripts,    \* the number of training scripts
    ReadsResult,\* save_retrain_signal finds its keys in the snapshot of Evidently
    Changes,    \* bound: replacements of the raw file
    Kills       \* bound: killed tasks

ASSUME PipelineAssumption ==
    /\ "restore" \notin Runs
    /\ Valid \subseteq Versions
    /\ Torn \notin Versions \cup {"drift", "no_drift", "empty", None}
    /\ None \notin Versions \cup {"drift", "no_drift", "empty"}
    /\ Scripts \in Nat
    /\ ReadsResult \in BOOLEAN
    /\ Changes \in Nat /\ Kills \in Nat

VARIABLES
    file,       \* file[f]: what f holds once nobody writes it
    writers,    \* writers[f]: who has f open for writing
    at,         \* at[p]: the next step of the run p
    checked,    \* checked[p]: what validate_data read
    built,      \* built[p]: what build_features read
    got,        \* got[p][s]: what the script s read as train and as test data
    found,      \* found[p]: the verdict of the run's drift report
    disturbed,  \* history: runs that others got in the way of
    changes,
    kills

pipelineVars == <<file, writers, at, checked, built, got, found, disturbed, changes, kills>>

Paths     == {"raw", "train", "test", "report", "signal"}
DataPaths == {"raw", "train", "test"}
Contents  == Versions \cup {Torn}
Verdicts  == {"drift", "no_drift"}
Training  == 1..Scripts
Readers   == Training \cup {Scripts + 1, Scripts + 2}   \* ... drift_report, shap_report
DriftReport == Scripts + 1
ShapReport  == Scripts + 2
Halted    == {"done", "failed"}
Places    == {"validate", "build", "train", "trainOpen", "test", "testOpen", "fit",
              "drift", "signal", "signalOpen", "shap"} \cup Halted
Outcomes  == {"none", "running", "finished", "failed"}

PipelineTypeOK ==
    /\ file \in [Paths -> Contents \cup Verdicts \cup {"empty", None}]
    /\ writers \in [DataPaths -> SUBSET (Runs \cup {"restore"})]
    /\ at \in [Runs -> Places]
    /\ checked \in [Runs -> Contents \cup {None}]
    /\ built \in [Runs -> Contents \cup {None}]
    /\ got \in [Runs -> [Readers -> [train : Contents \cup {None},
                                     test : Contents \cup {None}, state : Outcomes]]]
    /\ found \in [Runs -> Verdicts \cup {None}]
    /\ disturbed \subseteq Runs
    /\ changes \in 0..Changes
    /\ kills \in 0..Kills

PipelineInit ==
    /\ file \in {[f \in Paths |-> IF f = "raw" THEN v ELSE None] : v \in Versions}
    /\ writers = [f \in DataPaths |-> {}]
    /\ at = [p \in Runs |-> "validate"]
    /\ checked = [p \in Runs |-> None]
    /\ built = [p \in Runs |-> None]
    /\ got = [p \in Runs |-> [s \in Readers |-> [train |-> None, test |-> None, state |-> "none"]]]
    /\ found = [p \in Runs |-> None]
    /\ disturbed = {}
    /\ changes = 0
    /\ kills = 0

----------------------------------------------------------------------------
(* Files.  A definition named Slip... is a plausible mistake in the         *)
(* definition after it, and serves only to see that a property notices it. *)

SlipUnseeded(f, w, c) ==
    /\ writers' = [writers EXCEPT ![f] = @ \cup {w}]
    /\ file' = [file EXCEPT ![f] = IF writers[f] = {} THEN c ELSE Torn]

(* open(path, "w"), which truncates: two writers at a time leave a mixture *)
(* unless they write the same bytes.                                       *)
Open(f, w, c) ==
    /\ writers' = [writers EXCEPT ![f] = @ \cup {w}]
    /\ file' = [file EXCEPT ![f] = IF writers[f] = {} \/ @ = c THEN c ELSE Torn]

Close(f, w) ==
    /\ writers' = [writers EXCEPT ![f] = @ \ {w}]
    /\ UNCHANGED file

(* What reading f may return.  An absent file is an error; of a file that  *)
(* is being written one gets a prefix, if it can be parsed at all.         *)
ReadOf(f) == IF writers[f] # {} THEN {Torn} ELSE {file[f]} \ {None}

Goto(p, place) == at' = [at EXCEPT ![p] = place]

(* The runs that have begun and have not read everything back yet. *)
InHand == {p \in Runs : at[p] \notin {"validate"} \cup Halted}

----------------------------------------------------------------------------
(* The raw file is replaced (scripts/restore_german_credit_data.py).       *)
RestoreOpens ==
    /\ changes < Changes /\ "restore" \notin writers["raw"]
    /\ \E v \in Versions : Open("raw", "restore", v)
    /\ changes' = changes + 1
    /\ disturbed' = disturbed \cup InHand
    /\ UNCHANGED <<at, checked, built, got, found, kills>>

RestoreCloses ==
    /\ "restore" \in writers["raw"]
    /\ Close("raw", "restore")
    /\ UNCHANGED <<at, checked, built, got, found, disturbed, changes, kills>>

SlipNoValidation(p) ==
    /\ at[p] = "validate"
    /\ \/ /\ \E c \in ReadOf("raw") : checked' = [checked EXCEPT ![p] = c]
          /\ Goto(p, "build")
       \/ UNCHANGED checked /\ Goto(p, "failed")
    /\ disturbed' = IF writers["raw"] = {} THEN disturbed ELSE disturbed \cup {p}
    /\ UNCHANGED <<file, writers, built, got, found, changes, kills>>

(* validate_data reads the raw file; a prefix of one may pass.             *)
Validate(p) ==
    /\ at[p] = "validate"
    /\ \/ /\ \E c \in ReadOf("raw") \cap (Valid \cup {Torn}) : checked' = [checked EXCEPT ![p] = c]
          /\ Goto(p, "build")
       \/ UNCHANGED checked /\ Goto(p, "failed")
    /\ disturbed' = IF writers["raw"] = {} THEN disturbed ELSE disturbed \cup {p}
    /\ UNCHANGED <<file, writers, built, got, found, changes, kills>>

(* build_features reads the raw file again ... *)
Build(p) ==
    /\ at[p] = "build"
    /\ \/ /\ \E c \in ReadOf("raw") : built' = [built EXCEPT ![p] = c]
          /\ Goto(p, "train")
       \/ UNCHANGED built /\ Goto(p, "failed")
    /\ UNCHANGED <<file, writers, checked, got, found, disturbed, changes, kills>>

(* ... and writes train.csv, then test.csv. *)
WriteOpens(p, f, open) ==
    /\ at[p] = f
    /\ Open(f, p, built[p])
    /\ Goto(p, open)
    /\ disturbed' = disturbed \cup (InHand \ {p}) \cup
           (IF writers["train"] \cup writers["test"] \subseteq {p} THEN {} ELSE {p})
    /\ UNCHANGED <<checked, built, got, found, changes, kills>>

WriteCloses(p, f, open, next) ==
    /\ at[p] = open
    /\ Close(f, p)
    /\ Goto(p, next)
    /\ UNCHANGED <<checked, built, got, found, disturbed, changes, kills>>

(* What follows depends on the DAG of the run: it shows here first. *)
WriteFeatures(p) ==
    \/ WriteOpens(p, "train", "trainOpen")
    \/ WriteCloses(p, "train", "trainOpen", "test")
    \/ WriteOpens(p, "test", "testOpen")
    \/ \E next \in {"drift", "fit"} : WriteCloses(p, "test", "testOpen", next)

----------------------------------------------------------------------------
(* Scripts that read the features back. *)

Reads(p, s, field, value, state) ==
    got' = [got EXCEPT ![p][s] = [[@ EXCEPT !.state = state] EXCEPT ![field] = value]]

(* load_data of a training script reads train.csv ... *)
FitReadsTrain(p, s) ==
    /\ at[p] = "fit" /\ got[p][s].state = "none"
    /\ \E c \in ReadOf("train") : Reads(p, s, "train", c, "running")
    /\ UNCHANGED <<file, writers, at, checked, built, found, disturbed, changes, kills>>

(* ... and test.csv; then the model is trained on the one and measured on  *)
(* the other.                                                              *)
FitReadsTest(p, s) ==
    /\ at[p] = "fit" /\ got[p][s].state = "running"
    /\ \E c \in ReadOf("test") : Reads(p, s, "test", c, "finished")
    /\ UNCHANGED <<file, writers, at, checked, built, found, disturbed, changes, kills>>

FitFails(p, s) ==
    /\ at[p] = "fit" /\ got[p][s].state \in {"none", "running"}
    /\ got' = [got EXCEPT ![p][s] = [train |-> None, test |-> None, state |-> "failed"]]
    /\ UNCHANGED <<file, writers, at, checked, built, found, disturbed, changes, kills>>

(* The tasks behind the training scripts wait for all of them, and need    *)
(* all of them; select_best_model and promote_model may fail as well.      *)
FitEnds(p) ==
    /\ at[p] = "fit"
    /\ \A s \in Training : got[p][s].state \in {"finished", "failed"}
    /\ \/ (\A s \in Training : got[p][s].state = "finished") /\ Goto(p, "shap")
       \/ Goto(p, "failed")
    /\ UNCHANGED <<file, writers, checked, built, got, found, disturbed, changes, kills>>

(* drift_report compares train.csv with the last scoring logs, if there    *)
(* are any, and saves its report.                                          *)
Drift(p) ==
    /\ at[p] = "drift"
    /\ \/ /\ \E c \in ReadOf("train") : Reads(p, DriftReport, "train", c, "finished")
          /\ \E v \in Verdicts :
                found' = [found EXCEPT ![p] = v] /\ file' = [file EXCEPT !["report"] = v]
          /\ Goto(p, "signal")
       \/ Goto(p, "failed") /\ UNCHANGED <<file, got, found>>
    /\ UNCHANGED <<writers, checked, built, disturbed, changes, kills>>

(* save_retrain_signal: drift it does not find in the snapshot is no drift. *)
Signal(p) == IF ReadsResult THEN found[p] ELSE "no_drift"

(* The file is emptied when it is opened, and its few bytes are all        *)
(* written when it is closed: over those of another writer, if there was   *)
(* one, whose tail stays when they are longer.  Two signals of one verdict *)
(* may still name different columns; without the keys all are the same.    *)
SignalOpens(p) ==
    /\ at[p] = "signal"
    /\ file' = [file EXCEPT !["signal"] = "empty"]
    /\ Goto(p, "signalOpen")
    /\ UNCHANGED <<writers, checked, built, got, found, disturbed, changes, kills>>

SignalCloses(p) ==
    /\ at[p] = "signalOpen"
    /\ \E c \in {Signal(p)} \cup (IF file["signal"] = "empty" \/ ~ReadsResult THEN {} ELSE {Torn}) :
          file' = [file EXCEPT !["signal"] = c]
    /\ Goto(p, "shap")
    /\ UNCHANGED <<writers, checked, built, got, found, disturbed, changes, kills>>

(* shap_report loads the champion, then explains it on test.csv. *)
Shap(p) ==
    /\ at[p] = "shap"
    /\ \/ \E c \in ReadOf("test") : Reads(p, ShapReport, "test", c, "finished") /\ Goto(p, "done")
       \/ Goto(p, "failed") /\ UNCHANGED got
    /\ UNCHANGED <<file, writers, checked, built, found, disturbed, changes, kills>>

SlipKillOutsideThePlaces(p) ==
    /\ kills < Kills /\ at[p] \in {"trainOpen", "testOpen", "signal", "signalOpen"}
    /\ kills' = kills + 1
    /\ Goto(p, "killed")
    /\ writers' = [f \in DataPaths |-> writers[f] \ {p}]
    /\ UNCHANGED <<file, checked, built, got, found, disturbed, changes>>

(* A task is killed between opening and closing a file, or between the     *)
(* report and its signal; elsewhere that is one of its ways to fail.       *)
Kill(p) ==
    /\ kills < Kills /\ at[p] \in {"trainOpen", "testOpen", "signal", "signalOpen"}
    /\ kills' = kills + 1
    /\ Goto(p, "failed")
    /\ writers' = [f \in DataPaths |-> writers[f] \ {p}]
    /\ \E torn \in SUBSET {f \in DataPaths : p \in writers[f]} :
          /\ \A f \in DataPaths : writers[f] = {p} => f \in torn
          /\ file' = [f \in Paths |-> IF f \in torn THEN Torn ELSE file[f]]
    /\ UNCHANGED <<checked, built, got, found, disturbed, changes>>

PipelineStep ==
    \E p \in Runs :
        \/ Validate(p) \/ Build(p) \/ WriteFeatures(p)
        \/ \E s \in Training : FitReadsTrain(p, s) \/ FitReadsTest(p, s) \/ FitFails(p, s)
        \/ FitEnds(p) \/ Drift(p) \/ SignalOpens(p) \/ SignalCloses(p) \/ Shap(p)

PipelineNext ==
    PipelineStep \/ RestoreOpens \/ RestoreCloses \/ \E p \in Runs : Kill(p)
=============================================================================
