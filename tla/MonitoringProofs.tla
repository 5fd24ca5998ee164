-------------------------- MODULE MonitoringProofs --------------------------
(***************************************************************************)
(* Theorems about FeaturePipelines and Monitoring, for any number of runs, *)
(* versions, training scripts, replacements of the raw file and kills.     *)
(***************************************************************************)
EXTENDS Monitoring, FiniteSetTheorems, TLAPS

----------------------------------------------------------------------------
(* Types.  Data files hold data, or they are absent.                       *)

Reading == [train : Contents \cup {None}, test : Contents \cup {None}, state : Outcomes]
Unread  == [train |-> None, test |-> None, state |-> "none"]

DataInv == \A f \in DataPaths : file[f] \in Contents \cup {None}
TypeInv == TypeOK /\ DataInv

LEMMA ReadTypes ==
    ASSUME DataInv, NEW f \in DataPaths
    PROVE  ReadOf(f) \subseteq Contents
BY DEF DataInv, ReadOf, Contents

(* What a script reads goes to its field, and to nothing else.             *)
LEMMA ReadsEffect ==
    ASSUME TypeOK, NEW p \in Runs, NEW s \in Readers, NEW field \in {"train", "test"},
           NEW value \in Contents, NEW state \in Outcomes, Reads(p, s, field, value, state)
    PROVE  /\ got' \in [Runs -> [Readers -> Reading]]
           /\ got'[p][s][field] = value
           /\ \A other \in {"train", "test"} \ {field} : got'[p][s][other] = got[p][s][other]
           /\ got'[p][s].state = state
           /\ \A q \in Runs, t \in Readers : q # p \/ t # s => got'[q][t] = got[q][t]
<1> DEFINE old == got[p][s]
           new == [[old EXCEPT !.state = state] EXCEPT ![field] = value]
<1>1. got \in [Runs -> [Readers -> Reading]]
  BY DEF TypeOK, PipelineTypeOK, Reading
<1>2. old \in Reading
  BY <1>1
<1>3. /\ new \in Reading
      /\ new[field] = value
      /\ \A other \in {"train", "test"} \ {field} : new[other] = old[other]
      /\ new.state = state
  <2>1. CASE field = "train"
    BY <1>2, <2>1 DEF Reading
  <2>2. CASE field = "test"
    BY <1>2, <2>2 DEF Reading
  <2> QED
    BY <2>1, <2>2
<1>4. got' = [got EXCEPT ![p][s] = new]
  BY DEF Reads
<1> HIDE DEF new
<1> QED
  BY <1>1, <1>3, <1>4

LEMMA ReadersAre ==
    /\ Training \subseteq Readers /\ DriftReport \in Readers /\ ShapReport \in Readers
    /\ DataPaths \subseteq Paths /\ "raw" \in DataPaths
    /\ "train" \in DataPaths /\ "test" \in DataPaths
BY DEF Readers, DriftReport, ShapReport, DataPaths, Paths

LEMMA InitTypes == PipelineInit => TypeInv
<1> SUFFICES ASSUME PipelineInit PROVE TypeInv
  OBVIOUS
<1>1. PICK v \in Versions : file = [f \in Paths |-> IF f = "raw" THEN v ELSE None]
  BY DEF PipelineInit
<1>2. file \in [Paths -> Contents \cup Verdicts \cup {"empty", None}] /\ DataInv
  BY <1>1, ReadersAre DEF Contents, DataInv
<1>3. got \in [Runs -> [Readers -> Reading]]
  BY DEF PipelineInit, Reading, Outcomes
<1>4. changes \in 0..Changes /\ kills \in 0..Kills
  BY PipelineAssumption DEF PipelineInit, PipelineAssumption
<1>5. /\ writers \in [DataPaths -> SUBSET (Runs \cup {"restore"})]
      /\ at \in [Runs -> Places]
      /\ checked \in [Runs -> Contents \cup {None}]
      /\ built \in [Runs -> Contents \cup {None}]
      /\ found \in [Runs -> Verdicts \cup {None}]
      /\ disturbed \subseteq Runs
  BY DEF PipelineInit, Places
<1> QED
  BY <1>2, <1>3, <1>4, <1>5 DEF TypeInv, TypeOK, PipelineTypeOK, Reading

LEMMA OpenTypes ==
    ASSUME TypeInv, NEW f \in DataPaths, NEW w \in Runs \cup {"restore"},
           NEW c \in Contents \cup {None}, Open(f, w, c)
    PROVE  /\ file' \in [Paths -> Contents \cup Verdicts \cup {"empty", None}] /\ DataInv'
           /\ writers' \in [DataPaths -> SUBSET (Runs \cup {"restore"})]
BY ReadersAre DEF TypeInv, TypeOK, PipelineTypeOK, DataInv, Open, Contents

LEMMA CloseTypes ==
    ASSUME TypeInv, NEW f \in DataPaths, NEW w, Close(f, w)
    PROVE  writers' \in [DataPaths -> SUBSET (Runs \cup {"restore"})] /\ file' = file
BY DEF TypeInv, TypeOK, PipelineTypeOK, Close

LEMMA ReportTypes ==
    ASSUME TypeInv, NEW f \in {"report", "signal"}, NEW c \in Verdicts \cup {"empty", Torn},
           file' = [file EXCEPT ![f] = c]
    PROVE  file' \in [Paths -> Contents \cup Verdicts \cup {"empty", None}] /\ DataInv'
BY DEF TypeInv, TypeOK, PipelineTypeOK, DataInv, DataPaths, Paths, Contents

LEMMA RestoreTypes == TypeInv /\ (RestoreOpens \/ RestoreCloses) => TypeInv'
<1> SUFFICES ASSUME TypeInv, RestoreOpens \/ RestoreCloses PROVE TypeInv'
  OBVIOUS
<1>1. CASE RestoreOpens
  <2>1. PICK v \in Versions : Open("raw", "restore", v)
    BY <1>1 DEF RestoreOpens
  <2>2. v \in Contents \cup {None}
    BY DEF Contents
  <2>3. /\ file' \in [Paths -> Contents \cup Verdicts \cup {"empty", None}] /\ DataInv'
        /\ writers' \in [DataPaths -> SUBSET (Runs \cup {"restore"})]
    BY <2>1, <2>2, OpenTypes, ReadersAre
  <2>4. changes' \in 0..Changes
    BY <1>1, PipelineAssumption
    DEF PipelineAssumption, RestoreOpens, TypeInv, TypeOK, PipelineTypeOK
  <2> QED
    BY <1>1, <2>3, <2>4 DEF RestoreOpens, InHand, TypeInv, TypeOK, PipelineTypeOK
<1>2. CASE RestoreCloses
  BY <1>2, CloseTypes, ReadersAre DEF RestoreCloses, TypeInv, TypeOK, PipelineTypeOK, DataInv
<1> QED
  BY <1>1, <1>2

LEMMA BuildTypes ==
    ASSUME TypeInv, NEW p \in Runs, Validate(p) \/ Build(p) \/ WriteFeatures(p)
    PROVE  TypeInv'
<1> USE DEF TypeInv, TypeOK, PipelineTypeOK
<1>1. CASE Validate(p)
  <2>1. checked' \in [Runs -> Contents \cup {None}]
    BY <1>1, ReadTypes, ReadersAre DEF Validate
  <2>2. at' \in [Runs -> Places]
    BY <1>1 DEF Validate, Goto, Places, Halted
  <2> QED
    BY <1>1, <2>1, <2>2 DEF Validate, DataInv
<1>2. CASE Build(p)
  <2>1. built' \in [Runs -> Contents \cup {None}]
    BY <1>2, ReadTypes, ReadersAre DEF Build
  <2>2. at' \in [Runs -> Places]
    BY <1>2 DEF Build, Goto, Places, Halted
  <2> QED
    BY <1>2, <2>1, <2>2 DEF Build, DataInv
<1>3. ASSUME NEW f \in DataPaths, NEW open \in Places, WriteOpens(p, f, open)
      PROVE  TypeInv'
  <2>1. /\ file' \in [Paths -> Contents \cup Verdicts \cup {"empty", None}] /\ DataInv'
        /\ writers' \in [DataPaths -> SUBSET (Runs \cup {"restore"})]
    BY <1>3, OpenTypes DEF WriteOpens
  <2> QED
    BY <1>3, <2>1 DEF WriteOpens, Goto, InHand
<1>4. ASSUME NEW f \in DataPaths, NEW open, NEW next \in Places, WriteCloses(p, f, open, next)
      PROVE  TypeInv'
  BY <1>4, CloseTypes DEF WriteCloses, Goto, DataInv
<1>5. CASE WriteFeatures(p)
  BY <1>3, <1>4, <1>5, ReadersAre DEF WriteFeatures, Places
<1> QED
  BY <1>1, <1>2, <1>5

LEMMA FitTypes ==
    ASSUME TypeInv, NEW p \in Runs, NEW s \in Training,
           FitReadsTrain(p, s) \/ FitReadsTest(p, s) \/ FitFails(p, s)
    PROVE  TypeInv'
<1>1. got' \in [Runs -> [Readers -> Reading]]
  <2>1. CASE FitReadsTrain(p, s)
    BY <2>1, ReadsEffect, ReadTypes, ReadersAre DEF FitReadsTrain, TypeInv, Outcomes
  <2>2. CASE FitReadsTest(p, s)
    BY <2>2, ReadsEffect, ReadTypes, ReadersAre DEF FitReadsTest, TypeInv, Outcomes
  <2>3. CASE FitFails(p, s)
    BY <2>3, ReadersAre DEF FitFails, TypeInv, TypeOK, PipelineTypeOK, Reading, Outcomes
  <2> QED
    BY <2>1, <2>2, <2>3
<1>2. UNCHANGED <<file, writers, at, checked, built, found, disturbed, changes, kills>>
  BY DEF FitReadsTrain, FitReadsTest, FitFails
<1> QED
  BY <1>1, <1>2 DEF TypeInv, TypeOK, PipelineTypeOK, DataInv, Reading

LEMMA ReportingTypes ==
    ASSUME TypeInv, NEW p \in Runs,
           Drift(p) \/ SignalOpens(p) \/ SignalCloses(p) \/ Shap(p)
    PROVE  TypeInv'
<1> USE DEF TypeInv, TypeOK, PipelineTypeOK
<1>1. CASE Drift(p)
  <2>1. CASE Goto(p, "failed") /\ UNCHANGED <<file, got, found>>
    BY <1>1, <2>1 DEF Drift, Goto, Places, Halted, DataInv
  <2>2. CASE /\ \E c \in ReadOf("train") : Reads(p, DriftReport, "train", c, "finished")
             /\ \E v \in Verdicts :
                   found' = [found EXCEPT ![p] = v] /\ file' = [file EXCEPT !["report"] = v]
             /\ Goto(p, "signal")
    <3>1. got' \in [Runs -> [Readers -> Reading]]
      BY <2>2, ReadsEffect, ReadTypes, ReadersAre DEF Outcomes
    <3>2. file' \in [Paths -> Contents \cup Verdicts \cup {"empty", None}] /\ DataInv'
      BY <2>2, ReportTypes
    <3>3. found' \in [Runs -> Verdicts \cup {None}] /\ at' \in [Runs -> Places]
      BY <2>2 DEF Goto, Places
    <3> QED
      BY <1>1, <3>1, <3>2, <3>3 DEF Drift, Reading
  <2> QED
    BY <1>1, <2>1, <2>2 DEF Drift
<1>2. CASE SignalOpens(p)
  BY <1>2, ReportTypes DEF SignalOpens, Goto, Places
<1>3. CASE SignalCloses(p)
  <2>1. PICK c \in {Signal(p), Torn} : file' = [file EXCEPT !["signal"] = c]
    BY <1>3 DEF SignalCloses
  <2>2. file' \in [Paths -> Contents \cup Verdicts \cup {"empty", None}] /\ DataInv'
    <3>1. CASE c \in Verdicts \cup {"empty", Torn}
      BY <2>1, <3>1, ReportTypes
    <3>2. CASE c = None
      BY <2>1, <3>2 DEF DataInv, DataPaths, Paths
    <3> QED
      BY <2>1, <3>1, <3>2 DEF Signal, Verdicts
  <2> QED
    BY <1>3, <2>2 DEF SignalCloses, Goto, Places
<1>4. CASE Shap(p)
  <2>1. got' \in [Runs -> [Readers -> Reading]]
    <3>1. CASE \E c \in ReadOf("test") : Reads(p, ShapReport, "test", c, "finished")
      BY <3>1, ReadsEffect, ReadTypes, ReadersAre DEF Outcomes
    <3>2. CASE UNCHANGED got
      BY <3>2 DEF Reading
    <3> QED
      BY <1>4, <3>1, <3>2 DEF Shap
  <2> QED
    BY <1>4, <2>1 DEF Shap, Goto, Places, Halted, DataInv, Reading
<1> QED
  BY <1>1, <1>2, <1>3, <1>4

LEMMA EndTypes ==
    ASSUME TypeInv, NEW p \in Runs, FitEnds(p) \/ Kill(p)
    PROVE  TypeInv'
<1> USE DEF TypeInv, TypeOK, PipelineTypeOK
<1>1. CASE FitEnds(p)
  BY <1>1 DEF FitEnds, Goto, Places, Halted, DataInv
<1>2. CASE Kill(p)
  <2>1. file' \in [Paths -> Contents \cup Verdicts \cup {"empty", None}] /\ DataInv'
    BY <1>2, ReadersAre DEF Kill, DataInv, Contents
  <2>2. kills' \in 0..Kills
    BY <1>2, PipelineAssumption DEF Kill, PipelineAssumption
  <2>3. at' \in [Runs -> Places] /\ writers' \in [DataPaths -> SUBSET (Runs \cup {"restore"})]
    BY <1>2 DEF Kill, Goto, Places, Halted
  <2> QED
    BY <1>2, <2>1, <2>2, <2>3 DEF Kill
<1> QED
  BY <1>1, <1>2

LEMMA NextTypes == TypeInv /\ [PipelineNext]_pipelineVars => TypeInv'
<1>1. TypeInv /\ UNCHANGED pipelineVars => TypeInv'
  BY DEF TypeInv, TypeOK, PipelineTypeOK, DataInv, pipelineVars
<1> QED
  BY <1>1, RestoreTypes, BuildTypes, FitTypes, ReportingTypes, EndTypes
  DEF PipelineNext, PipelineStep

LEMMA TypesAlways == Spec => []TypeInv
BY InitTypes, NextTypes, PTL DEF Spec

(* Every variable has its type, whatever runs, overlaps and is killed.     *)
THEOREM TypeCorrect == Spec => []TypeOK
BY TypesAlways, PTL DEF TypeInv

----------------------------------------------------------------------------
(* Files in use.  Who has a feature file open is at the place for it; the  *)
(* raw file is only ever written by the one restore, so it has a version.  *)

PlaceInv ==
    /\ writers["raw"] \subseteq {"restore"}
    /\ writers["train"] = {q \in Runs : at[q] = "trainOpen"}
    /\ writers["test"] = {q \in Runs : at[q] = "testOpen"}
    /\ file["raw"] \in Versions

LEMMA InitPlaces == PipelineInit => PlaceInv
BY ReadersAre DEF PipelineInit, PlaceInv, Paths

(* The steps that leave the raw file, and all files but one, alone.        *)
LEMMA QuietSteps ==
    ASSUME TypeInv, NEW p \in Runs,
           \/ Validate(p) \/ Build(p) \/ FitEnds(p)
           \/ \E s \in Training : FitReadsTrain(p, s) \/ FitReadsTest(p, s) \/ FitFails(p, s)
           \/ Drift(p) \/ SignalOpens(p) \/ SignalCloses(p) \/ Shap(p)
    PROVE  /\ UNCHANGED writers
           /\ \A f \in DataPaths : file'[f] = file[f]
           /\ at[p] \notin {"trainOpen", "testOpen"} /\ at'[p] \notin {"trainOpen", "testOpen"}
           /\ \A q \in Runs : q # p => at'[q] = at[q]
           /\ UNCHANGED <<changes, kills>>
BY ReadersAre DEF Validate, Build, FitEnds, FitReadsTrain, FitReadsTest, FitFails, Drift,
   SignalOpens, SignalCloses, Shap, Goto, TypeInv, TypeOK, PipelineTypeOK, DataPaths, Paths

LEMMA NextPlaces == TypeInv /\ PlaceInv /\ [PipelineNext]_pipelineVars => PlaceInv'
<1> SUFFICES ASSUME TypeInv, PlaceInv, [PipelineNext]_pipelineVars PROVE PlaceInv'
  OBVIOUS
<1> USE ReadersAre DEF PlaceInv
<1>1. CASE RestoreOpens
  BY <1>1, PipelineAssumption
  DEF RestoreOpens, Open, TypeInv, TypeOK, PipelineTypeOK, DataPaths, Paths
<1>2. CASE RestoreCloses
  BY <1>2 DEF RestoreCloses, Close, TypeInv, TypeOK, PipelineTypeOK, DataPaths
<1>3. ASSUME NEW p \in Runs, WriteFeatures(p) PROVE PlaceInv'
  <2>1. CASE WriteOpens(p, "train", "trainOpen")
    BY <2>1 DEF WriteOpens, Open, Goto, TypeInv, TypeOK, PipelineTypeOK, DataPaths, Paths
  <2>2. CASE WriteCloses(p, "train", "trainOpen", "test")
    BY <2>2 DEF WriteCloses, Close, Goto, TypeInv, TypeOK, PipelineTypeOK, DataPaths
  <2>3. CASE WriteOpens(p, "test", "testOpen")
    BY <2>3 DEF WriteOpens, Open, Goto, TypeInv, TypeOK, PipelineTypeOK, DataPaths, Paths
  <2>4. CASE \E next \in {"drift", "fit"} : WriteCloses(p, "test", "testOpen", next)
    BY <2>4 DEF WriteCloses, Close, Goto, TypeInv, TypeOK, PipelineTypeOK, DataPaths
  <2> QED
    BY <1>3, <2>1, <2>2, <2>3, <2>4 DEF WriteFeatures
<1>4. ASSUME NEW p \in Runs,
             \/ Validate(p) \/ Build(p) \/ FitEnds(p)
             \/ \E s \in Training : FitReadsTrain(p, s) \/ FitReadsTest(p, s) \/ FitFails(p, s)
             \/ Drift(p) \/ SignalOpens(p) \/ SignalCloses(p) \/ Shap(p)
      PROVE  PlaceInv'
  <2>1. \A q \in Runs : at'[q] = "trainOpen" <=> at[q] = "trainOpen"
    BY <1>4, QuietSteps
  <2>2. \A q \in Runs : at'[q] = "testOpen" <=> at[q] = "testOpen"
    BY <1>4, QuietSteps
  <2>3. UNCHANGED writers /\ file'["raw"] = file["raw"]
    BY <1>4, QuietSteps
  <2> QED
    BY <2>1, <2>2, <2>3
<1>5. ASSUME NEW p \in Runs, Kill(p) PROVE PlaceInv'
  <2>1. "restore" # p
    BY PipelineAssumption DEF PipelineAssumption
  <2>2. file'["raw"] = file["raw"]
    BY <1>5, <2>1 DEF Kill
  <2> QED
    BY <1>5, <2>1, <2>2 DEF Kill, Goto, TypeInv, TypeOK, PipelineTypeOK, DataPaths
<1>6. CASE UNCHANGED pipelineVars
  BY <1>6 DEF pipelineVars
<1> QED
  BY <1>1, <1>2, <1>3, <1>4, <1>5, <1>6 DEF PipelineNext, PipelineStep

----------------------------------------------------------------------------
(* Overlap.  While the raw file stays as it is, every build reads the same *)
(* version, and whoever writes it over another writer writes the same.     *)

OverlapInv ==
    changes = 0 /\ kills = 0 =>
        /\ writers["raw"] = {}
        /\ \A p \in Runs : at[p] \notin {"validate", "build", "failed"} => built[p] = file["raw"]
        /\ \A f \in {"train", "test"} :
              /\ file[f] \in {None, file["raw"]}
              /\ writers[f] # {} => file[f] = file["raw"]

LEMMA CountersGrow == TypeInv /\ [PipelineNext]_pipelineVars /\ changes' = 0 /\ kills' = 0
                      => changes = 0 /\ kills = 0 /\ ~RestoreOpens /\ \A p \in Runs : ~Kill(p)
<1> SUFFICES ASSUME TypeInv, [PipelineNext]_pipelineVars, changes' = 0, kills' = 0
             PROVE  changes = 0 /\ kills = 0 /\ ~RestoreOpens /\ \A p \in Runs : ~Kill(p)
  OBVIOUS
<1>1. changes \in Nat /\ kills \in Nat
  BY PipelineAssumption DEF PipelineAssumption, TypeInv, TypeOK, PipelineTypeOK
<1>2. ~RestoreOpens /\ \A p \in Runs : ~Kill(p)
  BY <1>1 DEF RestoreOpens, Kill
<1>3. UNCHANGED <<changes, kills>>
  BY <1>2, QuietSteps
  DEF PipelineNext, PipelineStep, RestoreCloses, WriteFeatures, WriteOpens, WriteCloses, pipelineVars
<1> QED
  BY <1>2, <1>3

LEMMA NextOverlap == TypeInv /\ PlaceInv /\ OverlapInv /\ [PipelineNext]_pipelineVars => OverlapInv'
<1> SUFFICES ASSUME TypeInv, PlaceInv, OverlapInv, [PipelineNext]_pipelineVars,
                    changes' = 0, kills' = 0
             PROVE  OverlapInv'
  BY DEF OverlapInv
<1>1. changes = 0 /\ kills = 0 /\ ~RestoreOpens /\ \A p \in Runs : ~Kill(p)
  BY CountersGrow
<1> USE ReadersAre DEF OverlapInv
<1>2. CASE RestoreCloses
  BY <1>1, <1>2 DEF RestoreCloses
<1>3. ASSUME NEW p \in Runs, Build(p) PROVE OverlapInv'
  <2>1. ReadOf("raw") \subseteq {file["raw"]}
    BY <1>1 DEF ReadOf
  <2>2. \A q \in Runs : q # p => at'[q] = at[q] /\ built'[q] = built[q]
    BY <1>3 DEF Build, Goto, TypeInv, TypeOK, PipelineTypeOK
  <2>3. at'[p] = "failed" \/ built'[p] = file["raw"]
    BY <1>3, <2>1 DEF Build, Goto, TypeInv, TypeOK, PipelineTypeOK
  <2>4. UNCHANGED <<file, writers>>
    BY <1>3 DEF Build
  <2> QED
    BY <1>1, <2>2, <2>3, <2>4
<1>4. ASSUME NEW p \in Runs, NEW f \in {"train", "test"}, NEW open, WriteOpens(p, f, open)
      PROVE  OverlapInv'
  <2>1. built[p] = file["raw"]
    BY <1>1, <1>4 DEF WriteOpens
  <2>2. file' = [file EXCEPT ![f] = file["raw"]]
    BY <1>1, <1>4, <2>1 DEF WriteOpens, Open
  <2>3. /\ file'[f] = file["raw"] /\ file'["raw"] = file["raw"]
        /\ \A g \in {"train", "test"} : g # f => file'[g] = file[g]
    BY <2>2 DEF TypeInv, TypeOK, PipelineTypeOK, DataPaths
  <2>4. \A g \in DataPaths : g # f => writers'[g] = writers[g]
    BY <1>4 DEF WriteOpens, Open, TypeInv, TypeOK, PipelineTypeOK
  <2>5. \A q \in Runs : q # p => at'[q] = at[q]
    BY <1>4 DEF WriteOpens, Goto, TypeInv, TypeOK, PipelineTypeOK
  <2>6. UNCHANGED built
    BY <1>4 DEF WriteOpens
  <2> QED
    BY <1>1, <2>1, <2>3, <2>4, <2>5, <2>6
<1>5. ASSUME NEW p \in Runs, NEW f \in {"train", "test"}, NEW open, NEW next,
             open \in {"trainOpen", "testOpen"}, WriteCloses(p, f, open, next)
      PROVE  OverlapInv'
  BY <1>1, <1>5 DEF WriteCloses, Close, Goto, TypeInv, TypeOK, PipelineTypeOK
<1>6. ASSUME NEW p \in Runs,
             \/ Validate(p) \/ FitEnds(p)
             \/ \E s \in Training : FitReadsTrain(p, s) \/ FitReadsTest(p, s) \/ FitFails(p, s)
             \/ Drift(p) \/ SignalOpens(p) \/ SignalCloses(p) \/ Shap(p)
      PROVE  OverlapInv'
  <2>1. UNCHANGED writers /\ \A f \in DataPaths : file'[f] = file[f]
    BY <1>6, QuietSteps
  <2>2. \A q \in Runs : q # p => at'[q] = at[q]
    BY <1>6, QuietSteps
  <2>3. at'[p] \notin {"validate", "build", "failed"} => at[p] \notin {"validate", "build", "failed"}
    <3>1. CASE Validate(p)
      BY <3>1 DEF Validate, Goto, TypeInv, TypeOK, PipelineTypeOK
    <3>2. CASE ~Validate(p)
      BY <1>6, <3>2 DEF FitEnds, FitReadsTrain, FitReadsTest, FitFails, Drift,
         SignalOpens, SignalCloses, Shap
    <3> QED
      BY <3>1, <3>2
  <2>4. UNCHANGED built
    BY <1>6 DEF Validate, FitEnds, FitReadsTrain, FitReadsTest, FitFails, Drift,
       SignalOpens, SignalCloses, Shap
  <2> QED
    BY <1>1, <2>1, <2>2, <2>3, <2>4
<1>7. CASE UNCHANGED pipelineVars
  BY <1>1, <1>7 DEF pipelineVars
<1> QED
  BY <1>1, <1>2, <1>3, <1>4, <1>5, <1>6, <1>7 DEF PipelineNext, PipelineStep, WriteFeatures

(* However builds overlap, the features are complete and of the version    *)
(* that the raw file holds, as soon as nobody writes them any more.        *)
THEOREM OverlapsAgree == Spec => []OverlapLeavesOneVersion
<1>1. PipelineInit => OverlapInv
  BY ReadersAre DEF PipelineInit, OverlapInv, Paths
<1>2. OverlapInv => OverlapLeavesOneVersion
  BY DEF OverlapInv, OverlapLeavesOneVersion
<1> QED
  BY <1>1, <1>2, TypesAlways, InitPlaces, NextPlaces, NextOverlap, PTL DEF Spec

----------------------------------------------------------------------------
(* Advice.  A run reports once, so its verdict stays; the signal is absent, *)
(* torn, or what some reporting run has made of its verdict.               *)

BeforeReport == Places \ ({"signal", "signalOpen", "shap"} \cup Halted)

AdviceInv ==
    /\ \A p \in Runs : /\ at[p] \in BeforeReport => found[p] = None
                       /\ at[p] \in {"signal", "signalOpen"} => found[p] \in Verdicts
    /\ file["signal"] \in Verdicts \cup {None, "empty", Torn}
    /\ file["signal"] = "drift" => \E p \in Runs : found[p] = "drift"
    /\ file["signal"] = "no_drift" => \E p \in Runs : found[p] # None /\ Signal(p) = "no_drift"

LEMMA NextAdvice == TypeInv /\ AdviceInv /\ [PipelineNext]_pipelineVars => AdviceInv'
<1> SUFFICES ASSUME TypeInv, AdviceInv, [PipelineNext]_pipelineVars PROVE AdviceInv'
  OBVIOUS
<1> USE DEF AdviceInv, Signal
<1>1. ASSUME UNCHANGED found, file'["signal"] = file["signal"],
             \A q \in Runs : at'[q] = at[q] \/ (at[q] \in BeforeReport /\ at'[q] \in BeforeReport)
                             \/ at'[q] \in {"shap"} \cup Halted
      PROVE  AdviceInv'
  BY <1>1 DEF BeforeReport, Halted
<1>2. ASSUME NEW p \in Runs, NEW place \in Places, Goto(p, place) \/ UNCHANGED at,
             \/ at[p] \in BeforeReport /\ place \in BeforeReport
             \/ place \in {"shap"} \cup Halted
      PROVE  \A q \in Runs : \/ at'[q] = at[q]
                             \/ at[q] \in BeforeReport /\ at'[q] \in BeforeReport
                             \/ at'[q] \in {"shap"} \cup Halted
  BY <1>2 DEF Goto, TypeInv, TypeOK, PipelineTypeOK
<1>3. CASE RestoreOpens \/ RestoreCloses
  BY <1>1, <1>3 DEF RestoreOpens, RestoreCloses, Open, Close, TypeInv, TypeOK, PipelineTypeOK, Paths
<1>4. ASSUME NEW p \in Runs, Validate(p) \/ Build(p) PROVE AdviceInv'
  <2>1. \E place \in {"build", "train", "failed"} : Goto(p, place)
    BY <1>4 DEF Validate, Build
  <2>2. at[p] \in BeforeReport
    BY <1>4 DEF Validate, Build, BeforeReport, Places, Halted
  <2>3. UNCHANGED <<found, file>>
    BY <1>4 DEF Validate, Build
  <2> QED
    BY <1>1, <1>2, <2>1, <2>2, <2>3 DEF BeforeReport, Places, Halted
<1>5. ASSUME NEW p \in Runs, WriteFeatures(p) PROVE AdviceInv'
  <2>1. \E place \in {"trainOpen", "test", "testOpen", "drift", "fit"} : Goto(p, place)
    BY <1>5 DEF WriteFeatures, WriteOpens, WriteCloses
  <2>2. at[p] \in BeforeReport
    BY <1>5 DEF WriteFeatures, WriteOpens, WriteCloses, BeforeReport, Places, Halted
  <2>3. UNCHANGED found /\ file'["signal"] = file["signal"]
    BY <1>5 DEF WriteFeatures, WriteOpens, WriteCloses, Open, Close,
       TypeInv, TypeOK, PipelineTypeOK, Paths
  <2> QED
    BY <1>1, <1>2, <2>1, <2>2, <2>3 DEF BeforeReport, Places, Halted
<1>6. ASSUME NEW p \in Runs, NEW s \in Training,
             FitReadsTrain(p, s) \/ FitReadsTest(p, s) \/ FitFails(p, s)
      PROVE  AdviceInv'
  BY <1>1, <1>6 DEF FitReadsTrain, FitReadsTest, FitFails
<1>7. ASSUME NEW p \in Runs, FitEnds(p) \/ Shap(p) PROVE AdviceInv'
  BY <1>1, <1>2, <1>7 DEF FitEnds, Shap, Places, Halted
<1>8. ASSUME NEW p \in Runs, Drift(p) PROVE AdviceInv'
  <2>1. at[p] \in BeforeReport /\ found[p] = None
    BY <1>8 DEF Drift, BeforeReport, Places, Halted
  <2>2. CASE Goto(p, "failed") /\ UNCHANGED <<file, got, found>>
    BY <1>1, <1>2, <2>2 DEF Places, Halted
  <2>3. CASE /\ \E v \in Verdicts :
                   found' = [found EXCEPT ![p] = v] /\ file' = [file EXCEPT !["report"] = v]
             /\ Goto(p, "signal")
    <3>1. file'["signal"] = file["signal"] /\ found'[p] \in Verdicts /\ at'[p] = "signal"
      BY <2>3 DEF Goto, TypeInv, TypeOK, PipelineTypeOK, Paths
    <3>2. \A q \in Runs : q # p => found'[q] = found[q] /\ at'[q] = at[q]
      BY <2>3 DEF Goto, TypeInv, TypeOK, PipelineTypeOK
    <3>3. "signal" \notin BeforeReport
      BY DEF BeforeReport
    <3>4. \A q \in Runs : found[q] # None => q # p
      BY <2>1
    <3>5. None \notin Verdicts
      BY PipelineAssumption DEF PipelineAssumption, Verdicts
    <3> QED
      BY <3>1, <3>2, <3>3, <3>4, <3>5 DEF Verdicts
  <2> QED
    BY <1>8, <2>2, <2>3 DEF Drift
<1>9. ASSUME NEW p \in Runs, SignalOpens(p) PROVE AdviceInv'
  <2>1. file'["signal"] = "empty" /\ UNCHANGED found
    BY <1>9 DEF SignalOpens, TypeInv, TypeOK, PipelineTypeOK, Paths
  <2>2. at[p] = "signal" /\ at'[p] = "signalOpen" /\ \A q \in Runs : q # p => at'[q] = at[q]
    BY <1>9 DEF SignalOpens, Goto, TypeInv, TypeOK, PipelineTypeOK
  <2>3. "signalOpen" \notin BeforeReport
    BY DEF BeforeReport
  <2> QED
    BY <2>1, <2>2, <2>3 DEF Verdicts
<1>10. ASSUME NEW p \in Runs, SignalCloses(p) PROVE AdviceInv'
  <2>1. file'["signal"] \in {Signal(p), Torn} /\ UNCHANGED found
    BY <1>10 DEF SignalCloses, TypeInv, TypeOK, PipelineTypeOK, Paths
  <2>2. at[p] = "signalOpen" /\ at'[p] = "shap" /\ \A q \in Runs : q # p => at'[q] = at[q]
    BY <1>10 DEF SignalCloses, Goto, TypeInv, TypeOK, PipelineTypeOK
  <2>3. Torn \notin Verdicts /\ None \notin Verdicts
    BY PipelineAssumption DEF PipelineAssumption, Verdicts
  <2>4. "shap" \notin BeforeReport
    BY DEF BeforeReport
  <2>5. found[p] \in Verdicts
    BY <2>2
  <2> QED
    BY <2>1, <2>2, <2>3, <2>4, <2>5 DEF Verdicts
<1>11. ASSUME NEW p \in Runs, Kill(p) PROVE AdviceInv'
  <2>1. file'["signal"] = file["signal"]
    BY <1>11 DEF Kill, DataPaths, Paths, TypeInv, TypeOK, PipelineTypeOK
  <2> QED
    BY <1>1, <1>2, <1>11, <2>1 DEF Kill, Places, Halted
<1>12. CASE UNCHANGED pipelineVars
  BY <1>12 DEF pipelineVars
<1> QED
  BY <1>3, <1>4, <1>5, <1>6, <1>7, <1>8, <1>9, <1>10, <1>11, <1>12 DEF PipelineNext, PipelineStep

----------------------------------------------------------------------------
(* The signal as long as nobody was killed: absent until a report has got  *)
(* as far, empty while one is being written, and a mixture only of two.    *)
(* The reporting runs stay finitely many, since one step adds at most one, *)
(* whatever Runs is.                                                       *)

Signalling == {"signal", "signalOpen"}
OneReport == kills = 0 /\ \A p, q \in Reported : p = q

QuietInv ==
    /\ IsFiniteSet(Reported)
    /\ kills = 0 =>
          /\ file["signal"] = None => \A p \in Reported : at[p] = "signal"
          /\ file["signal"] = "empty" => \E p \in Reported : at[p] = "signalOpen"
          /\ file["signal"] = Torn => ~OneReport
    /\ OneReport => \A p \in Reported : at[p] = "signalOpen" => file["signal"] = "empty"

(* A step that is not about report and signal leaves both, the verdicts,   *)
(* and the runs that are between the two.                                  *)
Elsewhere ==
    /\ UNCHANGED found /\ file'["report"] = file["report"] /\ file'["signal"] = file["signal"]
    /\ \A q \in Runs : at'[q] = at[q] \/ {at[q], at'[q]} \cap Signalling = {}

LEMMA StepsElsewhere ==
    ASSUME TypeInv,
           \/ RestoreOpens \/ RestoreCloses \/ UNCHANGED pipelineVars
           \/ \E p \in Runs :
                 \/ Validate(p) \/ Build(p) \/ WriteFeatures(p) \/ FitEnds(p) \/ Shap(p)
                 \/ \E s \in Training : FitReadsTrain(p, s) \/ FitReadsTest(p, s) \/ FitFails(p, s)
    PROVE  Elsewhere
<1>1. ASSUME NEW f \in DataPaths, NEW w, NEW c, Open(f, w, c)
      PROVE  file'["report"] = file["report"] /\ file'["signal"] = file["signal"]
  BY <1>1 DEF Open, DataPaths, Paths, TypeInv, TypeOK, PipelineTypeOK
<1>2. ASSUME NEW p \in Runs, NEW place, Goto(p, place) \/ UNCHANGED at,
             at[p] \notin Signalling, place \notin Signalling
      PROVE  \A q \in Runs : at'[q] = at[q] \/ {at[q], at'[q]} \cap Signalling = {}
  BY <1>2 DEF Goto, TypeInv, TypeOK, PipelineTypeOK
<1>3. CASE RestoreOpens \/ RestoreCloses
  BY <1>1, <1>3, ReadersAre DEF RestoreOpens, RestoreCloses, Close, Elsewhere
<1>4. CASE UNCHANGED pipelineVars
  BY <1>4 DEF pipelineVars, Elsewhere
<1>5. ASSUME NEW p \in Runs, WriteFeatures(p)
      PROVE  Elsewhere
  <2>1. UNCHANGED found /\ file'["report"] = file["report"] /\ file'["signal"] = file["signal"]
    BY <1>1, <1>5, ReadersAre DEF WriteFeatures, WriteOpens, WriteCloses, Close
  <2>2. PICK place \in {"trainOpen", "test", "testOpen", "drift", "fit"} : Goto(p, place)
    BY <1>5 DEF WriteFeatures, WriteOpens, WriteCloses
  <2>3. at[p] \notin Signalling
    BY <1>5 DEF WriteFeatures, WriteOpens, WriteCloses, Signalling
  <2> QED
    BY <1>2, <2>1, <2>2, <2>3 DEF Elsewhere, Signalling
<1>6. ASSUME NEW p \in Runs,
             \/ Validate(p) \/ Build(p) \/ FitEnds(p) \/ Shap(p)
             \/ \E s \in Training : FitReadsTrain(p, s) \/ FitReadsTest(p, s) \/ FitFails(p, s)
      PROVE  Elsewhere
  <2>1. UNCHANGED <<found, file>> /\ at[p] \notin Signalling
    BY <1>6 DEF Validate, Build, FitEnds, Shap, FitReadsTrain, FitReadsTest, FitFails, Signalling
  <2>2. UNCHANGED at \/ \E place \in {"build", "train", "shap", "done", "failed"} : Goto(p, place)
    BY <1>6 DEF Validate, Build, FitEnds, Shap, FitReadsTrain, FitReadsTest, FitFails
  <2>3. \A place \in {"build", "train", "shap", "done", "failed"} : place \notin Signalling
    BY DEF Signalling
  <2>4. \A q \in Runs : at'[q] = at[q] \/ {at[q], at'[q]} \cap Signalling = {}
    BY <1>2, <2>1, <2>2, <2>3
  <2> QED
    BY <2>1, <2>4 DEF Elsewhere
<1> QED
  BY <1>3, <1>4, <1>5, <1>6

LEMMA NoKillYet ==
    ASSUME TypeInv, [PipelineNext]_pipelineVars, kills' = 0
    PROVE  kills = 0 /\ \A p \in Runs : ~Kill(p)
<1>1. kills \in Nat
  BY PipelineAssumption DEF PipelineAssumption, TypeInv, TypeOK, PipelineTypeOK
<1>2. \A p \in Runs : Kill(p) => kills' = kills + 1
  BY DEF Kill
<1>3. (\E p \in Runs : Kill(p)) \/ UNCHANGED kills
  BY DEF PipelineNext, PipelineStep, RestoreOpens, RestoreCloses, Validate, Build, WriteFeatures,
     WriteOpens, WriteCloses, FitReadsTrain, FitReadsTest, FitFails, FitEnds, Drift,
     SignalOpens, SignalCloses, Shap, pipelineVars
<1> QED
  BY <1>1, <1>2, <1>3

LEMMA NextQuiet ==
    ASSUME TypeInv, AdviceInv, QuietInv, [PipelineNext]_pipelineVars
    PROVE  QuietInv'
<1> DEFINE Others(p) == \A q \in Runs : q # p => at'[q] = at[q] /\ found'[q] = found[q]
<1>1. kills' = 0 => kills = 0 /\ \A p \in Runs : ~Kill(p)
  BY NoKillYet
<1>2. None \notin Verdicts /\ Torn \notin Verdicts \cup {None, "empty"} /\ None # "empty"
  BY PipelineAssumption DEF PipelineAssumption, Verdicts
<1>3. CASE Elsewhere
  <2>1. Reported' = Reported
    BY <1>3 DEF Elsewhere, Reported
  <2>2. \A p \in Reported : at'[p] \in Signalling \/ at[p] \in Signalling => at'[p] = at[p]
    BY <1>3 DEF Elsewhere, Reported
  <2> QED
    BY <1>1, <1>3, <2>1, <2>2 DEF Elsewhere, QuietInv, OneReport, Reported, Signalling
<1>4. ASSUME NEW p \in Runs, Kill(p)
      PROVE  QuietInv'
  <2>1. Reported' = Reported
    BY <1>4 DEF Kill, Reported
  <2> QED
    BY <1>1, <1>4, <2>1 DEF QuietInv, OneReport
<1>5. ASSUME NEW p \in Runs, Drift(p)
      PROVE  QuietInv'
  <2>1. found[p] = None /\ at[p] = "drift"
    BY <1>5 DEF Drift, AdviceInv, BeforeReport, Places, Halted
  <2>2. CASE Goto(p, "failed") /\ UNCHANGED <<file, got, found>>
    <3>1. Elsewhere
      BY <2>1, <2>2 DEF Elsewhere, Goto, Signalling, TypeInv, TypeOK, PipelineTypeOK
    <3> QED
      BY <1>3, <3>1
  <2>3. CASE /\ \E v \in Verdicts :
                   found' = [found EXCEPT ![p] = v] /\ file' = [file EXCEPT !["report"] = v]
             /\ Goto(p, "signal")
    <3>1. found'[p] \in Verdicts /\ file'["signal"] = file["signal"] /\ at'[p] = "signal"
      BY <2>3 DEF Goto, Paths, TypeInv, TypeOK, PipelineTypeOK
    <3>2. Others(p)
      BY <2>3 DEF Goto, TypeInv, TypeOK, PipelineTypeOK
    <3>3. Reported' = Reported \cup {p} /\ p \notin Reported
      BY <1>2, <2>1, <3>1, <3>2 DEF Reported
    <3>4. IsFiniteSet(Reported')
      BY <3>3, FS_AddElement DEF QuietInv
    <3>5. OneReport' => OneReport /\ Reported' = {p}
      BY <1>1, <3>3 DEF OneReport
    <3>6. \A q \in Reported : q # p /\ at'[q] = at[q]
      BY <3>2, <3>3 DEF Reported
    <3> QED
      BY <1>1, <3>1, <3>3, <3>4, <3>5, <3>6 DEF QuietInv
  <2> QED
    BY <1>5, <2>2, <2>3 DEF Drift
<1>6. ASSUME NEW p \in Runs, SignalOpens(p) \/ SignalCloses(p)
      PROVE  Reported' = Reported /\ p \in Reported /\ OneReport' = OneReport /\ kills' = kills
  <2>1. UNCHANGED <<found, kills>>
    BY <1>6 DEF SignalOpens, SignalCloses
  <2>2. found[p] \in Verdicts
    BY <1>6 DEF SignalOpens, SignalCloses, AdviceInv
  <2> QED
    BY <1>2, <2>1, <2>2 DEF Reported, OneReport
<1>7. ASSUME NEW p \in Runs, SignalOpens(p)
      PROVE  QuietInv'
  <2>1. file'["signal"] = "empty" /\ at'[p] = "signalOpen"
    BY <1>7 DEF SignalOpens, Goto, Paths, TypeInv, TypeOK, PipelineTypeOK
  <2> QED
    BY <1>2, <1>6, <1>7, <2>1 DEF QuietInv
<1>8. ASSUME NEW p \in Runs, SignalCloses(p)
      PROVE  QuietInv'
  <2>1. at[p] = "signalOpen" /\ at'[p] = "shap"
    BY <1>8 DEF SignalCloses, Goto, TypeInv, TypeOK, PipelineTypeOK
  <2>2. file'["signal"] \in Verdicts \/ (file'["signal"] = Torn /\ file["signal"] # "empty")
    BY <1>8 DEF SignalCloses, Signal, AdviceInv, Verdicts, Paths, TypeInv, TypeOK, PipelineTypeOK
  <2>3. file'["signal"] = Torn => ~OneReport
    BY <1>2, <1>6, <1>8, <2>1, <2>2 DEF QuietInv
  <2>4. OneReport => Reported = {p}
    BY <1>6, <1>8 DEF OneReport
  <2>5. "empty" \notin Verdicts
    BY DEF Verdicts
  <2> QED
    BY <1>2, <1>6, <1>8, <2>1, <2>2, <2>3, <2>4, <2>5 DEF QuietInv
<1> QED
  BY <1>3, <1>4, <1>5, <1>7, <1>8, StepsElsewhere DEF PipelineNext, PipelineStep

LEMMA QuietAlways == Spec => [](TypeInv /\ AdviceInv /\ QuietInv)
<1>1. PipelineInit => AdviceInv
  BY PipelineAssumption
  DEF PipelineAssumption, PipelineInit, AdviceInv, Paths, Verdicts, BeforeReport
<1>2. PipelineInit => QuietInv
  <2> SUFFICES ASSUME PipelineInit PROVE QuietInv
    OBVIOUS
  <2>1. Reported = {} /\ file["signal"] = None
    BY DEF PipelineInit, Reported, Paths
  <2> QED
    BY <2>1, FS_EmptySet, PipelineAssumption DEF QuietInv, PipelineAssumption
<1>3. TypeInv /\ AdviceInv /\ QuietInv /\ [PipelineNext]_pipelineVars => QuietInv'
  BY NextQuiet
<1> QED
  BY <1>1, <1>2, <1>3, TypesAlways, NextAdvice, PTL DEF Spec

(* Two different reports are more than one.                                *)
LEMMA TwoReports ==
    ASSUME IsFiniteSet(Reported), kills = 0, ~OneReport
    PROVE  Cardinality(Reported) > 1
<1>1. PICK p, q \in Reported : p # q
  BY DEF OneReport
<1>2. Cardinality(Reported) \in Nat
  BY FS_CardinalityType
<1>3. Reported # {} /\ \A r : Reported # {r}
  BY <1>1
<1>4. Cardinality(Reported) # 0 /\ Cardinality(Reported) # 1
  BY <1>3, FS_EmptySet, FS_Singleton
<1> QED
  BY <1>2, <1>4

LEMMA AdviceFollows == TypeInv /\ AdviceInv /\ QuietInv => AdviceIsFounded
<1> SUFFICES ASSUME TypeInv, AdviceInv, QuietInv PROVE AdviceIsFounded
  OBVIOUS
<1>1. Torn \notin Verdicts /\ None \notin Verdicts
  BY PipelineAssumption DEF PipelineAssumption, Verdicts
<1>2. file["signal"] = "no_drift" => NotRequired
  BY DEF AdviceInv, NotRequired, Reported
<1>3. Advice = "no_action" => NotRequired
  BY <1>2 DEF AdviceInv, Advice, Available, Verdicts
<1>4. Advice = "propose_retraining" => RetrainRequired = 1
  BY DEF Advice, RetrainRequired
<1>5. RetrainRequired = 1 => \E p \in Runs : found[p] = "drift"
  BY DEF AdviceInv, RetrainRequired
<1>6. ASSUME RetrainRequired = 0
      PROVE  \/ NotRequired
             \/ \A p \in Reported : at[p] = "signal"
             \/ \E p \in Reported : at[p] = "signalOpen"
             \/ kills > 0
             \/ Cardinality(Reported) > 1 /\ file["signal"] = Torn
  <2>1. kills \in Nat
    BY PipelineAssumption DEF PipelineAssumption, TypeInv, TypeOK, PipelineTypeOK
  <2>2. file["signal"] \in {"no_drift", None, "empty", Torn}
    BY <1>6 DEF RetrainRequired, AdviceInv, Verdicts
  <2> QED
    BY <1>2, <2>1, <2>2, TwoReports DEF QuietInv
<1> QED
  BY <1>3, <1>4, <1>5, <1>6 DEF AdviceIsFounded, Decision

(* Alert and advice rest on a verdict that some run did report, and the    *)
(* gauge is silent about drift in the named ways only, however the files   *)
(* of overlapping and killed runs come about.                              *)
THEOREM AdviceHasItsReport == Spec => []AdviceIsFounded
BY AdviceFollows, QuietAlways, PTL

----------------------------------------------------------------------------
(* Report and signal.  A run stays the only one that has reported from its *)
(* report on, so both files are its own: the report from then on, the      *)
(* signal from the moment it is written back.                              *)

SignalInv ==
    /\ OneReport /\ Reported = {} => file["report"] = None /\ file["signal"] = None
    /\ OneReport => \A p \in Reported :
          /\ file["report"] = found[p]
          /\ at[p] \notin Signalling => file["signal"] = found[p]

LEMMA NextSignal ==
    ASSUME ReadsResult, TypeInv, AdviceInv, QuietInv, SignalInv, [PipelineNext]_pipelineVars
    PROVE  SignalInv'
<1> DEFINE Others(p) == \A q \in Runs : q # p => at'[q] = at[q] /\ found'[q] = found[q]
<1>1. kills' = 0 => kills = 0 /\ \A p \in Runs : ~Kill(p)
  BY NoKillYet
<1>2. \A p \in Reported : at[p] \notin BeforeReport
  BY DEF Reported, AdviceInv
<1>3. CASE Elsewhere
  BY <1>1, <1>3 DEF Elsewhere, SignalInv, OneReport, Reported, Signalling
<1>4. ASSUME NEW p \in Runs, Kill(p)
      PROVE  SignalInv'
  <2>1. Reported' = Reported
    BY <1>4 DEF Kill, Reported
  <2> QED
    BY <1>1, <1>4, <2>1 DEF SignalInv, OneReport
<1>5. ASSUME NEW p \in Runs, Drift(p)
      PROVE  SignalInv'
  <2>1. found[p] = None /\ at[p] = "drift"
    BY <1>5 DEF Drift, AdviceInv, BeforeReport, Places, Halted
  <2>2. CASE Goto(p, "failed") /\ UNCHANGED <<file, got, found>>
    <3>1. Elsewhere
      BY <2>1, <2>2 DEF Elsewhere, Goto, Signalling, TypeInv, TypeOK, PipelineTypeOK
    <3> QED
      BY <1>3, <3>1
  <2>3. CASE /\ \E v \in Verdicts :
                   found' = [found EXCEPT ![p] = v] /\ file' = [file EXCEPT !["report"] = v]
             /\ Goto(p, "signal")
    <3>1. /\ found'[p] \in Verdicts /\ file'["report"] = found'[p]
          /\ at'[p] = "signal"
      BY <2>3 DEF Goto, Paths, TypeInv, TypeOK, PipelineTypeOK
    <3>2. Others(p)
      BY <2>3 DEF Goto, TypeInv, TypeOK, PipelineTypeOK
    <3>3. None \notin Verdicts
      BY PipelineAssumption DEF PipelineAssumption, Verdicts
    <3>4. Reported' = Reported \cup {p}
      BY <2>1, <3>1, <3>2, <3>3 DEF Reported
    <3>5. OneReport' => Reported' = {p}
      BY <3>4 DEF OneReport
    <3> QED
      BY <3>1, <3>4, <3>5 DEF SignalInv, Signalling
  <2> QED
    BY <1>5, <2>2, <2>3 DEF Drift
<1>6. ASSUME NEW p \in Runs, SignalOpens(p) \/ SignalCloses(p)
      PROVE  /\ Reported' = Reported /\ p \in Reported /\ OneReport' = OneReport
             /\ UNCHANGED found /\ file'["report"] = file["report"]
  <2>1. UNCHANGED <<found, kills>> /\ file'["report"] = file["report"]
    BY <1>6 DEF SignalOpens, SignalCloses, Paths, TypeInv, TypeOK, PipelineTypeOK
  <2>2. found[p] \in Verdicts
    BY <1>6 DEF SignalOpens, SignalCloses, AdviceInv
  <2>3. None \notin Verdicts
    BY PipelineAssumption DEF PipelineAssumption, Verdicts
  <2> QED
    BY <2>1, <2>2, <2>3 DEF Reported, OneReport
<1>7. ASSUME NEW p \in Runs, SignalOpens(p)
      PROVE  SignalInv'
  <2>1. at'[p] = "signalOpen"
    BY <1>7 DEF SignalOpens, Goto, TypeInv, TypeOK, PipelineTypeOK
  <2> QED
    BY <1>6, <1>7, <2>1 DEF SignalInv, OneReport, Signalling
<1>8. ASSUME NEW p \in Runs, SignalCloses(p)
      PROVE  SignalInv'
  <2>1. at[p] = "signalOpen" /\ at'[p] = "shap"
    BY <1>8 DEF SignalCloses, Goto, TypeInv, TypeOK, PipelineTypeOK
  <2>2. OneReport => file'["signal"] = found[p]
    <3>1. OneReport => file["signal"] = "empty"
      BY <1>6, <1>8, <2>1 DEF QuietInv
    <3> QED
      BY <1>8, <3>1 DEF SignalCloses, Signal, Paths, TypeInv, TypeOK, PipelineTypeOK
  <2> QED
    BY <1>6, <1>8, <2>1, <2>2 DEF SignalInv, OneReport, Signalling
<1> QED
  BY <1>3, <1>4, <1>5, <1>7, <1>8, StepsElsewhere DEF PipelineNext, PipelineStep

(* The run drift_signal shows a report of drift beside a signal of none.   *)
(* That save_retrain_signal does not find its keys in the snapshot is the  *)
(* only way to that: if it does find them, the signal of one reporting run *)
(* says what its report shows, whatever other runs do to the data.         *)
THEOREM SignalFollowsReport ==
    ASSUME ReadsResult
    PROVE  Spec => []ReportAndSignalAgree
<1>1. PipelineInit => SignalInv
  <2> SUFFICES ASSUME PipelineInit PROVE SignalInv
    OBVIOUS
  <2>1. Reported = {} /\ file["report"] = None /\ file["signal"] = None
    BY DEF PipelineInit, Reported, Paths
  <2> QED
    BY <2>1 DEF SignalInv
<1>2. TypeInv /\ AdviceInv /\ QuietInv /\ SignalInv /\ [PipelineNext]_pipelineVars => SignalInv'
  BY NextSignal
<1>3. QuietInv /\ SignalInv => ReportAndSignalAgree
  <2> SUFFICES ASSUME QuietInv, SignalInv, \A p \in Runs : at[p] \notin Signalling,
                      Cardinality(Reported) <= 1, kills = 0
               PROVE  file["signal"] = file["report"]
    BY DEF ReportAndSignalAgree, Reported, Signalling
  <2>1. Cardinality(Reported) \in {0, 1}
    BY FS_CardinalityType DEF QuietInv
  <2>2. Reported = {} \/ \E p : Reported = {p}
    BY <2>1, FS_EmptySet, FS_Singleton DEF QuietInv
  <2> QED
    BY <2>2 DEF SignalInv, OneReport, Reported
<1> QED
  BY <1>1, <1>2, <1>3, QuietAlways, PTL DEF Spec

----------------------------------------------------------------------------
(* Undisturbed runs.  Nobody else writes while such a run is in hand: what *)
(* it validated is what the raw file holds, and the features it has        *)
(* written are its own until it ends.                                      *)

Writing  == {"trainOpen", "test", "testOpen", "fit", "drift", "signal", "signalOpen", "shap"}
Written  == Writing \ {"trainOpen", "test"}
Active   == {"build", "train"} \cup Writing

OwnSource(p) ==
    at[p] \in Active =>
        /\ writers["raw"] = {}
        /\ file["raw"] = checked[p]
        /\ checked[p] \in Valid
        /\ at[p] # "build" => built[p] = checked[p]

OwnFeatures(p) ==
    /\ at[p] \in Writing =>
        /\ writers["train"] \cup writers["test"] \subseteq {p}
        /\ file["train"] = checked[p]
    /\ at[p] \in Written => file["test"] = checked[p]

OwnReadings(p) ==
    \A s \in Readers :
        /\ at[p] = "validate" => got[p][s] = Unread
        /\ got[p][s].train \in {None, checked[p]}
        /\ got[p][s].test \in {None, checked[p]}
        /\ got[p][s].state = "finished" => checked[p] \in Valid

OwnInv(p) == OwnSource(p) /\ OwnFeatures(p) /\ OwnReadings(p)

UndisturbedInv == \A p \in Runs \ disturbed : OwnInv(p)

LEMMA ActiveIsInHand == TypeInv => InHand = {p \in Runs : at[p] \in Active}
BY DEF TypeInv, TypeOK, PipelineTypeOK, InHand, Active, Writing, Places, Halted

(* A step that leaves all of p and the files it uses alone keeps it.       *)
LEMMA OthersKeepOwn ==
    ASSUME NEW p \in Runs, OwnInv(p),
           at'[p] = at[p], checked'[p] = checked[p], built'[p] = built[p], got'[p] = got[p],
           at[p] \in Active => writers'["raw"] = writers["raw"] /\ file'["raw"] = file["raw"],
           at[p] \in Writing => /\ writers'["train"] \subseteq writers["train"]
                                /\ writers'["test"] \subseteq writers["test"]
                                /\ file'["train"] = file["train"] /\ file'["test"] = file["test"]
    PROVE  OwnInv(p)'
<1>1. Writing \subseteq Active /\ Written \subseteq Writing
  BY DEF Active, Written
<1>2. OwnSource(p)' /\ OwnReadings(p)'
  BY DEF OwnInv, OwnSource, OwnReadings, Active, Writing, Readers, Training
<1>3. OwnFeatures(p)'
  BY <1>1 DEF OwnInv, OwnFeatures
<1> QED
  BY <1>2, <1>3 DEF OwnInv

(* A run that has ended keeps what it has read.                            *)
LEMMA EndKeepsOwn ==
    ASSUME NEW p \in Runs, OwnReadings(p), at'[p] \in Halted,
           checked'[p] = checked[p], got'[p] = got[p]
    PROVE  OwnInv(p)'
BY DEF OwnInv, OwnSource, OwnFeatures, OwnReadings, Active, Writing, Written, Halted
LEMMA QuietStepsOfAnother ==
    ASSUME TypeInv, NEW p \in Runs, NEW q \in Runs, q # p,
           \/ Validate(q) \/ Build(q) \/ FitEnds(q)
           \/ \E s \in Training : FitReadsTrain(q, s) \/ FitReadsTest(q, s) \/ FitFails(q, s)
           \/ Drift(q) \/ SignalOpens(q) \/ SignalCloses(q) \/ Shap(q)
    PROVE  checked'[p] = checked[p] /\ built'[p] = built[p] /\ got'[p] = got[p]
<1>1. got'[p] = got[p]
  BY DEF Validate, Build, FitEnds, FitReadsTrain, FitReadsTest, FitFails, Drift,
     SignalOpens, SignalCloses, Shap, Reads, TypeInv, TypeOK, PipelineTypeOK
<1>2. checked'[p] = checked[p]
  BY DEF Validate, Build, FitEnds, FitReadsTrain, FitReadsTest, FitFails, Drift,
     SignalOpens, SignalCloses, Shap, TypeInv, TypeOK, PipelineTypeOK
<1>3. built'[p] = built[p]
  BY DEF Validate, Build, FitEnds, FitReadsTrain, FitReadsTest, FitFails, Drift,
     SignalOpens, SignalCloses, Shap, TypeInv, TypeOK, PipelineTypeOK
<1> QED
  BY <1>1, <1>2, <1>3

LEMMA StepOfAnother ==
    ASSUME TypeInv, PlaceInv, NEW p \in Runs, p \notin disturbed', OwnInv(p),
           NEW q \in Runs, q # p,
           \/ Validate(q) \/ Build(q) \/ FitEnds(q) \/ WriteFeatures(q) \/ Kill(q)
           \/ \E s \in Training : FitReadsTrain(q, s) \/ FitReadsTest(q, s) \/ FitFails(q, s)
           \/ Drift(q) \/ SignalOpens(q) \/ SignalCloses(q) \/ Shap(q)
    PROVE  OwnInv(p)'
<1>1. CASE \/ Validate(q) \/ Build(q) \/ FitEnds(q)
           \/ \E s \in Training : FitReadsTrain(q, s) \/ FitReadsTest(q, s) \/ FitFails(q, s)
           \/ Drift(q) \/ SignalOpens(q) \/ SignalCloses(q) \/ Shap(q)
  <2>1. at'[p] = at[p] /\ UNCHANGED writers /\ \A f \in DataPaths : file'[f] = file[f]
    BY <1>1, QuietSteps
  <2>2. checked'[p] = checked[p] /\ built'[p] = built[p] /\ got'[p] = got[p]
    BY <1>1, QuietStepsOfAnother
  <2> QED
    BY <2>1, <2>2, OthersKeepOwn, ReadersAre
<1>2. ASSUME NEW f, NEW open, WriteOpens(q, f, open) PROVE OwnInv(p)'
  <2>1. p \notin InHand
    BY <1>2 DEF WriteOpens
  <2>2. at[p] \notin Active /\ at[p] \notin Writing
    BY <2>1, ActiveIsInHand DEF Active
  <2>3. at'[p] = at[p]
    BY <1>2 DEF WriteOpens, Goto, TypeInv, TypeOK, PipelineTypeOK
  <2>4. checked'[p] = checked[p] /\ built'[p] = built[p] /\ got'[p] = got[p]
    BY <1>2 DEF WriteOpens
  <2> QED
    BY <2>2, <2>3, <2>4, OthersKeepOwn
<1>3. ASSUME NEW f \in {"train", "test"}, NEW open, NEW next, WriteCloses(q, f, open, next)
      PROVE  OwnInv(p)'
  <2>1. /\ writers'["raw"] = writers["raw"] /\ UNCHANGED file
        /\ writers'["train"] \subseteq writers["train"]
        /\ writers'["test"] \subseteq writers["test"]
    BY <1>3 DEF WriteCloses, Close, TypeInv, TypeOK, PipelineTypeOK, DataPaths
  <2>2. at'[p] = at[p]
    BY <1>3 DEF WriteCloses, Goto, TypeInv, TypeOK, PipelineTypeOK
  <2>3. checked'[p] = checked[p] /\ built'[p] = built[p] /\ got'[p] = got[p]
    BY <1>3 DEF WriteCloses
  <2> QED
    BY <2>1, <2>2, <2>3, OthersKeepOwn
<1>4. CASE Kill(q)
  <2>1. q \notin writers["raw"]
    BY PipelineAssumption DEF PipelineAssumption, PlaceInv
  <2>2. at[p] \in Writing => q \notin writers["train"] /\ q \notin writers["test"]
    BY DEF OwnInv, OwnFeatures
  <2>3. \A f \in DataPaths : /\ writers'[f] = writers[f] \ {q}
                             /\ q \notin writers[f] => file'[f] = file[f]
    BY <1>4, ReadersAre DEF Kill
  <2>4. at'[p] = at[p]
    BY <1>4 DEF Kill, Goto, TypeInv, TypeOK, PipelineTypeOK
  <2>5. checked'[p] = checked[p] /\ built'[p] = built[p] /\ got'[p] = got[p]
    BY <1>4 DEF Kill
  <2> QED
    BY <2>1, <2>2, <2>3, <2>4, <2>5, OthersKeepOwn, ReadersAre
<1> QED
  BY <1>1, <1>2, <1>3, <1>4 DEF WriteFeatures

LEMMA OwnBuild ==
    ASSUME TypeInv, PlaceInv, NEW p \in Runs, p \notin disturbed', OwnInv(p),
           Validate(p) \/ Build(p)
    PROVE  OwnInv(p)'
<1>1. at[p] = "validate" => \A s \in Readers : got[p][s] = Unread
  BY DEF OwnInv, OwnReadings
<1>2. UNCHANGED <<got, file, writers>>
  BY DEF Validate, Build
<1>3. CASE Validate(p)
  <2>1. writers["raw"] = {}
    BY <1>3 DEF Validate
  <2>2. CASE UNCHANGED checked /\ Goto(p, "failed")
    BY <1>2, <2>2, EndKeepsOwn
    DEF OwnInv, Goto, Halted, TypeInv, TypeOK, PipelineTypeOK
  <2>3. CASE /\ \E c \in ReadOf("raw") \cap (Valid \cup {Torn}) : checked' = [checked EXCEPT ![p] = c]
             /\ Goto(p, "build")
    <3>1. checked'[p] = file["raw"] /\ checked'[p] \in Valid \cup {Torn}
      BY <2>1, <2>3 DEF ReadOf, TypeInv, TypeOK, PipelineTypeOK
    <3>2. checked'[p] \in Valid
      BY <3>1, PipelineAssumption DEF PipelineAssumption, PlaceInv
    <3>3. at'[p] = "build"
      BY <2>3 DEF Goto, TypeInv, TypeOK, PipelineTypeOK
    <3>4. at[p] = "validate"
      BY <1>3 DEF Validate
    <3>5. OwnSource(p)' /\ OwnFeatures(p)'
      BY <1>2, <2>1, <3>1, <3>2, <3>3 DEF OwnSource, OwnFeatures, Writing, Written
    <3>6. OwnReadings(p)'
      BY <1>1, <1>2, <3>2, <3>3, <3>4 DEF OwnReadings, Unread, Readers, Training
    <3> QED
      BY <3>5, <3>6 DEF OwnInv
  <2> QED
    BY <1>3, <2>2, <2>3 DEF Validate
<1>4. CASE Build(p)
  <2>1. at[p] = "build" /\ UNCHANGED checked
    BY <1>4 DEF Build
  <2>2. writers["raw"] = {} /\ file["raw"] = checked[p] /\ checked[p] \in Valid
    BY <2>1 DEF OwnInv, OwnSource, Active
  <2>3. CASE UNCHANGED built /\ Goto(p, "failed")
    BY <1>2, <2>1, <2>3, EndKeepsOwn
    DEF OwnInv, Goto, Halted, TypeInv, TypeOK, PipelineTypeOK
  <2>4. CASE (\E c \in ReadOf("raw") : built' = [built EXCEPT ![p] = c]) /\ Goto(p, "train")
    <3>1. built'[p] = checked[p] /\ at'[p] = "train"
      BY <2>2, <2>4 DEF ReadOf, Goto, TypeInv, TypeOK, PipelineTypeOK
    <3>2. OwnSource(p)' /\ OwnFeatures(p)'
      BY <1>2, <2>1, <2>2, <3>1 DEF OwnSource, OwnFeatures, Writing, Written
    <3>3. OwnReadings(p)'
      BY <1>2, <2>1, <3>1 DEF OwnInv, OwnReadings, Readers, Training
    <3> QED
      BY <3>2, <3>3 DEF OwnInv
  <2> QED
    BY <1>4, <2>3, <2>4 DEF Build
<1> QED
  BY <1>3, <1>4
LEMMA OwnWrite ==
    ASSUME TypeInv, PlaceInv, NEW p \in Runs, p \notin disturbed', OwnInv(p), WriteFeatures(p)
    PROVE  OwnInv(p)'
<1>1. UNCHANGED <<checked, built, got>>
  BY DEF WriteFeatures, WriteOpens, WriteCloses
<1>2. at[p] \in {"train", "trainOpen", "test", "testOpen"}
  BY DEF WriteFeatures, WriteOpens, WriteCloses
<1>3. /\ writers["raw"] = {} /\ file["raw"] = checked[p]
      /\ checked[p] \in Valid /\ built[p] = checked[p]
  BY <1>2 DEF OwnInv, OwnSource, Active, Writing
<1>4. at'[p] # "validate" => OwnReadings(p)'
  BY <1>1 DEF OwnInv, OwnReadings, Readers, Training
<1>5. ASSUME NEW f \in {"train", "test"}, NEW open, WriteOpens(p, f, open)
      PROVE  /\ OwnSource(p)' /\ writers'["train"] \cup writers'["test"] \subseteq {p}
             /\ file'[f] = checked'[p] /\ at'[p] = open
             /\ \A g \in {"train", "test"} \ {f} : file'[g] = file[g]
  <2>1. writers["train"] \cup writers["test"] \subseteq {p}
    BY <1>5 DEF WriteOpens
  <2>2. p \notin writers[f]
    BY <1>5 DEF WriteOpens, PlaceInv
  <2>3. /\ writers' = [writers EXCEPT ![f] = @ \cup {p}]
        /\ file' = [file EXCEPT ![f] = built[p]]
    BY <1>5, <2>1, <2>2 DEF WriteOpens, Open
  <2>4. at'[p] = open
    BY <1>5 DEF WriteOpens, Goto, TypeInv, TypeOK, PipelineTypeOK
  <2> QED
    BY <1>1, <1>3, <2>1, <2>3, <2>4, ReadersAre
    DEF OwnSource, TypeInv, TypeOK, PipelineTypeOK, DataPaths, Paths
<1>6. ASSUME NEW f \in {"train", "test"}, NEW open, NEW next, WriteCloses(p, f, open, next)
      PROVE  /\ OwnSource(p)' /\ UNCHANGED file /\ at'[p] = next
             /\ writers'["train"] \subseteq writers["train"]
             /\ writers'["test"] \subseteq writers["test"]
  <2>1. /\ writers' = [writers EXCEPT ![f] = @ \ {p}] /\ UNCHANGED file
        /\ at'[p] = next
    BY <1>6 DEF WriteCloses, Close, Goto, TypeInv, TypeOK, PipelineTypeOK
  <2> QED
    BY <1>1, <1>3, <2>1 DEF OwnSource, TypeInv, TypeOK, PipelineTypeOK, DataPaths
<1>7. CASE WriteOpens(p, "train", "trainOpen")
  BY <1>4, <1>5, <1>7 DEF OwnInv, OwnFeatures, Writing, Written
<1>8. CASE WriteCloses(p, "train", "trainOpen", "test")
  <2>1. at[p] = "trainOpen" /\ at'[p] = "test"
    BY <1>6, <1>8 DEF WriteCloses
  <2>2. writers["train"] \cup writers["test"] \subseteq {p} /\ file["train"] = checked[p]
    BY <2>1 DEF OwnInv, OwnFeatures, Writing
  <2> QED
    BY <1>1, <1>4, <1>6, <1>8, <2>1, <2>2 DEF OwnInv, OwnFeatures, Writing, Written
<1>9. CASE WriteOpens(p, "test", "testOpen")
  <2>1. at[p] = "test"
    BY <1>9 DEF WriteOpens
  <2>2. file["train"] = checked[p]
    BY <2>1 DEF OwnInv, OwnFeatures, Writing
  <2> QED
    BY <1>1, <1>4, <1>5, <1>9, <2>2 DEF OwnInv, OwnFeatures, Writing, Written
<1>10. ASSUME NEW next \in {"drift", "fit"}, WriteCloses(p, "test", "testOpen", next)
       PROVE  OwnInv(p)'
  <2>1. at[p] = "testOpen" /\ at'[p] = next
    BY <1>6, <1>10 DEF WriteCloses
  <2>2. /\ writers["train"] \cup writers["test"] \subseteq {p}
        /\ file["train"] = checked[p] /\ file["test"] = checked[p]
    BY <2>1 DEF OwnInv, OwnFeatures, Writing, Written
  <2> QED
    BY <1>1, <1>4, <1>6, <1>10, <2>1, <2>2 DEF OwnInv, OwnFeatures, Writing, Written
<1> QED
  BY <1>7, <1>8, <1>9, <1>10 DEF WriteFeatures

(* What a script of p reads while p has the features to itself.            *)
LEMMA ReadsItsOwn ==
    ASSUME TypeInv, PlaceInv, NEW p \in Runs, OwnInv(p), at[p] \in {"fit", "drift", "shap"}
    PROVE  ReadOf("train") \subseteq {checked[p]} /\ ReadOf("test") \subseteq {checked[p]}
<1>1. /\ writers["train"] \cup writers["test"] \subseteq {p}
      /\ file["train"] = checked[p] /\ file["test"] = checked[p]
  BY DEF OwnInv, OwnFeatures, Writing, Written
<1>2. p \notin writers["train"] /\ p \notin writers["test"]
  BY DEF PlaceInv
<1> QED
  BY <1>1, <1>2 DEF ReadOf

(* Reading what is its own keeps the readings of a run its own.            *)
LEMMA ReadingKeepsOwn ==
    ASSUME TypeInv, NEW p \in Runs, OwnInv(p), at[p] \in {"fit", "drift", "shap"},
           NEW s \in Readers, NEW field \in {"train", "test"}, NEW value \in Contents,
           value = checked[p], NEW state \in Outcomes, Reads(p, s, field, value, state),
           UNCHANGED checked, at'[p] # "validate"
    PROVE  OwnReadings(p)'
<1>1. /\ got'[p][s][field] = value
      /\ \A other \in {"train", "test"} \ {field} : got'[p][s][other] = got[p][s][other]
      /\ \A t \in Readers : t # s => got'[p][t] = got[p][t]
  BY ReadsEffect DEF TypeInv
<1>2. checked[p] \in Valid
  BY DEF OwnInv, OwnSource, Active, Writing
<1>3. \A t \in Readers : /\ got'[p][t].train \in {None, checked[p]}
                         /\ got'[p][t].test \in {None, checked[p]}
  <2>1. CASE field = "train"
    BY <1>1, <2>1 DEF OwnInv, OwnReadings
  <2>2. CASE field = "test"
    BY <1>1, <2>2 DEF OwnInv, OwnReadings
  <2> QED
    BY <2>1, <2>2
<1> QED
  BY <1>2, <1>3 DEF OwnReadings, Readers, Training
LEMMA OwnScripts ==
    ASSUME TypeInv, PlaceInv, NEW p \in Runs, OwnInv(p),
           \/ FitEnds(p)
           \/ \E s \in Training : FitReadsTrain(p, s) \/ FitReadsTest(p, s) \/ FitFails(p, s)
           \/ Drift(p) \/ SignalOpens(p) \/ SignalCloses(p) \/ Shap(p)
    PROVE  OwnInv(p)'
<1>1. at[p] \in {"fit", "drift", "signal", "signalOpen", "shap"}
  BY DEF FitEnds, FitReadsTrain, FitReadsTest, FitFails, Drift, SignalOpens, SignalCloses, Shap
<1>2. at'[p] \in {"fit", "signal", "signalOpen", "shap"} \cup Halted
  BY DEF FitEnds, FitReadsTrain, FitReadsTest, FitFails, Drift, SignalOpens, SignalCloses, Shap,
     Goto, Halted, TypeInv, TypeOK, PipelineTypeOK
<1>3. UNCHANGED <<checked, built>>
  BY DEF FitEnds, FitReadsTrain, FitReadsTest, FitFails, Drift, SignalOpens, SignalCloses, Shap
<1>4. OwnSource(p)' /\ OwnFeatures(p)'
  <2>1. UNCHANGED writers /\ \A f \in DataPaths : file'[f] = file[f]
    BY QuietSteps
  <2>2. /\ writers["raw"] = {} /\ file["raw"] = checked[p]
        /\ checked[p] \in Valid /\ built[p] = checked[p]
        /\ writers["train"] \cup writers["test"] \subseteq {p}
        /\ file["train"] = checked[p] /\ file["test"] = checked[p]
    BY <1>1 DEF OwnInv, OwnSource, OwnFeatures, Active, Writing, Written
  <2> QED
    BY <1>3, <2>1, <2>2, ReadersAre DEF OwnSource, OwnFeatures
<1>5. at'[p] # "validate"
  BY <1>2 DEF Halted
<1>6. OwnReadings(p)'
  <2>1. CASE UNCHANGED got
    BY <1>3, <1>5, <2>1 DEF OwnInv, OwnReadings, Readers, Training
  <2>2. ASSUME NEW s \in Training, FitReadsTrain(p, s) PROVE OwnReadings(p)'
    <3>1. PICK c \in ReadOf("train") : Reads(p, s, "train", c, "running")
      BY <2>2 DEF FitReadsTrain
    <3>2. at[p] = "fit"
      BY <2>2 DEF FitReadsTrain
    <3>3. c = checked[p] /\ c \in Contents
      BY <3>2, ReadsItsOwn, ReadTypes, ReadersAre DEF TypeInv
    <3> QED
      BY <1>3, <1>5, <3>1, <3>2, <3>3, ReadingKeepsOwn, ReadersAre DEF Outcomes
  <2>3. ASSUME NEW s \in Training, FitReadsTest(p, s) PROVE OwnReadings(p)'
    <3>1. PICK c \in ReadOf("test") : Reads(p, s, "test", c, "finished")
      BY <2>3 DEF FitReadsTest
    <3>2. at[p] = "fit"
      BY <2>3 DEF FitReadsTest
    <3>3. c = checked[p] /\ c \in Contents
      BY <3>2, ReadsItsOwn, ReadTypes, ReadersAre DEF TypeInv
    <3> QED
      BY <1>3, <1>5, <3>1, <3>2, <3>3, ReadingKeepsOwn, ReadersAre DEF Outcomes
  <2>4. ASSUME NEW s \in Training, FitFails(p, s) PROVE OwnReadings(p)'
    <3>1. /\ got'[p][s] = [train |-> None, test |-> None, state |-> "failed"]
          /\ \A t \in Readers : t # s => got'[p][t] = got[p][t]
      BY <2>4, ReadersAre DEF FitFails, TypeInv, TypeOK, PipelineTypeOK
    <3> QED
      BY <1>3, <1>5, <3>1 DEF OwnInv, OwnReadings, Readers, Training
  <2>5. ASSUME Drift(p), NEW c \in ReadOf("train"), Reads(p, DriftReport, "train", c, "finished")
        PROVE  OwnReadings(p)'
    <3>1. at[p] = "drift"
      BY <2>5 DEF Drift
    <3>2. c = checked[p] /\ c \in Contents
      BY <3>1, ReadsItsOwn, ReadTypes, ReadersAre DEF TypeInv
    <3> QED
      BY <1>3, <1>5, <2>5, <3>1, <3>2, ReadingKeepsOwn, ReadersAre DEF Outcomes
  <2>6. ASSUME Shap(p), NEW c \in ReadOf("test"), Reads(p, ShapReport, "test", c, "finished")
        PROVE  OwnReadings(p)'
    <3>1. at[p] = "shap"
      BY <2>6 DEF Shap
    <3>2. c = checked[p] /\ c \in Contents
      BY <3>1, ReadsItsOwn, ReadTypes, ReadersAre DEF TypeInv
    <3> QED
      BY <1>3, <1>5, <2>6, <3>1, <3>2, ReadingKeepsOwn, ReadersAre DEF Outcomes
  <2>7. FitEnds(p) \/ SignalOpens(p) \/ SignalCloses(p) => UNCHANGED got
    BY DEF FitEnds, SignalOpens, SignalCloses
  <2>8. Drift(p) => UNCHANGED got \/ \E c \in ReadOf("train") :
                        Reads(p, DriftReport, "train", c, "finished")
    BY DEF Drift
  <2>9. Shap(p) => UNCHANGED got \/ \E c \in ReadOf("test") :
                       Reads(p, ShapReport, "test", c, "finished")
    BY DEF Shap
  <2> QED
    BY <2>1, <2>2, <2>3, <2>4, <2>5, <2>6, <2>7, <2>8, <2>9
<1> QED
  BY <1>4, <1>6 DEF OwnInv

LEMMA NextUndisturbed ==
    TypeInv /\ PlaceInv /\ UndisturbedInv /\ [PipelineNext]_pipelineVars => UndisturbedInv'
<1> SUFFICES ASSUME TypeInv, PlaceInv, UndisturbedInv, [PipelineNext]_pipelineVars,
                    NEW p \in Runs, p \notin disturbed'
             PROVE  OwnInv(p)'
  BY DEF UndisturbedInv
<1>1. disturbed \subseteq disturbed'
  BY DEF PipelineNext, PipelineStep, RestoreOpens, RestoreCloses, Validate, Build, WriteFeatures,
     WriteOpens, WriteCloses, FitReadsTrain, FitReadsTest, FitFails, FitEnds, Drift,
     SignalOpens, SignalCloses, Shap, Kill, pipelineVars
<1>2. OwnInv(p)
  BY <1>1 DEF UndisturbedInv
<1>3. CASE RestoreOpens
  <2>1. at[p] \notin Active /\ at[p] \notin Writing
    BY <1>3, ActiveIsInHand DEF RestoreOpens, Active
  <2> QED
    BY <1>2, <1>3, <2>1, OthersKeepOwn DEF RestoreOpens
<1>4. CASE RestoreCloses
  <2>1. at[p] \notin Active
    BY <1>2, <1>4 DEF RestoreCloses, OwnInv, OwnSource
  <2>2. at[p] \notin Writing
    BY <2>1 DEF Active
  <2> QED
    BY <1>2, <1>4, <2>1, <2>2, OthersKeepOwn DEF RestoreCloses
<1>5. CASE Kill(p)
  <2>1. at'[p] \in Halted /\ UNCHANGED <<checked, got>>
    BY <1>5 DEF Kill, Goto, Halted, TypeInv, TypeOK, PipelineTypeOK
  <2> QED
    BY <1>2, <2>1, EndKeepsOwn DEF OwnInv
<1>6. CASE UNCHANGED pipelineVars
  BY <1>2, <1>6, OthersKeepOwn DEF pipelineVars
<1>7. ASSUME NEW q \in Runs,
             \/ Validate(q) \/ Build(q) \/ FitEnds(q) \/ WriteFeatures(q) \/ Kill(q)
             \/ \E s \in Training : FitReadsTrain(q, s) \/ FitReadsTest(q, s) \/ FitFails(q, s)
             \/ Drift(q) \/ SignalOpens(q) \/ SignalCloses(q) \/ Shap(q)
      PROVE  OwnInv(p)'
  <2>1. CASE q # p
    BY <1>2, <1>7, <2>1, StepOfAnother
  <2>2. CASE q = p
    BY <1>2, <1>5, <1>7, <2>2, OwnBuild, OwnWrite, OwnScripts
  <2> QED
    BY <2>1, <2>2
<1> QED
  BY <1>3, <1>4, <1>6, <1>7 DEF PipelineNext, PipelineStep

(* Every script of a run that nobody got in the way of reads the version   *)
(* that passed validate_data, for any number of runs around it.            *)
THEOREM UndisturbedRunsAreIsolated == Spec => []UndisturbedRunsReadTheirOwn
<1>1. PipelineInit => UndisturbedInv
  <2> SUFFICES ASSUME PipelineInit, NEW p \in Runs PROVE OwnInv(p)
    BY DEF UndisturbedInv
  <2>1. at[p] = "validate" /\ checked[p] = None /\ \A s \in Readers : got[p][s] = Unread
    BY DEF PipelineInit, Unread
  <2> QED
    BY <2>1 DEF OwnInv, OwnSource, OwnFeatures, OwnReadings, Active, Writing, Written, Unread
<1>2. UndisturbedInv => UndisturbedRunsReadTheirOwn
  BY DEF UndisturbedInv, OwnInv, OwnReadings, UndisturbedRunsReadTheirOwn
<1> QED
  BY <1>1, <1>2, TypesAlways, InitPlaces, NextPlaces, NextUndisturbed, PTL DEF Spec
=============================================================================
