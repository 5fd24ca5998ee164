----------------------- MODULE ModelPromotionProofs -----------------------
(***************************************************************************)
(* Proofs about ModelPromotion, for any number of runs, pipelines and      *)
(* reviews.                                                                *)
(***************************************************************************)
EXTENDS ModelPromotion, WellFoundedInduction, TLAPS

Runs == [family : Families, owner : Pipelines \cup {Nobody}, auc : Aucs \cup {0},
         state : {"training", "registered", "finished", "failed"}]

PipelineRecords(n) == [at : {"train", "promote", "set", "done", "failed"}, latest : 0..n]
ReviewRecords(n)   == [at : {"idle", "compare", "human", "execute", "set"},
                       champion : 0..n, candidate : 0..n]

Judged == {"human", "execute", "set"}

(* What is promoted, or about to be, has finished. *)
PipelineInv ==
    \A p \in Pipelines : pipeline[p].at = "set" =>
        /\ pipeline[p].latest \in FinishedRuns("catboost")
        /\ p \in raced \/ champion <= pipeline[p].latest

(* A review that nobody has overtaken still knows the champion, and a      *)
(* candidate that goes to the human has passed the gates against it.       *)
ReviewInv ==
    \A r \in Reviews :
        /\ review[r].at # "idle" =>
              /\ review[r].champion \in FinishedRuns("catboost")
              /\ r \in raced \/ champion = review[r].champion
        /\ review[r].at \in Judged =>
              /\ review[r].candidate \in FinishedRuns("catboost")
              /\ review[r].champion <= review[r].candidate
              /\ Approved(review[r].candidate, review[r].champion)

PromotionInv == TypeOK /\ ChampionIsFinished /\ PipelineInv /\ ReviewInv

----------------------------------------------------------------------------
(* A set of run numbers that is not empty has a latest one.                *)
LEMMA LatestExists ==
    ASSUME NEW n \in Nat, NEW S \in SUBSET (1..n), S # {}
    PROVE  \E i \in S : \A j \in S : j <= i
<1> DEFINE T == {n - i : i \in S}
<1>1. T \subseteq Nat /\ T # {}
  <2>1. \A i \in S : i \in 1..n
    OBVIOUS
  <2>2. \A i \in S : n - i \in Nat
    BY <2>1
  <2>3. PICK i \in S : TRUE
    OBVIOUS
  <2>4. n - i \in T
    OBVIOUS
  <2> QED
    BY <2>2, <2>4
<1>2. PICK t \in T : \A u \in T : <<u, t>> \notin OpToRel(<, Nat)
  <2>. HIDE DEF T
  <2> QED
    BY <1>1, NatLessThanWellFounded, WFMin
<1>3. \A u \in T : t <= u
  <2>. HIDE DEF T
  <2>1. \A u \in T : ~(u < t)
    BY <1>1, <1>2 DEF OpToRel
  <2> QED
    BY <1>1, <2>1
<1>4. PICK i \in S : t = n - i
  OBVIOUS
<1>5. \A j \in S : n - i <= n - j
  BY <1>3, <1>4
<1> QED
  BY <1>5

(* LatestFinished finds the latest finished run if there is one.           *)
LEMMA LatestFinishedFinds ==
    ASSUME Len(runs) \in Nat, NEW family, LatestFinished(family) # 0
    PROVE  /\ LatestFinished(family) \in FinishedRuns(family)
           /\ \A j \in FinishedRuns(family) : j <= LatestFinished(family)
<1> DEFINE S == FinishedRuns(family)
<1>1. S # {}
  BY DEF LatestFinished
<1>2. S \in SUBSET (1..Len(runs))
  BY DEF FinishedRuns, RunIds
<1>3. \E i \in S : \A j \in S : j <= i
  <2>. HIDE DEF S
  <2> QED
    BY <1>1, <1>2, LatestExists
<1>4. LatestFinished(family) = CHOOSE i \in S : \A j \in S : j <= i
  BY <1>1 DEF LatestFinished
<1>. HIDE DEF S
<1>5. LatestFinished(family) \in S /\ \A j \in S : j <= LatestFinished(family)
  BY <1>3, <1>4
<1> QED
  BY <1>5 DEF S

(* Runs are only added and moved on: a finished run stays as it is.        *)
RunsKept ==
    /\ runs' \in Seq(Runs)
    /\ Len(runs) <= Len(runs')
    /\ \A i \in RunIds : runs[i].state = "finished" => runs'[i] = runs[i]

LEMMA StepKeepsRuns ==
    ASSUME runs \in Seq(Runs), [Next]_promotionVars
    PROVE  RunsKept
<1>. USE DEF RunsKept, RunIds
<1>1. ASSUME NEW family \in Families, NEW owner \in Pipelines \cup {Nobody}, StartRun(family, owner)
      PROVE  RunsKept
  <2> DEFINE new == [family |-> family, owner |-> owner, auc |-> 0, state |-> "training"]
  <2>1. new \in Runs
    BY DEF Runs
  <2>2. runs' = Append(runs, new)
    BY <1>1 DEF StartRun
  <2>. HIDE DEF new
  <2> QED
    BY <2>1, <2>2
<1>2. ASSUME NEW i \in RunIds, Register(i) \/ Finish(i) \/ RunFails(i)
      PROVE  RunsKept
  <2>1. PICK run \in Runs : runs' = [runs EXCEPT ![i] = run]
    <3>1. runs[i] \in Runs
      OBVIOUS
    <3>2. CASE Register(i)
      <4>1. PICK auc \in Aucs : runs' = [runs EXCEPT ![i].state = "registered", ![i].auc = auc]
        BY <3>2 DEF Register
      <4>2. [runs[i] EXCEPT !.state = "registered", !.auc = auc] \in Runs
        BY <3>1 DEF Runs
      <4>3. runs' = [runs EXCEPT ![i] = [runs[i] EXCEPT !.state = "registered", !.auc = auc]]
        BY <4>1
      <4> QED
        BY <4>2, <4>3
    <3>3. CASE Finish(i)
      <4>1. [runs[i] EXCEPT !.state = "finished"] \in Runs
        BY <3>1 DEF Runs
      <4>2. runs' = [runs EXCEPT ![i] = [runs[i] EXCEPT !.state = "finished"]]
        BY <3>3 DEF Finish
      <4> QED
        BY <4>1, <4>2
    <3>4. CASE RunFails(i)
      <4>1. [runs[i] EXCEPT !.state = "failed", !.auc = 0] \in Runs
        BY <3>1 DEF Runs
      <4>2. runs' = [runs EXCEPT ![i] = [runs[i] EXCEPT !.state = "failed", !.auc = 0]]
        BY <3>4 DEF RunFails
      <4> QED
        BY <4>1, <4>2
    <3> QED
      BY <1>2, <3>2, <3>3, <3>4
  <2>2. runs[i].state # "finished"
    BY <1>2 DEF Register, Finish, RunFails
  <2> QED
    BY <2>1, <2>2
<1>3. CASE UNCHANGED runs
  BY <1>3
<1> QED
  BY <1>1, <1>2, <1>3
  DEF Next, StartJob, StartTraining, SelectBest, PromoteSearch, PromoteSet, PipelineFails,
      ReadChampion, Evaluate, HumanApproves, CheckChampion, SetChampion, ReviewEnds, Families,
      promotionVars

(* What is finished stays finished, and its metrics stay.                  *)
LEMMA FinishedStays ==
    ASSUME runs \in Seq(Runs), RunsKept
    PROVE  \A i \in FinishedRuns("catboost") :
              /\ i \in FinishedRuns("catboost")'
              /\ runs'[i].auc = runs[i].auc
<1> SUFFICES ASSUME NEW i \in FinishedRuns("catboost")
             PROVE  i \in FinishedRuns("catboost")' /\ runs'[i].auc = runs[i].auc
  OBVIOUS
<1>1. i \in RunIds /\ runs[i].family = "catboost" /\ runs[i].state = "finished"
  BY DEF FinishedRuns
<1>2. runs'[i] = runs[i] /\ i \in 1..Len(runs')
  <2>1. Len(runs) \in Nat /\ Len(runs') \in Nat
    BY DEF RunsKept
  <2> QED
    BY <1>1, <2>1 DEF RunsKept, RunIds
<1> QED
  BY <1>1, <1>2 DEF FinishedRuns, RunIds

(* A finished run is a run.                                                *)
LEMMA FinishedIsRun ==
    ASSUME runs \in Seq(Runs), NEW family, NEW i \in FinishedRuns(family)
    PROVE  i \in 1..Len(runs) /\ i \in Nat /\ runs[i].auc \in Nat
<1>1. i \in 1..Len(runs)
  BY DEF FinishedRuns, RunIds
<1>2. runs[i] \in Runs
  BY <1>1
<1>3. runs[i].auc \in Aucs \cup {0}
  BY <1>2 DEF Runs
<1>4. Aucs \subseteq Nat
  BY PromotionAssumption
<1>5. runs[i].auc \in Nat
  <2>1. CASE runs[i].auc = 0
    BY <2>1
  <2>2. CASE runs[i].auc \in Aucs
    BY <1>4, <2>2
  <2> QED
    BY <1>3, <2>1, <2>2
<1>6. i \in Nat
  BY <1>1
<1> QED
  BY <1>1, <1>5, <1>6

(* The strongest run, when it is a CatBoost run, is the latest of those.   *)
LEMMA StrongestIsLatest ==
    ASSUME runs \in Seq(Runs), Strongest # 0, runs[Strongest].family = "catboost"
    PROVE  /\ Strongest \in FinishedRuns("catboost")
           /\ \A j \in FinishedRuns("catboost") : j <= Strongest
<1> DEFINE cat    == LatestFinished("catboost")
           other  == LatestFinished("other")
           latest == {LatestFinished(family) : family \in Families} \ {0}
           Best(i) == \A j \in latest :
                         runs[i].auc > runs[j].auc \/ (runs[i].auc = runs[j].auc /\ j <= i)
<1>1. latest = {cat, other} \ {0}
  BY DEF Families
<1>2. cat # 0 => /\ cat \in FinishedRuns("catboost")
                 /\ \A j \in FinishedRuns("catboost") : j <= cat
  BY LatestFinishedFinds
<1>3. other # 0 => other \in FinishedRuns("other")
  BY LatestFinishedFinds
<1>4. cat # 0 => cat \in Nat /\ runs[cat].auc \in Nat
  BY <1>2, FinishedIsRun
<1>5. other # 0 => other \in Nat /\ runs[other].auc \in Nat
  BY <1>3, FinishedIsRun
<1>6. latest # {} /\ Strongest = CHOOSE i \in latest : Best(i)
  BY DEF Strongest
<1>. HIDE DEF latest, cat, other
<1>7. \E i \in latest : Best(i)
  <2>1. CASE cat = 0 \/ other = 0 \/ cat = other
    <3>1. PICK i : latest = {i} /\ (i = cat \/ i = other) /\ i # 0
      BY <1>1, <1>6, <2>1
    <3> QED
      BY <1>4, <1>5, <3>1
  <2>2. CASE cat # 0 /\ other # 0 /\ cat # other
    <3>1. latest = {cat, other}
      BY <1>1, <2>2
    <3>2. Best(cat) \/ Best(other)
      BY <1>4, <1>5, <2>2, <3>1
    <3> QED
      BY <3>1, <3>2
  <2> QED
    BY <2>1, <2>2
<1>8. Strongest \in latest
  BY <1>6, <1>7
<1>9. other # 0 => runs[other].family = "other"
  BY <1>3 DEF FinishedRuns
<1>10. Strongest = cat /\ cat # 0
  BY <1>1, <1>8, <1>9
<1> QED
  BY <1>2, <1>10

LEMMA PromotionInit == Init => PromotionInv
<1> SUFFICES ASSUME Init
             PROVE  PromotionInv
  OBVIOUS
<1>1. runs \in Seq(Runs) /\ Len(runs) = 0
  BY DEF Init
<1>2. TypeOK
  BY <1>1 DEF Init, TypeOK, Idle, Runs
<1> QED
  BY <1>2 DEF Init, PromotionInv, ChampionIsFinished, PipelineInv, ReviewInv, Judged, Idle

(* The types, taken apart. *)
LEMMA Types ==
    TypeOK <=> /\ runs \in Seq(Runs)
               /\ champion \in 0..Len(runs)
               /\ pipeline \in [Pipelines -> PipelineRecords(Len(runs))]
               /\ review \in [Reviews -> ReviewRecords(Len(runs))]
               /\ raced \subseteq Pipelines \cup Reviews
BY DEF TypeOK, Runs, PipelineRecords, ReviewRecords

(* A step of the training runs leaves everything else alone.               *)
LEMMA RunStep ==
    ASSUME PromotionInv, [Next]_promotionVars, UNCHANGED <<champion, pipeline, review, raced>>
    PROVE  PromotionInv'
<1>1. runs \in Seq(Runs)
  BY Types DEF PromotionInv
<1>2. RunsKept
  BY <1>1, StepKeepsRuns
<1>3. Len(runs) \in Nat /\ Len(runs') \in Nat /\ Len(runs) <= Len(runs')
  BY <1>1, <1>2 DEF RunsKept
<1>4. TypeOK'
  <2>1. champion' \in 0..Len(runs')
    BY <1>3, Types DEF PromotionInv
  <2>2. 0..Len(runs) \subseteq 0..Len(runs')
    BY <1>3
  <2>3. PipelineRecords(Len(runs)) \subseteq PipelineRecords(Len(runs'))
    BY <2>2 DEF PipelineRecords
  <2>4. ReviewRecords(Len(runs)) \subseteq ReviewRecords(Len(runs'))
    BY <2>2 DEF ReviewRecords
  <2>5. pipeline' \in [Pipelines -> PipelineRecords(Len(runs'))]
    BY <2>3, Types DEF PromotionInv
  <2>6. review' \in [Reviews -> ReviewRecords(Len(runs'))]
    BY <2>4, Types DEF PromotionInv
  <2>7. runs' \in Seq(Runs) /\ raced' \subseteq Pipelines \cup Reviews
    BY <1>2, Types DEF PromotionInv, RunsKept
  <2> QED
    BY <2>1, <2>5, <2>6, <2>7 DEF TypeOK, Runs, PipelineRecords, ReviewRecords
<1>5. \A i \in FinishedRuns("catboost") :
         i \in FinishedRuns("catboost")' /\ runs'[i].auc = runs[i].auc
  BY <1>1, <1>2, FinishedStays
<1>6. ChampionIsFinished' /\ PipelineInv'
  BY <1>5 DEF PromotionInv, ChampionIsFinished, PipelineInv
<1>7. ReviewInv'
  <2>1. UNCHANGED <<champion, review, raced>>
    OBVIOUS
  <2> SUFFICES ASSUME NEW r \in Reviews
               PROVE  /\ review[r].at # "idle" =>
                            /\ review[r].champion \in FinishedRuns("catboost")'
                            /\ r \in raced \/ champion = review[r].champion
                      /\ review[r].at \in Judged =>
                            /\ review[r].candidate \in FinishedRuns("catboost")'
                            /\ review[r].champion <= review[r].candidate
                            /\ runs'[review[r].candidate].auc >= MinAuc
                            /\ runs'[review[r].candidate].auc >= runs'[review[r].champion].auc
    BY <2>1 DEF ReviewInv, Approved
  <2>2. review[r].at \in Judged => review[r].at # "idle"
    BY DEF Judged
  <2> QED
    BY <1>5, <2>2 DEF PromotionInv, ReviewInv, Approved
<1> QED
  BY <1>4, <1>6, <1>7 DEF PromotionInv

(* Moving the alias to a finished run keeps what the others rely on: they  *)
(* are marked as overtaken.                                                *)
LEMMA PipelineStep ==
    ASSUME PromotionInv, NEW p \in Pipelines,
           SelectBest(p) \/ PromoteSearch(p) \/ PromoteSet(p) \/ PipelineFails(p)
    PROVE  PromotionInv'
<1> DEFINE F == FinishedRuns("catboost")
<1>. USE DEF PromotionInv
<1>1. runs \in Seq(Runs) /\ Len(runs) \in Nat /\ UNCHANGED runs
  BY Types DEF SelectBest, PromoteSearch, PromoteSet, PipelineFails
<1>2. F' = F
  BY <1>1 DEF FinishedRuns, RunIds
<1>3. \A i \in F : i \in 1..Len(runs) /\ i \in Nat
  BY <1>1, FinishedIsRun
<1>4. UNCHANGED review
  BY DEF SelectBest, PromoteSearch, PromoteSet, PipelineFails
<1>5. CASE SelectBest(p) \/ PipelineFails(p)
  <2>1. PICK to \in {"promote", "failed"} : pipeline' = [pipeline EXCEPT ![p] = [at |-> to, latest |-> 0]]
    BY <1>5 DEF SelectBest, PipelineFails, PipelineGoes
  <2>2. UNCHANGED <<champion, raced>>
    BY <1>5 DEF SelectBest, PipelineFails
  <2>3. TypeOK'
    <3>1. pipeline' \in [Pipelines -> PipelineRecords(Len(runs))]
      BY <2>1, Types DEF PipelineRecords
    <3> QED
      BY <1>1, <1>4, <2>2, <3>1, Types DEF TypeOK, Runs, PipelineRecords, ReviewRecords
  <2>4. ChampionIsFinished'
    BY <1>2, <2>2 DEF ChampionIsFinished
  <2>5. PipelineInv'
    BY <1>2, <2>1, <2>2, Types DEF PipelineInv, PipelineRecords
  <2>6. ReviewInv'
    BY <1>1, <1>2, <1>4, <2>2 DEF ReviewInv, Approved
  <2> QED
    BY <2>3, <2>4, <2>5, <2>6
<1>6. CASE PromoteSearch(p)
  <2> DEFINE l == LatestFinished("catboost")
  <2>1. l \in F /\ \A j \in F : j <= l
    BY <1>1, <1>6, LatestFinishedFinds DEF PromoteSearch
  <2>2. pipeline' = [pipeline EXCEPT ![p] = [at |-> "set", latest |-> l]]
    BY <1>6 DEF PromoteSearch, PipelineGoes
  <2>3. UNCHANGED champion /\ raced' = raced \ {p}
    BY <1>6 DEF PromoteSearch, Read
  <2>. HIDE DEF l
  <2>4. TypeOK'
    <3>1. [at |-> "set", latest |-> l] \in PipelineRecords(Len(runs))
      BY <1>1, <1>3, <2>1 DEF PipelineRecords
    <3>2. pipeline' \in [Pipelines -> PipelineRecords(Len(runs))]
      BY <2>2, <3>1, Types
    <3> QED
      BY <1>1, <1>4, <2>3, <3>2, Types DEF TypeOK, Runs, PipelineRecords, ReviewRecords
  <2>5. ChampionIsFinished'
    BY <1>2, <2>3 DEF ChampionIsFinished
  <2>6. PipelineInv'
    <3>1. champion <= l
      BY <1>1, <1>3, <2>1, Types DEF ChampionIsFinished
    <3> QED
      BY <1>2, <2>1, <2>2, <2>3, <3>1, Types DEF PipelineInv, PipelineRecords
  <2>7. ReviewInv'
    <3>1. p \notin Reviews
      BY PromotionAssumption
    <3> QED
      BY <1>1, <1>2, <1>4, <2>3, <3>1 DEF ReviewInv, Approved
  <2> QED
    BY <2>4, <2>5, <2>6, <2>7
<1>7. CASE PromoteSet(p)
  <2>1. /\ pipeline[p].at = "set"
        /\ champion' = pipeline[p].latest
        /\ raced' = (Pipelines \cup Reviews) \ {p}
        /\ pipeline' = [pipeline EXCEPT ![p] = [at |-> "done", latest |-> 0]]
    BY <1>7 DEF PromoteSet, SetAlias, PipelineGoes
  <2>2. champion' \in F
    BY <2>1 DEF PipelineInv
  <2>3. TypeOK'
    <3>1. pipeline' \in [Pipelines -> PipelineRecords(Len(runs))]
      BY <2>1, Types DEF PipelineRecords
    <3>2. champion' \in 0..Len(runs)
      BY <1>1, <1>3, <2>2
    <3> QED
      BY <1>1, <1>4, <2>1, <3>1, <3>2, Types DEF TypeOK, Runs, PipelineRecords, ReviewRecords
  <2>4. ChampionIsFinished'
    BY <1>2, <2>2 DEF ChampionIsFinished
  <2>5. PipelineInv'
    BY <1>2, <2>1, Types DEF PipelineInv, PipelineRecords
  <2>6. ReviewInv'
    <3>1. \A r \in Reviews : r \in raced'
      BY <2>1, PromotionAssumption
    <3> QED
      BY <1>1, <1>2, <1>4, <3>1 DEF ReviewInv, Approved
  <2> QED
    BY <2>3, <2>4, <2>5, <2>6
<1> QED
  BY <1>5, <1>6, <1>7

(* A step of a review changes that review, and the alias when it sets it.  *)
LEMMA ReviewStep ==
    ASSUME PromotionInv, NEW r \in Reviews,
           \/ ReadChampion(r) \/ Evaluate(r) \/ HumanApproves(r)
           \/ CheckChampion(r) \/ SetChampion(r) \/ ReviewEnds(r)
    PROVE  PromotionInv'
<1> DEFINE F == FinishedRuns("catboost")
<1>. USE DEF PromotionInv
<1>1. runs \in Seq(Runs) /\ Len(runs) \in Nat /\ UNCHANGED <<runs, pipeline>>
  BY Types DEF ReadChampion, Evaluate, HumanApproves, CheckChampion, SetChampion, ReviewEnds
<1>2. F' = F
  BY <1>1 DEF FinishedRuns, RunIds
<1>3. \A i \in F : i \in 1..Len(runs) /\ i \in Nat
  BY <1>1, FinishedIsRun
<1>4. \A q \in Pipelines : q # r
  BY PromotionAssumption
<1>5. Idle \in ReviewRecords(Len(runs)) /\ Idle.at = "idle" /\ Idle.at \notin Judged
  BY <1>1 DEF Idle, ReviewRecords, Judged
<1>6. review \in [Reviews -> ReviewRecords(Len(runs))]
  BY Types
<1> DEFINE Good(to, alias, late) ==
              /\ to \in ReviewRecords(Len(runs))
              /\ to.at # "idle" => to.champion \in F /\ (late \/ alias = to.champion)
              /\ to.at \in Judged => /\ to.candidate \in F
                                     /\ to.champion <= to.candidate
                                     /\ Approved(to.candidate, to.champion)
<1>7. Good(Idle, champion, r \in raced) /\ Good(Idle, champion', FALSE)
  BY <1>5
<1>8. Good(review[r], champion, r \in raced)
  BY <1>6 DEF ReviewInv
<1>9. ASSUME UNCHANGED champion,
             \/ UNCHANGED raced
             \/ raced' = raced \ {r},
             NEW to, review' = [review EXCEPT ![r] = to], Good(to, champion, r \in raced')
      PROVE  PromotionInv'
  <2>1. TypeOK'
    <3>1. review' \in [Reviews -> ReviewRecords(Len(runs))]
      BY <1>6, <1>9
    <3> QED
      BY <1>1, <1>9, <3>1, Types DEF TypeOK, Runs, PipelineRecords, ReviewRecords
  <2>2. ChampionIsFinished'
    BY <1>2, <1>9 DEF ChampionIsFinished
  <2>3. PipelineInv'
    BY <1>1, <1>2, <1>4, <1>9 DEF PipelineInv
  <2>4. ReviewInv'
    BY <1>1, <1>2, <1>6, <1>9 DEF ReviewInv, Approved
  <2> QED
    BY <2>1, <2>2, <2>3, <2>4
<1>10. CASE ReadChampion(r)
  <2> DEFINE to == [at |-> "compare", champion |-> champion, candidate |-> 0]
  <2>1. champion \in F /\ review' = [review EXCEPT ![r] = to] /\ UNCHANGED champion /\ raced' = raced \ {r}
    BY <1>10 DEF ReadChampion, ReviewGoes, Read, ChampionIsFinished
  <2>2. Good(to, champion, FALSE)
    BY <1>1, <1>3, <2>1 DEF ReviewRecords, Judged
  <2> QED
    BY <1>9, <2>1, <2>2
<1>11. CASE Evaluate(r)
  <2>1. UNCHANGED <<champion, raced>> /\ review[r].at = "compare"
    BY <1>11 DEF Evaluate
  <2> DEFINE c == Strongest
             to == [at |-> "human", champion |-> review[r].champion, candidate |-> c]
  <2>2. CASE review' = [review EXCEPT ![r] = Idle]
    BY <1>7, <1>9, <2>1, <2>2
  <2>3. CASE /\ c # 0
             /\ runs[c].family = "catboost"
             /\ Approved(c, review[r].champion)
             /\ review' = [review EXCEPT ![r] = to]
    <3>1. c \in F /\ \A j \in F : j <= c
      BY <1>1, <2>3, StrongestIsLatest
    <3>. HIDE DEF c
    <3>2. review[r].champion \in F /\ (r \in raced \/ champion = review[r].champion)
      BY <1>8, <2>1
    <3>3. to \in ReviewRecords(Len(runs))
      BY <1>1, <1>3, <3>1, <3>2 DEF ReviewRecords
    <3>4. Good(to, champion, r \in raced)
      BY <2>3, <3>1, <3>2, <3>3
    <3> QED
      BY <1>9, <2>1, <2>3, <3>4
  <2> QED
    BY <1>11, <2>2, <2>3 DEF Evaluate, ReviewGoes
<1>12. CASE HumanApproves(r) \/ CheckChampion(r)
  <2>1. PICK to \in {Idle, [review[r] EXCEPT !.at = "execute"], [review[r] EXCEPT !.at = "set"]} :
               review' = [review EXCEPT ![r] = to]
    BY <1>12 DEF HumanApproves, CheckChampion, ReviewGoes
  <2>2. UNCHANGED <<champion, raced>> /\ review[r].at \in Judged
    BY <1>12 DEF HumanApproves, CheckChampion, Judged
  <2>3. Good(to, champion, r \in raced)
    BY <1>6, <1>7, <1>8, <2>2 DEF ReviewRecords, Judged
  <2> QED
    BY <1>9, <2>1, <2>2, <2>3
<1>13. CASE SetChampion(r)
  <2>1. /\ review[r].at = "set"
        /\ champion' = review[r].candidate
        /\ raced' = (Pipelines \cup Reviews) \ {r}
        /\ review' = [review EXCEPT ![r] = Idle]
    BY <1>13 DEF SetChampion, SetAlias, ReviewGoes
  <2>2. champion' \in F
    BY <1>8, <2>1 DEF Judged
  <2>3. TypeOK'
    <3>1. review' \in [Reviews -> ReviewRecords(Len(runs))]
      BY <1>5, <1>6, <2>1
    <3>2. champion' \in 0..Len(runs)
      BY <1>1, <1>3, <2>2
    <3> QED
      BY <1>1, <2>1, <3>1, <3>2, Types DEF TypeOK, Runs, PipelineRecords, ReviewRecords
  <2>4. ChampionIsFinished'
    BY <1>2, <2>2 DEF ChampionIsFinished
  <2>5. PipelineInv'
    BY <1>1, <1>2, <1>4, <2>1 DEF PipelineInv
  <2>6. ReviewInv'
    BY <1>1, <1>2, <1>5, <1>6, <2>1 DEF ReviewInv, Approved
  <2> QED
    BY <2>3, <2>4, <2>5, <2>6
<1>14. CASE ReviewEnds(r)
  BY <1>7, <1>9, <1>14 DEF ReviewEnds, ReviewGoes
<1> QED
  BY <1>10, <1>11, <1>12, <1>13, <1>14

LEMMA PromotionStep == PromotionInv /\ [Next]_promotionVars => PromotionInv'
<1> SUFFICES ASSUME PromotionInv, [Next]_promotionVars
             PROVE  PromotionInv'
  OBVIOUS
<1>1. CASE UNCHANGED <<champion, pipeline, review, raced>>
  BY <1>1, RunStep
<1>2. CASE \E p \in Pipelines : SelectBest(p) \/ PromoteSearch(p) \/ PromoteSet(p) \/ PipelineFails(p)
  BY <1>2, PipelineStep
<1>3. CASE \E r \in Reviews : \/ ReadChampion(r) \/ Evaluate(r) \/ HumanApproves(r)
                            \/ CheckChampion(r) \/ SetChampion(r) \/ ReviewEnds(r)
  BY <1>3, ReviewStep
<1>4. CASE UNCHANGED promotionVars
  BY <1>1, <1>4 DEF promotionVars
<1>5. CASE StartJob \/ \E i \in RunIds : Register(i) \/ Finish(i) \/ RunFails(i)
  BY <1>1, <1>5 DEF StartJob, StartRun, Register, Finish, RunFails
<1>6. CASE \E p \in Pipelines, family \in Families : StartTraining(p, family)
  BY <1>1, <1>6 DEF StartTraining, StartRun
<1> QED
  BY <1>2, <1>3, <1>4, <1>5, <1>6 DEF Next

THEOREM PromotionInvariant == Spec => []PromotionInv
<1>1. Init => PromotionInv
  BY PromotionInit
<1>2. PromotionInv /\ [Next]_promotionVars => PromotionInv'
  BY PromotionStep
<1> QED
  BY <1>1, <1>2, PTL DEF Spec

(* Every value of the variables has its type.                              *)
THEOREM TypeCorrect == Spec => []TypeOK
<1>1. PromotionInv => TypeOK
  BY DEF PromotionInv
<1> QED
  BY <1>1, PromotionInvariant, PTL

(* What the scoring API loads has finished training: promote_model,        *)
(* whoever calls it and whenever, moves the alias to such a run only.      *)
THEOREM ChampionsHaveFinished == Spec => []ChampionIsFinished
<1>1. PromotionInv => ChampionIsFinished
  BY DEF PromotionInv
<1> QED
  BY <1>1, PromotionInvariant, PTL

(* A step that moves the alias.                                            *)
LEMMA WhoMovesTheAlias ==
    ASSUME [Next]_promotionVars, champion' # champion
    PROVE  \/ \E p \in Pipelines : PromoteSet(p)
           \/ \E r \in Reviews : SetChampion(r)
BY DEF Next, StartJob, StartRun, StartTraining, Register, Finish, RunFails, SelectBest,
       PromoteSearch, PipelineFails, ReadChampion, Evaluate, HumanApproves, CheckChampion,
       ReviewEnds, promotionVars

(* Going back to an older run needs a race: who was not overtaken moves    *)
(* the alias to a run at least as new as the one it read.                  *)
LEMMA BackStep ==
    ASSUME PromotionInv, [Next]_promotionVars, champion' < champion
    PROVE  \/ \E p \in raced \cap Pipelines : PipelineSets(p)
           \/ \E r \in raced \cap Reviews : ReviewSets(r)
<1>1. runs \in Seq(Runs) /\ champion \in Nat /\ champion' # champion
  BY Types DEF PromotionInv
<1>2. CASE \E p \in Pipelines : PromoteSet(p)
  <2>1. PICK p \in Pipelines : PromoteSet(p)
    BY <1>2
  <2>2. /\ pipeline[p].at = "set"
        /\ champion' = pipeline[p].latest
        /\ pipeline' = [pipeline EXCEPT ![p] = [at |-> "done", latest |-> 0]]
    BY <2>1 DEF PromoteSet, SetAlias, PipelineGoes
  <2>3. pipeline'[p].at = "done"
    BY <2>2, Types DEF PromotionInv, PipelineRecords
  <2>4. champion' \in Nat
    BY <1>1, <2>2, FinishedIsRun DEF PromotionInv, PipelineInv
  <2>5. p \in raced
    BY <1>1, <2>2, <2>4 DEF PromotionInv, PipelineInv
  <2> QED
    BY <2>2, <2>3, <2>5 DEF PipelineSets
<1>3. CASE \E r \in Reviews : SetChampion(r)
  <2>1. PICK r \in Reviews : SetChampion(r)
    BY <1>3
  <2>2. /\ review[r].at = "set"
        /\ champion' = review[r].candidate
        /\ review' = [review EXCEPT ![r] = Idle]
    BY <2>1 DEF SetChampion, SetAlias, ReviewGoes
  <2>3. review'[r].at = "idle"
    BY <2>2, Types DEF PromotionInv, Idle
  <2>4. /\ review[r].champion <= champion'
        /\ r \in raced \/ champion = review[r].champion
        /\ champion' \in Nat
    BY <1>1, <2>2, FinishedIsRun DEF PromotionInv, ReviewInv, Judged
  <2>5. r \in raced
    BY <1>1, <2>4
  <2> QED
    BY <2>2, <2>3, <2>5 DEF ReviewSets
<1> QED
  BY <1>1, <1>2, <1>3, WhoMovesTheAlias

(* The alias goes back to an older run only when its mover was overtaken.  *)
THEOREM GoingBackNeedsARace == Spec => AliasGoesBackOnlyInRace
<1>1. PromotionInv /\ [Next]_promotionVars =>
         [champion' < champion =>
            \/ \E p \in raced \cap Pipelines : PipelineSets(p)
            \/ \E r \in raced \cap Reviews : ReviewSets(r)]_promotionVars
  BY BackStep
<1> QED
  BY <1>1, PromotionInvariant, PTL DEF Spec, AliasGoesBackOnlyInRace

(* The review that moves the alias is the one that goes idle.              *)
LEMMA ImprovementStep ==
    ASSUME PromotionInv, [Next]_promotionVars, NEW r \in Reviews,
           review[r].at = "set", champion' # champion, review'[r].at = "idle"
    PROVE  /\ runs[champion'].auc >= MinAuc
           /\ r \in raced \/ runs[champion'].auc >= runs[champion].auc
<1>1. ~ \E p \in Pipelines : PromoteSet(p)
  BY DEF PromoteSet
<1>2. PICK q \in Reviews : SetChampion(q)
  BY <1>1, WhoMovesTheAlias
<1>3. q = r
  BY <1>2 DEF SetChampion, ReviewGoes
<1>4. champion' = review[r].candidate
  BY <1>2, <1>3 DEF SetChampion, SetAlias
<1>5. /\ Approved(review[r].candidate, review[r].champion)
      /\ r \in raced \/ champion = review[r].champion
  BY DEF PromotionInv, ReviewInv, Judged
<1> QED
  BY <1>4, <1>5 DEF Approved

(* A review promotes what passes the gates, and never exchanges the        *)
(* champion that it compared with for a worse one.                         *)
THEOREM ReviewsImprove == Spec => ReviewPromotesImprovement
<1>1. PromotionInv /\ [Next]_promotionVars =>
         [\A r \in Reviews : review[r].at = "set" /\ champion' # champion /\ review'[r].at = "idle" =>
             /\ runs[champion'].auc >= MinAuc
             /\ r \in raced \/ runs[champion'].auc >= runs[champion].auc]_promotionVars
  BY ImprovementStep
<1> QED
  BY <1>1, PromotionInvariant, PTL DEF Spec, ReviewPromotesImprovement

----------------------------------------------------------------------------
(* A pipeline that goes on to promote has a finished run of its own, and   *)
(* what it found is not older.                                             *)
OwnInv ==
    \A p \in Pipelines : pipeline[p].at \in {"promote", "set"} =>
        \E i \in Owned(p, "catboost") :
            runs[i].state = "finished" /\ (pipeline[p].at = "set" => i <= pipeline[p].latest)

(* Finished runs keep their owner. *)
LEMMA OwnRunsStay ==
    ASSUME runs \in Seq(Runs), RunsKept, NEW p, NEW i \in Owned(p, "catboost"), runs[i].state = "finished"
    PROVE  i \in Owned(p, "catboost")' /\ runs'[i].state = "finished"
<1>1. i \in RunIds /\ runs[i].owner = p /\ runs[i].family = "catboost"
  BY DEF Owned
<1>2. runs'[i] = runs[i] /\ i \in 1..Len(runs')
  <2>1. Len(runs) \in Nat /\ Len(runs') \in Nat
    BY DEF RunsKept
  <2> QED
    BY <1>1, <2>1 DEF RunsKept, RunIds
<1> QED
  BY <1>1, <1>2 DEF Owned, RunIds

LEMMA OwnStep == PromotionInv /\ OwnInv /\ [Next]_promotionVars => OwnInv'
<1> SUFFICES ASSUME PromotionInv, OwnInv, [Next]_promotionVars, NEW p \in Pipelines,
                    pipeline'[p].at \in {"promote", "set"}
             PROVE  \E i \in Owned(p, "catboost")' :
                       /\ runs'[i].state = "finished"
                       /\ pipeline'[p].at = "set" => i <= pipeline'[p].latest
  BY DEF OwnInv
<1>1. runs \in Seq(Runs) /\ RunsKept
  BY Types, StepKeepsRuns DEF PromotionInv
<1>2. pipeline \in [Pipelines -> PipelineRecords(Len(runs))]
  BY Types DEF PromotionInv
<1>3. CASE pipeline'[p] = pipeline[p]
  <2>1. PICK i \in Owned(p, "catboost") :
            runs[i].state = "finished" /\ (pipeline[p].at = "set" => i <= pipeline[p].latest)
    BY <1>3 DEF OwnInv
  <2>2. i \in Owned(p, "catboost")' /\ runs'[i].state = "finished"
    BY <1>1, <2>1, OwnRunsStay
  <2> QED
    BY <1>3, <2>1, <2>2
<1>4. CASE SelectBest(p)
  <2>1. PICK i \in Owned(p, "catboost") : runs[i].state = "finished"
    BY <1>4 DEF SelectBest, Families
  <2>2. pipeline'[p].at = "promote"
    BY <1>2, <1>4 DEF SelectBest, PipelineGoes, PipelineRecords
  <2>3. i \in Owned(p, "catboost")' /\ runs'[i].state = "finished"
    BY <1>1, <2>1, OwnRunsStay
  <2> QED
    BY <2>2, <2>3
<1>5. CASE PromoteSearch(p)
  <2>1. pipeline[p].at = "promote"
    BY <1>5 DEF PromoteSearch
  <2>2. PICK i \in Owned(p, "catboost") : runs[i].state = "finished"
    BY <2>1 DEF OwnInv
  <2>3. i \in FinishedRuns("catboost")
    BY <2>2 DEF Owned, FinishedRuns
  <2>4. i <= LatestFinished("catboost")
    BY <1>1, <1>5, <2>3, LatestFinishedFinds DEF PromoteSearch
  <2>5. pipeline'[p].latest = LatestFinished("catboost")
    BY <1>2, <1>5 DEF PromoteSearch, PipelineGoes
  <2>6. i \in Owned(p, "catboost")' /\ runs'[i].state = "finished"
    BY <1>1, <2>2, OwnRunsStay
  <2> QED
    BY <2>4, <2>5, <2>6
<1>6. CASE PromoteSet(p) \/ PipelineFails(p)
  BY <1>2, <1>6 DEF PromoteSet, PipelineFails, PipelineGoes, PipelineRecords
<1>7. CASE \E q \in Pipelines \ {p} : SelectBest(q) \/ PromoteSearch(q) \/ PromoteSet(q) \/ PipelineFails(q)
  <2>1. pipeline'[p] = pipeline[p]
    BY <1>2, <1>7 DEF SelectBest, PromoteSearch, PromoteSet, PipelineFails, PipelineGoes
  <2> QED
    BY <1>3, <2>1
<1>8. CASE UNCHANGED pipeline
  BY <1>3, <1>8
<1> QED
  BY <1>4, <1>5, <1>6, <1>7, <1>8
  DEF Next, StartJob, StartTraining, StartRun, Register, Finish, RunFails, ReadChampion, Evaluate,
      HumanApproves, CheckChampion, SetChampion, ReviewEnds, promotionVars

(* A pipeline promotes the model that it has trained, or a later one: an   *)
(* old pipeline does not bring an older model than its own into service.   *)
THEOREM PipelinesPromoteTheirOwn == Spec => PipelinePromotesOwnOrNewer
<1>1. Init => OwnInv
  BY DEF Init, OwnInv
<1>2. PromotionInv /\ OwnInv /\ [Next]_promotionVars =>
         [\A p \in Pipelines : PipelineSets(p) =>
             \E i \in Owned(p, "catboost") : runs[i].state = "finished" /\ i <= champion']_promotionVars
  <2> SUFFICES ASSUME PromotionInv, OwnInv, [Next]_promotionVars, NEW p \in Pipelines, PipelineSets(p)
               PROVE  \E i \in Owned(p, "catboost") : runs[i].state = "finished" /\ i <= champion'
    OBVIOUS
  <2>1. pipeline[p].at = "set" /\ pipeline'[p].at = "done"
    BY DEF PipelineSets
  <2>2. ~ PipelineFails(p)
    BY <2>1, Types DEF PromotionInv, PipelineFails, PipelineGoes, PipelineRecords
  <2>3. \A q \in Pipelines \ {p} :
           ~ SelectBest(q) /\ ~ PromoteSearch(q) /\ ~ PromoteSet(q) /\ ~ PipelineFails(q)
    BY <2>1, Types DEF PromotionInv, SelectBest, PromoteSearch, PromoteSet, PipelineFails, PipelineGoes
  <2>4. PromoteSet(p)
    <3>1. ~ UNCHANGED pipeline /\ ~ SelectBest(p) /\ ~ PromoteSearch(p)
      BY <2>1 DEF SelectBest, PromoteSearch
    <3> QED
      BY <2>2, <2>3, <3>1
      DEF Next, StartJob, StartTraining, StartRun, Register, Finish, RunFails, ReadChampion,
          Evaluate, HumanApproves, CheckChampion, SetChampion, ReviewEnds, promotionVars
  <2> QED
    BY <2>4 DEF OwnInv, PromoteSet, SetAlias
<1> QED
  BY <1>1, <1>2, OwnStep, PromotionInvariant, PTL DEF Spec, PipelinePromotesOwnOrNewer
=============================================================================
