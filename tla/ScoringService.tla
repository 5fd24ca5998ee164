--------------------------- MODULE ScoringService ---------------------------
(***************************************************************************)
(* POST /score of the scoring API (services/api/main.py): requests are     *)
(* served by threads of one process, so their steps interleave; each       *)
(* commits one row to scoring_logs before it is answered, and moves the    *)
(* counters and gauges of the process one at a time.  A restart of the     *)
(* process loses what is in flight and begins the metrics anew.            *)
(*                                                                         *)
(* A request stands for its application and for all that is computed from  *)
(* it: a counter is the set of the requests it counted, a gauge the        *)
(* request whose value it shows.                                           *)
(***************************************************************************)
EXTENDS Naturals, FiniteSets

CONSTANTS
    Requests,
    NoRequest,
    Restarts    \* bound: restarts of the process

ASSUME ScoringAssumption == NoRequest \notin Requests /\ Restarts \in Nat

VARIABLES
    step,       \* step[r]: what the thread of r does next, or how r ended
    logs,       \* the requests with a committed row in scoring_logs
    requested,  \* SCORING_REQUESTS_TOTAL
    decided,    \* SCORING_DECISION_TOTAL
    graded,     \* SCORING_RISK_LEVEL_TOTAL
    errors,     \* SCORING_ERRORS_TOTAL
    gauge,      \* DEFAULT_PROBABILITY and CREDIT_SCORE
    crossed,    \* history: two requests of this process were in flight at once
    restarts

vars == <<step, logs, requested, decided, graded, errors, gauge, crossed, restarts>>

Ended == {"answered", "error", "lost"}
Steps == {"new", "predict", "save", "refresh", "probability", "score", "decide", "grade"} \cup Ended

InFlight == {r \in Requests : step[r] \notin {"new"} \cup Ended}

TypeOK ==
    /\ step \in [Requests -> Steps]
    /\ logs \subseteq Requests
    /\ requested \subseteq Requests /\ decided \subseteq Requests
    /\ graded \subseteq Requests /\ errors \subseteq Requests
    /\ gauge \in [{"probability", "score"} -> Requests \cup {NoRequest}]
    /\ crossed \in BOOLEAN
    /\ restarts \in 0..Restarts

NewProcess ==
    /\ requested' = {} /\ decided' = {} /\ graded' = {} /\ errors' = {}
    /\ gauge' = [g \in {"probability", "score"} |-> NoRequest]
    /\ crossed' = FALSE

Init ==
    /\ step = [r \in Requests |-> "new"]
    /\ logs = {}
    /\ requested = {} /\ decided = {} /\ graded = {} /\ errors = {}
    /\ gauge = [g \in {"probability", "score"} |-> NoRequest]
    /\ crossed = FALSE
    /\ restarts = 0

----------------------------------------------------------------------------
Become(r, s) == step' = [step EXCEPT ![r] = s]

SlipRaiseAsFailed(r) == errors' = errors \cup {r} /\ Become(r, "failed")

(* except Exception: the request is counted as an error and raised. *)
Raise(r) == errors' = errors \cup {r} /\ Become(r, "error")

Receive(r) ==
    /\ step[r] = "new"
    /\ requested' = requested \cup {r}
    /\ crossed' = (crossed \/ InFlight # {})
    /\ Become(r, "predict")
    /\ UNCHANGED <<logs, decided, graded, errors, gauge, restarts>>

SlipGaugeAtOnce(r) ==
    /\ step[r] = "predict"
    /\ gauge' = [gauge EXCEPT !["probability"] = r]
    /\ \/ Become(r, "save") /\ UNCHANGED errors
       \/ Raise(r)
    /\ UNCHANGED <<logs, requested, decided, graded, crossed, restarts>>

(* The features, the probability, its reasons, score, level and decision. *)
Predict(r) ==
    /\ step[r] = "predict"
    /\ \/ Become(r, "save") /\ UNCHANGED errors
       \/ Raise(r)
    /\ UNCHANGED <<logs, requested, decided, graded, gauge, crossed, restarts>>

SlipScoreAnyway(r) ==
    /\ step[r] = "save"
    /\ \/ logs' = logs \cup {r} /\ Become(r, "refresh")
       \/ UNCHANGED logs /\ Become(r, "probability")
    /\ UNCHANGED <<requested, decided, graded, errors, gauge, crossed, restarts>>

(* save_scoring_log commits the row; a commit that raises may have done so. *)
Save(r) ==
    /\ step[r] = "save"
    /\ \/ logs' = logs \cup {r} /\ Become(r, "refresh") /\ UNCHANGED errors
       \/ logs' \in {logs, logs \cup {r}} /\ Raise(r)
    /\ UNCHANGED <<requested, decided, graded, gauge, crossed, restarts>>

(* db.refresh reads the row back, and may fail. *)
Refresh(r) ==
    /\ step[r] = "refresh"
    /\ \/ Become(r, "probability") /\ UNCHANGED errors
       \/ Raise(r)
    /\ UNCHANGED <<logs, requested, decided, graded, gauge, crossed, restarts>>

SetGauge(r, g, next) ==
    /\ step[r] = g
    /\ gauge' = [gauge EXCEPT ![g] = r]
    /\ Become(r, next)
    /\ UNCHANGED <<logs, requested, decided, graded, errors, crossed, restarts>>

CountDecision(r) ==
    /\ step[r] = "decide"
    /\ decided' = decided \cup {r}
    /\ Become(r, "grade")
    /\ UNCHANGED <<logs, requested, graded, errors, gauge, crossed, restarts>>

CountRiskLevel(r) ==
    /\ step[r] = "grade"
    /\ graded' = graded \cup {r}
    /\ Become(r, "answered")
    /\ UNCHANGED <<logs, requested, decided, errors, gauge, crossed, restarts>>

Score(r) ==
    \/ Receive(r) \/ Predict(r) \/ Save(r) \/ Refresh(r)
    \/ SetGauge(r, "probability", "score") \/ SetGauge(r, "score", "decide")
    \/ CountDecision(r) \/ CountRiskLevel(r)

(* The process dies and is started again. *)
Restart ==
    /\ restarts < Restarts
    /\ restarts' = restarts + 1
    /\ step' = [r \in Requests |-> IF r \in InFlight THEN "lost" ELSE step[r]]
    /\ NewProcess
    /\ UNCHANGED logs

Next == (\E r \in Requests : Score(r)) \/ Restart

Spec == Init /\ [][Next]_vars

----------------------------------------------------------------------------
(* Properties                                                              *)

(* Whoever was told a decision finds it in scoring_logs, over failing      *)
(* commits and restarts, and nothing is logged that was not being scored.  *)
(* The counters of a process add up whatever the order of its threads: a   *)
(* request is a decision, an error or in flight, and never two of them; a  *)
(* decision has its row, and its risk level as soon as it is answered.     *)
RequestsAreAccountedFor ==
    /\ \A r \in Requests : step[r] = "answered" => r \in logs
    /\ \A r \in logs : step[r] \notin {"new", "predict", "save"}
    /\ requested \ (decided \cup errors) = {r \in InFlight : step[r] # "grade"}
    /\ decided \cap errors = {}
    /\ decided \cup errors \subseteq requested
    /\ graded \subseteq decided /\ decided \ graded = {r \in InFlight : step[r] = "grade"}
    /\ decided \subseteq logs

(* Probability and score on the dashboard belong to one application unless *)
(* requests were served at the same time: then they may stay apart.        *)
GaugesAgree ==
    ~crossed /\ InFlight = {} => gauge["probability"] = gauge["score"]
=============================================================================
