------------------------ MODULE ScoringServiceProofs ------------------------
(***************************************************************************)
(* Theorems about ScoringService, for any number of requests and restarts. *)
(***************************************************************************)
EXTENDS ScoringService, TLAPS

LEMMA NoGauges ==
    [g \in {"probability", "score"} |-> NoRequest]
        \in [{"probability", "score"} -> Requests \cup {NoRequest}]
OBVIOUS

LEMMA InitTypes == Init => TypeOK
<1> SUFFICES ASSUME Init PROVE TypeOK
  OBVIOUS
<1>1. step \in [Requests -> Steps]
  BY DEF Init, Steps
<1>2. gauge \in [{"probability", "score"} -> Requests \cup {NoRequest}]
  BY NoGauges DEF Init
<1>3. restarts \in 0..Restarts
  BY ScoringAssumption DEF Init, ScoringAssumption
<1> QED
  BY <1>1, <1>2, <1>3 DEF Init, TypeOK

LEMMA NextTypes == TypeOK /\ [Next]_vars => TypeOK'
<1> SUFFICES ASSUME TypeOK, [Next]_vars PROVE TypeOK'
  OBVIOUS
<1> USE ScoringAssumption DEF TypeOK, Steps, Ended
<1>1. ASSUME NEW r \in Requests, Receive(r) PROVE TypeOK'
  BY <1>1 DEF Receive, Become
<1>2. ASSUME NEW r \in Requests, Predict(r) PROVE TypeOK'
  BY <1>2 DEF Predict, Raise, Become
<1>3. ASSUME NEW r \in Requests, Save(r) PROVE TypeOK'
  BY <1>3 DEF Save, Raise, Become
<1>4. ASSUME NEW r \in Requests, Refresh(r) PROVE TypeOK'
  BY <1>4 DEF Refresh, Raise, Become
<1>5. ASSUME NEW r \in Requests, SetGauge(r, "probability", "score") PROVE TypeOK'
  BY <1>5 DEF SetGauge, Become
<1>6. ASSUME NEW r \in Requests, SetGauge(r, "score", "decide") PROVE TypeOK'
  BY <1>6 DEF SetGauge, Become
<1>7. ASSUME NEW r \in Requests, CountDecision(r) PROVE TypeOK'
  BY <1>7 DEF CountDecision, Become
<1>8. ASSUME NEW r \in Requests, CountRiskLevel(r) PROVE TypeOK'
  BY <1>8 DEF CountRiskLevel, Become
<1>9. CASE Restart
  <2>1. step' \in [Requests -> Steps]
    BY <1>9 DEF Restart
  <2>2. gauge' \in [{"probability", "score"} -> Requests \cup {NoRequest}]
    BY <1>9, NoGauges DEF Restart, NewProcess
  <2>3. restarts' \in 0..Restarts
    BY <1>9 DEF Restart, ScoringAssumption
  <2> QED
    BY <1>9, <2>1, <2>2, <2>3 DEF Restart, NewProcess
<1>10. CASE UNCHANGED vars
  BY <1>10 DEF vars
<1> QED
  BY <1>1, <1>2, <1>3, <1>4, <1>5, <1>6, <1>7, <1>8, <1>9, <1>10 DEF Next, Score

(* Every variable has its type, in every run of the service. *)
THEOREM TypeCorrect == Spec => []TypeOK
BY InitTypes, NextTypes, PTL DEF Spec

----------------------------------------------------------------------------
(* Requests.  A request that is past its commit has its row, and one that  *)
(* a counter of this process has seen has begun.                           *)

Logged == {"refresh", "probability", "score", "decide", "grade", "answered"}

AccountInv ==
    /\ RequestsAreAccountedFor
    /\ \A r \in Requests : step[r] \in Logged => r \in logs
    /\ \A r \in requested : step[r] # "new"

LEMMA NextAccounts == TypeOK /\ AccountInv /\ [Next]_vars => AccountInv'
<1> SUFFICES ASSUME TypeOK, AccountInv, [Next]_vars PROVE AccountInv'
  OBVIOUS
<1> USE DEF TypeOK, AccountInv, RequestsAreAccountedFor, InFlight, Ended, Steps, Logged
<1>1. ASSUME NEW r \in Requests, Receive(r) PROVE AccountInv'
  BY <1>1 DEF Receive, Become
<1>2. ASSUME NEW r \in Requests, Predict(r) PROVE AccountInv'
  BY <1>2 DEF Predict, Raise, Become
<1>3. ASSUME NEW r \in Requests, Save(r) PROVE AccountInv'
  BY <1>3 DEF Save, Raise, Become
<1>4. ASSUME NEW r \in Requests, Refresh(r) PROVE AccountInv'
  BY <1>4 DEF Refresh, Raise, Become
<1>5. ASSUME NEW r \in Requests, SetGauge(r, "probability", "score") PROVE AccountInv'
  BY <1>5 DEF SetGauge, Become
<1>6. ASSUME NEW r \in Requests, SetGauge(r, "score", "decide") PROVE AccountInv'
  BY <1>6 DEF SetGauge, Become
<1>7. ASSUME NEW r \in Requests, CountDecision(r) PROVE AccountInv'
  BY <1>7 DEF CountDecision, Become
<1>8. ASSUME NEW r \in Requests, CountRiskLevel(r) PROVE AccountInv'
  BY <1>8 DEF CountRiskLevel, Become
<1>9. CASE Restart
  BY <1>9 DEF Restart, NewProcess
<1>10. CASE UNCHANGED vars
  BY <1>10 DEF vars
<1> QED
  BY <1>1, <1>2, <1>3, <1>4, <1>5, <1>6, <1>7, <1>8, <1>9, <1>10 DEF Next, Score

(* Answers have their rows, and the counters of a process add up, over     *)
(* every interleaving of requests, failing commit and restart.             *)
THEOREM NoRequestIsMiscounted == Spec => []RequestsAreAccountedFor
<1>1. Init => AccountInv
  BY DEF Init, AccountInv, RequestsAreAccountedFor, InFlight, Ended, Logged
<1>2. AccountInv => RequestsAreAccountedFor
  BY DEF AccountInv
<1> QED
  BY <1>1, <1>2, TypeCorrect, NextAccounts, PTL DEF Spec

----------------------------------------------------------------------------
(* Gauges.  While requests come one at a time, the gauges differ only      *)
(* between the two steps of the one request in flight.                     *)

GaugeInv ==
    ~crossed =>
        /\ \A r, q \in InFlight : r = q
        /\ \A r \in Requests : step[r] = "score" => gauge["probability"] = r
        /\ (\A r \in Requests : step[r] # "score") => gauge["probability"] = gauge["score"]

LEMMA NextGauges == TypeOK /\ GaugeInv /\ [Next]_vars => GaugeInv'
<1> SUFFICES ASSUME TypeOK, GaugeInv, [Next]_vars PROVE GaugeInv'
  OBVIOUS
<1> USE DEF TypeOK, GaugeInv, InFlight, Ended, Steps
<1>1. ASSUME NEW r \in Requests, Receive(r) PROVE GaugeInv'
  BY <1>1 DEF Receive, Become
<1>2. ASSUME NEW r \in Requests, Predict(r) PROVE GaugeInv'
  BY <1>2 DEF Predict, Raise, Become
<1>3. ASSUME NEW r \in Requests, Save(r) PROVE GaugeInv'
  BY <1>3 DEF Save, Raise, Become
<1>4. ASSUME NEW r \in Requests, Refresh(r) PROVE GaugeInv'
  BY <1>4 DEF Refresh, Raise, Become
<1>5. ASSUME NEW r \in Requests, SetGauge(r, "probability", "score") PROVE GaugeInv'
  BY <1>5 DEF SetGauge, Become
<1>6. ASSUME NEW r \in Requests, SetGauge(r, "score", "decide") PROVE GaugeInv'
  BY <1>6 DEF SetGauge, Become
<1>7. ASSUME NEW r \in Requests, CountDecision(r) PROVE GaugeInv'
  BY <1>7 DEF CountDecision, Become
<1>8. ASSUME NEW r \in Requests, CountRiskLevel(r) PROVE GaugeInv'
  BY <1>8 DEF CountRiskLevel, Become
<1>9. CASE Restart
  BY <1>9 DEF Restart, NewProcess
<1>10. CASE UNCHANGED vars
  BY <1>10 DEF vars
<1> QED
  BY <1>1, <1>2, <1>3, <1>4, <1>5, <1>6, <1>7, <1>8, <1>9, <1>10 DEF Next, Score

(* Both gauges show one application unless requests were served together. *)
THEOREM GaugesShowOneApplication == Spec => []GaugesAgree
<1>1. Init => GaugeInv
  BY DEF Init, GaugeInv, InFlight, Ended
<1>2. GaugeInv => GaugesAgree
  BY DEF GaugeInv, GaugesAgree, InFlight, Ended
<1> QED
  BY <1>1, <1>2, TypeCorrect, NextGauges, PTL DEF Spec
=============================================================================
