---------------------- MODULE ApprovalExecutionProofs ----------------------
(***************************************************************************)
(* Proofs about ApprovalExecution, for any sets of approvals, clients and  *)
(* workers, any lease and any bound on crashes.                            *)
(***************************************************************************)
EXTENDS ApprovalExecution, TLAPS

----------------------------------------------------------------------------
(* Types.  First what each building block of the handlers does to the type *)
(* of its own variables.                                                   *)

(* The idle caller is a well-typed caller. *)
LEMMA IdleTyped == Idle \in Calls
<1>1. 0 \in 0..MaxHold
  BY CallersAssumption
<1>. QED
  BY <1>1 DEF Idle, Calls, Steps, Statuses, Results

(* Entering a handler keeps the callers' type. *)
LEMMA EnterTyped ==
  ASSUME NEW p \in Callers, NEW a \in Approvals, NEW step \in Steps,
         CallTypeOK, Enter(p, a, step)
  PROVE  CallTypeOK'
<1>1. [Idle EXCEPT !.at = step, !.on = a] \in Calls
  BY IdleTyped DEF Idle, Calls
<1>. QED
  BY <1>1 DEF CallTypeOK, Enter, Idle

(* Going on inside a handler keeps the callers' type. *)
LEMMA GotoTyped ==
  ASSUME NEW p \in Callers, NEW step \in Steps \ {"idle"},
         CallTypeOK, call[p].at # "idle", Goto(p, step)
  PROVE  CallTypeOK'
BY DEF CallTypeOK, Goto, Calls

(* So does going on with an answer of kubectl. *)
LEMMA GotoWithTyped ==
  ASSUME NEW p \in Callers, NEW step \in Steps \ {"idle"}, NEW result \in Results,
         CallTypeOK, call[p].at # "idle", GotoWith(p, step, result)
  PROVE  CallTypeOK'
<1>1. call' = [call EXCEPT ![p] = [call[p] EXCEPT !.at = step, !.result = result]]
  BY DEF GotoWith, CallTypeOK, Calls
<1>. QED
  BY <1>1 DEF CallTypeOK, Calls

(* So does going on without the ownership. *)
LEMMA ReleaseTyped ==
  ASSUME NEW p \in Callers, NEW step \in Steps \ {"idle"},
         CallTypeOK, call[p].at # "idle", Release(p, step)
  PROVE  CallTypeOK'
<1>1. call' = [call EXCEPT ![p] = [call[p] EXCEPT !.at = step, !.held = 0]]
  BY DEF Release, CallTypeOK, Calls
<1>2. 0 \in 0..MaxHold
  BY CallersAssumption
<1>. QED
  BY <1>1, <1>2 DEF CallTypeOK, Calls

(* So does going on to report a row. *)
LEMMA ConcludeTyped ==
  ASSUME NEW p \in Callers, NEW step \in Steps \ {"idle"},
         NEW recovered \in Statuses \cup {"MISSING"},
         CallTypeOK, call[p].at # "idle", Conclude(p, step, recovered)
  PROVE  CallTypeOK'
<1>1. call' = [call EXCEPT ![p] = [call[p] EXCEPT !.at = step, !.seen = recovered, !.held = 0]]
  BY DEF Conclude, CallTypeOK, Calls
<1>2. 0 \in 0..MaxHold
  BY CallersAssumption
<1>. QED
  BY <1>1, <1>2 DEF CallTypeOK, Calls

(* So does leaving a handler. *)
LEMMA ReturnTyped ==
  ASSUME NEW p \in Callers, CallTypeOK, Return(p)
  PROVE  CallTypeOK'
BY IdleTyped DEF CallTypeOK, Return, Idle

(* An apply keeps the cluster's type, whatever its result. *)
LEMMA ApplyTyped ==
  ASSUME NEW a \in Approvals, NEW result, ClusterTypeOK, ApplyTrainingJob(a, result)
  PROVE  ClusterTypeOK'
<1>1. ASSUME Apply(a), UNCHANGED inflight
      PROVE  ClusterTypeOK'
  BY <1>1 DEF Apply, ClusterTypeOK, JobStates
<1>. QED
  BY <1>1 DEF ApplyTrainingJob, ClusterTypeOK, JobStates, clusterVars

(* A mark writes a status of the enum. *)
LEMMA MarkTyped ==
  ASSUME NEW a \in Approvals, NEW target \in Statuses, StoreTypeOK, Mark(a, target)
  PROVE  StoreTypeOK'
BY DEF Mark, MarkUnknown, MarkSettled, Transition, StoreTypeOK

(* A step that only records keeps every type. *)
LEMMA ReportTyped ==
  ASSUME NEW p \in Callers, NEW from \in Steps \ {"idle"}, NEW event \in Events,
         NEW step \in Steps \ {"idle"}, TypeOK,
         Report(p, from, event, step) \/ ReportAndReturn(p, from, event)
  PROVE  TypeOK'
<1>1. StoreTypeOK' /\ ClusterTypeOK' /\ (crashes \in 0..MaxCrashes)'
  BY DEF Report, ReportAndReturn, TypeOK, StoreTypeOK, ClusterTypeOK, storeVars, clusterVars
<1>2. AuditTypeOK'
  BY DEF Report, ReportAndReturn, Record, TypeOK, AuditTypeOK
<1>3. CallTypeOK'
  BY GotoTyped, ReturnTyped DEF Report, ReportAndReturn, TypeOK
<1>. QED
  BY <1>1, <1>2, <1>3 DEF TypeOK

(* A step that marks, or whose mark raises, keeps every type. *)
LEMMA MarkStepTyped ==
  ASSUME NEW p \in Callers, NEW target \in Statuses, TypeOK, call[p].at # "idle",
         \/ Mark(call[p].on, target)
         \/ UNCHANGED storeVars,
         \/ Return(p)
         \/ \E step \in Steps \ {"idle"} :
               \/ Release(p, step)
               \/ \E recovered \in Statuses \cup {"MISSING"} : Conclude(p, step, recovered),
         UNCHANGED <<audit, clusterVars, crashes>>
  PROVE  TypeOK'
<1>1. StoreTypeOK'
  BY MarkTyped DEF TypeOK, StoreTypeOK, storeVars, CallTypeOK
<1>2. AuditTypeOK' /\ ClusterTypeOK' /\ (crashes \in 0..MaxCrashes)'
  BY DEF TypeOK, AuditTypeOK, ClusterTypeOK, clusterVars
<1>3. CallTypeOK'
  BY ReturnTyped, ReleaseTyped, ConcludeTyped DEF TypeOK
<1>. QED
  BY <1>1, <1>2, <1>3 DEF TypeOK

(* A kubectl call keeps every type. *)
LEMMA KubectlStepTyped ==
  ASSUME NEW p \in Callers, NEW step \in Steps \ {"idle"}, NEW result \in Results,
         TypeOK, call[p].at # "idle",
         ApplyTrainingJob(call[p].on, result) \/ UNCHANGED clusterVars,
         GotoWith(p, step, result) \/ Return(p),
         UNCHANGED <<storeVars, audit, crashes>>
  PROVE  TypeOK'
<1>1. StoreTypeOK' /\ AuditTypeOK' /\ (crashes \in 0..MaxCrashes)'
  BY DEF TypeOK, StoreTypeOK, AuditTypeOK, storeVars
<1>2. ClusterTypeOK'
  BY ApplyTyped DEF TypeOK, ClusterTypeOK, clusterVars, CallTypeOK
<1>3. CallTypeOK'
  BY GotoWithTyped, ReturnTyped DEF TypeOK
<1>. QED
  BY <1>1, <1>2, <1>3 DEF TypeOK

(* Beginning a handler keeps every type. *)
LEMMA StartTyped ==
  ASSUME NEW p \in Callers, NEW a \in Approvals, TypeOK, ClientStarts(p, a)
  PROVE  TypeOK'
<1>. USE DEF TypeOK
<1>1. AuditTypeOK' /\ ClusterTypeOK' /\ (crashes \in 0..MaxCrashes)'
  BY DEF ClientStarts, CreateApproval, DecideApproval, ExecuteClaim, RetryClaim,
         ReconcileStart, AuditTypeOK, ClusterTypeOK, clusterVars
<1>2. CASE CreateApproval(p, a)
  <2>1. StoreTypeOK'
    BY <1>2 DEF CreateApproval, Create, StoreTypeOK, Statuses
  <2>2. CallTypeOK'
    BY <1>2, EnterTyped DEF CreateApproval, Steps
  <2>. QED
    BY <1>1, <2>1, <2>2
<1>3. CASE DecideApproval(p, a)
  <2>1. StoreTypeOK'
    BY <1>3 DEF DecideApproval, Decide, Transition, StoreTypeOK, Statuses
  <2>2. CallTypeOK'
    BY <1>3, EnterTyped DEF DecideApproval, Steps
  <2>. QED
    BY <1>1, <2>1, <2>2
<1>4. CASE ExecuteClaim(p, a)
  <2>1. StoreTypeOK'
    BY <1>4, LeaseAssumption
    DEF ExecuteClaim, ClaimExecution, Transition, StoreTypeOK, Statuses
  <2>2. CallTypeOK'
    BY <1>4, EnterTyped DEF ExecuteClaim, Steps, ExecuteSteps
  <2>. QED
    BY <1>1, <2>1, <2>2
<1>5. CASE RetryClaim(p, a)
  <2>1. StoreTypeOK'
    BY <1>5, LeaseAssumption DEF RetryClaim, ClaimRetryExecution, StoreTypeOK, Statuses
  <2>2. CallTypeOK'
    BY <1>5, EnterTyped DEF RetryClaim, Steps, RetrySteps
  <2>. QED
    BY <1>1, <2>1, <2>2
<1>6. CASE ReconcileStart(p, a)
  <2>1. StoreTypeOK'
    BY <1>6 DEF ReconcileStart, StoreTypeOK, storeVars
  <2>2. [Idle EXCEPT !.at = "reconcile_started", !.on = a, !.seen = status[a]] \in Calls
    BY <1>6, IdleTyped DEF ReconcileStart, Idle, Calls, Steps, ReconcileSteps, Statuses
  <2>3. CallTypeOK'
    BY <1>6, <2>2 DEF ReconcileStart, CallTypeOK, Idle
  <2>. QED
    BY <1>1, <2>1, <2>3
<1>. QED
  BY <1>2, <1>3, <1>4, <1>5, <1>6 DEF ClientStarts

(* Going on with a handler keeps every type. *)
LEMMA ProceedTyped ==
  ASSUME NEW p \in Callers, TypeOK, Proceed(p)
  PROVE  TypeOK'
<1>. DEFINE Inner == Steps \ {"idle"}
<1>1. /\ {"create_report", "decide_report"} \subseteq Inner
      /\ ExecuteSteps \subseteq Inner
      /\ RetrySteps \subseteq Inner
      /\ ReconcileSteps \subseteq Inner
  BY DEF Steps, ExecuteSteps, RetrySteps, ReconcileSteps
<1>2. ApplyResults \subseteq Results /\ StatusResults \subseteq Results
  BY DEF Results
<1>3. CASE ReportCreated(p) \/ ReportDecided(p)
  BY <1>1, <1>3, ReportTyped DEF ReportCreated, ReportDecided, Events
<1>4. CASE ExecuteStarted(p)
  BY <1>1, <1>4, ReportTyped DEF ExecuteStarted, ExecuteSteps, Events
<1>5. CASE ExecuteReport(p)
  <2>1. OutcomeEvent(call[p].result) \in Events
    BY DEF OutcomeEvent, Events
  <2>. QED
    BY <1>1, <1>5, <2>1, ReportTyped DEF ExecuteReport, ExecuteSteps
<1>6. CASE RetryStarted(p) \/ RetryAnnounce(p)
  BY <1>1, <1>6, ReportTyped DEF RetryStarted, RetryAnnounce, RetrySteps, Events
<1>7. CASE ReconcileStarted(p) \/ ReconcileStale(p) \/ ReconcileReport(p)
  BY <1>1, <1>7, ReportTyped
  DEF ReconcileStarted, ReconcileStale, ReconcileReport, ReconcileSteps, Reconciled, Events
<1>8. CASE ExecuteApply(p) \/ RetryApply(p)
  BY <1>1, <1>2, <1>8, KubectlStepTyped
  DEF ExecuteApply, RetryApply, ExecuteSteps, RetrySteps
<1>9. CASE RetryCheck(p) \/ ReconcileCheck(p)
  BY <1>1, <1>2, <1>9, KubectlStepTyped
  DEF RetryCheck, ReconcileCheck, RetrySteps, ReconcileSteps, clusterVars
<1>10. CASE ExecuteMark(p)
  <2>1. ExecuteOutcome(call[p].result) \in Statuses
    BY DEF ExecuteOutcome, Statuses
  <2>. QED
    BY <1>1, <1>10, <2>1, MarkStepTyped DEF ExecuteMark, MarkOrRaise, ExecuteSteps
<1>11. CASE RetryResolve(p)
  BY <1>1, <1>11, MarkStepTyped
  DEF RetryResolve, MarkOrRaise, ReconcileSteps, Statuses
<1>12. CASE RetryMark(p)
  <2>1. RetryOutcome(call[p].result) \in Statuses
    BY DEF RetryOutcome, Statuses
  <2>. QED
    BY <1>1, <1>12, <2>1, MarkStepTyped DEF RetryMark, MarkOrRaise
<1>13. CASE ReconcileResolve(p)
  <2>1. {"reconcile_stale", "reconcile_report"} \subseteq Inner
    BY <1>1 DEF ReconcileSteps
  <2>2. CASE RecoverStaleExecution(call[p].on) /\ Conclude(p, "reconcile_stale", "UNKNOWN")
    <3>1. StoreTypeOK'
      BY <2>2 DEF RecoverStaleExecution, TypeOK, StoreTypeOK, Statuses
    <3>2. CallTypeOK'
      BY <1>13, <2>1, <2>2, ConcludeTyped DEF ReconcileResolve, TypeOK, Statuses
    <3>. QED
      BY <1>13, <3>1, <3>2
      DEF ReconcileResolve, TypeOK, AuditTypeOK, ClusterTypeOK, clusterVars
  <2>3. CASE ~(RecoverStaleExecution(call[p].on) /\ Conclude(p, "reconcile_stale", "UNKNOWN"))
    <3>1. status[call[p].on] \in Statuses \cup {"MISSING"}
      BY <1>13 DEF ReconcileResolve, TypeOK, StoreTypeOK, CallTypeOK
    <3>. QED
      BY <1>13, <2>1, <2>3, <3>1, MarkStepTyped DEF ReconcileResolve, MarkOrRaise, Statuses
  <2>. QED
    BY <2>2, <2>3
<1>. QED
  BY <1>3, <1>4, <1>5, <1>6, <1>7, <1>8, <1>9, <1>10, <1>11, <1>12, <1>13 DEF Proceed

(* A caller's death, the clock and the cluster keep every type. *)
LEMMA CrashTyped ==
  ASSUME NEW p \in Callers, TypeOK, Crash(p)
  PROVE  TypeOK'
<1>1. CallTypeOK'
  BY ReturnTyped DEF Crash, TypeOK
<1>2. (crashes \in 0..MaxCrashes)'
  BY CallersAssumption DEF Crash, TypeOK
<1>. QED
  BY <1>1, <1>2
  DEF Crash, TypeOK, StoreTypeOK, AuditTypeOK, ClusterTypeOK, storeVars, clusterVars

LEMMA TickTyped ==
  ASSUME TypeOK, Tick
  PROVE  TypeOK'
<1>1. StoreTypeOK'
  BY LeaseAssumption DEF Tick, Ageing, TypeOK, StoreTypeOK
<1>2. CallTypeOK'
  BY CallersAssumption DEF Tick, TypeOK, CallTypeOK, Calls, Owning
<1>. QED
  BY <1>1, <1>2 DEF Tick, TypeOK, AuditTypeOK, ClusterTypeOK, clusterVars

LEMMA ClusterTyped ==
  ASSUME NEW a \in Approvals, TypeOK, ClusterStep(a)
  PROVE  TypeOK'
<1>1. StoreTypeOK' /\ AuditTypeOK' /\ CallTypeOK' /\ (crashes \in 0..MaxCrashes)'
  BY DEF ClusterStep, TypeOK, StoreTypeOK, AuditTypeOK, CallTypeOK, Callers, storeVars
<1>2. ClusterTypeOK'
  <2>1. CASE Arrive(a)
    BY <2>1 DEF Arrive, Apply, TypeOK, ClusterTypeOK, JobStates
  <2>2. CASE PodFails(a) \/ JobCompletes(a) \/ Expire(a)
    BY <2>2 DEF PodFails, JobCompletes, Expire, Progress, TypeOK, ClusterTypeOK, JobStates
  <2>. QED
    BY <2>1, <2>2 DEF ClusterStep
<1>. QED
  BY <1>1, <1>2 DEF TypeOK

(* The initial state is well typed. *)
LEMMA InitTyped == Init => TypeOK
<1>1. Idle \in Calls
  BY IdleTyped
<1>2. 0 \in 0..Lease /\ 0 \in 0..MaxCrashes
  BY LeaseAssumption, CallersAssumption
<1>. QED
  BY <1>1, <1>2
  DEF Init, TypeOK, StoreInit, StoreTypeOK, AuditInit, AuditTypeOK, ClusterInit,
      ClusterTypeOK, CallTypeOK, Idle, JobStates

(* Every variable keeps its type: rows hold a status of the ApprovalStatus *)
(* enum, a caller inside a handler works on an approval, and no owner's    *)
(* hold exceeds MaxHold.                                                   *)
THEOREM TypeCorrect == Spec => []TypeOK
<1>1. TypeOK /\ [Next]_vars => TypeOK'
  <2> SUFFICES ASSUME TypeOK, [Next]_vars
               PROVE  TypeOK'
    OBVIOUS
  <2>1. CASE UNCHANGED vars
    BY <2>1 DEF vars, TypeOK, StoreTypeOK, AuditTypeOK, ClusterTypeOK, CallTypeOK
  <2>2. CASE Next
    BY <2>2, StartTyped, ProceedTyped, CrashTyped, TickTyped, ClusterTyped
    DEF Next, Callers, ClientStarts
  <2>. QED
    BY <2>1, <2>2
<1>. QED
  BY <1>1, InitTyped, PTL DEF Spec

----------------------------------------------------------------------------
(* How a step can change rows and owners. *)

(* The steps that leave the approval table alone. *)
LEMMA StoreFrame ==
  ASSUME NEW p \in Callers,
         \/ ReportCreated(p) \/ ReportDecided(p)
         \/ ExecuteStarted(p) \/ ExecuteApply(p) \/ ExecuteReport(p)
         \/ RetryStarted(p) \/ RetryCheck(p) \/ RetryAnnounce(p) \/ RetryApply(p)
         \/ ReconcileStarted(p) \/ ReconcileCheck(p) \/ ReconcileStale(p) \/ ReconcileReport(p)
         \/ Crash(p)
  PROVE  UNCHANGED storeVars
BY DEF ReportCreated, ReportDecided, ExecuteStarted, ExecuteApply, ExecuteReport,
       RetryStarted, RetryCheck, RetryAnnounce, RetryApply, ReconcileStarted,
       ReconcileCheck, ReconcileStale, ReconcileReport, Crash, Report, ReportAndReturn

(* The moves a row can make: those of _TRANSITIONS, its insertion and the  *)
(* retry's claim, which bypasses the table.                                *)
Legal(from, to) ==
    \/ to = from
    \/ to \in Transitions(from)
    \/ from = "MISSING" /\ to = "PENDING"
    \/ from = "UNKNOWN" /\ to = "EXECUTING"

(* Row a makes the move to the given status, and the cluster stands still. *)
RowMoves(a, to) ==
    /\ Legal(status[a], to)
    /\ status' = [status EXCEPT ![a] = to]
    /\ UNCHANGED clusterVars

StandsStill == UNCHANGED status

LEMMA MarkIsLegal ==
  ASSUME NEW a \in Approvals, NEW target, TypeOK, Mark(a, target), UNCHANGED clusterVars
  PROVE  StandsStill \/ RowMoves(a, target)
BY DEF Mark, MarkUnknown, MarkSettled, Transition, Legal, RowMoves, StandsStill

(* A step moves one row or none, and never a row and a Job together.       *)
LEMMA OneRowMoves ==
  ASSUME TypeOK, [Next]_vars
  PROVE  StandsStill \/ \E a \in Approvals : \E to \in Statuses : RowMoves(a, to)
<1>. DEFINE Goal == StandsStill \/ \E a \in Approvals : \E to \in Statuses : RowMoves(a, to)
<1>1. UNCHANGED storeVars => Goal
  BY DEF StandsStill, storeVars
<1>2. ASSUME NEW p \in Callers, NEW a \in Approvals, ClientStarts(p, a)
      PROVE  Goal
  <2>1. CASE CreateApproval(p, a)
    <3>1. RowMoves(a, "PENDING")
      BY <2>1 DEF CreateApproval, Create, RowMoves, Legal
    <3>. QED
      BY <3>1 DEF Statuses
  <2>2. CASE DecideApproval(p, a)
    <3>1. RowMoves(a, "APPROVED") \/ RowMoves(a, "REJECTED")
      BY <2>2 DEF DecideApproval, Decide, Transition, RowMoves, Legal
    <3>. QED
      BY <3>1 DEF Statuses
  <2>3. CASE ExecuteClaim(p, a) \/ RetryClaim(p, a)
    <3>1. RowMoves(a, "EXECUTING")
      BY <2>3
      DEF ExecuteClaim, ClaimExecution, Transition, RetryClaim, ClaimRetryExecution,
          RowMoves, Legal
    <3>. QED
      BY <3>1 DEF Statuses
  <2>4. CASE ReconcileStart(p, a)
    BY <1>1, <2>4 DEF ReconcileStart
  <2>. QED
    BY <1>2, <2>1, <2>2, <2>3, <2>4 DEF ClientStarts
<1>3. ASSUME NEW p \in Callers, Proceed(p)
      PROVE  Goal
  <2>1. ASSUME NEW target \in {"UNKNOWN", "COMPLETED", "FAILED"}, call[p].at # "idle",
               Mark(call[p].on, target), UNCHANGED clusterVars
        PROVE  Goal
    BY <2>1, MarkIsLegal DEF TypeOK, CallTypeOK, Statuses
  <2>2. CASE ExecuteMark(p)
    <3>1. ExecuteOutcome(call[p].result) \in {"UNKNOWN", "COMPLETED", "FAILED"}
      BY DEF ExecuteOutcome
    <3>. QED
      BY <1>1, <2>1, <2>2, <3>1 DEF ExecuteMark, MarkOrRaise
  <2>3. CASE RetryMark(p)
    <3>1. RetryOutcome(call[p].result) \in {"UNKNOWN", "COMPLETED", "FAILED"}
      BY DEF RetryOutcome
    <3>. QED
      BY <1>1, <2>1, <2>3, <3>1 DEF RetryMark, MarkOrRaise
  <2>4. CASE RetryResolve(p)
    BY <1>1, <2>1, <2>4 DEF RetryResolve, MarkOrRaise
  <2>5. CASE ReconcileResolve(p)
    <3>1. PICK a \in Approvals : a = call[p].on
      BY <2>5 DEF ReconcileResolve, TypeOK, CallTypeOK
    <3>2. RecoverStaleExecution(a) /\ UNCHANGED clusterVars => RowMoves(a, "UNKNOWN")
      BY DEF RecoverStaleExecution, Stale, RowMoves, Legal, Transitions
    <3>. QED
      BY <1>1, <2>1, <2>5, <3>1, <3>2 DEF ReconcileResolve, MarkOrRaise, Statuses
  <2>. QED
    BY <1>1, <1>3, <2>2, <2>3, <2>4, <2>5, StoreFrame DEF Proceed
<1>4. ASSUME NEW p \in Callers, Crash(p)
      PROVE  Goal
  BY <1>1, <1>4, StoreFrame
<1>5. CASE Tick
  BY <1>5 DEF Tick, Ageing, StandsStill
<1>6. ASSUME NEW a \in Approvals, ClusterStep(a)
      PROVE  Goal
  BY <1>1, <1>6 DEF ClusterStep
<1>7. CASE UNCHANGED vars
  BY <1>1, <1>7 DEF vars, storeVars
<1>. QED
  BY <1>2, <1>3, <1>4, <1>5, <1>6, <1>7 DEF Next, Callers, ClientStarts

(* So every row makes a legal move or none. *)
LEMMA StatusMoves ==
  ASSUME TypeOK, [Next]_vars
  PROVE  \A b \in Approvals : Legal(status[b], status'[b])
BY OneRowMoves DEF RowMoves, StandsStill, Legal, TypeOK, StoreTypeOK

(* Ownership is only ever gained by a claim. *)
NoNewOwner ==
    \A q \in Callers, b \in Approvals :
        Owns(q, b)' => Owns(q, b) /\ call'[q].held = call[q].held

LEMMA OwnersOnlyLeave ==
  ASSUME NEW p \in Callers, TypeOK, Proceed(p) \/ Crash(p)
  PROVE  NoNewOwner
<1>. USE DEF NoNewOwner, Owns
<1>. DEFINE Outside == Steps \ OwnerSteps
<1>1. ASSUME Return(p)
      PROVE  NoNewOwner
  BY <1>1 DEF Return, Idle, OwnerSteps, ExecuteSteps, RetrySteps, TypeOK, CallTypeOK
<1>2. ASSUME NEW step \in Outside, NEW recovered,
             Goto(p, step) \/ Release(p, step) \/ Conclude(p, step, recovered)
      PROVE  NoNewOwner
  BY <1>2 DEF Goto, Release, Conclude, TypeOK, CallTypeOK, Calls
<1>3. ASSUME call[p].at \in OwnerSteps, NEW step, Goto(p, step)
      PROVE  NoNewOwner
  BY <1>3 DEF Goto, TypeOK, CallTypeOK, Calls
<1>4. ASSUME call[p].at \in OwnerSteps, NEW step, NEW result, GotoWith(p, step, result)
      PROVE  NoNewOwner
  BY <1>4 DEF GotoWith, TypeOK, CallTypeOK, Calls
<1>5. ASSUME NEW step \in Outside, NEW result, GotoWith(p, step, result)
      PROVE  NoNewOwner
  BY <1>5 DEF GotoWith, TypeOK, CallTypeOK, Calls
<1>6. {"execute_report", "reconcile_check", "reconcile_resolve", "reconcile_stale",
       "reconcile_report"} \subseteq Outside
  BY DEF Steps, OwnerSteps, ExecuteSteps, RetrySteps, ReconcileSteps
<1>7. {"execute_started", "execute_apply", "execute_mark", "retry_started", "retry_check",
       "retry_resolve", "retry_announce", "retry_apply", "retry_mark"} \subseteq OwnerSteps
  BY DEF OwnerSteps, ExecuteSteps, RetrySteps
<1>8. CASE ReportCreated(p) \/ ReportDecided(p) \/ ExecuteReport(p) \/ ReconcileReport(p) \/ Crash(p)
  BY <1>1, <1>8
  DEF ReportCreated, ReportDecided, ExecuteReport, ReconcileReport, ReportAndReturn, Crash
<1>9. CASE ExecuteStarted(p) \/ RetryStarted(p) \/ RetryAnnounce(p)
  BY <1>3, <1>7, <1>9 DEF ExecuteStarted, RetryStarted, RetryAnnounce, Report
<1>10. CASE ExecuteApply(p) \/ RetryCheck(p) \/ RetryApply(p)
  BY <1>4, <1>7, <1>10 DEF ExecuteApply, RetryCheck, RetryApply
<1>11. CASE ExecuteMark(p) \/ RetryResolve(p) \/ RetryMark(p) \/ ReconcileResolve(p)
  BY <1>1, <1>2, <1>6, <1>11
  DEF ExecuteMark, RetryResolve, RetryMark, ReconcileResolve, MarkOrRaise
<1>12. CASE ReconcileStarted(p) \/ ReconcileStale(p)
  BY <1>2, <1>6, <1>12 DEF ReconcileStarted, ReconcileStale, Report
<1>13. CASE ReconcileCheck(p)
  BY <1>1, <1>5, <1>6, <1>13 DEF ReconcileCheck
<1>. QED
  BY <1>8, <1>9, <1>10, <1>11, <1>12, <1>13 DEF Proceed

----------------------------------------------------------------------------
(* One live owner.  The inductive invariant adds to SingleOwner that a     *)
(* live owner's row carries its claim; then the lease cannot run out under *)
(* it, since MaxHold < Lease, and no claim can succeed beside it.          *)

LeaseInv == TypeOK /\ OwnersHoldTheLease /\ SingleOwner

(* A step without new owners keeps the invariant if it changes only rows   *)
(* that it settles or that have no owner afterwards.                       *)
LEMMA LeaseKept ==
  ASSUME LeaseInv, TypeOK', NoNewOwner,
         \A b \in Approvals :
            \/ status'[b] = status[b] /\ age'[b] = age[b]
            \/ status'[b] \in {"COMPLETED", "FAILED"}
            \/ \A q \in Callers : ~Owns(q, b)'
  PROVE  LeaseInv'
BY DEF LeaseInv, OwnersHoldTheLease, SingleOwner, NoNewOwner

(* A claim keeps it: the row it starts from has no owner. *)
LEMMA LeaseClaimed ==
  ASSUME NEW p \in Callers, NEW a \in Approvals, NEW step \in Steps, LeaseInv, TypeOK',
         Enter(p, a, step),
         status[a] \in {"APPROVED", "UNKNOWN"},
         status' = [status EXCEPT ![a] = "EXECUTING"],
         age' = [age EXCEPT ![a] = 0]
  PROVE  LeaseInv'
<1>1. \A q \in Callers : ~Owns(q, a)
  BY DEF LeaseInv, OwnersHoldTheLease
<1>2. \A q \in Callers, b \in Approvals :
         Owns(q, b)' => \/ q = p /\ b = a /\ call'[q].held = 0
                        \/ q # p /\ Owns(q, b) /\ call'[q] = call[q]
  BY DEF Enter, Idle, Owns, LeaseInv, TypeOK, CallTypeOK
<1>3. SingleOwner'
  BY <1>1, <1>2 DEF SingleOwner, LeaseInv
<1>4. OwnersHoldTheLease'
  BY <1>1, <1>2 DEF OwnersHoldTheLease, LeaseInv, TypeOK, StoreTypeOK
<1>. QED
  BY <1>3, <1>4 DEF LeaseInv

(* A mark by the owner keeps it: it settles the row, or gives it back      *)
(* while its only owner leaves.                                            *)
LEMMA LeaseMarked ==
  ASSUME NEW p \in Callers, NEW a \in Approvals, NEW target,
         LeaseInv, TypeOK', NoNewOwner, Mark(a, target),
         \/ target \in {"COMPLETED", "FAILED"}
         \/ target = "UNKNOWN" /\ Owns(p, a) /\ ~Owns(p, a)'
  PROVE  LeaseInv'
<1>1. \A b \in Approvals \ {a} : status'[b] = status[b] /\ age'[b] = age[b]
  BY DEF Mark, MarkUnknown, MarkSettled, Transition, LeaseInv, TypeOK, StoreTypeOK
<1>2. CASE target \in {"COMPLETED", "FAILED"}
  <2>1. status'[a] \in {"COMPLETED", "FAILED"}
    BY <1>2 DEF Mark, MarkSettled, Transition, LeaseInv, TypeOK, StoreTypeOK
  <2>. QED
    BY <1>1, <2>1, LeaseKept
<1>3. CASE target = "UNKNOWN" /\ Owns(p, a) /\ ~Owns(p, a)'
  <2>1. \A q \in Callers : ~Owns(q, a)'
    BY <1>3 DEF LeaseInv, SingleOwner, NoNewOwner
  <2>. QED
    BY <1>1, <2>1, LeaseKept
<1>. QED
  BY <1>2, <1>3

(* Going on with a handler, or dying in it, keeps it. *)
LEMMA LeaseProceed ==
  ASSUME MaxHold < Lease, NEW p \in Callers, LeaseInv, TypeOK', Proceed(p) \/ Crash(p)
  PROVE  LeaseInv'
<1>1. NoNewOwner
  BY OwnersOnlyLeave DEF LeaseInv
<1>2. UNCHANGED storeVars => LeaseInv'
  BY <1>1, LeaseKept DEF storeVars
<1>3. \A b \in Approvals : Return(p) => ~Owns(p, b)'
  BY DEF Return, Idle, Owns, OwnerSteps, ExecuteSteps, RetrySteps, LeaseInv, TypeOK, CallTypeOK
<1>4. \A b \in Approvals : Release(p, "execute_report") => ~Owns(p, b)'
  BY DEF Release, Owns, OwnerSteps, ExecuteSteps, RetrySteps, LeaseInv, TypeOK, CallTypeOK, Calls
<1>5. CASE ExecuteMark(p)
  <2>1. PICK a \in Approvals : a = call[p].on /\ Owns(p, a)
    BY <1>5 DEF ExecuteMark, Owns, OwnerSteps, ExecuteSteps, LeaseInv, TypeOK, CallTypeOK
  <2>2. ExecuteOutcome(call[p].result) \in {"UNKNOWN", "COMPLETED", "FAILED"}
    BY DEF ExecuteOutcome
  <2>. QED
    BY <1>1, <1>2, <1>3, <1>4, <1>5, <2>1, <2>2, LeaseMarked DEF ExecuteMark, MarkOrRaise
<1>6. CASE RetryMark(p)
  <2>1. PICK a \in Approvals : a = call[p].on /\ Owns(p, a)
    BY <1>6 DEF RetryMark, Owns, OwnerSteps, RetrySteps, LeaseInv, TypeOK, CallTypeOK
  <2>2. RetryOutcome(call[p].result) \in {"UNKNOWN", "COMPLETED", "FAILED"}
    BY DEF RetryOutcome
  <2>. QED
    BY <1>1, <1>2, <1>3, <1>6, <2>1, <2>2, LeaseMarked DEF RetryMark, MarkOrRaise
<1>7. CASE RetryResolve(p)
  <2>1. PICK a \in Approvals : a = call[p].on /\ Owns(p, a)
    BY <1>7 DEF RetryResolve, Owns, OwnerSteps, RetrySteps, LeaseInv, TypeOK, CallTypeOK
  <2>. QED
    BY <1>1, <1>2, <1>3, <1>7, <2>1, LeaseMarked DEF RetryResolve, MarkOrRaise
<1>8. CASE ReconcileResolve(p)
  <2>1. PICK a \in Approvals : a = call[p].on
    BY <1>8 DEF ReconcileResolve, LeaseInv, TypeOK, CallTypeOK
  <2>2. CASE RecoverStaleExecution(a)
    <3>1. \A q \in Callers : ~Owns(q, a)
      <4>1. age[a] >= Lease /\ status[a] = "EXECUTING"
        BY <2>2 DEF RecoverStaleExecution, Stale
      <4>2. \A q \in Callers : call[q].held \in 0..MaxHold
        BY DEF LeaseInv, TypeOK, CallTypeOK, Calls
      <4>3. age[a] \in 0..Lease
        BY DEF LeaseInv, TypeOK, StoreTypeOK
      <4>. QED
        BY <4>1, <4>2, <4>3, LeaseAssumption, CallersAssumption
        DEF LeaseInv, OwnersHoldTheLease
    <3>2. \A q \in Callers : ~Owns(q, a)'
      BY <1>1, <3>1 DEF NoNewOwner
    <3>3. \A b \in Approvals \ {a} : status'[b] = status[b] /\ age'[b] = age[b]
      BY <2>2 DEF RecoverStaleExecution, LeaseInv, TypeOK, StoreTypeOK
    <3>. QED
      BY <1>1, <3>2, <3>3, LeaseKept
  <2>3. CASE ~RecoverStaleExecution(a)
    BY <1>1, <1>2, <1>8, <2>1, <2>3, LeaseMarked DEF ReconcileResolve, MarkOrRaise
  <2>. QED
    BY <2>2, <2>3
<1>. QED
  BY <1>2, <1>5, <1>6, <1>7, <1>8, StoreFrame DEF Proceed

(* Beginning a handler keeps it. *)
LEMMA LeaseStart ==
  ASSUME NEW p \in Callers, NEW a \in Approvals, LeaseInv, TypeOK', ClientStarts(p, a)
  PROVE  LeaseInv'
<1>1. {"create_report", "decide_report", "execute_started", "retry_started",
       "reconcile_started"} \subseteq Steps
  BY DEF Steps, ExecuteSteps, RetrySteps, ReconcileSteps
<1>2. status[a] = "MISSING" \/ status[a] = "PENDING" => \A q \in Callers : ~Owns(q, a)
  BY DEF LeaseInv, OwnersHoldTheLease
<1>3. CASE ExecuteClaim(p, a)
  <2>1. status[a] = "APPROVED"
    BY <1>3 DEF ExecuteClaim, ClaimExecution, Transition, Transitions
  <2>. QED
    BY <1>1, <1>3, <2>1, LeaseClaimed DEF ExecuteClaim, ClaimExecution, Transition
<1>4. CASE RetryClaim(p, a)
  BY <1>1, <1>4, LeaseClaimed DEF RetryClaim, ClaimRetryExecution
<1>5. CASE CreateApproval(p, a) \/ DecideApproval(p, a) \/ ReconcileStart(p, a)
  <2>1. NoNewOwner
    <3>1. \A q \in Callers : q # p => call'[q] = call[q]
      BY <1>5 DEF CreateApproval, DecideApproval, ReconcileStart, Enter, LeaseInv, TypeOK, CallTypeOK
    <3>2. call'[p].at \in {"create_report", "decide_report", "reconcile_started"}
      BY <1>5
      DEF CreateApproval, DecideApproval, ReconcileStart, Enter, Idle, LeaseInv, TypeOK, CallTypeOK
    <3>. QED
      BY <3>1, <3>2 DEF NoNewOwner, Owns, OwnerSteps, ExecuteSteps, RetrySteps
  <2>2. CASE CreateApproval(p, a)
    BY <1>2, <2>1, <2>2, LeaseKept
    DEF CreateApproval, Create, NoNewOwner, LeaseInv, TypeOK, StoreTypeOK
  <2>3. CASE DecideApproval(p, a)
    <3>1. status[a] = "PENDING"
      BY <2>3 DEF DecideApproval, Decide, Transition, Transitions
    <3>. QED
      BY <1>2, <2>1, <2>3, <3>1, LeaseKept
      DEF DecideApproval, Decide, Transition, NoNewOwner, LeaseInv, TypeOK, StoreTypeOK
  <2>4. CASE ReconcileStart(p, a)
    BY <2>1, <2>4, LeaseKept DEF ReconcileStart, storeVars
  <2>. QED
    BY <1>5, <2>2, <2>3, <2>4
<1>. QED
  BY <1>3, <1>4, <1>5 DEF ClientStarts

(* A tick ages a claimed row and its owner's hold together. *)
LEMMA LeaseTick ==
  ASSUME LeaseInv, TypeOK', Tick
  PROVE  LeaseInv'
<1>1. \A q \in Callers, b \in Approvals : Owns(q, b)' => Owns(q, b)
  BY DEF Tick, Owns, Owning, LeaseInv, TypeOK, CallTypeOK, Calls
<1>2. \A q \in Callers, b \in Approvals : Owns(q, b) => call'[q].held = call[q].held + 1
  BY DEF Tick, Owns, Owning, LeaseInv, TypeOK, CallTypeOK, Calls
<1>3. \A b \in Approvals : status'[b] = status[b] /\ age'[b] \in {age[b], age[b] + 1}
  BY DEF Tick, Ageing
<1>4. /\ \A q \in Callers : call[q].held \in Nat
      /\ \A b \in Approvals : age[b] \in Nat
  BY DEF LeaseInv, TypeOK, StoreTypeOK, CallTypeOK, Calls
<1>5. OwnersHoldTheLease'
  BY <1>1, <1>2, <1>3, <1>4 DEF OwnersHoldTheLease, LeaseInv
<1>6. SingleOwner'
  BY <1>1 DEF SingleOwner, LeaseInv
<1>. QED
  BY <1>5, <1>6 DEF LeaseInv

(* The inductive invariant holds in every reachable state. *)
LEMMA LeaseCorrect ==
  ASSUME MaxHold < Lease
  PROVE  Spec => []LeaseInv
<1>1. Init => LeaseInv
  BY InitTyped
  DEF Init, LeaseInv, OwnersHoldTheLease, SingleOwner, Owns, Idle, OwnerSteps,
         ExecuteSteps, RetrySteps
<1>2. LeaseInv /\ TypeOK' /\ [Next]_vars => LeaseInv'
  <2> SUFFICES ASSUME LeaseInv, TypeOK', [Next]_vars
               PROVE  LeaseInv'
    OBVIOUS
  <2>1. ASSUME NEW a \in Approvals, ClusterStep(a)
        PROVE  LeaseInv'
    BY <2>1, LeaseKept DEF ClusterStep, NoNewOwner, Owns, storeVars
  <2>2. CASE UNCHANGED vars
    BY <2>2, LeaseKept DEF vars, NoNewOwner, Owns
  <2>. QED
    BY <2>1, <2>2, LeaseStart, LeaseProceed, LeaseTick DEF Next, Callers, ClientStarts
<1>. QED
  BY <1>1, <1>2, TypeCorrect, PTL DEF Spec

(* If no live owner takes as long as the lease, no execution ever has two  *)
(* live owners: neither execute requests, retries, reconcilers nor crashes *)
(* can hand a claim to a second caller (claim_execution,                   *)
(* claim_retry_execution, recover_stale_execution).                        *)
THEOREM ExecutionHasOneOwner ==
  ASSUME MaxHold < Lease
  PROVE  Spec => []SingleOwner
<1>1. LeaseInv => SingleOwner
  BY DEF LeaseInv
<1>. QED
  BY <1>1, LeaseCorrect, PTL

----------------------------------------------------------------------------
(* The lifecycle.  Here the inductive invariant says that both an owner    *)
(* and a Job testify to an execution that has begun; it holds whatever the *)
(* lease.                                                                  *)

Begun == {"EXECUTING", "UNKNOWN", "COMPLETED", "FAILED"}

OwnersHaveBegun == \A a \in Approvals, p \in Callers : Owns(p, a) => status[a] \in Begun

BegunInv == TypeOK /\ OwnersHaveBegun /\ RunsAreClaimed

(* What has begun stays begun. *)
LEMMA BegunStays ==
  ASSUME TypeOK, [Next]_vars, NEW a \in Approvals, status[a] \in Begun
  PROVE  status'[a] \in Begun
BY StatusMoves DEF Legal, Transitions, Begun

(* An owner was one before the step, or the step claims for it. *)
LEMMA OwnersComeFromClaims ==
  ASSUME TypeOK, [Next]_vars, NEW p \in Callers, NEW a \in Approvals, Owns(p, a)'
  PROVE  Owns(p, a) \/ status'[a] = "EXECUTING"
<1>1. ASSUME NEW q \in Callers, NEW b \in Approvals, ClientStarts(q, b)
      PROVE  Owns(p, a) \/ status'[a] = "EXECUTING"
  <2>1. p # q => call'[p] = call[p]
    BY <1>1
    DEF ClientStarts, CreateApproval, DecideApproval, ExecuteClaim, RetryClaim,
        ReconcileStart, Enter, TypeOK, CallTypeOK
  <2>2. CASE ExecuteClaim(q, b) \/ RetryClaim(q, b)
    <3>1. status'[b] = "EXECUTING"
      BY <2>2
      DEF ExecuteClaim, ClaimExecution, Transition, RetryClaim, ClaimRetryExecution,
          TypeOK, StoreTypeOK
    <3>2. call'[q].on = b
      BY <2>2 DEF ExecuteClaim, RetryClaim, Enter, Idle, TypeOK, CallTypeOK
    <3>. QED
      BY <2>1, <3>1, <3>2 DEF Owns
  <2>3. CASE CreateApproval(q, b) \/ DecideApproval(q, b) \/ ReconcileStart(q, b)
    <3>1. call'[q].at \in {"create_report", "decide_report", "reconcile_started"}
      BY <2>3
      DEF CreateApproval, DecideApproval, ReconcileStart, Enter, Idle, TypeOK, CallTypeOK
    <3>. QED
      BY <2>1, <3>1 DEF Owns, OwnerSteps, ExecuteSteps, RetrySteps
  <2>. QED
    BY <1>1, <2>2, <2>3 DEF ClientStarts
<1>2. ASSUME NEW q \in Callers, Proceed(q) \/ Crash(q)
      PROVE  Owns(p, a)
  BY <1>2, OwnersOnlyLeave DEF NoNewOwner
<1>3. CASE Tick
  BY <1>3 DEF Tick, Owns, Owning, TypeOK, CallTypeOK, Calls
<1>4. ASSUME NEW b \in Approvals, ClusterStep(b)
      PROVE  Owns(p, a)
  BY <1>4 DEF ClusterStep, Owns
<1>5. CASE UNCHANGED vars
  BY <1>5 DEF vars, Owns
<1>. QED
  BY <1>1, <1>2, <1>3, <1>4, <1>5 DEF Next, Callers, ClientStarts

(* Job b changes only through an owner's apply, through an apply that was  *)
(* still on its way, or by itself.                                         *)
ClusterChanges(b) ==
    \/ \E q \in Callers : Owns(q, b)
    \/ inflight[b]
    \/ job[b] # "absent"

LEMMA OneJobMoves ==
  ASSUME TypeOK, [Next]_vars
  PROVE  \/ UNCHANGED clusterVars
         \/ \E b \in Approvals :
               /\ ClusterChanges(b)
               /\ \A c \in Approvals \ {b} :
                     job'[c] = job[c] /\ runs'[c] = runs[c] /\ inflight'[c] = inflight[c]
               /\ runs'[b] = runs[b] \/ runs'[b] > 0
               /\ runs[b] > 0 => runs'[b] > 0
               /\ UNCHANGED storeVars
<1>. DEFINE Only(b) == /\ \A c \in Approvals \ {b} :
                             /\ job'[c] = job[c]
                             /\ runs'[c] = runs[c]
                             /\ inflight'[c] = inflight[c]
                       /\ runs'[b] = runs[b] \/ runs'[b] > 0
                       /\ runs[b] > 0 => runs'[b] > 0
            Goal == \/ UNCHANGED clusterVars
                    \/ \E b \in Approvals : ClusterChanges(b) /\ Only(b) /\ UNCHANGED storeVars
<1>1. ASSUME NEW b \in Approvals, Apply(b)
      PROVE  /\ \A c \in Approvals \ {b} : job'[c] = job[c] /\ runs'[c] = runs[c]
             /\ runs'[b] = runs[b] \/ runs'[b] > 0
             /\ runs[b] > 0 => runs'[b] > 0
  BY <1>1 DEF Apply, TypeOK, ClusterTypeOK
<1>2. ASSUME NEW b \in Approvals, NEW result, ApplyTrainingJob(b, result)
      PROVE  Only(b)
  BY <1>1, <1>2 DEF ApplyTrainingJob, clusterVars, TypeOK, ClusterTypeOK
<1>3. ASSUME NEW p \in Callers, Proceed(p)
      PROVE  Goal
  <2>1. CASE ExecuteApply(p) \/ RetryApply(p)
    <3>1. PICK b \in Approvals : b = call[p].on
      BY <2>1 DEF ExecuteApply, RetryApply, TypeOK, CallTypeOK
    <3>2. Only(b) /\ UNCHANGED storeVars
      BY <1>2, <2>1, <3>1 DEF ExecuteApply, RetryApply
    <3>3. Owns(p, b)
      BY <2>1, <3>1 DEF ExecuteApply, RetryApply, Owns, OwnerSteps, ExecuteSteps, RetrySteps
    <3>. QED
      BY <3>2, <3>3 DEF ClusterChanges
  <2>2. CASE ~(ExecuteApply(p) \/ RetryApply(p))
    BY <1>3, <2>2
    DEF Proceed, ReportCreated, ReportDecided, ExecuteStarted, ExecuteMark, ExecuteReport,
        RetryStarted, RetryCheck, RetryResolve, RetryAnnounce, RetryMark, ReconcileStarted,
        ReconcileCheck, ReconcileResolve, ReconcileStale, ReconcileReport, Report,
        ReportAndReturn
  <2>. QED
    BY <2>1, <2>2
<1>4. ASSUME NEW b \in Approvals, ClusterStep(b)
      PROVE  Goal
  <2>1. CASE Arrive(b)
    <3>1. Only(b)
      BY <1>1, <2>1 DEF Arrive, TypeOK, ClusterTypeOK
    <3>. QED
      BY <1>4, <2>1, <3>1 DEF ClusterStep, Arrive, ClusterChanges
  <2>2. CASE PodFails(b) \/ JobCompletes(b) \/ Expire(b)
    <3>1. job[b] # "absent"
      BY <2>2 DEF PodFails, JobCompletes, Expire, Progress, Finished
    <3>2. Only(b)
      BY <2>2 DEF PodFails, JobCompletes, Expire, Progress, TypeOK, ClusterTypeOK
    <3>. QED
      BY <1>4, <3>1, <3>2 DEF ClusterStep, ClusterChanges
  <2>. QED
    BY <1>4, <2>1, <2>2 DEF ClusterStep
<1>5. ASSUME NEW p \in Callers, NEW a \in Approvals, ClientStarts(p, a)
      PROVE  UNCHANGED clusterVars
  BY <1>5
  DEF ClientStarts, CreateApproval, DecideApproval, ExecuteClaim, RetryClaim, ReconcileStart
<1>6. ASSUME NEW p \in Callers, Crash(p)
      PROVE  UNCHANGED clusterVars
  BY <1>6 DEF Crash
<1>7. CASE Tick
  BY <1>7 DEF Tick
<1>8. CASE UNCHANGED vars
  BY <1>8 DEF vars, clusterVars
<1>. QED
  BY <1>3, <1>4, <1>5, <1>6, <1>7, <1>8 DEF Next, Callers, ClientStarts

LEMMA BegunCorrect == Spec => []BegunInv
<1>1. Init => BegunInv
  BY InitTyped
  DEF Init, ClusterInit, BegunInv, OwnersHaveBegun, RunsAreClaimed, Owns, Idle, OwnerSteps,
      ExecuteSteps, RetrySteps
<1>2. BegunInv /\ TypeOK' /\ [Next]_vars => BegunInv'
  <2> SUFFICES ASSUME BegunInv, TypeOK', [Next]_vars
               PROVE  BegunInv'
    OBVIOUS
  <2>1. OwnersHaveBegun'
    BY OwnersComeFromClaims, BegunStays DEF OwnersHaveBegun, BegunInv, Begun
  <2>2. \A b \in Approvals : ClusterChanges(b) => status'[b] \in Begun
    BY BegunStays DEF ClusterChanges, BegunInv, OwnersHaveBegun, RunsAreClaimed, Begun
  <2>3. \A b \in Approvals :
           job[b] # "absent" \/ inflight[b] \/ runs[b] > 0 => status'[b] \in Begun
    BY BegunStays DEF BegunInv, RunsAreClaimed, Begun
  <2>4. RunsAreClaimed'
    BY <2>2, <2>3, OneJobMoves DEF BegunInv, RunsAreClaimed, Begun, clusterVars
  <2>. QED
    BY <2>1, <2>4 DEF BegunInv
<1>. QED
  BY <1>1, <1>2, TypeCorrect, PTL DEF Spec

(* No Job without a claim: whenever a Job exists, existed or is about to,  *)
(* its approval's execution has begun, for any lease, hold and crashes.    *)
THEOREM JobsAreClaimed == Spec => []RunsAreClaimed
<1>1. BegunInv => RunsAreClaimed
  BY DEF BegunInv
<1>. QED
  BY <1>1, BegunCorrect, PTL

(* Every step of the detailed system is a step of the lifecycle or leaves  *)
(* it alone, so callers of the gate may rely on ApprovalLifecycle only.    *)
THEOREM LifecycleIsImplemented == Spec => ImplementsLifecycle
<1>. DEFINE Launched == {a \in Approvals : runs[a] > 0}
<1>1. Init => Lifecycle!Init
  BY DEF Init, StoreInit, ClusterInit, Lifecycle!Init
<1>2. BegunInv /\ [Next]_vars => [Lifecycle!Next]_Lifecycle!lifecycleVars
  <2> SUFFICES ASSUME BegunInv, [Next]_vars
               PROVE  [Lifecycle!Next]_Lifecycle!lifecycleVars
    OBVIOUS
  <2>1. ASSUME NEW a \in Approvals, NEW to \in Statuses, RowMoves(a, to)
        PROVE  [Lifecycle!Next]_Lifecycle!lifecycleVars
    <3>1. UNCHANGED Launched
      BY <2>1 DEF RowMoves, clusterVars
    <3>2. \/ to = status[a]
          \/ Lifecycle!Request(a) \/ Lifecycle!Decide(a) \/ Lifecycle!Begin(a)
          \/ Lifecycle!LoseTrack(a) \/ Lifecycle!Resume(a) \/ Lifecycle!Settle(a)
      BY <2>1, <3>1
      DEF RowMoves, Legal, Transitions, Lifecycle!Request, Lifecycle!Decide,
          Lifecycle!Begin, Lifecycle!LoseTrack, Lifecycle!Resume, Lifecycle!Settle,
          Lifecycle!Move
    <3>3. to = status[a] => UNCHANGED status
      BY <2>1 DEF RowMoves, BegunInv, TypeOK, StoreTypeOK
    <3>. QED
      BY <3>1, <3>2, <3>3 DEF Lifecycle!Next, Lifecycle!lifecycleVars
  <2>2. CASE UNCHANGED status
    <3>1. CASE UNCHANGED clusterVars
      BY <2>2, <3>1 DEF clusterVars, Lifecycle!lifecycleVars
    <3>2. CASE ~UNCHANGED clusterVars
      <4>1. PICK b \in Approvals :
               /\ ClusterChanges(b)
               /\ \A c \in Approvals \ {b} : runs'[c] = runs[c]
               /\ runs'[b] = runs[b] \/ runs'[b] > 0
               /\ runs[b] > 0 => runs'[b] > 0
        BY <3>2, OneJobMoves DEF BegunInv
      <4>2. status[b] \in Begun
        BY <4>1 DEF ClusterChanges, BegunInv, OwnersHaveBegun, RunsAreClaimed, Begun
      <4>3. Launched' = Launched \/ Launched' = Launched \cup {b}
        BY <4>1
      <4>. QED
        BY <2>2, <4>2, <4>3
        DEF Lifecycle!Next, Lifecycle!Launch, Lifecycle!Begun, Lifecycle!lifecycleVars, Begun
    <3>. QED
      BY <3>1, <3>2
  <2>. QED
    BY <2>1, <2>2, OneRowMoves DEF BegunInv, StandsStill
<1>. QED
  BY <1>1, <1>2, BegunCorrect, PTL DEF Spec, ImplementsLifecycle, Lifecycle!Spec

----------------------------------------------------------------------------
(* What a caller knows.  A caller that is about to act on an answer of     *)
(* kubectl got that answer in a step of its own, and nobody else writes    *)
(* its place, its approval or the answer.                                  *)

SameCall(q) ==
    /\ call'[q].at = call[q].at /\ call'[q].on = call[q].on
    /\ call'[q].seen = call[q].seen /\ call'[q].result = call[q].result

(* A step of one caller does not touch another.                            *)
LEMMA OthersStay ==
  ASSUME TypeOK, NEW p \in Callers, NEW q \in Callers, q # p,
         Proceed(q) \/ \E a \in Approvals : ClientStarts(q, a)
  PROVE  SameCall(p)
<1>1. ASSUME NEW step, NEW result, NEW recovered,
             \/ Return(q) \/ Goto(q, step) \/ Release(q, step) \/ GotoWith(q, step, result)
             \/ Conclude(q, step, recovered)
      PROVE  SameCall(p)
  BY <1>1 DEF Return, Goto, Release, GotoWith, Conclude, SameCall, TypeOK, CallTypeOK
<1>2. CASE Proceed(q)
  BY <1>1, <1>2
  DEF Proceed, ReportCreated, ReportDecided, ExecuteStarted, ExecuteApply, ExecuteMark,
      ExecuteReport, RetryStarted, RetryCheck, RetryResolve, RetryAnnounce, RetryApply, RetryMark,
      ReconcileStarted, ReconcileCheck, ReconcileResolve, ReconcileStale, ReconcileReport,
      Report, ReportAndReturn, MarkOrRaise
<1>3. ASSUME NEW a \in Approvals, ClientStarts(q, a)
      PROVE  SameCall(p)
  BY <1>3
  DEF ClientStarts, CreateApproval, DecideApproval, ExecuteClaim, RetryClaim, ReconcileStart,
      Enter, SameCall, TypeOK, CallTypeOK
<1>. QED
  BY <1>2, <1>3

(* A caller whose place changes begins a handler, goes on with it, or dies. *)
LEMMA CallerActs ==
  ASSUME TypeOK, [Next]_vars, NEW p \in Callers, ~SameCall(p)
  PROVE  Proceed(p) \/ Crash(p) \/ \E a \in Approvals : ClientStarts(p, a)
<1>1. ~Tick
  BY DEF Tick, SameCall, TypeOK, CallTypeOK, Calls
<1>2. \A a \in Approvals : ~ClusterStep(a)
  BY DEF ClusterStep, SameCall
<1>3. ~UNCHANGED vars
  BY DEF vars, SameCall
<1>4. PICK q \in Callers : Proceed(q) \/ Crash(q) \/ \E a \in Approvals : ClientStarts(q, a)
  BY <1>1, <1>2, <1>3 DEF Next, Callers, ClientStarts
<1>5. q # p => ~Crash(q)
  BY DEF Crash, Return, SameCall, TypeOK, CallTypeOK
<1>. QED
  BY <1>4, <1>5, OthersStay

Applied  == {"execute_mark", "retry_mark"}
Resolved == {"retry_resolve", "reconcile_resolve"}
Acting   == Applied \cup Resolved

(* Where the knowledge of caller q comes from, when it did not have it.    *)
Learned(q) ==
    \/ SameCall(q)
    \/ call'[q].at \notin Acting
    \/ call'[q].at \in Applied /\ ApplyTrainingJob(call'[q].on, call'[q].result)
    \/ call'[q].at \in Resolved /\ JobStatus(call'[q].on, call'[q].result) /\ UNCHANGED clusterVars

LEMMA KnowledgeIsLearned ==
  ASSUME TypeOK, [Next]_vars, NEW q \in Callers
  PROVE  Learned(q)
<1>. USE DEF Learned, SameCall, Acting, Applied, Resolved
<1>1. ASSUME NEW p \in Callers, NEW a \in Approvals, ClientStarts(p, a)
      PROVE  Learned(q)
  <2>1. p # q => call'[q] = call[q]
    BY <1>1
    DEF ClientStarts, CreateApproval, DecideApproval, ExecuteClaim, RetryClaim,
        ReconcileStart, Enter, TypeOK, CallTypeOK
  <2>2. call'[p].at \in {"create_report", "decide_report", "execute_started",
                         "retry_started", "reconcile_started"}
    BY <1>1
    DEF ClientStarts, CreateApproval, DecideApproval, ExecuteClaim, RetryClaim,
        ReconcileStart, Enter, Idle, TypeOK, CallTypeOK
  <2>. QED
    BY <2>1, <2>2
<1>2. ASSUME NEW p \in Callers, Proceed(p) \/ Crash(p)
      PROVE  Learned(q)
  <2>1. ASSUME NEW step \in Steps \ Acting, NEW recovered,
               \/ Return(p) \/ Goto(p, step) \/ Release(p, step)
               \/ Conclude(p, step, recovered)
        PROVE  Learned(q)
    BY <2>1 DEF Return, Goto, Release, Conclude, Idle, TypeOK, CallTypeOK, Calls
  <2>2. {"execute_apply", "execute_report", "retry_check", "retry_apply", "retry_announce", "reconcile_check",
         "reconcile_stale", "reconcile_report"} \subseteq Steps \ Acting
    BY DEF Steps, ExecuteSteps, RetrySteps, ReconcileSteps
  <2>3. CASE ReportCreated(p) \/ ReportDecided(p) \/ ExecuteReport(p) \/ ReconcileReport(p) \/ Crash(p)
    BY <2>1, <2>2, <2>3
    DEF ReportCreated, ReportDecided, ExecuteReport, ReconcileReport, ReportAndReturn, Crash
  <2>4. CASE \/ ExecuteStarted(p) \/ RetryStarted(p) \/ RetryAnnounce(p)
             \/ ReconcileStarted(p) \/ ReconcileStale(p)
    BY <2>1, <2>2, <2>4
    DEF ExecuteStarted, RetryStarted, RetryAnnounce, ReconcileStarted, ReconcileStale, Report
  <2>5. CASE ExecuteMark(p) \/ RetryResolve(p) \/ RetryMark(p) \/ ReconcileResolve(p)
    BY <2>1, <2>2, <2>5
    DEF ExecuteMark, RetryResolve, RetryMark, ReconcileResolve, MarkOrRaise
  <2>6. ASSUME NEW step, NEW result, GotoWith(p, step, result)
        PROVE  /\ q # p => SameCall(q)
               /\ call'[p].at = step /\ call'[p].on = call[p].on /\ call'[p].result = result
    BY <2>6 DEF GotoWith, TypeOK, CallTypeOK, Calls
  <2>7. CASE ExecuteApply(p) \/ RetryApply(p)
    BY <2>6, <2>7 DEF ExecuteApply, RetryApply
  <2>8. CASE RetryCheck(p)
    BY <2>6, <2>8 DEF RetryCheck
  <2>9. CASE ReconcileCheck(p)
    BY <2>1, <2>2, <2>6, <2>9 DEF ReconcileCheck
  <2>. QED
    BY <1>2, <2>3, <2>4, <2>5, <2>7, <2>8, <2>9 DEF Proceed
<1>3. CASE Tick
  BY <1>3 DEF Tick, TypeOK, CallTypeOK, Calls
<1>4. ASSUME NEW a \in Approvals, ClusterStep(a)
      PROVE  Learned(q)
  BY <1>4 DEF ClusterStep
<1>5. CASE UNCHANGED vars
  BY <1>5 DEF vars
<1>. QED
  BY <1>1, <1>2, <1>3, <1>4, <1>5 DEF Next, Callers, ClientStarts

(* How a Job changes: it runs on, it is created, or it expires.            *)
JobRunsOn(b) == runs'[b] = runs[b] /\ (job'[b] = "absent" <=> job[b] = "absent")

JobIsCreated(b) ==
    /\ job[b] = "absent" /\ job'[b] = "running"
    /\ runs'[b] = IF runs[b] < 2 THEN runs[b] + 1 ELSE 2

JobExpires(b) ==
    /\ Expired(b) /\ job[b] # "absent" /\ job'[b] = "absent" /\ runs'[b] = runs[b]
    /\ UNCHANGED <<storeVars, inflight, call>>

LEMMA AppliesCreate ==
  ASSUME TypeOK, NEW b \in Approvals, NEW c \in Approvals, NEW result,
         Apply(c) \/ ApplyTrainingJob(c, result)
  PROVE  JobRunsOn(b) \/ JobIsCreated(b)
BY DEF Apply, ApplyTrainingJob, JobRunsOn, JobIsCreated, TypeOK, ClusterTypeOK, clusterVars

LEMMA JobMoves ==
  ASSUME TypeOK, [Next]_vars, NEW b \in Approvals
  PROVE  JobRunsOn(b) \/ JobIsCreated(b) \/ JobExpires(b)
<1>1. UNCHANGED clusterVars => JobRunsOn(b)
  BY DEF clusterVars, JobRunsOn
<1>2. ASSUME NEW p \in Callers, Proceed(p)
      PROVE  JobRunsOn(b) \/ JobIsCreated(b)
  <2>1. CASE ExecuteApply(p) \/ RetryApply(p)
    <3>1. call[p].on \in Approvals
      BY <2>1 DEF ExecuteApply, RetryApply, TypeOK, CallTypeOK
    <3>. QED
      BY <2>1, <3>1, AppliesCreate DEF ExecuteApply, RetryApply
  <2>2. CASE ~(ExecuteApply(p) \/ RetryApply(p))
    BY <1>1, <1>2, <2>2
    DEF Proceed, ReportCreated, ReportDecided, ExecuteStarted, ExecuteMark, ExecuteReport,
        RetryStarted, RetryCheck, RetryResolve, RetryAnnounce, RetryMark, ReconcileStarted,
        ReconcileCheck, ReconcileResolve, ReconcileStale, ReconcileReport, Report,
        ReportAndReturn
  <2>. QED
    BY <2>1, <2>2
<1>3. ASSUME NEW c \in Approvals, ClusterStep(c)
      PROVE  JobRunsOn(b) \/ JobIsCreated(b) \/ JobExpires(b)
  <2>1. CASE Arrive(c)
    BY <2>1, AppliesCreate DEF Arrive
  <2>2. CASE PodFails(c) \/ JobCompletes(c)
    BY <2>2 DEF PodFails, JobCompletes, Progress, JobRunsOn, TypeOK, ClusterTypeOK
  <2>3. CASE Expired(c) /\ Expire(c)
    BY <1>3, <2>3
    DEF ClusterStep, Expire, Progress, Finished, JobRunsOn, JobExpires, TypeOK, ClusterTypeOK
  <2>. QED
    BY <1>3, <2>1, <2>2, <2>3 DEF ClusterStep
<1>4. ASSUME NEW p \in Callers, NEW a \in Approvals, ClientStarts(p, a)
      PROVE  UNCHANGED clusterVars
  BY <1>4
  DEF ClientStarts, CreateApproval, DecideApproval, ExecuteClaim, RetryClaim, ReconcileStart
<1>5. ASSUME NEW p \in Callers, Crash(p)
      PROVE  UNCHANGED clusterVars
  BY <1>5 DEF Crash
<1>6. CASE Tick
  BY <1>1, <1>6 DEF Tick
<1>7. CASE UNCHANGED vars
  BY <1>1, <1>7 DEF vars, clusterVars
<1>. QED
  BY <1>1, <1>2, <1>3, <1>4, <1>5, <1>6, <1>7 DEF Next, Callers, ClientStarts

----------------------------------------------------------------------------
(* No phantom completion.  Whoever is about to report success has seen a   *)
(* Job, or an apply that went through, and a Job once created is counted.  *)

WitnessInv ==
    /\ \A a \in Approvals : job[a] # "absent" => runs[a] > 0
    /\ \A p \in Callers :
          /\ call[p].at \in Applied /\ call[p].result = "executed" => runs[call[p].on] > 0
          /\ call[p].at \in Resolved /\ call[p].result = "completed" => runs[call[p].on] > 0

LEMMA RunsStay ==
  ASSUME TypeOK, [Next]_vars, NEW a \in Approvals, runs[a] > 0
  PROVE  runs'[a] > 0
BY JobMoves DEF JobRunsOn, JobIsCreated, JobExpires, TypeOK, ClusterTypeOK

LEMMA NextWitness ==
  ASSUME TypeOK, TypeOK', WitnessInv, [Next]_vars
  PROVE  WitnessInv'
<1>1. ASSUME NEW a \in Approvals, job'[a] # "absent"
      PROVE  runs'[a] > 0
  BY <1>1, JobMoves DEF WitnessInv, JobRunsOn, JobIsCreated, JobExpires, TypeOK, ClusterTypeOK
<1>2. ASSUME NEW p \in Callers, call'[p].at \in Applied, call'[p].result = "executed"
      PROVE  runs'[call'[p].on] > 0
  <2>1. call'[p].on \in Approvals
    BY <1>2 DEF TypeOK, CallTypeOK, Applied
  <2>2. CASE SameCall(p)
    BY <1>2, <2>1, <2>2, RunsStay DEF SameCall, WitnessInv
  <2>3. CASE ApplyTrainingJob(call'[p].on, "executed")
    BY <2>1, <2>3 DEF ApplyTrainingJob, Apply, WitnessInv, TypeOK, ClusterTypeOK
  <2>. QED
    BY <1>2, <2>2, <2>3, KnowledgeIsLearned DEF Learned, Acting, Applied, Resolved
<1>3. ASSUME NEW p \in Callers, call'[p].at \in Resolved, call'[p].result = "completed"
      PROVE  runs'[call'[p].on] > 0
  <2>1. call'[p].on \in Approvals
    BY <1>3 DEF TypeOK, CallTypeOK, Resolved
  <2>2. CASE SameCall(p)
    BY <1>3, <2>1, <2>2, RunsStay DEF SameCall, WitnessInv
  <2>3. CASE JobStatus(call'[p].on, "completed")
    <3>1. job[call'[p].on] = "completed"
      BY <2>3 DEF JobStatus, Observed
    <3>. QED
      BY <2>1, <3>1, RunsStay DEF WitnessInv
  <2>. QED
    BY <1>3, <2>2, <2>3, KnowledgeIsLearned DEF Learned, Acting, Applied, Resolved
<1>. QED
  BY <1>1, <1>2, <1>3 DEF WitnessInv

(* A row becomes COMPLETED only by a caller that knows.                    *)
LEMMA CompletionIsKnown ==
  ASSUME TypeOK, [Next]_vars, NEW a \in Approvals, status[a] # "COMPLETED", status'[a] = "COMPLETED"
  PROVE  \E p \in Callers :
            /\ call[p].on = a
            /\ \/ call[p].at \in Applied /\ call[p].result = "executed"
               \/ call[p].at \in Resolved /\ call[p].result = "completed"
<1>. USE DEF Applied, Resolved
<1>1. status'[a] # status[a]
  OBVIOUS
<1>2. ASSUME NEW b, NEW target, Mark(b, target)
      PROVE  a = b /\ target = "COMPLETED"
  BY <1>1, <1>2 DEF Mark, MarkUnknown, MarkSettled, Transition, TypeOK, StoreTypeOK
<1>3. ASSUME NEW p \in Callers, NEW b \in Approvals, ClientStarts(p, b)
      PROVE  FALSE
  BY <1>1, <1>3
  DEF ClientStarts, CreateApproval, Create, DecideApproval, Decide, Transition, ExecuteClaim,
      ClaimExecution, RetryClaim, ClaimRetryExecution, ReconcileStart, storeVars,
      TypeOK, StoreTypeOK
<1>4. ASSUME NEW p \in Callers, Proceed(p) \/ Crash(p)
      PROVE  /\ call[p].on = a
             /\ \/ call[p].at \in Applied /\ call[p].result = "executed"
                \/ call[p].at \in Resolved /\ call[p].result = "completed"
  <2>1. ~UNCHANGED storeVars
    BY <1>1 DEF storeVars
  <2>2. CASE ExecuteMark(p)
    <3>1. Mark(call[p].on, ExecuteOutcome(call[p].result))
      BY <2>1, <2>2 DEF ExecuteMark, MarkOrRaise
    <3>. QED
      BY <1>2, <2>2, <3>1 DEF ExecuteMark, ExecuteOutcome
  <2>3. CASE RetryMark(p)
    <3>1. Mark(call[p].on, RetryOutcome(call[p].result))
      BY <2>1, <2>3 DEF RetryMark, MarkOrRaise
    <3>. QED
      BY <1>2, <2>3, <3>1 DEF RetryMark, RetryOutcome
  <2>4. CASE RetryResolve(p)
    BY <1>2, <2>1, <2>4 DEF RetryResolve, MarkOrRaise
  <2>5. CASE ReconcileResolve(p)
    <3>1. ~RecoverStaleExecution(call[p].on)
      BY <1>1 DEF RecoverStaleExecution, TypeOK, StoreTypeOK
    <3>. QED
      BY <1>2, <2>1, <2>5, <3>1 DEF ReconcileResolve, MarkOrRaise
  <2>. QED
    BY <1>4, <2>1, <2>2, <2>3, <2>4, <2>5, StoreFrame DEF Proceed
<1>5. UNCHANGED status => FALSE
  BY <1>1
<1>. QED
  BY <1>3, <1>4, <1>5 DEF Next, Callers, ClientStarts, Tick, Ageing, ClusterStep, vars, storeVars

(* A COMPLETED row had a training run, whatever kubectl answered, whoever  *)
(* crashed and however handlers overlapped.                                *)
THEOREM CompletionHasItsRun == Spec => []NoPhantomCompletion
<1>1. Init => WitnessInv /\ NoPhantomCompletion
  BY DEF Init, StoreInit, ClusterInit, WitnessInv, NoPhantomCompletion, Idle, Applied, Resolved
<1>2. ASSUME TypeOK, WitnessInv, NoPhantomCompletion, [Next]_vars
      PROVE  NoPhantomCompletion'
  <2> SUFFICES ASSUME NEW a \in Approvals, status'[a] = "COMPLETED"
               PROVE  runs'[a] > 0
    BY DEF NoPhantomCompletion
  <2>1. runs[a] > 0
    BY <1>2, CompletionIsKnown DEF WitnessInv, NoPhantomCompletion
  <2>. QED
    BY <1>2, <2>1, RunsStay
<1>3. TypeOK /\ TypeOK' /\ WitnessInv /\ NoPhantomCompletion /\ [Next]_vars
          => WitnessInv' /\ NoPhantomCompletion'
  BY <1>2, NextWitness
<1>. QED
  BY <1>1, <1>3, TypeCorrect, PTL DEF Spec

----------------------------------------------------------------------------
(* The trail and the row.  A settled row stays as it is (StatusMoves), and *)
(* a caller that is about to report an outcome has set it.                 *)

(* Caller p is about to report the outcome of its approval.                *)
Reports(p, outcome) ==
    \/ call[p].at = "execute_report" /\ ExecuteOutcome(call[p].result) = outcome
    \/ call[p].at \in {"reconcile_stale", "reconcile_report"} /\ call[p].seen = outcome

ReportInv ==
    \A p \in Callers : \A outcome \in {"COMPLETED", "FAILED"} :
        Reports(p, outcome) => status[call[p].on] = outcome

LEMMA SettledStays ==
  ASSUME TypeOK, [Next]_vars, NEW a \in Approvals, status[a] \in {"COMPLETED", "FAILED"}
  PROVE  status'[a] = status[a]
BY StatusMoves DEF Legal, Transitions

LEMMA MarkSets ==
  ASSUME TypeOK, NEW a \in Approvals, NEW target, Mark(a, target)
  PROVE  status'[a] = target
BY DEF Mark, MarkUnknown, MarkSettled, Transition, TypeOK, StoreTypeOK

(* A caller comes to report an outcome by setting it, or by finding it in  *)
(* the row.                                                                *)
LEMMA ReportsAreEarned ==
  ASSUME TypeOK, TypeOK', [Next]_vars, NEW p \in Callers, NEW outcome \in {"COMPLETED", "FAILED"},
         Reports(p, outcome)'
  PROVE  \/ Reports(p, outcome) /\ call'[p].on = call[p].on
         \/ status'[call'[p].on] = outcome
<1>. DEFINE Places == {"execute_report", "reconcile_stale", "reconcile_report"}
<1>1. call'[p].at \in Places
  BY DEF Reports
<1>2. CASE SameCall(p)
  BY <1>2 DEF SameCall, Reports, ExecuteOutcome
<1>3. CASE ~SameCall(p)
  <2>1. ~Crash(p) /\ \A a \in Approvals : ~ClientStarts(p, a)
    <3>1. ~Crash(p)
      BY <1>1 DEF Crash, Return, Idle, TypeOK, CallTypeOK
    <3>2. ASSUME NEW a \in Approvals, ClientStarts(p, a)
          PROVE  call'[p].at \in {"create_report", "decide_report", "execute_started",
                                 "retry_started", "reconcile_started"}
      BY <3>2
      DEF ClientStarts, CreateApproval, DecideApproval, ExecuteClaim, RetryClaim, ReconcileStart,
          Enter, Idle, TypeOK, CallTypeOK
    <3>. QED
      BY <1>1, <3>1, <3>2
  <2>2. Proceed(p)
    BY <1>3, <2>1, CallerActs
  <2>3. ASSUME NEW step, NEW result,
               \/ Return(p)
               \/ step \notin Places /\ (Goto(p, step) \/ GotoWith(p, step, result))
        PROVE  FALSE
    BY <1>1, <2>3 DEF Return, Goto, GotoWith, Idle, TypeOK, CallTypeOK, Calls
  <2>4. ASSUME NEW step \in Places, NEW recovered, Conclude(p, step, recovered)
        PROVE  call'[p].on = call[p].on /\ (step # "execute_report" => recovered = outcome)
    BY <2>4 DEF Conclude, Reports, TypeOK, CallTypeOK, Calls
  <2>5. CASE ExecuteMark(p)
    <3>1. Mark(call[p].on, ExecuteOutcome(call[p].result)) /\ Release(p, "execute_report")
      BY <2>3, <2>5 DEF ExecuteMark, MarkOrRaise
    <3>2. call'[p].on = call[p].on /\ ExecuteOutcome(call[p].result) = outcome
      BY <3>1 DEF Release, Reports, ExecuteOutcome, TypeOK, CallTypeOK, Calls
    <3>. QED
      BY <2>5, <3>1, <3>2, MarkSets DEF ExecuteMark, TypeOK, CallTypeOK
  <2>6. CASE RetryResolve(p)
    <3>1. PICK target \in {"COMPLETED", "FAILED", "EXECUTING"} :
             /\ Conclude(p, "reconcile_report", target)
             /\ target = "EXECUTING" \/ Mark(call[p].on, target)
      BY <2>3, <2>6 DEF RetryResolve, MarkOrRaise
    <3>2. call'[p].on = call[p].on /\ target = outcome
      BY <2>4, <3>1
    <3>. QED
      BY <2>6, <3>1, <3>2, MarkSets DEF RetryResolve, TypeOK, CallTypeOK
  <2>7. CASE ReconcileResolve(p)
    <3>1. CASE Conclude(p, "reconcile_stale", "UNKNOWN")
      BY <2>4, <3>1
    <3>2. CASE UNCHANGED storeVars /\ Conclude(p, "reconcile_report", status[call[p].on])
      BY <2>4, <3>2 DEF storeVars
    <3>3. ASSUME NEW target \in {"COMPLETED", "FAILED"},
                 Mark(call[p].on, target), Conclude(p, "reconcile_report", target)
          PROVE  status'[call'[p].on] = outcome
      <4>1. call'[p].on = call[p].on /\ target = outcome
        BY <2>4, <3>3
      <4>. QED
        BY <2>7, <3>3, <4>1, MarkSets DEF ReconcileResolve, TypeOK, CallTypeOK
    <3>. QED
      BY <2>3, <2>7, <3>1, <3>2, <3>3 DEF ReconcileResolve, MarkOrRaise
  <2>8. CASE ReconcileStale(p)
    BY <2>8 DEF ReconcileStale, Report, Goto, Reports, TypeOK, CallTypeOK, Calls
  <2>. QED
    BY <2>2, <2>3, <2>5, <2>6, <2>7, <2>8
    DEF Proceed, ReportCreated, ReportDecided, ExecuteStarted, ExecuteApply, ExecuteReport,
        RetryStarted, RetryCheck, RetryAnnounce, RetryApply, RetryMark, ReconcileStarted,
        ReconcileCheck, ReconcileReport, Report, ReportAndReturn, MarkOrRaise
<1>. QED
  BY <1>2, <1>3

LEMMA NextReport ==
  ASSUME TypeOK, TypeOK', ReportInv, [Next]_vars
  PROVE  ReportInv'
<1> SUFFICES ASSUME NEW p \in Callers, NEW outcome \in {"COMPLETED", "FAILED"},
                    Reports(p, outcome)'
             PROVE  status'[call'[p].on] = outcome
  BY DEF ReportInv
<1>1. call'[p].on \in Approvals
  BY DEF Reports, TypeOK, CallTypeOK
<1>. QED
  BY <1>1, ReportsAreEarned, SettledStays DEF ReportInv

(* An outcome enters the trail only from a caller that reports it.         *)
LEMMA OutcomesAreReported ==
  ASSUME TypeOK, [Next]_vars, NEW a \in Approvals, NEW outcome \in {"COMPLETED", "FAILED"},
         NEW event \in Outcomes(outcome), event \notin audit[a], event \in audit'[a]
  PROVE  \E p \in Callers : Reports(p, outcome) /\ call[p].on = a
<1>. USE DEF Outcomes, Reconciled
<1>1. ASSUME NEW b, NEW other, Record(b, other)
      PROVE  b = a /\ other = event
  BY <1>1 DEF Record, TypeOK, AuditTypeOK
<1>2. ~UNCHANGED audit
  OBVIOUS
<1>3. ASSUME NEW p \in Callers, NEW b \in Approvals, ClientStarts(p, b)
      PROVE  FALSE
  BY <1>2, <1>3
  DEF ClientStarts, CreateApproval, DecideApproval, ExecuteClaim, RetryClaim, ReconcileStart
<1>4. ASSUME NEW p \in Callers, Proceed(p) \/ Crash(p)
      PROVE  Reports(p, outcome) /\ call[p].on = a
  <2>1. CASE ExecuteReport(p)
    <3>1. call[p].at = "execute_report" /\ call[p].on = a /\ event = OutcomeEvent(call[p].result)
      BY <1>1, <2>1 DEF ExecuteReport, ReportAndReturn
    <3>. QED
      BY <3>1 DEF OutcomeEvent, ExecuteOutcome, Reports
  <2>2. CASE ReconcileReport(p)
    <3>1. call[p].at = "reconcile_report" /\ call[p].on = a /\ event = Reconciled(call[p].seen)
      BY <1>1, <2>2 DEF ReconcileReport, ReportAndReturn
    <3>. QED
      BY <3>1 DEF Reports
  <2>3. CASE \/ ReportCreated(p) \/ ReportDecided(p) \/ ExecuteStarted(p) \/ RetryStarted(p)
             \/ RetryAnnounce(p) \/ ReconcileStarted(p) \/ ReconcileStale(p)
    BY <1>1, <2>3
    DEF ReportCreated, ReportDecided, ExecuteStarted, RetryStarted, RetryAnnounce,
        ReconcileStarted, ReconcileStale, Report, ReportAndReturn
  <2>. QED
    BY <1>2, <1>4, <2>1, <2>2, <2>3
    DEF Proceed, Crash, ExecuteApply, ExecuteMark, RetryCheck, RetryResolve, RetryApply,
        RetryMark, ReconcileCheck, ReconcileResolve
<1>. QED
  BY <1>2, <1>3, <1>4 DEF Next, Callers, ClientStarts, Tick, ClusterStep, vars

(* The trail never contradicts the row, whoever else was settling the row  *)
(* between a caller's mark, or its last look at the row, and its event.    *)
THEOREM TrailMatchesRow == Spec => []AuditAgrees
<1>1. Init => ReportInv /\ AuditAgrees
  BY DEF Init, AuditInit, ReportInv, Reports, AuditAgrees, Idle
<1>2. ASSUME TypeOK, ReportInv, AuditAgrees, [Next]_vars
      PROVE  AuditAgrees'
  <2>1. ASSUME NEW a \in Approvals, NEW outcome \in {"COMPLETED", "FAILED"},
               NEW event \in Outcomes(outcome), event \in audit'[a]
        PROVE  status'[a] = outcome
    <3>1. CASE event \in audit[a]
      BY <1>2, <2>1, <3>1, SettledStays DEF AuditAgrees
    <3>2. CASE event \notin audit[a]
      BY <1>2, <2>1, <3>2, OutcomesAreReported, SettledStays DEF ReportInv
    <3>. QED
      BY <3>1, <3>2
  <2>. QED
    BY <2>1 DEF AuditAgrees, Outcomes, Reconciled
<1>3. TypeOK /\ TypeOK' /\ ReportInv /\ AuditAgrees /\ [Next]_vars => ReportInv' /\ AuditAgrees'
  BY <1>2, NextReport
<1>. QED
  BY <1>1, <1>3, TypeCorrect, PTL DEF Spec

----------------------------------------------------------------------------
(* One training run.  A Job that exists keeps others from being created;   *)
(* once it is gone its row is settled and nothing that could create        *)
(* another is left or can come back.                                       *)

GoneForGood(a) ==
    /\ status[a] \in {"COMPLETED", "FAILED"}
    /\ ~inflight[a]
    /\ \A p \in Callers : ~Owns(p, a)

OneRunInv ==
    \A a \in Approvals : /\ runs[a] <= 1
                         /\ runs[a] > 0 /\ job[a] = "absent" => GoneForGood(a)

LEMMA GoneStaysGone ==
  ASSUME TypeOK, [Next]_vars, NEW a \in Approvals, GoneForGood(a), job[a] = "absent"
  PROVE  GoneForGood(a)' /\ job'[a] = job[a]
<1>1. status'[a] \in {"COMPLETED", "FAILED"}
  BY SettledStays DEF GoneForGood
<1>2. ~ClusterChanges(a)
  BY DEF GoneForGood, ClusterChanges
<1>3. inflight'[a] = inflight[a] /\ job'[a] = job[a]
  BY <1>2, OneJobMoves DEF clusterVars
<1>4. \A p \in Callers : ~Owns(p, a)'
  BY <1>1, OwnersComeFromClaims DEF GoneForGood
<1>. QED
  BY <1>1, <1>3, <1>4 DEF GoneForGood

(* However many requests, retries, reconcilers and crashes there are, an   *)
(* approval causes one training run, if rows are settled before finished   *)
(* Jobs are deleted; for any lease and any hold.                           *)
THEOREM OneRunPerApproval ==
  ASSUME ReconciledWithinTTL
  PROVE  Spec => []RunsAtMostOnce
<1>1. Init => OneRunInv
  <2> SUFFICES ASSUME Init, NEW a \in Approvals
               PROVE  runs[a] <= 1 /\ ~(runs[a] > 0)
    BY DEF OneRunInv
  <2>1. runs[a] = 0
    BY DEF Init, ClusterInit
  <2>. QED
    BY <2>1
<1>2. TypeOK /\ TypeOK' /\ OneRunInv /\ [Next]_vars => OneRunInv'
  <2> SUFFICES ASSUME TypeOK, TypeOK', OneRunInv, [Next]_vars, NEW a \in Approvals
               PROVE  runs'[a] <= 1 /\ (runs'[a] > 0 /\ job'[a] = "absent" => GoneForGood(a)')
    BY DEF OneRunInv
  <2>1. runs[a] \in 0..2
    BY DEF TypeOK, ClusterTypeOK
  <2>2. CASE JobRunsOn(a)
    BY <2>1, <2>2, GoneStaysGone DEF JobRunsOn, OneRunInv
  <2>3. CASE JobIsCreated(a)
    <3>1. ~GoneForGood(a)
      BY <2>3, GoneStaysGone DEF JobIsCreated
    <3>2. runs[a] = 0
      BY <2>1, <2>3, <3>1 DEF OneRunInv, JobIsCreated
    <3>. QED
      BY <2>3, <3>2 DEF JobIsCreated
  <2>4. CASE JobExpires(a)
    <3>1. GoneForGood(a)
      BY <2>4 DEF JobExpires, Expired, GoneForGood
    <3>2. GoneForGood(a)'
      BY <2>4, <3>1 DEF JobExpires, GoneForGood, Owns, storeVars
    <3>. QED
      BY <2>4, <3>2 DEF JobExpires, OneRunInv
  <2>. QED
    BY <2>2, <2>3, <2>4, JobMoves
<1>3. TypeOK /\ OneRunInv => RunsAtMostOnce
  BY DEF OneRunInv, RunsAtMostOnce
<1>. QED
  BY <1>1, <1>2, <1>3, TypeCorrect, PTL DEF Spec

----------------------------------------------------------------------------
(* Abandoned leases.  A row is given back as UNKNOWN by its owner, who     *)
(* leaves with that step, or because the lease has run out.                *)

LEMMA GivenBack ==
  ASSUME TypeOK, [Next]_vars, NEW a \in Approvals,
         status[a] = "EXECUTING", status'[a] = "UNKNOWN"
  PROVE  Stale(a) \/ \E q \in Callers : Owns(q, a) /\ ~Owns(q, a)'
<1>. DEFINE Goal == Stale(a) \/ \E q \in Callers : Owns(q, a) /\ ~Owns(q, a)'
<1>1. ~UNCHANGED status /\ ~UNCHANGED storeVars
  BY DEF storeVars
<1>2. ASSUME NEW b, NEW target, Mark(b, target)
      PROVE  a = b /\ target = "UNKNOWN"
  BY <1>1, <1>2 DEF Mark, MarkUnknown, MarkSettled, Transition, TypeOK, StoreTypeOK
<1>3. ASSUME NEW p \in Callers, NEW b \in Approvals, ClientStarts(p, b)
      PROVE  FALSE
  BY <1>1, <1>3
  DEF ClientStarts, CreateApproval, Create, DecideApproval, Decide, Transition, ExecuteClaim,
      ClaimExecution, RetryClaim, ClaimRetryExecution, ReconcileStart, TypeOK, StoreTypeOK
<1>4. ASSUME NEW p \in Callers, Proceed(p) \/ Crash(p)
      PROVE  Goal
  <2>1. ASSUME NEW recovered,
               \/ Release(p, "execute_report")
               \/ Conclude(p, "reconcile_report", recovered)
               \/ Return(p)
        PROVE  ~Owns(p, a)'
    BY <2>1
    DEF Release, Conclude, Return, Idle, Owns, OwnerSteps, ExecuteSteps, RetrySteps, TypeOK, CallTypeOK, Calls
  <2>2. CASE ExecuteMark(p)
    <3>1. Mark(call[p].on, ExecuteOutcome(call[p].result)) /\ Release(p, "execute_report")
      BY <1>1, <2>2 DEF ExecuteMark, MarkOrRaise
    <3>2. Owns(p, a)
      BY <1>2, <2>2, <3>1 DEF ExecuteMark, Owns, OwnerSteps, ExecuteSteps
    <3>. QED
      BY <2>1, <3>1, <3>2
  <2>3. CASE RetryMark(p)
    <3>1. Mark(call[p].on, RetryOutcome(call[p].result)) /\ Return(p)
      BY <1>1, <2>3 DEF RetryMark, MarkOrRaise
    <3>2. Owns(p, a)
      BY <1>2, <2>3, <3>1 DEF RetryMark, Owns, OwnerSteps, RetrySteps
    <3>. QED
      BY <2>1, <3>1, <3>2
  <2>4. CASE RetryResolve(p)
    <3>1. PICK target \in {"COMPLETED", "FAILED", "UNKNOWN"} :
             /\ Mark(call[p].on, target)
             /\ Conclude(p, "reconcile_report", target) \/ Return(p)
      BY <1>1, <2>4 DEF RetryResolve, MarkOrRaise
    <3>2. Owns(p, a)
      BY <1>2, <2>4, <3>1 DEF RetryResolve, Owns, OwnerSteps, RetrySteps
    <3>. QED
      BY <2>1, <3>1, <3>2
  <2>5. CASE ReconcileResolve(p)
    <3>1. RecoverStaleExecution(call[p].on) => Stale(a)
      BY <1>1 DEF RecoverStaleExecution, TypeOK, StoreTypeOK
    <3>. QED
      BY <1>1, <1>2, <2>5, <3>1 DEF ReconcileResolve, MarkOrRaise
  <2>. QED
    BY <1>1, <1>4, <2>2, <2>3, <2>4, <2>5, StoreFrame DEF Proceed
<1>. QED
  BY <1>1, <1>3, <1>4 DEF Next, Callers, ClientStarts, Tick, Ageing, ClusterStep, vars

(* A lease that has run out has no live owner.                             *)
LEMMA StaleIsAbandoned ==
  ASSUME MaxHold < Lease, LeaseInv, NEW a \in Approvals, Stale(a), NEW p \in Callers
  PROVE  ~Owns(p, a)
<1>1. call[p].held \in 0..MaxHold /\ age[a] \in 0..Lease
  BY DEF LeaseInv, TypeOK, CallTypeOK, Calls, StoreTypeOK
<1>. QED
  BY <1>1, LeaseAssumption, CallersAssumption DEF Stale, LeaseInv, OwnersHoldTheLease

(* recover_stale_execution takes a row away from nobody who still works on *)
(* it, if no live owner takes as long as the lease.                        *)
THEOREM RecoveryIsSafe ==
  ASSUME MaxHold < Lease
  PROVE  Spec => OnlyAbandonedIsRecovered
<1>. DEFINE Step == \A a \in Approvals, p \in Callers :
        status[a] = "EXECUTING" /\ status'[a] = "UNKNOWN" /\ Owns(p, a) => ~Owns(p, a)'
<1>1. LeaseInv /\ [Next]_vars => Step
  <2> SUFFICES ASSUME LeaseInv, [Next]_vars, NEW a \in Approvals, NEW p \in Callers,
                      status[a] = "EXECUTING", status'[a] = "UNKNOWN", Owns(p, a)
               PROVE  ~Owns(p, a)'
    OBVIOUS
  <2>1. ~Stale(a)
    BY StaleIsAbandoned
  <2>2. PICK q \in Callers : Owns(q, a) /\ ~Owns(q, a)'
    BY <2>1, GivenBack DEF LeaseInv
  <2>. QED
    BY <2>2 DEF LeaseInv, SingleOwner
<1>. QED
  BY <1>1, LeaseCorrect, PTL DEF Spec, OnlyAbandonedIsRecovered

----------------------------------------------------------------------------
(* Settled rows in the trail.  Without crashes, whoever settles a row goes *)
(* on to report it, except for a retry, which has announced itself.        *)

Settled(s) == s \in {"COMPLETED", "FAILED"}

(* Caller p is about to report the outcome in row a.                       *)
Reporting(p, a) == call[p].on = a /\ Reports(p, status[a])

ReportedInv ==
    crashes = 0 =>
        /\ \A p \in Callers : call[p].at \in {"retry_apply", "retry_mark"}
                                  => "EXECUTION_RETRY" \in audit[call[p].on]
        /\ \A a \in Approvals :
              Settled(status[a]) => \/ "EXECUTION_RETRY" \in audit[a]
                                    \/ audit[a] \cap Outcomes(status[a]) # {}
                                    \/ \E p \in Callers : Reporting(p, a)

(* Events are never taken back.                                            *)
LEMMA TrailGrows ==
  ASSUME TypeOK, [Next]_vars, NEW a \in Approvals
  PROVE  audit[a] \subseteq audit'[a]
<1>1. ASSUME NEW b, NEW event, Record(b, event) \/ UNCHANGED audit
      PROVE  audit[a] \subseteq audit'[a]
  BY <1>1 DEF Record, TypeOK, AuditTypeOK
<1>. QED
  BY <1>1
  DEF Next, ClientStarts, CreateApproval, DecideApproval, ExecuteClaim, RetryClaim, ReconcileStart,
      Proceed, ReportCreated, ReportDecided, ExecuteStarted, ExecuteApply, ExecuteMark,
      ExecuteReport, RetryStarted, RetryCheck, RetryResolve, RetryAnnounce, RetryApply, RetryMark,
      ReconcileStarted, ReconcileCheck, ReconcileResolve, ReconcileStale, ReconcileReport,
      Report, ReportAndReturn, Crash, Tick, ClusterStep, vars

LEMMA NoCrashYet ==
  ASSUME TypeOK, [Next]_vars, crashes' = 0
  PROVE  crashes = 0 /\ \A p \in Callers : ~Crash(p)
<1>1. crashes \in Nat
  BY CallersAssumption DEF TypeOK
<1>2. \A p \in Callers : ~Crash(p)
  BY <1>1 DEF Crash
<1>. QED
  BY <1>2
  DEF Next, ClientStarts, CreateApproval, DecideApproval, ExecuteClaim, RetryClaim, ReconcileStart,
      Proceed, ReportCreated, ReportDecided, ExecuteStarted, ExecuteApply, ExecuteMark,
      ExecuteReport, RetryStarted, RetryCheck, RetryResolve, RetryAnnounce, RetryApply, RetryMark,
      ReconcileStarted, ReconcileCheck, ReconcileResolve, ReconcileStale, ReconcileReport,
      Report, ReportAndReturn, Tick, ClusterStep, vars, Callers

(* Without a crash, a caller stays as it is or goes on with its handler.   *)
LEMMA CallerMoves ==
  ASSUME TypeOK, [Next]_vars, crashes' = 0, NEW p \in Callers, ~SameCall(p)
  PROVE  Proceed(p) \/ \E a \in Approvals : ClientStarts(p, a)
BY CallerActs, NoCrashYet

LEMMA ReportsArrive ==
  ASSUME TypeOK, TypeOK', [Next]_vars, crashes' = 0, NEW p \in Callers, NEW a \in Approvals,
         Settled(status[a]), Reporting(p, a)
  PROVE  Reporting(p, a)' \/ audit'[a] \cap Outcomes(status'[a]) # {}
<1>. USE DEF Settled
<1>1. status'[a] = status[a]
  BY SettledStays
<1>2. CASE SameCall(p)
  BY <1>1, <1>2 DEF SameCall, Reporting, Reports, ExecuteOutcome
<1>3. CASE ~SameCall(p)
  <2>1. call[p].at \in {"reconcile_stale", "reconcile_report", "execute_report"} /\ call[p].on = a
    BY DEF Reporting, Reports
  <2>2. \A b \in Approvals : ~ClientStarts(p, b)
    BY <2>1
    DEF ClientStarts, CreateApproval, DecideApproval, ExecuteClaim, RetryClaim, ReconcileStart, Enter
  <2>3. Proceed(p)
    BY <1>3, <2>2, CallerMoves
  <2>4. ReconcileStale(p) \/ ReconcileReport(p) \/ ExecuteReport(p)
    BY <2>1, <2>3
    DEF Proceed, ReportCreated, ReportDecided, ExecuteStarted, ExecuteApply, ExecuteMark,
        RetryStarted, RetryCheck, RetryResolve, RetryAnnounce, RetryApply, RetryMark,
        ReconcileStarted, ReconcileCheck, ReconcileResolve, Report, ReportAndReturn
  <2>5. CASE ReconcileStale(p)
    BY <1>1, <2>5
    DEF ReconcileStale, Report, Goto, Reporting, Reports, TypeOK, CallTypeOK, Calls
  <2>6. CASE ReconcileReport(p)
    <3>1. Record(a, Reconciled(status[a]))
      BY <2>1, <2>6 DEF ReconcileReport, ReportAndReturn, Reporting, Reports
    <3>. QED
      BY <1>1, <3>1 DEF Record, Outcomes, TypeOK, AuditTypeOK
  <2>7. CASE ExecuteReport(p)
    <3>1. Record(a, OutcomeEvent(call[p].result)) /\ ExecuteOutcome(call[p].result) = status[a]
      BY <2>1, <2>7 DEF ExecuteReport, ReportAndReturn, Reporting, Reports
    <3>2. OutcomeEvent(call[p].result) \in Outcomes(status[a])
      BY <3>1 DEF OutcomeEvent, ExecuteOutcome, Outcomes
    <3>. QED
      BY <1>1, <3>1, <3>2 DEF Record, TypeOK, AuditTypeOK
  <2>. QED
    BY <2>4, <2>5, <2>6, <2>7
<1>. QED
  BY <1>2, <1>3

LEMMA RetriesAreAnnounced ==
  ASSUME TypeOK, ReportedInv, [Next]_vars, crashes' = 0, NEW p \in Callers,
         call'[p].at \in {"retry_apply", "retry_mark"}
  PROVE  "EXECUTION_RETRY" \in audit'[call'[p].on]
<1>. DEFINE Announced == /\ call[p].at \in {"retry_apply", "retry_mark"}
                         /\ call'[p].on = call[p].on
<1>1. Announced => "EXECUTION_RETRY" \in audit'[call'[p].on]
  <2>1. Announced => call[p].on \in Approvals
    BY DEF TypeOK, CallTypeOK
  <2>. QED
    BY <2>1, NoCrashYet, TrailGrows DEF ReportedInv
<1>2. CASE SameCall(p)
  BY <1>1, <1>2 DEF SameCall
<1>3. CASE ~SameCall(p)
  <2>1. \A b \in Approvals : ~ClientStarts(p, b)
    BY DEF ClientStarts, CreateApproval, DecideApproval, ExecuteClaim, RetryClaim, ReconcileStart,
       Enter, Idle, TypeOK, CallTypeOK
  <2>2. Proceed(p)
    BY <1>3, <2>1, CallerMoves
  <2>3. CASE RetryAnnounce(p)
    BY <2>3 DEF RetryAnnounce, Report, Goto, Record, TypeOK, CallTypeOK, Calls, AuditTypeOK
  <2>4. CASE RetryApply(p)
    <3>1. Announced
      BY <2>4 DEF RetryApply, GotoWith, TypeOK, CallTypeOK, Calls
    <3>. QED
      BY <1>1, <3>1
  <2>5. ASSUME NEW step, Goto(p, step) \/ Release(p, step) \/ Return(p),
               step \notin {"retry_apply", "retry_mark"}
        PROVE  FALSE
    BY <2>5 DEF Goto, Release, Return, Idle, TypeOK, CallTypeOK, Calls
  <2>6. ASSUME NEW step, NEW result, GotoWith(p, step, result),
               step \notin {"retry_apply", "retry_mark"}
        PROVE  FALSE
    BY <2>6 DEF GotoWith, TypeOK, CallTypeOK, Calls
  <2>7. ASSUME NEW step \in ReconcileSteps, NEW recovered, Conclude(p, step, recovered)
        PROVE  FALSE
    BY <2>7 DEF Conclude, ReconcileSteps, TypeOK, CallTypeOK, Calls
  <2>8. ~RetryResolve(p) /\ ~ReconcileResolve(p)
    BY <2>5, <2>7 DEF RetryResolve, ReconcileResolve, MarkOrRaise, ReconcileSteps
  <2>. QED
    BY <2>2, <2>3, <2>4, <2>5, <2>6, <2>8
    DEF Proceed, ReportCreated, ReportDecided, ExecuteStarted, ExecuteApply, ExecuteMark,
        ExecuteReport, RetryStarted, RetryCheck, RetryMark, ReconcileStarted,
        ReconcileCheck, ReconcileStale, ReconcileReport, Report, ReportAndReturn, MarkOrRaise
<1>. QED
  BY <1>2, <1>3

(* Whoever settles a row is about to report it, or a retry did it.         *)
LEMMA SettlersReport ==
  ASSUME TypeOK, [Next]_vars, NEW a \in Approvals, ~Settled(status[a]), Settled(status'[a])
  PROVE  \E p \in Callers : \/ Reporting(p, a)'
                            \/ call[p].at = "retry_mark" /\ call[p].on = a
<1>. DEFINE Goal == \E p \in Callers : \/ Reporting(p, a)'
                                       \/ call[p].at = "retry_mark" /\ call[p].on = a
<1>1. ~UNCHANGED status /\ ~UNCHANGED storeVars
  BY DEF storeVars
<1>2. ASSUME NEW b, NEW target, Mark(b, target)
      PROVE  a = b /\ Settled(target)
  BY <1>1, <1>2 DEF Mark, MarkUnknown, MarkSettled, Transition, Settled, TypeOK, StoreTypeOK
<1>3. ASSUME NEW p \in Callers, NEW b \in Approvals, ClientStarts(p, b)
      PROVE  FALSE
  BY <1>1, <1>3
  DEF ClientStarts, CreateApproval, Create, DecideApproval, Decide, Transition, ExecuteClaim,
      ClaimExecution, RetryClaim, ClaimRetryExecution, ReconcileStart, Settled, TypeOK, StoreTypeOK
<1>4. ASSUME NEW p \in Callers, Proceed(p) \/ Crash(p)
      PROVE  Goal
  <2>1. CASE ExecuteMark(p)
    <3>1. Mark(call[p].on, ExecuteOutcome(call[p].result)) /\ Release(p, "execute_report")
      BY <1>1, <2>1 DEF ExecuteMark, MarkOrRaise
    <3>2. call[p].on = a /\ status'[a] = ExecuteOutcome(call[p].result)
      BY <1>2, <3>1, MarkSets DEF Settled
    <3>. QED
      BY <3>1, <3>2 DEF Release, Reporting, Reports, TypeOK, CallTypeOK, Calls
  <2>2. CASE RetryMark(p)
    BY <1>1, <1>2, <2>2 DEF RetryMark, MarkOrRaise
  <2>3. CASE RetryResolve(p)
    <3>1. PICK target \in {"COMPLETED", "FAILED"} :
             Mark(call[p].on, target) /\ Conclude(p, "reconcile_report", target)
      BY <1>1, <1>2, <2>3 DEF RetryResolve, MarkOrRaise, Settled
    <3>2. call[p].on = a /\ status'[a] = target
      BY <1>2, <3>1, MarkSets
    <3>. QED
      BY <3>1, <3>2 DEF Conclude, Reporting, Reports, TypeOK, CallTypeOK, Calls
  <2>4. CASE ReconcileResolve(p)
    <3>1. ~RecoverStaleExecution(call[p].on)
      BY <1>1 DEF RecoverStaleExecution, Settled, TypeOK, StoreTypeOK
    <3>2. PICK target \in {"COMPLETED", "FAILED"} :
             Mark(call[p].on, target) /\ Conclude(p, "reconcile_report", target)
      BY <1>1, <1>2, <2>4, <3>1 DEF ReconcileResolve, MarkOrRaise
    <3>3. call[p].on = a /\ status'[a] = target
      BY <1>2, <3>2, MarkSets
    <3>. QED
      BY <3>2, <3>3 DEF Conclude, Reporting, Reports, TypeOK, CallTypeOK, Calls
  <2>. QED
    BY <1>1, <1>4, <2>1, <2>2, <2>3, <2>4, StoreFrame DEF Proceed
<1>. QED
  BY <1>1, <1>3, <1>4 DEF Next, Callers, ClientStarts, Tick, Ageing, ClusterStep, vars

(* Without a crash and without a retry, the trail of a settled execution   *)
(* gives its outcome as soon as nobody is at work on it.                   *)
THEOREM SettlingIsRecorded == Spec => []SettledIsAudited
<1>1. Init => ReportedInv
  BY DEF Init, StoreInit, ReportedInv, Idle, Settled
<1>2. ASSUME TypeOK, TypeOK', ReportedInv, [Next]_vars, crashes' = 0
      PROVE  ReportedInv'
  <2>1. crashes = 0
    BY <1>2, NoCrashYet
  <2>2. ASSUME NEW a \in Approvals, Settled(status'[a])
        PROVE  \/ "EXECUTION_RETRY" \in audit'[a]
               \/ audit'[a] \cap Outcomes(status'[a]) # {}
               \/ \E p \in Callers : Reporting(p, a)'
    <3>1. CASE Settled(status[a])
      <4>1. status'[a] = status[a]
        BY <1>2, <3>1, SettledStays DEF Settled
      <4>. QED
        BY <1>2, <2>1, <3>1, <4>1, TrailGrows, ReportsArrive DEF ReportedInv
    <3>2. CASE ~Settled(status[a])
      BY <1>2, <2>1, <2>2, <3>2, SettlersReport, TrailGrows DEF ReportedInv
    <3>. QED
      BY <3>1, <3>2
  <2>. QED
    BY <1>2, <2>2, RetriesAreAnnounced DEF ReportedInv
<1>3. TypeOK /\ TypeOK' /\ ReportedInv /\ [Next]_vars => ReportedInv'
  BY <1>2 DEF ReportedInv
<1>4. ReportedInv => SettledIsAudited
  BY DEF ReportedInv, SettledIsAudited, SettledForGood, Settled, Reporting
<1>. QED
  BY <1>1, <1>3, <1>4, TypeCorrect, PTL DEF Spec

----------------------------------------------------------------------------
(* What a retry rests on.  The run execution_kubectl_error shows a retry   *)
(* that announces itself beside a running Job; the failing kubectl get is  *)
(* the only way to that: with GetErrors FALSE, retry_if_absent goes on     *)
(* only from a check made while there was no Job.                          *)
THEOREM RetriesFindNoJob ==
  ASSUME ~GetErrors
  PROVE  Spec => RetryOnlyWhenAbsent
<1>1. ASSUME TypeOK, [Next]_vars, NEW p \in Callers,
             call[p].at = "retry_check", call'[p].at = "retry_announce"
      PROVE  job[call[p].on] = "absent"
  <2>1. JobStatus(call[p].on, "absent")
    <3>1. ~SameCall(p)
      BY <1>1 DEF SameCall
    <3>2. ~Crash(p)
      BY <1>1 DEF Crash, Return, Idle, TypeOK, CallTypeOK
    <3>3. \A a \in Approvals : ~ClientStarts(p, a)
      BY <1>1
      DEF ClientStarts, CreateApproval, DecideApproval, ExecuteClaim, RetryClaim, ReconcileStart, Enter
    <3>4. Proceed(p)
      BY <1>1, <3>1, <3>2, <3>3, CallerActs
    <3>5. RetryCheck(p)
      BY <1>1, <3>4
      DEF Proceed, ReportCreated, ReportDecided, ExecuteStarted, ExecuteApply, ExecuteMark,
          ExecuteReport, RetryStarted, RetryResolve, RetryAnnounce, RetryApply, RetryMark,
          ReconcileStarted, ReconcileCheck, ReconcileResolve, ReconcileStale, ReconcileReport,
          Report, ReportAndReturn
    <3>. QED
      BY <1>1, <3>5 DEF RetryCheck, GotoWith, TypeOK, CallTypeOK, Calls
  <2>2. Observed(call[p].on) = "absent"
    BY <2>1 DEF JobStatus
  <2>. QED
    BY <2>2 DEF Observed
<1>2. TypeOK /\ [Next]_vars =>
        [\A p \in Callers :
            call[p].at = "retry_check" /\ call'[p].at = "retry_announce"
                => job[call[p].on] = "absent"]_vars
  BY <1>1
<1>. QED
  BY <1>2, TypeCorrect, PTL DEF Spec, RetryOnlyWhenAbsent
=============================================================================
