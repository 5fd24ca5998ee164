----------------------- MODULE ApprovalSettlingProofs -----------------------
(***************************************************************************)
(* What the liveness of ApprovalExecution rests on and no fairness is      *)
(* needed for.  FinishedJobSettles and ExecutionEnds are checked by TLC    *)
(* under fairness; the theorems here say, for all constants, why a fair    *)
(* behaviour has nowhere else to go: every handler gets to its end in a    *)
(* few steps, and one caller that goes on with the Job's outcome in hand   *)
(* settles the row, for good, whoever races it.                            *)
(***************************************************************************)
EXTENDS ApprovalExecutionProofs

----------------------------------------------------------------------------
(* Handlers end.                                                           *)

(* The most steps a caller at the given place still takes.                 *)
ToGo(step) ==
    CASE step = "idle" -> 0
      [] step \in {"create_report", "decide_report", "execute_report", "reconcile_report"} -> 1
      [] step \in {"execute_mark", "retry_mark", "reconcile_stale"} -> 2
      [] step \in {"execute_apply", "retry_apply", "retry_resolve", "reconcile_resolve"} -> 3
      [] step \in {"execute_started", "retry_announce", "reconcile_check"} -> 4
      [] step \in {"retry_check", "reconcile_started"} -> 5
      [] OTHER -> 6

LEMMA ToGoIsBounded == ASSUME NEW step PROVE ToGo(step) \in 0..6
BY DEF ToGo

(* Going on with a handler is going on to a later place of it.             *)
LEMMA ProceedGoesOn ==
  ASSUME TypeOK, NEW p \in Callers, Proceed(p)
  PROVE  ToGo(call'[p].at) < ToGo(call[p].at)
<1>. USE DEF ToGo
<1>1. ASSUME NEW step, NEW recovered,
             Goto(p, step) \/ Release(p, step) \/ Conclude(p, step, recovered)
      PROVE  call'[p].at = step
  <2>1. CASE Goto(p, step)
    BY <2>1 DEF Goto, TypeOK, CallTypeOK, Calls
  <2>2. CASE Release(p, step)
    BY <2>2 DEF Release, TypeOK, CallTypeOK, Calls
  <2>3. CASE Conclude(p, step, recovered)
    BY <2>3 DEF Conclude, TypeOK, CallTypeOK, Calls
  <2>. QED
    BY <1>1, <2>1, <2>2, <2>3
<1>9. ASSUME NEW step, NEW result, GotoWith(p, step, result)
      PROVE  call'[p].at = step
  BY <1>9 DEF GotoWith, TypeOK, CallTypeOK, Calls
<1>2. Return(p) => call'[p].at = "idle"
  BY DEF Return, Idle, TypeOK, CallTypeOK
<1>3. CASE ReportCreated(p) \/ ReportDecided(p) \/ ExecuteReport(p) \/ ReconcileReport(p)
  BY <1>2, <1>3 DEF ReportCreated, ReportDecided, ExecuteReport, ReconcileReport, ReportAndReturn
<1>4. CASE \/ ExecuteStarted(p) \/ RetryStarted(p) \/ RetryAnnounce(p)
           \/ ReconcileStarted(p) \/ ReconcileStale(p)
  BY <1>1, <1>4
  DEF ExecuteStarted, RetryStarted, RetryAnnounce, ReconcileStarted, ReconcileStale, Report
<1>5. CASE ExecuteApply(p) \/ RetryApply(p)
  BY <1>9, <1>5 DEF ExecuteApply, RetryApply
<1>6. CASE ExecuteMark(p) \/ RetryMark(p)
  BY <1>1, <1>2, <1>6 DEF ExecuteMark, RetryMark, MarkOrRaise
<1>7. CASE RetryCheck(p) \/ ReconcileCheck(p)
  BY <1>2, <1>9, <1>7 DEF RetryCheck, ReconcileCheck
<1>8. CASE RetryResolve(p) \/ ReconcileResolve(p)
  BY <1>1, <1>2, <1>8 DEF RetryResolve, ReconcileResolve, MarkOrRaise
<1>. QED
  BY <1>3, <1>4, <1>5, <1>6, <1>7, <1>8 DEF Proceed

(* A handler that has begun ends: whatever the others do, each change of a *)
(* caller's place, going on or dying, leaves it fewer steps to its return, *)
(* and never more than six (execute_approval, reconcile, retry_if_absent). *)
THEOREM HandlersEnd ==
    Spec => [][\A p \in Callers :
                  /\ ToGo(call[p].at) \in 0..6
                  /\ call[p].at # "idle" /\ ~SameCall(p)
                         => ToGo(call'[p].at) < ToGo(call[p].at)]_vars
<1>1. ASSUME TypeOK, [Next]_vars, NEW p \in Callers, call[p].at # "idle", ~SameCall(p)
      PROVE  ToGo(call'[p].at) < ToGo(call[p].at)
  <2>1. \A a \in Approvals : ~ClientStarts(p, a)
    BY <1>1
    DEF ClientStarts, CreateApproval, DecideApproval, ExecuteClaim, RetryClaim, ReconcileStart, Enter
  <2>2. CASE Crash(p)
    BY <1>1, <2>2 DEF Crash, Return, Idle, ToGo, TypeOK, CallTypeOK
  <2>3. CASE Proceed(p)
    BY <1>1, <2>3, ProceedGoesOn
  <2>. QED
    BY <1>1, <2>1, <2>2, <2>3, CallerActs
<1>2. TypeOK /\ [Next]_vars =>
        [\A p \in Callers :
            /\ ToGo(call[p].at) \in 0..6
            /\ call[p].at # "idle" /\ ~SameCall(p)
                   => ToGo(call'[p].at) < ToGo(call[p].at)]_vars
  BY <1>1, ToGoIsBounded
<1>. QED
  BY <1>2, TypeCorrect, PTL DEF Spec

----------------------------------------------------------------------------
(* One answer settles the row.                                             *)

(* A caller that holds the outcome of a Job holds it for a row that can    *)
(* take it.                                                                *)
AnswersInv ==
    \A p \in Callers : call[p].at \in Resolved /\ call[p].result \in Finished
                           => status[call[p].on] \in Begun

LEMMA AnswersStep ==
  ASSUME TypeOK, TypeOK', BegunInv, AnswersInv, [Next]_vars
  PROVE  AnswersInv'
<1>. SUFFICES ASSUME NEW p \in Callers, call'[p].at \in Resolved, call'[p].result \in Finished
              PROVE  status'[call'[p].on] \in Begun
  BY DEF AnswersInv
<1>1. call'[p].on \in Approvals
  BY DEF Resolved, TypeOK, CallTypeOK
<1>2. status[call'[p].on] \in Begun
  <2>1. CASE SameCall(p)
    BY <2>1 DEF SameCall, AnswersInv
  <2>2. CASE JobStatus(call'[p].on, call'[p].result)
    <3>1. job[call'[p].on] # "absent"
      BY <2>2 DEF JobStatus, Observed, Finished
    <3>. QED
      BY <1>1, <3>1 DEF BegunInv, RunsAreClaimed, Begun
  <2>. QED
    BY <2>1, <2>2, KnowledgeIsLearned DEF Learned, Acting, Applied, Resolved
<1>. QED
  BY <1>1, <1>2, BegunStays

(* Caller p goes on with the outcome of a Job in hand.                     *)
ActsOnOutcome(p) ==
    call[p].at \in Resolved /\ call[p].result \in Finished /\ Proceed(p)

(* To mark a row that has begun with an outcome settles it, or finds it    *)
(* settled.                                                                *)
LEMMA MarkSettles ==
  ASSUME TypeOK, NEW a \in Approvals, status[a] \in Begun, NEW target \in {"COMPLETED", "FAILED"},
         Mark(a, target) \/ (MarkRaises(a, target) /\ UNCHANGED storeVars)
  PROVE  Settled(status'[a])
<1>1. CASE Mark(a, target)
  BY <1>1 DEF Mark, MarkSettled, Transition, Settled, TypeOK, StoreTypeOK
<1>2. CASE MarkRaises(a, target) /\ UNCHANGED storeVars
  BY <1>2 DEF MarkRaises, Refuses, Transitions, Begun, Settled, storeVars
<1>. QED
  BY <1>1, <1>2

LEMMA OutcomeSettles ==
  ASSUME TypeOK, AnswersInv, NEW p \in Callers, ActsOnOutcome(p)
  PROVE  Settled(status'[call[p].on])
<1>1. call[p].on \in Approvals /\ status[call[p].on] \in Begun
  BY DEF ActsOnOutcome, AnswersInv, Resolved, TypeOK, CallTypeOK
<1>2. RetryResolve(p) \/ ReconcileResolve(p)
  BY DEF ActsOnOutcome, Resolved, Proceed, ReportCreated, ReportDecided, ExecuteStarted,
         ExecuteApply, ExecuteMark, ExecuteReport, RetryStarted, RetryCheck, RetryAnnounce,
         RetryApply, RetryMark, ReconcileStarted, ReconcileCheck, ReconcileStale,
         ReconcileReport, Report, ReportAndReturn
<1>3. ASSUME NEW target \in {"COMPLETED", "FAILED"},
             MarkOrRaise(p, target, Conclude(p, "reconcile_report", target))
      PROVE  Settled(status'[call[p].on])
  <2>1. \/ Mark(call[p].on, target)
        \/ MarkRaises(call[p].on, target) /\ UNCHANGED storeVars
    BY <1>3 DEF MarkOrRaise
  <2>. QED
    BY <1>1, <2>1, MarkSettles
<1>4. CASE RetryResolve(p)
  BY <1>3, <1>4 DEF RetryResolve, ActsOnOutcome, Finished
<1>5. CASE ReconcileResolve(p)
  BY <1>3, <1>5 DEF ReconcileResolve, ActsOnOutcome, Finished
<1>. QED
  BY <1>2, <1>4, <1>5

LEMMA AnswersCorrect == Spec => [](TypeOK /\ AnswersInv)
<1>1. Init => AnswersInv
  BY DEF Init, AnswersInv, Idle, Resolved
<1>2. TypeOK /\ TypeOK' /\ BegunInv /\ AnswersInv /\ [Next]_vars => AnswersInv'
  BY AnswersStep
<1>. QED
  BY <1>1, <1>2, TypeCorrect, BegunCorrect, PTL DEF Spec

(* Whoever goes on with the outcome of a Job leaves a settled row behind,  *)
(* however old the answer is and whoever claimed, recovered or settled the *)
(* row meanwhile: the mark goes through, or raises because it came second  *)
(* (reconcile, retry_if_absent, mark_completed, mark_failed).              *)
THEOREM OutcomesSettle ==
    Spec => [][\A p \in Callers : ActsOnOutcome(p) => Settled(status'[call[p].on])]_vars
<1>1. TypeOK /\ AnswersInv =>
        [\A p \in Callers : ActsOnOutcome(p) => Settled(status'[call[p].on])]_vars
  BY OutcomeSettles
<1>. QED
  BY <1>1, AnswersCorrect, PTL DEF Spec

(* If ever a caller goes on with the outcome of a's Job, the row is        *)
(* settled from then on: what is left to fairness in FinishedJobSettles is *)
(* only that somebody is answered and lives to act on it.                  *)
THEOREM OneAnswerIsEnough ==
  ASSUME NEW a \in Approvals
  PROVE  Spec /\ <><<\E p \in Callers : ActsOnOutcome(p) /\ call[p].on = a>>_vars
             => <>[]Settled(status[a])
<1>. DEFINE Acted == \E p \in Callers : ActsOnOutcome(p) /\ call[p].on = a
            Done  == Settled(status[a])
<1>1. TypeOK /\ AnswersInv /\ <<Acted>>_vars => Done'
  BY OutcomeSettles
<1>2. TypeOK /\ Done /\ [Next]_vars => Done'
  BY SettledStays DEF Settled
<1>. HIDE DEF Acted, Done
<1>3. Spec /\ <><<Acted>>_vars => <>[]Done
  BY <1>1, <1>2, AnswersCorrect, PTL DEF Spec
<1>. QED
  BY <1>3 DEF Acted, Done
============================================================================
