--------------------------- MODULE ApprovalStore ---------------------------
(***************************************************************************)
(* The approval table (ai_engineering/storage/approval_store.py).          *)
(*                                                                         *)
(* Every method reads its row with SELECT ... FOR UPDATE and commits before *)
(* it returns, so each of them is one atomic action on one row.  A row is  *)
(* reduced to its status and to the time since execution_started_at,       *)
(* counted in clock ticks and saturated at the lease: the code only ever   *)
(* asks whether the lease has run out.                                     *)
(*                                                                         *)
(* A method that raises changes nothing; Refuses(a, target) is the state   *)
(* in which _transition raises InvalidApprovalTransition.                  *)
(***************************************************************************)
EXTENDS Naturals, ApprovalIds

CONSTANT
    Lease       \* AI_EXECUTION_LEASE_SECONDS, in clock ticks

ASSUME LeaseAssumption == Lease \in Nat \ {0}

VARIABLES
    status,     \* status[a]: the row's status, "MISSING" before it is inserted
    age         \* age[a]: ticks since execution_started_at, at most Lease

storeVars == <<status, age>>

Statuses == {"PENDING", "APPROVED", "REJECTED", "EXECUTING",
             "UNKNOWN", "COMPLETED", "FAILED"}

StoreTypeOK ==
    /\ status \in [Approvals -> Statuses \cup {"MISSING"}]
    /\ age \in [Approvals -> 0..Lease]

StoreInit ==
    /\ status = [a \in Approvals |-> "MISSING"]
    /\ age = [a \in Approvals |-> 0]

----------------------------------------------------------------------------
(* A definition named Slip... is a plausible mistake in the definition      *)
(* after it; it is used only to see that a property notices the mistake.   *)

SlipPendingIsExecutable(s) ==
    CASE s = "PENDING"   -> {"APPROVED", "REJECTED", "EXECUTING"}
      [] s = "APPROVED"  -> {"EXECUTING"}
      [] s = "EXECUTING" -> {"UNKNOWN", "COMPLETED", "FAILED"}
      [] s = "UNKNOWN"   -> {"COMPLETED", "FAILED"}
      [] OTHER           -> {}

SlipUnknownIsFinal(s) ==
    CASE s = "PENDING"   -> {"APPROVED", "REJECTED"}
      [] s = "APPROVED"  -> {"EXECUTING"}
      [] s = "EXECUTING" -> {"UNKNOWN", "COMPLETED", "FAILED"}
      [] OTHER           -> {}

(* _TRANSITIONS *)
Transitions(s) ==
    CASE s = "PENDING"   -> {"APPROVED", "REJECTED"}
      [] s = "APPROVED"  -> {"EXECUTING"}
      [] s = "EXECUTING" -> {"UNKNOWN", "COMPLETED", "FAILED"}
      [] s = "UNKNOWN"   -> {"COMPLETED", "FAILED"}
      [] OTHER           -> {}

(* _transition, when it does not raise *)
Transition(a, target) ==
    /\ target \in Transitions(status[a])
    /\ status' = [status EXCEPT ![a] = target]

(* _transition raises; the mark_* methods that are idempotent do not call  *)
(* it on a row that already has the target status.                         *)
Refuses(a, target) == target \notin Transitions(status[a])

Create(a) ==
    /\ status[a] = "MISSING"
    /\ status' = [status EXCEPT ![a] = "PENDING"]
    /\ UNCHANGED age

SlipDecideOutsideTheEnum(a, approved) ==
    /\ status[a] = "PENDING"
    /\ status' = [status EXCEPT ![a] = IF approved THEN "APPROVED" ELSE "DECLINED"]
    /\ UNCHANGED age

Decide(a, approved) ==
    /\ Transition(a, IF approved THEN "APPROVED" ELSE "REJECTED")
    /\ UNCHANGED age

(* claim_execution as owner.  On an EXECUTING row it returns owner = False *)
(* and in any other state it raises: neither changes the row.              *)
ClaimExecution(a) ==
    /\ Transition(a, "EXECUTING")
    /\ age' = [age EXCEPT ![a] = 0]

MarkUnknown(a) ==
    /\ Transition(a, "UNKNOWN")
    /\ UNCHANGED age

SlipMarkUnguarded(a, target) ==
    /\ status' = [status EXCEPT ![a] = target]
    /\ UNCHANGED age

(* mark_completed and mark_failed: a no-op on a row that already has the   *)
(* target status, a guarded transition otherwise.                          *)
MarkSettled(a, target) ==
    /\ \/ status[a] = target /\ UNCHANGED status
       \/ Transition(a, target)
    /\ UNCHANGED age

MarkCompleted(a) == MarkSettled(a, "COMPLETED")
MarkFailed(a)    == MarkSettled(a, "FAILED")

SlipClaimRetryKeepsStart(a) ==
    /\ status[a] = "UNKNOWN"
    /\ status' = [status EXCEPT ![a] = "EXECUTING"]
    /\ UNCHANGED age

SlipClaimRetryOfFailed(a) ==
    /\ status[a] \in {"UNKNOWN", "FAILED"}
    /\ status' = [status EXCEPT ![a] = "EXECUTING"]
    /\ age' = [age EXCEPT ![a] = 0]

(* claim_retry_execution as owner; on any other status it returns False.   *)
ClaimRetryExecution(a) ==
    /\ status[a] = "UNKNOWN"
    /\ status' = [status EXCEPT ![a] = "EXECUTING"]
    /\ age' = [age EXCEPT ![a] = 0]

(* recover_stale_execution.  started_at > cutoff is "not stale yet", so a  *)
(* row is recovered from the first tick at which its age equals the lease. *)
Stale(a) == status[a] = "EXECUTING" /\ age[a] >= Lease

SlipRecoverWithoutLease(a) ==
    /\ status[a] = "EXECUTING"
    /\ status' = [status EXCEPT ![a] = "UNKNOWN"]
    /\ UNCHANGED age

SlipRecoverUnknownRows(a) ==
    /\ status[a] = "UNKNOWN" /\ age[a] >= Lease
    /\ UNCHANGED <<status, age>>

SlipRecoverOutsideTheEnum(a) ==
    /\ Stale(a)
    /\ status' = [status EXCEPT ![a] = "EXPIRED"]
    /\ UNCHANGED age

RecoverStaleExecution(a) ==
    /\ Stale(a)
    /\ status' = [status EXCEPT ![a] = "UNKNOWN"]
    /\ UNCHANGED age

(* One tick of the clock, as the rows see it. *)
Ageing ==
    /\ age' = [a \in Approvals |->
                  IF status[a] = "EXECUTING" /\ age[a] < Lease THEN age[a] + 1 ELSE age[a]]
    /\ UNCHANGED status
============================================================================
