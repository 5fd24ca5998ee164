----------------------------- MODULE AuditTrail -----------------------------
(***************************************************************************)
(* The append-only audit table (ai_engineering/storage/audit_store.py,     *)
(* services/audit_service.py).  Every record() commits in a transaction of *)
(* its own, after the status change it reports: a caller that stops in     *)
(* between leaves the change without its event.  The model keeps, for each *)
(* approval, which events its trace holds.  An event is its type; that a   *)
(* reconciliation is over says nothing of how it ended, so that event also *)
(* carries the status it was recorded with.                                *)
(***************************************************************************)
EXTENDS ApprovalIds

VARIABLE audit  \* audit[a]: the events recorded under the trace of a

(* EXECUTION_RECONCILIATION_COMPLETED with the given status, of which any  *)
(* but COMPLETED and FAILED leaves the outcome open.                       *)
Reconciled(s) ==
    CASE s = "COMPLETED" -> "RECONCILED_COMPLETED"
      [] s = "FAILED"    -> "RECONCILED_FAILED"
      [] OTHER           -> "RECONCILED_OPEN"

Events == {"APPROVAL_REQUESTED", "APPROVAL_DECIDED",
           "EXECUTION_STARTED", "EXECUTION_UNKNOWN",
           "EXECUTION_COMPLETED", "EXECUTION_FAILED", "EXECUTION_RETRY",
           "EXECUTION_RECONCILIATION_STARTED",
           "RECONCILED_COMPLETED", "RECONCILED_FAILED", "RECONCILED_OPEN"}

AuditTypeOK == audit \in [Approvals -> SUBSET Events]

AuditInit == audit = [a \in Approvals |-> {}]

Record(a, event) == audit' = [audit EXCEPT ![a] = @ \cup {event}]
=============================================================================
