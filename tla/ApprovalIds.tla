---------------------------- MODULE ApprovalIds ----------------------------
(***************************************************************************)
(* The identifiers that the approval table, the audit trail and the        *)
(* cluster share: one approval has one row, one trace and one Job name     *)
(* (schemas/approvals.py: approval_id; kubernetes_executor.py: _job_name). *)
(***************************************************************************)
CONSTANT Approvals
============================================================================
