------------------------- MODULE ApprovalLifecycle -------------------------
(***************************************************************************)
(* What the approval gate promises to everybody outside it: an approval    *)
(* moves along a fixed diagram, a decision is taken once, a settled        *)
(* outcome is final, and no training Job is launched for an approval that  *)
(* was not first approved and taken into execution.                        *)
(*                                                                         *)
(* The module knows nothing of requests, leases, clocks or kubectl.        *)
(* ApprovalExecution implements it.                                        *)
(***************************************************************************)
CONSTANT Approvals

VARIABLES
    status,     \* where each approval stands
    launched    \* the approvals a training Job was ever launched for

lifecycleVars == <<status, launched>>

(* Approvals whose execution has begun, and those that are over. *)
Begun   == {"EXECUTING", "UNKNOWN", "COMPLETED", "FAILED"}
Settled == {"REJECTED", "COMPLETED", "FAILED"}

Init ==
    /\ status = [a \in Approvals |-> "MISSING"]
    /\ launched = {}

Move(a, from, to) ==
    /\ status[a] \in from
    /\ status' = [status EXCEPT ![a] = to]
    /\ UNCHANGED launched

Request(a) == Move(a, {"MISSING"}, "PENDING")

Decide(a) == \E verdict \in {"APPROVED", "REJECTED"} : Move(a, {"PENDING"}, verdict)

Begin(a) == Move(a, {"APPROVED"}, "EXECUTING")

LoseTrack(a) == Move(a, {"EXECUTING"}, "UNKNOWN")

Resume(a) == Move(a, {"UNKNOWN"}, "EXECUTING")

Settle(a) ==
    \E outcome \in {"COMPLETED", "FAILED"} : Move(a, {"EXECUTING", "UNKNOWN"}, outcome)

Launch(a) ==
    /\ status[a] \in Begun
    /\ launched' = launched \cup {a}
    /\ UNCHANGED status

Next ==
    \E a \in Approvals :
        \/ Request(a)
        \/ Decide(a)
        \/ Begin(a)
        \/ LoseTrack(a)
        \/ Resume(a)
        \/ Settle(a)
        \/ Launch(a)

Spec == Init /\ [][Next]_lifecycleVars
============================================================================
