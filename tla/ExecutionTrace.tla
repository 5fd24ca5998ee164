--------------------------- MODULE ExecutionTrace ---------------------------
(***************************************************************************)
(* The life of one trace of agent events (ai_engineering/services/         *)
(* execution_trace.py): events are recorded while the trace is open, and   *)
(* the event that tells how the execution ended closes it for good.        *)
(*                                                                         *)
(* The class is the repository's statement of what a trace of a run is;    *)
(* the tool-calling agent writes its events without it, and                *)
(* ToolCallingAgent shows that what it writes is such a trace.             *)
(***************************************************************************)
EXTENDS Sequences

CONSTANTS
    Names,      \* what a model may name as a tool
    NoTool      \* the tool of an event that is about no tool

VARIABLES
    events,     \* the audit events of this trace, in the order of their record
    closed      \* _closed

traceVars == <<events, closed>>

EndKinds == {"EXECUTION_COMPLETED", "EXECUTION_FAILED"}

Kinds == {"AGENT_REQUESTED", "TOOL_CALLED", "TOOL_RESULT",
          "APPROVAL_REQUESTED", "EXECUTION_STARTED"} \cup EndKinds

Event(kind, tool) == [kind |-> kind, tool |-> tool]

Events == [kind : Kinds, tool : Names \cup {NoTool}]

TraceTypeOK == events \in Seq(Events) /\ closed \in BOOLEAN

TraceInit == events = <<>> /\ closed = FALSE

(* _ensure_open, and one record() of the audit service; an end closes the  *)
(* trace.  When record() raises the trace stays open, whether or not the   *)
(* event was committed.                                                    *)
Log(kind, tool) ==
    /\ ~closed
    /\ \/ /\ events' = Append(events, Event(kind, tool))
          /\ closed' = (kind \in EndKinds)
       \/ /\ events' \in {events, Append(events, Event(kind, tool))}
          /\ UNCHANGED closed

Request            == Log("AGENT_REQUESTED", NoTool)
ToolCall(tool)     == Log("TOOL_CALLED", tool)
ToolResult(tool)   == Log("TOOL_RESULT", tool)
ApprovalRequested  == Log("APPROVAL_REQUESTED", NoTool)
ExecutionStarted   == Log("EXECUTION_STARTED", NoTool)
ExecutionCompleted == Log("EXECUTION_COMPLETED", NoTool)
ExecutionFailed    == Log("EXECUTION_FAILED", NoTool)

TraceNext ==
    \/ Request
    \/ \E tool \in Names : ToolCall(tool) \/ ToolResult(tool)
    \/ ApprovalRequested
    \/ ExecutionStarted
    \/ ExecutionCompleted
    \/ ExecutionFailed

TraceSpec == TraceInit /\ [][TraceNext]_traceVars
=============================================================================
