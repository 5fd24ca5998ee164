-------------------------- MODULE ToolCallingAgent --------------------------
(***************************************************************************)
(* One run of the tool-calling agent (ai_engineering/llm/tool_calling.py)  *)
(* behind POST /api/v1/agent/run: the model is asked, the tools it names   *)
(* are called one after the other through the allowlist (tools/            *)
(* registry.py), their results go back to it, for a bounded number of      *)
(* rounds.  Every audit event is a transaction that may fail, the model    *)
(* may fail to answer, and the service may be killed anywhere.             *)
(*                                                                         *)
(* Runs share no state: each has its own trace and its own registry.  The  *)
(* content of messages, arguments and results is left out; a tool that the *)
(* model calls is told apart from another call of the same tool by the     *)
(* place of its TOOL_CALLED event in the trail.                            *)
(***************************************************************************)
EXTENDS Naturals, Sequences

CONSTANTS
    Names,      \* what the model may name as a tool
    Registered, \* the names in the registry
    Gated,      \* those with requires_human_approval
    NoTool,
    MaxRounds,  \* max_rounds
    MaxCalls    \* bound: tool calls in one answer of the model

ASSUME AgentAssumption ==
    /\ Gated \subseteq Registered /\ Registered \subseteq Names
    /\ NoTool \notin Names
    /\ MaxRounds \in 1..10
    /\ MaxCalls \in Nat \ {0}

VARIABLES
    at,         \* where run() is; returned, refused and raised are its ends
    round,      \* round_number
    calls,      \* tool calls of the last answer that have no tool message yet
    messages,   \* the conversation: roles, and how many calls or which call
    used,       \* used_tools, as <<place of the call in the trail, tool>>
    ran,        \* the same of the tools whose handler was entered
    events,     \* the audit events of the run
    counted     \* the status under which AGENT_RUNS_TOTAL counted the run

agentVars == <<at, round, calls, messages, used, ran, events, counted>>

Event(kind, tool) == [kind |-> kind, tool |-> tool]

EndKind(status) == IF status = "completed" THEN "EXECUTION_COMPLETED" ELSE "EXECUTION_FAILED"

Ends == {"returned", "refused", "raised"}

(* The places at which an event is recorded before anything else happens. *)
Recording == {"request", "call", "result", "end"}

TypeOK ==
    /\ at \in Recording \cup {"client", "model", "execute"} \cup Ends
    /\ round \in 1..MaxRounds
    /\ calls \in Seq(Names)
    /\ messages \in Seq([role : {"assistant", "tool"}, n : Nat])
    /\ used \in SUBSET (Nat \X Names)
    /\ ran \in SUBSET (Nat \X Names)
    /\ events \in Seq([kind : {"AGENT_REQUESTED", "TOOL_CALLED", "TOOL_RESULT",
                               "EXECUTION_COMPLETED", "EXECUTION_FAILED"},
                       tool : Names \cup {NoTool}])
    /\ counted \in {"none", "failed", "completed", "max_rounds_exceeded"}

Init ==
    /\ at = "request"
    /\ round = 1
    /\ calls = <<>>
    /\ messages = <<>>
    /\ used = {}
    /\ ran = {}
    /\ events = <<>>
    /\ counted = "none"

----------------------------------------------------------------------------
(* A definition named Slip... is a plausible mistake in the definition      *)
(* after it; it is used only to see that a property notices the mistake.   *)

SlipEndAsCompleted ==
    CASE at = "request" -> Event("AGENT_REQUESTED", NoTool)
      [] at = "call"    -> Event("TOOL_CALLED", Head(calls))
      [] at = "result"  -> Event("TOOL_RESULT", Head(calls))
      [] OTHER          -> Event("EXECUTION_COMPLETED", NoTool)

SlipResultOfTheNext ==
    CASE at = "request" -> Event("AGENT_REQUESTED", NoTool)
      [] at = "call"    -> Event("TOOL_CALLED", Head(calls))
      [] at = "result"  -> Event("TOOL_RESULT", IF Len(calls) > 1 THEN calls[2] ELSE calls[1])
      [] OTHER          -> Event(EndKind(counted), NoTool)

(* The event that the run is about to record. *)
DueEvent ==
    CASE at = "request" -> Event("AGENT_REQUESTED", NoTool)
      [] at = "call"    -> Event("TOOL_CALLED", Head(calls))
      [] at = "result"  -> Event("TOOL_RESULT", Head(calls))
      [] OTHER          -> Event(EndKind(counted), NoTool)

(* audit.record: the event is committed before anything else happens. *)
Record(place) ==
    /\ at = place
    /\ events' = Append(events, DueEvent)

(* It raises, with the event committed or not, and the run with it. *)
RecordFails ==
    /\ at \in Recording
    /\ events' \in {events, Append(events, DueEvent)}
    /\ at' = "raised"
    /\ UNCHANGED <<round, calls, messages, used, ran, counted>>

RecordRequest ==
    /\ Record("request")
    /\ at' = "client"
    /\ UNCHANGED <<round, calls, messages, used, ran, counted>>

(* finish: the run is counted, then its end is recorded. *)
Finish(status) == counted' = status /\ at' = "end"

(* from openai import OpenAI, which may be missing. *)
MakeClient ==
    /\ at = "client"
    /\ \/ at' = "model" /\ UNCHANGED counted
       \/ Finish("failed")
    /\ UNCHANGED <<round, calls, messages, used, ran, events>>

SlipReconnect ==
    /\ at = "model"
    /\ at' = "client"
    /\ UNCHANGED <<round, calls, messages, used, ran, events, counted>>

(* chat.completions.create raises, or its answer has no choices.  Nothing  *)
(* catches that: no end is recorded and nothing is counted.                *)
ModelFails ==
    /\ at = "model"
    /\ at' = "raised"
    /\ UNCHANGED <<round, calls, messages, used, ran, events, counted>>

ModelAnswers ==
    /\ at = "model"
    /\ Finish("completed")
    /\ UNCHANGED <<round, calls, messages, used, ran, events>>

ModelCallsTools ==
    /\ at = "model"
    /\ \E n \in 1..MaxCalls :
          /\ calls' \in [1..n -> Names]
          /\ messages' = Append(messages, [role |-> "assistant", n |-> n])
    /\ at' = "call"
    /\ UNCHANGED <<round, used, ran, events, counted>>

RecordCall ==
    /\ Record("call")
    /\ at' = "execute"
    /\ UNCHANGED <<round, calls, messages, used, ran, counted>>

SlipExecuteGated(tool) == tool \in Registered

(* registry.execute reaches the handler of a tool only if it is registered *)
(* and not gated.                                                          *)
Permitted(tool) == tool \in Registered \ Gated

(* What becomes of the call.  Arguments that are no JSON object, or a name *)
(* outside the registry: an error for the model.  A gated tool: a note for *)
(* the model, and the tool counts as used.  A handler that is entered may  *)
(* return, perhaps an error of its own, or raise, which is caught.         *)
Execute ==
    LET this == <<Len(events), Head(calls)>> IN
    /\ at = "execute"
    /\ \/ UNCHANGED <<used, ran>>
       \/ Head(calls) \in Gated /\ used' = used \cup {this} /\ UNCHANGED ran
       \/ /\ Permitted(Head(calls))
          /\ ran' = ran \cup {this}
          /\ used' = used \cup {this} \/ UNCHANGED used
    /\ at' = "result"
    /\ UNCHANGED <<round, calls, messages, events, counted>>

SlipOneRoundTooMany ==
    \/ Len(calls) > 1 /\ at' = "call" /\ UNCHANGED <<round, counted>>
    \/ Len(calls) = 1 /\ round <= MaxRounds /\ at' = "model" /\ round' = round + 1 /\ UNCHANGED counted
    \/ Len(calls) = 1 /\ round > MaxRounds /\ Finish("max_rounds_exceeded") /\ UNCHANGED round

(* The next call of this answer, the next round, or the end of the rounds. *)
Continue ==
    \/ Len(calls) > 1 /\ at' = "call" /\ UNCHANGED <<round, counted>>
    \/ Len(calls) = 1 /\ round < MaxRounds /\ at' = "model" /\ round' = round + 1 /\ UNCHANGED counted
    \/ Len(calls) = 1 /\ round = MaxRounds /\ Finish("max_rounds_exceeded") /\ UNCHANGED round

SlipAnswerTheFirstCall ==
    /\ Record("result")
    /\ messages' = Append(messages, [role |-> "tool", n |-> 1])
    /\ calls' = Tail(calls)
    /\ Continue
    /\ UNCHANGED <<used, ran>>

(* The result is recorded, then put into the conversation under the id of  *)
(* its call.                                                               *)
RecordResult ==
    /\ Record("result")
    /\ messages' = Append(messages, [role |-> "tool", n |-> Len(calls)])
    /\ calls' = Tail(calls)
    /\ Continue
    /\ UNCHANGED <<used, ran>>

SlipEndAgainWhenRefused ==
    /\ Record("end")
    /\ at' = IF counted = "failed" /\ Len(events) < 3 THEN "end" ELSE "returned"
    /\ UNCHANGED <<round, calls, messages, used, ran, counted>>

(* A run without its client raises even after its end was recorded. *)
RecordEnd ==
    /\ Record("end")
    /\ at' = IF counted = "failed" THEN "refused" ELSE "returned"
    /\ UNCHANGED <<round, calls, messages, used, ran, counted>>

(* The service is killed; a handler may have been entered by then. *)
Killed ==
    /\ at \notin Ends
    /\ \/ UNCHANGED ran
       \/ /\ at = "execute" /\ Permitted(Head(calls))
          /\ ran' = ran \cup {<<Len(events), Head(calls)>>}
    /\ at' = "raised"
    /\ UNCHANGED <<round, calls, messages, used, events, counted>>

Step ==
    \/ RecordRequest
    \/ MakeClient
    \/ ModelFails
    \/ ModelAnswers
    \/ ModelCallsTools
    \/ RecordCall
    \/ Execute
    \/ RecordResult
    \/ RecordEnd
    \/ RecordFails

Next == Step \/ Killed

Spec == Init /\ [][Next]_agentVars

(* The thread of the request is scheduled; the calls to the model, to      *)
(* MLflow and to the database return or raise (their clients' timeouts).   *)
FairSpec == Spec /\ WF_agentVars(Step)

----------------------------------------------------------------------------
(* Properties                                                              *)

(* Whenever the model is asked, the conversation answers every tool call   *)
(* it has made, in order and under its own id, whatever became of the call *)
(* (an unknown name, broken arguments, a handler that raised): a request   *)
(* with an open tool call is refused by the model's API.                   *)
EveryCallIsAnswered ==
    at = "model" =>
        \A i \in 1..Len(messages) :
            messages[i].role = "assistant" =>
                \A k \in 1..messages[i].n :
                    /\ i + k <= Len(messages)
                    /\ messages[i + k] = [role |-> "tool", n |-> messages[i].n + 1 - k]

(* The trail of a run can be read as a story: it begins with the request,  *)
(* each call is followed by the result of that call, and only its last     *)
(* event may be a call without a result or the end of the run.             *)
TrailIsPaired ==
    \A i \in 1..Len(events) :
        /\ (i = 1) <=> (events[i].kind = "AGENT_REQUESTED")
        /\ events[i].kind = "TOOL_RESULT" => events[i - 1] = Event("TOOL_CALLED", events[i].tool)
        /\ i < Len(events) =>
               /\ events[i].kind \notin {"EXECUTION_COMPLETED", "EXECUTION_FAILED"}
               /\ events[i].kind = "TOOL_CALLED" => events[i + 1].kind = "TOOL_RESULT"

(* No tool acts unannounced: for every handler that was entered the call   *)
(* stands in the trail, committed before, even if the run died on the way; *)
(* gated and unregistered tools never act; and a tool that the answer      *)
(* lists as used has acted or waits for an approval.                       *)
ToolsAreAccountedFor ==
    /\ \A u \in used \cup ran :
          u[1] \in 1..Len(events) /\ events[u[1]] = Event("TOOL_CALLED", u[2])
    /\ \A u \in ran : u[2] \in Registered \ Gated
    /\ \A u \in used \ ran : u[2] \in Gated

(* Answer, metric and trail tell the same outcome: a run that returns has  *)
(* been counted and its trail ends accordingly; a trail has an end only    *)
(* for a counted run, whatever the last record() met.                      *)
OutcomeIsConsistent ==
    /\ at = "returned" => counted \in {"completed", "max_rounds_exceeded"}
    /\ at \in {"returned", "refused"} =>
          events # <<>> /\ events[Len(events)] = Event(EndKind(counted), NoTool)
    /\ \A i \in 1..Len(events) :
          events[i].kind \in {"EXECUTION_COMPLETED", "EXECUTION_FAILED"} =>
              counted # "none" /\ events[i].kind = EndKind(counted)

(* Every run comes to an end: the rounds are bounded, and so is each.      *)
EveryRunEnds == <>(at \in Ends)

(* The trail of a run is a trace as ExecutionTrace has it: nothing is      *)
(* recorded behind the end.                                                *)
Trace == INSTANCE ExecutionTrace
            WITH closed <- at # "raised" /\ \E i \in 1..Len(events) :
                               events[i].kind \in {"EXECUTION_COMPLETED", "EXECUTION_FAILED"}

ImplementsExecutionTrace == Trace!TraceSpec
============================================================================
