----------------------- MODULE ToolCallingAgentProofs -----------------------
(***************************************************************************)
(* Theorems about a run of the tool-calling agent, for any registry, any   *)
(* number of rounds within the limit and any number of calls per answer.   *)
(***************************************************************************)
EXTENDS ToolCallingAgent, TLAPS

(* Appending keeps a sequence what it is. *)
LEMMA Appended ==
    ASSUME NEW S, NEW s \in Seq(S), NEW e \in S
    PROVE  /\ Append(s, e) \in Seq(S)
           /\ Len(Append(s, e)) = Len(s) + 1
           /\ Append(s, e)[Len(s) + 1] = e
           /\ \A i \in 1..Len(s) : Append(s, e)[i] = s[i]
  OBVIOUS

AgentEvents == [kind : {"AGENT_REQUESTED", "TOOL_CALLED", "TOOL_RESULT",
                        "EXECUTION_COMPLETED", "EXECUTION_FAILED"},
                tool : Names \cup {NoTool}]

(* What is about to be recorded is an event, and the next place exists. *)
LEMMA DueEventType ==
    ASSUME TypeOK, at \in Recording, at \in {"call", "result"} => calls # <<>>
    PROVE  DueEvent \in AgentEvents
<1>1. CASE at = "request"
  BY <1>1 DEF DueEvent, Event, AgentEvents
<1>2. CASE at = "call"
  <2>1. Head(calls) \in Names
    BY <1>2 DEF TypeOK
  <2> QED BY <1>2, <2>1 DEF DueEvent, Event, AgentEvents
<1>3. CASE at = "result"
  <2>1. Head(calls) \in Names
    BY <1>3 DEF TypeOK
  <2> QED BY <1>3, <2>1 DEF DueEvent, Event, AgentEvents
<1>4. CASE at = "end"
  BY <1>4 DEF DueEvent, Event, EndKind, AgentEvents
<1> QED BY <1>1, <1>2, <1>3, <1>4 DEF Recording

(* Open calls are there as long as the run is working them off. *)
CallsAreOpen == at \in {"call", "execute", "result"} => calls # <<>>

TypeInv == TypeOK /\ CallsAreOpen

LEMMA TypeStep ==
    ASSUME TypeInv, [Next]_agentVars
    PROVE  TypeInv'
<1> USE AgentAssumption DEF TypeInv, CallsAreOpen, TypeOK
<1>1. CASE RecordFails
  <2>1. DueEvent \in AgentEvents
    BY <1>1, DueEventType DEF RecordFails, Recording
  <2>2. events \in Seq(AgentEvents)
    BY DEF AgentEvents
  <2>4. events' = events \/ events' = Append(events, DueEvent)
    BY <1>1 DEF RecordFails
  <2>3. Append(events, DueEvent) \in Seq(AgentEvents)
    BY <2>1, <2>2, Appended
  <2>5. events' \in Seq(AgentEvents)
    BY <2>2, <2>3, <2>4
  <2> QED BY <1>1, <2>5 DEF RecordFails, Ends, AgentEvents
<1>2. CASE RecordRequest
  BY <1>2, DueEventType DEF RecordRequest, Record, Recording, AgentEvents
<1>3. CASE MakeClient
  BY <1>3 DEF MakeClient, Finish, Recording
<1>4. CASE ModelFails
  BY <1>4 DEF ModelFails, Ends
<1>5. CASE ModelAnswers
  BY <1>5 DEF ModelAnswers, Finish, Recording
<1>6. CASE ModelCallsTools
  <2>1. PICK n \in 1..MaxCalls :
          /\ calls' \in [1..n -> Names]
          /\ messages' = Append(messages, [role |-> "assistant", n |-> n])
    BY <1>6 DEF ModelCallsTools
  <2>2. calls' \in Seq(Names) /\ calls' # <<>>
    BY <2>1
  <2> QED BY <1>6, <2>1, <2>2 DEF ModelCallsTools, Recording
<1>7. CASE RecordCall
  BY <1>7, DueEventType DEF RecordCall, Record, Recording, AgentEvents
<1>8. CASE Execute
  <2>1. Head(calls) \in Names /\ Len(events) \in Nat
    BY <1>8 DEF Execute
  <2> QED BY <1>8, <2>1 DEF Execute, Permitted, Recording
<1>9. CASE RecordResult
  <2>0. DueEvent \in AgentEvents
    BY <1>9, DueEventType DEF RecordResult, Record, Recording
  <2>1. events' \in Seq(AgentEvents)
    BY <1>9, <2>0 DEF RecordResult, Record, AgentEvents
  <2>2. calls \in Seq(Names) /\ calls # <<>> /\ calls' = Tail(calls)
    BY <1>9 DEF RecordResult, Record
  <2>3. calls' \in Seq(Names) /\ Len(calls') = Len(calls) - 1
    BY <2>2
  <2>4. messages' \in Seq([role : {"assistant", "tool"}, n : Nat])
    BY <1>9 DEF RecordResult, Record
  <2>5. /\ UNCHANGED <<used, ran>>
        /\ round' \in 1..MaxRounds
        /\ counted' \in {"none", "failed", "completed", "max_rounds_exceeded"}
    BY <1>9 DEF RecordResult, Continue, Finish
  <2>6. (at' = "call" /\ calls' # <<>>) \/ at' \in {"model", "end"}
    <3>1. Len(calls) > 1 => calls' # <<>>
      BY <2>3
    <3> QED BY <1>9, <3>1 DEF RecordResult, Continue, Finish
  <2> QED BY <2>1, <2>3, <2>4, <2>5, <2>6 DEF Recording, AgentEvents
<1>10. CASE RecordEnd
  BY <1>10, DueEventType DEF RecordEnd, Record, Recording, Ends, AgentEvents
<1>11. CASE Killed
  <2>1. at = "execute" => Head(calls) \in Names /\ Len(events) \in Nat
    OBVIOUS
  <2> QED BY <1>11, <2>1 DEF Killed, Ends
<1>12. CASE UNCHANGED agentVars
  BY <1>12 DEF agentVars
<1> QED BY <1>1, <1>2, <1>3, <1>4, <1>5, <1>6, <1>7, <1>8, <1>9, <1>10, <1>11, <1>12
        DEF Next, Step

LEMMA TypeInit == ASSUME Init PROVE TypeInv
  BY AgentAssumption DEF Init, TypeInv, CallsAreOpen, TypeOK, Recording, AgentEvents

LEMMA TypeAlways == Spec => []TypeInv
  BY TypeInit, TypeStep, PTL DEF Spec

(* Every variable keeps its type; in particular the model is asked at most *)
(* max_rounds times (run, tool_calling.py).                                *)
THEOREM TypeCorrect == Spec => []TypeOK
<1>1. TypeInv => TypeOK
  BY DEF TypeInv
<1> QED BY <1>1, TypeAlways, PTL
----------------------------------------------------------------------------
(* What the place of a run says about the end of its trail and about what  *)
(* was counted.  TrailIsPaired is not inductive without it: that the next  *)
(* event fits behind the last one is known only from where the run is.     *)
LastEvent == events[Len(events)]

EndKinds == {"EXECUTION_COMPLETED", "EXECUTION_FAILED"}

PlaceAgrees ==
    /\ at = "request" => events = <<>>
    /\ at \notin {"request", "raised"} => Len(events) > 0
    /\ at \in {"execute", "result"} => LastEvent = Event("TOOL_CALLED", Head(calls))
    /\ at \in {"client", "model", "call", "end"} =>
           LastEvent.kind \in {"AGENT_REQUESTED", "TOOL_RESULT"}
    /\ at \in {"request", "client", "model", "call", "execute", "result"} => counted = "none"
    /\ at \in {"end", "returned", "refused"} => counted # "none"
    /\ at = "returned" => counted # "failed"
    /\ at \in {"returned", "refused"} => LastEvent = Event(EndKind(counted), NoTool)

AgentInv ==
    /\ TypeInv
    /\ PlaceAgrees
    /\ TrailIsPaired
    /\ ToolsAreAccountedFor
    /\ OutcomeIsConsistent

LEMMA AgentInit == ASSUME Init PROVE AgentInv
<1>1. TypeInv
  BY TypeInit
<1> QED BY <1>1 DEF Init, AgentInv, PlaceAgrees, TrailIsPaired, ToolsAreAccountedFor,
                    OutcomeIsConsistent, Ends

(* The last event is an event. *)
LEMMA LastEventType ==
    ASSUME TypeInv, Len(events) > 0
    PROVE  /\ events \in Seq(AgentEvents) /\ Len(events) \in Nat \ {0}
           /\ LastEvent \in AgentEvents
<1>1. events \in Seq(AgentEvents)
  BY DEF TypeInv, TypeOK, AgentEvents
<1> QED BY <1>1 DEF LastEvent

(* The event that is due at a place. *)
LEMMA DueEventIs ==
    /\ at = "request" => DueEvent = Event("AGENT_REQUESTED", NoTool)
    /\ at = "call" => DueEvent = Event("TOOL_CALLED", Head(calls))
    /\ at = "result" => DueEvent = Event("TOOL_RESULT", Head(calls))
    /\ at = "end" => DueEvent = Event(EndKind(counted), NoTool)
<1>1. ASSUME at = "request" PROVE DueEvent = Event("AGENT_REQUESTED", NoTool)
  BY <1>1 DEF DueEvent
<1>2. ASSUME at = "call" PROVE DueEvent = Event("TOOL_CALLED", Head(calls))
  BY <1>2 DEF DueEvent
<1>3. ASSUME at = "result" PROVE DueEvent = Event("TOOL_RESULT", Head(calls))
  BY <1>3 DEF DueEvent
<1>4. ASSUME at = "end" PROVE DueEvent = Event(EndKind(counted), NoTool)
  BY <1>4 DEF DueEvent
<1> QED BY <1>1, <1>2, <1>3, <1>4

(* What recording the due event does to the trail. *)
LEMMA TrailGrows ==
    ASSUME TypeInv, at \in Recording, events' = Append(events, DueEvent)
    PROVE  /\ DueEvent \in AgentEvents
           /\ Len(events) \in Nat /\ Len(events') = Len(events) + 1
           /\ events'[Len(events) + 1] = DueEvent
           /\ \A i \in 1..Len(events) : events'[i] = events[i] /\ events[i] \in AgentEvents
<1>1. DueEvent \in AgentEvents
  BY DueEventType DEF TypeInv, CallsAreOpen
<1>2. events \in Seq(AgentEvents)
  BY DEF TypeInv, TypeOK, AgentEvents
<1>3. Len(events) \in Nat /\ \A i \in 1..Len(events) : events[i] \in AgentEvents
  BY <1>2
<1> QED BY <1>1, <1>2, <1>3, Appended

(* The due event fits behind the last one. *)
LEMMA DueEventFits ==
    ASSUME AgentInv, at \in Recording
    PROVE  /\ Len(events) = 0 <=> DueEvent.kind = "AGENT_REQUESTED"
           /\ DueEvent.kind = "TOOL_RESULT" =>
                 Len(events) > 0 /\ LastEvent = Event("TOOL_CALLED", DueEvent.tool)
           /\ Len(events) > 0 =>
                 /\ LastEvent.kind \notin EndKinds
                 /\ LastEvent.kind = "TOOL_CALLED" => DueEvent.kind = "TOOL_RESULT"
<1> USE DEF AgentInv, EndKinds
<1>1. CASE at = "request"
  <2>1. Len(events) = 0
    BY <1>1 DEF PlaceAgrees
  <2> QED BY <1>1, <2>1, DueEventIs DEF Event
<1>2. CASE at = "call"
  BY <1>2, DueEventIs DEF Event, PlaceAgrees
<1>3. CASE at = "result"
  BY <1>3, DueEventIs DEF Event, PlaceAgrees
<1>4. CASE at = "end"
  BY <1>4, DueEventIs DEF Event, EndKind, PlaceAgrees
<1> QED BY <1>1, <1>2, <1>3, <1>4 DEF Recording

LEMMA RecordKeepsTrail ==
    ASSUME AgentInv, at \in Recording, events' = Append(events, DueEvent)
    PROVE  TrailIsPaired'
<1> DEFINE n == Len(events)
<1>1. /\ n \in Nat /\ Len(events') = n + 1 /\ events'[n + 1] = DueEvent
      /\ \A i \in 1..n : events'[i] = events[i]
  BY TrailGrows DEF AgentInv
<1>2. n > 0 => LastEvent = events[n] /\ events'[n] = LastEvent
  BY <1>1 DEF LastEvent
<1>6. \A j \in 1..n :
         /\ (j = 1) <=> (events[j].kind = "AGENT_REQUESTED")
         /\ events[j].kind = "TOOL_RESULT" => events[j - 1] = Event("TOOL_CALLED", events[j].tool)
         /\ j < n => /\ events[j].kind \notin EndKinds
                     /\ events[j].kind = "TOOL_CALLED" => events[j + 1].kind = "TOOL_RESULT"
  BY DEF AgentInv, TrailIsPaired, EndKinds
<1> HIDE DEF n
<1> SUFFICES ASSUME NEW i \in 1..(n + 1)
             PROVE  /\ (i = 1) <=> (events'[i].kind = "AGENT_REQUESTED")
                    /\ events'[i].kind = "TOOL_RESULT" =>
                           events'[i - 1] = Event("TOOL_CALLED", events'[i].tool)
                    /\ i < n + 1 =>
                           /\ events'[i].kind \notin EndKinds
                           /\ events'[i].kind = "TOOL_CALLED" =>
                                  events'[i + 1].kind = "TOOL_RESULT"
  BY <1>1 DEF TrailIsPaired, EndKinds
<1>3. CASE i = n + 1
  BY <1>1, <1>2, <1>3, DueEventFits
<1>4. CASE i = n
  <2>1. events'[i + 1] = DueEvent /\ n > 0 /\ events'[i] = events[n] /\ events[n] = LastEvent
    BY <1>1, <1>2, <1>4
  <2>2. /\ (n = 1) <=> (events[n].kind = "AGENT_REQUESTED")
        /\ events[n].kind = "TOOL_RESULT" => events[n - 1] = Event("TOOL_CALLED", events[n].tool)
    BY <2>1, <1>1, <1>6
  <2>3. ASSUME events[n].kind = "TOOL_RESULT" PROVE n - 1 \in 1..n
    <3>1. n # 1
      BY <2>2, <2>3
    <3> QED BY <2>1, <1>1, <3>1
  <2> QED BY <1>1, <1>4, <2>1, <2>2, <2>3, DueEventFits
<1>5. CASE i < n
  <2>1. /\ (i = 1) <=> (events[i].kind = "AGENT_REQUESTED")
        /\ events[i].kind = "TOOL_RESULT" => events[i - 1] = Event("TOOL_CALLED", events[i].tool)
        /\ events[i].kind \notin EndKinds
        /\ events[i].kind = "TOOL_CALLED" => events[i + 1].kind = "TOOL_RESULT"
    BY <1>1, <1>5, <1>6
  <2>2. ASSUME events[i].kind = "TOOL_RESULT" PROVE i - 1 \in 1..n
    <3>1. i # 1
      BY <2>1, <2>2
    <3> QED BY <1>1, <1>5, <3>1
  <2>3. events'[i] = events[i] /\ events'[i + 1] = events[i + 1]
    BY <1>1, <1>5
  <2> QED BY <1>1, <1>5, <2>1, <2>2, <2>3
<1> QED BY <1>1, <1>3, <1>4, <1>5

LEMMA RecordKeepsTools ==
    ASSUME AgentInv, at \in Recording, events' = Append(events, DueEvent),
           UNCHANGED <<used, ran>>
    PROVE  ToolsAreAccountedFor'
<1>1. /\ Len(events) \in Nat /\ Len(events') = Len(events) + 1
      /\ \A i \in 1..Len(events) : events'[i] = events[i]
  BY TrailGrows DEF AgentInv
<1>2. 1..Len(events) \subseteq 1..Len(events')
  BY <1>1
<1> QED BY <1>1, <1>2 DEF AgentInv, ToolsAreAccountedFor, Event

(* Until its end is recorded the trail of a run has no end. *)
LEMMA NoEndYet ==
    ASSUME AgentInv, at \notin Ends
    PROVE  \A i \in 1..Len(events) : events[i].kind \notin EndKinds
<1> SUFFICES ASSUME NEW i \in 1..Len(events) PROVE events[i].kind \notin EndKinds
  OBVIOUS
<1>1. Len(events) \in Nat
  BY DEF AgentInv, TypeInv, TypeOK
<1>2. CASE i < Len(events)
  BY <1>1, <1>2 DEF AgentInv, TrailIsPaired, EndKinds
<1>3. CASE i = Len(events)
  <2>1. at \in Recording \cup {"client", "model", "execute"} /\ at # "request"
    BY <1>1, <1>3 DEF AgentInv, PlaceAgrees, TypeInv, TypeOK
  <2>2. events[i] = LastEvent
    BY <1>3 DEF LastEvent
  <2> QED BY <2>1, <2>2 DEF AgentInv, PlaceAgrees, Event, EndKinds, Recording
<1> QED BY <1>1, <1>2, <1>3

(* ... and afterwards the end is the one under which the run was counted. *)
LEMMA RecordKeepsOutcome ==
    ASSUME AgentInv, at \in Recording, events' = Append(events, DueEvent)
    PROVE  /\ at # "end" => \A i \in 1..Len(events') : events'[i].kind \notin EndKinds
           /\ \A i \in 1..Len(events') :
                 events'[i].kind \in EndKinds => counted # "none" /\ events'[i].kind = EndKind(counted)
<1>1. /\ Len(events) \in Nat /\ Len(events') = Len(events) + 1
      /\ events'[Len(events) + 1] = DueEvent
      /\ \A i \in 1..Len(events) : events'[i] = events[i]
  BY TrailGrows DEF AgentInv
<1>2. \A i \in 1..Len(events) : events[i].kind \notin EndKinds
  BY NoEndYet DEF Recording, Ends
<1>3. at # "end" => DueEvent.kind \notin EndKinds
  BY DueEventIs DEF Event, EndKinds, Recording
<1>4. at = "end" => counted # "none" /\ DueEvent.kind = EndKind(counted)
  BY DueEventIs DEF Event, AgentInv, PlaceAgrees
<1>5. \A i \in 1..Len(events') : i \in 1..Len(events) \/ i = Len(events) + 1
  BY <1>1
<1> QED BY <1>1, <1>2, <1>3, <1>4, <1>5

LEMMA AgentStep ==
    ASSUME AgentInv, [Next]_agentVars
    PROVE  AgentInv'
<1>1. TypeInv'
  BY TypeStep DEF AgentInv
<1>2. CASE RecordFails
  <2>1. CASE UNCHANGED events
    BY <1>1, <1>2, <2>1 DEF AgentInv, RecordFails, Ends, PlaceAgrees, TrailIsPaired,
       ToolsAreAccountedFor, OutcomeIsConsistent
  <2>2. CASE events' = Append(events, DueEvent)
    <3>1. TrailIsPaired' /\ ToolsAreAccountedFor'
      BY <1>2, <2>2, RecordKeepsTrail, RecordKeepsTools DEF RecordFails
    <3>2. at' = "raised" /\ UNCHANGED counted /\ at \in Recording
      BY <1>2 DEF RecordFails
    <3>3. OutcomeIsConsistent'
      BY <2>2, <3>2, RecordKeepsOutcome DEF OutcomeIsConsistent, EndKinds, EndKind
    <3>4. PlaceAgrees'
      BY <3>2 DEF PlaceAgrees
    <3> QED BY <1>1, <3>1, <3>3, <3>4 DEF AgentInv
  <2> QED BY <1>2, <2>1, <2>2 DEF RecordFails
<1>3. ASSUME NEW place \in Recording \ {"end"}, Record(place),
             UNCHANGED <<used, ran>>, at' \notin {"returned", "refused"},
             counted' = counted \/ counted = "none"
      PROVE  TrailIsPaired' /\ ToolsAreAccountedFor' /\ OutcomeIsConsistent'
  <2>1. at \in Recording /\ at # "end" /\ events' = Append(events, DueEvent)
    BY <1>3 DEF Record
  <2>2. TrailIsPaired' /\ ToolsAreAccountedFor'
    BY <1>3, <2>1, RecordKeepsTrail, RecordKeepsTools
  <2>3. \A i \in 1..Len(events') : events'[i].kind \notin EndKinds
    BY <2>1, RecordKeepsOutcome
  <2> QED BY <1>3, <2>2, <2>3 DEF OutcomeIsConsistent, EndKinds
<1>4. ASSUME NEW place \in Recording, Record(place)
      PROVE  /\ Len(events') > 0 /\ LastEvent' = DueEvent /\ at = place
  <2>1. at = place /\ events' = Append(events, DueEvent)
    BY <1>4 DEF Record
  <2> QED BY <2>1, TrailGrows DEF AgentInv, LastEvent
<1>5. CASE RecordRequest
  <2>1. TrailIsPaired' /\ ToolsAreAccountedFor' /\ OutcomeIsConsistent'
    BY <1>3, <1>5 DEF RecordRequest, Recording
  <2>2. PlaceAgrees'
    BY <1>4, <1>5, DueEventIs DEF RecordRequest, Recording, AgentInv, PlaceAgrees, Event
  <2> QED BY <1>1, <2>1, <2>2 DEF AgentInv
<1>6. CASE RecordCall
  <2>1. TrailIsPaired' /\ ToolsAreAccountedFor' /\ OutcomeIsConsistent'
    BY <1>3, <1>6 DEF RecordCall, Recording
  <2>2. PlaceAgrees'
    BY <1>4, <1>6, DueEventIs DEF RecordCall, Recording, AgentInv, PlaceAgrees, Event
  <2> QED BY <1>1, <2>1, <2>2 DEF AgentInv
<1>7. CASE RecordResult
  <2>1. at' \in {"call", "model", "end"} /\ UNCHANGED <<used, ran>> /\ Record("result")
    BY <1>7 DEF RecordResult, Continue, Finish
  <2>2. counted = "none"
    BY <2>1 DEF Record, AgentInv, PlaceAgrees
  <2>3. at' = "end" => counted' = "max_rounds_exceeded"
    BY <1>7 DEF RecordResult, Continue, Finish
  <2>4. at' # "end" => counted' = counted
    BY <1>7 DEF RecordResult, Continue, Finish
  <2>5. TrailIsPaired' /\ ToolsAreAccountedFor' /\ OutcomeIsConsistent'
    BY <1>3, <2>1, <2>2 DEF Recording
  <2>6. Len(events') > 0 /\ LastEvent'.kind = "TOOL_RESULT"
    BY <1>4, <2>1, DueEventIs DEF Recording, Event
  <2>7. PlaceAgrees'
    BY <2>1, <2>2, <2>3, <2>4, <2>6 DEF PlaceAgrees
  <2> QED BY <1>1, <2>5, <2>7 DEF AgentInv
<1>8. CASE RecordEnd
  <2>1. /\ at = "end" /\ at \in Recording /\ events' = Append(events, DueEvent)
        /\ UNCHANGED <<used, ran, counted>>
        /\ at' = IF counted = "failed" THEN "refused" ELSE "returned"
    BY <1>8 DEF RecordEnd, Record, Recording
  <2>2. TrailIsPaired' /\ ToolsAreAccountedFor'
    BY <2>1, RecordKeepsTrail, RecordKeepsTools
  <2>3. /\ Len(events') > 0 /\ LastEvent' = Event(EndKind(counted), NoTool)
        /\ counted # "none" /\ counted \in {"none", "failed", "completed", "max_rounds_exceeded"}
    BY <1>4, <1>8, <2>1, DueEventIs DEF RecordEnd, AgentInv, PlaceAgrees, TypeInv, TypeOK
  <2>4. EndKind(counted') = EndKind(counted)
    BY <2>1
  <2>5. PlaceAgrees'
    BY <2>1, <2>3, <2>4 DEF PlaceAgrees
  <2>6. events' # <<>>
    BY <2>3
  <2>7. \A i \in 1..Len(events') : events'[i].kind \in EndKinds =>
            counted' # "none" /\ events'[i].kind = EndKind(counted')
    BY <2>1, <2>4, RecordKeepsOutcome
  <2>8. events'[Len(events')] = Event(EndKind(counted'), NoTool)
    BY <2>3, <2>4 DEF LastEvent
  <2>9. OutcomeIsConsistent'
    BY <2>1, <2>3, <2>6, <2>7, <2>8 DEF OutcomeIsConsistent, EndKinds
  <2> QED BY <1>1, <2>2, <2>5, <2>9 DEF AgentInv
<1>9. ASSUME UNCHANGED <<events, used, ran>>, at \notin Ends,
             at' \notin {"returned", "refused"}
      PROVE  TrailIsPaired' /\ ToolsAreAccountedFor' /\ OutcomeIsConsistent'
  <2>1. \A i \in 1..Len(events) : events[i].kind \notin EndKinds
    BY <1>9, NoEndYet
  <2> QED BY <1>9, <2>1 DEF AgentInv, TrailIsPaired, ToolsAreAccountedFor, OutcomeIsConsistent, EndKinds
<1>10. CASE MakeClient \/ ModelFails \/ ModelAnswers \/ ModelCallsTools
  <2>1. /\ UNCHANGED <<events, used, ran>> /\ at \in {"client", "model"}
        /\ at' \in {"model", "end", "raised", "call"}
        /\ at' = "end" => counted' \in {"failed", "completed"}
        /\ at' # "end" => counted' = counted
    BY <1>10 DEF MakeClient, ModelFails, ModelAnswers, ModelCallsTools, Finish
  <2>2. TrailIsPaired' /\ ToolsAreAccountedFor' /\ OutcomeIsConsistent'
    BY <1>9, <2>1 DEF Ends
  <2>3. PlaceAgrees'
    BY <2>1 DEF AgentInv, PlaceAgrees, LastEvent
  <2> QED BY <1>1, <2>2, <2>3 DEF AgentInv
<1>11. ASSUME at = "execute", UNCHANGED events
       PROVE  /\ LastEvent = Event("TOOL_CALLED", Head(calls)) /\ Len(events) \in Nat \ {0}
              /\ \A i \in 1..Len(events) : events[i].kind \notin EndKinds
              /\ TrailIsPaired'
  BY <1>11, NoEndYet, LastEventType DEF AgentInv, PlaceAgrees, Ends, TrailIsPaired
<1>12. CASE Execute
  <2> DEFINE this == <<Len(events), Head(calls)>>
  <2>1. /\ at = "execute" /\ at' = "result" /\ UNCHANGED <<calls, events, counted>>
        /\ \/ UNCHANGED <<used, ran>>
           \/ Head(calls) \in Gated /\ used' = used \cup {this} /\ UNCHANGED ran
           \/ /\ Head(calls) \in Registered \ Gated
              /\ ran' = ran \cup {this}
              /\ used' = used \cup {this} \/ UNCHANGED used
    BY <1>12 DEF Execute, Permitted
  <2>2. Len(events) \in 1..Len(events) /\ events[Len(events)] = Event("TOOL_CALLED", Head(calls))
    BY <1>11, <2>1 DEF LastEvent
  <2>3. this[1] = Len(events) /\ this[2] = Head(calls)
    OBVIOUS
  <2> HIDE DEF this
  <2>4. ToolsAreAccountedFor'
    BY <2>1, <2>2, <2>3 DEF AgentInv, ToolsAreAccountedFor, Event
  <2>5. OutcomeIsConsistent' /\ PlaceAgrees' /\ TrailIsPaired'
    BY <1>11, <2>1 DEF AgentInv, OutcomeIsConsistent, PlaceAgrees, EndKinds, LastEvent, Event
  <2> QED BY <1>1, <2>4, <2>5 DEF AgentInv
<1>13. CASE Killed
  <2> DEFINE this == <<Len(events), Head(calls)>>
  <2>1. /\ at \notin Ends /\ at' = "raised" /\ UNCHANGED <<events, used>>
        /\ \/ UNCHANGED ran
           \/ at = "execute" /\ Head(calls) \in Registered \ Gated /\ ran' = ran \cup {this}
    BY <1>13 DEF Killed, Permitted
  <2>2. CASE UNCHANGED ran
    BY <1>1, <1>9, <2>1, <2>2 DEF AgentInv, PlaceAgrees
  <2>3. CASE at = "execute" /\ Head(calls) \in Registered \ Gated /\ ran' = ran \cup {this}
    <3>1. Len(events) \in 1..Len(events) /\ events[Len(events)] = Event("TOOL_CALLED", Head(calls))
      BY <1>11, <2>1, <2>3 DEF LastEvent
    <3>2. this[1] = Len(events) /\ this[2] = Head(calls)
      OBVIOUS
    <3> HIDE DEF this
    <3>3. ToolsAreAccountedFor'
      BY <2>1, <2>3, <3>1, <3>2 DEF AgentInv, ToolsAreAccountedFor, Event
    <3>4. OutcomeIsConsistent' /\ PlaceAgrees' /\ TrailIsPaired'
      BY <1>11, <2>1, <2>3 DEF OutcomeIsConsistent, PlaceAgrees, EndKinds
    <3> QED BY <1>1, <3>3, <3>4 DEF AgentInv
  <2> QED BY <2>1, <2>2, <2>3
<1>14. CASE UNCHANGED agentVars
  BY <1>1, <1>14 DEF agentVars, AgentInv, PlaceAgrees, LastEvent, TrailIsPaired,
     ToolsAreAccountedFor, OutcomeIsConsistent
<1> QED BY <1>2, <1>5, <1>6, <1>7, <1>8, <1>10, <1>12, <1>13, <1>14 DEF Next, Step

LEMMA AgentAlways == Spec => []AgentInv
  BY AgentInit, AgentStep, PTL DEF Spec

(* The trail of a run can be read as a story, wherever the run died        *)
(* (record() in ToolCallingAgent.run).                                     *)
THEOREM TrailsArePaired == Spec => []TrailIsPaired
<1>1. AgentInv => TrailIsPaired
  BY DEF AgentInv
<1> QED BY <1>1, AgentAlways, PTL

(* No tool acts unannounced, gated and unregistered ones never             *)
(* (ToolRegistry.execute called by ToolCallingAgent.run).                  *)
THEOREM EveryToolIsAccountedFor == Spec => []ToolsAreAccountedFor
<1>1. AgentInv => ToolsAreAccountedFor
  BY DEF AgentInv
<1> QED BY <1>1, AgentAlways, PTL

(* Answer, metric and trail tell the same outcome (finish and the end      *)
(* events of ToolCallingAgent.run).                                        *)
THEOREM OutcomesAreConsistent == Spec => []OutcomeIsConsistent
<1>1. AgentInv => OutcomeIsConsistent
  BY DEF AgentInv
<1> QED BY <1>1, AgentAlways, PTL

----------------------------------------------------------------------------
(* The conversation.  An assistant message whose answers reach beyond the  *)
(* last message is the one that is being worked off, and what is missing   *)
(* behind it are the open calls.                                           *)
AnswersAgree ==
    \A i \in 1..Len(messages) :
        messages[i].role = "assistant" =>
            /\ \A k \in 1..messages[i].n :
                  i + k <= Len(messages) =>
                      messages[i + k] = [role |-> "tool", n |-> messages[i].n + 1 - k]
            /\ i + messages[i].n > Len(messages) =>
                  i + messages[i].n = Len(messages) + Len(calls)

ConversationInv ==
    /\ TypeInv
    /\ at \in {"request", "client", "model"} => calls = <<>>
    /\ AnswersAgree

Messages == [role : {"assistant", "tool"}, n : Nat]

LEMMA MessageTypes ==
    ASSUME TypeInv
    PROVE  /\ messages \in Seq(Messages) /\ Len(messages) \in Nat
           /\ \A i \in 1..Len(messages) : messages[i].n \in Nat
<1>1. messages \in Seq(Messages)
  BY DEF TypeInv, TypeOK, Messages
<1>2. \A i \in 1..Len(messages) : messages[i] \in Messages
  BY <1>1
<1> QED BY <1>1, <1>2 DEF Messages

LEMMA ConversationStep ==
    ASSUME ConversationInv, [Next]_agentVars
    PROVE  ConversationInv'
<1>1. TypeInv'
  BY TypeStep DEF ConversationInv
<1>2. /\ messages \in Seq(Messages) /\ Len(messages) \in Nat
      /\ \A i \in 1..Len(messages) : messages[i].n \in Nat
      /\ calls \in Seq(Names) /\ Len(calls) \in Nat
  BY MessageTypes DEF ConversationInv, TypeInv, TypeOK
<1>3. CASE ModelCallsTools
  <2>1. PICK n \in 1..MaxCalls :
          /\ calls' \in [1..n -> Names]
          /\ messages' = Append(messages, [role |-> "assistant", n |-> n])
    BY <1>3 DEF ModelCallsTools
  <2>2. n \in Nat \ {0} /\ Len(calls') = n /\ at = "model" /\ at' = "call" /\ calls = <<>>
    BY <1>3, <2>1, AgentAssumption DEF ModelCallsTools, ConversationInv
  <2>3. [role |-> "assistant", n |-> n] \in Messages
    BY <2>2 DEF Messages
  <2>4. /\ Len(messages') = Len(messages) + 1
        /\ messages'[Len(messages) + 1] = [role |-> "assistant", n |-> n]
        /\ \A i \in 1..Len(messages) : messages'[i] = messages[i]
    BY <1>2, <2>1, <2>3, Appended
  <2>5. \A i \in 1..Len(messages) : messages[i].role = "assistant" =>
            i + messages[i].n <= Len(messages)
    BY <1>2, <2>2, <2>4 DEF ConversationInv, AnswersAgree
  <2>6. ASSUME NEW i \in 1..Len(messages'), messages'[i].role = "assistant"
        PROVE  /\ \A k \in 1..messages'[i].n :
                     i + k <= Len(messages') =>
                         messages'[i + k] = [role |-> "tool", n |-> messages'[i].n + 1 - k]
               /\ i + messages'[i].n > Len(messages') =>
                     i + messages'[i].n = Len(messages') + Len(calls')
    <3>1. CASE i = Len(messages) + 1
      <4>1. messages'[i].n = n
        BY <2>4, <3>1
      <4>2. \A k \in 1..n : ~(i + k <= Len(messages'))
        BY <1>2, <2>2, <2>4, <3>1
      <4> QED BY <1>2, <2>2, <2>4, <3>1, <4>1, <4>2
    <3>2. CASE i \in 1..Len(messages)
      <4>1. messages'[i] = messages[i] /\ i + messages[i].n <= Len(messages)
        BY <2>4, <2>5, <2>6, <3>2
      <4>2. \A k \in 1..messages[i].n :
               i + k <= Len(messages) =>
                   messages[i + k] = [role |-> "tool", n |-> messages[i].n + 1 - k]
        BY <2>6, <3>2, <4>1 DEF ConversationInv, AnswersAgree
      <4>3. ASSUME NEW k \in 1..messages[i].n
            PROVE  i + k \in 1..Len(messages)
        BY <1>2, <3>2, <4>1
      <4>4. ~(i + messages[i].n > Len(messages'))
        BY <1>2, <2>4, <3>2, <4>1
      <4> QED BY <2>4, <4>1, <4>2, <4>3, <4>4
    <3> QED BY <1>2, <2>4, <3>1, <3>2
  <2>7. AnswersAgree'
    BY <2>6 DEF AnswersAgree
  <2> QED BY <1>1, <2>2, <2>7 DEF ConversationInv
<1>4. CASE RecordResult
  <2>1. /\ messages' = Append(messages, [role |-> "tool", n |-> Len(calls)])
        /\ calls # <<>> /\ calls' = Tail(calls) /\ Continue
    BY <1>4 DEF RecordResult, Record, ConversationInv, TypeInv, CallsAreOpen
  <2>2. Len(calls) > 0 /\ Len(calls') = Len(calls) - 1 /\ calls' \in Seq(Names)
    BY <1>2, <2>1
  <2>3. [role |-> "tool", n |-> Len(calls)] \in Messages
    BY <1>2 DEF Messages
  <2>4. /\ Len(messages') = Len(messages) + 1
        /\ messages'[Len(messages) + 1] = [role |-> "tool", n |-> Len(calls)]
        /\ \A i \in 1..Len(messages) : messages'[i] = messages[i]
    BY <1>2, <2>1, <2>3, Appended
  <2>5. at' \in {"request", "client", "model"} => calls' = <<>>
    <3>1. at' \in {"request", "client", "model"} => Len(calls) = 1
      BY <2>1 DEF Continue, Finish
    <3> QED BY <2>2, <3>1
  <2>6. ASSUME NEW i \in 1..Len(messages'), messages'[i].role = "assistant"
        PROVE  /\ \A k \in 1..messages'[i].n :
                     i + k <= Len(messages') =>
                         messages'[i + k] = [role |-> "tool", n |-> messages'[i].n + 1 - k]
               /\ i + messages'[i].n > Len(messages') =>
                     i + messages'[i].n = Len(messages') + Len(calls')
    <3>1. i \in 1..Len(messages) /\ messages'[i] = messages[i] /\ messages[i].n \in Nat
      BY <1>2, <2>4, <2>6
    <3>2. /\ \A k \in 1..messages[i].n :
                i + k <= Len(messages) =>
                    messages[i + k] = [role |-> "tool", n |-> messages[i].n + 1 - k]
          /\ i + messages[i].n > Len(messages) =>
                i + messages[i].n = Len(messages) + Len(calls)
      BY <2>6, <3>1 DEF ConversationInv, AnswersAgree
    <3>3. ASSUME NEW k \in 1..messages[i].n, i + k <= Len(messages')
          PROVE  messages'[i + k] = [role |-> "tool", n |-> messages[i].n + 1 - k]
      <4>1. CASE i + k <= Len(messages)
        <5>1. i + k \in 1..Len(messages)
          BY <1>2, <3>1, <4>1
        <5>2. messages'[i + k] = messages[i + k]
          BY <2>4, <5>1
        <5>3. messages[i + k] = [role |-> "tool", n |-> messages[i].n + 1 - k]
          BY <3>2, <4>1
        <5> QED BY <5>2, <5>3
      <4>2. CASE i + k = Len(messages) + 1
        <5>1. messages[i].n + 1 - k = Len(calls)
          BY <1>2, <3>1, <3>2, <4>2
        <5>2. messages'[i + k] = [role |-> "tool", n |-> Len(calls)]
          BY <2>4, <4>2
        <5> QED BY <5>1, <5>2
      <4>3. Len(messages') = Len(messages) + 1 /\ i + k \in Nat
        BY <1>2, <2>4, <3>1
      <4>4. i + k <= Len(messages) \/ i + k = Len(messages) + 1
        BY <1>2, <3>3, <4>3
      <4> QED BY <4>1, <4>2, <4>4
    <3> QED BY <1>2, <2>2, <2>4, <3>1, <3>2, <3>3
  <2>7. AnswersAgree'
    BY <2>6 DEF AnswersAgree
  <2> QED BY <1>1, <2>5, <2>7 DEF ConversationInv
<1>5. ASSUME UNCHANGED <<messages, calls>>, at' \in {"client", "model"} => at \in {"request", "client", "model"},
             at' # "request" \/ at = "request"
      PROVE  ConversationInv'
  BY <1>1, <1>5 DEF ConversationInv, AnswersAgree
<1>6. CASE RecordRequest \/ MakeClient \/ ModelFails \/ ModelAnswers \/ RecordCall
  BY <1>5, <1>6 DEF RecordRequest, MakeClient, ModelFails, ModelAnswers, RecordCall, Record, Finish
<1>7. CASE Execute \/ RecordEnd \/ RecordFails \/ Killed \/ UNCHANGED agentVars
  BY <1>5, <1>7 DEF Execute, RecordEnd, RecordFails, Killed, agentVars
<1> QED BY <1>3, <1>4, <1>6, <1>7 DEF Next, Step

(* Whenever the model is asked, every tool call it has made is answered,   *)
(* in order and under its own id (messages in ToolCallingAgent.run).       *)
THEOREM CallsAreAnswered == Spec => []EveryCallIsAnswered
<1>1. ASSUME Init PROVE ConversationInv
  BY <1>1, TypeInit DEF Init, ConversationInv, AnswersAgree
<1>2. ASSUME ConversationInv PROVE EveryCallIsAnswered
  <2>1. Len(messages) \in Nat /\ \A i \in 1..Len(messages) : messages[i].n \in Nat
    BY <1>2, MessageTypes DEF ConversationInv
  <2>2. at = "model" => Len(calls) = 0
    BY <1>2 DEF ConversationInv
  <2> QED BY <1>2, <2>1, <2>2 DEF ConversationInv, AnswersAgree, EveryCallIsAnswered
<1> QED BY <1>1, <1>2, ConversationStep, PTL DEF Spec

----------------------------------------------------------------------------
(* The refinement.  A trace is closed while its run is anywhere but raised *)
(* and an end stands in it; NoEndYet makes that FALSE up to RecordEnd.     *)
LEMMA RefinementStep ==
    ASSUME AgentInv, [Next]_agentVars
    PROVE  [Trace!TraceNext]_(Trace!traceVars)
<1> DEFINE closed == at # "raised" /\ \E i \in 1..Len(events) :
                         events[i].kind \in {"EXECUTION_COMPLETED", "EXECUTION_FAILED"}
<1>1. at \notin Ends => ~closed
  BY NoEndYet DEF EndKinds
<1>2. CASE Killed \/ MakeClient \/ ModelFails \/ ModelAnswers \/ ModelCallsTools \/ Execute
  <2>1. UNCHANGED events /\ at \notin Ends
    BY <1>2 DEF Killed, MakeClient, ModelFails, ModelAnswers, ModelCallsTools, Execute, Ends
  <2>2. ~closed'
    BY <2>1, NoEndYet DEF EndKinds
  <2> QED BY <1>1, <2>1, <2>2 DEF Trace!traceVars
<1>3. CASE UNCHANGED agentVars
  BY <1>3 DEF agentVars, Trace!traceVars
<1>4. CASE RecordRequest \/ RecordCall \/ RecordResult
  <2>1. /\ at \in {"request", "call", "result"} /\ at \in Recording /\ at \notin Ends
        /\ events' = Append(events, DueEvent) /\ DueEvent \in AgentEvents
    BY <1>4, TrailGrows DEF RecordRequest, RecordCall, RecordResult, Record, Recording, Ends, AgentInv
  <2>2. ~closed /\ ~closed'
    BY <1>1, <2>1, RecordKeepsOutcome DEF EndKinds
  <2>3. at \in {"call", "result"} => Head(calls) \in Names
    BY <2>1 DEF AgentInv, TypeInv, TypeOK, CallsAreOpen
  <2> HIDE DEF closed
  <2>4. CASE at = "request"
    <3>1. Trace!Request
      BY <2>1, <2>2, <2>4, DueEventIs DEF Trace!Request, Trace!Log, Trace!Event, Event, closed
    <3> QED BY <3>1 DEF Trace!TraceNext
  <2>5. CASE at = "call"
    <3>1. Trace!ToolCall(Head(calls))
      BY <2>1, <2>2, <2>5, DueEventIs DEF Trace!ToolCall, Trace!Log, Trace!Event, Event, closed
    <3> QED BY <2>3, <2>5, <3>1 DEF Trace!TraceNext
  <2>6. CASE at = "result"
    <3>1. Trace!ToolResult(Head(calls))
      BY <2>1, <2>2, <2>6, DueEventIs DEF Trace!ToolResult, Trace!Log, Trace!Event, Event, closed
    <3> QED BY <2>3, <2>6, <3>1 DEF Trace!TraceNext
  <2> QED BY <2>1, <2>4, <2>5, <2>6
<1>5. CASE RecordEnd
  <2>1. /\ at = "end" /\ at \in Recording /\ at \notin Ends /\ at' # "raised"
        /\ events' = Append(events, DueEvent)
    BY <1>5 DEF RecordEnd, Record, Recording, Ends
  <2>2. DueEvent = Event(EndKind(counted), NoTool)
    BY <2>1, DueEventIs
  <2>3. Len(events') \in 1..Len(events') /\ events'[Len(events')] = DueEvent
    BY <2>1, TrailGrows DEF AgentInv
  <2>4. DueEvent.kind \in EndKinds
    BY <2>2 DEF Event, EndKind, EndKinds
  <2>5. ~closed /\ closed'
    BY <1>1, <2>1, <2>3, <2>4 DEF EndKinds
  <2> HIDE DEF closed
  <2>6. Trace!ExecutionCompleted \/ Trace!ExecutionFailed
    BY <2>1, <2>2, <2>5 DEF Trace!ExecutionCompleted, Trace!ExecutionFailed, Trace!Log,
       Trace!Event, Trace!EndKinds, Event, EndKind, closed
  <2> QED BY <2>6 DEF Trace!TraceNext
<1>6. CASE RecordFails
  <2>1. /\ at \in Recording /\ at \notin Ends /\ at' = "raised"
        /\ events' \in {events, Append(events, DueEvent)} /\ UNCHANGED counted
    BY <1>6 DEF RecordFails, Recording, Ends
  <2>2. ~closed /\ ~closed'
    BY <1>1, <2>1
  <2>3. at \in {"call", "result"} => Head(calls) \in Names
    BY <2>1 DEF AgentInv, TypeInv, TypeOK, CallsAreOpen
  <2> HIDE DEF closed
  <2>4. CASE at = "request"
    <3>1. Trace!Request
      BY <2>1, <2>2, <2>4, DueEventIs DEF Trace!Request, Trace!Log, Trace!Event, Event, closed
    <3> QED BY <3>1 DEF Trace!TraceNext
  <2>5. CASE at = "call"
    <3>1. Trace!ToolCall(Head(calls))
      BY <2>1, <2>2, <2>5, DueEventIs DEF Trace!ToolCall, Trace!Log, Trace!Event, Event, closed
    <3> QED BY <2>3, <2>5, <3>1 DEF Trace!TraceNext
  <2>6. CASE at = "result"
    <3>1. Trace!ToolResult(Head(calls))
      BY <2>1, <2>2, <2>6, DueEventIs DEF Trace!ToolResult, Trace!Log, Trace!Event, Event, closed
    <3> QED BY <2>3, <2>6, <3>1 DEF Trace!TraceNext
  <2>7. CASE at = "end"
    <3>1. Trace!ExecutionCompleted \/ Trace!ExecutionFailed
      BY <2>1, <2>2, <2>7, DueEventIs DEF Trace!ExecutionCompleted, Trace!ExecutionFailed,
         Trace!Log, Trace!Event, Event, EndKind, closed
    <3> QED BY <3>1 DEF Trace!TraceNext
  <2> QED BY <2>1, <2>4, <2>5, <2>6, <2>7 DEF Recording
<1> QED BY <1>2, <1>3, <1>4, <1>5, <1>6 DEF Next, Step

(* The trail of a run is a trace: nothing is recorded behind its end       *)
(* (ToolCallingAgent.run against ExecutionTrace).                          *)
THEOREM AgentWritesATrace == Spec => ImplementsExecutionTrace
<1>1. ASSUME Init PROVE Trace!TraceInit
  BY <1>1 DEF Init, Trace!TraceInit
<1> QED BY <1>1, AgentAlways, RefinementStep, PTL
        DEF Spec, ImplementsExecutionTrace, Trace!TraceSpec

----------------------------------------------------------------------------
(* The safety half of EveryRunEnds.  StepsLeft bounds the steps a run can  *)
(* still take: a round asks the model once and takes three steps for each  *)
(* of its calls, and the end is one step.                                  *)
RoundSteps == 1 + 3 * MaxCalls

RoundsLeft(r) == (MaxRounds - r) * RoundSteps

StepsLeftAt(place, r, open) ==
    CASE place = "request" -> RoundsLeft(r - 1) + 3
      [] place = "client"  -> RoundsLeft(r - 1) + 2
      [] place = "model"   -> RoundsLeft(r - 1) + 1
      [] place = "call"    -> RoundsLeft(r) + 3 * open + 1
      [] place = "execute" -> RoundsLeft(r) + 3 * open
      [] place = "result"  -> RoundsLeft(r) + 3 * open - 1
      [] place = "end"     -> 1
      [] OTHER             -> 0

StepsLeft == StepsLeftAt(at, round, Len(calls))

(* No more calls are open than one answer can hold. *)
BoundInv == TypeInv /\ Len(calls) <= MaxCalls

(* The case distinction, one place at a time. *)
LEMMA StepsLeftIs ==
    ASSUME NEW r, NEW open
    PROVE  /\ StepsLeftAt("request", r, open) = RoundsLeft(r - 1) + 3
           /\ StepsLeftAt("client", r, open) = RoundsLeft(r - 1) + 2
           /\ StepsLeftAt("model", r, open) = RoundsLeft(r - 1) + 1
           /\ StepsLeftAt("call", r, open) = RoundsLeft(r) + 3 * open + 1
           /\ StepsLeftAt("execute", r, open) = RoundsLeft(r) + 3 * open
           /\ StepsLeftAt("result", r, open) = RoundsLeft(r) + 3 * open - 1
           /\ StepsLeftAt("end", r, open) = 1
           /\ \A place \in Ends : StepsLeftAt(place, r, open) = 0
BY DEF StepsLeftAt, Ends

(* A round more is a round's steps more. *)
LEMMA RoundsLeftCount ==
    ASSUME NEW r \in 1..MaxRounds
    PROVE  /\ RoundsLeft(r) \in Nat
           /\ RoundsLeft(r - 1) = RoundsLeft(r) + RoundSteps
<1>1. RoundSteps \in Nat /\ MaxRounds - r \in Nat /\ MaxRounds - (r - 1) = (MaxRounds - r) + 1
  BY AgentAssumption DEF RoundSteps
<1>2. ASSUME NEW k \in Nat, NEW m \in Nat PROVE k * m \in Nat /\ (k + 1) * m = k * m + m
  OBVIOUS
<1> QED BY <1>1, <1>2 DEF RoundsLeft

(* A run that has not ended has steps left. *)
LEMMA StepsAreLeft ==
    ASSUME BoundInv
    PROVE  /\ StepsLeft \in Nat
           /\ at \notin Ends => StepsLeft > 0
<1>1. /\ RoundsLeft(round) \in Nat /\ RoundsLeft(round - 1) = RoundsLeft(round) + RoundSteps
      /\ RoundSteps \in Nat /\ Len(calls) \in Nat
      /\ at \in {"call", "execute", "result"} => Len(calls) > 0
  BY RoundsLeftCount, AgentAssumption DEF BoundInv, TypeInv, CallsAreOpen, TypeOK, RoundSteps
<1>2. at \in {"request", "client", "model", "call", "execute", "result", "end"} \cup Ends
  BY DEF BoundInv, TypeInv, TypeOK, Recording
<1>. DEFINE open == Len(calls)
            far  == RoundsLeft(round)
            near == RoundsLeft(round - 1)
            left == StepsLeft
<1>7. /\ at = "request" => left = near + 3
      /\ at = "client" => left = near + 2
      /\ at = "model" => left = near + 1
      /\ at = "call" => left = far + 3 * open + 1
      /\ at = "execute" => left = far + 3 * open
      /\ at = "result" => left = far + 3 * open - 1
      /\ at = "end" => left = 1
      /\ at \in Ends => left = 0
  BY StepsLeftIs DEF StepsLeft
<1>8. /\ far \in Nat /\ open \in Nat /\ near \in Nat
      /\ at \in {"call", "execute", "result"} => open > 0
  BY <1>1
<1>. HIDE DEF open, far, near, left
<1>3. CASE at \in {"request", "client", "model"}
  BY <1>3, <1>7, <1>8 DEF left
<1>4. CASE at \in {"call", "execute", "result"}
  BY <1>4, <1>7, <1>8 DEF left
<1>5. CASE at = "end" \/ at \in Ends
  BY <1>5, <1>7 DEF left, Ends
<1> QED BY <1>2, <1>3, <1>4, <1>5

LEMMA BoundStep ==
    ASSUME BoundInv, [Next]_agentVars
    PROVE  BoundInv'
<1>1. TypeInv'
  BY TypeStep DEF BoundInv
<1>2. CASE UNCHANGED calls
  BY <1>1, <1>2 DEF BoundInv
<1>3. CASE ModelCallsTools
  <2>1. PICK n \in 1..MaxCalls : calls' \in [1..n -> Names]
    BY <1>3 DEF ModelCallsTools
  <2>2. Len(calls') = n /\ n <= MaxCalls
    BY <2>1, AgentAssumption
  <2> QED BY <1>1, <2>2 DEF BoundInv
<1>4. CASE RecordResult
  <2>1. calls \in Seq(Names) /\ calls # <<>> /\ calls' = Tail(calls)
    BY <1>4 DEF RecordResult, Record, BoundInv, TypeInv, CallsAreOpen, TypeOK
  <2>2. Len(calls') = Len(calls) - 1 /\ Len(calls) \in Nat
    BY <2>1
  <2> QED BY <1>1, <2>2, AgentAssumption DEF BoundInv
<1> QED
  BY <1>2, <1>3, <1>4
  DEF Next, Step, RecordRequest, MakeClient, ModelFails, ModelAnswers, RecordCall, Execute,
      RecordEnd, RecordFails, Killed, agentVars

(* Whatever the run does, a step brings it nearer to its end. *)
LEMMA StepsLeftFall ==
    ASSUME BoundInv, Next
    PROVE  StepsLeft' < StepsLeft
<1>1. /\ StepsLeft \in Nat /\ (at \notin Ends => StepsLeft > 0)
      /\ Len(calls) \in Nat /\ Len(calls) <= MaxCalls /\ MaxCalls \in Nat
      /\ at \in {"call", "execute", "result"} => Len(calls) > 0
      /\ round \in 1..MaxRounds /\ MaxRounds \in Nat
      /\ RoundsLeft(round) \in Nat
      /\ RoundsLeft(round - 1) = RoundsLeft(round) + RoundSteps
      /\ RoundSteps = 1 + 3 * MaxCalls
  BY StepsAreLeft, RoundsLeftCount, AgentAssumption
  DEF BoundInv, TypeInv, CallsAreOpen, TypeOK, RoundSteps
<1>. USE StepsLeftIs DEF StepsLeft
<1>2. CASE at \notin Ends /\ at' \in Ends
  BY <1>1, <1>2
<1>3. CASE RecordRequest
  BY <1>1, <1>3 DEF RecordRequest, Record
<1>4. CASE MakeClient
  BY <1>1, <1>4 DEF MakeClient, Finish
<1>5. CASE ModelAnswers
  BY <1>1, <1>5 DEF ModelAnswers, Finish
<1>6. CASE ModelCallsTools
  <2>1. PICK n \in 1..MaxCalls : calls' \in [1..n -> Names]
    BY <1>6 DEF ModelCallsTools
  <2>2. Len(calls') = n
    BY <2>1, <1>1
  <2>3. StepsLeft' = RoundsLeft(round) + 3 * n + 1
    BY <1>6, <2>2 DEF ModelCallsTools
  <2>4. StepsLeft = RoundsLeft(round - 1) + 1
    BY <1>6 DEF ModelCallsTools
  <2>. HIDE DEF StepsLeft
  <2> QED BY <1>1, <2>3, <2>4
<1>7. CASE RecordCall
  BY <1>1, <1>7 DEF RecordCall, Record
<1>9. CASE Execute
  BY <1>1, <1>9 DEF Execute
<1>10. CASE ModelFails \/ RecordEnd \/ RecordFails \/ Killed
  <2>1. at \notin Ends /\ at' \in Ends
    BY <1>10 DEF ModelFails, RecordEnd, RecordFails, Record, Killed, Ends, Recording
  <2> QED BY <1>2, <2>1
<1>8. CASE RecordResult
  <2>1. calls \in Seq(Names) /\ calls # <<>> /\ calls' = Tail(calls)
    BY <1>8 DEF RecordResult, Record, BoundInv, TypeInv, CallsAreOpen, TypeOK
  <2>2. Len(calls') = Len(calls) - 1
    BY <2>1
  <2>3. at = "result" /\ StepsLeft = RoundsLeft(round) + 3 * Len(calls) - 1
    BY <1>8 DEF RecordResult, Record
  <2>4. CASE Len(calls) > 1 /\ at' = "call" /\ UNCHANGED round
    <3>1. StepsLeft' = RoundsLeft(round) + 3 * Len(calls') + 1
      BY <2>4
    <3>. HIDE DEF StepsLeft
    <3> QED BY <1>1, <2>2, <2>3, <3>1
  <2>5. CASE Len(calls) = 1 /\ at' = "model" /\ round' = round + 1
    <3>1. StepsLeft' = RoundsLeft(round) + 1
      BY <2>5, <1>1
    <3>. HIDE DEF StepsLeft
    <3> QED BY <1>1, <2>3, <2>5, <3>1
  <2>6. CASE at' = "end"
    <3>1. StepsLeft' = 1
      BY <2>6
    <3>. HIDE DEF StepsLeft
    <3> QED BY <1>1, <2>3, <3>1
  <2> QED BY <1>8, <2>4, <2>5, <2>6 DEF RecordResult, Continue, Finish
<1> QED BY <1>3, <1>4, <1>5, <1>6, <1>7, <1>8, <1>9, <1>10 DEF Next, Step

(* No run goes on for ever: each step of a run, whichever of its calls     *)
(* fail, leaves it fewer steps to take than it had (the loop of            *)
(* ToolCallingAgent.run), so after at most as many as it began with it has *)
(* ended or stands still.                                                  *)
THEOREM RunsAreFinite ==
    Spec => [][StepsLeft' < StepsLeft /\ StepsLeft \in Nat]_agentVars
<1>1. ASSUME Init PROVE BoundInv
  BY <1>1, TypeInit, AgentAssumption DEF Init, BoundInv
<1>2. BoundInv /\ [Next]_agentVars => BoundInv' /\ [StepsLeft' < StepsLeft /\ StepsLeft \in Nat]_agentVars
  BY BoundStep, StepsLeftFall, StepsAreLeft
<1> QED BY <1>1, <1>2, PTL DEF Spec
=============================================================================
