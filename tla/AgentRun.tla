------------------------------- MODULE AgentRun -------------------------------
(* One trial of an agent under the OpenAI Agents SDK (adapters/openai_agents.py, *)
(* openai_handoff_authority.py, openai_composed.py), with an adversarial         *)
(* stimulus that is injected once, and its verification                          *)
(* (adversarial/delivery.py).  The SDK runs the calls of a turn concurrently,    *)
(* may trip a guardrail between any two steps, ends at the turn budget, and is   *)
(* not trusted about call identities and agent names.                            *)
EXTENDS Naturals, Sequences, FiniteSets, SequencesExt

CONSTANTS Channels,      \* the attack channels of this instance, and "none"
          TurnBudget,    \* scenario.authority.max_turns
          CallBound      \* bound: calls made in one run

VARIABLES channel,       \* of the scenario's attack, or "none"
          authority,     \* does the scenario restrict what each agent may do?
          phase,         \* where the trial stands
          agent,         \* the agent that has the conversation
          turns,         \* turns taken
          calls,         \* the calls of this turn
          newItems,      \* RunResult.new_items
          recorder,      \* the one-shot recorder of the injector
          given,         \* history: the steps at which the stimulus reached the subject
          result         \* the events of the AdapterResult

vars == <<channel, authority, phase, agent, turns, calls, newItems, recorder, given, result>>

-----------------------------------------------------------------------------
(* Calls, items and events                                                    *)

Agents == {"root", "helper"}
Tools == {"target", "other"}
NoId == 0
Ids == 0..CallBound
Call(t, id) == [tool |-> t, id |-> id, op |-> "begin", poisoned |-> FALSE]
\* by: the agent an item carries; who: the agent that really made it.
Item(k, id, by) == [kind |-> k, id |-> id, by |-> by, who |-> agent, poisoned |-> FALSE]
Delivery == [kind |-> "delivery", id |-> NoId, by |-> "none", who |-> "none", poisoned |-> FALSE]

AtPreparation == {"user_input", "tool_metadata", "memory", "resource"}
ByRecorder == {"tool_result", "environment", "handoff"}
NoRecorder == [attempted |-> FALSE, identityError |-> FALSE, event |-> FALSE, id |-> NoId]

-----------------------------------------------------------------------------
(* Preparation                                                                *)

\* _prepare_execution: most channels are delivered by the inputs themselves.
DeliveryEvents == IF channel \in AtPreparation THEN <<Delivery>> ELSE <<>>

Init ==
  /\ channel \in Channels /\ authority \in BOOLEAN
  /\ phase = "prepare" /\ agent = "root" /\ turns = 0
  /\ calls = <<>> /\ newItems = <<>> /\ recorder = NoRecorder /\ given = {} /\ result = <<>>

\* The agent is not the configured root, the target tool is missing or ambiguous, or the
\* payload is malformed.
PreparationRefused ==
  /\ phase = "prepare"
  /\ authority \/ channel # "none"
  /\ phase' = "refused"
  /\ UNCHANGED <<channel, authority, agent, turns, calls, newItems, recorder, given, result>>

PrepareExecution ==
  /\ phase = "prepare"
  /\ phase' = "turn"
  /\ given' = IF channel \in AtPreparation THEN {"run"} ELSE {}
  /\ UNCHANGED <<channel, authority, agent, turns, calls, newItems, recorder, result>>

-----------------------------------------------------------------------------
(* The SDK runner and the injectors it calls                                  *)

Made == Cardinality({i \in 1..Len(newItems) : newItems[i].kind = "request"})
\* The provider names its calls; a name may be missing, or be the first one again.
NamesFor(n) == {NoId, 1, n}

\* Runner.run: one or two calls,
ModelCalls ==
  /\ phase = "turn" /\ turns < TurnBudget
  /\ \/ Made < CallBound /\ \E t \in Tools, n \in NamesFor(Made + 1) : calls' = <<Call(t, n)>>
     \/ Made + 1 < CallBound /\ \E t, u \in Tools, n \in NamesFor(Made + 1), m \in NamesFor(Made + 2) :
          calls' = <<Call(t, n), Call(u, m)>>
  /\ phase' = "tools"
  /\ UNCHANGED <<channel, authority, agent, turns, newItems, recorder, given, result>>

\* The wrapped target of a tool-result attack: the payload instead of the first call.
InjectToolResult(i) ==
  IF recorder.attempted
    THEN UNCHANGED <<recorder, given>> /\ calls' = [calls EXCEPT ![i].op = "done"]
  ELSE IF calls[i].id = NoId
    THEN /\ recorder' = [recorder EXCEPT !.attempted = TRUE, !.identityError = TRUE]
         /\ calls' = [calls EXCEPT ![i].op = "done"]
         /\ UNCHANGED given
  ELSE /\ recorder' = [attempted |-> TRUE, identityError |-> FALSE, event |-> TRUE,
                       id |-> calls[i].id]
       /\ calls' = [calls EXCEPT ![i].op = "done", ![i].poisoned = TRUE]
       /\ given' = given \cup {"call"}

\* Mutant: the delivery is recorded when the overlay is put up, not when it is read.
FaultyInjectEnvironmentEarly(i) ==
  /\ UNCHANGED given
  /\ recorder' = [recorder EXCEPT !.attempted = TRUE, !.event = @ \/ calls[i].id # NoId]
  /\ calls' = [calls EXCEPT ![i].op = IF recorder.attempted THEN "original" ELSE "active"]

\* The wrapped target of an environment attack: the overlay is active in the task of the
\* first call only.
InjectEnvironment(i) ==
  /\ UNCHANGED given
  /\ recorder' = [recorder EXCEPT !.attempted = TRUE,
                                  !.identityError = @ \/ (~recorder.attempted /\ calls[i].id = NoId)]
  /\ calls' = [calls EXCEPT ![i].op =
                 IF recorder.attempted \/ calls[i].id = NoId THEN "original" ELSE "active"]

\* The tool reads the key: only an active overlay answers with the stimulus.
ReadContext(i) ==
  /\ phase = "tools" /\ calls[i].op \in {"original", "active"}
  /\ calls' = [calls EXCEPT ![i].op = "done", ![i].poisoned = (calls[i].op = "active")]
  /\ IF calls[i].op = "active"
       THEN /\ given' = given \cup {"call"}
            /\ recorder' = IF recorder.event THEN recorder
                           ELSE [recorder EXCEPT !.event = TRUE, !.id = calls[i].id]
       ELSE UNCHANGED <<given, recorder>>
  /\ UNCHANGED <<channel, authority, phase, agent, turns, newItems, result>>

\* Or it returns without reading it.
IgnoreContext(i) ==
  /\ phase = "tools" /\ calls[i].op \in {"original", "active"}
  /\ calls' = [calls EXCEPT ![i].op = "done"]
  /\ UNCHANGED <<channel, authority, phase, agent, turns, newItems, recorder, given, result>>

InvokeTool(i) ==
  /\ phase = "tools" /\ calls[i].op = "begin"
  /\ CASE calls[i].tool = "target" /\ channel = "tool_result" -> InjectToolResult(i)
       [] calls[i].tool = "target" /\ channel = "environment" -> InjectEnvironment(i)
       [] OTHER -> UNCHANGED <<recorder, given>> /\ calls' = [calls EXCEPT ![i].op = "done"]
  /\ UNCHANGED <<channel, authority, phase, agent, turns, newItems, result>>

\* The turn's requests and results; the SDK may put another agent's name on results and
\* handoffs, whose source it states separately.
EndTurn ==
  /\ phase = "tools" /\ \A i \in 1..Len(calls) : calls[i].op = "done"
  /\ \E by \in Agents :
       newItems' = newItems
         \o [i \in 1..Len(calls) |-> Item("request", calls[i].id, agent)]
         \o [i \in 1..Len(calls) |-> [Item("result", calls[i].id, by)
                                        EXCEPT !.poisoned = calls[i].poisoned]]
  /\ calls' = <<>>
  /\ turns' = turns + 1
  /\ phase' = "turn"
  /\ UNCHANGED <<channel, authority, agent, recorder, given, result>>

\* inject_first_handoff_context: the first transfer carries the stimulus; it is recorded only
\* once the history has been cloned.
HandOff ==
  /\ phase = "turn" /\ turns < TurnBudget
  /\ \E by \in Agents :
       newItems' = Append(newItems, [Item("handoff", NoId, by)
                                       EXCEPT !.poisoned = (channel = "handoff" /\ ~recorder.attempted)])
  /\ IF channel = "handoff" /\ ~recorder.attempted
       THEN /\ recorder' = [recorder EXCEPT !.attempted = TRUE, !.event = TRUE]
            /\ given' = given \cup {"handoff"}
       ELSE UNCHANGED <<recorder, given>>
  /\ \E to \in Agents \ {agent} : agent' = to
  /\ turns' = turns + 1
  /\ UNCHANGED <<channel, authority, phase, calls, result>>

\* An input history the filter cannot extend, a model or tool that fails for good, a resource
\* identity that cannot be resolved, a state that cannot be read: the exception leaves.
RunFails ==
  /\ phase \in {"turn", "tools"}
  /\ phase' = "refused"
  /\ UNCHANGED <<channel, authority, agent, turns, calls, newItems, recorder, given, result>>

-----------------------------------------------------------------------------
(* Normalisation                                                              *)

\* _raise_recorder_identity_errors
IdentityError == recorder.identityError

\* _exception_delivery_events
ExceptionEvents == DeliveryEvents \o (IF recorder.event THEN <<Delivery>> ELSE <<>>)

\* The item beside which a recorded delivery belongs: the first result of its call, or the
\* first handoff.
Beside == {i \in 1..Len(newItems) :
             IF channel = "handoff" THEN newItems[i].kind = "handoff"
             ELSE newItems[i].kind = "result" /\ newItems[i].id = recorder.id}
First(S) == CHOOSE i \in S : \A j \in S : i <= j

\* _normalize_items: before that result, after that handoff, or last.
NormalizeItems ==
  IF ~recorder.event THEN newItems
  ELSE IF Beside = {} THEN Append(newItems, Delivery)
  ELSE InsertAt(newItems, First(Beside) + (IF channel = "handoff" THEN 1 ELSE 0), Delivery)

\* OpenAIAgentsHandoffAuthorityAdapter._normalize_items: every call has one name and one owner,
\* and whoever hands over generated the handoff.
OfKind(k) == {i \in 1..Len(newItems) : newItems[i].kind = k}

Attributable ==
  /\ \A k \in {"request", "result"} : \A i \in OfKind(k) :
       newItems[i].id # NoId /\ \A j \in OfKind(k) : newItems[i].id = newItems[j].id => i = j
  /\ \A i \in OfKind("result") :
       \E j \in OfKind("request") : newItems[j].id = newItems[i].id /\ newItems[j].by = newItems[i].by
  /\ \A i \in OfKind("handoff") : newItems[i].by = newItems[i].who

Event(k) == [Delivery EXCEPT !.kind = k]

\* MaxTurnsExceeded: the deliveries and one violation.
TurnBudgetExceeded ==
  /\ phase = "turn" /\ turns = TurnBudget
  /\ IF IdentityError THEN phase' = "refused" /\ UNCHANGED result
     ELSE phase' = "returned" /\ result' = Append(ExceptionEvents, Event("violation"))
  /\ UNCHANGED <<channel, authority, agent, turns, calls, newItems, recorder, given>>

\* A tripwire at any boundary: the deliveries and the guardrail.
TripwireTriggered ==
  /\ phase \in {"turn", "tools"}
  /\ IF IdentityError THEN phase' = "refused" /\ UNCHANGED result
     ELSE phase' = "returned" /\ result' = Append(ExceptionEvents, Event("guardrail"))
  /\ UNCHANGED <<channel, authority, agent, turns, calls, newItems, recorder, given>>

\* The run ends with an output, or at calls that await approval.
Normalized(ending) ==
  /\ phase = "turn" /\ turns < TurnBudget
  /\ IF IdentityError \/ (authority /\ ~Attributable)
       THEN phase' = "refused" /\ UNCHANGED result
       ELSE phase' = "returned" /\ result' = DeliveryEvents \o NormalizeItems \o ending
  /\ UNCHANGED <<channel, authority, agent, turns, calls, newItems, recorder, given>>
ModelEnds == Normalized(<<Event("output")>>)
ApprovalNeeded == Normalized(<<Event("approval")>>)

Next ==
  \/ PreparationRefused \/ PrepareExecution \/ ModelCalls
  \/ \E i \in 1..Len(calls) : InvokeTool(i) \/ ReadContext(i) \/ IgnoreContext(i)
  \/ EndTurn \/ HandOff \/ RunFails
  \/ TurnBudgetExceeded \/ TripwireTriggered \/ ModelEnds \/ ApprovalNeeded
Spec == Init /\ [][Next]_vars

-----------------------------------------------------------------------------
(* Verification                                                               *)

Deliveries == {i \in 1..Len(result) : result[i].kind = "delivery"}

\* verify_attack_delivery
VerifyAttackDelivery == channel = "none" \/ Cardinality(Deliveries) = 1

Whole == \E i \in 1..Len(result) : result[i].kind \in {"output", "approval"}
Distinct == \A i, j \in OfKind("result") : newItems[i].id = newItems[j].id => i = j

-----------------------------------------------------------------------------
(* Properties                                                                 *)

\* The trial of an attack passes delivery verification exactly when the stimulus reached the
\* subject, through whichever call, read or transfer came first, and however the run ended.
VerifiedMeansDelivered ==
  phase = "returned" /\ channel # "none" => (VerifyAttackDelivery <=> given # {})

\* In the record of a whole run the delivery stands just before the result that carried it, or
\* just after the transfer that carried it: a reader sees what the subject did before it
\* and after it (openai_agents.py, _normalize_items).
DeliveryStandsWhereItHappened ==
  phase = "returned" /\ Whole /\ Distinct /\ channel \in ByRecorder =>
    \A d \in Deliveries :
      IF channel = "handoff" THEN result[d - 1].poisoned ELSE result[d + 1].poisoned

\* Under delegated authority every call and result in the record bears the name of the agent
\* that really made it, though the SDK may confuse names (openai_handoff_authority.py).
OwnersAreExact ==
  phase = "returned" /\ authority =>
    \A i \in 1..Len(result) : result[i].kind \in {"request", "result"} => result[i].by = result[i].who
=============================================================================
