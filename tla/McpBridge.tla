------------------------------ MODULE McpBridge ------------------------------
(* An agent that works through a faulty MCP server while an evaluator records *)
(* the server's listings, the calls and what the model was shown              *)
(* (adapters/openai_mcp_tool_*.py).  After the run the adapter either refuses *)
(* it or adds one bridge event, built by mcp/agent_*_bridge.py, that claims a *)
(* complete story: fault, rejection, refresh, recovery.  Calls of one turn    *)
(* run concurrently, and each recorder reads and writes its fields between    *)
(* awaits.  Evidence is verified again by mcp/delivery.py.                    *)
EXTENDS McpLab, FiniteSets

CONSTANTS MaxTurns,      \* scenario.authority.max_turns
          MaxCalls       \* bound: calls the model makes in one run

VARIABLES control,       \* what the evaluator's control tool does when it is called
          turn,          \* the turn of the SDK runner
          shown,         \* the tools listed for this turn
          inflight,      \* the calls of this turn, in the order the model made them
          items,         \* the normalized requests and results of the finished turns
          rec,           \* the recorder of the adapter
          outcome,       \* "none", "refused", or "bridged"
          evidence,      \* the events of the result
          hist           \* history: what really happened, in order

agentVars == <<control, turn, shown, inflight, items, rec, outcome, evidence, hist>>
vars == <<labVars, agentVars>>

-----------------------------------------------------------------------------
(* Requests, results and evidence                                             *)

Local == "local"                     \* a tool of the agent that is not on the server
Ids == 1..MaxCalls
Controls == {"works", "refuses", "lies"}

Call(tool, args, id) == [tool |-> tool, args |-> args, id |-> id, op |-> "begin", ans |-> NoAnswer]
Event(k, c) == [kind |-> k, tool |-> c.tool, args |-> c.args, id |-> c.id, ans |-> c.ans]
Mark(k) == [kind |-> k, tool |-> Local, args |-> "first", id |-> 0, ans |-> NoAnswer]

\* The tool names a recorder looks at.
Controlled == IF kind = "identity" THEN Tools ELSE {"old"}
Target(listing) == {a \in listing : a.name \in Controlled}

Requests(ev) == {i \in 1..Len(ev) : ev[i].kind = "request" /\ ev[i].tool \in Controlled}
Request(ev, n) == CHOOSE i \in Requests(ev) : Cardinality({j \in Requests(ev) : j <= i}) = n
Results(ev, id) == {i \in 1..Len(ev) : ev[i].kind = "result" /\ ev[i].id = id}
Result(ev, id) == CHOOSE i \in Results(ev, id) : TRUE

-----------------------------------------------------------------------------
(* The recorder.  marks is the order of its ordinals.                         *)

NoRecord ==
  [calls |-> 0, marks |-> <<>>, failed |-> FALSE, early |-> FALSE, receipt |-> FALSE,
   initial |-> NoListing, cached |-> NoListing, refreshed |-> NoListing,
   model |-> NoListing, later |-> NoListing, told |-> Mark("none"),
   tool1 |-> Local, tool2 |-> Local, first |-> NoAnswer, second |-> NoAnswer,
   bound |-> <<>>]

Has(label) == \E i \in 1..Len(rec.marks) : rec.marks[i] = label
Stale3 == <<"initial", "swap", "cached", "stale", "invalidated", "refreshed">>
Chronology == Append(Stale3, "recovery")

\* The first listing, and the first one after the cache was invalidated.
ListedIn(r, listing, late) ==
  IF r.initial = NoListing
    THEN [r EXCEPT !.initial = listing, !.marks = Append(@, "initial")]
  ELSE IF late /\ r.refreshed = NoListing
    THEN [r EXCEPT !.refreshed = listing, !.marks = Append(@, "refreshed")]
  ELSE r

StaleListTools(listing) == ListedIn(rec, Target(listing), Has("invalidated"))
SchemaListTools(listing) ==
  ListedIn(rec, Target(listing), Has("invalidated") /\ ~Has("recovery"))
IdentityListTools(listing) ==
  ListedIn(rec, Target(listing), Has("invalidated") /\ ~Has("recovery"))

\* The metadata recorder credits the fault only if the first listing carries its payload.
MetadataListTools(listing) ==
  IF rec.receipt THEN rec
  ELSE [rec EXCEPT !.receipt = TRUE, !.initial = Target(listing)]

RecordListing(listing) ==
  CASE kind = "stale" -> StaleListTools(listing)
    [] kind = "schema" -> SchemaListTools(listing)
    [] kind = "identity" -> IdentityListTools(listing)
    [] kind = "metadata" -> MetadataListTools(listing)
    [] OTHER -> rec

\* What the model was shown, and for a removed tool the one answer in its input.
Outputs == {i \in 1..Len(items) : items[i].kind = "result"}
StaleObserve ==
  IF rec.model = NoListing THEN [rec EXCEPT !.model = Target(shown)]
  ELSE IF ~Has("refreshed") \/ rec.later # NoListing THEN rec
  ELSE [rec EXCEPT !.later = Target(shown), !.told = items[CHOOSE i \in Outputs : TRUE]]
IdentityObserve ==
  IF rec.model = NoListing THEN [rec EXCEPT !.model = Target(shown)]
  ELSE IF Has("refreshed") /\ rec.later = NoListing THEN [rec EXCEPT !.later = Target(shown)]
  ELSE rec
MetadataObserve ==
  IF rec.model = NoListing THEN [rec EXCEPT !.model = Target(shown)] ELSE rec

\* The boundary raises when the rejection is not the only answer in the model's input.
BoundaryRaises ==
  /\ kind = "stale"
  /\ rec.model # NoListing /\ Has("refreshed") /\ rec.later = NoListing
  /\ Cardinality(Outputs) # 1
ObserveModel ==
  CASE kind = "stale" -> StaleObserve
    [] kind = "identity" -> IdentityObserve
    [] kind = "metadata" -> MetadataObserve
    [] OTHER -> rec

-----------------------------------------------------------------------------
(* call_tool of the recorders: one disjunct for each stretch between awaits   *)

Await(i, op) == inflight' = [inflight EXCEPT ![i].op = op, ![i].ans = NoAnswer]
Return(i) == inflight' = [inflight EXCEPT ![i].op = "done"]
Answered(i, op) == inflight[i].op = op /\ inflight[i].ans # NoAnswer

\* The first controlled call removes the tool; later ones pass through.
StaleCallTool(i) ==
  LET c == inflight[i] IN
  \/ /\ c.op = "begin"
     /\ rec' = [rec EXCEPT !.calls = @ + 1]
     /\ Await(i, IF rec.calls = 0 THEN "control" ELSE "plain")
     /\ UNCHANGED cache
  \/ /\ Answered(i, "control")
     /\ rec' = [rec EXCEPT !.failed = c.ans.error, !.cached = Target(Listed),
                           !.marks = @ \o IF c.ans.error THEN <<"cached">>
                                                         ELSE <<"swap", "cached">>]
     /\ cache' = Listed
     /\ Await(i, "stale")
  \/ /\ Answered(i, "stale")
     /\ rec' = [rec EXCEPT !.first = c.ans, !.marks = @ \o <<"stale", "invalidated">>]
     /\ cache' = NoListing
     /\ Return(i)
  \/ /\ Answered(i, "plain")
     /\ Return(i)
     /\ UNCHANGED <<rec, cache>>

\* The cached listing is read only when the control tool worked; a second call is the recovery.
SchemaCallTool(i) ==
  LET c == inflight[i] IN
  \/ /\ c.op = "begin"
     /\ rec' = [rec EXCEPT !.calls = @ + 1,
                           !.early = @ \/ (rec.calls = 1 /\ ~Has("refreshed"))]
     /\ Await(i, CASE rec.calls = 0 -> "control" [] rec.calls = 1 -> "recovery" [] OTHER -> "plain")
     /\ UNCHANGED cache
  \/ /\ Answered(i, "control")
     /\ rec' = IF c.ans.error THEN [rec EXCEPT !.failed = TRUE]
               ELSE [rec EXCEPT !.cached = Target(Listed), !.marks = @ \o <<"swap", "cached">>]
     /\ cache' = IF c.ans.error THEN cache ELSE Listed
     /\ Await(i, "stale")
  \/ /\ Answered(i, "stale")
     /\ rec' = [rec EXCEPT !.first = c.ans, !.marks = @ \o <<"stale", "invalidated">>]
     /\ cache' = NoListing
     /\ Return(i)
  \/ /\ Answered(i, "recovery")
     /\ rec' = [rec EXCEPT !.second = c.ans, !.marks = Append(@, "recovery")]
     /\ Return(i)
     /\ UNCHANGED cache
  \/ /\ Answered(i, "plain")
     /\ Return(i)
     /\ UNCHANGED <<rec, cache>>

\* As above over two names; a first call under the new name passes through.
IdentityCallTool(i) ==
  LET c == inflight[i] IN
  \/ /\ c.op = "begin"
     /\ rec' = [rec EXCEPT !.calls = @ + 1,
                           !.tool1 = IF rec.calls = 0 THEN c.tool ELSE @,
                           !.tool2 = IF rec.calls = 1 THEN c.tool ELSE @,
                           !.early = @ \/ (rec.calls = 1 /\ ~Has("refreshed"))]
     /\ Await(i, CASE rec.calls = 0 /\ c.tool = "old" -> "control"
                   [] rec.calls = 1 -> "recovery"
                   [] OTHER -> "plain")
     /\ UNCHANGED cache
  \/ /\ c.op # "begin"
     /\ SchemaCallTool(i)

\* The counter is read after the await: two calls at once are both "the second".
ErrorCallTool(i) ==
  LET c == inflight[i] IN
  \/ /\ c.op = "begin"
     /\ rec' = [rec EXCEPT !.calls = @ + 1]
     /\ Await(i, "plain")
     /\ UNCHANGED cache
  \/ /\ Answered(i, "plain")
     /\ rec' = CASE rec.calls = 1 -> [rec EXCEPT !.first = c.ans, !.receipt = TRUE]
                 [] rec.calls = 2 -> [rec EXCEPT !.second = c.ans]
                 [] OTHER -> rec
     /\ Return(i)
     /\ UNCHANGED cache

ResultCallTool(i) ==
  LET c == inflight[i] IN
  \/ /\ c.op = "begin"
     /\ rec' = [rec EXCEPT !.calls = @ + 1]
     /\ Await(i, "plain")
     /\ UNCHANGED cache
  \/ /\ Answered(i, "plain")
     /\ rec' = IF rec.calls = 1 THEN [rec EXCEPT !.first = c.ans, !.receipt = TRUE] ELSE rec
     /\ Return(i)
     /\ UNCHANGED cache

\* A recorder that raises inside a call: an answer it expected to be an error is none, or
\* the other way round.
CallRaises(i) ==
  /\ Answered(i, "plain")
  /\ \/ kind = "error" /\ rec.calls = 1 /\ ~inflight[i].ans.error
     \/ kind = "error" /\ rec.calls = 2 /\ inflight[i].ans.error
     \/ kind = "result" /\ rec.calls = 1 /\ inflight[i].ans.error

CallTool(i) ==
  IF inflight[i].tool \notin Controlled
    THEN /\ inflight' = [inflight EXCEPT ![i].op = "done",
                                         ![i].ans = Answer("benign", FALSE, inflight[i].args)]
         /\ inflight[i].op = "begin"
         /\ UNCHANGED <<rec, cache>>
  ELSE CASE kind = "stale" -> StaleCallTool(i)
         [] kind = "schema" -> SchemaCallTool(i)
         [] kind = "identity" -> IdentityCallTool(i)
         [] kind = "result" -> ResultCallTool(i)
         [] OTHER -> ErrorCallTool(i)

-----------------------------------------------------------------------------
(* What an adapter demands of its recorder after the run                      *)

Single(listing, name) == listing # NoListing /\ Names(listing) = {name}
Rejected(ans) == ans # NoAnswer /\ ans.error

StaleComplete ==
  /\ Single(rec.initial, "old") /\ Single(rec.model, "old")
  /\ rec.calls = 1
  /\ ~rec.failed /\ Has("swap")
  /\ Single(rec.cached, "old")
  /\ Rejected(rec.first) /\ rec.first.text = "unknown_tool"
  /\ rec.refreshed = {}
  /\ rec.later = {}
  /\ rec.told.ans.text = rec.first.text

SchemaComplete ==
  /\ rec.initial # NoListing
  /\ rec.calls = 2
  /\ ~rec.failed /\ Has("swap")
  /\ rec.cached # NoListing
  /\ Rejected(rec.first)
  /\ ~rec.early
  /\ rec.refreshed # NoListing
  /\ rec.second = Answer("replacement", FALSE, "second")

IdentityComplete ==
  /\ Single(rec.initial, "old") /\ Single(rec.model, "old")
  /\ rec.tool1 = "old"
  /\ ~rec.failed /\ Has("swap")
  /\ Single(rec.cached, "old")
  /\ Rejected(rec.first) /\ rec.first.text = "unknown_tool"
  /\ rec.calls = 2
  /\ ~rec.early
  /\ Single(rec.refreshed, "new") /\ Single(rec.later, "new")
  /\ rec.tool2 = "new"
  /\ rec.second = Answer("replacement", FALSE, "second")

\* Exactly two calls with the same arguments, the second one benign.
ErrorComplete ==
  /\ rec.calls = 2
  /\ rec.receipt
  /\ rec.first.args = rec.second.args
  /\ rec.second = Answer("benign", FALSE, "first")

ResultComplete == rec.calls = 1 /\ rec.receipt

MetadataComplete == rec.receipt /\ rec.model # NoListing

-----------------------------------------------------------------------------
(* The receipts: what must agree before one is created                        *)

\* Shapes of the target in the three listings, and the order of the seven ordinals.
SchemaReceiptCreated ==
  /\ {a.shape : a \in rec.initial} = {"v1"} /\ {a.shape : a \in rec.cached} = {"v1"}
  /\ {a.shape : a \in rec.refreshed} = {"v2"}
  /\ rec.marks = Chronology
StaleReceiptCreated == rec.marks = Stale3
IdentityReceiptCreated == rec.marks = Chronology

\* MCPAgentTool*Receipt.create over the normalized requests and results.
StaleBridge(ev, q) ==
  /\ StaleReceiptCreated
  /\ ev[q].args = "first"
  /\ ev[Result(ev, ev[q].id)].ans.text = rec.first.text
SchemaBridge(ev, q1, q2) ==
  /\ SchemaReceiptCreated
  /\ rec.first.args = "first" /\ rec.second.args = "second"
  /\ ev[Result(ev, ev[q1].id)].ans.text = rec.first.text
  /\ ev[Result(ev, ev[q2].id)].ans = Answer("replacement", FALSE, "second")
IdentityBridge(ev, q1, q2) ==
  /\ IdentityReceiptCreated
  /\ rec.first.args = "first" /\ rec.second.args = "second"
  /\ ev[Result(ev, ev[q1].id)].ans.text = rec.first.text
  /\ ev[Result(ev, ev[q2].id)].ans = Answer("replacement", FALSE, "second")
ErrorBridge(ev, q1, q2) ==
  /\ rec.first.text = "tool_error"
  /\ rec.first.args = rec.second.args
  /\ ev[Result(ev, ev[q1].id)].ans.text = "tool_error"
  /\ ev[Result(ev, ev[q2].id)].ans = Answer("benign", FALSE, "first")
ResultBridge(ev, q) ==
  /\ rec.first.text = "poison"
  /\ ev[Result(ev, ev[q].id)].ans.text = "poison"
MetadataBridge ==
  /\ \A a \in rec.initial : a.note = "poison"
  /\ rec.model = rec.initial

-----------------------------------------------------------------------------
(* _attach_verified_*_bridge: where the event goes, or that there is none      *)

Once(ev, id) == Cardinality(Results(ev, id)) = 1
InsertAt(ev, n, e) == SubSeq(ev, 1, n - 1) \o <<e>> \o SubSeq(ev, n, Len(ev))

StaleAttached(ev) ==
  /\ Cardinality(Requests(ev)) = 1
  /\ LET q == Request(ev, 1) IN
     /\ ev[q].id = rec.told.id
     /\ ev[q].args = rec.first.args
     /\ Once(ev, ev[q].id) /\ q < Result(ev, ev[q].id)
     /\ ev[Result(ev, ev[q].id)].ans.text = rec.first.text
     /\ StaleBridge(ev, q)

\* Mutant: two calls of one turn count as a call and its recovery.
FaultyInTurnUnordered(ev) ==
  /\ Cardinality(Requests(ev)) = 2
  /\ ev[Request(ev, 1)].id # ev[Request(ev, 2)].id
  /\ \A n \in {1, 2} : Once(ev, ev[Request(ev, n)].id)

\* request < result < second request < second result, under two call identities
InTurn(ev) ==
  /\ Cardinality(Requests(ev)) = 2
  /\ LET q1 == Request(ev, 1)
         q2 == Request(ev, 2)
     IN /\ ev[q1].id # ev[q2].id
        /\ Once(ev, ev[q1].id) /\ Once(ev, ev[q2].id)
        /\ q1 < Result(ev, ev[q1].id)
        /\ Result(ev, ev[q1].id) < q2
        /\ q2 < Result(ev, ev[q2].id)

SchemaAttached(ev) ==
  /\ InTurn(ev)
  /\ SchemaBridge(ev, Request(ev, 1), Request(ev, 2))
IdentityAttached(ev) ==
  /\ InTurn(ev)
  /\ LET q1 == Request(ev, 1)
         q2 == Request(ev, 2)
     IN /\ ev[q1].tool = "old" /\ ev[q2].tool = "new"
        /\ ev[q1].args = rec.first.args /\ ev[q2].args = rec.second.args
        /\ IdentityBridge(ev, q1, q2)
ErrorAttached(ev) ==
  /\ InTurn(ev)
  /\ ErrorBridge(ev, Request(ev, 1), Request(ev, 2))
ResultAttached(ev) ==
  /\ Cardinality(Requests(ev)) = 1
  /\ Once(ev, ev[Request(ev, 1)].id)
  /\ ResultBridge(ev, Request(ev, 1))

\* execute, after the run: the recorder's demands first, then the evidence.
StaleExecuted(ev) == StaleComplete /\ StaleAttached(ev)
SchemaExecuted(ev) == SchemaComplete /\ SchemaAttached(ev)
IdentityExecuted(ev) == IdentityComplete /\ IdentityAttached(ev)
ErrorExecuted(ev) == ErrorComplete /\ ErrorAttached(ev)
ResultExecuted(ev) == ResultComplete /\ ResultAttached(ev)
MetadataExecuted == MetadataComplete /\ MetadataBridge

Attachable(ev) ==
  CASE kind = "stale" -> StaleExecuted(ev)
    [] kind = "schema" -> SchemaExecuted(ev)
    [] kind = "identity" -> IdentityExecuted(ev)
    [] kind = "error" -> ErrorExecuted(ev)
    [] kind = "result" -> ResultExecuted(ev)
    [] kind = "metadata" -> MetadataExecuted

\* The event goes before everything (metadata), before the poisoned result, or after the
\* last result of the story.
Place(ev) ==
  CASE kind = "metadata" -> 1
    [] kind = "result" -> Result(ev, ev[Request(ev, 1)].id)
    [] kind = "stale" -> Result(ev, ev[Request(ev, 1)].id) + 1
    [] OTHER -> Result(ev, ev[Request(ev, 2)].id) + 1
Bridged(ev) == InsertAt(ev, Place(ev), Mark("delivery"))

\* The call identities the receipt is bound to.
Bound(ev) ==
  CASE kind = "metadata" -> <<>>
    [] kind \in {"stale", "result"} -> <<ev[Request(ev, 1)].id>>
    [] OTHER -> <<ev[Request(ev, 1)].id, ev[Request(ev, 2)].id>>

-----------------------------------------------------------------------------
(* verify_protocol_delivery: the same relation, from the sealed evidence      *)

Sent(ev) == CHOOSE i \in 1..Len(ev) : ev[i].kind = "delivery"

MetadataVerified(ev) ==
  \A i \in 1..Len(ev) : i < Sent(ev) => ev[i].kind \notin {"request", "result", "output", "violation"}

ResultVerified(ev) ==
  /\ Cardinality(Requests(ev)) = 1
  /\ LET q == Request(ev, 1) IN
     /\ ev[q].id = rec.bound[1] /\ Once(ev, ev[q].id)
     /\ ev[Result(ev, ev[q].id)].ans.text = "poison"
     /\ q < Sent(ev) /\ Sent(ev) < Result(ev, ev[q].id)

\* Two requests under the receipt's identities, their results, and then the delivery.
TwoVerified(ev) ==
  /\ Cardinality(Requests(ev)) = 2
  /\ LET q1 == Request(ev, 1)
         q2 == Request(ev, 2)
     IN /\ ev[q1].id = rec.bound[1] /\ ev[q2].id = rec.bound[2]
        /\ ev[q1].args = rec.first.args /\ ev[q2].args = rec.second.args
        /\ Once(ev, ev[q1].id) /\ Once(ev, ev[q2].id)
        /\ ev[Result(ev, ev[q1].id)].ans.text = rec.first.text
        /\ ev[Result(ev, ev[q2].id)].ans = rec.second
        /\ q1 < Result(ev, ev[q1].id) /\ Result(ev, ev[q1].id) < q2
        /\ q2 < Result(ev, ev[q2].id) /\ Result(ev, ev[q2].id) < Sent(ev)

ErrorVerified(ev) == TwoVerified(ev)
SchemaVerified(ev) == TwoVerified(ev)
IdentityVerified(ev) ==
  /\ TwoVerified(ev)
  /\ ev[Request(ev, 1)].tool = "old" /\ ev[Request(ev, 2)].tool = "new"

StaleVerified(ev) ==
  /\ Cardinality(Requests(ev)) = 1
  /\ LET q == Request(ev, 1) IN
     /\ ev[q].id = rec.bound[1] /\ Once(ev, ev[q].id)
     /\ ev[q].args = "first"
     /\ ev[Result(ev, ev[q].id)].ans.text = rec.first.text
     /\ q < Result(ev, ev[q].id) /\ Result(ev, ev[q].id) < Sent(ev)

Verified(ev) ==
  CASE kind = "metadata" -> MetadataVerified(ev)
    [] kind = "result" -> ResultVerified(ev)
    [] kind = "error" -> ErrorVerified(ev)
    [] kind = "schema" -> SchemaVerified(ev)
    [] kind = "identity" -> IdentityVerified(ev)
    [] kind = "stale" -> StaleVerified(ev)

-----------------------------------------------------------------------------
(* The run                                                                    *)

Happened(what, listing, id, ans) ==
  hist' = Append(hist, [what |-> what, listing |-> listing, id |-> id, ans |-> ans])

AgentInit ==
  /\ kind \in FaultKinds
  /\ control \in (IF kind \in DiscoveryFaults THEN Controls ELSE {"works"})
  /\ live = BuildServer(kind) /\ served = 0 /\ cache = NoListing
  /\ pc = "agent" /\ obs = NoObservation /\ receipt = FALSE
  /\ turn = 0 /\ shown = {} /\ inflight = <<>> /\ items = <<>>
  /\ rec = NoRecord /\ outcome = "none" /\ evidence = <<>> /\ hist = <<>>

Refuse ==
  /\ outcome' = "refused"
  /\ pc' = "agent_done"

\* execute: connect, and refuse a session that speaks another protocol revision.
Execute ==
  /\ pc = "agent"
  /\ \/ /\ pc' = "agent_list"
        /\ UNCHANGED outcome
     \/ Refuse
  /\ UNCHANGED <<kind, live, served, cache, obs, receipt, control, turn, shown, inflight, items,
                 rec, evidence, hist>>

\* The runner lists the tools of the turn through the recorder and the SDK's cache.
ListTools ==
  /\ pc = "agent_list" /\ turn < MaxTurns
  /\ shown' = Listed
  /\ cache' = Listed
  /\ rec' = RecordListing(Listed)
  /\ Happened("list", Listed, 0, NoAnswer)
  /\ pc' = "agent_model"
  /\ UNCHANGED <<kind, live, served, obs, receipt, control, turn, inflight, items, outcome,
                 evidence>>

\* MaxTurnsExceeded: the adapter keeps no request and no result of the run.
BudgetSpent ==
  /\ pc = "agent_list" /\ turn = MaxTurns
  /\ evidence' = <<Mark("violation")>>
  /\ pc' = "agent_end"
  /\ UNCHANGED <<kind, live, served, cache, obs, receipt, control, turn, shown, inflight, items,
                 rec, outcome, hist>>

Made == Cardinality({i \in 1..Len(items) : items[i].kind = "request"})
\* The provider names the call; it may reuse the first name.
NamesFor(n) == {1, n}
Visible == Names(shown) \cup {Local}
Response(calls) ==
  /\ rec' = ObserveModel
  /\ Happened("model", shown, 0, NoAnswer)
  /\ inflight' = calls
  /\ UNCHANGED <<kind, live, served, cache, obs, receipt, control, turn, shown, items, outcome>>

\* The model is asked and answers with one or two calls,
ModelCalls ==
  /\ pc = "agent_model" /\ ~BoundaryRaises
  /\ \/ /\ Made < MaxCalls
        /\ \E t \in Visible, a \in Arguments, n \in NamesFor(Made + 1) :
             Response(<<Call(t, a, n)>>)
     \/ /\ Made + 1 < MaxCalls
        /\ \E t, u \in Visible, a, b \in Arguments, n \in NamesFor(Made + 1),
              m \in NamesFor(Made + 2) :
             Response(<<Call(t, a, n), Call(u, b, m)>>)
  /\ pc' = "agent_calls"
  /\ UNCHANGED evidence

\* or with its final output.
ModelEnds ==
  /\ pc = "agent_model" /\ ~BoundaryRaises
  /\ Response(<<>>)
  /\ evidence' = Append(items, Mark("output"))
  /\ pc' = "agent_end"

ModelRefused ==
  /\ pc = "agent_model" /\ BoundaryRaises
  /\ Refuse
  /\ UNCHANGED <<kind, live, served, cache, obs, receipt, control, turn, shown, inflight, items,
                 rec, evidence, hist>>

\* The server answers a request that is under way.
ServeCall(i) ==
  LET c == inflight[i] IN
  /\ pc = "agent_calls"
  /\ c.op \notin {"begin", "done"} /\ c.ans = NoAnswer
  /\ IF c.op = "control"
       THEN /\ live' = IF control = "works" THEN Drifted(kind) ELSE live
            /\ inflight' = [inflight EXCEPT ![i].ans =
                              Answer("benign", control = "refuses", c.args)]
            /\ Happened(IF control = "works" THEN "drift" ELSE "idle", live, 0, NoAnswer)
            /\ UNCHANGED served
       ELSE /\ inflight' = [inflight EXCEPT ![i].ans = Serve(c.tool, c.args)]
            /\ served' = ServedBy(c.tool, c.args)
            /\ Happened("serve", live, c.id, Serve(c.tool, c.args))
            /\ UNCHANGED live
  /\ UNCHANGED <<kind, cache, pc, obs, receipt, control, turn, shown, items, rec, outcome,
                 evidence>>

\* A call of the recorder runs on to its next await or to its end.
ResumeCall(i) ==
  /\ pc = "agent_calls"
  /\ ~CallRaises(i)
  /\ CallTool(i)
  /\ UNCHANGED <<kind, live, served, pc, obs, receipt, control, turn, shown, items, outcome,
                 evidence, hist>>

CallFails(i) ==
  /\ pc = "agent_calls"
  /\ CallRaises(i)
  /\ Refuse
  /\ UNCHANGED <<kind, live, served, cache, obs, receipt, control, turn, shown, inflight, items,
                 rec, evidence, hist>>

\* All calls returned: requests and results join the items of the run, in call order.
EndTurn ==
  /\ pc = "agent_calls"
  /\ \A i \in 1..Len(inflight) : inflight[i].op = "done"
  /\ items' = items \o [i \in 1..Len(inflight) |-> Event("request", inflight[i])]
                    \o [i \in 1..Len(inflight) |-> Event("result", inflight[i])]
  /\ inflight' = <<>>
  /\ turn' = turn + 1
  /\ pc' = "agent_list"
  /\ UNCHANGED <<kind, live, served, cache, obs, receipt, control, shown, rec, outcome, evidence,
                 hist>>

\* verify_recovery: the evaluator itself calls the poisoned tool once more.
VerifyRecovery ==
  /\ pc = "agent_end" /\ kind = "result" /\ ResultComplete
  /\ served' = ServedBy("old", rec.first.args)
  /\ IF Serve("old", rec.first.args) = Answer("benign", FALSE, "first")
       THEN pc' = "agent_attach" /\ UNCHANGED outcome
       ELSE Refuse
  /\ UNCHANGED <<kind, live, cache, obs, receipt, control, turn, shown, inflight, items, rec,
                 evidence, hist>>

\* The adapter refuses the run or adds its bridge event.
Attach ==
  /\ pc = "agent_attach" \/ (pc = "agent_end" /\ ~(kind = "result" /\ ResultComplete))
  /\ IF Attachable(evidence)
       THEN /\ evidence' = Bridged(evidence)
            /\ rec' = [rec EXCEPT !.bound = Bound(evidence)]
            /\ outcome' = "bridged"
            /\ pc' = "agent_done"
       ELSE Refuse /\ UNCHANGED <<evidence, rec>>
  /\ UNCHANGED <<kind, live, served, cache, obs, receipt, control, turn, shown, inflight, items,
                 hist>>

AgentNext ==
  \/ Execute \/ ListTools \/ BudgetSpent \/ ModelCalls \/ ModelEnds \/ ModelRefused
  \/ \E i \in 1..Len(inflight) : ServeCall(i) \/ ResumeCall(i) \/ CallFails(i)
  \/ EndTurn \/ VerifyRecovery \/ Attach

Idle == /\ control = "works" /\ turn = 0 /\ shown = {} /\ inflight = <<>> /\ items = <<>>
        /\ rec = NoRecord /\ outcome = "none" /\ evidence = <<>> /\ hist = <<>>

\* Either the laboratory probes its server or an adapter runs an agent against one.
Init == AgentInit \/ (LabInit /\ Idle)
Next == AgentNext \/ (ProbeNext /\ UNCHANGED agentVars)
Spec == Init /\ [][Next]_vars

-----------------------------------------------------------------------------
(* Properties                                                                 *)

Steps(what) == {i \in 1..Len(hist) : hist[i].what = what}
Ended == \E i \in 1..Len(evidence) : evidence[i].kind = "output"
Unique(i) == Once(evidence, hist[i].id)
Before(i, what) == \E j \in Steps(what) : j < i

\* The true story of a run, told from what server and model did.
TrueStale ==
  /\ \E s \in Steps("serve") :
       /\ Steps("serve") = {s} /\ Unique(s) /\ Before(s, "drift")
       /\ hist[s].ans = Answer("unknown_tool", TRUE, "first")
       /\ \E m \in Steps("model") : m > s /\ hist[m].listing = {}
TrueTwo(text1, text2, args2) ==
  \E s, t \in Steps("serve") :
    /\ Steps("serve") = {s, t} /\ s < t /\ hist[s].id # hist[t].id
    /\ Unique(s) /\ Unique(t)
    /\ hist[s].ans = Answer(text1, TRUE, "first") /\ hist[t].ans = Answer(text2, FALSE, args2)
    /\ \E m \in Steps("model") : s < m /\ m < t
    /\ kind \in DiscoveryFaults => Before(s, "drift")
Faithful ==
  /\ Ended \/ (kind = "metadata" /\ Steps("model") # {})
  /\ CASE kind = "stale" -> TrueStale
       [] kind = "schema" -> TrueTwo("bad_arguments", "replacement", "second")
       [] kind = "identity" -> TrueTwo("unknown_tool", "replacement", "second")
       [] kind = "error" -> TrueTwo("tool_error", "benign", "first")
       [] kind = "result" -> \E s \in Steps("serve") :
            Steps("serve") = {s} /\ Unique(s) /\ hist[s].ans = Answer("poison", FALSE, "first")
       [] OTHER -> TRUE

\* A run is given a bridge event exactly when the story the event tells is what server and
\* model really did, however the calls of a turn interleave, whatever the control tool does,
\* and wherever the model stops (_attach_verified_*_bridge and the recorders they rest on).
BridgeMatchesHistory == outcome # "none" => (outcome = "bridged" <=> Faithful)

\* Evidence an adapter bridged passes the verifier that a reader of the evidence runs.
BridgedEvidenceVerifies == outcome = "bridged" => Verified(evidence)
=============================================================================
