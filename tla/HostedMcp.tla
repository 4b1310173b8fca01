------------------------------- MODULE HostedMcp -------------------------------
(* A hosted MCP server as mcp/advanced.py sees it: the probe that classifies one *)
(* HTTP exchange, and the receipts that conclude from probes, from exercised     *)
(* capabilities, from parallel calls, from a changed tool list, from several     *)
(* servers' names and from hostile answers.                                      *)
EXTENDS Naturals, FiniteSets, FiniteSetsExt

CONSTANTS Policies,    \* sets of conditions a policy may require
          Operations,  \* parallel calls
          Clock,       \* bound: last tick of the logical timeline
          Probes       \* bound: exchanges in a campaign

VARIABLES campaign,   \* what is qualified
          proxied,    \* a proxy_url is configured
          surface,    \* what a server declares, or two servers or two listings offer
          exchanges,  \* what really happened on the network, or at the server
          clock,      \* the logical timeline
          begun,      \* operations started, with their ticks
          done,       \* operations completed, with their ticks
          together,   \* the most operations that ever were in flight at once
          receipt     \* outcome, and the policy it was made under

hostedVars == <<campaign, proxied, surface, exchanges, clock, begun, done, together, receipt>>

Campaigns == {"remote", "hostile", "parallel", "capability", "list changed", "servers"}
Names == {"tools", "tasks", "roots"}
Nothing == [outcome |-> "none", required |-> {}, reported |-> 0]
Init ==
  /\ campaign \in Campaigns /\ proxied \in (IF campaign = "remote" THEN BOOLEAN ELSE {FALSE})
  /\ surface \in [{1, 2} -> (IF campaign \in {"capability", "list changed", "servers"} THEN SUBSET Names ELSE {{}})]
  /\ exchanges = {} /\ clock = 0 /\ together = 0 /\ receipt = Nothing
  /\ begun = <<>> /\ done = <<>>

Running(c) == campaign = c /\ receipt.outcome = "none"
Issue(outcome, required, reported) ==
  /\ receipt' = [outcome |-> outcome, required |-> required, reported |-> reported]
  /\ UNCHANGED <<campaign, proxied, surface, exchanges, clock, begun, done, together>>
Accept(condition, required, reported) == Issue(IF condition THEN "accepted" ELSE "rejected", required, reported)

-----------------------------------------------------------------------------
(* Probes of one endpoint                                                     *)

\* What an HTTPS exchange can come to: an answer, an error status, or no exchange at all.
Answers == [big : BOOLEAN, many : BOOLEAN, slow : BOOLEAN, says : {"expected", "other", "nameless", "text"}]
Statuses == {"429", "503", "404"}
Breaks == {"no tls", "no name", "no connection", "connect timeout", "cut short", "reset", "read timeout"}
Exchanges == [kind : {"answer"}, what : Answers] \cup [kind : {"status"}, what : Statuses] \cup [kind : {"break"}, what : Breaks]

\* probe_hosted_mcp_endpoint: the first limit an answer exceeds names it.
OfAnswer(a) ==
  CASE a.big -> "oversized-response"
    [] ~a.big /\ a.many -> "resource-pressure"
    [] ~a.big /\ ~a.many /\ a.slow -> "latency-limit"
    [] ~a.big /\ ~a.many /\ ~a.slow /\ a.says \in {"nameless", "text"} -> "protocol-trickery"
    [] OTHER -> "healthy"
OfStatus(s) == CASE s = "429" -> "rate-limit" [] s = "503" -> "gateway-failure" [] s = "404" -> "protocol-trickery"
OfBreak(b) ==
  CASE b = "no tls" -> "tls-failure"
    [] b = "no name" -> "dns-failure"
    [] b \in {"connect timeout", "read timeout"} -> "hang-timeout"
    [] b = "no connection" -> IF proxied THEN "proxy-failure" ELSE "disconnect"
    [] b = "cut short" -> "stream-interruption"
    [] b = "reset" -> "disconnect"
Condition(x) ==
  CASE x.kind = "answer" -> OfAnswer(x.what) [] x.kind = "status" -> OfStatus(x.what) [] x.kind = "break" -> OfBreak(x.what)

Probe ==
  /\ Running("remote") /\ Cardinality(exchanges) < Probes
  /\ \E x \in Exchanges : exchanges' = exchanges \cup {x}
  /\ UNCHANGED <<campaign, proxied, surface, clock, begun, done, together, receipt>>

Covered == {Condition(x) : x \in exchanges}
Healthy == {x \in exchanges : Condition(x) = "healthy"}
ExpectedServer == Healthy # {} /\ \A x \in Healthy : x.what.says = "expected"
\* An observation keeps the bytes, or the frames, that made it a fault: above the endpoint's limits.
WithinEndpoint(x) == Condition(x) \notin {"oversized-response", "resource-pressure"}
\* MCPRemoteAssuranceReceipt.create
RemoteReceipt ==
  /\ Running("remote") /\ exchanges # {}
  /\ \E required \in Policies :
       Accept(required \subseteq Covered /\ ExpectedServer /\ \A x \in exchanges : WithinEndpoint(x), required, 0)

-----------------------------------------------------------------------------
(* A hostile server under a budget                                            *)

\* What each hostile class may exceed without counting against the evaluator.
Excused ==
  [oversized |-> {"bytes"}, hang |-> {"time"}, trickery |-> {"messages"}, pressure |-> {"messages"}]
HostileAnswer ==
  /\ Running("hostile") /\ Cardinality(exchanges) < Probes
  /\ \E class \in DOMAIN Excused, over \in SUBSET {"bytes", "time", "messages"}, stopped \in BOOLEAN :
       exchanges' = exchanges \cup {[class |-> class, over |-> over, stopped |-> stopped, escaped |-> over # {} /\ ~stopped]}
  /\ UNCHANGED <<campaign, proxied, surface, clock, begun, done, together, receipt>>
\* MCPHostileServerReceipt.create
HostileReceipt ==
  /\ Running("hostile") /\ exchanges # {}
  /\ \E required \in SUBSET DOMAIN Excused \ {{}} :
       Accept(/\ required \subseteq {x.class : x \in exchanges}
              /\ \A x \in exchanges : x.stopped /\ ~x.escaped /\ x.over \subseteq Excused[x.class], required, 0)

-----------------------------------------------------------------------------
(* Parallel calls                                                             *)

InFlight == DOMAIN begun \ DOMAIN done
With(f, o) == [p \in DOMAIN f \cup {o} |-> IF p = o THEN clock ELSE f[p]]
Tick ==
  /\ Running("parallel") /\ clock < Clock /\ clock' = clock + 1
  /\ UNCHANGED <<campaign, proxied, surface, exchanges, begun, done, together, receipt>>
Begin ==
  /\ Running("parallel")
  /\ \E o \in Operations \ DOMAIN begun : begun' = With(begun, o)
  /\ together' = IF Cardinality(InFlight) + 1 > together THEN Cardinality(InFlight) + 1 ELSE together
  /\ UNCHANGED <<campaign, proxied, surface, exchanges, clock, done, receipt>>
Complete ==
  /\ Running("parallel") /\ \E o \in InFlight : done' = With(done, o)
  /\ UNCHANGED <<campaign, proxied, surface, exchanges, clock, begun, together, receipt>>
\* MCPConcurrentOperation's interval: an operation has the ticks it begins and ends at.
At(tick) == {o \in DOMAIN done : begun[o] <= tick /\ tick <= done[o]}
\* _peak_parallelism
PeakParallelism ==
  Max({Cardinality(At(tick)) : tick \in {begun[o] : o \in DOMAIN done} \cup {done[o] : o \in DOMAIN done}})
\* MCPConcurrencyReceipt.create
ConcurrencyReceipt ==
  /\ Running("parallel") /\ InFlight = {} /\ Cardinality(DOMAIN done) >= 2
  /\ \E minimum \in 2..3 : Accept(PeakParallelism >= minimum, {minimum}, PeakParallelism)

-----------------------------------------------------------------------------
(* Capabilities, a changed list, names of several servers                     *)

\* Operations exercise what the server declares, or what it does not.
Exercise ==
  /\ Running("capability") /\ Cardinality(exchanges) < Probes
  /\ \E capability \in Names, ok \in BOOLEAN : exchanges' = exchanges \cup {[capability |-> capability, ok |-> ok]}
  /\ UNCHANGED <<campaign, proxied, surface, clock, begun, done, together, receipt>>
\* MCPCapabilityExerciseReceipt.create
CapabilityReceipt ==
  /\ Running("capability") /\ exchanges # {}
  /\ IF {x.capability : x \in exchanges} \subseteq surface[1]
     THEN \E required \in SUBSET Names \ {{}} :
            Accept(required \subseteq {x.capability : x \in {y \in exchanges : y.ok}}, required, 0)
     ELSE Issue("refused", {}, 0)
\* MCPToolsListChangedReceipt.create: the tools before and after the notification.
ListChangedReceipt ==
  /\ Running("list changed")
  /\ Issue(IF surface[1] = surface[2] THEN "refused" ELSE "accepted", {}, 0)
\* MCPMultiServerReceipt.create: no name has two owners.
MultiServerReceipt ==
  /\ Running("servers")
  /\ Accept({name \in Names : Cardinality({who \in {1, 2} : name \in surface[who]}) > 1} = {}, {}, 0)

Next ==
  \/ Probe \/ RemoteReceipt \/ HostileAnswer \/ HostileReceipt
  \/ Tick \/ Begin \/ Complete \/ ConcurrencyReceipt
  \/ Exercise \/ CapabilityReceipt \/ ListChangedReceipt \/ MultiServerReceipt
Spec == Init /\ [][Next]_hostedVars

-----------------------------------------------------------------------------
(* Properties                                                                 *)

Accepted(c) == campaign = c /\ receipt.outcome = "accepted"
Overlap(S) == \A o, p \in S : begun[o] <= done[p]

\* What an accepted receipt says of the other side is so.  The expected server did answer in time
\* and within its limits, and no other server did; a policy that wants a proxy to fail had a proxy,
\* and none that wants an answer over the endpoint's limits can be met (that is the hostile
\* receipt's part, which no answer escaped).  The parallelism reported is never below what was in
\* flight at once, and is the size of a largest set of calls that overlap pairwise.
HostedReceiptIsEarned ==
  /\ Accepted("remote") =>
       /\ \E x \in Healthy : ~x.what.slow /\ ~x.what.big /\ ~x.what.many /\ x.what.says = "expected"
       /\ \A x \in Healthy : x.what.says # "other"
       /\ receipt.required \cap {"oversized-response", "resource-pressure"} = {}
       /\ "proxy-failure" \in receipt.required => proxied
  /\ Accepted("hostile") => \A x \in exchanges : ~x.escaped /\ x.over # {"bytes", "time", "messages"}
  /\ campaign = "parallel" /\ receipt.outcome # "none" =>
       /\ together <= receipt.reported
       /\ receipt.reported \in {Cardinality(S) : S \in {S \in SUBSET DOMAIN done : Overlap(S)}}
       /\ \A S \in SUBSET DOMAIN done : Overlap(S) => Cardinality(S) <= receipt.reported
  /\ Accepted("servers") => surface[1] \cap surface[2] = {}
=============================================================================
