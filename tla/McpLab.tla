------------------------------- MODULE McpLab -------------------------------
(* The MCP fault laboratory: one server whose only target tool is poisoned,   *)
(* fails once, disappears, changes its arguments or its name, and a client    *)
(* that lists tools through a cache (mcp/lab.py, mcp/models.py).  The probe   *)
(* issues a receipt when what the client observed shows the fault.  A cached  *)
(* listing may time out between any two requests of the probe.                *)
EXTENDS Naturals, Sequences

CONSTANTS FaultKinds     \* the kinds of fault this instance contains

VARIABLES kind,          \* the fault of this experiment
          live,          \* what the server offers now
          served,        \* how often the controlled tool has run
          cache,         \* the listing the client holds, or NoListing
          pc,            \* where the experiment stands
          obs,           \* what the probe has observed
          receipt        \* has the probe issued its receipt?

-----------------------------------------------------------------------------
(* Tools and answers                                                          *)

DiscoveryFaults == {"stale", "schema", "identity"}
ContentFaults == {"metadata", "result", "error"}

\* MCPFaultSpec: the target is "old"; an identity fault renames it to "new".
Tools == {"old", "new"}
Shapes == {"v1", "v2"}
Notes == {"benign", "poison"}
Adverts == [name : Tools, shape : Shapes, note : Notes]
NoListing == {[name |-> "none", shape |-> "none", note |-> "none"]}
Names(listing) == {a.name : a \in listing}

\* build_server: the catalogue before the fault strikes.
BuildServer(k) ==
  {[name |-> "old", shape |-> "v1", note |-> IF k = "metadata" THEN "poison" ELSE "benign"]}

\* The catalogue after it: removed, migrated or renamed.
Drifted(k) ==
  CASE k = "stale" -> {}
    [] k = "schema" -> {[name |-> "old", shape |-> "v2", note |-> "benign"]}
    [] k = "identity" -> {[name |-> "new", shape |-> "v1", note |-> "benign"]}
    [] OTHER -> BuildServer(k)

\* Two argument objects: the one bound to the first call and the one bound to recovery.
Arguments == {"first", "second"}
Texts == {"poison", "tool_error", "unknown_tool", "bad_arguments", "benign", "replacement"}
Answers == [text : Texts, error : BOOLEAN, args : Arguments]
Answer(t, e, a) == [text |-> t, error |-> e, args |-> a]

\* What the server says to a call now.  A migrated tool takes only the new arguments.
Serve(tool, args) ==
  IF tool \notin Names(live) THEN Answer("unknown_tool", TRUE, args)
  ELSE IF tool = "new" THEN Answer("replacement", FALSE, args)
  ELSE IF (CHOOSE a \in live : a.name = "old").shape = "v2"
    THEN IF args = "second" THEN Answer("replacement", FALSE, args)
                            ELSE Answer("bad_arguments", TRUE, args)
  ELSE CASE kind = "schema" /\ args = "second" -> Answer("bad_arguments", TRUE, args)
         [] kind = "result" /\ served = 0 -> Answer("poison", FALSE, args)
         [] kind = "error" /\ served = 0 -> Answer("tool_error", TRUE, args)
         [] OTHER -> Answer("benign", FALSE, args)

\* Only an execution of the tool's function counts.
ServedBy(tool, args) ==
  IF Serve(tool, args).text \in {"unknown_tool", "bad_arguments"} THEN served ELSE served + 1

-----------------------------------------------------------------------------
(* The probe's observations and its receipt                                   *)

NoAnswer == [text |-> "none", error |-> FALSE, args |-> "first"]
NoObservation == [initial |-> NoListing, cached |-> NoListing, refreshed |-> NoListing,
                  first |-> NoAnswer, second |-> NoAnswer, truth |-> NoListing]

\* _receipt_for_observation: content faults.
ContentReceipt(o) ==
  \/ kind = "metadata" /\ \A a \in o.initial : a.note = "poison"
  \/ kind = "result" /\ ~o.first.error /\ o.first.text = "poison"
  \/ kind = "error" /\ o.first.error /\ o.first.text = "tool_error"

\* Mutant: the listing after the change is not looked at.
FaultyStaleReceiptUncached(o) == Names(o.initial) = {"old"} /\ Names(o.refreshed) = {}

\* _discovery_cache_receipt
StaleReceipt(o) ==
  /\ Names(o.initial) = {"old"}
  /\ Names(o.cached) = Names(o.initial)
  /\ Names(o.refreshed) = {}

\* _schema_drift_receipt
SchemaReceipt(o) ==
  /\ {a.shape : a \in o.initial} = {"v1"}
  /\ {a.shape : a \in o.cached} = {"v1"}
  /\ {a.shape : a \in o.refreshed} = {"v2"}
  /\ o.first.error
  /\ ~o.second.error /\ o.second.text = "replacement" /\ o.second.args = "second"

\* _identity_drift_receipt
IdentityReceipt(o) ==
  /\ Names(o.initial) = {"old"} /\ Names(o.cached) = Names(o.initial)
  /\ Names(o.refreshed) = {"new"}
  /\ o.first.error /\ o.first.text = "unknown_tool"
  /\ ~o.second.error /\ o.second.text = "replacement" /\ o.second.args = "second"

Receipt(o) ==
  CASE kind \in ContentFaults -> ContentReceipt(o)
    [] kind = "stale" -> StaleReceipt(o)
    [] kind = "schema" -> SchemaReceipt(o)
    [] kind = "identity" -> IdentityReceipt(o)

-----------------------------------------------------------------------------
(* The probe, one request at a time                                           *)

labVars == <<kind, live, served, cache, pc, obs, receipt>>

LabInit ==
  /\ kind \in FaultKinds
  /\ live = BuildServer(kind)
  /\ served = 0
  /\ cache = NoListing
  /\ pc = "probe"
  /\ obs = NoObservation
  /\ receipt = FALSE

\* client.list_tools(): from the cache while the listing in it has not timed out.
Listed == IF cache = NoListing THEN live ELSE cache
\* Servers that announce no lifetime are never cached.
Cached == IF kind \in DiscoveryFaults THEN Listed ELSE NoListing

\* The listing in the cache reaches its time to live.
CacheExpires ==
  /\ pc \in {"probe_cached", "probe_first", "probe_refresh", "probe_second"}
  /\ cache # NoListing
  /\ cache' = NoListing
  /\ UNCHANGED <<kind, live, served, pc, obs, receipt>>

\* The first listing; the drift follows it without another request.
ProbeLists ==
  /\ pc = "probe"
  /\ obs' = [obs EXCEPT !.initial = Listed]
  /\ cache' = Cached
  /\ live' = Drifted(kind)
  /\ pc' = IF kind \in DiscoveryFaults THEN "probe_cached" ELSE "probe_first"
  /\ UNCHANGED <<kind, served, receipt>>

\* probe_discovery_cache: two more listings and no call.
ProbeListsCached ==
  /\ pc = "probe_cached"
  /\ obs' = [obs EXCEPT !.cached = Listed, !.truth = live]
  /\ cache' = Listed
  /\ pc' = IF kind = "stale" THEN "probe_refresh" ELSE "probe_first"
  /\ UNCHANGED <<kind, live, served, receipt>>

ProbeCallsFirst ==
  /\ pc = "probe_first"
  /\ obs' = [obs EXCEPT !.first = Serve("old", "first")]
  /\ served' = ServedBy("old", "first")
  /\ pc' = IF kind \in DiscoveryFaults THEN "probe_refresh" ELSE "probe_second"
  /\ UNCHANGED <<kind, live, cache, receipt>>

ProbeRefreshes ==
  /\ pc = "probe_refresh"
  /\ obs' = [obs EXCEPT !.refreshed = live]
  /\ cache' = live
  /\ pc' = IF kind = "stale" THEN "probe_receipt" ELSE "probe_second"
  /\ UNCHANGED <<kind, live, served, receipt>>

ProbeCallsSecond ==
  /\ pc = "probe_second"
  /\ LET tool == IF kind = "identity" THEN "new" ELSE "old"
     IN obs' = [obs EXCEPT !.second = Serve(tool, "second")]
        /\ served' = ServedBy(tool, "second")
  /\ pc' = "probe_receipt"
  /\ UNCHANGED <<kind, live, cache, receipt>>

ProbeReceipt ==
  /\ pc = "probe_receipt"
  /\ receipt' = Receipt(obs)
  /\ pc' = "probe_done"
  /\ UNCHANGED <<kind, live, served, cache, obs>>

ProbeNext ==
  \/ CacheExpires \/ ProbeLists \/ ProbeListsCached \/ ProbeCallsFirst
  \/ ProbeRefreshes \/ ProbeCallsSecond \/ ProbeReceipt

-----------------------------------------------------------------------------
(* Properties                                                                 *)

\* A probe that ends issues its receipt exactly when the client was really served the fault:
\* for a discovery fault, when the listing it was given after the change was not what the
\* server offered at that moment.  The lifetime of the cached listing may end at any point
\* (mcp/lab.py:170 reads the cache after the tool was removed at 168).
ReceiptMeansDrift ==
  pc = "probe_done" =>
     (receipt <=> IF kind \in DiscoveryFaults THEN obs.cached # obs.truth ELSE TRUE)
=============================================================================
