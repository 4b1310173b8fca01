------------------------------ MODULE Adapters ------------------------------
(* The adapters and the laboratories they speak to: tools behind MCP,         *)
(* delivery of attacks, approvals, side effects, OAuth and hosted servers.    *)
(* One behaviour is about one of them: they share no state.                   *)
EXTENDS Naturals, FiniteSets

CONSTANTS
  FaultKinds, TurnBound, CallBound,                 \* MCP laboratory and bridges
  Channels,                                         \* delivery of attacks, in TurnBound turns
  ApprovalTurns, ApprovalCalls,                     \* approvals
  TargetCalls, OpenEffects, DeliveryBound,          \* side effects
  FlowLimit, RequiredScopes,                        \* the OAuth flow
  SessionTokens, TraceBound,                        \* sessions and contractions
  HostedPolicies, ParallelCalls, TickBound, ProbeBound   \* hosted servers

VARIABLES
  part,      \* the component this behaviour is about
  kind, live, served, cache, pc, obs, receipt, control, turn, shown, inflight, items, rec,
  outcome, evidence, hist,
  channel, authority, phase, agent, turns, calls, newItems, recorder, given, result,
  policy, intent, stage, active, taken, pending, approvalItems, mark, decided, ran, events,
  mode, required, ops, effect, late, observed, record, attempts,
  flowStage, at, client, asked, grants, issued, counts, afterFirst, introspected, inquiry,
  flowServed, receipted,
  broken, campaign, statuses, keysets, trace, epochs, revokedNow, qualified,
  hostedCampaign, proxied, surface, exchanges, clock, begun, done, together, hostedReceipt

Mcp == INSTANCE McpBridge WITH MaxTurns <- TurnBound, MaxCalls <- CallBound
Agent == INSTANCE AgentRun WITH TurnBudget <- TurnBound
Approval == INSTANCE ApprovalLifecycle WITH
  RunTurns <- ApprovalTurns, CallLimit <- ApprovalCalls, items <- approvalItems
Effects == INSTANCE SideEffects
Flow == INSTANCE OAuthFlow WITH stage <- flowStage, served <- flowServed
Servers == INSTANCE OAuthQualification WITH Tokens <- SessionTokens, Trace <- TraceBound
Hosted == INSTANCE HostedMcp WITH
  Policies <- HostedPolicies, Operations <- ParallelCalls, Clock <- TickBound, Probes <- ProbeBound,
  campaign <- hostedCampaign, receipt <- hostedReceipt

\* MCPFaultKind.
ASSUME LabAssumption == FaultKinds \subseteq Mcp!DiscoveryFaults \cup Mcp!ContentFaults
\* A probe sends a tuple of calls at once (mcp/advanced.py).
ASSUME ParallelAssumption == IsFiniteSet(ParallelCalls)

mcpVars == <<kind, live, served, cache, pc, obs, receipt, control, turn, shown, inflight,
            items, rec, outcome, evidence, hist>>
agentVars == <<channel, authority, phase, agent, turns, calls, newItems, recorder, given,
            result>>
approvalVars == <<policy, intent, stage, active, taken, pending, approvalItems, mark, decided,
            ran, events>>
effectsVars == <<mode, required, ops, effect, late, observed, record, attempts>>
flowVars == <<flowStage, at, client, asked, grants, issued, counts, afterFirst,
            introspected, inquiry, flowServed, receipted>>
serversVars == <<broken, campaign, statuses, keysets, trace, epochs, revokedNow, qualified>>
hostedVars == <<hostedCampaign, proxied, surface, exchanges, clock, begun, done, together,
            hostedReceipt>>

McpRests ==
  /\ kind = 0 /\ live = 0 /\ served = 0 /\ cache = 0 /\ pc = 0 /\ obs = 0
  /\ receipt = 0 /\ control = 0 /\ turn = 0 /\ shown = 0 /\ inflight = 0 /\ items = 0
  /\ rec = 0 /\ outcome = 0 /\ evidence = 0 /\ hist = 0
AgentRests ==
  /\ channel = 0 /\ authority = 0 /\ phase = 0 /\ agent = 0 /\ turns = 0 /\ calls = 0
  /\ newItems = 0 /\ recorder = 0 /\ given = 0 /\ result = 0
ApprovalRests ==
  /\ policy = 0 /\ intent = 0 /\ stage = 0 /\ active = 0 /\ taken = 0 /\ pending = 0
  /\ approvalItems = 0 /\ mark = 0 /\ decided = 0 /\ ran = 0 /\ events = 0
EffectsRests ==
  /\ mode = 0 /\ required = 0 /\ ops = 0 /\ effect = 0 /\ late = 0 /\ observed = 0
  /\ record = 0 /\ attempts = 0
FlowRests ==
  /\ flowStage = 0 /\ at = 0 /\ client = 0 /\ asked = 0 /\ grants = 0 /\ issued = 0
  /\ counts = 0 /\ afterFirst = 0 /\ introspected = 0 /\ inquiry = 0 /\ flowServed = 0
  /\ receipted = 0
ServersRests ==
  /\ broken = 0 /\ campaign = 0 /\ statuses = 0 /\ keysets = 0 /\ trace = 0 /\ epochs = 0
  /\ revokedNow = 0 /\ qualified = 0
HostedRests ==
  /\ hostedCampaign = 0 /\ proxied = 0 /\ surface = 0 /\ exchanges = 0 /\ clock = 0 /\ begun = 0
  /\ done = 0 /\ together = 0 /\ hostedReceipt = 0

Init ==
  \/ /\ part = "mcp" /\ Mcp!Init
     /\ AgentRests /\ ApprovalRests /\ EffectsRests /\ FlowRests /\ ServersRests /\ HostedRests
  \/ /\ part = "agent" /\ Agent!Init
     /\ McpRests /\ ApprovalRests /\ EffectsRests /\ FlowRests /\ ServersRests /\ HostedRests
  \/ /\ part = "approval" /\ Approval!Init
     /\ McpRests /\ AgentRests /\ EffectsRests /\ FlowRests /\ ServersRests /\ HostedRests
  \/ /\ part = "effects" /\ Effects!Init
     /\ McpRests /\ AgentRests /\ ApprovalRests /\ FlowRests /\ ServersRests /\ HostedRests
  \/ /\ part = "flow" /\ Flow!Init
     /\ McpRests /\ AgentRests /\ ApprovalRests /\ EffectsRests /\ ServersRests /\ HostedRests
  \/ /\ part = "servers" /\ Servers!Init
     /\ McpRests /\ AgentRests /\ ApprovalRests /\ EffectsRests /\ FlowRests /\ HostedRests
  \/ /\ part = "hosted" /\ Hosted!Init
     /\ McpRests /\ AgentRests /\ ApprovalRests /\ EffectsRests /\ FlowRests /\ ServersRests
Next ==
  \/ /\ part = "mcp" /\ Mcp!Next
     /\ UNCHANGED <<part, agentVars, approvalVars, effectsVars, flowVars, serversVars, hostedVars>>
  \/ /\ part = "agent" /\ Agent!Next
     /\ UNCHANGED <<part, mcpVars, approvalVars, effectsVars, flowVars, serversVars, hostedVars>>
  \/ /\ part = "approval" /\ Approval!Next
     /\ UNCHANGED <<part, mcpVars, agentVars, effectsVars, flowVars, serversVars, hostedVars>>
  \/ /\ part = "effects" /\ Effects!Next
     /\ UNCHANGED <<part, mcpVars, agentVars, approvalVars, flowVars, serversVars, hostedVars>>
  \/ /\ part = "flow" /\ Flow!Next
     /\ UNCHANGED <<part, mcpVars, agentVars, approvalVars, effectsVars, serversVars, hostedVars>>
  \/ /\ part = "servers" /\ Servers!Next
     /\ UNCHANGED <<part, mcpVars, agentVars, approvalVars, effectsVars, flowVars, hostedVars>>
  \/ /\ part = "hosted" /\ Hosted!Next
     /\ UNCHANGED <<part, mcpVars, agentVars, approvalVars, effectsVars, flowVars, serversVars>>
Spec == Init /\ [][Next]_<<part, mcpVars, agentVars, approvalVars, effectsVars, flowVars, serversVars,
                            hostedVars>>

-----------------------------------------------------------------------------
(* The properties of the parts; each module states and explains its own.       *)

\* A probe's receipt means the server really changed or poisoned what the fault says (McpLab).
ReceiptMeansDrift == part = "mcp" => Mcp!ReceiptMeansDrift

\* An adapter adds a bridge event exactly to the runs whose story is true, and a reader of the
\* evidence can verify each (McpBridge).
BridgeIsTrue == part = "mcp" => Mcp!BridgeMatchesHistory /\ Mcp!BridgedEvidenceVerifies

\* Delivery is verified exactly when the stimulus reached the subject; the record has it where it
\* happened and names the agent that acted (AgentRun).
RecordIsTrue ==
  part = "agent" =>
    Agent!VerifiedMeansDelivered /\ Agent!DeliveryStandsWhereItHappened /\ Agent!OwnersAreExact

\* A trial that passes ran the protected tool exactly as the decision said, and a target that ran
\* without any decision is graded, and fails (ApprovalLifecycle).
ApprovalIsGraded == part = "approval" => Approval!ConsentDecides /\ Approval!BypassIsGraded

\* Verdicts and settled receipts count the effects that really landed (SideEffects).
EffectsAreCounted == part = "effects" => Effects!VerdictCountsEffects /\ Effects!SettledOnce

\* What the receipts for authorization and for remote servers say of the other side is so
\* (OAuthFlow, OAuthQualification, HostedMcp).
RemoteReceiptsAreEarned ==
  /\ part = "flow" => Flow!ReceiptIsOneGrant
  /\ part = "servers" => Servers!QualifiedServersRefuse
  /\ part = "hosted" => Hosted!HostedReceiptIsEarned
=============================================================================
