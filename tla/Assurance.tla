----------------------------- MODULE Assurance -----------------------------
(* What judges a finished campaign, and what guards the project itself: release *)
(* gates, the live canary, minimization, approval governance, memory receipts,  *)
(* the publication of code scans and the dependency automation.  One behaviour  *)
(* is about one of them: they share no state.                                   *)
EXTENDS DependencyGovernance, ScanPublication

CONSTANTS
  ReleasePolicies, RiskFamilies, RequiredFamilies, TrialBound, SliceBound,   \* release gates
  CanaryLimits, Durations, RetryAfters, Oversleeps,                          \* canary
  Inputs, Budgets,                                                           \* delta debugging
  People, Requester, Delegators, Quorums, ClockBound, EvidenceBound, WorkerBound,  \* approvals
  StoreFaults, ReadsEach                                                     \* memory

VARIABLES
  part,      \* the component this behaviour is about
  release, profile, trials, criticality, verdictOfGate, slices, decision,
  limits, now, stage, requests, wait, cost, charged, observation,
  items, budget, current, granularity, evaluations, sweep, position, verdicts,
  governance, clock, approvals, delegations, revoked, quorate, resumes, continued,
  faults, memory, tick, trace

Gates == INSTANCE ReleaseGates WITH Families <- RiskFamilies, Required <- RequiredFamilies
Canary == INSTANCE ProviderCanary WITH Limits <- CanaryLimits
Delta == INSTANCE DeltaDebugging WITH Items <- Inputs
Approvals == INSTANCE ApprovalGovernance WITH
  Policies <- Quorums, Clock <- ClockBound, Evidence <- EvidenceBound, Workers <- WorkerBound
Memory == INSTANCE MemoryAssurance WITH Faults <- StoreFaults

\* ReleasePolicy, ProviderCanaryLimits, ApprovalGovernancePolicy and the arguments of ddmin as the
\* code validates them.
ASSUME GatesAssumption == ReleasePolicies \subseteq Gates!Thresholds
ASSUME CanaryAssumption ==
  /\ CanaryLimits \subseteq [attempts : Nat, wall : Nat, interval : Nat, tokens : Nat, price : Nat,
                             ceiling : Nat]
  /\ Durations \subseteq Nat /\ RetryAfters \subseteq Nat /\ Oversleeps \subseteq Nat
ASSUME DeltaAssumption ==
  /\ \A s \in Inputs : /\ s \in Seq({s[i] : i \in 1..Len(s)})
                       /\ \A i, j \in 1..Len(s) : s[i] = s[j] => i = j
  /\ Budgets \subseteq Nat \ {0}
ASSUME ApprovalsAssumption ==
  Quorums \subseteq [quorum : Nat, age : Nat, delegation : BOOLEAN, escalation : BOOLEAN]

gatesVars == <<release, profile, trials, criticality, verdictOfGate, slices, decision>>
canaryVars == <<limits, now, stage, requests, wait, cost, charged, observation>>
deltaVars == <<items, budget, current, granularity, evaluations, sweep, position, verdicts>>
approvalsVars == <<governance, clock, approvals, delegations, revoked, quorate, resumes,
            continued>>
memoryVars == <<faults, memory, tick, trace>>

GatesRests ==
  /\ release = 0 /\ profile = 0 /\ trials = 0 /\ criticality = 0 /\ verdictOfGate = 0 /\ slices = 0
  /\ decision = 0
CanaryRests ==
  /\ limits = 0 /\ now = 0 /\ stage = 0 /\ requests = 0 /\ wait = 0 /\ cost = 0 /\ charged = 0
  /\ observation = 0
DeltaRests ==
  /\ items = 0 /\ budget = 0 /\ current = 0 /\ granularity = 0 /\ evaluations = 0 /\ sweep = 0
  /\ position = 0 /\ verdicts = 0
ApprovalsRests ==
  /\ governance = 0 /\ clock = 0 /\ approvals = 0 /\ delegations = 0 /\ revoked = 0 /\ quorate = 0
  /\ resumes = 0 /\ continued = 0
MemoryRests ==
  /\ faults = 0 /\ memory = 0 /\ tick = 0 /\ trace = 0
\* Where the behaviour is about something else, one initial state stands for all of them.
ScansRest == (\A h \in 1..Len(heads) : heads[h].kind = "trusted") /\ room = CHOOSE r \in Rooms : TRUE

AssuranceInit ==
  /\ Init /\ ScanInit
  /\ \/ /\ part = "gates" /\ Gates!Init
        /\ CanaryRests /\ DeltaRests /\ ApprovalsRests /\ MemoryRests /\ ScansRest
     \/ /\ part = "canary" /\ Canary!Init
        /\ GatesRests /\ DeltaRests /\ ApprovalsRests /\ MemoryRests /\ ScansRest
     \/ /\ part = "delta" /\ Delta!Init
        /\ GatesRests /\ CanaryRests /\ ApprovalsRests /\ MemoryRests /\ ScansRest
     \/ /\ part = "approvals" /\ Approvals!Init
        /\ GatesRests /\ CanaryRests /\ DeltaRests /\ MemoryRests /\ ScansRest
     \/ /\ part = "memory" /\ Memory!Init
        /\ GatesRests /\ CanaryRests /\ DeltaRests /\ ApprovalsRests /\ ScansRest
     \/ /\ part = "scans"
        /\ GatesRests /\ CanaryRests /\ DeltaRests /\ ApprovalsRests /\ MemoryRests
     \/ /\ part = "deps"
        /\ GatesRests /\ CanaryRests /\ DeltaRests /\ ApprovalsRests /\ MemoryRests /\ ScansRest
AssuranceNext ==
  \/ /\ part = "gates" /\ Gates!Next
     /\ UNCHANGED <<part, canaryVars, deltaVars, approvalsVars, memoryVars, scanVars,
                    governanceVars>>
  \/ /\ part = "canary" /\ Canary!Next
     /\ UNCHANGED <<part, gatesVars, deltaVars, approvalsVars, memoryVars, scanVars,
                    governanceVars>>
  \/ /\ part = "delta" /\ Delta!Next
     /\ UNCHANGED <<part, gatesVars, canaryVars, approvalsVars, memoryVars, scanVars,
                    governanceVars>>
  \/ /\ part = "approvals" /\ Approvals!Next
     /\ UNCHANGED <<part, gatesVars, canaryVars, deltaVars, memoryVars, scanVars,
                    governanceVars>>
  \/ /\ part = "memory" /\ Memory!Next
     /\ UNCHANGED <<part, gatesVars, canaryVars, deltaVars, approvalsVars, scanVars,
                    governanceVars>>
  \/ /\ part = "scans" /\ ScanNext
     /\ UNCHANGED <<part, gatesVars, canaryVars, deltaVars, approvalsVars, memoryVars,
                    governanceVars>>
  \/ /\ part = "deps" /\ Next
     /\ UNCHANGED <<part, gatesVars, canaryVars, deltaVars, approvalsVars, memoryVars, scanVars>>
AssuranceSpec ==
  /\ AssuranceInit
  /\ [][AssuranceNext]_<<part, gatesVars, canaryVars, deltaVars, approvalsVars, memoryVars,
                         scanVars, governanceVars>>

-----------------------------------------------------------------------------
(* The properties of the parts; each module states and explains its own.       *)
(* Those of the dependency automation and of the code scans hold of their initial *)
(* states, where they rest in the other behaviours, too.                           *)

\* Nothing compensates for a critical violation, and what is accepted is supported by the trials'
\* own evidence (ReleaseGates).
GateIsSound == part = "gates" => Gates!SafetyIsNotCompensated /\ Gates!AcceptanceIsSupported

\* The canary stays inside its ceilings, and its record says what happened (ProviderCanary).
CanaryIsBounded == part = "canary" => Canary!ChargesStayInCeiling /\ Canary!ObservationIsBounded

\* A minimized input was seen to fail, and is minimal when the search ends (DeltaDebugging).
MinimizationIsSound == part = "delta" => Delta!MinimizationIsSound

\* A quorum stands behind every accepted resumption, which continued once (ApprovalGovernance).
ResumeIsGoverned == part = "approvals" => Approvals!ResumeIsGoverned

\* An accepted memory receipt leaves no room for the faults it speaks of (MemoryAssurance).
AcceptedMemoryHolds == part = "memory" => Memory!AcceptedMemoryHolds
=============================================================================
