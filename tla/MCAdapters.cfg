\* One component in each behaviour.  Most of them come to rest.
SPECIFICATION Spec
CONSTANTS
  FaultKinds = {"metadata", "result", "error", "stale", "schema", "identity"}
  TurnBound = 3
  CallBound = 3
  Channels = {"none", "user_input", "tool_result", "environment", "handoff"}
  ApprovalTurns = 4
  ApprovalCalls = 3
  TargetCalls = 3
  OpenEffects = 1
  DeliveryBound = 3
  FlowLimit = 6
  RequiredScopes = {"s"}
  SessionTokens = {1, 2}
  TraceBound = 4
  HostedPolicies <- SomePolicies
  ParallelCalls = {"o1", "o2", "o3"}
  TickBound = 3
  ProbeBound = 2
INVARIANTS
  ReceiptMeansDrift
  BridgeIsTrue
  RecordIsTrue
  ApprovalIsGraded
  EffectsAreCounted
  RemoteReceiptsAreEarned
CHECK_DEADLOCK FALSE
