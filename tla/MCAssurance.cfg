\* One component in each behaviour.  Most of them come to rest.
SPECIFICATION AssuranceSpec
CONSTANTS
  Workflows = {"ci", "security"}
  MaxHeads = 3
  MaxTurns = 2
  Pulls = {"a"}
  HeadBound = 2
  RunBound = 2
  Rooms <- SomeRooms
  ReleasePolicies <- SomePolicies
  RiskFamilies = {"harm", "tools"}
  RequiredFamilies = {"harm"}
  TrialBound = 3
  SliceBound = 2
  CanaryLimits <- SomeLimits
  Durations = {0, 3}
  RetryAfters = {0, 1, 3}
  Oversleeps = {0, 1}
  Inputs <- SomeInputs
  Budgets = {1, 5, 40}
  People = {"requester", "alice", "bob"}
  Requester = "requester"
  Delegators = {"alice"}
  Quorums <- SomeQuorums
  ClockBound = 2
  EvidenceBound = 2
  WorkerBound = 2
  StoreFaults = {"forgets", "leaks", "keeps deleted", "keeps expired", "takes poison"}
  ReadsEach = 2
INVARIANTS
  GateIsSound
  CanaryIsBounded
  MinimizationIsSound
  
  AcceptedMemoryHolds
  ScansAreEarned
  
  AutomationIsBounded
CHECK_DEADLOCK FALSE
