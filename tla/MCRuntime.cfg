\* One fresh trial and a replay of its evidence, with every interleaving of the runner with
\* adapter, judge, caller and clock; or one session object used twice.  The session comes to rest.
SPECIFICATION RuntimeSpec
CONSTANTS
  LiveAdapters = {"custom", "openai", "hitl"}
  Kinds = {"attack_delivery", "approval_decision"}
  Owns <- MCOwns
  MaxFresh = 1
  MaxReplays = 1
  Seeds = {1, 2}
  MaxTrials = 2
  MaxRuns = 2
INVARIANTS
  TimelyVerdict
  OneContract
  EvidenceExplainsVerdict
  LiveAuthority
  ReplayStable
  EveryAttemptCounts
  AttemptsArePrepared
  OverlapIsVisible
  OnlyWholeSamplesValidate
PROPERTIES
  DeadlineReturns
  MetricsOfFinalEvidence
  SessionEnds
CHECK_DEADLOCK FALSE
