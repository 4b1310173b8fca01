----------------------------- MODULE TrialRunner -----------------------------
(* One evaluator process running trials of one scenario: TrialRunner.run and  *)
(* _run_trial (runtime/_evaluator_core.py) with the facade that adds producer *)
(* capabilities (runtime/evaluator.py) and the exact replay adapter           *)
(* (adapters/replay.py).  The adapter, the semantic judge, the wall clock and *)
(* the caller act on their own: the adapter may change the scenario object it *)
(* was handed, the caller the one it submitted, the clock may pass the        *)
(* deadline between any two steps of the runner, and an awaited call may end  *)
(* late, never, or with an exception.                                         *)
EXTENDS Naturals, Sequences, FiniteSets

CONSTANTS LiveAdapters,  \* adapter types that call a provider
          Kinds,         \* evaluator-owned evidence kinds an adapter may report
          Owns,          \* Owns[a]: the kinds adapter type a is the exact producer of
          MaxFresh,      \* bound: trials that do not replay a returned one
          MaxReplays     \* bound: replays of returned trials

ASSUME OwnsAssumption ==
  /\ "replay" \notin LiveAdapters /\ "rejected" \notin LiveAdapters
  /\ Owns \in [LiveAdapters -> SUBSET Kinds]
  /\ "semantic" \notin Kinds
ASSUME BoundsAssumption == MaxFresh \in Nat /\ MaxReplays \in Nat

VARIABLES pc,        \* where _run_trial stands
          trial,     \* the arguments of run() and the runner's configuration
          caller,    \* the scenario object in the caller's hands
          exec,      \* execution_scenario, the copy the adapter holds
          expired,   \* has the wall clock passed the deadline?
          task,      \* the awaited adapter or judge call
          evidence,  \* the evidence collected so far
          oracle,    \* the deterministic oracles' results
          verdict,   \* the verdict of the trial that is about to return
          seen,      \* history: what happened during this trial
          archive    \* the trials returned so far, in order

vars == <<pc, trial, caller, exec, expired, task, evidence, oracle, verdict, seen, archive>>

-----------------------------------------------------------------------------
(* Data                                                                       *)

Contracts == {"plain", "judged"}       \* a scenario without and with a semantic rubric
HasRubric(c) == c = "judged"

Decisions == {"PASS", "FAIL", "INCONCLUSIVE"}
Verdicts == Decisions \cup {"BLOCKED"}

NoSemantic == [decision |-> "none", bound |-> FALSE]
\* A recorded judgment; bound: its receipt verifies against this evidence and scenario.
Judgments == [decision : Decisions, bound : BOOLEAN]

\* How the observed behaviour stands towards the scenario: the evaluator's preconditions
\* do not close, a deterministic oracle fails, or all of them pass.
Merits == {"unclosed", "failing", "passing"}

AppendedErrors ==
  {"deadline", "precondition", "exception", "drift", "invalid", "authority", "closure",
   "semantic_unverified", "after_failure", "judge_missing", "candidate_missing",
   "judge_uncalibrated", "judge_exception", "judgment_invalid"}
ErrorCodes == AppendedErrors \cup {"reported"}

Evidence == [contract : Contracts, kinds : SUBSET Kinds, errors : SUBSET ErrorCodes,
             semantic : Judgments \cup {NoSemantic}, output : BOOLEAN, merit : Merits]
NoEvidence == [contract |-> "none"]

\* Evidence that holds one evaluator event and nothing of the subject.
ErrorEvidence(c, code) ==
  [contract |-> c, kinds |-> {}, errors |-> {code}, semantic |-> NoSemantic,
   output |-> FALSE, merit |-> "unclosed"]

\* _append_evaluation_error
WithError(e, code) == [e EXCEPT !.errors = @ \cup {code}]

\* has_blocking_evidence
Blocking(e) == e.errors # {}

FaultyAuthorityViolationKindsOnly(a, e) ==
  /\ a # "replay"
  /\ ~ (e.kinds \subseteq Owns[a])

\* _live_evaluator_owned_evidence_violation
AuthorityViolation(a, e) ==
  /\ a # "replay"
  /\ \/ e.semantic # NoSemantic
     \/ ~ (e.kinds \subseteq Owns[a])

\* verify_semantic_judgment: a judgment needs a rubric, a verified binding and an output.
SemanticUnverified(c, e) ==
  /\ e.semantic # NoSemantic
  /\ ~ (HasRubric(c) /\ e.semantic.bound /\ e.output)

\* _scenario_contract_drifted
Drifted == exec # trial.contract

-----------------------------------------------------------------------------
(* The awaited call                                                           *)

Failures == {"precondition", "exception", "cancelled", "nonconforming", "malformed"}

\* What a live adapter may report; a judgment it reports is one it made up.
Reports ==
  [contract : {trial.contract}, kinds : SUBSET Kinds, errors : SUBSET {"reported"},
   semantic : {NoSemantic, [decision |-> "PASS", bound |-> TRUE]},
   output : BOOLEAN, merit : Merits]

\* Evidence a caller may hand to the replay adapter without having run the trial.
Foreign ==
  [contract : Contracts, kinds : SUBSET Kinds, errors : {{}},
   semantic : Judgments \cup {NoSemantic}, output : BOOLEAN, merit : Merits]

Pending == [state |-> "pending", value |-> "none"]
NoTask == [state |-> "none", value |-> "none"]
Failed(how) == [state |-> how, value |-> "none"]
Answered(v) == [state |-> "answered", value |-> v]

Stages == {"idle", "call", "adapter", "conform", "blocking", "authority", "closure", "grade",
           "semantic", "decide", "judge_authority", "call_judge", "judge", "receipt", "return"}

AdapterTypes == LiveAdapters \cup {"replay", "rejected"}

NoTrial == [adapter |-> "none", contract |-> "none", deadline |-> FALSE, from |-> 0,
            source |-> NoEvidence]
NothingSeen == [late |-> FALSE, executed |-> "none", graded |-> "none",
                judged |-> FALSE, accepted |-> FALSE]

Init ==
  /\ pc = "idle"
  /\ trial = NoTrial
  /\ caller \in Contracts
  /\ exec = "none"
  /\ expired = FALSE
  /\ task = NoTask
  /\ evidence = NoEvidence
  /\ oracle = "none"
  /\ verdict = "none"
  /\ seen = NothingSeen
  /\ archive = << >>

-----------------------------------------------------------------------------
(* Leaving _run_trial                                                         *)

Goto(stage) == pc' = stage /\ UNCHANGED <<oracle, verdict>>

\* EvaluatedTrial(evidence=e, oracle_results=(), verdict=BLOCKED)
Block(e) ==
  /\ pc' = "return"
  /\ evidence' = e
  /\ oracle' = "none"
  /\ verdict' = "BLOCKED"
  /\ UNCHANGED seen

\* _deadline_blocked, without and with the evidence collected so far.
DeadlineBlocked == Block(ErrorEvidence(trial.contract, "deadline"))
DeadlineBlockedWith(e) == Block(WithError(e, "deadline"))

\* EvaluatedTrial(evidence=e, oracle_results=oracle_results, verdict=v)
Decided(e, v) ==
  /\ pc' = "return"
  /\ evidence' = e
  /\ verdict' = v
  /\ UNCHANGED <<oracle, seen>>

\* A stage between two deadline checks: the check, then what the stage itself decides.
Stage(stage, outcome) ==
  /\ pc = stage
  /\ IF expired THEN DeadlineBlockedWith(evidence) ELSE outcome
  /\ UNCHANGED <<trial, caller, exec, expired, task, archive>>

\* The stage raised no objection; the next one follows.
Proceed(stage) == Goto(stage) /\ UNCHANGED <<evidence, seen>>

-----------------------------------------------------------------------------
(* The caller and the clock                                                   *)

Fresh == Cardinality({i \in DOMAIN archive : archive[i].from = 0})
Replays == Len(archive) - Fresh

Submit(a, d, from, source) ==
  /\ pc = "idle"
  /\ trial' = [adapter |-> a, contract |-> caller, deadline |-> d, from |-> from,
               source |-> source]
  /\ exec' = caller
  /\ pc' = "call"
  /\ UNCHANGED <<caller, expired, task, evidence, oracle, verdict, seen, archive>>

SubmitLive ==
  /\ Fresh < MaxFresh
  /\ \E a \in LiveAdapters \cup {"rejected"}, d \in BOOLEAN : Submit(a, d, 0, NoEvidence)

\* EvidenceReplayAdapter over evidence the caller has from elsewhere.
SubmitForeign ==
  /\ Fresh < MaxFresh
  /\ \E e \in Foreign, d \in BOOLEAN : Submit("replay", d, 0, e)

\* EvidenceReplayAdapter over the evidence of a trial that returned.
SubmitReplay ==
  /\ Replays < MaxReplays
  /\ \E i \in DOMAIN archive, d \in BOOLEAN : Submit("replay", d, i, archive[i].evidence)

\* The caller changes the scenario object it still holds.
CallerEdits ==
  /\ caller' \in Contracts \ {caller}
  /\ UNCHANGED <<pc, trial, exec, expired, task, evidence, oracle, verdict, seen, archive>>

\* The stages after the last look at the clock.
Unchecked == {"decide", "return"}

\* perf_counter() - started reaches deadline_seconds.
Expire ==
  /\ pc # "idle"
  /\ trial.deadline
  /\ ~ expired
  /\ expired' = TRUE
  /\ seen' = [seen EXCEPT !.late = pc \notin Unchecked]
  /\ UNCHANGED <<pc, trial, caller, exec, task, evidence, oracle, verdict, archive>>

-----------------------------------------------------------------------------
(* The adapter and the judge                                                  *)

AdapterPending == pc = "adapter" /\ task.state = "pending"
JudgePending == pc = "judge" /\ task.state = "pending"

TaskEnds(t) ==
  /\ task' = t
  /\ UNCHANGED <<pc, trial, caller, exec, expired, evidence, oracle, verdict, seen, archive>>

AdapterAnswers ==
  /\ AdapterPending
  /\ trial.adapter \in LiveAdapters
  /\ \E r \in Reports : TaskEnds(Answered(r))

AdapterFails ==
  /\ AdapterPending
  /\ trial.adapter \in LiveAdapters
  /\ \E how \in Failures : TaskEnds(Failed(how))

\* _RejectedMetricProvenanceAdapter.execute
RejectedAdapterFails ==
  /\ AdapterPending
  /\ trial.adapter = "rejected"
  /\ TaskEnds(Failed("precondition"))

\* EvidenceReplayAdapter.execute compares the contract it is handed with the recorded one.
ReplayAnswers ==
  /\ AdapterPending
  /\ trial.adapter = "replay"
  /\ TaskEnds(IF exec = trial.source.contract THEN Answered(trial.source)
                                               ELSE Failed("precondition"))

\* A live adapter changes the scenario it was handed, while it is called or afterwards.
AdapterMutates ==
  /\ pc \notin {"idle", "call"}
  /\ trial.adapter \in LiveAdapters
  /\ exec' \in Contracts \ {exec}
  /\ UNCHANGED <<pc, trial, caller, expired, task, evidence, oracle, verdict, seen, archive>>

JudgeAnswers ==
  /\ JudgePending
  /\ \E d \in Decisions : TaskEnds(Answered(d))

JudgeFails ==
  /\ JudgePending
  /\ \E how \in {"exception", "cancelled", "malformed"} : TaskEnds(Failed(how))

-----------------------------------------------------------------------------
(* _run_trial: the adapter call and what it returned                          *)

Call ==
  /\ pc = "call"
  /\ \/ expired /\ DeadlineBlocked /\ UNCHANGED task
     \/ ~ expired /\ Proceed("adapter") /\ task' = Pending
  /\ UNCHANGED <<trial, caller, exec, expired, archive>>

\* asyncio.wait timed out: the task is cancelled and its result will be discarded.
AdapterTimesOut ==
  /\ AdapterPending
  /\ expired
  /\ DeadlineBlocked
  /\ task' = NoTask
  /\ UNCHANGED <<trial, caller, exec, expired, archive>>

\* The run is abandoned: asyncio.CancelledError passes every except clause.
Abandon ==
  /\ pc' = "idle"
  /\ trial' = NoTrial
  /\ exec' = "none"
  /\ expired' = FALSE
  /\ task' = NoTask
  /\ evidence' = NoEvidence
  /\ oracle' = "none"
  /\ verdict' = "none"
  /\ seen' = NothingSeen
  /\ UNCHANGED <<caller, archive>>

\* The awaited call ended in a cancellation of its own.
Escape ==
  /\ pc \in {"adapter", "judge"}
  /\ task.state = "cancelled"
  /\ Abandon

\* The caller cancels the task that runs the trial while it awaits the adapter or the judge.
CallerCancels ==
  /\ AdapterPending \/ JudgePending
  /\ Abandon

\* Go on with the result; history: the contract found in the adapter's hands.
Accept ==
  /\ Goto("conform")
  /\ seen' = [seen EXCEPT !.executed = exec]
  /\ UNCHANGED evidence

\* The call ended by itself: the deadline, then the contract, then the exception if any.
AdapterReturns ==
  /\ pc = "adapter"
  /\ task.state \in {"answered"} \cup (Failures \ {"cancelled"})
  /\ IF expired THEN DeadlineBlocked
     ELSE IF Drifted THEN Block(ErrorEvidence(trial.contract, "drift"))
     ELSE IF task.state \in {"precondition", "exception"}
          THEN Block(ErrorEvidence(trial.contract, task.state))
          ELSE Accept
  /\ UNCHANGED <<trial, caller, exec, expired, task, archive>>

\* validate_adapter_result and _to_evidence; only the second looks at the clock.
Conform ==
  /\ pc = "conform"
  /\ \/ task.state = "nonconforming" /\ Block(ErrorEvidence(trial.contract, "invalid"))
     \/ /\ task.state = "malformed"
        /\ IF expired THEN DeadlineBlocked
                      ELSE Block(ErrorEvidence(trial.contract, "invalid"))
     \/ /\ task.state = "answered"
        /\ IF expired THEN DeadlineBlockedWith(task.value)
                      ELSE Goto("blocking") /\ evidence' = task.value /\ UNCHANGED seen
  /\ task' = NoTask
  /\ UNCHANGED <<trial, caller, exec, expired, archive>>

-----------------------------------------------------------------------------
(* _run_trial: from evidence to a verdict                                     *)

CheckBlocking ==
  Stage("blocking", IF Blocking(evidence) THEN Block(evidence) ELSE Proceed("authority"))

CheckAuthority ==
  Stage("authority",
        IF AuthorityViolation(trial.adapter, evidence)
        THEN Block(WithError(evidence, "authority"))
        ELSE /\ Goto("closure")
             /\ seen' = [seen EXCEPT !.accepted = TRUE]
             /\ UNCHANGED evidence)

\* verify_pregrading_closure
VerifyClosure ==
  Stage("closure",
        IF evidence.merit = "unclosed" THEN Block(WithError(evidence, "closure"))
                                       ELSE Proceed("grade"))

FaultyGradeAdapterCopy ==
  Stage("grade",
        /\ pc' = "semantic"
        /\ oracle' = evidence.merit
        /\ seen' = [seen EXCEPT !.graded = exec]
        /\ UNCHANGED <<evidence, verdict>>)

\* grade_deterministic_evidence, under the contract pinned at the start
Grade ==
  Stage("grade",
        /\ pc' = "semantic"
        /\ oracle' = evidence.merit
        /\ seen' = [seen EXCEPT !.graded = trial.contract]
        /\ UNCHANGED <<evidence, verdict>>)

VerifySemantic ==
  Stage("semantic",
        IF SemanticUnverified(trial.contract, evidence)
        THEN Block(WithError(evidence, "semantic_unverified"))
        ELSE Proceed("decide"))

FaultyDecideFailedUnmarked ==
  /\ oracle = "failing"
  /\ IF evidence.semantic # NoSemantic THEN Block(evidence) ELSE Decided(evidence, "FAIL")

\* A deterministic failure: a judgment recorded after it cannot be genuine.
DecideFailed ==
  /\ oracle = "failing"
  /\ IF evidence.semantic # NoSemantic THEN Block(WithError(evidence, "after_failure"))
                                       ELSE Decided(evidence, "FAIL")

DecidePlain ==
  /\ oracle = "passing" /\ ~ HasRubric(trial.contract)
  /\ Decided(evidence, "PASS")

DecideRecorded ==
  /\ oracle = "passing" /\ HasRubric(trial.contract) /\ evidence.semantic # NoSemantic
  /\ Decided(evidence, evidence.semantic.decision)

FaultyDecideUnjudgedAgain ==
  /\ oracle = "passing" /\ HasRubric(trial.contract)
  /\ \/ Block(WithError(evidence, "judge_missing"))
     \/ Proceed("judge_authority")

\* No judge is configured, or no output exists to be judged, or the judge is next.
DecideUnjudged ==
  /\ oracle = "passing" /\ HasRubric(trial.contract) /\ evidence.semantic = NoSemantic
  /\ \/ Block(WithError(evidence, "judge_missing"))
     \/ IF evidence.output THEN Proceed("judge_authority")
                           ELSE Block(WithError(evidence, "candidate_missing"))

\* From here to the judge no clock is read.
Decide ==
  /\ pc = "decide"
  /\ DecideFailed \/ DecidePlain \/ DecideRecorded \/ DecideUnjudged
  /\ UNCHANGED <<trial, caller, exec, expired, task, archive>>

\* validate_semantic_judge_authority of the configured judge
CheckJudge ==
  Stage("judge_authority",
        \/ Proceed("call_judge")
        \/ Block(WithError(evidence, "judge_uncalibrated")))

CallJudge ==
  /\ pc = "call_judge"
  /\ \/ expired /\ DeadlineBlockedWith(evidence) /\ UNCHANGED task
     \/ /\ ~ expired
        /\ task' = Pending
        /\ Goto("judge")
        /\ seen' = [seen EXCEPT !.judged = TRUE]
        /\ UNCHANGED evidence
  /\ UNCHANGED <<trial, caller, exec, expired, archive>>

FaultyJudgeTimesOutNever == FALSE

\* asyncio.wait timed out on the judge.
JudgeTimesOut ==
  /\ JudgePending
  /\ expired
  /\ DeadlineBlockedWith(evidence)
  /\ task' = NoTask
  /\ UNCHANGED <<trial, caller, exec, expired, archive>>

JudgeReturns ==
  /\ task.state \in {"answered", "exception", "malformed"}
  /\ Stage("judge",
           IF task.state = "exception" THEN Block(WithError(evidence, "judge_exception"))
                                       ELSE Proceed("receipt"))

FaultyReceiptUnchecked ==
  LET judgment == [decision |-> task.value, bound |-> TRUE]
      judged == [evidence EXCEPT !.semantic = judgment]
  IN /\ pc = "receipt"
     /\ Decided(judged, task.value)
     /\ task' = NoTask
     /\ UNCHANGED <<trial, caller, exec, expired, archive>>

\* The receipt is appended before the clock is read for the last time.
Receipt ==
  LET judgment == [decision |-> task.value, bound |-> TRUE]
      judged == [evidence EXCEPT !.semantic = judgment]
  IN /\ pc = "receipt"
     /\ \/ /\ task.state = "malformed"
           /\ IF expired THEN DeadlineBlockedWith(evidence)
                         ELSE Block(WithError(evidence, "judgment_invalid"))
        \/ /\ task.state = "answered"
           /\ IF expired THEN DeadlineBlockedWith(judged) ELSE Decided(judged, task.value)
     /\ task' = NoTask
     /\ UNCHANGED <<trial, caller, exec, expired, archive>>

-----------------------------------------------------------------------------
(* The facade: TrialRunner.run in runtime/evaluator.py                        *)

\* _issue_verified_producer_capabilities
Capabilities(a, e) ==
  IF a = "replay" \/ "authority" \in e.errors THEN {}
  ELSE e.kinds \cup (IF e.semantic = NoSemantic THEN {} ELSE {"semantic"})

Return ==
  /\ pc = "return"
  /\ archive' = Append(archive,
       [adapter |-> trial.adapter, from |-> trial.from, contract |-> trial.contract,
        evidence |-> evidence, oracle |-> oracle, verdict |-> verdict,
        capabilities |-> Capabilities(trial.adapter, evidence), seen |-> seen])
  /\ pc' = "idle"
  /\ trial' = NoTrial
  /\ exec' = "none"
  /\ expired' = FALSE
  /\ task' = NoTask
  /\ evidence' = NoEvidence
  /\ oracle' = "none"
  /\ verdict' = "none"
  /\ seen' = NothingSeen
  /\ UNCHANGED caller

Runner ==
  \/ Call \/ Escape \/ AdapterReturns \/ AdapterTimesOut \/ Conform
  \/ CheckBlocking \/ CheckAuthority \/ VerifyClosure \/ Grade \/ VerifySemantic \/ Decide
  \/ CheckJudge \/ CallJudge \/ JudgeReturns \/ JudgeTimesOut \/ Receipt \/ Return

Adapter ==
  \/ AdapterAnswers \/ AdapterFails \/ RejectedAdapterFails \/ ReplayAnswers \/ AdapterMutates

Judge == JudgeAnswers \/ JudgeFails

Caller == SubmitLive \/ SubmitForeign \/ SubmitReplay \/ CallerEdits \/ CallerCancels

Next == Runner \/ Adapter \/ Judge \/ Caller \/ Expire

Spec == Init /\ [][Next]_vars

\* The runner keeps stepping and time passes; nothing is assumed of adapter and judge.
FairSpec == Spec /\ WF_vars(Runner) /\ WF_vars(Expire)

-----------------------------------------------------------------------------
(* Properties                                                                 *)

Graded(t) == t.verdict # "BLOCKED"
ArchivedTrials == {archive[i] : i \in DOMAIN archive}

\* The variables keep their types at every stage of the runner.
TypeOK ==
  /\ pc \in Stages
  /\ trial \in [adapter : AdapterTypes, contract : Contracts, deadline : BOOLEAN,
                from : Nat, source : Evidence \cup {NoEvidence}]
               \cup {NoTrial}
  /\ caller \in Contracts
  /\ exec \in Contracts \cup {"none"}
  /\ expired \in BOOLEAN
  /\ task.state \in {"none", "pending", "answered"} \cup Failures
  /\ evidence \in Evidence \cup {NoEvidence}
  /\ oracle \in Merits \cup {"none"}
  /\ verdict \in Verdicts \cup {"none"}
  /\ \A t \in ArchivedTrials : t.evidence \in Evidence /\ t.verdict \in Verdicts

\* A deadline covers the adapter, the evaluator's own work and the judge: a verdict other
\* than BLOCKED is returned only if the clock passed the deadline after the last check,
\* that is in the straight-line code of Decide or once the verdict is made.
TimelyVerdict ==
  \A t \in ArchivedTrials : Graded(t) => ~ t.seen.late

\* A graded trial was executed, observed and graded under one contract, the one the caller
\* held when it submitted, whatever caller and adapter do to their copies meanwhile.
OneContract ==
  \A t \in ArchivedTrials : Graded(t) =>
    /\ t.seen.executed = t.contract
    /\ t.seen.graded = t.contract
    /\ t.evidence.contract = t.contract

\* Deterministic failures dominate: the judge is never asked about a trial the oracles
\* failed or could not grade, and no judgment makes such a trial pass.
JudgeSubordinate ==
  \A t \in ArchivedTrials :
    /\ t.seen.judged => t.evidence.merit = "passing"
    /\ t.verdict \in {"PASS", "INCONCLUSIVE"} => t.evidence.merit = "passing"

\* The verdict an auditor derives from a sealed trial alone.
Audited(c, e) ==
  IF e.errors # {} \/ e.merit = "unclosed" \/ SemanticUnverified(c, e) THEN "BLOCKED"
  ELSE IF e.merit = "failing" THEN IF e.semantic = NoSemantic THEN "FAIL" ELSE "BLOCKED"
  ELSE IF HasRubric(c) THEN IF e.semantic = NoSemantic THEN "BLOCKED" ELSE e.semantic.decision
  ELSE "PASS"

\* The sealed evidence explains the verdict: it alone determines it, and a BLOCKED trial
\* carries the error that blocked it and no oracle results.
EvidenceExplainsVerdict ==
  \A t \in ArchivedTrials :
    /\ t.verdict = Audited(t.contract, t.evidence)
    /\ t.verdict = "BLOCKED" => t.evidence.errors # {} /\ t.oracle = "none"

\* A live trial is graded only on evaluator-owned evidence its exact adapter type produces,
\* and on a judgment only if the judge was called in that very trial.
LiveAuthority ==
  \A t \in ArchivedTrials : Graded(t) /\ t.adapter # "replay" =>
    /\ t.evidence.kinds \subseteq Owns[t.adapter]
    /\ t.evidence.semantic # NoSemantic => t.seen.judged

\* Replaying a returned trial in time under the same contract gives the same verdict on the
\* same evidence, with whatever judge; under any other circumstances it gives BLOCKED.
ReplayStable ==
  \A t \in ArchivedTrials : t.from # 0 =>
    LET original == archive[t.from] IN
    IF t.contract = original.evidence.contract /\ ~ t.seen.late
    THEN t.verdict = original.verdict /\ t.evidence = original.evidence
    ELSE t.verdict = "BLOCKED"

\* A trial with a deadline leaves the runner even if adapter and judge never answer.
DeadlineReturns == (pc # "idle" /\ trial.deadline) ~> (pc = "idle")

=============================================================================
