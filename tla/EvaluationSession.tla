-------------------------- MODULE EvaluationSession --------------------------
(* EvaluationSession.run and what its caller does with the result             *)
(* (runtime/session.py), with the reset control (runtime/reset_isolation.py)  *)
(* and the randomness control (runtime/sampling.py) it awaits between         *)
(* attempts.  An attempt is one TrialRunner.run: it returns a verdict, and if *)
(* the evaluator's deadline ended it, BLOCKED while the adapter's task may go *)
(* on.  Whoever holds the evidence of a finished trial may change it.         *)
EXTENDS Naturals, Sequences, FiniteSets, SequencesExt

CONSTANTS Seeds,      \* seed identities the randomness control may return
          MaxTrials,  \* bound: attempts a caller asks for
          MaxRuns     \* bound: runs of the session object, one after the other

ASSUME SessionBounds == MaxTrials \in Nat /\ MaxRuns \in Nat

VARIABLES stage,     \* where run() stands
          run,       \* runs so far; also the campaign identity of the current one
          request,   \* the arguments of run()
          sample,    \* evaluated: the trials of this run that returned
          resets,    \* reset_receipts
          prepared,  \* randomness_receipts
          running,   \* adapter calls, of any run, that have not ended
          altered,   \* trials of this run whose evidence changed after finalization
          result,    \* what run() returned
          issued,    \* the qualified metrics the caller was last given
          begun      \* history: the attempts of this run, with the state each began in

sessionVars ==
  <<stage, run, request, sample, resets, prepared, running, altered, result, issued, begun>>

-----------------------------------------------------------------------------
(* Data                                                                       *)

TrialVerdicts == {"PASS", "FAIL", "BLOCKED", "INCONCLUSIVE"}
Statuses == {"unverified", "operator_asserted", "verified"}
\* "asserted": externally controlled or unavailable, which need a basis.
Randomness == {"evaluator_controlled", "asserted", "unknown"}

\* A control argument: none, the subject adapter itself, or an object of its own.
Controls == {"none", "adapter", "control"}

Campaigns == 1 .. MaxRuns + 1   \* the last one stands for a session elsewhere
Attempts == Campaigns \X (1 .. MaxTrials)

\* named: adapter, campaign, controls and population are described by well-formed values;
\* within: trials and k are within the ceilings of statistics/limits.py.
Requests ==
  [trials : 0 .. MaxTrials, within : BOOLEAN, deadline : BOOLEAN, named : BOOLEAN,
   status : Statuses, basis : BOOLEAN, reset : Controls,
   randomness : Randomness, randomness_basis : BOOLEAN, control : Controls]

\* What decides the rest of the run.
Plan(r) == [trials |-> r.trials, within |-> r.within, deadline |-> r.deadline,
            status |-> r.status, randomness |-> r.randomness]
Plans == [trials : 1 .. MaxTrials, within : BOOLEAN, deadline : BOOLEAN, status : Statuses,
          randomness : Randomness]
NoPlan == [trials |-> 0, status |-> "none", randomness |-> "none"]

\* trial_id and evidence_root are those of the attempt; the campaign is the trial ID's.
Trial(a, v) == [attempt |-> a, verdict |-> v]
Trials == [attempt : Attempts, verdict : TrialVerdicts]

\* A ResetIsolationReceipt binds a transition and the predecessor's finalized evidence.
ResetReceipts == [next : Attempts, predecessor : Attempts]
ResetReceipt(c, i, previous) == [next |-> <<c, i>>, predecessor |-> previous]

SeedReceipts == [attempt : Attempts, seed : Seeds]

NoResult == [campaign |-> 0]
NoMetrics == [status |-> "none"]

\* ReliabilityReport.from_verdicts: everything else in it is derived from the counts.
FromVerdicts(trials) ==
  [v \in TrialVerdicts |-> Cardinality({i \in DOMAIN trials : trials[i].verdict = v})]

-----------------------------------------------------------------------------
(* What run() refuses before any attempt                                      *)

\* _validate_independence_metadata
IndependenceStated(r) == r.basis <=> r.status = "operator_asserted"

\* _validate_reset_control_request
ResetRequested(r) ==
  IF r.status = "verified" THEN r.trials >= 2 /\ r.reset = "control" ELSE r.reset = "none"

\* validate_randomness_request, and the control must not be the adapter.
RandomnessRequested(r) ==
  /\ r.randomness_basis <=> r.randomness = "asserted"
  /\ r.control = IF r.randomness = "evaluator_controlled" THEN "control" ELSE "none"

Accepted(r) ==
  /\ r.trials >= 1
  /\ r.named
  /\ IndependenceStated(r)
  /\ ResetRequested(r)
  /\ RandomnessRequested(r)

-----------------------------------------------------------------------------
(* EvaluationSessionResult.validate                                           *)

\* Trial IDs match campaign and index, and no evidence root changed.
TrialsBound(r, changed) ==
  \A i \in DOMAIN r.trials :
    /\ r.trials[i].attempt = <<r.campaign, i>>
    /\ r.trials[i].attempt \notin changed

\* verify_randomness_control_sequence
SeedsBound(r) ==
  /\ Len(r.prepared) = Len(r.trials)
  /\ \A i, j \in DOMAIN r.prepared : r.prepared[i].seed = r.prepared[j].seed => i = j
  /\ \A i \in DOMAIN r.prepared : r.prepared[i].attempt = r.trials[i].attempt

FaultySamplingBoundAnyLength(r) ==
  /\ r.trials # << >>
  /\ IF r.plan.randomness = "evaluator_controlled" THEN SeedsBound(r) ELSE r.prepared = << >>

\* verify_session_sampling_metadata
SamplingBound(r) ==
  /\ r.trials # << >>
  /\ r.plan.trials = Len(r.trials)
  /\ IF r.plan.randomness = "evaluator_controlled" THEN SeedsBound(r) ELSE r.prepared = << >>

\* verify_reset_isolation_sequence
ResetsBound(r) ==
  /\ Len(r.trials) >= 2
  /\ Len(r.resets) = Len(r.trials) - 1
  /\ \A i \in DOMAIN r.resets :
       r.resets[i] = ResetReceipt(r.campaign, i + 1, r.trials[i].attempt)

Valid(r, changed) ==
  /\ TrialsBound(r, changed)
  /\ r.reliability = FromVerdicts(r.trials)
  /\ SamplingBound(r)
  /\ IF r.plan.status = "verified" THEN ResetsBound(r) ELSE r.resets = << >>

-----------------------------------------------------------------------------
SessionInit ==
  /\ stage = "idle"
  /\ run = 0
  /\ request = NoPlan
  /\ sample = << >>
  /\ resets = << >>
  /\ prepared = << >>
  /\ running = {}
  /\ altered = {}
  /\ result = NoResult
  /\ issued = NoMetrics
  /\ begun = << >>

Ended == {"idle", "returned", "raised"}

\* The loop's index, from 1, and the attempt it is about.
Index == Len(sample) + 1
Current == <<run, Index>>

MoveTo(place) == stage' = place /\ UNCHANGED <<run, request>>

\* run() raises: nobody sees what it has collected.
Raise == MoveTo("raised") /\ UNCHANGED <<sample, resets, prepared, result, begun>>

-----------------------------------------------------------------------------
(* Submission                                                                 *)

\* Plans of the requests run() goes along with.
AcceptedPlans == {Plan(r) : r \in {q \in Requests : Accepted(q)}}
RefusedRequests == {r \in Requests : ~ Accepted(r)}

\* run() is called; what an earlier run returned is forgotten here.
Called ==
  /\ stage \in Ended
  /\ run < MaxRuns
  /\ run' = run + 1
  /\ sample' = << >>
  /\ resets' = << >>
  /\ prepared' = << >>
  /\ altered' = {}
  /\ result' = NoResult
  /\ issued' = NoMetrics
  /\ begun' = << >>
  /\ UNCHANGED running

Run ==
  /\ Called
  /\ request' \in AcceptedPlans
  /\ stage' = "next"

RefuseRun ==
  /\ Called
  /\ RefusedRequests # {}
  /\ request' = NoPlan
  /\ stage' = "raised"

-----------------------------------------------------------------------------
(* One pass of the loop                                                       *)

NeedsReset == Index > 1 /\ request.status = "verified"
NeedsSeed == request.randomness = "evaluator_controlled"

\* The next await: the reset control, the randomness control or the attempt.
Advance ==
  /\ stage = "next"
  /\ Index <= request.trials
  /\ MoveTo(IF NeedsReset THEN "reset" ELSE IF NeedsSeed THEN "prepare" ELSE "begin")
  /\ UNCHANGED <<sample, resets, prepared, running, altered, result, issued, begun>>

ResetAnswers ==
  /\ stage = "reset"
  /\ resets' = Append(resets, ResetReceipt(run, Index, sample[Len(sample)].attempt))
  /\ MoveTo(IF NeedsSeed THEN "prepare" ELSE "begin")
  /\ UNCHANGED <<sample, prepared, running, altered, result, issued, begun>>

FaultySeedAnswersUnchecked ==
  /\ stage = "prepare"
  /\ \E seed \in Seeds : prepared' = Append(prepared, [attempt |-> Current, seed |-> seed])
  /\ MoveTo("begin")
  /\ UNCHANGED <<sample, resets, running, altered, result, issued, begun>>

SeedAnswers ==
  /\ stage = "prepare"
  /\ \E seed \in Seeds :
       /\ \A i \in DOMAIN prepared : prepared[i].seed # seed
       /\ prepared' = Append(prepared, [attempt |-> Current, seed |-> seed])
  /\ MoveTo("begin")
  /\ UNCHANGED <<sample, resets, running, altered, result, issued, begun>>

\* A seed identity of an earlier attempt of this run.
SeedRepeats ==
  /\ stage = "prepare"
  /\ prepared # << >>
  /\ Raise
  /\ UNCHANGED <<running, altered, issued>>

\* A control raised, or returned something that is not an observation.
ControlFails ==
  /\ stage \in {"reset", "prepare"}
  /\ Raise
  /\ UNCHANGED <<running, altered, issued>>

\* TrialRunner.run calls the adapter.
Begin ==
  /\ stage = "begin"
  /\ MoveTo("attempt")
  /\ begun' = Append(begun, [resets |-> resets, prepared |-> prepared, running |-> running])
  /\ running' = running \cup {Current}
  /\ UNCHANGED <<sample, resets, prepared, altered, result, issued>>

Settle(v) ==
  /\ MoveTo("next")
  /\ sample' = Append(sample, Trial(Current, v))
  /\ UNCHANGED <<resets, prepared, altered, result, issued, begun>>

FaultyAttemptReturnsResolved ==
  /\ stage = "attempt"
  /\ \E v \in TrialVerdicts :
       /\ sample' = IF v = "BLOCKED" THEN sample ELSE Append(sample, Trial(Current, v))
       /\ MoveTo("next")
       /\ UNCHANGED <<resets, prepared, altered, result, issued, begun>>
  /\ running' = running \ {Current}

\* The adapter's call ended and the runner gave its verdict.
AttemptReturns ==
  /\ stage = "attempt"
  /\ \E v \in TrialVerdicts : Settle(v)
  /\ running' = running \ {Current}

FaultyAttemptTimesOutFails ==
  /\ stage = "attempt"
  /\ request.deadline
  /\ Settle("FAIL")
  /\ UNCHANGED running

FaultyAttemptTimesOutAwaited ==
  /\ stage = "attempt"
  /\ request.deadline
  /\ Current \notin running
  /\ Settle("BLOCKED")
  /\ UNCHANGED running

\* The deadline ended the wait: the task is told to stop and may not.
AttemptTimesOut ==
  /\ stage = "attempt"
  /\ request.deadline
  /\ Settle("BLOCKED")
  /\ UNCHANGED running

\* An adapter call nobody awaits any longer ends.
LateTaskEnds ==
  /\ \E a \in running : (stage = "attempt" => a # Current) /\ running' = running \ {a}
  /\ UNCHANGED <<stage, run, request, sample, resets, prepared, altered, result, issued, begun>>

\* The task that runs the session is cancelled.  With a deadline the runner awaits
\* asyncio.wait, which leaves the adapter's task alone; without one the adapter itself.
SessionCancelled ==
  /\ stage \in {"reset", "prepare", "attempt"}
  /\ Raise
  /\ running' = IF stage = "attempt" /\ ~ request.deadline THEN running \ {Current} ELSE running
  /\ UNCHANGED <<altered, issued>>

-----------------------------------------------------------------------------
(* The result                                                                 *)

Collected ==
  [campaign |-> run, plan |-> request, trials |-> sample, resets |-> resets,
   prepared |-> prepared, reliability |-> FromVerdicts(sample)]

\* The horizon is reached: reliability (which looks at its ceilings only now), validate().
Finish ==
  /\ stage = "next"
  /\ Index > request.trials
  /\ \/ /\ request.within /\ Valid(Collected, altered)
        /\ MoveTo("returned")
        /\ result' = Collected
        /\ UNCHANGED <<sample, resets, prepared, begun>>
     \/ /\ ~ (request.within /\ Valid(Collected, altered))
        /\ Raise
  /\ UNCHANGED <<running, altered, issued>>

\* Somebody changes the evidence of a trial that is already finalized.
Alter ==
  /\ \E i \in DOMAIN sample :
       /\ sample[i].attempt \notin altered
       /\ altered' = altered \cup {sample[i].attempt}
  /\ UNCHANGED <<stage, run, request, sample, resets, prepared, running, result, issued, begun>>

Metrics(r) == [status |-> r.plan.status, randomness |-> r.plan.randomness,
               planned |-> r.plan.trials, reliability |-> r.reliability]

FaultyIssueMetricsUnchecked ==
  /\ stage = "returned"
  /\ result.plan.status # "unverified"
  /\ issued' = Metrics(result)
  /\ UNCHANGED <<stage, run, request, sample, resets, prepared, running, altered, result, begun>>

\* independence_qualified_metrics; it raises, and changes nothing, in every other case.
IssueMetrics ==
  /\ stage = "returned"
  /\ Valid(result, altered)
  /\ result.plan.status # "unverified"
  /\ issued' = Metrics(result)
  /\ UNCHANGED <<stage, run, request, sample, resets, prepared, running, altered, result, begun>>

-----------------------------------------------------------------------------
Evaluator == Advance \/ Begin \/ Finish

SessionNext ==
  \/ Run \/ RefuseRun
  \/ Advance \/ ResetAnswers \/ SeedAnswers \/ SeedRepeats \/ ControlFails
  \/ Begin \/ AttemptReturns \/ AttemptTimesOut \/ LateTaskEnds \/ SessionCancelled
  \/ Finish \/ Alter \/ IssueMetrics

SessionSpec == SessionInit /\ [][SessionNext]_sessionVars

\* The event loop runs the evaluator's own steps and its timer.  Controls are awaited
\* without a deadline: that they answer in the end is assumed of them.  Of the adapter
\* nothing is assumed.
Fairness ==
  /\ WF_sessionVars(Evaluator)
  /\ WF_sessionVars(AttemptTimesOut)
  /\ WF_sessionVars(ResetAnswers \/ ControlFails)
  /\ WF_sessionVars(SeedAnswers \/ SeedRepeats \/ ControlFails)

-----------------------------------------------------------------------------
(* Properties                                                                 *)

\* No attempt is left out, retried or picked: what run() returns has one trial for every
\* attempt the adapter was ever called for in the campaign, and as many as were planned
\* before the first.
EveryAttemptCounts ==
  /\ Len(begun) = Len(sample) + (IF stage = "attempt" THEN 1 ELSE 0) \/ stage = "raised"
  /\ result # NoResult =>
       /\ Len(begun) = Len(result.trials)
       /\ Len(begun) = result.plan.trials

\* Every attempt that was begun, also in a run that came to nothing, had been prepared as
\* the status claims: after its own reset, bound to the predecessor as finalized, and with
\* a seed no earlier attempt of the run had.
AttemptsArePrepared ==
  \A i \in DOMAIN begun :
    /\ request.status = "verified" =>
         begun[i].resets = [j \in 1 .. i - 1 |-> ResetReceipt(run, j + 1, <<run, j>>)]
    /\ request.randomness = "evaluator_controlled" =>
         /\ Len(begun[i].prepared) = i
         /\ \A j \in 1 .. i : begun[i].prepared[j].attempt = <<run, j>>
         /\ \A j \in 1 .. i - 1 : begun[i].prepared[j].seed # begun[i].prepared[i].seed

\* If an attempt was begun while an earlier one of the campaign was still at work on the
\* target, the earlier one is in the sample, as BLOCKED: a sample without BLOCKED trials
\* comes from attempts that did not overlap.
OverlapIsVisible ==
  \A i \in DOMAIN begun : \A j \in 1 .. MaxTrials :
    <<run, j>> \in begun[i].running => j < i /\ sample[j].verdict = "BLOCKED"

\* What a caller may make of a result: other trials, of this campaign or another, in any
\* order, with receipts of this campaign or another, and the reliability of its choice.
Elsewhere == MaxRuns + 1
Pieces(own, other) == ToSet(own) \cup other
ForeignTrials == [attempt : {Elsewhere} \X (1 .. MaxTrials), verdict : {"PASS"}]
ForeignResets ==
  {ResetReceipt(Elsewhere, i + 1, <<Elsewhere, i>>) : i \in 1 .. MaxTrials - 1}
ForeignSeeds == [attempt : {<<Elsewhere, 1>>}, seed : Seeds]
Remade(r, t, x, s) ==
  [r EXCEPT !.trials = t, !.reliability = FromVerdicts(t), !.resets = x, !.prepared = s]
Derived(r) ==
  {Remade(r, t, x, s) :
     t \in BoundedSeq(Pieces(r.trials, ForeignTrials), MaxTrials),
     x \in BoundedSeq(Pieces(r.resets, ForeignResets), MaxTrials - 1),
     s \in BoundedSeq(Pieces(r.prepared, ForeignSeeds), Len(r.prepared))}

\* tests/unit/test_session_sampling_provenance.py, test_session_verified_reset.py: what
\* validate() accepts under the plan of a campaign is the campaign's own sample, whole and
\* in order, with its own receipts.
OnlyWholeSamplesValidate ==
  result # NoResult =>
    \A r \in Derived(result) : Valid(r, {}) => r = result

\* Qualified metrics are never given for an unverified session, nor once the evidence of a
\* counted trial has changed, and they count every attempt of the campaign.
MetricsOfFinalEvidence ==
  [][issued' # issued /\ issued' # NoMetrics =>
       /\ altered = {}
       /\ request.status # "unverified"
       /\ issued'.reliability = FromVerdicts(sample)
       /\ Len(begun) = issued'.planned]_sessionVars

\* A run whose runner has a deadline ends, with a result or an exception, even if the
\* adapter never answers.
SessionEnds ==
  (stage \notin Ended /\ request.deadline) ~> (stage \in Ended)

=============================================================================
