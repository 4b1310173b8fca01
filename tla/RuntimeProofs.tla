---------------------------- MODULE RuntimeProofs ----------------------------
(* What the runner of a trial and the session of several of them promise, each  *)
(* on its own.  The runner: for any live adapter types, evaluator-owned         *)
(* evidence kinds, ownership table, and number of trials and replays.  The      *)
(* session: for any seed identities, any number of attempts and of runs of one  *)
(* session object, and any interleaving of run() with adapter tasks nobody      *)
(* awaits, with its caller's cancellation and with whoever holds finished       *)
(* evidence.                                                                    *)
EXTENDS TrialRunner, EvaluationSession, SequenceTheorems, FiniteSetTheorems, TLAPS

-----------------------------------------------------------------------------
(* The runner.  Its inductive invariant follows it: each stage adds what it *)
(* established, and every later stage may rely on it.                      *)

Judging == {"judge_authority", "call_judge", "judge", "receipt"}
SemanticVerified == {"decide"} \cup Judging
OraclesRun == {"semantic"} \cup SemanticVerified
ClosureVerified == {"grade"} \cup OraclesRun
AuthorityAccepted == {"closure"} \cup ClosureVerified
Unblocked == {"authority"} \cup AuthorityAccepted
Gathered == {"blocking"} \cup Unblocked
Executed == {"conform"} \cup Gathered

TrialArguments == [adapter : AdapterTypes, contract : Contracts, deadline : BOOLEAN,
                   from : Nat, source : Evidence \cup {NoEvidence}]
History == [late : BOOLEAN, executed : Contracts \cup {"none"},
            graded : Contracts \cup {"none"}, judged : BOOLEAN, accepted : BOOLEAN]

\* Types of everything but the awaited call.
Typed ==
  /\ pc \in Stages
  /\ caller \in Contracts
  /\ exec \in Contracts \cup {"none"}
  /\ expired \in BOOLEAN
  /\ evidence \in Evidence \cup {NoEvidence}
  /\ oracle \in Merits \cup {"none"}
  /\ verdict \in Verdicts \cup {"none"}
  /\ seen \in History
  /\ pc = "idle" => trial = NoTrial /\ seen = NothingSeen /\ ~ expired
  /\ pc # "idle" => trial \in TrialArguments /\ exec \in Contracts
  /\ pc # "idle" /\ trial.adapter \notin LiveAdapters => exec = trial.contract

\* The awaited call: what an adapter or a judge that answered has answered.
TaskTyped ==
  /\ task.state \in {"none", "pending", "answered"} \cup Failures
  /\ pc \in {"adapter", "conform"} /\ task.state = "answered" =>
       /\ task.value \in Evidence
       /\ task.value.contract = trial.contract
       /\ trial.adapter # "rejected"
  /\ pc \in {"judge", "receipt"} /\ task.state = "answered" => task.value \in Decisions

\* What the stages up to the verdict have established.
Established ==
  /\ seen.late => expired
  /\ pc = "decide" => ~ seen.late
  /\ pc \in Executed => seen.executed = trial.contract
  /\ pc \in Gathered =>
       /\ evidence \in Evidence
       /\ evidence.contract = trial.contract
       /\ trial.adapter # "rejected"
  /\ pc \in Unblocked => evidence.errors = {}
  /\ pc \in AuthorityAccepted /\ trial.adapter # "replay" =>
       evidence.kinds \subseteq Owns[trial.adapter] /\ evidence.semantic = NoSemantic
  /\ pc \in ClosureVerified => evidence.merit # "unclosed"
  /\ pc \in OraclesRun => seen.graded = trial.contract /\ oracle = evidence.merit
  /\ pc \in SemanticVerified => ~ SemanticUnverified(trial.contract, evidence)
  /\ pc \in Judging =>
       /\ HasRubric(trial.contract)
       /\ evidence.semantic = NoSemantic
       /\ evidence.output
       /\ evidence.merit = "passing"
  /\ seen.judged => pc \in {"judge", "receipt", "return"}
  /\ pc \in {"judge", "receipt"} => seen.judged

\* A trial about to return is blocked by an error of its own evidence, or graded on time
\* under one contract, with the verdict that evidence gives.
BlockedWell(e, v, o) == v = "BLOCKED" /\ e.errors # {} /\ o = "none"

GradedWell(a, c, e, v, s) ==
  /\ v \in Decisions
  /\ v = Audited(c, e)
  /\ ~ s.late
  /\ s.executed = c
  /\ s.graded = c
  /\ a # "replay" =>
       e.kinds \subseteq Owns[a] /\ (e.semantic # NoSemantic => s.judged)

EndsWell(a, c, e, v, o, s) ==
  /\ e \in Evidence
  /\ e.contract = c
  /\ s.judged => e.merit = "passing"
  /\ BlockedWell(e, v, o) \/ GradedWell(a, c, e, v, s)

Returning == pc = "return" => EndsWell(trial.adapter, trial.contract, evidence, verdict, oracle, seen)

ReturnedTrials ==
  [adapter : AdapterTypes, from : Nat, contract : Contracts, evidence : Evidence,
   oracle : Merits \cup {"none"}, verdict : Verdicts,
   capabilities : SUBSET (Kinds \cup {"semantic"}), seen : History]

Archived ==
  /\ archive \in Seq(ReturnedTrials)
  /\ \A i \in DOMAIN archive :
       LET t == archive[i]
       IN EndsWell(t.adapter, t.contract, t.evidence, t.verdict, t.oracle, t.seen)

IInv == Typed /\ TaskTyped /\ Established /\ Returning /\ Archived

-----------------------------------------------------------------------------
(* Evidence                                                                *)

LEMMA ErrorEvidenceFacts ==
  ASSUME NEW c \in Contracts, NEW code \in ErrorCodes
  PROVE  /\ ErrorEvidence(c, code) \in Evidence
         /\ ErrorEvidence(c, code).contract = c
         /\ ErrorEvidence(c, code).errors # {}
BY DEF ErrorEvidence, Evidence, Merits

LEMMA WithErrorFacts ==
  ASSUME NEW e \in Evidence, NEW code \in ErrorCodes
  PROVE  /\ WithError(e, code) \in Evidence
         /\ WithError(e, code).contract = e.contract
         /\ WithError(e, code).merit = e.merit
         /\ WithError(e, code).errors # {}
BY DEF WithError, Evidence

LEMMA JudgedFacts ==
  ASSUME NEW e \in Evidence, NEW d \in Decisions
  PROVE  LET j == [e EXCEPT !.semantic = [decision |-> d, bound |-> TRUE]]
         IN /\ j \in Evidence
            /\ j.contract = e.contract
            /\ j.merit = e.merit
            /\ j.errors = e.errors
            /\ j.kinds = e.kinds
            /\ j.output = e.output
            /\ j.semantic = [decision |-> d, bound |-> TRUE]
BY DEF Evidence, Judgments

-----------------------------------------------------------------------------
(* Every way out of the runner.                                            *)

\* The variables a step of _run_trial other than the awaiting ones leaves alone.
Kept == UNCHANGED <<trial, caller, exec, expired, archive>>

LEMMA BlockStep ==
  ASSUME IInv, pc # "idle", Kept,
         NEW e \in Evidence, e.contract = trial.contract, e.errors # {},
         seen.judged => e.merit = "passing",
         task' \in {task, NoTask},
         Block(e)
  PROVE  IInv'
<1>1. Typed'
  BY DEF IInv, Typed, Kept, Block, Stages, Verdicts
<1>2. TaskTyped'
  BY DEF IInv, TaskTyped, Kept, Block, NoTask
<1>3. Established'
  BY DEF IInv, Established, Kept, Block, Unchecked, Executed, Gathered, Unblocked,
         AuthorityAccepted, ClosureVerified, OraclesRun, SemanticVerified, Judging
<1>4. Returning'
  BY DEF IInv, Returning, Kept, Block, EndsWell, BlockedWell
<1>5. Archived'
  BY DEF IInv, Archived, Kept
<1> QED
  BY <1>1, <1>2, <1>3, <1>4, <1>5 DEF IInv

LEMMA DecidedStep ==
  ASSUME IInv, pc # "idle", Kept,
         NEW e, NEW v \in Decisions,
         EndsWell(trial.adapter, trial.contract, e, v, oracle, seen),
         task' \in {task, NoTask},
         Decided(e, v)
  PROVE  IInv'
<1>1. Typed'
  BY DEF IInv, Typed, Kept, Decided, Stages, Verdicts, EndsWell
<1>2. TaskTyped'
  BY DEF IInv, TaskTyped, Kept, Decided, NoTask
<1>3. Established'
  BY DEF IInv, Established, Kept, Decided, Unchecked, Executed, Gathered, Unblocked,
         AuthorityAccepted, ClosureVerified, OraclesRun, SemanticVerified, Judging
<1>4. Returning'
  <2>1. UNCHANGED <<trial, oracle, seen>> /\ evidence' = e /\ verdict' = v
    BY DEF Kept, Decided
  <2> QED
    BY <2>1 DEF Returning
<1>5. Archived'
  BY DEF IInv, Archived, Kept
<1> QED
  BY <1>1, <1>2, <1>3, <1>4, <1>5 DEF IInv

-----------------------------------------------------------------------------
(* The invariant holds initially and every step keeps it.                  *)

LEMMA InitIInv == Init => IInv
<1> SUFFICES ASSUME Init PROVE IInv
  OBVIOUS
<1>1. Typed
  BY DEF Init, Typed, Stages, NothingSeen, History
<1>2. TaskTyped
  BY DEF Init, TaskTyped, NoTask
<1>3. Established
  BY DEF Init, Established, NothingSeen, Unchecked, Executed, Gathered, Unblocked,
         AuthorityAccepted, ClosureVerified, OraclesRun, SemanticVerified, Judging
<1>4. Returning /\ Archived
  BY DEF Init, Returning, Archived
<1> QED
  BY <1>1, <1>2, <1>3, <1>4 DEF IInv

\* A step to the next stage that leaves the collected evidence and the history alone.
LEMMA AbandonStep == IInv /\ Abandon => IInv'
<1> SUFFICES ASSUME IInv, Abandon PROVE IInv'
  OBVIOUS
<1>1. Typed'
  BY DEF IInv, Abandon, Typed, Stages, NothingSeen, History
<1>2. TaskTyped'
  BY DEF Abandon, TaskTyped, NoTask
<1>3. Established'
  BY DEF Abandon, Established, NothingSeen, Unchecked, Executed, Gathered, Unblocked,
         AuthorityAccepted, ClosureVerified, OraclesRun, SemanticVerified, Judging
<1>4. Returning'
  BY DEF Abandon, Returning
<1>5. Archived'
  BY DEF IInv, Abandon, Archived
<1> QED
  BY <1>1, <1>2, <1>3, <1>4, <1>5 DEF IInv

LEMMA SubmitStep ==
  ASSUME IInv, NEW a \in AdapterTypes, NEW d \in BOOLEAN, NEW from \in Nat,
         NEW source \in Evidence \cup {NoEvidence},
         Submit(a, d, from, source)
  PROVE  IInv'
<1>1. Typed'
  BY DEF IInv, Submit, Typed, Stages, TrialArguments
<1>2. TaskTyped'
  BY DEF IInv, Submit, TaskTyped
<1>3. Established'
  BY DEF IInv, Submit, Established, Typed, NothingSeen, Unchecked, Executed, Gathered, Unblocked,
         AuthorityAccepted, ClosureVerified, OraclesRun, SemanticVerified, Judging
<1>4. Returning'
  BY DEF Submit, Returning
<1>5. Archived'
  BY DEF IInv, Submit, Archived
<1> QED
  BY <1>1, <1>2, <1>3, <1>4, <1>5 DEF IInv

\* The environment: the caller, the clock, the adapter and the judge.
LEMMA EnvironmentStep ==
  IInv /\ (Adapter \/ Judge \/ Caller \/ Expire) => IInv'
<1> SUFFICES ASSUME IInv, Adapter \/ Judge \/ Caller \/ Expire PROVE IInv'
  OBVIOUS
<1>1. CASE SubmitLive
  BY <1>1, SubmitStep DEF SubmitLive, AdapterTypes
<1>2. CASE SubmitForeign
  <2>1. Foreign \subseteq Evidence
    BY DEF Foreign, Evidence, ErrorCodes
  <2> QED
    BY <1>2, <2>1, SubmitStep DEF SubmitForeign, AdapterTypes
<1>3. CASE SubmitReplay
  <2>1. PICK i \in DOMAIN archive, d \in BOOLEAN : Submit("replay", d, i, archive[i].evidence)
    BY <1>3 DEF SubmitReplay
  <2>2. i \in Nat /\ archive[i].evidence \in Evidence
    <3>1. i \in 1..Len(archive)
      BY DEF IInv, Archived
    <3>2. archive[i].evidence \in Evidence
      BY DEF IInv, Archived, EndsWell
    <3> QED
      BY <3>1, <3>2
  <2> QED
    BY <2>1, <2>2, SubmitStep DEF AdapterTypes
<1>4. CASE CallerEdits
  <2>1. Typed'
    BY <1>4 DEF CallerEdits, IInv, Typed
  <2>2. TaskTyped' /\ Established' /\ Returning' /\ Archived'
    BY <1>4 DEF CallerEdits, IInv, TaskTyped, Established, Returning, Archived
  <2> QED
    BY <2>1, <2>2 DEF IInv
<1>5. CASE CallerCancels
  BY <1>5, AbandonStep DEF CallerCancels
<1>6. CASE Expire
  <2>1. Typed'
    BY <1>6 DEF Expire, IInv, Typed, History
  <2>2. TaskTyped' /\ Archived'
    BY <1>6 DEF Expire, IInv, TaskTyped, Archived
  <2>3. /\ seen'.executed = seen.executed /\ seen'.graded = seen.graded
        /\ seen'.judged = seen.judged
        /\ seen'.late = (pc \notin Unchecked)
    BY <1>6 DEF Expire, IInv, Typed, History
  <2>4. Established'
    BY <1>6, <2>3 DEF Expire, IInv, Established, Unchecked, Executed, Gathered, Unblocked,
         AuthorityAccepted, ClosureVerified, OraclesRun, SemanticVerified, Judging
  <2>5. Returning'
    BY <1>6, <2>3 DEF Expire, IInv, Returning, EndsWell, BlockedWell, GradedWell, Unchecked
  <2> QED
    BY <2>1, <2>2, <2>4, <2>5 DEF IInv
<1>7. CASE AdapterAnswers
  <2>1. PICK r \in Reports : TaskEnds(Answered(r))
    BY <1>7 DEF AdapterAnswers
  <2>2. trial.contract \in Contracts
    BY <1>7 DEF AdapterAnswers, AdapterPending, IInv, Typed, TrialArguments
  <2>3. r \in Evidence /\ r.contract = trial.contract
    <3>1. {"reported"} \subseteq ErrorCodes
      BY DEF ErrorCodes
    <3>2. {NoSemantic, [decision |-> "PASS", bound |-> TRUE]} \subseteq Judgments \cup {NoSemantic}
      BY DEF Judgments, Decisions
    <3> QED
      BY <2>2, <3>1, <3>2 DEF Reports, Evidence
  <2>4. trial.adapter # "rejected"
    BY <1>7, OwnsAssumption DEF AdapterAnswers
  <2>5. TaskTyped'
    BY <1>7, <2>1, <2>3, <2>4 DEF AdapterAnswers, AdapterPending, TaskEnds, Answered, TaskTyped
  <2> QED
    BY <2>1, <2>5 DEF TaskEnds, IInv, Typed, Established, Returning, Archived
<1>8. CASE AdapterFails \/ RejectedAdapterFails \/ JudgeFails
  <2>1. PICK how \in Failures : TaskEnds(Failed(how))
    BY <1>8 DEF AdapterFails, RejectedAdapterFails, JudgeFails, Failures
  <2>2. TaskTyped'
    BY <2>1 DEF TaskEnds, Failed, TaskTyped, Failures
  <2> QED
    BY <2>1, <2>2 DEF TaskEnds, IInv, Typed, Established, Returning, Archived
<1>9. CASE ReplayAnswers
  <2> DEFINE t == IF exec = trial.source.contract THEN Answered(trial.source)
                                                  ELSE Failed("precondition")
  <2>1. /\ pc = "adapter" /\ trial.adapter = "replay"
        /\ task' = t /\ UNCHANGED <<pc, trial>>
    BY <1>9 DEF ReplayAnswers, AdapterPending, TaskEnds
  <2>2. /\ exec = trial.contract /\ exec \in Contracts
        /\ trial.source \in Evidence \cup {NoEvidence}
    BY <2>1, OwnsAssumption DEF IInv, Typed, TrialArguments
  <2>3. exec = trial.source.contract => trial.source \in Evidence
    BY <2>2 DEF NoEvidence, Contracts
  <2>4. /\ t.state \in {"answered", "precondition"}
        /\ t.state = "answered" =>
             t.value \in Evidence /\ t.value.contract = trial.contract
    BY <2>2, <2>3 DEF Answered, Failed
  <2>5. TaskTyped'
    BY <2>1, <2>4 DEF TaskTyped, Failures
  <2> QED
    BY <1>9, <2>5 DEF ReplayAnswers, TaskEnds, IInv, Typed, Established, Returning, Archived
<1>10. CASE AdapterMutates
  <2>1. Typed'
    BY <1>10 DEF AdapterMutates, IInv, Typed
  <2>2. Established' /\ Returning' /\ Archived'
    BY <1>10 DEF AdapterMutates, IInv, Established, Returning, Archived
  <2>3. TaskTyped'
    BY <1>10 DEF AdapterMutates, IInv, TaskTyped
  <2> QED
    BY <2>1, <2>2, <2>3 DEF IInv
<1>11. CASE JudgeAnswers
  <2>1. PICK d \in Decisions : TaskEnds(Answered(d))
    BY <1>11 DEF JudgeAnswers
  <2>2. TaskTyped'
    BY <1>11, <2>1 DEF JudgeAnswers, JudgePending, TaskEnds, Answered, TaskTyped
  <2> QED
    BY <2>1, <2>2 DEF TaskEnds, IInv, Typed, Established, Returning, Archived
<1> QED
  BY <1>1, <1>2, <1>3, <1>4, <1>5, <1>6, <1>7, <1>8, <1>9, <1>10, <1>11
     DEF Adapter, Judge, Caller

\* The runner moves on to a later stage without having found an objection.
LEMMA ProceedStep ==
  ASSUME IInv, pc # "idle", Kept, NEW next \in Stages \ {"idle", "return"},
         pc' = next, UNCHANGED verdict,
         evidence' \in Evidence \cup {NoEvidence},
         oracle' \in Merits \cup {"none"},
         seen' \in History,
         Established', TaskTyped'
  PROVE  IInv'
<1>1. Typed'
  BY DEF IInv, Typed, Kept
<1>2. Returning' /\ Archived'
  BY DEF IInv, Kept, Returning, Archived
<1> QED
  BY <1>1, <1>2 DEF IInv

\* A look at the clock after the deadline ends the trial with what was collected.
LEMMA ExpiredStep ==
  ASSUME IInv, pc \in Gathered \ {"decide"}, Kept, task' \in {task, NoTask},
         DeadlineBlockedWith(evidence)
  PROVE  IInv'
<1>1. /\ evidence \in Evidence /\ evidence.contract = trial.contract
      /\ seen.judged => evidence.merit = "passing"
      /\ pc # "idle"
  BY DEF IInv, Established, Gathered, Unblocked,
       AuthorityAccepted, ClosureVerified, OraclesRun, SemanticVerified, Judging
<1>2. Block(WithError(evidence, "deadline"))
  BY DEF DeadlineBlockedWith
<1>3. "deadline" \in ErrorCodes
  BY DEF ErrorCodes, AppendedErrors
<1> QED
  BY <1>1, <1>2, <1>3, WithErrorFacts, BlockStep

\* An objection of the evaluator ends the trial with one more error in its evidence.
LEMMA ObjectionStep ==
  ASSUME IInv, pc \in Gathered, Kept, task' \in {task, NoTask},
         NEW code \in ErrorCodes, Block(WithError(evidence, code))
  PROVE  IInv'
<1>1. /\ evidence \in Evidence /\ evidence.contract = trial.contract
      /\ seen.judged => evidence.merit = "passing"
      /\ pc # "idle"
  BY DEF IInv, Established, Gathered, Unblocked,
       AuthorityAccepted, ClosureVerified, OraclesRun, SemanticVerified, Judging
<1> QED
  BY <1>1, WithErrorFacts, BlockStep

\* A trial that ends before any evidence of the subject was accepted.
LEMMA ErrorOnlyStep ==
  ASSUME IInv, pc \in {"call", "adapter", "conform"}, Kept, task' \in {task, NoTask},
         NEW code \in ErrorCodes, Block(ErrorEvidence(trial.contract, code))
  PROVE  IInv'
<1>1. trial.contract \in Contracts /\ ~ seen.judged
  BY DEF IInv, Typed, TrialArguments, Established
<1> QED
  BY <1>1, ErrorEvidenceFacts, BlockStep

-----------------------------------------------------------------------------
(* The steps of _run_trial                                                 *)

LEMMA CallStep == IInv /\ Call => IInv'
<1> SUFFICES ASSUME IInv, Call PROVE IInv'
  OBVIOUS
<1>0. "deadline" \in ErrorCodes /\ Kept /\ pc = "call"
  BY DEF Call, Kept, ErrorCodes, AppendedErrors
<1>1. CASE expired
  <2>1. DeadlineBlocked /\ task' = task
    BY <1>1 DEF Call
  <2> QED
    BY <1>0, <2>1, ErrorOnlyStep DEF DeadlineBlocked
<1>2. CASE ~ expired
  <2>1. /\ pc' = "adapter" /\ task' = Pending
        /\ UNCHANGED <<oracle, verdict, evidence, seen>>
    BY <1>2 DEF Call, Proceed, Goto
  <2>2. Established'
    BY <1>0, <2>1 DEF IInv, Established, Kept, Unchecked, Executed, Gathered, Unblocked,
         AuthorityAccepted, ClosureVerified, OraclesRun, SemanticVerified, Judging
  <2>3. TaskTyped'
    BY <2>1 DEF TaskTyped, Pending
  <2> QED
    BY <1>0, <2>1, <2>2, <2>3, ProceedStep DEF IInv, Typed, Stages
<1> QED
  BY <1>1, <1>2

LEMMA AdapterTimesOutStep == IInv /\ AdapterTimesOut => IInv'
<1> SUFFICES ASSUME IInv, AdapterTimesOut PROVE IInv'
  OBVIOUS
<1>1. /\ "deadline" \in ErrorCodes /\ Kept /\ pc = "adapter" /\ task' = NoTask
      /\ DeadlineBlocked
  BY DEF AdapterTimesOut, AdapterPending, Kept, ErrorCodes, AppendedErrors
<1> QED
  BY <1>1, ErrorOnlyStep DEF DeadlineBlocked

LEMMA AdapterReturnsStep == IInv /\ AdapterReturns => IInv'
<1> SUFFICES ASSUME IInv, AdapterReturns PROVE IInv'
  OBVIOUS
<1>0. /\ {"deadline", "drift", "precondition", "exception"} \subseteq ErrorCodes
      /\ Kept /\ pc = "adapter" /\ task' = task
  BY DEF AdapterReturns, Kept, ErrorCodes, AppendedErrors
<1>1. CASE expired
  <2>1. DeadlineBlocked
    BY <1>1 DEF AdapterReturns
  <2> QED
    BY <1>0, <2>1, ErrorOnlyStep DEF DeadlineBlocked
<1>2. CASE ~ expired /\ Drifted
  <2>1. Block(ErrorEvidence(trial.contract, "drift"))
    BY <1>2 DEF AdapterReturns
  <2> QED
    BY <1>0, <2>1, ErrorOnlyStep
<1>3. CASE ~ expired /\ ~ Drifted /\ task.state \in {"precondition", "exception"}
  <2>1. Block(ErrorEvidence(trial.contract, task.state))
    BY <1>3 DEF AdapterReturns
  <2> QED
    BY <1>0, <1>3, <2>1, ErrorOnlyStep
<1>4. CASE ~ expired /\ ~ Drifted /\ task.state \notin {"precondition", "exception"}
  <2>1. /\ pc' = "conform"
        /\ seen' = [seen EXCEPT !.executed = exec]
        /\ UNCHANGED <<oracle, verdict, evidence>>
    BY <1>4 DEF AdapterReturns, Accept, Goto
  <2>2. exec = trial.contract /\ exec \in Contracts
    BY <1>0, <1>4 DEF Drifted, IInv, Typed
  <2>3. /\ seen' \in History /\ seen'.executed = trial.contract
        /\ seen'.late = seen.late /\ seen'.judged = seen.judged
    BY <2>1, <2>2 DEF IInv, Typed, History
  <2>4. Established'
    BY <1>0, <2>1, <2>3 DEF IInv, Established, Kept, Unchecked, Executed, Gathered, Unblocked,
         AuthorityAccepted, ClosureVerified, OraclesRun, SemanticVerified, Judging
  <2>5. TaskTyped'
    BY <1>0, <2>1 DEF IInv, TaskTyped, Kept
  <2> QED
    BY <1>0, <2>1, <2>3, <2>4, <2>5, ProceedStep DEF IInv, Typed, Stages
<1> QED
  BY <1>1, <1>2, <1>3, <1>4

LEMMA ConformStep == IInv /\ Conform => IInv'
<1> SUFFICES ASSUME IInv, Conform PROVE IInv'
  OBVIOUS
<1>0. /\ {"deadline", "invalid"} \subseteq ErrorCodes
      /\ Kept /\ pc = "conform" /\ task' = NoTask
  BY DEF Conform, Kept, ErrorCodes, AppendedErrors
<1>1. CASE task.state \in {"nonconforming", "malformed"}
  <2>1. PICK code \in {"deadline", "invalid"} : Block(ErrorEvidence(trial.contract, code))
    BY <1>1 DEF Conform, DeadlineBlocked
  <2> QED
    BY <1>0, <2>1, ErrorOnlyStep
<1>2. CASE task.state = "answered"
  <2>1. /\ task.value \in Evidence
        /\ task.value.contract = trial.contract
        /\ trial.adapter # "rejected"
        /\ ~ seen.judged
    BY <1>0, <1>2 DEF IInv, TaskTyped, Established
  <2>2. CASE expired
    <3>1. Block(WithError(task.value, "deadline"))
      BY <1>2, <2>2 DEF Conform, DeadlineBlockedWith
    <3> QED
      BY <1>0, <2>1, <3>1, WithErrorFacts, BlockStep
  <2>3. CASE ~ expired
    <3>1. /\ pc' = "blocking" /\ evidence' = task.value
          /\ UNCHANGED <<oracle, verdict, seen>>
      BY <1>2, <2>3 DEF Conform, Goto
    <3>2. Established'
      BY <1>0, <2>1, <3>1 DEF IInv, Established, Kept, Unchecked, Executed, Gathered, Unblocked,
           AuthorityAccepted, ClosureVerified, OraclesRun, SemanticVerified, Judging
    <3>3. TaskTyped'
      BY <1>0, <3>1 DEF TaskTyped, NoTask
    <3> QED
      BY <1>0, <2>1, <3>1, <3>2, <3>3, ProceedStep DEF IInv, Typed, Stages
  <2> QED
    BY <2>2, <2>3
<1> QED
  BY <1>1, <1>2 DEF Conform
LEMMA CheckBlockingStep == IInv /\ CheckBlocking => IInv'
<1> SUFFICES ASSUME IInv, CheckBlocking PROVE IInv'
  OBVIOUS
<1>0. /\ "deadline" \in ErrorCodes
      /\ Kept /\ pc = "blocking" /\ task' = task
      /\ pc \in Gathered \ {"decide"}
  BY DEF CheckBlocking, Stage, Kept, ErrorCodes, AppendedErrors, Gathered, Unblocked,
         AuthorityAccepted, ClosureVerified, OraclesRun, SemanticVerified, Judging
<1>1. CASE expired
  <2>1. DeadlineBlockedWith(evidence)
    BY <1>1 DEF CheckBlocking, Stage
  <2> QED
    BY <1>0, <2>1, ExpiredStep
<1>2. CASE ~ expired /\ Blocking(evidence)
  <2>1. /\ evidence \in Evidence /\ evidence.contract = trial.contract
        /\ evidence.errors # {} /\ ~ seen.judged
    BY <1>0, <1>2 DEF IInv, Established, Blocking
  <2>2. Block(evidence)
    BY <1>2 DEF CheckBlocking, Stage
  <2> QED
    BY <1>0, <2>1, <2>2, BlockStep
<1>3. CASE ~ expired /\ ~ Blocking(evidence)
  <2>1. /\ pc' = "authority"
        /\ UNCHANGED <<oracle, verdict, evidence, seen>>
    BY <1>3 DEF CheckBlocking, Stage, Proceed, Goto
  <2>3. Established'
    BY <1>0, <1>3, <2>1
       DEF IInv, Established, Kept, Unchecked, Executed, Gathered, Unblocked,
         AuthorityAccepted, ClosureVerified, OraclesRun, SemanticVerified, Judging, Blocking
  <2>4. TaskTyped'
    BY <1>0, <2>1 DEF IInv, TaskTyped, Kept
  <2> QED
    BY <1>0, <2>1, <2>3, <2>4, ProceedStep DEF IInv, Typed, Stages
<1> QED
  BY <1>1, <1>2, <1>3

LEMMA CheckAuthorityStep == IInv /\ CheckAuthority => IInv'
<1> SUFFICES ASSUME IInv, CheckAuthority PROVE IInv'
  OBVIOUS
<1>0. /\ "authority" \in ErrorCodes
      /\ Kept /\ pc = "authority" /\ task' = task
      /\ pc \in Gathered \ {"decide"}
  BY DEF CheckAuthority, Stage, Kept, ErrorCodes, AppendedErrors, Gathered, Unblocked,
         AuthorityAccepted, ClosureVerified, OraclesRun, SemanticVerified, Judging
<1>1. CASE expired
  <2>1. DeadlineBlockedWith(evidence)
    BY <1>1 DEF CheckAuthority, Stage
  <2> QED
    BY <1>0, <2>1, ExpiredStep
<1>2. CASE ~ expired /\ AuthorityViolation(trial.adapter, evidence)
  <2>1. Block(WithError(evidence, "authority"))
    BY <1>2 DEF CheckAuthority, Stage
  <2> QED
    BY <1>0, <2>1, ObjectionStep
<1>3. CASE ~ expired /\ ~ AuthorityViolation(trial.adapter, evidence)
  <2>1. /\ pc' = "closure" /\ seen' = [seen EXCEPT !.accepted = TRUE]
        /\ UNCHANGED <<oracle, verdict, evidence>>
    BY <1>3 DEF CheckAuthority, Stage, Goto
  <2>2. /\ seen' \in History /\ seen'.executed = seen.executed
        /\ seen'.late = seen.late /\ seen'.judged = seen.judged
    BY <2>1 DEF IInv, Typed, History
  <2>3. Established'
    BY <1>0, <1>3, <2>1, <2>2
       DEF IInv, Established, Kept, Unchecked, Executed, Gathered, Unblocked,
         AuthorityAccepted, ClosureVerified, OraclesRun, SemanticVerified, Judging, AuthorityViolation
  <2>4. TaskTyped'
    BY <1>0, <2>1 DEF IInv, TaskTyped, Kept
  <2>5. /\ "closure" \in Stages \ {"idle", "return"} /\ pc # "idle"
        /\ evidence' = evidence /\ oracle' = oracle
    BY <1>0, <2>1 DEF Stages
  <2>6. evidence \in Evidence \cup {NoEvidence} /\ oracle \in Merits \cup {"none"}
    BY DEF IInv, Typed
  <2> QED
    BY <1>0, <2>1, <2>2, <2>3, <2>4, <2>5, <2>6, ProceedStep
<1> QED
  BY <1>1, <1>2, <1>3

LEMMA VerifyClosureStep == IInv /\ VerifyClosure => IInv'
<1> SUFFICES ASSUME IInv, VerifyClosure PROVE IInv'
  OBVIOUS
<1>0. /\ "closure" \in ErrorCodes
      /\ Kept /\ pc = "closure" /\ task' = task
      /\ pc \in Gathered \ {"decide"}
  BY DEF VerifyClosure, Stage, Kept, ErrorCodes, AppendedErrors, Gathered, Unblocked,
         AuthorityAccepted, ClosureVerified, OraclesRun, SemanticVerified, Judging
<1>1. CASE expired
  <2>1. DeadlineBlockedWith(evidence)
    BY <1>1 DEF VerifyClosure, Stage
  <2> QED
    BY <1>0, <2>1, ExpiredStep
<1>2. CASE ~ expired /\ evidence.merit = "unclosed"
  <2>1. Block(WithError(evidence, "closure"))
    BY <1>2 DEF VerifyClosure, Stage
  <2> QED
    BY <1>0, <2>1, ObjectionStep
<1>3. CASE ~ expired /\ evidence.merit # "unclosed"
  <2>1. /\ pc' = "grade"
        /\ UNCHANGED <<oracle, verdict, evidence, seen>>
    BY <1>3 DEF VerifyClosure, Stage, Proceed, Goto
  <2>3. Established'
    BY <1>0, <1>3, <2>1
       DEF IInv, Established, Kept, Unchecked, Executed, Gathered, Unblocked,
         AuthorityAccepted, ClosureVerified, OraclesRun, SemanticVerified, Judging
  <2>4. TaskTyped'
    BY <1>0, <2>1 DEF IInv, TaskTyped, Kept
  <2> QED
    BY <1>0, <2>1, <2>3, <2>4, ProceedStep DEF IInv, Typed, Stages
<1> QED
  BY <1>1, <1>2, <1>3

LEMMA GradeStep == IInv /\ Grade => IInv'
<1> SUFFICES ASSUME IInv, Grade PROVE IInv'
  OBVIOUS
<1>0. /\ "deadline" \in ErrorCodes
      /\ Kept /\ pc = "grade" /\ task' = task
      /\ pc \in Gathered \ {"decide"}
  BY DEF Grade, Stage, Kept, ErrorCodes, AppendedErrors, Gathered, Unblocked,
         AuthorityAccepted, ClosureVerified, OraclesRun, SemanticVerified, Judging
<1>1. CASE expired
  <2>1. DeadlineBlockedWith(evidence)
    BY <1>1 DEF Grade, Stage
  <2> QED
    BY <1>0, <2>1, ExpiredStep
<1>2. CASE ~ expired
  <2>1. /\ pc' = "semantic" /\ oracle' = evidence.merit
        /\ seen' = [seen EXCEPT !.graded = trial.contract]
        /\ UNCHANGED <<evidence, verdict>>
    BY <1>2 DEF Grade, Stage, Goto
  <2>2. /\ seen' \in History /\ seen'.executed = seen.executed
        /\ seen'.graded = trial.contract
        /\ seen'.late = seen.late /\ seen'.judged = seen.judged
        /\ evidence.merit \in Merits
    BY <1>0, <2>1 DEF IInv, Typed, History, TrialArguments, Established, Gathered, Unblocked,
         AuthorityAccepted, ClosureVerified, Evidence
  <2>3. Established'
    BY <1>0, <1>2, <2>1, <2>2
       DEF IInv, Established, Kept, Unchecked, Executed, Gathered, Unblocked,
         AuthorityAccepted, ClosureVerified, OraclesRun, SemanticVerified, Judging
  <2>4. TaskTyped'
    BY <1>0, <2>1 DEF IInv, TaskTyped, Kept
  <2> QED
    BY <1>0, <2>1, <2>2, <2>3, <2>4, ProceedStep DEF IInv, Typed, Stages
<1> QED
  BY <1>1, <1>2

LEMMA VerifySemanticStep == IInv /\ VerifySemantic => IInv'
<1> SUFFICES ASSUME IInv, VerifySemantic PROVE IInv'
  OBVIOUS
<1>0. /\ "semantic_unverified" \in ErrorCodes
      /\ Kept /\ pc = "semantic" /\ task' = task
      /\ pc \in Gathered \ {"decide"}
  BY DEF VerifySemantic, Stage, Kept, ErrorCodes, AppendedErrors, Gathered, Unblocked,
         AuthorityAccepted, ClosureVerified, OraclesRun, SemanticVerified, Judging
<1>1. CASE expired
  <2>1. DeadlineBlockedWith(evidence)
    BY <1>1 DEF VerifySemantic, Stage
  <2> QED
    BY <1>0, <2>1, ExpiredStep
<1>2. CASE ~ expired /\ SemanticUnverified(trial.contract, evidence)
  <2>1. Block(WithError(evidence, "semantic_unverified"))
    BY <1>2 DEF VerifySemantic, Stage
  <2> QED
    BY <1>0, <2>1, ObjectionStep
<1>3. CASE ~ expired /\ ~ SemanticUnverified(trial.contract, evidence)
  <2>1. /\ pc' = "decide"
        /\ UNCHANGED <<oracle, verdict, evidence, seen>>
    BY <1>3 DEF VerifySemantic, Stage, Proceed, Goto
  <2>3. Established'
    BY <1>0, <1>3, <2>1
       DEF IInv, Established, Kept, Unchecked, Executed, Gathered, Unblocked,
         AuthorityAccepted, ClosureVerified, OraclesRun, SemanticVerified, Judging
  <2>4. TaskTyped'
    BY <1>0, <2>1 DEF IInv, TaskTyped, Kept
  <2> QED
    BY <1>0, <2>1, <2>3, <2>4, ProceedStep DEF IInv, Typed, Stages
<1> QED
  BY <1>1, <1>2, <1>3

LEMMA CheckJudgeStep == IInv /\ CheckJudge => IInv'
<1> SUFFICES ASSUME IInv, CheckJudge PROVE IInv'
  OBVIOUS
<1>0. /\ "judge_uncalibrated" \in ErrorCodes
      /\ Kept /\ pc = "judge_authority" /\ task' = task
      /\ pc \in Gathered \ {"decide"}
  BY DEF CheckJudge, Stage, Kept, ErrorCodes, AppendedErrors, Gathered, Unblocked,
         AuthorityAccepted, ClosureVerified, OraclesRun, SemanticVerified, Judging
<1>1. CASE expired
  <2>1. DeadlineBlockedWith(evidence)
    BY <1>1 DEF CheckJudge, Stage
  <2> QED
    BY <1>0, <2>1, ExpiredStep
<1>2. CASE ~ expired /\ Block(WithError(evidence, "judge_uncalibrated"))
  <2>1. Block(WithError(evidence, "judge_uncalibrated"))
    BY <1>2
  <2> QED
    BY <1>0, <2>1, ObjectionStep
<1>3. CASE ~ expired /\ Proceed("call_judge")
  <2>1. /\ pc' = "call_judge"
        /\ UNCHANGED <<oracle, verdict, evidence, seen>>
    BY <1>3 DEF CheckJudge, Stage, Proceed, Goto
  <2>3. Established'
    BY <1>0, <1>3, <2>1
       DEF IInv, Established, Kept, Unchecked, Executed, Gathered, Unblocked,
         AuthorityAccepted, ClosureVerified, OraclesRun, SemanticVerified, Judging
  <2>4. TaskTyped'
    BY <1>0, <2>1 DEF IInv, TaskTyped, Kept
  <2> QED
    BY <1>0, <2>1, <2>3, <2>4, ProceedStep DEF IInv, Typed, Stages
<1> QED
  BY <1>1, <1>2, <1>3 DEF CheckJudge, Stage

LEMMA JudgeReturnsStep == IInv /\ JudgeReturns => IInv'
<1> SUFFICES ASSUME IInv, JudgeReturns PROVE IInv'
  OBVIOUS
<1>0. /\ "judge_exception" \in ErrorCodes
      /\ Kept /\ pc = "judge" /\ task' = task
      /\ pc \in Gathered \ {"decide"}
  BY DEF JudgeReturns, Stage, Kept, ErrorCodes, AppendedErrors, Gathered, Unblocked,
         AuthorityAccepted, ClosureVerified, OraclesRun, SemanticVerified, Judging
<1>1. CASE expired
  <2>1. DeadlineBlockedWith(evidence)
    BY <1>1 DEF JudgeReturns, Stage
  <2> QED
    BY <1>0, <2>1, ExpiredStep
<1>2. CASE ~ expired /\ task.state = "exception"
  <2>1. Block(WithError(evidence, "judge_exception"))
    BY <1>2 DEF JudgeReturns, Stage
  <2> QED
    BY <1>0, <2>1, ObjectionStep
<1>3. CASE ~ expired /\ task.state # "exception"
  <2>1. /\ pc' = "receipt"
        /\ UNCHANGED <<oracle, verdict, evidence, seen>>
    BY <1>3 DEF JudgeReturns, Stage, Proceed, Goto
  <2>3. Established'
    BY <1>0, <1>3, <2>1
       DEF IInv, Established, Kept, Unchecked, Executed, Gathered, Unblocked,
         AuthorityAccepted, ClosureVerified, OraclesRun, SemanticVerified, Judging
  <2>4. TaskTyped'
    BY <1>0, <2>1 DEF IInv, TaskTyped, Kept
  <2> QED
    BY <1>0, <2>1, <2>3, <2>4, ProceedStep DEF IInv, Typed, Stages
<1> QED
  BY <1>1, <1>2, <1>3

\* What DecideFailed, DecidePlain and DecideRecorded find when they grade.
LEMMA DecideStep == IInv /\ Decide => IInv'
<1> SUFFICES ASSUME IInv, Decide PROVE IInv'
  OBVIOUS
<1>0. /\ Kept /\ pc = "decide" /\ task' = task
      /\ pc \in Gathered
      /\ {"after_failure", "judge_missing", "candidate_missing"} \subseteq ErrorCodes
  BY DEF Decide, Kept, ErrorCodes, AppendedErrors, Gathered, Unblocked,
         AuthorityAccepted, ClosureVerified, OraclesRun, SemanticVerified
<1>1. /\ evidence \in Evidence /\ evidence.contract = trial.contract
      /\ evidence.errors = {} /\ evidence.merit # "unclosed" /\ oracle = evidence.merit
      /\ ~ SemanticUnverified(trial.contract, evidence)
      /\ ~ seen.late /\ ~ seen.judged
      /\ seen.executed = trial.contract /\ seen.graded = trial.contract
      /\ trial.adapter # "replay" =>
           evidence.kinds \subseteq Owns[trial.adapter] /\ evidence.semantic = NoSemantic
  BY <1>0 DEF IInv, Established, Executed, Gathered, Unblocked,
         AuthorityAccepted, ClosureVerified, OraclesRun, SemanticVerified
<1>2. ASSUME NEW v \in Decisions, v = Audited(trial.contract, evidence), Decided(evidence, v)
      PROVE  IInv'
  <2>1. EndsWell(trial.adapter, trial.contract, evidence, v, oracle, seen)
    BY <1>1, <1>2 DEF EndsWell, GradedWell
  <2> QED
    BY <1>0, <1>2, <2>1, DecidedStep
<1>3. CASE DecideFailed
  <2>1. CASE evidence.semantic # NoSemantic
    BY <1>0, <1>3, <2>1, ObjectionStep DEF DecideFailed
  <2>2. CASE evidence.semantic = NoSemantic
    <3>1. "FAIL" = Audited(trial.contract, evidence)
      BY <1>1, <1>3, <2>2 DEF DecideFailed, Audited
    <3> QED
      BY <1>2, <1>3, <2>2, <3>1 DEF DecideFailed, Decisions
  <2> QED
    BY <2>1, <2>2
<1>4. CASE DecidePlain
  <2>1. "PASS" = Audited(trial.contract, evidence)
    BY <1>1, <1>4 DEF DecidePlain, Audited
  <2> QED
    BY <1>2, <1>4, <2>1 DEF DecidePlain, Decisions
<1>5. CASE DecideRecorded
  <2>1. evidence.semantic.decision = Audited(trial.contract, evidence)
    BY <1>1, <1>5 DEF DecideRecorded, Audited
  <2>2. evidence.semantic.decision \in Decisions
    BY <1>1, <1>5 DEF DecideRecorded, Evidence, Judgments
  <2> QED
    BY <1>2, <1>5, <2>1, <2>2 DEF DecideRecorded
<1>6. CASE DecideUnjudged
  <2>1. CASE \E code \in {"judge_missing", "candidate_missing"} : Block(WithError(evidence, code))
    BY <1>0, <2>1, ObjectionStep
  <2>2. CASE evidence.output /\ Proceed("judge_authority")
    <3>1. /\ pc' = "judge_authority"
          /\ UNCHANGED <<oracle, verdict, evidence, seen>>
      BY <2>2 DEF Proceed, Goto
    <3>2. HasRubric(trial.contract) /\ evidence.semantic = NoSemantic /\ evidence.merit = "passing"
      BY <1>1, <1>6 DEF DecideUnjudged
    <3>3. Established'
      BY <1>0, <1>1, <2>2, <3>1, <3>2
         DEF IInv, Established, Kept, Unchecked, Executed, Gathered, Unblocked,
             AuthorityAccepted, ClosureVerified, OraclesRun, SemanticVerified, Judging
    <3>4. TaskTyped'
      BY <1>0, <3>1 DEF IInv, TaskTyped, Kept
    <3> QED
      BY <1>0, <3>1, <3>3, <3>4, ProceedStep DEF IInv, Typed, Stages
  <2> QED
    BY <1>6, <2>1, <2>2 DEF DecideUnjudged
<1> QED
  BY <1>3, <1>4, <1>5, <1>6 DEF Decide

LEMMA CallJudgeStep == IInv /\ CallJudge => IInv'
<1> SUFFICES ASSUME IInv, CallJudge PROVE IInv'
  OBVIOUS
<1>0. /\ Kept /\ pc = "call_judge" /\ pc \in Gathered \ {"decide"}
  BY DEF CallJudge, Kept, Gathered, Unblocked,
         AuthorityAccepted, ClosureVerified, OraclesRun, SemanticVerified, Judging
<1>1. CASE expired
  BY <1>0, <1>1, ExpiredStep DEF CallJudge
<1>2. CASE ~ expired
  <2>1. /\ pc' = "judge" /\ task' = Pending
        /\ seen' = [seen EXCEPT !.judged = TRUE]
        /\ UNCHANGED <<oracle, verdict, evidence>>
    BY <1>2 DEF CallJudge, Goto
  <2>2. /\ seen' \in History /\ seen'.executed = seen.executed
        /\ seen'.graded = seen.graded /\ seen'.late = seen.late /\ seen'.judged
    BY <2>1 DEF IInv, Typed, History
  <2>3. Established'
    BY <1>0, <2>1, <2>2
       DEF IInv, Established, Kept, Unchecked, Executed, Gathered, Unblocked,
           AuthorityAccepted, ClosureVerified, OraclesRun, SemanticVerified, Judging
  <2>4. TaskTyped'
    BY <2>1 DEF TaskTyped, Pending
  <2>5. "judge" \in Stages \ {"idle", "return"} /\ evidence' = evidence /\ oracle' = oracle
    BY <2>1 DEF Stages
  <2>6. evidence \in Evidence \cup {NoEvidence} /\ oracle \in Merits \cup {"none"}
    BY DEF IInv, Typed
  <2> QED
    BY <1>0, <2>1, <2>2, <2>3, <2>4, <2>5, <2>6, ProceedStep
<1> QED
  BY <1>1, <1>2

LEMMA JudgeTimesOutStep == IInv /\ JudgeTimesOut => IInv'
<1> SUFFICES ASSUME IInv, JudgeTimesOut PROVE IInv'
  OBVIOUS
<1>1. /\ Kept /\ pc \in Gathered \ {"decide"} /\ task' = NoTask /\ DeadlineBlockedWith(evidence)
  BY DEF JudgeTimesOut, JudgePending, Kept, Gathered, Unblocked,
         AuthorityAccepted, ClosureVerified, OraclesRun, SemanticVerified, Judging
<1> QED
  BY <1>1, ExpiredStep

LEMMA ReceiptStep == IInv /\ Receipt => IInv'
<1> SUFFICES ASSUME IInv, Receipt PROVE IInv'
  OBVIOUS
<1> DEFINE judged == [evidence EXCEPT !.semantic = [decision |-> task.value, bound |-> TRUE]]
<1>0. /\ Kept /\ pc = "receipt" /\ pc \in Gathered \ {"decide"} /\ task' = NoTask
      /\ {"deadline", "judgment_invalid"} \subseteq ErrorCodes
  BY DEF Receipt, Kept, ErrorCodes, AppendedErrors, Gathered, Unblocked,
         AuthorityAccepted, ClosureVerified, OraclesRun, SemanticVerified, Judging
<1>1. /\ evidence \in Evidence /\ evidence.contract = trial.contract
      /\ evidence.errors = {} /\ evidence.output /\ evidence.merit = "passing"
      /\ HasRubric(trial.contract)
      /\ seen.judged /\ (seen.late => expired)
      /\ seen.executed = trial.contract /\ seen.graded = trial.contract
      /\ trial.adapter # "replay" => evidence.kinds \subseteq Owns[trial.adapter]
  BY <1>0 DEF IInv, Established, Unchecked, Executed, Gathered, Unblocked,
         AuthorityAccepted, ClosureVerified, OraclesRun, SemanticVerified, Judging
<1>2. CASE task.state = "malformed"
  <2>1. Block(WithError(evidence, "deadline")) \/ Block(WithError(evidence, "judgment_invalid"))
    BY <1>2 DEF Receipt, DeadlineBlockedWith
  <2> QED
    BY <1>0, <2>1, ObjectionStep
<1>3. CASE task.state = "answered"
  <2>1. task.value \in Decisions
    BY <1>0, <1>3 DEF IInv, TaskTyped
  <2>2. /\ judged \in Evidence
        /\ judged.contract = trial.contract /\ judged.merit = "passing" /\ judged.errors = {}
        /\ judged.kinds = evidence.kinds /\ judged.output
        /\ judged.semantic = [decision |-> task.value, bound |-> TRUE]
    BY <1>1, <2>1, JudgedFacts
  <2> HIDE DEF judged
  <2>3. CASE expired
    <3>1. Block(WithError(judged, "deadline"))
      BY <1>3, <2>3 DEF Receipt, DeadlineBlockedWith, judged
    <3> QED
      BY <1>0, <2>2, <3>1, WithErrorFacts, BlockStep
  <2>4. CASE ~ expired
    <3>1. Decided(judged, task.value)
      BY <1>3, <2>4 DEF Receipt, judged
    <3>2. judged.semantic # NoSemantic /\ judged.semantic.decision = task.value
          /\ judged.semantic.bound
      BY <2>2 DEF NoSemantic
    <3>3. task.value = Audited(trial.contract, judged)
      BY <1>1, <2>2, <3>2 DEF Audited, SemanticUnverified
    <3>4. EndsWell(trial.adapter, trial.contract, judged, task.value, oracle, seen)
      BY <1>1, <2>1, <2>2, <2>4, <3>3 DEF EndsWell, GradedWell
    <3> QED
      BY <1>0, <2>1, <3>1, <3>4, DecidedStep
  <2> QED
    BY <2>3, <2>4
<1> QED
  BY <1>2, <1>3 DEF Receipt

LEMMA ReturnStep == IInv /\ Return => IInv'
<1> SUFFICES ASSUME IInv, Return PROVE IInv'
  OBVIOUS
<1> DEFINE t == [adapter |-> trial.adapter, from |-> trial.from, contract |-> trial.contract,
                 evidence |-> evidence, oracle |-> oracle, verdict |-> verdict,
                 capabilities |-> Capabilities(trial.adapter, evidence), seen |-> seen]
<1>1. archive' = Append(archive, t) /\ pc = "return"
  BY DEF Return
<1>2. EndsWell(t.adapter, t.contract, t.evidence, t.verdict, t.oracle, t.seen)
  BY <1>1 DEF IInv, Returning
<1>3. t \in ReturnedTrials
  <2>1. evidence \in Evidence /\ verdict \in Verdicts
    BY <1>2 DEF EndsWell, BlockedWell, GradedWell, Verdicts
  <2>2. Capabilities(trial.adapter, evidence) \in SUBSET (Kinds \cup {"semantic"})
    BY <2>1 DEF Capabilities, Evidence
  <2>3. /\ trial.adapter \in AdapterTypes /\ trial.from \in Nat /\ trial.contract \in Contracts
        /\ oracle \in Merits \cup {"none"} /\ seen \in History
    BY <1>1 DEF IInv, Typed, TrialArguments
  <2> QED
    BY <2>1, <2>2, <2>3 DEF ReturnedTrials
<1>4. Archived'
  <2> HIDE DEF t
  <2>1. archive \in Seq(ReturnedTrials)
    BY DEF IInv, Archived
  <2>2. archive' \in Seq(ReturnedTrials) /\ Len(archive') = Len(archive) + 1
    BY <1>1, <1>3, <2>1
  <2>3. ASSUME NEW i \in DOMAIN archive'
        PROVE  EndsWell(archive'[i].adapter, archive'[i].contract, archive'[i].evidence,
                        archive'[i].verdict, archive'[i].oracle, archive'[i].seen)
    <3>1. i \in 1..(Len(archive) + 1)
      BY <2>2, <2>3
    <3>2. CASE i \in 1..Len(archive)
      <4>1. archive'[i] = archive[i] /\ i \in DOMAIN archive
        BY <1>1, <2>1, <3>2
      <4> QED
        BY <4>1 DEF IInv, Archived
    <3>3. CASE i = Len(archive) + 1
      <4>1. archive'[i] = t
        BY <1>1, <2>1, <3>3
      <4> QED
        BY <4>1, <1>2
    <3> QED
      BY <3>1, <3>2, <3>3
  <2> QED
    BY <2>2, <2>3 DEF Archived
<1>5. Typed'
  BY DEF Return, IInv, Typed, Stages, NothingSeen, History
<1>6. TaskTyped'
  BY DEF Return, TaskTyped, NoTask
<1>7. Established'
  BY DEF Return, Established, NothingSeen, Unchecked, Executed, Gathered, Unblocked,
         AuthorityAccepted, ClosureVerified, OraclesRun, SemanticVerified, Judging
<1>8. Returning'
  BY DEF Return, Returning
<1> QED
  BY <1>4, <1>5, <1>6, <1>7, <1>8 DEF IInv

LEMMA StutterStep == IInv /\ UNCHANGED vars => IInv'
<1> SUFFICES ASSUME IInv, UNCHANGED vars PROVE IInv'
  OBVIOUS
<1>1. Typed'
  BY DEF IInv, vars, Typed
<1>2. TaskTyped' /\ Established' /\ Returning' /\ Archived'
  BY DEF IInv, vars, TaskTyped, Established, Returning, Archived
<1> QED
  BY <1>1, <1>2 DEF IInv

LEMMA NextIInv == IInv /\ [Next]_vars => IInv'
<1>1. IInv /\ Runner => IInv'
  <2>1. IInv /\ Escape => IInv'
    BY AbandonStep DEF Escape
  <2> QED
    BY <2>1, CallStep, AdapterReturnsStep, AdapterTimesOutStep, ConformStep, CheckBlockingStep,
       CheckAuthorityStep, VerifyClosureStep, GradeStep, VerifySemanticStep, DecideStep,
       CheckJudgeStep, CallJudgeStep, JudgeReturnsStep, JudgeTimesOutStep, ReceiptStep, ReturnStep
       DEF Runner
<1> QED
  BY <1>1, EnvironmentStep, StutterStep DEF Next

\* The inductive invariant of the runner.
LEMMA RunnerInvariant == Spec => []IInv
BY InitIInv, NextIInv, PTL DEF Spec

-----------------------------------------------------------------------------
(* What follows from it                                                    *)

LEMMA ArchivedTrialEndsWell ==
  ASSUME IInv, NEW t \in ArchivedTrials
  PROVE  t \in ReturnedTrials /\ EndsWell(t.adapter, t.contract, t.evidence, t.verdict, t.oracle, t.seen)
<1>1. PICK i \in DOMAIN archive : t = archive[i]
  BY DEF ArchivedTrials
<1>2. archive \in Seq(ReturnedTrials) /\ i \in 1..Len(archive)
  BY DEF IInv, Archived
<1> QED
  BY <1>1, <1>2 DEF IInv, Archived

\* The runner's variables keep their types, and so does every returned trial: the value of
\* an awaited call, which the runner does not control, is used only after it was checked.
THEOREM TypeCorrect == Spec => []TypeOK
<1>1. IInv => TypeOK
  <2> SUFFICES ASSUME IInv PROVE TypeOK
    OBVIOUS
  <2>1. \A t \in ArchivedTrials : t.evidence \in Evidence /\ t.verdict \in Verdicts
    BY ArchivedTrialEndsWell DEF ReturnedTrials
  <2> QED
    BY <2>1 DEF IInv, Typed, TaskTyped, TrialArguments, TypeOK
<1> QED
  BY <1>1, RunnerInvariant, PTL

\* No verdict but BLOCKED is given to a trial whose deadline passed while a check was still
\* ahead: the adapter's, the evaluator's and the judge's time are all covered.
THEOREM VerdictsAreTimely == Spec => []TimelyVerdict
<1>1. IInv => TimelyVerdict
  BY ArchivedTrialEndsWell DEF TimelyVerdict, Graded, EndsWell, BlockedWell, GradedWell
<1> QED
  BY <1>1, RunnerInvariant, PTL

\* A graded trial was executed, observed and graded under the contract it was submitted
\* with, whatever its caller and its adapter do to the objects they hold.
THEOREM ContractIsPinned == Spec => []OneContract
<1>1. IInv => OneContract
  BY ArchivedTrialEndsWell DEF OneContract, Graded, EndsWell, BlockedWell, GradedWell
<1> QED
  BY <1>1, RunnerInvariant, PTL

\* The judge is asked only about trials the oracles pass, and no judgment rescues another.
THEOREM DeterministicDominates == Spec => []JudgeSubordinate
<1>1. ASSUME IInv, NEW t \in ArchivedTrials
      PROVE  /\ t.seen.judged => t.evidence.merit = "passing"
             /\ t.verdict \in {"PASS", "INCONCLUSIVE"} => t.evidence.merit = "passing"
  <2>1. EndsWell(t.adapter, t.contract, t.evidence, t.verdict, t.oracle, t.seen)
    BY <1>1, ArchivedTrialEndsWell
  <2>2. t.evidence.merit \in Merits
    BY <2>1 DEF EndsWell, Evidence
  <2> QED
    BY <2>1, <2>2 DEF EndsWell, BlockedWell, GradedWell, Audited, Merits
<1>2. IInv => JudgeSubordinate
  BY <1>1 DEF JudgeSubordinate
<1> QED
  BY <1>2, RunnerInvariant, PTL

\* The evidence of a returned trial alone gives its verdict, and says why if it is BLOCKED.
THEOREM EvidenceDecides == Spec => []EvidenceExplainsVerdict
<1>1. IInv => EvidenceExplainsVerdict
  BY ArchivedTrialEndsWell
     DEF EvidenceExplainsVerdict, EndsWell, BlockedWell, GradedWell, Audited, Decisions
<1> QED
  BY <1>1, RunnerInvariant, PTL

\* A live trial is graded only on evidence its exact adapter type may produce.
THEOREM ProducersAreExact == Spec => []LiveAuthority
<1>1. IInv => LiveAuthority
  BY ArchivedTrialEndsWell DEF LiveAuthority, Graded, EndsWell, BlockedWell, GradedWell
<1> QED
  BY <1>1, RunnerInvariant, PTL

-----------------------------------------------------------------------------
(* Replaying the evidence of a returned trial reproduces its verdict.      *)

\* What a replay that is about to return must have found, where original is the replayed trial.
Reproduced(c, e, v, late, original) ==
  IF c = original.evidence.contract /\ ~ late THEN v = original.verdict /\ e = original.evidence
                                              ELSE v = "BLOCKED"

Replaying == pc # "idle" /\ trial.from # 0

\* A replay carries the replayed evidence unchanged up to its verdict; since that evidence
\* decides the original verdict, no stage objects to it that did not object before, and the
\* judge is never reached.
ReplayRun ==
  Replaying =>
    /\ trial.adapter = "replay"
    /\ trial.from \in DOMAIN archive
    /\ trial.source = archive[trial.from].evidence
    /\ pc \notin Judging
    /\ pc \notin Unchecked => (expired => seen.late)
    /\ pc \in {"adapter", "conform"} /\ task.state = "answered" => task.value = trial.source
    /\ pc \in {"adapter", "conform"} /\ task.state \in Failures =>
         trial.contract # trial.source.contract
    /\ pc \in Gathered => evidence = trial.source
    /\ pc = "return" =>
         Reproduced(trial.contract, evidence, verdict, seen.late, archive[trial.from])

ArchivedReplays ==
  \A i \in DOMAIN archive : archive[i].from # 0 =>
    /\ archive[i].from \in 1..(i - 1)
    /\ Reproduced(archive[i].contract, archive[i].evidence, archive[i].verdict,
                  archive[i].seen.late, archive[archive[i].from])

ReplayInv == ReplayRun /\ ArchivedReplays

LEMMA InitReplayInv == Init => ReplayInv
BY DEF Init, ReplayInv, ReplayRun, Replaying, ArchivedReplays

\* The replayed trial: its verdict is the one its evidence gives, or it names its error.
LEMMA SourceFacts ==
  ASSUME IInv, ReplayInv, Replaying
  PROVE  LET original == archive[trial.from]
         IN /\ trial.source = original.evidence
            /\ trial.source \in Evidence
            /\ \/ original.verdict = "BLOCKED" /\ trial.source.errors # {}
               \/ /\ original.verdict # "BLOCKED"
                  /\ original.verdict = Audited(trial.source.contract, trial.source)
<1>1. trial.from \in DOMAIN archive /\ trial.source = archive[trial.from].evidence
  BY DEF ReplayInv, ReplayRun
<1>2. archive[trial.from] \in ArchivedTrials
  BY <1>1 DEF ArchivedTrials
<1> QED
  BY <1>1, <1>2, ArchivedTrialEndsWell DEF EndsWell, BlockedWell, GradedWell, Decisions

LEMMA ReplayEnvironment ==
  IInv /\ ReplayInv /\ (Adapter \/ Judge \/ Caller \/ Expire) => ReplayInv'
<1> SUFFICES ASSUME IInv, ReplayInv, Adapter \/ Judge \/ Caller \/ Expire PROVE ReplayInv'
  OBVIOUS
<1>0. ArchivedReplays'
  BY DEF ReplayInv, ArchivedReplays, Adapter, Judge, Caller, Expire, SubmitLive, SubmitForeign,
     SubmitReplay, Submit, CallerEdits, CallerCancels, Abandon, AdapterAnswers, AdapterFails,
     RejectedAdapterFails, ReplayAnswers, AdapterMutates, JudgeAnswers, JudgeFails, TaskEnds
<1>1. CASE SubmitLive \/ SubmitForeign
  BY <1>0, <1>1 DEF SubmitLive, SubmitForeign, Submit, ReplayInv, ReplayRun, Replaying
<1>2. CASE SubmitReplay
  <2>1. PICK i \in DOMAIN archive, d \in BOOLEAN : Submit("replay", d, i, archive[i].evidence)
    BY <1>2 DEF SubmitReplay
  <2>2. /\ pc' = "call" /\ UNCHANGED <<archive, expired, seen>> /\ ~ expired
        /\ trial'.adapter = "replay" /\ trial'.from = i /\ trial'.source = archive[i].evidence
    BY <2>1 DEF Submit, IInv, Typed
  <2> QED
    BY <1>0, <2>2 DEF ReplayInv, ReplayRun, Judging, Unchecked, Gathered, Unblocked,
       AuthorityAccepted, ClosureVerified, OraclesRun, SemanticVerified
<1>3. CASE CallerEdits \/ CallerCancels
  BY <1>0, <1>3 DEF CallerEdits, CallerCancels, Abandon, ReplayInv, ReplayRun, Replaying
<1>4. CASE Expire
  <2>1. seen'.late = (pc \notin Unchecked)
    BY <1>4 DEF Expire, IInv, Typed, History
  <2>2. ~ seen.late
    BY <1>4 DEF Expire, IInv, Established
  <2>3. pc \in Unchecked => seen'.late = seen.late
    BY <2>1, <2>2 DEF IInv, Typed, History
  <2>4. UNCHANGED <<pc, trial, task, evidence, verdict, archive>>
    BY <1>4 DEF Expire
  <2>5. CASE pc = "return"
    BY <1>0, <2>3, <2>4, <2>5 DEF ReplayInv, ReplayRun, Replaying, Unchecked
  <2>6. CASE pc # "return"
    BY <1>0, <2>1, <2>4, <2>6 DEF ReplayInv, ReplayRun, Replaying
  <2> QED
    BY <2>5, <2>6
<1>5. CASE AdapterAnswers \/ AdapterFails \/ RejectedAdapterFails \/ AdapterMutates
  <2>1. trial.adapter # "replay"
    BY <1>5, OwnsAssumption DEF AdapterAnswers, AdapterFails, RejectedAdapterFails, AdapterMutates
  <2>2. UNCHANGED <<pc, trial>>
    BY <1>5 DEF AdapterAnswers, AdapterFails, RejectedAdapterFails, AdapterMutates, TaskEnds
  <2> QED
    BY <1>0, <2>1, <2>2 DEF ReplayInv, ReplayRun, Replaying
<1>6. CASE ReplayAnswers
  <2> DEFINE t == IF exec = trial.source.contract THEN Answered(trial.source)
                                                  ELSE Failed("precondition")
  <2>1. /\ pc = "adapter" /\ trial.adapter = "replay" /\ task' = t
        /\ UNCHANGED <<pc, trial, expired, seen, evidence, verdict, archive>>
    BY <1>6 DEF ReplayAnswers, AdapterPending, TaskEnds
  <2>2. exec = trial.contract
    BY <2>1, OwnsAssumption DEF IInv, Typed
  <2>3. /\ t.state = "answered" => t.value = trial.source
        /\ t.state \in Failures => trial.contract # trial.source.contract
    BY <2>2 DEF Answered, Failed, Failures
  <2> QED
    BY <1>0, <2>1, <2>3 DEF ReplayInv, ReplayRun, Replaying
<1>7. CASE Judge
  <2>1. /\ pc = "judge" /\ UNCHANGED <<pc, trial>>
    BY <1>7 DEF Judge, JudgeAnswers, JudgeFails, JudgePending, TaskEnds
  <2> QED
    BY <1>0, <2>1 DEF ReplayInv, ReplayRun, Replaying, Judging
<1> QED
  BY <1>1, <1>2, <1>3, <1>4, <1>5, <1>6, <1>7 DEF Adapter, Caller

-----------------------------------------------------------------------------
(* The runner                                                              *)

\* A replay that is blocked late, or blocked by the error its evidence already holds.
LEMMA ReplayBlocked ==
  ASSUME IInv, ReplayInv, Kept, NEW e, Block(e),
         Replaying => \/ seen.late
                      \/ trial.contract # trial.source.contract
                      \/ e = trial.source /\ e.errors # {}
  PROVE  ReplayInv'
<1>1. /\ pc' = "return" /\ evidence' = e /\ verdict' = "BLOCKED"
      /\ UNCHANGED <<trial, expired, archive, seen>>
  BY DEF Block, Kept
<1>2. ArchivedReplays'
  BY <1>1 DEF ReplayInv, ArchivedReplays
<1>3. ASSUME Replaying' PROVE Reproduced(trial.contract, e, "BLOCKED", seen.late, archive[trial.from])
  <2>1. CASE pc # "idle"
    <3>1. Replaying
      BY <1>1, <1>3, <2>1 DEF Replaying
    <3> QED
      BY <3>1, SourceFacts DEF Reproduced, Audited
  <2>2. CASE pc = "idle"
    BY <1>1, <1>3, <2>2 DEF IInv, Typed, Replaying, NoTrial
  <2> QED
    BY <2>1, <2>2
<1>4. ReplayRun'
  <2>1. pc # "idle" \/ ~ Replaying'
    BY <1>1 DEF IInv, Typed, Replaying, NoTrial
  <2> QED
    BY <1>1, <1>3, <2>1 DEF ReplayInv, ReplayRun, Replaying, Judging, Unchecked, Gathered,
       Unblocked, AuthorityAccepted, ClosureVerified, OraclesRun, SemanticVerified
<1> QED
  BY <1>2, <1>4 DEF ReplayInv

\* A replay goes on to the next stage with the evidence it replays.
LEMMA ReplayProceeds ==
  ASSUME IInv, ReplayInv, Kept, NEW next \in Gathered \ (Judging \cup {"decide", "blocking"}),
         pc \in Gathered, pc' = next, evidence' = evidence, seen'.late = seen.late,
         pc # "decide"
  PROVE  ReplayInv'
<1>1. UNCHANGED <<trial, expired, archive>>
  BY DEF Kept
<1> QED
  BY <1>1 DEF ReplayInv, ReplayRun, Replaying, ArchivedReplays, Unchecked, Gathered,
     Unblocked, AuthorityAccepted, ClosureVerified, OraclesRun, SemanticVerified, Judging

LEMMA ReplayAdapterSteps ==
  IInv /\ ReplayInv /\ (Call \/ Escape \/ AdapterReturns \/ AdapterTimesOut \/ Conform) => ReplayInv'
<1> SUFFICES ASSUME IInv, ReplayInv,
                    Call \/ Escape \/ AdapterReturns \/ AdapterTimesOut \/ Conform
             PROVE  ReplayInv'
  OBVIOUS
<1>0. Replaying /\ pc \in {"call", "adapter", "conform"} => (expired => seen.late)
  BY DEF ReplayInv, ReplayRun, Unchecked
<1>1. CASE Escape
  BY <1>1 DEF Escape, Abandon, ReplayInv, ReplayRun, Replaying, ArchivedReplays
<1>2. CASE (Call \/ AdapterTimesOut) /\ expired
  <2>1. Block(ErrorEvidence(trial.contract, "deadline")) /\ Kept /\ pc \in {"call", "adapter"}
    BY <1>2 DEF Call, AdapterTimesOut, AdapterPending, DeadlineBlocked, Kept
  <2> QED
    BY <1>0, <1>2, <2>1, ReplayBlocked
<1>3. CASE Call /\ ~ expired
  <2>1. /\ pc = "call" /\ pc' = "adapter" /\ task' = Pending
        /\ UNCHANGED <<trial, expired, archive, seen>>
    BY <1>3 DEF Call, Proceed, Goto
  <2> QED
    BY <2>1 DEF ReplayInv, ReplayRun, Replaying, ArchivedReplays, Pending, Failures, Unchecked,
       Gathered, Unblocked, AuthorityAccepted, ClosureVerified, OraclesRun, SemanticVerified,
       Judging
<1>4. CASE AdapterReturns
  <2>0. pc = "adapter" /\ Kept /\ task' = task
    BY <1>4 DEF AdapterReturns, Kept
  <2>1. Replaying => ~ Drifted
    <3>1. Replaying => trial.adapter = "replay"
      BY DEF ReplayInv, ReplayRun
    <3> QED
      BY <3>1, OwnsAssumption DEF IInv, Typed, Replaying, Drifted
  <2>2. CASE expired
    <3>1. Block(ErrorEvidence(trial.contract, "deadline"))
      BY <1>4, <2>2 DEF AdapterReturns, DeadlineBlocked
    <3> QED
      BY <1>0, <2>0, <2>2, <3>1, ReplayBlocked
  <2>3. CASE ~ expired /\ Drifted
    <3>1. Block(ErrorEvidence(trial.contract, "drift"))
      BY <1>4, <2>3 DEF AdapterReturns
    <3> QED
      BY <2>0, <2>1, <2>3, <3>1, ReplayBlocked
  <2>4. CASE ~ expired /\ ~ Drifted /\ task.state \in {"precondition", "exception"}
    <3>1. Block(ErrorEvidence(trial.contract, task.state))
      BY <1>4, <2>4 DEF AdapterReturns
    <3>2. Replaying => trial.contract # trial.source.contract
      BY <2>0, <2>4 DEF ReplayInv, ReplayRun, Failures
    <3> QED
      BY <2>0, <3>1, <3>2, ReplayBlocked
  <2>5. CASE ~ expired /\ ~ Drifted /\ task.state \notin {"precondition", "exception"}
    <3>1. pc' = "conform" /\ seen' = [seen EXCEPT !.executed = exec]
      BY <1>4, <2>5 DEF AdapterReturns, Accept, Goto
    <3>2. seen'.late = seen.late
      BY <3>1 DEF IInv, Typed, History
    <3>3. UNCHANGED <<trial, expired, archive, task>>
      BY <2>0 DEF Kept
    <3> QED
      BY <2>0, <3>1, <3>2, <3>3 DEF ReplayInv, ReplayRun, Replaying, ArchivedReplays, Unchecked,
         Gathered, Unblocked, AuthorityAccepted, ClosureVerified, OraclesRun, SemanticVerified,
         Judging
  <2> QED
    BY <2>2, <2>3, <2>4, <2>5
<1>5. CASE Conform
  <2>0. pc = "conform" /\ Kept
    BY <1>5 DEF Conform, Kept
  <2>1. CASE task.state \in {"nonconforming", "malformed"}
    <3>1. PICK e \in Evidence : Block(e)
      BY <1>5, <2>0, <2>1, ErrorEvidenceFacts
         DEF Conform, DeadlineBlocked, IInv, Typed, TrialArguments, ErrorCodes, AppendedErrors
    <3>2. Replaying => trial.contract # trial.source.contract
      BY <2>0, <2>1 DEF ReplayInv, ReplayRun, Failures
    <3> QED
      BY <2>0, <3>1, <3>2, ReplayBlocked
  <2>2. CASE task.state = "answered" /\ expired
    <3>1. Block(WithError(task.value, "deadline"))
      BY <1>5, <2>2 DEF Conform, DeadlineBlockedWith
    <3> QED
      BY <1>0, <2>0, <2>2, <3>1, ReplayBlocked
  <2>3. CASE task.state = "answered" /\ ~ expired
    <3>1. /\ pc' = "blocking" /\ evidence' = task.value
          /\ UNCHANGED <<trial, expired, archive, seen>>
      BY <1>5, <2>0, <2>3 DEF Conform, Goto, Kept
    <3> QED
      BY <2>0, <2>3, <3>1 DEF ReplayInv, ReplayRun, Replaying, ArchivedReplays, Unchecked,
         Gathered, Unblocked, AuthorityAccepted, ClosureVerified, OraclesRun, SemanticVerified,
         Judging
  <2> QED
    BY <1>5, <2>1, <2>2, <2>3 DEF Conform
<1> QED
  BY <1>1, <1>2, <1>3, <1>4, <1>5 DEF AdapterTimesOut

\* No stage between the adapter and the verdict objects to evidence it let through before.
LEMMA ReplayGradingSteps ==
  IInv /\ ReplayInv /\ (CheckBlocking \/ CheckAuthority \/ VerifyClosure \/ Grade \/ VerifySemantic)
    => ReplayInv'
<1> SUFFICES ASSUME IInv, ReplayInv,
                    CheckBlocking \/ CheckAuthority \/ VerifyClosure \/ Grade \/ VerifySemantic
             PROVE  ReplayInv'
  OBVIOUS
<1>0. /\ pc \in {"blocking", "authority", "closure", "grade", "semantic"}
      /\ Kept /\ task' = task
  BY DEF CheckBlocking, CheckAuthority, VerifyClosure, Grade, VerifySemantic, Stage, Kept
<1>1. pc \in Gathered /\ pc \notin Unchecked /\ pc # "idle"
  BY <1>0 DEF Unchecked, Gathered, Unblocked, AuthorityAccepted, ClosureVerified, OraclesRun
<1>2. Replaying =>
        /\ trial.adapter = "replay"
        /\ evidence = trial.source
        /\ evidence.contract = trial.contract
        /\ expired => seen.late
        /\ evidence.errors # {} \/ Audited(trial.contract, evidence) # "BLOCKED"
  BY <1>1, SourceFacts DEF ReplayInv, ReplayRun, IInv, Established
<1>3. CASE expired
  <2>1. DeadlineBlockedWith(evidence)
    BY <1>3 DEF CheckBlocking, CheckAuthority, VerifyClosure, Grade, VerifySemantic, Stage
  <2>2. Block(WithError(evidence, "deadline"))
    BY <2>1 DEF DeadlineBlockedWith
  <2> QED
    BY <1>0, <1>2, <1>3, <2>2, ReplayBlocked
<1>4. CASE ~ expired /\ CheckBlocking
  <2>1. CASE Blocking(evidence)
    BY <1>0, <1>2, <1>4, <2>1, ReplayBlocked DEF CheckBlocking, Stage, Blocking
  <2>2. CASE ~ Blocking(evidence)
    <3>1. pc' = "authority" /\ evidence' = evidence /\ seen' = seen
      BY <1>4, <2>2 DEF CheckBlocking, Stage, Proceed, Goto
    <3>2. "authority" \in Gathered \ (Judging \cup {"decide", "blocking"})
      BY DEF Gathered, Unblocked, Judging
    <3> QED
      BY <1>0, <1>1, <3>1, <3>2, ReplayProceeds
  <2> QED
    BY <2>1, <2>2
<1>5. CASE ~ expired /\ CheckAuthority
  <2>1. CASE AuthorityViolation(trial.adapter, evidence)
    <3>1. ~ Replaying
      BY <1>2, <2>1 DEF AuthorityViolation
    <3>2. Block(WithError(evidence, "authority"))
      BY <1>5, <2>1 DEF CheckAuthority, Stage
    <3> QED
      BY <1>0, <3>1, <3>2, ReplayBlocked
  <2>2. CASE ~ AuthorityViolation(trial.adapter, evidence)
    <3>1. pc' = "closure" /\ evidence' = evidence /\ seen' = [seen EXCEPT !.accepted = TRUE]
      BY <1>5, <2>2 DEF CheckAuthority, Stage, Goto
    <3>2. "closure" \in Gathered \ (Judging \cup {"decide", "blocking"})
      BY DEF Gathered, Unblocked, AuthorityAccepted, Judging
    <3>3. seen'.late = seen.late
      BY <3>1 DEF IInv, Typed, History
    <3> QED
      BY <1>0, <1>1, <3>1, <3>2, <3>3, ReplayProceeds
  <2> QED
    BY <2>1, <2>2
<1>6. CASE ~ expired /\ VerifyClosure
  <2>0. evidence.errors = {}
    BY <1>6 DEF VerifyClosure, Stage, IInv, Established, Unblocked, AuthorityAccepted
  <2>1. CASE evidence.merit = "unclosed"
    <3>1. ~ Replaying
      BY <1>2, <2>0, <2>1 DEF Audited
    <3>2. Block(WithError(evidence, "closure"))
      BY <1>6, <2>1 DEF VerifyClosure, Stage
    <3> QED
      BY <1>0, <3>1, <3>2, ReplayBlocked
  <2>2. CASE evidence.merit # "unclosed"
    <3>1. pc' = "grade" /\ evidence' = evidence /\ seen' = seen
      BY <1>6, <2>2 DEF VerifyClosure, Stage, Proceed, Goto
    <3>2. "grade" \in Gathered \ (Judging \cup {"decide", "blocking"})
      BY DEF Gathered, Unblocked, AuthorityAccepted, ClosureVerified, Judging
    <3> QED
      BY <1>0, <1>1, <3>1, <3>2, ReplayProceeds
  <2> QED
    BY <2>1, <2>2
<1>7. CASE ~ expired /\ Grade
  <2>1. /\ pc' = "semantic" /\ evidence' = evidence
        /\ seen' = [seen EXCEPT !.graded = trial.contract]
    BY <1>7 DEF Grade, Stage
  <2>2. "semantic" \in Gathered \ (Judging \cup {"decide", "blocking"})
    BY DEF Gathered, Unblocked, AuthorityAccepted, ClosureVerified, OraclesRun, Judging
  <2>3. seen'.late = seen.late
    BY <2>1 DEF IInv, Typed, History
  <2> QED
    BY <1>0, <1>1, <2>1, <2>2, <2>3, ReplayProceeds
<1>8. CASE ~ expired /\ VerifySemantic
  <2>0. evidence.errors = {} /\ pc = "semantic"
    BY <1>8 DEF VerifySemantic, Stage, IInv, Established, Unblocked, AuthorityAccepted,
       ClosureVerified, OraclesRun
  <2>1. CASE SemanticUnverified(trial.contract, evidence)
    <3>1. ~ Replaying
      BY <1>2, <2>0, <2>1 DEF Audited
    <3>2. Block(WithError(evidence, "semantic_unverified"))
      BY <1>8, <2>1 DEF VerifySemantic, Stage
    <3> QED
      BY <1>0, <3>1, <3>2, ReplayBlocked
  <2>2. CASE ~ SemanticUnverified(trial.contract, evidence)
    <3>1. pc' = "decide" /\ UNCHANGED <<evidence, seen, trial, expired, archive>>
      BY <1>0, <1>8, <2>2 DEF VerifySemantic, Stage, Proceed, Goto, Kept
    <3> QED
      BY <2>0, <3>1, <1>1 DEF ReplayInv, ReplayRun, Replaying, ArchivedReplays, Judging, Unchecked
  <2> QED
    BY <2>1, <2>2
<1> QED
  BY <1>3, <1>4, <1>5, <1>6, <1>7, <1>8

LEMMA ReplayDecideStep == IInv /\ ReplayInv /\ Decide => ReplayInv'
<1> SUFFICES ASSUME IInv, ReplayInv, Decide PROVE ReplayInv'
  OBVIOUS
<1>0. /\ pc = "decide" /\ pc \in Gathered /\ Kept
      /\ UNCHANGED <<trial, expired, archive, seen>>
  BY DEF Decide, DecideFailed, DecidePlain, DecideRecorded, DecideUnjudged, Block, Decided,
     Proceed, Goto, Kept, Gathered, Unblocked, AuthorityAccepted, ClosureVerified, OraclesRun,
     SemanticVerified
<1>1. ArchivedReplays'
  BY <1>0 DEF ReplayInv, ArchivedReplays
<1>2. CASE ~ Replaying
  BY <1>0, <1>1, <1>2 DEF ReplayInv, ReplayRun, Replaying
<1>3. CASE Replaying
  <2>1. /\ evidence = trial.source /\ evidence.contract = trial.contract
        /\ evidence.errors = {} /\ evidence.merit # "unclosed" /\ oracle = evidence.merit
        /\ ~ SemanticUnverified(trial.contract, evidence)
        /\ ~ seen.late
    BY <1>0, <1>3 DEF IInv, Established, ReplayInv, ReplayRun, Unblocked, AuthorityAccepted,
       ClosureVerified, OraclesRun, SemanticVerified
  <2>2. /\ archive[trial.from].verdict = Audited(trial.contract, evidence)
        /\ archive[trial.from].verdict # "BLOCKED"
        /\ archive[trial.from].evidence = evidence
    BY <1>3, <2>1, SourceFacts
  <2>3. Decided(evidence, Audited(trial.contract, evidence))
    BY <1>0, <2>1, <2>2
       DEF Decide, DecideFailed, DecidePlain, DecideRecorded, DecideUnjudged, Audited
  <2>4. /\ pc' = "return" /\ evidence' = evidence
        /\ verdict' = archive[trial.from].verdict
    BY <2>2, <2>3 DEF Decided
  <2> QED
    BY <1>0, <1>1, <2>1, <2>2, <2>4
       DEF ReplayInv, ReplayRun, Replaying, Reproduced, Judging, Unchecked, Gathered, Unblocked,
           AuthorityAccepted, ClosureVerified, OraclesRun, SemanticVerified
<1> QED
  BY <1>2, <1>3

\* The judge is not for replays, and the steps that lead to it keep the trial's arguments.
LEMMA ReplayJudgeSteps ==
  ReplayInv /\ (CheckJudge \/ CallJudge \/ JudgeReturns \/ JudgeTimesOut \/ Receipt) => ReplayInv'
<1> SUFFICES ASSUME ReplayInv, CheckJudge \/ CallJudge \/ JudgeReturns \/ JudgeTimesOut \/ Receipt
             PROVE  ReplayInv'
  OBVIOUS
<1>1. pc \in Judging /\ pc # "idle" /\ UNCHANGED <<trial, archive>>
  BY DEF CheckJudge, CallJudge, JudgeReturns, JudgeTimesOut, JudgePending, Receipt, Stage, Judging
<1> QED
  BY <1>1 DEF ReplayInv, ReplayRun, Replaying, ArchivedReplays

LEMMA ReplayReturnStep == IInv /\ ReplayInv /\ Return => ReplayInv'
<1> SUFFICES ASSUME IInv, ReplayInv, Return PROVE ReplayInv'
  OBVIOUS
<1> DEFINE t == [adapter |-> trial.adapter, from |-> trial.from, contract |-> trial.contract,
                 evidence |-> evidence, oracle |-> oracle, verdict |-> verdict,
                 capabilities |-> Capabilities(trial.adapter, evidence), seen |-> seen]
<1>1. archive' = Append(archive, t) /\ pc = "return" /\ pc' = "idle"
  BY DEF Return
<1>2. t.from # 0 => /\ t.from \in 1..Len(archive)
                    /\ Reproduced(t.contract, t.evidence, t.verdict, t.seen.late, archive[t.from])
  BY <1>1 DEF ReplayInv, ReplayRun, Replaying, IInv, Archived
<1> HIDE DEF t
<1>3. archive \in Seq(ReturnedTrials)
  BY DEF IInv, Archived
<1>4. /\ archive' \in Seq(ReturnedTrials) /\ Len(archive') = Len(archive) + 1
      /\ \A i \in 1..Len(archive) : archive'[i] = archive[i]
      /\ archive'[Len(archive) + 1] = t
  <2>1. archive' \in Seq(ReturnedTrials)
    BY ReturnStep DEF IInv, Archived
  <2> QED
    BY <1>1, <1>3, <2>1
<1>5. ASSUME NEW i \in DOMAIN archive', archive'[i].from # 0
      PROVE  /\ archive'[i].from \in 1..(i - 1)
             /\ Reproduced(archive'[i].contract, archive'[i].evidence, archive'[i].verdict,
                           archive'[i].seen.late, archive'[archive'[i].from])
  <2>1. i \in 1..(Len(archive) + 1)
    BY <1>4, <1>5
  <2>2. CASE i \in 1..Len(archive)
    <3>1. i \in DOMAIN archive /\ archive'[i] = archive[i]
      BY <1>3, <1>4, <2>2
    <3>2. /\ archive[i].from \in 1..(i - 1)
          /\ Reproduced(archive[i].contract, archive[i].evidence, archive[i].verdict,
                        archive[i].seen.late, archive[archive[i].from])
      BY <1>5, <3>1 DEF ReplayInv, ArchivedReplays
    <3>3. archive'[archive[i].from] = archive[archive[i].from]
      BY <1>3, <1>4, <2>2, <3>2
    <3> QED
      BY <3>1, <3>2, <3>3
  <2>3. CASE i = Len(archive) + 1
    <3>1. archive'[i] = t /\ t.from \in 1..Len(archive)
      BY <1>2, <1>4, <1>5, <2>3
    <3>2. archive'[t.from] = archive[t.from]
      BY <1>4, <3>1
    <3> QED
      BY <1>2, <1>3, <1>5, <2>3, <3>1, <3>2
  <2> QED
    BY <2>1, <2>2, <2>3
<1>6. ArchivedReplays'
  BY <1>5 DEF ArchivedReplays
<1> QED
  BY <1>1, <1>6 DEF ReplayInv, ReplayRun, Replaying

LEMMA NextReplayInv == IInv /\ ReplayInv /\ [Next]_vars => ReplayInv'
<1>1. IInv /\ ReplayInv /\ Runner => ReplayInv'
  BY ReplayAdapterSteps, ReplayGradingSteps, ReplayDecideStep, ReplayJudgeSteps, ReplayReturnStep
     DEF Runner
<1>2. ReplayInv /\ UNCHANGED vars => ReplayInv'
  BY DEF vars, ReplayInv, ReplayRun, Replaying, ArchivedReplays
<1> QED
  BY <1>1, <1>2, ReplayEnvironment DEF Next

\* A replay in time under the recorded contract gives the recorded verdict on the recorded
\* evidence, and any other replay gives BLOCKED: no replay turns uncertainty into a verdict,
\* through any chain of replays, judges and deadlines.
THEOREM ReplayReproduces == Spec => []ReplayStable
<1>1. IInv /\ ReplayInv => ReplayStable
  <2> SUFFICES ASSUME IInv, ReplayInv, NEW i \in DOMAIN archive, archive[i].from # 0
               PROVE  Reproduced(archive[i].contract, archive[i].evidence, archive[i].verdict,
                                 archive[i].seen.late, archive[archive[i].from])
    BY DEF ReplayStable, Reproduced, ArchivedTrials
  <2> QED
    BY DEF ReplayInv, ArchivedReplays
<1>2. Spec => [](IInv /\ ReplayInv)
  BY InitReplayInv, NextReplayInv, InitIInv, NextIInv, PTL DEF Spec
<1> QED
  BY <1>1, <1>2, PTL

-----------------------------------------------------------------------------
(* The session: the types                                                     *)

AtControl == {"reset", "prepare"}
Working == {"next", "reset", "prepare", "begin", "attempt"}
Reliabilities == [TrialVerdicts -> Nat]
Beginnings == [resets : Seq(ResetReceipts), prepared : Seq(SeedReceipts),
               running : SUBSET Attempts]
Results == [campaign : 1 .. MaxRuns, plan : Plans, trials : Seq(Trials),
            resets : Seq(ResetReceipts), prepared : Seq(SeedReceipts),
            reliability : Reliabilities]
QualifiedMetrics == [status : Statuses, randomness : Randomness, planned : 1 .. MaxTrials,
                     reliability : Reliabilities]

SessionTypes ==
  /\ stage \in Ended \cup Working
  /\ run \in 0 .. MaxRuns
  /\ request \in Plans \cup {NoPlan}
  /\ sample \in Seq(Trials)
  /\ resets \in Seq(ResetReceipts)
  /\ prepared \in Seq(SeedReceipts)
  /\ running \subseteq Attempts
  /\ altered \subseteq Attempts
  /\ result \in Results \cup {NoResult}
  /\ issued \in QualifiedMetrics \cup {NoMetrics}
  /\ begun \in Seq(Beginnings)

-----------------------------------------------------------------------------
(* The inductive invariant                                                    *)

\* The loop is inside a plan that was accepted, and within its horizon.
Horizon ==
  /\ stage \in Working \cup {"returned"} => request \in Plans /\ run \in 1 .. MaxRuns
  /\ stage \in Working => Len(sample) <= request.trials
  /\ stage \in Working \ {"next"} => Index <= request.trials
  /\ stage = "reset" => NeedsReset
  /\ stage = "prepare" => NeedsSeed
  /\ stage = "idle" => sample = << >>

\* The sample holds the attempts of this run in their order, and what was altered is in it.
Sampled ==
  /\ \A i \in 1 .. Len(sample) : sample[i].attempt = <<run, i>>
  /\ \A a \in altered : \E i \in 1 .. Len(sample) : a = sample[i].attempt

\* Each attempt that was begun has returned, but for the one that is under way.
Counted ==
  stage # "raised" => Len(begun) = Len(sample) + (IF stage = "attempt" THEN 1 ELSE 0)

\* Receipts the controls have given when run() stands at a stage.
ResetsDue ==
  IF stage \in {"prepare", "begin", "attempt"} \/ sample = << >> THEN Len(sample)
  ELSE Len(sample) - 1
SeedsDue == IF stage \in {"begin", "attempt"} THEN Index ELSE Len(sample)

ResetsGiven ==
  /\ Len(resets) = IF request.status = "verified" THEN ResetsDue ELSE 0
  /\ \A j \in 1 .. Len(resets) : resets[j] = ResetReceipt(run, j + 1, <<run, j>>)
SeedsGiven ==
  /\ Len(prepared) = IF request.randomness = "evaluator_controlled" THEN SeedsDue ELSE 0
  /\ \A j \in 1 .. Len(prepared) : prepared[j].attempt = <<run, j>>
  /\ \A i, j \in 1 .. Len(prepared) : prepared[i].seed = prepared[j].seed => i = j
Prepared == stage \in Working \cup {"returned"} => ResetsGiven /\ SeedsGiven

\* The task of an attempt of this run is at work only if the attempt is under way, was cut
\* off with the session, or is in the sample as BLOCKED.
LeftOver(j) == j \in 1 .. Len(sample) /\ sample[j].verdict = "BLOCKED"
Overlap ==
  /\ \A a \in running : a[1] <= run
  /\ \A j \in 1 .. MaxTrials : <<run, j>> \in running =>
       LeftOver(j) \/ (stage \in {"attempt", "raised"} /\ j = Index)
  /\ \A i \in 1 .. Len(begun) : \A j \in 1 .. MaxTrials :
       <<run, j>> \in begun[i].running => j < i /\ LeftOver(j)

\* What was returned is what was collected, and was valid.
Returned ==
  /\ stage = "returned" => result = Collected /\ Valid(Collected, {})
  /\ stage # "returned" => result = NoResult

SessionInv ==
  /\ SessionTypes
  /\ Horizon /\ Sampled /\ Counted /\ Prepared /\ Overlap /\ Returned
  /\ AttemptsArePrepared

-----------------------------------------------------------------------------
(* The data                                                                   *)

\* Whatever run() goes along with is a plan of one attempt at least.
LEMMA AcceptedIsPlan == AcceptedPlans \subseteq Plans
<1>1. SUFFICES ASSUME NEW r \in Requests, Accepted(r)
               PROVE  Plan(r) \in Plans
  BY DEF AcceptedPlans
<1>2. r.trials \in 1 .. MaxTrials
  BY <1>1, SessionBounds DEF Requests, Accepted
<1> QED
  BY <1>1, <1>2 DEF Requests, Plan, Plans

\* The reliability of a sample is a count for each verdict.
LEMMA ReliabilityType ==
  ASSUME NEW trials \in Seq(Trials)
  PROVE  FromVerdicts(trials) \in Reliabilities
<1>1. DOMAIN trials = 1 .. Len(trials) /\ Len(trials) \in Nat
  BY LenProperties
<1>2. IsFiniteSet(DOMAIN trials)
  BY <1>1, FS_Interval
<1>3. ASSUME NEW v \in TrialVerdicts
      PROVE  Cardinality({i \in DOMAIN trials : trials[i].verdict = v}) \in Nat
  <2>1. {i \in DOMAIN trials : trials[i].verdict = v} \in SUBSET DOMAIN trials
    OBVIOUS
  <2> QED
    BY <1>2, <2>1, FS_Subset, FS_CardinalityType
<1> QED
  BY <1>3 DEF FromVerdicts, Reliabilities

\* A bounded sequence is a sequence.
LEMMA BoundedIsSeq ==
  ASSUME NEW S, NEW n \in Nat, NEW s \in BoundedSeq(S, n)
  PROVE  s \in Seq(S) /\ DOMAIN s = 1 .. Len(s) /\ Len(s) \in Nat
<1>1. PICK m \in 0 .. n : s \in [1 .. m -> S]
  BY DEF BoundedSeq, SeqOf
<1>2. s \in Seq(S)
  BY <1>1, SeqDef
<1> QED
  BY <1>2, LenProperties

\* The current attempt is one of the campaign's, within the horizon.
LEMMA CurrentIsAttempt ==
  ASSUME SessionTypes, request \in Plans, run \in 1 .. MaxRuns, Index <= request.trials
  PROVE  Current \in Attempts /\ Index \in 1 .. MaxTrials
<1>1. Len(sample) \in Nat
  BY LenProperties DEF SessionTypes
<1>2. request.trials \in 1 .. MaxTrials
  BY DEF Plans
<1> QED
  BY <1>1, <1>2, SessionBounds DEF Index, Current, Attempts, Campaigns

\* Sequences have lengths.
LEMMA Lengths ==
  ASSUME SessionTypes
  PROVE  /\ Len(sample) \in Nat /\ DOMAIN sample = 1 .. Len(sample)
         /\ Len(resets) \in Nat /\ DOMAIN resets = 1 .. Len(resets)
         /\ Len(prepared) \in Nat /\ DOMAIN prepared = 1 .. Len(prepared)
         /\ Len(begun) \in Nat /\ DOMAIN begun = 1 .. Len(begun)
BY LenProperties DEF SessionTypes

-----------------------------------------------------------------------------
(* Each step keeps the invariant                                              *)

LEMMA InitEstablishes == SessionInit => SessionInv
<1> SUFFICES ASSUME SessionInit
             PROVE  SessionInv
  OBVIOUS
<1> USE DEF SessionInit
<1>1. SessionTypes
  BY SessionBounds, EmptySeq DEF SessionTypes, Ended
<1>2. Len(sample) = 0 /\ Len(begun) = 0 /\ DOMAIN begun = {}
  BY LenProperties, EmptySeq
<1>3. Horizon /\ Sampled /\ Counted /\ Prepared
  BY <1>2 DEF Horizon, Sampled, Counted, Prepared, Working
<1>4. Overlap /\ Returned /\ AttemptsArePrepared
  BY <1>2 DEF Overlap, Returned, AttemptsArePrepared
<1> QED
  BY <1>1, <1>3, <1>4 DEF SessionInv

\* A new run starts with nothing collected and under an identity no task bears.
LEMMA CalledKeeps ==
  ASSUME SessionInv, Run \/ RefuseRun
  PROVE  SessionInv'
<1> USE DEF SessionInv
<1>1. /\ Called /\ run \in 0 .. MaxRuns
      /\ \/ stage' = "next" /\ request' \in Plans
         \/ stage' = "raised" /\ request' = NoPlan
  <2>1. CASE Run
    BY <2>1, AcceptedIsPlan DEF Run, SessionTypes
  <2>2. CASE RefuseRun
    BY <2>2 DEF RefuseRun, SessionTypes
  <2> QED
    BY <2>1, <2>2
<1>2. SessionTypes'
  BY <1>1, SessionBounds, EmptySeq DEF SessionTypes, Called, Working, Ended
<1>3. Len(sample') = 0 /\ Len(begun') = 0 /\ DOMAIN begun' = {}
  BY <1>1, EmptySeq DEF Called
<1>4. Horizon' /\ Sampled' /\ Counted'
  BY <1>1, <1>3, SessionBounds DEF Called, Horizon, Sampled, Counted, Working, Plans
<1>5. Prepared'
  BY <1>1, <1>3, EmptySeq
     DEF Called, Prepared, ResetsGiven, SeedsGiven, ResetsDue, SeedsDue
<1>6. Overlap'
  <2>1. run' \in Nat /\ \A a \in running' : a[1] \in Nat /\ a[1] < run'
    BY <1>1, SessionBounds DEF Called, Overlap, SessionTypes, Attempts, Campaigns
  <2> QED
    BY <1>3, <2>1 DEF Overlap
<1>7. Returned' /\ AttemptsArePrepared'
  BY <1>1, <1>3 DEF Returned, AttemptsArePrepared, Called
<1> QED
  BY <1>2, <1>4, <1>5, <1>6, <1>7

\* A step between attempts leaves what was sampled, begun and is at work as it was.
LEMMA BetweenAttempts ==
  ASSUME SessionInv, UNCHANGED <<run, request, sample, running, altered, begun>>,
         stage \notin {"attempt", "raised"}, stage' \notin {"attempt", "raised"}
  PROVE  Sampled' /\ Counted' /\ Overlap' /\ AttemptsArePrepared'
<1>1. Sampled' /\ Counted'
  BY DEF SessionInv, Sampled, Counted
<1>2. Overlap'
  BY DEF SessionInv, Overlap, LeftOver
<1>3. AttemptsArePrepared'
  BY DEF SessionInv, AttemptsArePrepared
<1> QED
  BY <1>1, <1>2, <1>3

LEMMA AdvanceKeeps ==
  ASSUME SessionInv, Advance
  PROVE  SessionInv'
<1> USE DEF SessionInv, Advance, MoveTo
<1>1. SessionTypes'
  BY DEF SessionTypes, Working
<1>2. Horizon'
  BY DEF Horizon, Working, Index, Ended, NeedsReset, NeedsSeed
<1>3. Prepared'
  <2>1. Len(sample) \in Nat /\ (Len(sample) = 0 <=> sample = << >>)
    BY EmptySeq, Lengths DEF SessionTypes
  <2>2. ResetsGiven /\ SeedsGiven
    BY DEF Prepared, Working
  <2>3. request.status = "verified" => ResetsDue' = ResetsDue
    BY <2>1 DEF ResetsDue, NeedsReset, Index
  <2>4. ResetsGiven'
    BY <2>2, <2>3 DEF ResetsGiven
  <2>5. SeedsGiven'
    BY <2>2 DEF SeedsGiven, SeedsDue, NeedsSeed
  <2> QED
    BY <2>4, <2>5 DEF Prepared
<1>4. Returned'
  BY DEF Returned
<1> QED
  BY <1>1, <1>2, <1>3, <1>4, BetweenAttempts

\* The receipt of a reset is bound to the attempt it is for and to the one before it.
LEMMA ResetKeeps ==
  ASSUME SessionInv, ResetAnswers
  PROVE  SessionInv'
<1> USE DEF SessionInv, ResetAnswers, MoveTo
<1> DEFINE receipt == ResetReceipt(run, Index, sample[Len(sample)].attempt)
<1>1. /\ request \in Plans /\ run \in 1 .. MaxRuns /\ NeedsReset /\ Index <= request.trials
      /\ Len(sample) \in Nat \ {0} /\ Len(resets) = Len(sample) - 1
      /\ ResetsGiven /\ SeedsGiven
  <2>1. request \in Plans /\ run \in 1 .. MaxRuns /\ NeedsReset /\ Index <= request.trials
    BY DEF Horizon, Working
  <2>2. Len(sample) \in Nat \ {0} /\ sample # << >>
    BY <2>1, Lengths, EmptySeq DEF NeedsReset, Index
  <2>3. ResetsGiven /\ SeedsGiven
    BY DEF Prepared, Working
  <2> QED
    BY <2>1, <2>2, <2>3 DEF ResetsGiven, ResetsDue, NeedsReset
<1>2. receipt = ResetReceipt(run, Len(sample) + 1, <<run, Len(sample)>>)
  <2>1. Len(sample) \in 1 .. Len(sample)
    BY <1>1
  <2>2. sample[Len(sample)].attempt = <<run, Len(sample)>>
    BY <2>1 DEF Sampled
  <2> QED
    BY <2>2, Zenon DEF Index
<1>3. receipt \in ResetReceipts
  <2>1. <<run, Len(sample)>> \in Attempts
    BY <1>1, SessionBounds DEF Plans, Index, Attempts, Campaigns
  <2> QED
    BY <1>1, <1>2, <2>1, CurrentIsAttempt DEF ResetReceipt, ResetReceipts, Current, Index
<1>4. /\ resets' \in Seq(ResetReceipts) /\ Len(resets') = Len(sample)
      /\ \A j \in 1 .. Len(resets) : resets'[j] = resets[j]
      /\ resets'[Len(sample)] = receipt
  BY <1>1, <1>3, AppendProperties DEF SessionTypes
<1>5. SessionTypes'
  BY <1>4 DEF SessionTypes, Working
<1>6. Horizon'
  BY <1>1 DEF Horizon, Working, Index, Ended, NeedsSeed
<1>7. ResetsGiven'
  <2>1. \A j \in 1 .. Len(resets') : j = Len(sample) \/ j \in 1 .. Len(resets)
    BY <1>1, <1>4
  <2>2. ResetsDue' = Len(sample)
    BY DEF ResetsDue
  <2> QED
    BY <1>1, <1>2, <1>4, <2>1, <2>2 DEF ResetsGiven, NeedsReset
<1>8. SeedsGiven'
  BY <1>1 DEF SeedsGiven, SeedsDue, NeedsSeed
<1>9. Returned'
  BY DEF Returned
<1> QED
  BY <1>5, <1>6, <1>7, <1>8, <1>9, BetweenAttempts DEF Prepared

\* The receipt of a seed is of the attempt it is for, and the seed is a new one.
LEMMA SeedKeeps ==
  ASSUME SessionInv, SeedAnswers
  PROVE  SessionInv'
<1> USE DEF SessionInv, SeedAnswers, MoveTo
<1>1. PICK seed \in Seeds : /\ \A i \in 1 .. Len(prepared) : prepared[i].seed # seed
                            /\ prepared' = Append(prepared, [attempt |-> Current, seed |-> seed])
  BY Lengths
<1>2. /\ request \in Plans /\ run \in 1 .. MaxRuns /\ NeedsSeed /\ Index <= request.trials
      /\ Len(sample) \in Nat /\ Len(prepared) = Len(sample)
      /\ ResetsGiven /\ SeedsGiven
  BY Lengths DEF Horizon, Working, NeedsSeed, Prepared, SeedsGiven, SeedsDue
<1>3. [attempt |-> Current, seed |-> seed] \in SeedReceipts
  BY <1>2, CurrentIsAttempt DEF SeedReceipts
<1>4. /\ prepared' \in Seq(SeedReceipts) /\ Len(prepared') = Index
      /\ \A j \in 1 .. Len(prepared) : prepared'[j] = prepared[j]
      /\ prepared'[Index] = [attempt |-> Current, seed |-> seed]
  BY <1>1, <1>2, <1>3, AppendProperties DEF SessionTypes, Index
<1>5. SessionTypes'
  BY <1>4 DEF SessionTypes, Working
<1>6. Horizon'
  BY <1>2 DEF Horizon, Working, Index, Ended
<1>7. ResetsGiven'
  BY <1>2 DEF ResetsGiven, ResetsDue
<1>8. SeedsGiven'
  <2>1. \A j \in 1 .. Len(prepared') : j = Index \/ j \in 1 .. Len(prepared)
    BY <1>2, <1>4 DEF Index
  <2> QED
    BY <1>1, <1>2, <1>4, <2>1 DEF SeedsGiven, SeedsDue, NeedsSeed, Index, Current
<1>9. Returned'
  BY DEF Returned
<1> QED
  BY <1>5, <1>6, <1>7, <1>8, <1>9, BetweenAttempts DEF Prepared

\* A run that raises leaves its tasks to themselves and gives nothing back.
LEMMA RaiseKeeps ==
  ASSUME SessionInv, stage \in Working, Raise, running' \subseteq running,
         UNCHANGED <<altered, issued>>
  PROVE  SessionInv'
<1> USE DEF SessionInv, Raise, MoveTo
<1>1. SessionTypes'
  BY DEF SessionTypes, Ended
<1>2. Horizon' /\ Sampled' /\ Counted' /\ Prepared'
  BY DEF Horizon, Sampled, Counted, Prepared, Working
<1>3. Overlap'
  BY DEF Overlap, LeftOver, Index
<1>4. Returned' /\ AttemptsArePrepared'
  BY DEF Returned, AttemptsArePrepared, Working
<1> QED
  BY <1>1, <1>2, <1>3, <1>4

\* An attempt begins with all the receipts its status asks for, and with no task of the
\* campaign at work that the sample does not show.
LEMMA BeginKeeps ==
  ASSUME SessionInv, Begin
  PROVE  SessionInv'
<1> USE DEF SessionInv, Begin, MoveTo
<1> DEFINE beginning == [resets |-> resets, prepared |-> prepared, running |-> running]
<1>1. /\ request \in Plans /\ run \in 1 .. MaxRuns /\ Index <= request.trials
      /\ ResetsGiven /\ SeedsGiven /\ ResetsDue = Len(sample) /\ SeedsDue = Index
  BY DEF Horizon, Working, Prepared, ResetsDue, SeedsDue
<1>2. /\ Len(sample) \in Nat /\ Len(begun) = Len(sample) /\ Index \in 1 .. MaxTrials
      /\ Current \in Attempts
  BY <1>1, Lengths, CurrentIsAttempt DEF Counted
<1>3. /\ begun' \in Seq(Beginnings) /\ Len(begun') = Index
      /\ \A i \in 1 .. Len(begun) : begun'[i] = begun[i]
      /\ begun'[Index] = beginning /\ DOMAIN begun' = 1 .. Len(begun')
  <2>1. beginning \in Beginnings
    BY DEF SessionTypes, Beginnings
  <2> QED
    BY <1>2, <2>1, AppendProperties, LenProperties DEF SessionTypes, Index
<1>4. \A i \in 1 .. Len(begun') : i = Index \/ i \in 1 .. Len(begun)
  BY <1>2, <1>3 DEF Index
<1>5. SessionTypes'
  BY <1>2, <1>3 DEF SessionTypes, Working
<1>6. Horizon' /\ Sampled' /\ Counted'
  BY <1>1, <1>2, <1>3 DEF Horizon, Sampled, Counted, Working, Index
<1>7. Prepared'
  BY <1>1, <1>2 DEF ResetsGiven, SeedsGiven, ResetsDue, SeedsDue, Prepared, Index
<1>8. Overlap'
  <2>1. \A a \in running' : a[1] <= run
    BY <1>1, <1>2 DEF Overlap, Current
  <2>2. \A j \in 1 .. MaxTrials : <<run, j>> \in running' => LeftOver(j) \/ j = Index
    BY <1>2 DEF Overlap, Current
  <2>3. \A j \in 1 .. MaxTrials : <<run, j>> \in running => j < Index /\ LeftOver(j)
    BY <1>2 DEF Overlap, LeftOver, Index
  <2>4. \A i \in 1 .. Len(begun') : \A j \in 1 .. MaxTrials :
          <<run, j>> \in begun'[i].running => j < i /\ LeftOver(j)
    BY <1>3, <1>4, <2>3 DEF Overlap
  <2> QED
    BY <2>1, <2>2, <2>4 DEF Overlap, LeftOver, Index
<1>9. AttemptsArePrepared'
  <2>1. request.status = "verified" =>
          resets = [j \in 1 .. Index - 1 |-> ResetReceipt(run, j + 1, <<run, j>>)]
    <3>1. Index - 1 = Len(sample)
      BY <1>2 DEF Index
    <3>2. request.status = "verified" => Len(resets) = Len(sample)
      BY <1>1 DEF ResetsGiven
    <3>3. resets \in [1 .. Len(resets) -> ResetReceipts]
      BY LenProperties DEF SessionTypes
    <3> QED
      BY <1>1, <3>1, <3>2, <3>3 DEF ResetsGiven
  <2>2. request.randomness = "evaluator_controlled" =>
          /\ Len(prepared) = Index
          /\ \A j \in 1 .. Index : prepared[j].attempt = <<run, j>>
          /\ \A j \in 1 .. Index - 1 : prepared[j].seed # prepared[Index].seed
    BY <1>1, <1>2 DEF SeedsGiven
  <2>3. DOMAIN begun = 1 .. Len(begun)
    BY Lengths
  <2> SUFFICES ASSUME NEW i \in DOMAIN begun'
               PROVE  /\ request.status = "verified" =>
                           begun'[i].resets =
                             [j \in 1 .. i - 1 |-> ResetReceipt(run, j + 1, <<run, j>>)]
                      /\ request.randomness = "evaluator_controlled" =>
                           /\ Len(begun'[i].prepared) = i
                           /\ \A j \in 1 .. i : begun'[i].prepared[j].attempt = <<run, j>>
                           /\ \A j \in 1 .. i - 1 :
                                begun'[i].prepared[j].seed # begun'[i].prepared[i].seed
    BY DEF AttemptsArePrepared
  <2>4. CASE i = Index
    <3>1. begun'[i].resets = resets /\ begun'[i].prepared = prepared
      BY <1>3, <2>4
    <3> QED
      BY <2>1, <2>2, <2>4, <3>1
  <2>5. CASE i \in DOMAIN begun
    BY <1>3, <2>3, <2>5 DEF AttemptsArePrepared
  <2> QED
    BY <1>3, <1>4, <2>3, <2>4, <2>5
<1>10. Returned'
  BY DEF Returned
<1> QED
  BY <1>5, <1>6, <1>7, <1>8, <1>9, <1>10

\* An attempt comes into the sample under its own number, whatever its verdict; its task goes
\* on only if the verdict is BLOCKED.
LEMMA SettleKeeps ==
  ASSUME SessionInv, stage = "attempt", NEW v \in TrialVerdicts, Settle(v),
         running' = running \ {Current} \/ (v = "BLOCKED" /\ running' = running)
  PROVE  SessionInv'
<1> USE DEF SessionInv, Settle, MoveTo
<1>1. /\ request \in Plans /\ run \in 1 .. MaxRuns /\ Index <= request.trials
      /\ ResetsGiven /\ SeedsGiven /\ ResetsDue = Len(sample) /\ SeedsDue = Index
  BY DEF Horizon, Working, Prepared, ResetsDue, SeedsDue
<1>2. /\ Len(sample) \in Nat /\ Len(begun) = Index /\ Current \in Attempts
  BY <1>1, Lengths, CurrentIsAttempt DEF Counted, Index
<1>3. /\ sample' \in Seq(Trials) /\ Len(sample') = Index
      /\ \A i \in 1 .. Len(sample) : sample'[i] = sample[i]
      /\ sample'[Index] = Trial(Current, v)
  <2>1. Trial(Current, v) \in Trials
    BY <1>2 DEF Trial, Trials
  <2> QED
    BY <1>2, <2>1, AppendProperties DEF SessionTypes, Index
<1>4. 1 .. Len(sample') = (1 .. Len(sample)) \cup {Index}
  BY <1>2, <1>3 DEF Index
<1>5. SessionTypes'
  BY <1>3 DEF SessionTypes, Working
<1>6. Horizon' /\ Counted'
  BY <1>1, <1>2, <1>3 DEF Horizon, Counted, Working, Ended
<1>7. Sampled'
  BY <1>2, <1>3, <1>4 DEF Sampled, Trial, Current
<1>8. Prepared'
  <2>1. sample' # << >> /\ Index - 1 = Len(sample)
    BY <1>2, <1>3, EmptySeq DEF Index
  <2>2. ResetsDue' = Len(sample) /\ SeedsDue' = Index
    BY <1>3, <2>1 DEF ResetsDue, SeedsDue
  <2> QED
    BY <1>1, <2>2 DEF ResetsGiven, SeedsGiven, Prepared
<1>9. Overlap'
  <2>1. \A j \in 1 .. MaxTrials : LeftOver(j) => LeftOver(j)'
    BY <1>3, <1>4 DEF LeftOver
  <2>2. \A j \in 1 .. MaxTrials : j = Index /\ v = "BLOCKED" => LeftOver(j)'
    BY <1>3, <1>4 DEF LeftOver, Trial
  <2>3. \A j \in 1 .. MaxTrials : <<run, j>> \in running' => LeftOver(j)'
    BY <2>1, <2>2 DEF Overlap, Current
  <2>4. \A a \in running' : a[1] <= run
    BY DEF Overlap
  <2> QED
    BY <2>1, <2>3, <2>4 DEF Overlap
<1>10. Returned' /\ AttemptsArePrepared'
  BY DEF Returned, AttemptsArePrepared
<1> QED
  BY <1>5, <1>6, <1>7, <1>8, <1>9, <1>10

\* The end of a task nobody awaits, a change to finished evidence and the metrics of a result
\* leave run() where it stands.
LEMMA OutsideKeeps ==
  ASSUME SessionInv, LateTaskEnds \/ Alter \/ IssueMetrics
  PROVE  SessionInv'
<1>1. /\ UNCHANGED <<stage, run, request, sample, resets, prepared, result, begun>>
      /\ running' \subseteq running
  BY DEF LateTaskEnds, Alter, IssueMetrics
<1>2. /\ Horizon' /\ Counted' /\ Prepared' /\ Returned' /\ AttemptsArePrepared'
  <2>1. Horizon' /\ Counted' /\ AttemptsArePrepared'
    BY <1>1 DEF SessionInv, Horizon, Counted, AttemptsArePrepared, Index, NeedsReset, NeedsSeed
  <2>2. Prepared'
    BY <1>1 DEF SessionInv, Prepared, ResetsGiven, SeedsGiven, ResetsDue, SeedsDue, Index
  <2>3. Returned'
    BY <1>1 DEF SessionInv, Returned, Collected
  <2> QED
    BY <2>1, <2>2, <2>3
<1>3. Overlap'
  BY <1>1 DEF SessionInv, Overlap, LeftOver, Index
<1>4. SessionTypes' /\ Sampled'
  <2>1. CASE LateTaskEnds
    BY <1>1, <2>1 DEF SessionInv, SessionTypes, Sampled, LateTaskEnds
  <2>2. CASE Alter
    <3>1. PICK i \in 1 .. Len(sample) : altered' = altered \cup {sample[i].attempt}
      BY <2>2, Lengths DEF SessionInv, Alter
    <3>2. sample[i].attempt \in Attempts
      <4>1. sample[i] \in Trials
        BY ElementOfSeq DEF SessionInv, SessionTypes
      <4> QED
        BY <4>1 DEF Trials
    <3> QED
      BY <1>1, <2>2, <3>1, <3>2 DEF SessionInv, SessionTypes, Sampled, Alter
  <2>3. CASE IssueMetrics
    <3>1. result \in Results
      BY <2>3
         DEF SessionInv, Horizon, Returned, IssueMetrics, SessionTypes, NoResult, Collected
    <3>2. Metrics(result) \in QualifiedMetrics
      BY <3>1 DEF Metrics, QualifiedMetrics, Results, Plans
    <3> QED
      BY <1>1, <2>3, <3>2 DEF SessionInv, SessionTypes, Sampled, IssueMetrics
  <2> QED
    BY <2>1, <2>2, <2>3
<1> QED
  BY <1>2, <1>3, <1>4 DEF SessionInv

\* At the horizon the result is what was collected, if it is valid.
LEMMA FinishKeeps ==
  ASSUME SessionInv, Finish
  PROVE  SessionInv'
<1>1. CASE Raise
  BY <1>1, RaiseKeeps DEF Finish, Working
<1>2. CASE Valid(Collected, altered) /\ MoveTo("returned") /\ result' = Collected
             /\ UNCHANGED <<sample, resets, prepared, begun>>
  <2> USE <1>2 DEF SessionInv, Finish, MoveTo
  <2>1. request \in Plans /\ run \in 1 .. MaxRuns
    BY DEF Horizon, Working
  <2>2. Collected \in Results
    BY <2>1, ReliabilityType DEF Collected, Results, SessionTypes
  <2>3. SessionTypes'
    BY <2>2 DEF SessionTypes, Ended
  <2>4. Horizon'
    BY <2>1 DEF Horizon, Working
  <2>5. Prepared'
    BY DEF Prepared, Working, ResetsGiven, SeedsGiven, ResetsDue, SeedsDue
  <2>6. Returned'
    <3>1. Collected' = Collected
      BY DEF Collected
    <3>2. Valid(Collected, {})
      BY DEF Valid, TrialsBound
    <3> QED
      BY <3>1, <3>2 DEF Returned
  <2> QED
    BY <2>3, <2>4, <2>5, <2>6, BetweenAttempts
<1> QED
  BY <1>1, <1>2 DEF Finish

LEMMA NextKeeps ==
  ASSUME SessionInv, [SessionNext]_sessionVars
  PROVE  SessionInv'
<1>1. CASE Run \/ RefuseRun
  BY <1>1, CalledKeeps
<1>2. CASE Advance
  BY <1>2, AdvanceKeeps
<1>3. CASE ResetAnswers
  BY <1>3, ResetKeeps
<1>4. CASE SeedAnswers
  BY <1>4, SeedKeeps
<1>5. CASE SeedRepeats \/ ControlFails \/ SessionCancelled
  BY <1>5, RaiseKeeps DEF SeedRepeats, ControlFails, SessionCancelled, Working
<1>6. CASE Begin
  BY <1>6, BeginKeeps
<1>7. CASE AttemptReturns \/ AttemptTimesOut
  BY <1>7, SettleKeeps DEF AttemptReturns, AttemptTimesOut, TrialVerdicts
<1>8. CASE LateTaskEnds \/ Alter \/ IssueMetrics
  BY <1>8, OutsideKeeps
<1>9. CASE Finish
  BY <1>9, FinishKeeps
<1>10. CASE UNCHANGED sessionVars
  <2> USE <1>10 DEF sessionVars, SessionInv
  <2>1. SessionTypes' /\ Horizon' /\ Sampled' /\ Counted'
    BY DEF SessionTypes, Horizon, Sampled, Counted, Index, NeedsReset, NeedsSeed
  <2>2. Prepared' /\ AttemptsArePrepared'
    BY DEF Prepared, ResetsGiven, SeedsGiven, ResetsDue, SeedsDue, Index, AttemptsArePrepared
  <2>3. Overlap' /\ Returned'
    BY DEF Overlap, LeftOver, Index, Returned, Collected
  <2> QED
    BY <2>1, <2>2, <2>3
<1> QED
  BY <1>1, <1>2, <1>3, <1>4, <1>5, <1>6, <1>7, <1>8, <1>9, <1>10 DEF SessionNext

\* In every state of a session the invariant holds.
THEOREM SessionInvariant == SessionSpec => []SessionInv
BY InitEstablishes, NextKeeps, PTL DEF SessionSpec

-----------------------------------------------------------------------------
(* What follows                                                               *)

\* Every variable of the session keeps its type: identities are of the campaigns there are,
\* receipts of attempts within the horizon, results and metrics of accepted plans.
THEOREM SessionTypeCorrect == SessionSpec => []SessionTypes
BY SessionInvariant, PTL DEF SessionInv

\* What run() returns has one trial for each attempt the adapter was called for, and as many
\* as were planned (session.py, the loop over range(trials) and validate()).
THEOREM SampleIsEveryAttempt == SessionSpec => []EveryAttemptCounts
<1>1. ASSUME SessionInv
      PROVE  EveryAttemptCounts
  <2>1. Len(begun) = Len(sample) + (IF stage = "attempt" THEN 1 ELSE 0) \/ stage = "raised"
    BY <1>1 DEF SessionInv, Counted
  <2>2. result # NoResult => stage = "returned" /\ result = Collected /\ Valid(Collected, {})
    BY <1>1 DEF SessionInv, Returned
  <2>3. result # NoResult => Len(begun) = Len(sample)
    <3>1. Len(sample) \in Nat
      BY <1>1, Lengths DEF SessionInv
    <3> QED
      BY <2>1, <2>2, <3>1
  <2> QED
    BY <2>1, <2>2, <2>3 DEF EveryAttemptCounts, Collected, Valid, SamplingBound
<1> QED
  BY <1>1, SessionInvariant, PTL

\* Every attempt of a verified session began after its own reset, and every attempt under
\* the evaluator's seeds with a seed of its own, in runs that came to nothing as well.
THEOREM AttemptsWerePrepared == SessionSpec => []AttemptsArePrepared
BY SessionInvariant, PTL DEF SessionInv

\* A sample without BLOCKED trials comes from attempts that did not overlap.
THEOREM OverlapShows == SessionSpec => []OverlapIsVisible
<1>1. ASSUME SessionInv
      PROVE  OverlapIsVisible
  BY <1>1, Lengths DEF SessionInv, Overlap, LeftOver, OverlapIsVisible
<1> QED
  BY <1>1, SessionInvariant, PTL

\* Sequences that validate under one plan as receipts of one sample are the same sequence.
LEMMA SameTrials ==
  ASSUME SessionInv, stage = "returned",
         NEW trials \in BoundedSeq(Pieces(sample, ForeignTrials), MaxTrials),
         Len(trials) = Len(sample),
         \A i \in DOMAIN trials : trials[i].attempt = <<run, i>>
  PROVE  trials = sample
<1>1. /\ trials \in Seq(Pieces(sample, ForeignTrials)) /\ DOMAIN trials = 1 .. Len(trials)
      /\ DOMAIN sample = 1 .. Len(sample)
  BY BoundedIsSeq, SessionBounds, Lengths DEF SessionInv
<1>2. run \in 1 .. MaxRuns
  BY DEF SessionInv, Horizon
<1>3. ASSUME NEW i \in 1 .. Len(sample)
      PROVE  trials[i] = sample[i]
  <2>1. trials[i] \in Pieces(sample, ForeignTrials) /\ trials[i].attempt = <<run, i>>
    BY <1>1, <1>3, ElementOfSeq
  <2>2. trials[i] \notin ForeignTrials
    BY <1>2, <2>1, SessionBounds DEF ForeignTrials, Elsewhere
  <2>3. PICK k \in 1 .. Len(sample) : trials[i] = sample[k]
    BY <1>1, <2>1, <2>2 DEF Pieces, ToSet
  <2> QED
    BY <2>1, <2>3 DEF SessionInv, Sampled
<1>4. /\ sample \in [1 .. Len(sample) -> Trials]
      /\ trials \in [1 .. Len(sample) -> Pieces(sample, ForeignTrials)]
  BY <1>1, LenProperties DEF SessionInv, SessionTypes
<1> QED
  BY <1>3, <1>4

LEMMA SameSeeds ==
  ASSUME SessionInv, stage = "returned", NEW n \in Nat,
         NEW seeds \in BoundedSeq(Pieces(prepared, ForeignSeeds), n),
         Len(seeds) = Len(prepared),
         \A i \in DOMAIN seeds : seeds[i].attempt = <<run, i>>
  PROVE  seeds = prepared
<1>1. /\ seeds \in Seq(Pieces(prepared, ForeignSeeds)) /\ DOMAIN seeds = 1 .. Len(seeds)
      /\ DOMAIN prepared = 1 .. Len(prepared)
  BY BoundedIsSeq, Lengths DEF SessionInv
<1>2. run \in 1 .. MaxRuns /\ SeedsGiven
  BY DEF SessionInv, Horizon, Prepared
<1>3. ASSUME NEW i \in 1 .. Len(prepared)
      PROVE  seeds[i] = prepared[i]
  <2>1. seeds[i] \in Pieces(prepared, ForeignSeeds) /\ seeds[i].attempt = <<run, i>>
    BY <1>1, <1>3, ElementOfSeq
  <2>2. seeds[i] \notin ForeignSeeds
    BY <1>2, <2>1, SessionBounds DEF ForeignSeeds, Elsewhere
  <2>3. PICK k \in 1 .. Len(prepared) : seeds[i] = prepared[k]
    BY <1>1, <2>1, <2>2 DEF Pieces, ToSet
  <2> QED
    BY <1>2, <2>1, <2>3 DEF SeedsGiven
<1>4. /\ prepared \in [1 .. Len(prepared) -> SeedReceipts]
      /\ seeds \in [1 .. Len(prepared) -> Pieces(prepared, ForeignSeeds)]
  BY <1>1, LenProperties DEF SessionInv, SessionTypes
<1> QED
  BY <1>3, <1>4

\* The receipts of verified resets are determined by the sample they go with.
LEMMA SameResets ==
  ASSUME SessionInv, stage = "returned", NEW S, NEW n \in Nat, NEW given \in BoundedSeq(S, n),
         Len(given) = Len(resets),
         \A i \in DOMAIN given : given[i] = ResetReceipt(run, i + 1, <<run, i>>)
  PROVE  given = resets
<1>1. given \in Seq(S) /\ DOMAIN given = 1 .. Len(given)
  BY BoundedIsSeq
<1>2. \A i \in 1 .. Len(resets) : given[i] = resets[i]
  BY <1>1 DEF SessionInv, Prepared, ResetsGiven
<1>3. resets \in [1 .. Len(resets) -> ResetReceipts] /\ given \in [1 .. Len(resets) -> S]
  BY <1>1, LenProperties DEF SessionInv, SessionTypes
<1> QED
  BY <1>2, <1>3

\* validate() accepts, under the plan of a campaign, the campaign's own sample, whole and in
\* order with its own receipts, and no other choice of trials and receipts.
THEOREM OnlyTheWholeSample == SessionSpec => []OnlyWholeSamplesValidate
<1>1. ASSUME SessionInv
      PROVE  OnlyWholeSamplesValidate
  <2> SUFFICES ASSUME result # NoResult, NEW r \in Derived(result), Valid(r, {})
               PROVE  r = result
    BY DEF OnlyWholeSamplesValidate
  <2>1. stage = "returned" /\ result = Collected /\ Valid(Collected, {})
    BY <1>1 DEF SessionInv, Returned
  <2>2. PICK t \in BoundedSeq(Pieces(sample, ForeignTrials), MaxTrials),
             x \in BoundedSeq(Pieces(resets, ForeignResets), MaxTrials - 1),
             s \in BoundedSeq(Pieces(prepared, ForeignSeeds), Len(prepared)) :
          r = Remade(result, t, x, s)
    <3>1. result.trials = sample /\ result.resets = resets /\ result.prepared = prepared
      BY <2>1 DEF Collected
    <3>2. \E t \in BoundedSeq(Pieces(result.trials, ForeignTrials), MaxTrials),
             x \in BoundedSeq(Pieces(result.resets, ForeignResets), MaxTrials - 1),
             s \in BoundedSeq(Pieces(result.prepared, ForeignSeeds), Len(result.prepared)) :
            r = Remade(result, t, x, s)
      BY SMT DEF Derived
    <3> QED
      BY <3>1, <3>2
  <2>3. r = [campaign |-> run, plan |-> request, trials |-> t, resets |-> x,
             prepared |-> s, reliability |-> FromVerdicts(t)]
    BY <2>1, <2>2 DEF Collected, Remade
  <2>4. request \in Plans /\ run \in 1 .. MaxRuns /\ ResetsGiven /\ SeedsGiven
    BY <1>1, <2>1 DEF SessionInv, Horizon, Prepared
  <2>5. /\ Len(sample) \in Nat /\ Len(resets) \in Nat /\ Len(prepared) \in Nat
        /\ MaxTrials - 1 \in Nat
    BY <1>1, <2>4, Lengths, SessionBounds DEF SessionInv, Plans
  <2>6. t = sample
    <3>1. Len(t) = Len(sample) /\ \A i \in DOMAIN t : t[i].attempt = <<run, i>>
      BY <2>1, <2>3 DEF Valid, SamplingBound, TrialsBound, Collected
    <3> QED
      BY <1>1, <2>1, <3>1, SameTrials
  <2>7. x = resets
    <3>1. DOMAIN x = 1 .. Len(x) /\ x \in Seq(Pieces(resets, ForeignResets)) /\ Len(x) \in Nat
      BY <2>5, BoundedIsSeq
    <3>2. CASE request.status = "verified"
      <4>1. Len(x) = Len(resets)
        BY <2>1, <2>3, <2>6, <3>2 DEF Valid, ResetsBound, Collected
      <4>2. \A i \in DOMAIN x : x[i] = ResetReceipt(run, i + 1, <<run, i>>)
        <5>1. \A i \in DOMAIN x : x[i] = ResetReceipt(run, i + 1, sample[i].attempt)
          BY <2>3, <2>6, <3>2 DEF Valid, ResetsBound
        <5>2. Len(resets) = Len(sample) - 1
          BY <2>1, <3>2 DEF Valid, ResetsBound, Collected
        <5>3. \A i \in DOMAIN x : sample[i].attempt = <<run, i>>
          BY <1>1, <2>5, <3>1, <4>1, <5>2 DEF SessionInv, Sampled
        <5> QED
          BY <5>1, <5>3
      <4> QED
        BY <1>1, <2>1, <2>5, <4>1, <4>2, SameResets
    <3>3. CASE request.status # "verified"
      BY <2>1, <2>3, <3>3 DEF Valid, Collected
    <3> QED
      BY <3>2, <3>3
  <2>8. s = prepared
    <3>1. CASE request.randomness = "evaluator_controlled"
      <4>1. Len(s) = Len(prepared) /\ \A i \in DOMAIN s : s[i].attempt = sample[i].attempt
        BY <2>1, <2>3, <2>6, <3>1 DEF Valid, SamplingBound, SeedsBound, Collected
      <4>2. DOMAIN s = 1 .. Len(s) /\ Len(prepared) = Len(sample)
        BY <2>1, <2>5, <3>1, BoundedIsSeq DEF Valid, SamplingBound, SeedsBound, Collected
      <4>3. \A i \in DOMAIN s : s[i].attempt = <<run, i>>
        BY <1>1, <4>1, <4>2 DEF SessionInv, Sampled
      <4> QED
        BY <1>1, <2>1, <2>5, <4>1, <4>3, SameSeeds
    <3>2. CASE request.randomness # "evaluator_controlled"
      BY <2>1, <2>3, <3>2 DEF Valid, SamplingBound, Collected
    <3> QED
      BY <3>1, <3>2
  <2> QED
    BY <2>1, <2>3, <2>6, <2>7, <2>8 DEF Collected
<1> QED
  BY <1>1, SessionInvariant, PTL

\* Qualified metrics are never given for an unverified session, nor once the evidence of a
\* counted trial has changed, and they count every attempt of the campaign.
THEOREM MetricsAreOfFinalEvidence == SessionSpec => MetricsOfFinalEvidence
<1>1. ASSUME SessionInv, [SessionNext]_sessionVars, issued' # issued, issued' # NoMetrics
      PROVE  /\ altered = {} /\ request.status # "unverified"
             /\ issued'.reliability = FromVerdicts(sample) /\ Len(begun) = issued'.planned
  <2>1. IssueMetrics
    BY <1>1
       DEF SessionNext, sessionVars, Run, RefuseRun, Called, Advance, ResetAnswers, SeedAnswers,
           SeedRepeats, ControlFails, Begin, AttemptReturns, AttemptTimesOut, Settle,
           LateTaskEnds, SessionCancelled, Finish, Alter
  <2>2. result = Collected /\ Valid(Collected, altered) /\ issued' = Metrics(Collected)
    BY <1>1, <2>1 DEF SessionInv, Returned, IssueMetrics
  <2>3. altered = {}
    <3>1. \A i \in 1 .. Len(sample) : sample[i].attempt \notin altered
      BY <1>1, <2>2, Lengths DEF SessionInv, Valid, TrialsBound, Collected
    <3> QED
      BY <1>1, <3>1 DEF SessionInv, Sampled
  <2>4. Len(begun) = Len(sample) /\ request.trials = Len(sample)
    <3>1. Len(sample) \in Nat
      BY <1>1, Lengths DEF SessionInv
    <3> QED
      BY <1>1, <2>1, <2>2, <3>1
         DEF SessionInv, Counted, IssueMetrics, Valid, SamplingBound, Collected
  <2> QED
    BY <2>1, <2>2, <2>3, <2>4 DEF IssueMetrics, Metrics, Collected
<1> QED
  BY <1>1, SessionInvariant, PTL DEF SessionSpec, MetricsOfFinalEvidence
=============================================================================
