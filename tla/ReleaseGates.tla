------------------------------ MODULE ReleaseGates ------------------------------
(* From the trials of a session to the decision of a release                     *)
(* (assurance/report.py, gates/release.py, gates/advanced.py,                    *)
(* runtime/release_verification.py, statistics/reliability.py).  A report takes  *)
(* over each trial only if what it claims can be derived again from its          *)
(* evidence; gates decide on counts, over one session or over the slices of a    *)
(* release.                                                                      *)
EXTENDS Integers, Sequences, FiniteSets, SequencesExt, FiniteSetsExt

CONSTANTS ReleasePolicies,   \* thresholds: see Thresholds
          Families,          \* risk families of slices
          Required,          \* required_risk_families
          TrialBound,        \* bound: trials of a release
          SliceBound         \* bound: slices of a release

\* Rates are percentages; Z2 is the square of confidence_z in hundredths.
Thresholds == [minResolved : Nat \ {0}, minRate : 0..100, minWilson : 0..99, maxCritical : Nat,
               maxBlocked : Nat, maxInconclusive : Nat]
Z2 == 384

VARIABLES release,       \* the release policy
          profile,       \* the scenario's grading profile
          trials,        \* records of the report so far, each with the facts of its evidence
          criticality,   \* the VerifiedCriticalityRecord, or none
          verdictOfGate, \* the decision on this session
          slices,        \* sessions that were decided
          decision       \* the decision on the release

releaseVars == <<release, profile, trials, criticality, verdictOfGate, slices, decision>>

-----------------------------------------------------------------------------
(* One trial                                                                  *)

\* What the evidence of a trial holds: events that block it or preconditions that close, explicit
\* policy violations, what another deterministic oracle finds in it, a committed judgment.
Facts == [standing : {"closes", "blocks", "neither"}, violation : BOOLEAN,
          finding : {"none", "effect", "outcome"}, judged : {"none", "pass", "fail", "abstain"}]
Verdicts == {"PASS", "FAIL", "BLOCKED", "INCONCLUSIVE"}

\* grade_deterministic_evidence: an explicit violation fails the policy oracle.
DeterministicFails(e) == e.violation \/ e.finding # "none"

\* TrialAssuranceRecord: the verdict that the oracles and the judgment give.
Derived(e) ==
  IF DeterministicFails(e) THEN "FAIL"
  ELSE CASE e.judged = "abstain" -> "INCONCLUSIVE"
         [] e.judged = "fail" -> "FAIL"
         [] OTHER -> "PASS"

\* AssuranceReport.from_session, one trial: blocked with no oracle result, or graded exactly as
\* the evidence grades.
Derivable(e, claimed, graded) ==
  IF claimed = "BLOCKED" THEN e.standing = "blocks" /\ ~graded /\ e.judged = "none"
  ELSE /\ e.standing = "closes" /\ graded
       /\ claimed = Derived(e)
       /\ e.judged # "none" => profile.semantic /\ ~DeterministicFails(e)
       /\ profile.semantic /\ ~DeterministicFails(e) => e.judged # "none"

\* Mutant: a blocked trial has no critical violation.
FaultyCriticalOfResolved(t) ==
  IF t.verdict = "BLOCKED" THEN {}
  ELSE {k \in {"policy", "effect"} :
         IF k = "policy" THEN t.facts.violation ELSE t.facts.finding = "effect"}

\* TrialAssuranceRecord.critical_violations: failed critical oracles, or the violations a blocked
\* trial's evidence still shows.
CriticalOf(t) ==
  IF t.verdict = "BLOCKED" THEN (IF t.facts.violation THEN {"policy"} ELSE {})
  ELSE {k \in {"policy", "effect"} :
         IF k = "policy" THEN t.facts.violation ELSE t.facts.finding = "effect"}

-----------------------------------------------------------------------------
(* Reliability and the gate                                                   *)

CountOf(s, v) == Cardinality({i \in 1..Len(s) : s[i].verdict = v})
ReliabilityOf(s) ==
  [passes |-> CountOf(s, "PASS"), failures |-> CountOf(s, "FAIL"),
   blocked |-> CountOf(s, "BLOCKED"), inconclusive |-> CountOf(s, "INCONCLUSIVE")]
Resolved(r) == r.passes + r.failures
Unresolved(r) == r.blocked + r.inconclusive
Attempts(r) == Resolved(r) + Unresolved(r)
CriticalViolations(s) ==
  Cardinality({v \in (1..Len(s)) \X {"policy", "effect"} : v[2] \in CriticalOf(s[v[1]])})

RateBelow(r, p) == 100 * r.passes < p.minRate * Resolved(r)

\* _wilson_interval: the lower bound is below m exactly when p - m < z * sqrt(m * (1 - m) / n).
WilsonBelow(r, p) ==
  LET n == Resolved(r) m == p.minWilson d == 100 * r.passes - m * n
  IN d < 0 \/ 100 * d * d < Z2 * n * m * (100 - m)

\* ReleaseGate.decide
Decide(r, critical) ==
  LET p == release n == Resolved(r) IN
  IF critical > p.maxCritical \/ (n > 0 /\ RateBelow(r, p)) THEN "reject"
  ELSE IF \/ r.blocked > p.maxBlocked \/ r.inconclusive > p.maxInconclusive
          \/ n < p.minResolved \/ (n > 0 /\ WilsonBelow(r, p)) THEN "inconclusive"
  ELSE "accept"

NoRecord == [reliability |-> ReliabilityOf(<<>>), critical |-> -1]

Init ==
  /\ release \in ReleasePolicies /\ profile \in [semantic : BOOLEAN, effect : BOOLEAN]
  /\ trials = <<>> /\ criticality = NoRecord /\ verdictOfGate = "none"
  /\ slices = <<>> /\ decision = "none"

\* A finished trial: its verdict, and whether it carries oracle results, may be wrong.
TakeTrial ==
  /\ verdictOfGate = "none" /\ decision = "none"
  /\ Len(trials) + FoldLeft(LAMBDA n, s : n + Attempts(s.reliability), 0, slices) < TrialBound
  /\ \E e \in Facts, claimed \in Verdicts, graded \in BOOLEAN :
       /\ e.finding = "effect" => profile.effect
       /\ IF Derivable(e, claimed, graded)
            THEN trials' = Append(trials, [verdict |-> claimed, facts |-> e]) /\ UNCHANGED verdictOfGate
            ELSE verdictOfGate' = "refused" /\ UNCHANGED trials
  /\ UNCHANGED <<release, profile, criticality, slices, decision>>

\* verify_session_release_criticality, of the session as it is now.
VerifyCriticality ==
  /\ verdictOfGate = "none" /\ decision = "none" /\ trials # <<>>
  /\ criticality' = [reliability |-> ReliabilityOf(trials), critical |-> CriticalViolations(trials)]
  /\ UNCHANGED <<release, profile, trials, verdictOfGate, slices, decision>>

\* AssuranceReport.from_session, and every load of the report.
IssueReport ==
  /\ verdictOfGate = "none" /\ decision = "none" /\ trials # <<>>
  /\ verdictOfGate' = Decide(ReliabilityOf(trials), CriticalViolations(trials))
  /\ UNCHANGED <<release, profile, trials, criticality, slices, decision>>

\* ReleaseGate.decide_verified: with a record that may have been issued before the last trials; it
\* binds the counts alone, so the caller owes it a record of the session it decides.
DecideVerified ==
  /\ verdictOfGate = "none" /\ decision = "none" /\ criticality # NoRecord
  /\ verdictOfGate' = IF criticality.reliability = ReliabilityOf(trials)
                      THEN Decide(ReliabilityOf(trials), criticality.critical) ELSE "refused"
  /\ UNCHANGED <<release, profile, trials, criticality, slices, decision>>

-----------------------------------------------------------------------------
(* Slices of a release                                                        *)

\* What must not be compensated for; the effect oracle does not look at a blocked trial.
Unsafe(s) == \E t \in ToSet(s) : t.facts.violation \/ (t.verdict # "BLOCKED" /\ t.facts.finding = "effect")

\* A decided session is one slice of the release; one of its attempts may be over the latency
\* threshold, resolved or not.
AddSlice ==
  /\ verdictOfGate \notin {"none", "refused"} /\ decision = "none" /\ Len(slices) < SliceBound
  /\ \E f \in Families, slow \in {"none", "resolved", "unresolved"} :
       /\ slow = "resolved" => \E t \in ToSet(trials) : t.verdict \in {"PASS", "FAIL"}
       /\ slow = "unresolved" => \E t \in ToSet(trials) : t.verdict \notin {"PASS", "FAIL"}
       /\ slices' = Append(slices, [family |-> f, reliability |-> ReliabilityOf(trials),
                                    critical |-> CriticalViolations(trials), unsafe |-> Unsafe(trials),
                                    slow |-> slow])
  /\ trials' = <<>> /\ criticality' = NoRecord /\ verdictOfGate' = "none"
  /\ UNCHANGED <<release, profile, decision>>

Decisions(ss) == {Decide(s.reliability, s.critical) : s \in ToSet(ss)}
Missing(ss) == Required \ {s.family : s \in ToSet(ss)}

\* SliceReleaseGate.decide
Combine(ds, uncertain) ==
  IF "reject" \in ds THEN "reject"
  ELSE IF "inconclusive" \in ds \/ uncertain THEN "inconclusive"
  ELSE "accept"

\* OperationalReleaseGate.decide with one latency threshold, over fewer attempts than a p95
\* leaves out, of every attempt or of the resolved ones.
Operational(s, resolvedOnly, allowExcluded) ==
  IF s.slow = "resolved" \/ (~resolvedOnly /\ s.slow = "unresolved") THEN "reject"
  ELSE IF resolvedOnly /\ ((~allowExcluded /\ Unresolved(s.reliability) > 0) \/ Resolved(s.reliability) = 0)
    THEN "inconclusive"
  ELSE "accept"

DecideRelease ==
  /\ verdictOfGate = "none" /\ trials = <<>> /\ decision = "none" /\ slices # <<>>
  /\ \E resolvedOnly \in BOOLEAN :
       decision' = Combine(Decisions(slices) \cup {Operational(s, resolvedOnly, FALSE) : s \in ToSet(slices)},
                           Missing(slices) # {})
  /\ UNCHANGED <<release, profile, trials, criticality, verdictOfGate, slices>>

Next == TakeTrial \/ VerifyCriticality \/ IssueReport \/ DecideVerified \/ AddSlice \/ DecideRelease
Spec == Init /\ [][Next]_releaseVars

-----------------------------------------------------------------------------
(* Properties                                                                 *)

\* Where no critical violation is allowed, nothing compensates for one: neither passes, nor a
\* trial that is blocked for another reason, nor a count that was verified before the trial was
\* added, nor the other slices of the release.
SafetyIsNotCompensated ==
  release.maxCritical = 0 =>
    /\ verdictOfGate = "accept" => ~Unsafe(trials)
    /\ decision = "accept" => \A i \in 1..Len(slices) : ~slices[i].unsafe

\* The evidence of the trial itself supports a success.
Succeeded(t) == /\ t.facts.standing = "closes" /\ ~t.facts.violation /\ t.facts.finding = "none"
                /\ t.facts.judged \in {"none", "pass"}

\* An accepted session resolved at least one trial, and the trials whose own evidence is that of a
\* success reach the required rate with the required confidence; an accepted release has all of its
\* required families, each of its slices reaches the rate by itself, and no attempt over the latency
\* threshold was left out of the account.
AcceptanceIsSupported ==
  /\ verdictOfGate = "accept" =>
       LET r == [ReliabilityOf(trials) EXCEPT !.passes = Cardinality({i \in 1..Len(trials) : Succeeded(trials[i])})]
       IN Resolved(r) > 0 /\ ~RateBelow(r, release) /\ ~WilsonBelow(r, release)
  /\ decision = "accept" =>
       /\ Required \subseteq {slices[i].family : i \in 1..Len(slices)}
       /\ \A i \in 1..Len(slices) :
            LET r == slices[i].reliability
            IN slices[i].slow = "none" /\ Resolved(r) > 0 /\ ~RateBelow(r, release)
=============================================================================
