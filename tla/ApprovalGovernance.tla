--------------------------- MODULE ApprovalGovernance ---------------------------
(* Governance of a human approval and resumption of the paused run (hitl.py):    *)
(* externally authenticated decisions age, are revoked and delegated while they  *)
(* are collected; a receipt evaluates a quorum of them at one moment; workers    *)
(* then resume a checkpoint, and a second receipt accounts for their attempts.   *)
EXTENDS Naturals, Sequences, FiniteSets, SequencesExt, FiniteSetsExt

CONSTANTS People, Requester,   \* who may sign; who asked for the approval
          Delegators,          \* people who may delegate
          Policies,            \* quorum, age, delegation, escalation
          Clock,               \* bound: ticks of the clock
          Evidence,            \* bound: decisions collected
          Workers              \* bound: attempts at a resumption

VARIABLES governance,  \* ApprovalGovernancePolicy
          clock,
          approvals,   \* HumanApprovalEvidence, in order
          delegations, \* ApprovalDelegation
          revoked,     \* revoked_approval_ids
          quorate,     \* ApprovalGovernanceReceipt, or none
          resumes,     \* HITLResumeAttempt, as reported
          continued    \* history: how many continuations ran

governanceVars == <<governance, clock, approvals, delegations, revoked, quorate, resumes, continued>>

NoReceipt == [at |-> 0, signers |-> {}, accepted |-> FALSE, known |-> 0, revoked |-> {}]
Init ==
  /\ governance \in Policies /\ clock = 1 /\ approvals = <<>> /\ delegations = {} /\ revoked = {}
  /\ quorate = NoReceipt /\ resumes = <<>> /\ continued = 0

Collecting == quorate = NoReceipt

-----------------------------------------------------------------------------
(* Collecting decisions                                                       *)

Tick ==
  /\ Collecting /\ clock < Clock /\ clock' = clock + 1
  /\ UNCHANGED <<governance, approvals, delegations, revoked, quorate, resumes, continued>>

\* One person decides in one session, for himself or for another, authenticated or not.
Approve ==
  /\ Collecting /\ Len(approvals) < Evidence
  /\ \E who \in People, session \in {"s1", "s2"}, role \in {"approver", "escalation"},
        by \in Delegators \cup {"none"}, verified \in BOOLEAN :
       /\ by # who
       /\ role = "escalation" => governance.escalation
       /\ approvals' = Append(approvals, [signer |-> who, session |-> session, role |-> role,
                                          by |-> by, at |-> clock, verified |-> verified])
  /\ UNCHANGED <<governance, clock, delegations, revoked, quorate, resumes, continued>>

\* ApprovalDelegation: for this invocation, until a moment.
Delegate ==
  /\ Collecting /\ delegations = {}
  /\ \E from \in Delegators, to \in People, until \in clock..Clock :
       from # to /\ delegations' = {[from |-> from, to |-> to, until |-> until]}
  /\ UNCHANGED <<governance, clock, approvals, revoked, quorate, resumes, continued>>

Revoke ==
  /\ Collecting /\ revoked = {}
  /\ \E i \in 1..Len(approvals) : revoked' = {i}
  /\ UNCHANGED <<governance, clock, approvals, delegations, quorate, resumes, continued>>

-----------------------------------------------------------------------------
(* The receipts                                                               *)

\* The delegation that an approval names stands.
Delegated(a) ==
  Cardinality({d \in delegations : d.from = a.by /\ d.to = a.signer /\ d.until >= clock}) = 1

\* Mutant: a delegation excuses the delegate from the separation of duties.
FaultyCountsDelegate(i) ==
  LET a == approvals[i] IN
  /\ a.verified /\ i \notin revoked /\ clock - a.at <= governance.age
  /\ \/ a.by = "none" /\ a.signer # Requester
     \/ a.by # "none" /\ governance.delegation /\ Delegated(a)

\* ApprovalGovernanceReceipt.create: the approvals that count.
Counts(i) ==
  LET a == approvals[i] IN
  /\ a.verified /\ i \notin revoked /\ clock - a.at <= governance.age
  /\ a.signer # Requester
  /\ a.by # "none" => governance.delegation /\ Delegated(a)

Evaluate ==
  /\ Collecting /\ approvals # <<>>
  /\ LET valid == {i \in 1..Len(approvals) : Counts(i)}
         signers == {approvals[i].signer : i \in valid}
         sessions == {approvals[i].session : i \in valid}
     IN quorate' = [at |-> clock, signers |-> signers, known |-> Len(approvals), revoked |-> revoked,
                    accepted |-> /\ Cardinality(signers) >= governance.quorum
                                 /\ Cardinality(sessions) >= governance.quorum
                                 /\ governance.escalation =>
                                      \E i \in valid : approvals[i].role = "escalation"]
  /\ UNCHANGED <<governance, clock, approvals, delegations, revoked, resumes, continued>>

\* A worker resumes the checkpoint of the approved run: it completes, it is told that it is a
\* duplicate, or it is aborted, before its continuation ran or after.
Resume ==
  /\ quorate # NoReceipt /\ quorate.accepted /\ Len(resumes) < Workers
  /\ \E outcome \in {"completed", "duplicate-rejected", "aborted"}, ran \in BOOLEAN :
       /\ outcome = "completed" => ran
       /\ outcome = "duplicate-rejected" => ~ran
       /\ resumes' = Append(resumes, outcome)
       /\ continued' = continued + (IF ran THEN 1 ELSE 0)
  /\ UNCHANGED <<governance, clock, approvals, delegations, revoked, quorate>>

\* HITLResumeReceipt.create
ResumeAccepted ==
  /\ Cardinality({i \in 1..Len(resumes) : resumes[i] = "completed"}) = 1
  /\ \A i \in 1..Len(resumes) : resumes[i] \in {"completed", "duplicate-rejected"}

Next == Tick \/ Approve \/ Delegate \/ Revoke \/ Evaluate \/ Resume
Spec == Init /\ [][Next]_governanceVars

-----------------------------------------------------------------------------
(* Properties                                                                 *)

\* An accepted quorum is one of people other than the requester, each of whom stood by the decision
\* at the moment of the evaluation: it was authenticated, neither revoked nor too old, and who
\* decided for another still was his delegate then.  An accepted resumption ran exactly one
\* continuation, although workers may be aborted before or after theirs.
ResumeIsGoverned ==
  /\ quorate.accepted =>
       \E signers \in SUBSET quorate.signers :
         /\ Cardinality(signers) = governance.quorum /\ Requester \notin signers
         /\ \A who \in signers : \E i \in 1..quorate.known \ quorate.revoked :
              /\ approvals[i].signer = who /\ approvals[i].verified
              /\ approvals[i].at + governance.age >= quorate.at
              /\ approvals[i].by # "none" =>
                   \E d \in delegations : d.from = approvals[i].by /\ d.to = who /\ d.until >= quorate.at
  /\ ResumeAccepted => continued = 1
=============================================================================
