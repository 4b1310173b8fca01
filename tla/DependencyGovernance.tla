-------------------------- MODULE DependencyGovernance --------------------------
(* One Dependabot pull request under the repository's own automation             *)
(* (.github/scripts/dependency_*.py): the reconciler that refreshes, approves and *)
(* merges it, the recovery of a transient failure that runs before it in the same *)
(* job, and the publisher that adds the compiled locks to the branch.  The two    *)
(* jobs run side by side, and between any two of their calls to GitHub Dependabot *)
(* may push, others may push, main may advance, checks may turn, and the owner    *)
(* may review.  A job may be cut off between two calls.                           *)
EXTENDS Naturals, Sequences, FiniteSets

CONSTANTS Workflows,    \* config["requiredWorkflows"]
          MaxHeads,     \* bound: heads of the branch
          MaxTurns      \* bound: what others do: pushes, commits on main, decisions, runs

VARIABLES main,       \* the live main, by number
          pr,         \* the pull request: state, head and base
          chain,      \* for each head so far: a bot's source, governed or not, a child, or another's
          ci,         \* for each head: status, run attempt and cause of its checks
          reviews,    \* the decisions of the owner account, in order
          commands,   \* native commands asked of Dependabot
          runs,       \* workflow runs on main: asked for, or registered
          gov,        \* the reconciler: where it is and its subject
          pub,        \* the publisher: where it is, its source and base
          seen        \* history: disturbances, merges, reruns asked for, heads thrown away

github == <<main, pr, chain, ci, reviews>>
governanceVars == <<main, pr, chain, ci, reviews, commands, runs, gov, pub, seen>>

Pending == [status |-> "pending", attempt |-> 1]
Idle == [at |-> "idle", head |-> 0, base |-> 0, todo |-> {}, waits |-> {}]
Resting == [at |-> "idle", source |-> 0, base |-> 0]
Init ==
  /\ main = 0 /\ pr = [state |-> "open", head |-> 1, base |-> 0]
  /\ chain = <<"source">> /\ ci = <<Pending>> /\ reviews = <<>>
  /\ commands = {} /\ runs = {} /\ gov = Idle /\ pub = Resting
  /\ seen = [turns |-> 0, merges |-> <<>>, reruns |-> <<0>>, dropped |-> {}]

-----------------------------------------------------------------------------
(* GitHub, Dependabot and people                                              *)

\* Something that others do between two calls of the jobs.
Disturbs == seen.turns < MaxTurns
Counted == seen' = [seen EXCEPT !.turns = @ + 1]
\* A push makes a new head, whose checks begin.
Pushed(kind, base) ==
  /\ Len(chain) < MaxHeads
  /\ chain' = Append(chain, kind) /\ ci' = Append(ci, Pending)
  /\ pr' = [pr EXCEPT !.head = Len(chain'), !.base = base]
Pushes(kind, base) ==
  /\ Disturbs /\ pr.state = "open" /\ Pushed(kind, base)
  /\ seen' = [seen EXCEPT !.turns = @ + 1, !.reruns = Append(@, 0)]
  /\ UNCHANGED <<main, reviews, commands, runs, gov, pub>>
DependabotPushes == \E kind \in {"source", "ungoverned"} : Pushes(kind, main)
OtherPushes == Pushes("other", pr.base)
MainAdvances ==
  /\ Disturbs /\ Counted /\ main' = main + 1
  /\ UNCHANGED <<pr, chain, ci, reviews, commands, runs, gov, pub>>
\* The checks of a head that the branch has left are looked at by nobody.
ChecksEnd ==
  \E outcome \in {"success", "failure", "transient"} :
    /\ ci[pr.head].status = "pending" /\ ci' = [ci EXCEPT ![pr.head].status = outcome]
    /\ UNCHANGED <<main, pr, chain, reviews, commands, runs, gov, pub, seen>>
\* GitHub starts the failed jobs of a completed run again, whoever asks.
Rerun(head) ==
  /\ ci[head].status \in {"failure", "transient"}
  /\ ci' = [ci EXCEPT ![head] = [status |-> "pending", attempt |-> @.attempt + 1]]
PersonReruns ==
  /\ Disturbs /\ Counted /\ Rerun(pr.head)
  /\ UNCHANGED <<main, pr, chain, reviews, commands, runs, gov, pub>>
OwnerDecides ==
  /\ Disturbs /\ Counted /\ pr.state = "open"
  /\ \E says \in {"approve", "veto"} :
       reviews' = Append(reviews, [who |-> "person", says |-> says, head |-> pr.head])
  /\ UNCHANGED <<main, pr, chain, ci, commands, runs, gov, pub>>
\* A command that was asked for long enough ago may be escalated.
CommandAges ==
  \E c \in commands :
    /\ ~c.old /\ commands' = (commands \ {c}) \cup {[c EXCEPT !.old = TRUE]}
    /\ UNCHANGED <<main, pr, chain, ci, reviews, runs, gov, pub, seen>>
\* A dispatched workflow registers, on whatever main is by then, and it may fail.
RunRegisters ==
  \E r \in runs : \E outcome \in {"running", "failed"} :
    /\ r.status = "asked"
    /\ runs' = (runs \ {r}) \cup {[r EXCEPT !.status = outcome, !.subject = main]}
    /\ UNCHANGED <<main, pr, chain, ci, reviews, commands, gov, pub, seen>>
\* A push to main, or a person, may start the same workflow.
RunStarts ==
  \E w \in Workflows :
    /\ Disturbs /\ Counted
    /\ runs' = runs \cup {[workflow |-> w, event |-> "push", subject |-> main, status |-> "running"]}
    /\ UNCHANGED <<main, pr, chain, ci, reviews, commands, gov, pub>>

-----------------------------------------------------------------------------
(* What a job reads of them                                                   *)

\* validate_published_pip_chain: the publisher's child of a bot commit.
Published(h) == chain[h] = "child" /\ chain[h - 1] = "source"
\* validate_commits: a signed commit of the bot, or a published child of one.
BotsOwn(h) == chain[h] \in {"source", "ungoverned"} \/ Published(h)
\* validate_change_semantics: a change that needs no decision of a person.
Governed(h) == chain[h] # "ungoverned"
\* validate_pr_identity: open, at this head, and based on the live main.
Identity(head, base) == pr = [state |-> "open", head |-> head, base |-> base] /\ base = main
\* require_green_checks
Green(head) == ci[head].status = "success"
\* assess, and the equality of what it finds with an earlier subject.
Assess(head, base, checked) ==
  Identity(head, base) /\ BotsOwn(head) /\ Governed(head) /\ (checked => Green(head))
\* _owner_review_decision
Decision(head) ==
  IF reviews = <<>> THEN "none"
  ELSE LET last == reviews[Len(reviews)] IN
       CASE last.says = "veto" -> "veto"
         [] last.says = "approve" /\ last.head = head -> "approved"
         [] OTHER -> IF \E i \in 1..Len(reviews) : reviews[i].says = "veto" THEN "veto" ELSE "none"
\* _next_native_refresh_action
NextRefresh(head, base) ==
  LET asked(a) == {c \in commands : c.head = head /\ c.onto = base /\ c.action = a} IN
  CASE asked("rebase") = {} -> "rebase"
    [] asked("rebase") # {} /\ asked("recreate") = {} /\ (\A c \in asked("rebase") : c.old) -> "recreate"
    [] OTHER -> "none"

-----------------------------------------------------------------------------
(* The reconciler                                                             *)

Step(from, to) == gov.at = from /\ gov' = [gov EXCEPT !.at = to]
Ends(from) == gov.at = from /\ gov' = Idle
Unwritten == UNCHANGED <<commands, runs, seen>>

\* reconcile and _request_stale_dependabot_refresh, which keeps main as the base of its command.
Reconcile ==
  /\ gov.at = "idle" /\ pr.state = "open"
  /\ gov' = IF BotsOwn(pr.head) /\ Governed(pr.head) /\ pr.base # main THEN [Idle EXCEPT !.at = "refresh", !.head = pr.head, !.base = main]
            ELSE IF Assess(pr.head, pr.base, TRUE) THEN [Idle EXCEPT !.at = "review", !.head = pr.head, !.base = main]
            ELSE Idle
  /\ gov' # gov
  /\ Unwritten /\ UNCHANGED <<github, pub>>
\* The leases are read once more before the command, which is another call.
RefreshLeases ==
  /\ NextRefresh(gov.head, gov.base) # "none" /\ pr.head = gov.head /\ main = gov.base
  /\ Step("refresh", "command") /\ Unwritten /\ UNCHANGED <<github, pub>>
RefreshCommand ==
  /\ Ends("command")
  /\ commands' = commands \cup
       {[head |-> gov.head, onto |-> gov.base, action |-> NextRefresh(gov.head, gov.base), old |-> FALSE]}
  /\ UNCHANGED <<github, runs, pub, seen>>

\* _ensure_owner_review_and_approval: the veto is looked for before the comment and after it.
\* The comment, at most one for a head, is read by nothing else.
HonorVeto ==
  /\ Decision(gov.head) # "veto" /\ Step("review", "decide") /\ Unwritten /\ UNCHANGED <<github, pub>>
ReadDecision ==
  /\ gov.at = "decide" /\ Decision(gov.head) # "veto"
  /\ Step("decide", IF Decision(gov.head) = "approved" THEN "confirm" ELSE "approve")
  /\ Unwritten /\ UNCHANGED <<github, pub>>
Approve ==
  /\ Step("approve", "confirm")
  /\ reviews' = Append(reviews, [who |-> "automation", says |-> "approve", head |-> gov.head])
  /\ Unwritten /\ UNCHANGED <<main, pr, chain, ci, pub>>
\* What is read again after the approval, in reconcile and once more in _merge.
Revalidate ==
  /\ Decision(gov.head) = "approved" /\ Assess(gov.head, gov.base, TRUE)
  /\ Step("confirm", "merge") /\ Unwritten /\ UNCHANGED <<github, pub>>

\* Mutant: the merge is asked for without the head it is meant for.
FaultyMergeableAnyHead == pr.state = "open"
\* GitHub merges the exact head it is asked for, onto main as it is then.
Mergeable == pr.state = "open" /\ pr.head = gov.head
Merge ==
  /\ Mergeable /\ Step("merge", "verify")
  /\ main' = main + 1 /\ pr' = [pr EXCEPT !.state = "merged"]
  /\ seen' = [seen EXCEPT !.merges = Append(@, [head |-> pr.head, onto |-> main, base |-> gov.base, reported |-> FALSE])]
  /\ UNCHANGED <<chain, ci, reviews, commands, runs, pub>>
LastMerge == seen.merges[Len(seen.merges)]
Subject == LastMerge.onto + 1
\* _verify_actual_merge_commit
VerifyMerge ==
  /\ gov.at = "verify" /\ LastMerge.onto = gov.base /\ main = Subject
  /\ gov' = [gov EXCEPT !.at = "qualify", !.todo = Workflows]
  /\ Unwritten /\ UNCHANGED <<github, pub>>

\* _select_post_merge_workflow_run: the runs of a workflow for the merge commit, of which
\* none may have failed and more than one is ambiguous.
Candidates(w) == {r \in runs : r.workflow = w /\ r.status # "asked" /\ r.subject = Subject}
TheRun(w, events) ==
  \E r \in Candidates(w) : Candidates(w) = {r} /\ r.status = "running" /\ r.event \in events
\* _ensure_post_merge_workflow: found, or asked for and then waited for.
Qualify ==
  /\ gov.at = "qualify" /\ main = Subject
  /\ \E w \in gov.todo :
       \/ Candidates(w) = {} /\ gov' = [gov EXCEPT !.at = "dispatch", !.waits = {w}]
       \/ TheRun(w, {"push", "dispatch"}) /\ gov' = [gov EXCEPT !.todo = @ \ {w}]
  /\ Unwritten /\ UNCHANGED <<github, pub>>
Dispatch ==
  /\ Step("dispatch", "await")
  /\ runs' = runs \cup
       {[workflow |-> w, event |-> "dispatch", subject |-> 0, status |-> "asked"] : w \in gov.waits}
  /\ UNCHANGED <<github, commands, pub, seen>>
Registered ==
  /\ gov.at = "await" /\ \A w \in gov.waits : TheRun(w, {"dispatch"})
  /\ gov' = [gov EXCEPT !.at = "qualify", !.todo = @ \ gov.waits, !.waits = {}]
  /\ Unwritten /\ UNCHANGED <<github, pub>>
\* The merge is reported with its evidence, in the decision the job prints.
Report ==
  /\ gov.todo = {} /\ Ends("qualify")
  /\ seen' = [seen EXCEPT !.merges[Len(seen.merges)].reported = TRUE]
  /\ UNCHANGED <<github, commands, runs, pub>>
\* A block, an error, a declined call or the end of its patience: the job stops where it is.
GovernorEnds ==
  /\ gov.at # "idle" /\ gov' = Idle /\ Unwritten /\ UNCHANGED <<github, pub>>

-----------------------------------------------------------------------------
(* The recovery of a transient failure, before the reconciler in the same job *)

\* Mutant: the attempt of the run is not looked at.
FaultyRetriable(run) == run.status = "transient"
\* _recover_run and classify_failed_job: one failed leaf, of a transient cause, at its first attempt.
Retriable(run) == run.status = "transient" /\ run.attempt < 2
RecoverReads ==
  /\ gov.at = "idle" /\ pr.state = "open" /\ Assess(pr.head, pr.base, FALSE) /\ Retriable(ci[pr.head])
  /\ gov' = [Idle EXCEPT !.at = "rerun", !.head = pr.head] /\ Unwritten /\ UNCHANGED <<github, pub>>
RecoverReruns ==
  /\ Ends("rerun") /\ Rerun(gov.head)
  /\ seen' = [seen EXCEPT !.reruns[gov.head] = @ + 1]
  /\ UNCHANGED <<main, pr, chain, reviews, commands, runs, pub>>

-----------------------------------------------------------------------------
(* The publisher of compiled locks, a job of its own                          *)

PubStep(from, to) == pub.at = from /\ pub' = [pub EXCEPT !.at = to]
\* validate_run: the compiled run is of the present head, a signed manifest commit.
PublisherValidates ==
  /\ pub.at = "idle" /\ chain[pr.head] = "source" /\ Assess(pr.head, pr.base, FALSE)
  /\ pub' = [at |-> "revalidate", source |-> pr.head, base |-> pr.base]
  /\ Unwritten /\ UNCHANGED <<github, gov>>
\* publish, once the artifacts are validated
PublishRevalidates ==
  /\ pr = [state |-> "open", head |-> pub.source, base |-> pub.base]
  /\ PubStep("revalidate", "ref") /\ Unwritten /\ UNCHANGED <<github, gov>>
PublishChecksRef ==
  /\ pr.head = pub.source /\ PubStep("ref", "update") /\ Unwritten /\ UNCHANGED <<github, gov>>
\* A ref that is not forced moves only along its history.
FastForward(source) == pr.head = source
PublishUpdates ==
  /\ pub.at = "update" /\ FastForward(pub.source) /\ pr.state = "open"
  /\ Pushed("child", pr.base) /\ pub' = Resting
  /\ seen' = [seen EXCEPT !.reruns = Append(@, 0),
                          !.dropped = IF pr.head = pub.source THEN @ ELSE @ \cup {pr.head}]
  /\ UNCHANGED <<main, reviews, commands, runs, gov>>
PublisherEnds ==
  /\ pub.at # "idle" /\ pub' = Resting /\ Unwritten /\ UNCHANGED <<github, gov>>

-----------------------------------------------------------------------------
Environment ==
  \/ DependabotPushes \/ OtherPushes \/ MainAdvances \/ ChecksEnd \/ PersonReruns
  \/ OwnerDecides \/ CommandAges \/ RunRegisters \/ RunStarts
Governor ==
  \/ Reconcile \/ RefreshLeases \/ RefreshCommand \/ HonorVeto \/ ReadDecision \/ Approve
  \/ Revalidate \/ Merge \/ VerifyMerge \/ Qualify \/ Dispatch \/ Registered \/ Report
  \/ GovernorEnds \/ RecoverReads \/ RecoverReruns
Publisher ==
  \/ PublisherValidates \/ PublishRevalidates \/ PublishChecksRef \/ PublishUpdates \/ PublisherEnds
Next == Environment \/ Governor \/ Publisher
Spec == Init /\ [][Next]_governanceVars

-----------------------------------------------------------------------------
(* What is merged is exactly what was assessed, whatever moves between two     *)
(* calls: each merged head is a governed commit of the bot or its child, its      *)
(* own checks succeeded, and the owner account approved that very head.  A merge  *)
(* that is reported landed on the main it was assessed against, and every required *)
(* workflow runs on the merge commit itself.                                       *)
GovernedMergesAreExact ==
  \A i \in 1..Len(seen.merges) : LET m == seen.merges[i] IN
    /\ BotsOwn(m.head) /\ Governed(m.head)
    /\ Green(m.head)
    /\ \E k \in 1..Len(reviews) : reviews[k].says = "approve" /\ reviews[k].head = m.head
    /\ m.reported =>
         /\ m.onto = m.base
         /\ \A w \in Workflows : \E r \in runs :
              r.workflow = w /\ r.subject = m.onto + 1 /\ r.status = "running"

(* However often the jobs run and are cut off: at most one automatic rerun for  *)
(* each head, at most one command of each kind for a head and a main, no recreate *)
(* before the rebase has aged, and the publisher throws nobody's commit away.      *)
AutomationIsBounded ==
  /\ \A h \in 1..Len(chain) : seen.reruns[h] <= 1
  /\ \A c, d \in commands : c.head = d.head /\ c.onto = d.onto /\ c.action = d.action => c = d
  /\ \A c \in commands : c.action = "recreate" =>
       \E d \in commands : d.head = c.head /\ d.onto = c.onto /\ d.action = "rebase" /\ d.old
  /\ seen.dropped = {}

(* A veto that a person submits is not overwritten by the automated approval    *)
(* (_ensure_owner_review_and_approval reads the reviews again after its comment   *)
(* for this).  It does not hold: the veto may arrive after that second reading.    *)
VetoStands ==
  \A i \in 2..Len(reviews) : reviews[i].who = "automation" => reviews[i - 1].says # "veto"
=============================================================================
