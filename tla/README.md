# A formal model of the agent-evals framework

The repository is an evaluation framework for AI agents (Python package `agent_evals`, about
37,500 lines under `src/src/agent_evals`) and the automation that guards it (`src/.github/scripts`).
The framework runs an agent adapter against a scenario, collects evidence, grades it, stores it
under content-addressed names, repeats trials in sessions and turns the counts into release
decisions. Around that it has laboratories that produce known faults (MCP servers, OAuth servers,
hosted servers, memory stores), bridges that turn what an agent did there into evidence, and
receipts that conclude from observations. Its worth lies in what it refuses: a verdict it could
not explain, a sample with the bad attempts left out, evidence that was overwritten, a receipt
for something that did not happen. This directory states those refusals as TLA+ properties,
model-checks them with TLC on small instances and proves the most important ones with TLAPS.

Paths below are relative to `src/src/agent_evals/` unless they begin with `.github`.
`PROJECT.json` holds the exact lines that each definition translates.

## 1. The system

### Parts that hold state or act concurrently

| Part | State | Operations | Interacts with |
|---|---|---|---|
| Evidence store (`evidence/store.py`, `hardened_store.py`) | per record: payload, manifest, lock file in one bucket | `write` (lock, presence check, stage, link, fsync, unlock), lock-free `read` | processes, through the filesystem |
| Lock quarantine (`evidence/resilience.py`) | quarantine directory | `inspect_record_lock`, `quarantine_record_lock` | the store's lock path |
| Blobs and retention (`evidence/blob_store.py`, `retention.py`) | files named by the digest of their body | `put_if_absent`, `write`, `read`; plan, confirm, execute a collection | writers, replication |
| Replication (`evidence/replication.py`) | none of its own | snapshot, WORM probe, copy, readback, receipt | source store, targets |
| Trial runner (`runtime/_evaluator_core.py`, `evaluator.py`, `preconditions.py`), replay adapter | one trial in progress | `run`: copy the contract, await the adapter, check, grade, maybe await a judge, seal | adapter, judge, clock, caller |
| Evaluation session (`runtime/session.py`, `reset_isolation.py`, `sampling.py`) | trials and control receipts of a campaign | `run`, `validate`, qualified metrics | trial runner, controls |
| Agents SDK adapter (`adapters/openai_agents.py`, `openai_handoff_authority.py`, `adversarial/delivery.py`) | one-shot recorder of the injected stimulus | prepare, run, normalise items, verify delivery | SDK runner, trial runner |
| MCP laboratory (`mcp/lab.py`) and bridges (`adapters/openai_mcp_tool_*.py`, `mcp/agent_*_bridge.py`, `mcp/delivery.py`) | the faulty server, the client's cached listing; a recorder per run | list, call, drift; record, decide whether the story is complete, attach and verify a bridge event | SDK runner, server |
| Human approval in a trial (`adapters/openai_hitl_approval.py`, `evidence/approval_intent.py`, `oracles/deterministic.py`, `authority.py`) | paused run, the one decided call | pause, decide, resume, merge both runs, verify, grade | SDK runner, trial runner |
| Approval governance (`hitl.py`) | decisions, delegations, revocations | evaluate a quorum, issue and check resume receipts | people, checkpoints, workers |
| Side effects (`adapters/openai_side_effect_idempotency.py`, `side_effect/`) | samples of an effect state, attempts of workers | observe, bind, verify, grade; sum up, acknowledge | the tool under test, workers |
| OAuth laboratory (`mcp/oauth_flow.py`, `remote_auth.py`, `oauth_advanced.py`) | clients, codes, tokens, counters | register, authorize, exchange, introspect, serve; receipts over matrix, session, drift | SDK client |
| Hosted servers (`mcp/advanced.py`) | none | probe, classify, conclude | servers, proxies |
| Report and gates (`assurance/report.py`, `gates/`, `runtime/release_verification.py`) | a report under construction | take over trials, verify criticality, decide, combine slices | session results |
| Provider canary (`live_provider.py`) | budget of time, attempts, cost | attempt, wait, stop | a provider |
| Delta debugging (`minimization/delta.py`) | smallest failing input, budget | split, test, reduce | a predicate |
| Memory receipts (`memory.py`) | a trace of one record | observe, conclude | a memory store |
| Dependency automation (`.github/scripts/dependency_governance.py`, `dependency_recovery.py`, `dependency_lock_publisher.py`) | none: everything is on GitHub | refresh, approve, merge, verify, dispatch; rerun; publish locks | GitHub, Dependabot, people |
| Code scan publication (`.github/scripts/verify_codeql_pr_publication.py`, `verify_required_codeql.py`, `verify_native_pr_codeql.py`) | none: runs, reports and checks are on GitHub | discover, verify, download, verify again, upload; the gate waits, then reads evidence, main and pull request | GitHub, Code Scanning, people |

The remainder is data without a life of its own: statistics, contracts, adversarial cases,
retrieval, calibration, encodings, the command line, and scripts that check one snapshot.
`PROJECT.json` lists all of it under `components`, with the reason it is or is not modelled.

### What is hard here, and what must hold all the same

* **Evidence store.** No reader lock; crashes between any two system calls; the lock can be taken
  away by an operator. A manifest must be a commit marker, an acknowledged write must survive a
  power loss, nothing published may be replaced, all answers must agree, and a stale lock must
  not block writers for ever.
* **Blobs, retention, replication.** A file is created under its final name and filled
  afterwards; collections delete by an earlier plan; a replication may stop at any step. What a
  receipt says was copied must be there and stay, WORM credit must have been observed.
* **Trial runner and session.** Adapter, judge, caller and clock act between any two steps, and
  attempts that timed out may still be running. A verdict must be timely, follow from the sealed
  evidence and concern the contract submitted; the sample must be every attempt in order.
* **Agents SDK.** Calls of one turn run concurrently, items come back ordered by turn and not
  by time, guardrails trip anywhere, names and call identities are not reliable. What is on record
  as delivered must have reached the subject, at the place where the record has it.
* **Bridges.** Recorders read and write their fields between awaits, and the server changes while
  a listing is cached. A bridge event must tell what server and model really did.
* **Approval.** A decision applies to one interrupted call, the record is made of two runs under
  one turn budget, and the SDK may hide the second. Decisions age, are revoked and delegated.
* **Receipts.** They conclude from observations of another party that may be at fault, whose
  effects may land late or unseen. What they say of that party must be so.
* **Gates.** Blocked trials, missing trials, hidden violations and small counts must not make a
  release look better than its evidence.
* **Dependency automation.** Each job reads GitHub in many calls and acts in another; head, main,
  checks, reviews and the other job move in between, and any job may be cut off and run again.
* **Code scans.** Nothing binds the dozen reads of a verification to one moment, a report is listed
  some time after its upload, and a run may be run again while its report is downloaded. What is
  published must be a scan of a head that was live on the job's main, once, and the gate must not
  accept a scan that was overtaken while it read.

## 2. The modules

| Module | Models |
|---|---|
| `EvidenceRegister` | abstract: a write-once register that never forgets an acknowledged value |
| `EvidenceStore` | one record of the store, system call by system call, with lock quarantine |
| `BlobStore`, `Replication` (extends it) | the content-addressed store, its writers and collector; replication and WORM probe against the live store |
| `TrialRunner` | runner, facade and replay adapter with adapter, judge, clock, caller |
| `EvaluationSession` | the session, its controls, validation and qualified metrics |
| `McpLab`, `McpBridge` (extends it) | the fault laboratory and its probe; an agent working through it, its recorders, bridge events and their verification |
| `AgentRun` | a trial under the Agents SDK with an injected stimulus and delegated authority |
| `PolicyOracle`, `ApprovalLifecycle` (extends it) | the policy oracle and authority along handoffs; an interrupted and resumed trial, its verification and grade |
| `SideEffects` | two observed calls of a tool, and one operation delivered to workers |
| `OAuthFlow`, `OAuthQualification`, `HostedMcp` | the loopback grant; receipts over faulty servers; receipts over hosted servers |
| `ReleaseGates` | from trials to the decision on a release |
| `ProviderCanary`, `DeltaDebugging`, `ApprovalGovernance`, `MemoryAssurance` | the parts of those names |
| `DependencyGovernance` | reconciler, recovery and publisher over one pull request |
| `ScanPublication` | the job that publishes scans of pull requests, and the gate in CI that waits for them |
| `MCEvidenceStore`, `MCReplication` | constants and symmetry for TLC |
| `Assurance` | gates, canary, delta debugging, governance, memory, code scans and dependency automation in one specification, whose constants are those of its parts |
| `MCRuntime` | `TrialRunner` and `EvaluationSession` in one instance |
| `Adapters` | the bridges, agent run, approval, side effects, OAuth and hosted servers in one specification, whose constants are those of its parts |
| `MCAdapters`, `MCAssurance` | values for the constants of `Adapters` and `Assurance` |
| `EvidenceStoreProofs`, `ReplicationProofs` | theorems about the specifications of those names |
| `RuntimeProofs` | theorems about `TrialRunner` and `EvaluationSession` |
| `AssuranceProofs` | theorems about `Assurance`, with the dependency automation and the publication of scans |
| `AdaptersProofs`; `ApprovalProofs`; `BridgeProofs` and, on top of it, `BridgeEvidenceProofs` | theorems about `Adapters`: all but two of its properties; human approval; the bridges during a run, and the evidence they leave |

`MCRuntime`, `Adapters` and `Assurance` put components that share no state into one
specification: a behaviour is about one of them, named by `part`, and the others rest. `MCRuntime`
EXTENDS both of its parts, and `Assurance` extends the dependency automation and the publication
of scans, so that their properties are the ones the theorems speak of; the other parts are
instances. The components that do interact are composed in the modules above: `Replication` with
`BlobStore`, `McpBridge` with `McpLab`, `ApprovalLifecycle` with `PolicyOracle`, writers with
quarantine, runner with replay, the three jobs of the automation with one another.

Operators whose names begin with `Faulty`, or that name an omission (`SyncFileSkipped`,
`Unchecked`...), are used by no action: each is the form a definition would have with one plausible
defect, and `PROJECT.json` names the property that finds it.

### EvidenceStore

Record keys do not share files, so one record is modelled. `dir` is the directory that
processes see, `disk` what survives a power loss; `Writeback` lets the kernel copy any entry
early. A writer's `pc` follows `_write_prepared`: `AcquireLock` (O_EXCL create, later
identity check), `PresencePayload` and `PresenceManifest`, then for payload and manifest in
turn `Stage`, `SyncFile`, `Publish` (link, never replace), `SyncDirectory`, `Unstage`, and the
`finally` clause `ReleaseVerify`, `ReleaseUnlink`, `ReleaseSync`. When the record exists, the writer
reads it with the same steps as `read` (`ReadPresence`, `ReadManifest`, `ReadPayload`).
`HardenedWriters` fsync where only the hardened store does. `MaterializeFails`, `WriterCrash`,
`OperatorCrash` and `PowerLoss` may come between any two calls. An operator inspects, confirms,
links the lock to its quarantine name, compares identities, unlinks the path and syncs.
`LiveReview` says whether the person who confirms may be wrong about the writer being dead.
`HoldsLock` is from the acquisition up to the unlink: a writer whose directory sync is all that is
left of its release no longer excludes anybody.
Left out: symlink and ownership checks, tampering, directory creation, byte formats.

### BlobStore and Replication

A file of backend `b` under key `k` is absent, partial (with the process that has it open),
whole in one of two envelope forms, or garbage (the probe's conflicting bytes). Writers put,
fill, compare, return a manifest and then `Refer` to the object; others `LetGo`. A collector
snapshots references, plans, confirms and deletes. A replicator lists and reads the source,
probes each target (put a sentinel, try to clobber it, re-read, try to delete), then copies and
reads back every object and issues a receipt. Any process may stop with a file half-written.
`Exclusive` says whether the operator keeps collectors and writers apart, as the retention
documentation asks. All replicators use one challenge, so a target has one sentinel.
Left out: symlink and size checks, receipt roots, minimization receipts, backends that lie.

### TrialRunner and EvaluationSession

`pc` follows `_run_trial`; every check of the deadline, every early return and both awaits are
actions. `caller` and `exec` are the caller's contract and the adapter's copy of it, and both
change freely (`CallerEdits`, `AdapterMutates`); `task` is the call being awaited, which may
end late, never, or with an exception; `Expire` moves the clock. Oracles, pre-grading closure
and semantic binding are abstracted to what they find (`Merits`, `bound`). `archive` holds
returned trials, with the capabilities the facade issued, and `SubmitReplay` replays one of them
under its own or another contract.

In the session, `stage` says where `run` stands. `Called` covers the argument checks, `Advance` the head of the loop, then the two
controls are awaited (`ResetAnswers`, `SeedAnswers`, `SeedRepeats`, `ControlFails`), an attempt
begins and returns or times out, leaving its adapter task in `running`. `Finish` builds the result.
`Alter` changes evidence somebody still holds, `IssueMetrics` is the caller asking for qualified
metrics. A caller may cancel at any await. One session object is used several times in sequence;
sessions share nothing but adapter tasks left over. `Valid` translates `validate`. Campaign
identities are not reused: a caller who passes one explicit campaign ID twice could exchange the
last attempts of two runs. Ceilings on trials and `k` are looked at in `Finish`, where the code
looks at them, after all attempts ran.

### McpLab and McpBridge

`kind` is the fault, `live` what the server offers, `cache` the client's listing, which may expire
between any two requests. The probe's steps follow the laboratory's experiments: list, drift,
list from the cache, call, refresh, call again, receipt. In `McpBridge` a model lists the tools of
a turn, makes up to `MaxCalls` calls that run concurrently, sees their answers when the turn ends,
and stops, refuses or exhausts its turns; `control` is what the evaluator's own control tool does
when the model calls it. `ServeCall` and `ResumeCall` are the two sides of a recorder's await:
what is read before and what is written after. `VerifyRecovery` and `Attach` build the bridge event
from the recorder, or refuse the run, and `Verified` is what a reader of the evidence recomputes.
`hist` tells the story independently of the recorder; `Faithful` reads it.
Left out: schemas, tool text and arguments (model values), canonical JSON, stdio parameters.

### AgentRun, PolicyOracle, ApprovalLifecycle

`AgentRun` goes from `PrepareExecution`, where most channels deliver the stimulus in the inputs
themselves, through turns of concurrent `InvokeTool` steps, context reads and handoffs to one of
the ends of a run: output, approval needed, failure, tripwire, turn budget. The injector's
`recorder` fires once. `NormalizeItems` puts the delivery among the SDK's items; items may carry
the wrong agent and calls may lack an identity. `given` is what really happened.

`ApprovalLifecycle` runs until a protected tool is called, decides that one call, resumes under the
rest of the turn budget and merges both runs into `events`. The SDK chooses which calls it
interrupts, the form in which it returns a resumed run (all items or only new ones) and whether it
shows the items of an exhausted run. `VerifyApprovalIntent` and the oracle's `Grade` judge the
record; `ran` is what really ran. `PolicyOracle` translates `PolicyOracle.grade` and the
replay of delegated authority; `OutcomeOracle` compares fields of a final state and is left out.

### SideEffects

`ops` are the calls of a turn, each sampled before and after its callback, with the callbacks
interleaved; a mutation may land late (`LateEffect`). `BindObservation` builds the record and
`VerifySideEffectObservation`, `GradeIdempotent` and `SecondEffect` read it. With workers, `Attempt`
delivers one operation again and again, with lost answers, rejected duplicates and rollbacks, and
`CreateReceipt` sums up.

### OAuthFlow, OAuthQualification, HostedMcp

`OAuthFlow` has both servers of the loopback laboratory and the SDK client between them: any answer
may be lost, tokens expire between introspection and use, and whatever is refused starts a new
flow. `OAuthQualification` lets servers be faulty (`broken`) and asks what an accepted receipt says
about them: the matrix of tokens, a session with rotation, refresh, revocation and replay, and a
contraction of scopes. `HostedMcp` records what really happened on the network or at the server
(`exchanges`, `together`) beside what the probe concludes (`receipt`). URLs, keys, headers and
digests are identities.

### ReleaseGates

A trial is what it claims with the facts of its evidence; `TakeTrial` takes it over only if the
claim can be derived again. `VerifyCriticality` binds a count of critical violations to the trials
there are. `Decide` translates the release gate; its Wilson bound is computed in exact integers (`Z2`
is the square of confidence_z in hundredths), which decides as the floating-point formula does
except where that rounds. The ladders of `if` in the gates are IF/ELSE here: the arms of a CASE whose
guards overlap have no order. `AddSlice` and `DecideRelease` combine sessions by risk family, with one
operational latency threshold. Digests are identities.

### ProviderCanary, DeltaDebugging, ApprovalGovernance, MemoryAssurance

The canary's clock moves with requests, waits and oversleeping; the provider charges for a request
whatever becomes of its answer, and `charged` is what it has charged so far, beside the `cost` that
the canary has on record. `DeltaDebugging` evaluates one candidate per step, and the predicate
is chosen as it is asked, so that it is any function. `ApprovalGovernance` collects decisions, some
by delegates, while the clock runs and decisions are revoked; an evaluation makes a receipt that
workers present with checkpoints. `MemoryAssurance` traces one record in a store with any set of
faults, and asks which sets an accepted receipt can coexist with.

### DependencyGovernance

`main` and `pr` are numbers of commits; `chain` gives each head of the branch its origin, `ci` its
checks with run attempt and cause of failure. The reconciler's steps are its calls: read the pull
request (`Reconcile`), ask Dependabot for a rebase or recreation under a lease, read reviews,
comment, read them again, approve, revalidate, merge, verify the merge commit, look for, dispatch
and await the required workflows, report. `RecoverReads` and `RecoverReruns` run before it in the
same job, the publisher beside it. Between any two calls others push, advance main, rerun, review
or start workflows (`MaxTurns` bounds these), and any job may end where it stands
(`GovernorEnds`, `PublisherEnds`). What a diff or a log line must look like is the kind of a head
and the cause of a failure. Each assessment (several reads of one pull request) is one step.
GitHub's strict-base rule is not assumed. `publishTrustedStatus` is off in the configuration, and
that path is left out.

### ScanPublication

`tip` is main, `heads` every head so far with its pull request, the main it contains and what kind it
is (files of the scan as on main or with signed pins, altered, from a fork). `scans` are runs
with their attempts, `uploads` the reports given to Code Scanning and whether each is listed, `natives`
the native checks of each head. The publisher's steps are its calls: compare main with the commit it is
pinned to (`DiscoverMain`), list pull requests and runs, take the newest run of each head, verify
(`VerifyRun`, `VerifyPull`, `VerifyLive`, `VerifySource`, `VerifyArtifact`), read both inventories,
`Download`, do all of that again, `Upload`, wait. The workflow's concurrency group makes it one job at
a time. The gate waits for all scans of its head (`RequireCodeQL`), then reads checks, analyses, main and
pull request in this order and polls until they qualify. Between any two reads heads, main, bases,
runs, reports and checks move. `past` remembers which heads were exact, and with what evidence,
at each instant so far, so that a property can speak of an instant no single call looks at.
What a diff, a file or a report must look like is the kind of a head and the soundness of a run.
GitHub computes the merge tree at once. Left out: the gate's third stage, which waits for the
Security workflow in the same way as the first, and retries of single reads.

## 3. What the runs check

| Run | Instance | Distinct states | Shows |
|---|---|---|---|
| `store_power` | a hardened and a portable writer, a reader, one power loss, 3 locks, 2 values | 243,346 | the record is a crash-consistent write-once register: it implements `EvidenceRegister` |
| `store_quarantine` | 2 writers (one hardened), 2 operators, one operator crash, fair | 127,396 | quarantine of dead writers' locks keeps exclusion, removes only the observed lock, clears stale locks |
| `store_live_quarantine` | 2 writers, a reader, an operator who may be wrong | 495,236 | two writers inside at once never replace an artifact and all answers agree |
| `replication` | 2 writers, a collector kept apart, a replicator, a WORM and an ordinary target, one stop | 2,916,426 | replicas are exact and stay; WORM credit is earned; referenced evidence is readable |
| `runtime` | a live trial and a replay, 3 adapter types, 2 evidence kinds; or 2 session runs of up to 2 attempts, 2 seeds; fair | 557,878 | verdicts are timely, explained by evidence, of one contract and replayable; the sample is every attempt, prepared as claimed; metrics are of final evidence; trials and runs with deadlines end |
| `adapters` | six MCP faults, 3 turns and calls; 5 ways of delivery; 4 turns and 3 calls around an approval; 3 calls or deliveries of an effect; OAuth and hosted servers | 1,507,802 | what is put on record is what happened |
| `assurance` | up to 3 trials and 2 slices; canary limits; inputs of up to 5 items; 3 people; all sets of 5 memory faults; a pull request with 3 heads; one with 2 heads, 2 scans and a gate | 4,116,487 | decisions are supported, budgets hold, merges are exact, scans are earned |
| `store_replacement`, `replication_retry`, `approval_unresolved`, `oauth_refresh`, `dependency_veto` | | violation | findings 1 to 5 |

The properties of `runtime`, `adapters` and `assurance` by component:

* trials: `TimelyVerdict`, `OneContract`, `EvidenceExplainsVerdict`, `LiveAuthority`, `ReplayStable`,
  `DeadlineReturns`; sessions: `EveryAttemptCounts`, `AttemptsArePrepared`, `OverlapIsVisible`,
  `OnlyWholeSamplesValidate`, `MetricsOfFinalEvidence`, `SessionEnds`.
* MCP: a probe's receipt means the server really drifted (`ReceiptMeansDrift`); a run gets a bridge
  event exactly if its story is true, and a reader can verify it (`BridgeIsTrue`).
* agent run: delivery is verified exactly if the stimulus reached the subject, stands where it
  happened, and owners are exact (`RecordIsTrue`).
* approval: a passing trial ran the protected tool as the decision said, and a bypass without a
  decision is graded, and fails (`ApprovalIsGraded`).
* side effects: a verdict counts what landed, and a settled receipt is for one mutation
  (`EffectsAreCounted`).
* remote servers: receipts stand for one grant, for refusals, for healthy exchanges, for the true
  parallelism (`RemoteReceiptsAreEarned`).
* gates: nothing compensates for a critical violation, and acceptance rests on trials whose own
  evidence is that of a success (`GateIsSound`).
* canary: charges, times and the observation (`CanaryIsBounded`); ddmin: the result failed, keeps
  order, and is 1-minimal unless the budget ran out (`MinimizationIsSound`).
* governance: a quorum of valid decisions stands behind each accepted resumption, which continued
  once (`ResumeIsGoverned`); memory: an accepted receipt excludes the faults it speaks of
  (`AcceptedMemoryHolds`).
* dependencies: what is merged is a governed, green, approved head, and what is reported landed on
  the assessed main with its workflows running on it (`GovernedMergesAreExact`); at most one rerun
  and one command of a kind, and no commit thrown away (`AutomationIsBounded`).
* scans (`ScansAreEarned`): a published report is that of the first attempt of a sound run of a
  trusted head, which at one instant was live and based on the job's main; a head is published twice
  only if a job gave up waiting; and when the gate accepts, there was an instant with head, main
  and evidence as it says.

### Why the bounds suffice

* **Store.** Two writers are the fewest that race. Three locks let one be created, quarantined or
  released, and re-created twice; `Inodes` lets a number be reused, which is what the lock's
  identity check is about. That more power losses change nothing is proved.
* **Replication.** One object and two targets show every order of probe and copy. Objects share
  no file, and a target that resists and one that does not are the cases the receipt
  distinguishes. One stop leaves one torn file; several stops are covered by the proofs.
* **Runtime.** One live trial and its replay meet every case of `ReplayStable`; replays of replays
  are covered by the proof, which holds for any number. Three adapter types stand for one that
  owns no evidence kind, one that owns one of the two, one that owns both. Two runs of two attempts
  are the least in which a trial, receipt or leftover task of an earlier run can meet a later one.
* **MCP.** A complete story needs two calls of the target in two turns and an ending; a third call
  is the one too many, beside another one or after them. Agent runs likewise: one call that
  receives the stimulus, one beside it in the same turn, one later.
* **Approval.** The pause takes one turn, the resumption one, and two remain for a second attempt
  at the same tool, a handoff, or the exhaustion of the budget. Three calls: the decided one, one
  that shares its name, one free.
* **Side effects and receipts.** Two calls are the contract, a third breaks it. Three deliveries
  allow a commit, a lost answer and a duplicate. In `OAuthFlow` a limit of six allows the whole flow
  and a second one. Two tokens and four events allow issue, refresh, revocation and a use of
  either. Three parallel calls on a timeline of 0 to 3 give every pattern of overlap.
* **Gates.** With three trials the Wilson thresholds (9 and 30 percent) separate neighbouring
  counts. Two slices show one family hiding another, and a missing family.
* **Canary.** Up to three attempts against six units of time: limits bind in each combination.
  **ddmin** with 5 items has uneven partitions, and budgets of 1, 5 and 40 end at the first
  evaluation, within a sweep, and never. **Governance**: two decisions, a requester and two others;
  the clock may pass an age of one. **Memory**: two reads for each principal, so that the one that establishes a
  relation is not the one that contradicts it.
* **Dependencies.** Three heads: the source, a child or a competing push, and one more. Two
  disturbances: the fewest with which a check, a base and a head can go stale in one pass. The
  proof holds for any number of either.
* **Scans.** Two heads are an old and a new one, two runs a bad newest one and what it shadows. Two
  turns of others bring main forward and a push onto it. Two uploads are needed for a second one of
  the same head, and need no turn.

### Fairness

* `store_quarantine`: a writer inside its critical section continues unless it crashes, reads
  complete, and an operator keeps reviewing. No fairness is given to starting a write, to a
  writer that contends for the lock, to crashes or to the kernel. The code has no loop that
  waits; a writer that finds the lock returns with an error.
* `runtime`: the runner's own steps and the clock. The adapter and the judge get none;
  `asyncio.wait(..., timeout=...)` needs only the event loop and time. Cancellation of the
  adapter's task is not awaited in the code, so its cooperation is not needed. In the session: the
  evaluator's steps, the timer of an attempt, and that controls answer or fail. The last is an
  assumption about the operator's code: `run` awaits the controls without a deadline, and a
  control that never answers blocks the session. A component at rest owes no step.
* `replication_retry`: the replicator's steps, which includes that a failed replication is
  started again. The property fails with retries for ever.

The other runs check safety only. Nothing in those components waits for another one without a bound
that ends it (a turn budget, an attempt budget, a wall clock), so the question would be whether a
counter reaches its limit.

Deadlock is not checked where the bounds let everything come to rest. It is in `replication`: no
mix of torn files and conflicts stops every process.

## 4. What is proved

All theorems hold for every value of the constants that satisfies the named assumptions;
these say that bounds are naturals, roles are disjoint, `Owns` is a table over the adapter
types, and the like. The theorems about `DependencyGovernance` assume
nothing of its constants.

**EvidenceStore.** `TypeInv` is `TypeOK` with two facts it needs to be inductive: what a
writer has staged belongs to its call (`StagedByCall`) and an operator past inspection has
observed a lock file. `RecordInv` is the safety argument: linked files are synced, `disk` never
differs from `dir` on a published artifact except by lacking it, the manifest is linked only
after payload and directory are durable, and everything a process has read or returned is the
one value of the record. Neither mentions the lock. Agreement rests on the no-clobber link and
on the order payload, directory fsync, manifest, which is why quarantining a live lock does no
harm to the data. From these follow `ManifestIsCommitMarker`, `ReadsSucceed`, `Agreement`,
`PublishedSurvives`, `HardenedAckSurvives`, `NoClobber` and `Refinement`, which says that every
step maps to a step of `EvidenceRegister` or a stutter.

The lock is another argument, under the assumption `~LiveReview`: only locks of dead writers are
confirmed. `LockInv` says that who holds the lock holds the file that the path names, that every
lock file anybody remembers is older than the next one (an inode may come back, a creation time
does not), that an observed lock stays a dead writer's, and that one operator at most is between
the audit link and the unlink of the active lock. It yields `Exclusion` (`MutualExclusion`) and
`ReplacementsAreSpared` (`QuarantineSparesReplacement`). Without the assumption both are false, which
is finding 1.

**TrialRunner.** `IInv` = `Typed /\ TaskTyped /\ Established /\ Returning /\ Archived`.
`Established` states, stage by stage, what earlier stages have made true of evidence, contract
and clock (the contract executed is the contract submitted, the errors are absent, the producers
are exact); `Returning` carries it to the verdict and `Archived` to the returned trials. It
yields `VerdictsAreTimely`, `ContractIsPinned`, `DeterministicDominates` (the judge never lifts a
trial the deterministic oracles did not pass; proved only, not in a run), `EvidenceDecides` and
`ProducersAreExact`. `ReplayInv`, that a replay in progress still agrees with the trial it replays,
yields `ReplayReproduces`.

**EvaluationSession**, assuming of the bounds that they are naturals. `SessionInv` relates the
four histories of a run index by index to the place `stage` stands at: the sample is the attempts
1 to n of this run (`Sampled`), each that was begun has returned but the one under way (`Counted`),
the receipts given are exactly those the accepted plan owes at this stage (`Prepared`), and the
task of an earlier attempt is at work only if that attempt is in the sample as BLOCKED (`Overlap`).
It yields `SampleIsEveryAttempt`, `AttemptsWerePrepared` and `OverlapShows`. `OnlyTheWholeSample` needs
one more argument: `validate` recomputes the counts, so that a sample in which attempts were left
out, repeated or exchanged, or one with foreign receipts, differs in length, order or campaign.
`MetricsAreOfFinalEvidence` is an action property: metrics are issued only of the whole sample, none of
whose trials was altered.

**Replication.** `IInv` = `TypeOK /\ Staged /\ Copied /\ ReplicasAreExact`: a probe touches only
sentinels, a copy only objects of the snapshot, and what a replication has read back is still
there. It yields `ReplicasStayExact` and `EnvelopesStay` for any number of concurrent
replications. Under the assumption `Exclusive`, `KeptInv` (collectors run only while writers are
quiet, plans name only unreferenced objects) yields `ReferencedStaysReadable`. For one replicator at a
time, `WormInv` (from the read of the sentinel on it is there; a target is credited only if it kept
it) yields `CreditIsEarned`; with two that share a challenge it is false, since one probe may see the
other's sentinel disappear.

**DependencyGovernance.** `IInv` = `TypeInv /\ ExactInv /\ RerunInv /\ CommandInv` and that no commit
was thrown away. `ExactInv` has two halves. `MergedInv` says what holds of each merge so far; it
stays, because a head that was green and merged keeps its checks (only the present head's move,
and only from pending or failed) and reviews are only appended. `SettlingInv` says what the
reconciler may rely on after its merge: the merge it verifies is the last one, `waits` and `todo`
together cover the required workflows, and a workflow it has crossed off runs on the merge commit.
`RerunInv` bounds reruns by the run attempt, which is what the guard of the code looks at: the count
is stored nowhere else, so it survives a job that is cut off. `CommandInv` says the same of the
commands, which are found again in the comments. It yields `MergesAreExact` and
`AutomationBounded`.

**ScanPublication**, for any finite set of pull requests. Nothing that the publisher reads stays as it
was read, so `ScanInv` keeps what cannot be undone: `past` holds every pair of head and main that was
ever exact (`Remembered`); after the first look at the pull request the candidate was exact *if* main is
still the pinned one (`ShownExact`), and the second pass turns the condition into a fact (`ShownAgain`);
the same for the run attempt and the report's soundness. A report is unlisted only if its job
gave up or waits for it (`Awaited`), which with the second look at the inventories makes uploads
single (`Alone`). For the gate, `Witnessed` says at which of its reads an instant exists at which all it
has read was so. It yields `EarnedScans`.

**Assurance.** Each part has its own invariant, under the same scheme: a step of the composition is
one of the part the behaviour began with (`OnePartMoves`). The assumptions say that the constants are
such as the constructors of the code accept.

* `GatesAreSound`, from `GatesInv`: what a report has taken over calls a pass exactly what its evidence
  shows to be one; a criticality record is of the trials as they are, or some verdict has become more
  frequent since, so that its counts cannot match by accident; an accepted session is accepted on its
  own counts; a slice with a critical violation or a slow unresolved attempt has the count that
  gives it away. Lemmas say what `CountOf` does with one more trial and what `Decide` and `Combine`
  imply when they accept. Families are what the slices say they are.
* `CanaryStaysBounded`, from `CanaryInv`: as many charges as answered requests, each at most the
  price of the token limit, and the place in the loop knows how far the last request is behind.
* `MinimizationReturnsFailures`, from `DeltaInv`: the complements before the present one were seen to
  pass, in the same partition. `Partition` is the arithmetic of `_partition_ranges` (the ranges are
  consecutive and inside the input, and single items when there are as many as items), `OrderStays` that
  what is cut from a sequence keeps its order.
* `ResumptionsAreGoverned`, from `GovernanceInv`: the decisions that were counted are still those
  of the accepted receipt, and as many continuations ran as workers completed while none was aborted.
* `MemoryReceipts`, from `MemoryInv`: each observation reveals no more than the store has.

**Adapters**, under the same scheme. `LabAssumption` says that the fault kinds of the instance are
among the six the code has, `ParallelAssumption` that the calls of the parallel probe are a finite set.

* `EffectsCounted`, from `EffectsInv`: the effect state only grows, so what was sampled before a call is
  at most what was sampled after it; between workers it is the number of attempts that landed.
* `ReceiptsAreEarned`, one invariant for each of the three laboratories. `FlowInv`: the requests served
  are those of the stages passed, in their order, and grants and tokens add up to the
  authorizations counted. `ServersInv`: what is recorded of a server, whatever its defects, is what
  they make it answer, so that each defect shows in a token, an event or an epoch
  (`MatrixShows`, `SessionShows`, `ContractionShows`). `HostedInv`: the counter of requests in flight never exceeded the size of
  some set of calls that overlap pairwise, and such a set has a tick in common (`PeakIsLargestMeeting`).
* `ReceiptsMeanDrift`, from `LabInv`: what the probe saw of the listing and of each reply is what a
  server of that fault shows at that time, and the lifetime of the cache decides which listing the
  client holds.
* `RecordsAreTrue`, from `RunInv`: the stimulus reached the subject exactly when the inputs carried it or
  the recorder has an event; what the recorder names is a call of the present turn or a result among the
  items (`Carried`), and of transfers the first one (`Transferred`); every result has a request of the
  agent that made it (`Owned`). `NormalizedItems` and `WholeRun` are about merging: the items with a
  delivery put in at a place are the items before it, the delivery, the items after it, and nothing else
  in the record is a delivery.

* `BridgesAreTrue`, from `BridgeInv`. An adapter adds its event from what its recorder kept; the property
  compares that with the history of server and model. While a run goes on, `Stations` and
  `Stepping` say what each place of the run and of a call allows. `Ledger` relates the items to the
  history: as many calls counted as requests made and calls under way, as many serves as answers
  (`Counted`), requests and results in pairs (`Paired`), for each answer the serve it came from
  (`Matched`), and a question to the model between two serves exactly where one turn's results precede
  another's requests (`Ordered`, and `Turning` in the middle of a turn). `Changed` says that the server
  changes once and no answer speaks of it before, `Holds` which answers the recorder has by the calls it
  counted, and `Story` (`Discovery`, `Metadata`, `Poisoned`, `Worded`) what of a fault's story is
  true so far. Calls of a turn run at once and the recorder is ahead of the items by those under
  way, so none of these is inductive without the others. `BridgeEvidenceProofs` shows for each fault that, at
  the end, recorder and history give the same verdict, and that the event, put among the
  normalized ones, is where the verifier derives it.
* `ApprovalsAreGraded`, from `ApprovalInv`: an execution without consent has its request and its result
  among the items, and the result is not the decided call's (`Executed`); a call that waits was
  interrupted and nobody has handed over since (`Interrupted`); what is recorded is the items
  (`Unasked`), the items stitched (`Answered`) or either with the violation of an exhausted budget
  (`Exhausted`). The first is what tells a bypass from the approved call when both
  are in one record. The rest is about a record of any length: `Walked`, `Graded` and
  `PassingRecord` say what the path of handoffs and the grade are after each event, and what must hold
  at each event of a record that passes. They rest on `UpTo`, induction over a set of numbers, which
  the library's well-foundedness of `<` gives without an operator parameter. `WalkAlike` and
  `StandsStill` compare the paths of two records, and `Stitched` and `StitchedPlaces` show that
  stitching moves no item across a handoff, so that authority is judged where it was used.

**Model-checked only.** Liveness (`StaleLockIsCleared`, `DeadlineReturns`, `SessionEnds`), which
the prover cannot treat. Every safety property of the passing runs is stated by a theorem.
`store_live_quarantine` checks the data properties where the lock's own do not hold; they are proved
without the lock.

Proof attempts changed the models in seven places. Ladders of `if` had been written as CASE with
overlapping guards, which has no order in TLA+ (the value TLC takes is the first one); they are
IF/ELSE now. A release whose policy demands no resolved trial could be accepted without one; the code
demands at least one (`gates/release.py`), and so does `Thresholds`. Exclusion failed for a writer that
had unlinked its lock and not yet synced the directory, which holds nothing any more (`HoldsLock`).
WORM credit needs a single replicator, and the run has one. `OAuthQualification` extended its matrix
of statuses with `@@` of the TLC module, about which nothing can be proved; it writes the function now. `PolicyOracle` folded over the record,
and folds are beyond induction here; it walks the record with recursive functions over
its places, and `McpBridge` speaks of the requests of a call as a set of their places. The proof about
approval also needed that the one stitched request is of the protected tool, a check the adapter
makes (`adapters/openai_hitl_approval.py:389`) and `Stitchable` had left out.

## 5. Where the code and its documents disagree

Each of these is a run that TLC ends with a counterexample; `PROJECT.json` quotes both sides.

1. **Quarantine can remove a replacement lock** (`store_replacement`). The path is unlinked
   (`evidence/resilience.py:328`) after the identity check at 314-325. If the observed lock is
   released and re-acquired in between, the unlink removes the new one. The docstring
   promises the replacement stays. It does when only locks of dead writers are quarantined.
2. **Retry does not always converge** (`replication_retry`). A stop during `put_if_absent`
   leaves a partial file under the final key, and every retry then meets a conflict.
3. **An unresolved approval is graded** (`approval_unresolved`). When the resumed run exhausts its
   turns and the SDK shows none of its items, the record has no decision, and the first run's
   request of the tool satisfies the branch for a missing approval. The documents say the trial
   stays BLOCKED.
4. **A refresh may be its own parent** (`oauth_refresh`). The token is added to the observed ones
   before its parent is looked up among them (`mcp/oauth_advanced.py:416-421`).
5. **A veto can be overwritten** (`dependency_veto`). The reviews are read again before the
   automated approval, but in another call (`.github/scripts/dependency_governance.py:1375-1380`);
   a veto in between is followed by the approval, which is then the latest decision.

Seen while modelling, and not the subject of a run:

* A trial blocked before the exact-type check still receives producer capabilities
  (`runtime/evaluator.py:185`; `docs/VERIFICATION_CONTRACTS.md:41-42` says otherwise). Its verdict is
  `BLOCKED`, so `LiveAuthority` is about graded trials.
* A garbage collection deletes evidence that is referenced after it compared its plan
  (`evidence/retention.py:118` looks into the set compared before the loop).
  `ReferencedIsReadable` is therefore checked and proved with collections kept apart.
* After an operator's crash between the audit link and the unlink, each retry conflicts with its own
  audit name: `StaleLockIsCleared` holds up to the first such crash.
* Governance lets the requester be the delegator of an approval, and counts sessions and signers
  apart, so that one session may serve two signers (`hitl.py`). The verified gate binds counts, not
  the trials themselves, to its criticality record.
* `deletion_enforced` is established by one denied read after the deletion, whatever other reads
  returned; a drift receipt by one denial, though another contraction was not honoured.
  `AcceptedMemoryHolds` and `QualifiedServersRefuse` say what is left.
* The hosted probe lets some exceptions of malformed status lines and TLS pass out of it, and
  asserts `tls_verified` without measuring it after a redirect. A policy that requires
  `oversized-response` or `resource-pressure` can never be met. Two calls that touch in one tick
  count as parallel.
* A merge whose workflows could not be confirmed is not taken up again by later runs. The
  documentation says that the owner's token is not used for content writes, but the publisher moves
  the branch with it.
* The gate accepts evidence that was published under an earlier main when the base is refreshed without
  a new head, and a draft that is opened between two reads, so not all it reads need hold at one
  instant: `GateIsEarned` claims head, base, main and evidence.
* The comment in `discover` says that a blocked run cannot veto another pull request. A green run
  whose verification raises does: the discovery ends with it
  (`.github/scripts/verify_codeql_pr_publication.py:597`).
* A job that gives up waiting for its report is followed by a second upload for the same head if
  neither inventory shows the first; two analyses then keep the gate closed until a new head.
* After a power loss, a portable store may give back a lock that was released, and an acknowledged blob
  whose directory entry was not synced may be missing (`evidence/blob_store.py:74`); the models
  keep a file once a process has closed it. The first attempt of a session has no reset before it.

## 6. Plan

Done: all parts with concurrency, failure or ordering of their own; proofs of every safety property that a
passing run checks. Next: the receipts of chaos and observability campaigns as operators, checked
against a reading of the same observations, and the session snapshot of report schema v7.

## 7. Not modelled

* **HTTP, retrieval, scripted and semantic-judge adapters; retrieved-content and resource
  bridges**: one request and its conversion each. Their effect on a trial is what an adapter may
  return, which `TrialRunner` leaves open.
* **Reliability, drift, sequential and comparative statistics; calibration; retrieval ranking**:
  floating-point formulas over counts. The counts themselves are in `EvaluationSession`
  (`FromVerdicts`), the gate's bound in `ReleaseGates`.
* **Chaos and observability receipts; session provenance of report v7**: predicates over one list of
  observations, or one snapshot bound by digest.
* **Contracts, registry and quality rules, evidence models and limits, evidence minimization,
  adversarial cases and metamorphic relations, metric and timing provenance**: validation,
  construction and rewriting of single records. Regrading runs the replay adapter through the
  runner, which `TrialRunner` covers.
* **Encodings, digests, DSSE envelopes, strict JSON**: a verified digest is treated as identity.
* **Command line; the other release engineering scripts and workflows, package manifest**: around the
  system, each a check of one snapshot.

Partly modelled: of the Agents SDK adapter, model settings, state readers and the conversion of
SDK values to JSON are left out, and the composed adapter, which only combines channels; of the
oracles, `OutcomeOracle`.
