---------------------------- MODULE ScanPublication ----------------------------
(* How CodeQL evidence of a pull request becomes a condition of its merge         *)
(* (.github/scripts/verify_codeql_pr_publication.py, verify_native_pr_codeql.py,     *)
(* verify_required_codeql.py).  A job on main, one at a time, looks for a          *)
(* successful scan of a live head, verifies it in many reads, downloads its        *)
(* report, verifies everything once more and uploads it.  The gate in the pull      *)
(* request's own CI waits for the scans of its head, and polls for that publication. *)
(* Pushes, main, new runs, reruns and Code Scanning move between any two reads.     *)
EXTENDS Naturals, Sequences, FiniteSets

CONSTANTS Pulls,        \* pull requests
          HeadBound,    \* bound: heads, over all pull requests
          RunBound,     \* bound: workflow runs
          Rooms         \* bounds: reports uploaded, and turns, which are what others do to
                        \* main, pull requests, runs and checks

ASSUME ScanAssumption == IsFiniteSet(Pulls) /\ Rooms \subseteq [turns : Nat, uploads : Nat]

VARIABLES tip,          \* the live main, by number
          pulls,        \* for each pull request: state, head and base
          heads,        \* for each head so far: its pull request, the main it contains, its kind
          scans,        \* workflow runs, oldest first
          uploads,      \* reports given to Code Scanning, and whether each is listed
          natives,      \* for each head: the native CodeQL checks
          publisher,    \* the job on main
          gate,         \* the gate in CI
          room,         \* what is left of the bounds
          past          \* history: when heads were exact, and with what evidence

scanVars == <<tip, pulls, heads, scans, uploads, natives, publisher, gate, room, past>>
onGitHub == <<tip, pulls, heads, scans, uploads, natives>>

\* The files that produce a scan: those of main, or with action pins that the bot signed; or
\* changed in another way.  Or the head is one of a fork.
Kinds == {"trusted", "altered", "fork"}
Off == [at |-> "idle", pinned |-> 0, todo |-> {}, run |-> 0, again |-> FALSE, found |-> {}]
Waiting == [at |-> "idle", head |-> 0, main |-> 0, native |-> <<>>, found |-> {}]
ScanInit ==
  /\ tip = 0 /\ heads \in [1..Cardinality(Pulls) -> [pull : Pulls, on : {0}, kind : Kinds]]
  /\ \A p \in Pulls : \E h \in DOMAIN heads : heads[h].pull = p
  /\ pulls = [p \in Pulls |->
       [state |-> "open", head |-> CHOOSE h \in DOMAIN heads : heads[h].pull = p, base |-> 0]]
  /\ scans = <<>> /\ uploads = <<>> /\ natives = [h \in DOMAIN heads |-> <<>>]
  /\ publisher = Off /\ gate = Waiting
  /\ room \in Rooms /\ past = {<<h, 0, FALSE>> : h \in {pulls[p].head : p \in Pulls}}

-----------------------------------------------------------------------------
(* GitHub and people                                                          *)

Listed(h) == {i \in 1..Len(uploads) : uploads[i].head = h /\ uploads[i].listed}
\* Code Scanning has shown a report and a success of this head.
Evidenced(h) == Listed(h) # {} /\ \E i \in 1..Len(natives[h]) : natives[h][i] = "success"
Live(h) == pulls[heads[h].pull].head = h
\* The head is the one of its pull request, which is based on the live main.
Exact(h) == Live(h) /\ pulls[heads[h].pull].base = tip
\* What is exact, and with what evidence, remembered from one state to the next.
ExactNow == {<<h, tip, Evidenced(h)>> : h \in {g \in DOMAIN heads : Exact(g)}}
Remember == past' = past \cup ExactNow'
Turn == room.turns > 0 /\ room' = [room EXCEPT !.turns = @ - 1]
Others == UNCHANGED <<publisher, gate>>
Itself == Others /\ UNCHANGED room

\* A push may bring main into the branch; either way the pull request is then based on main.
BranchPushes ==
  \E p \in Pulls, kind \in Kinds : \E on \in {heads[pulls[p].head].on, tip} :
    /\ Turn /\ Len(heads) < HeadBound /\ pulls[p].state # "closed"
    /\ (kind = "fork") = (heads[pulls[p].head].kind = "fork")
    /\ heads' = Append(heads, [pull |-> p, on |-> on, kind |-> kind])
    /\ natives' = Append(natives, <<>>)
    /\ pulls' = [pulls EXCEPT ![p].head = Len(heads'), ![p].base = tip]
    /\ Others /\ UNCHANGED <<tip, scans, uploads>>
MainMoves ==
  /\ Turn /\ tip' = tip + 1
  /\ Others /\ UNCHANGED <<pulls, heads, scans, uploads, natives>>
BaseRefreshes ==
  \E p \in Pulls :
    /\ pulls[p].base # tip /\ pulls' = [pulls EXCEPT ![p].base = tip]
    /\ Itself /\ UNCHANGED <<tip, heads, scans, uploads, natives>>
StateChanges ==
  \E p \in Pulls, state \in {"open", "draft", "closed"} :
    /\ Turn /\ pulls[p].state # state /\ pulls' = [pulls EXCEPT ![p].state = state]
    /\ Others /\ UNCHANGED <<tip, heads, scans, uploads, natives>>
\* A run of a live head, some time after the push, and another when it is opened again.
RunBegins ==
  \E h \in DOMAIN heads :
    /\ Len(scans) < RunBound /\ Live(h)
    /\ \/ (\A i \in DOMAIN scans : scans[i].head # h) /\ UNCHANGED room
       \/ Turn
    /\ scans' = Append(scans, [head |-> h, attempt |-> 1, status |-> "running", sound |-> {}])
    /\ Others /\ UNCHANGED <<tip, pulls, heads, uploads, natives>>
\* A success is sound when all steps of the scan ran and its report has no result.
RunEnds ==
  \E i \in DOMAIN scans, outcome \in {"success", "failure"}, sound \in BOOLEAN :
    /\ scans[i].status = "running" /\ (sound => outcome = "success")
    /\ scans' = [scans EXCEPT ![i].status = outcome,
                              ![i].sound = IF sound THEN @ \cup {scans[i].attempt} ELSE @]
    /\ Itself /\ UNCHANGED <<tip, pulls, heads, uploads, natives>>
RunReruns ==
  \E i \in DOMAIN scans :
    /\ Turn /\ scans[i].status # "running"
    /\ scans' = [scans EXCEPT ![i].status = "running", ![i].attempt = @ + 1]
    /\ Others /\ UNCHANGED <<tip, pulls, heads, uploads, natives>>
\* Code Scanning processes a report, later than the job may care to wait.
ReportListed ==
  \E i \in DOMAIN uploads, warned \in BOOLEAN :
    /\ ~uploads[i].listed /\ uploads' = [uploads EXCEPT ![i].listed = TRUE, ![i].warned = warned]
    /\ Itself /\ UNCHANGED <<tip, pulls, heads, scans, natives>>
\* The check of a listed report, or one of another configuration.
CheckBegins ==
  \E h \in DOMAIN heads :
    /\ \/ Listed(h) # {} /\ natives[h] = <<>> /\ UNCHANGED room
       \/ Turn /\ Len(natives[h]) < 2
    /\ natives' = [natives EXCEPT ![h] = Append(@, "running")]
    /\ Others /\ UNCHANGED <<tip, pulls, heads, scans, uploads>>
CheckEnds ==
  \E h \in DOMAIN heads, outcome \in {"success", "neutral"} : \E i \in DOMAIN natives[h] :
    /\ natives[h][i] = "running" /\ natives' = [natives EXCEPT ![h][i] = outcome]
    /\ Itself /\ UNCHANGED <<tip, pulls, heads, scans, uploads>>

-----------------------------------------------------------------------------
(* The publisher                                                              *)

Reads == UNCHANGED <<onGitHub, gate, room>>
PublisherStep(from, to) == publisher.at = from /\ publisher' = [publisher EXCEPT !.at = to]
Candidate == scans[publisher.run].head
CandidatePull == pulls[heads[Candidate].pull]

\* The concurrency group lets one job run; one that was queued is pinned to an older main.
PublisherStarts ==
  /\ publisher = Off /\ room.uploads > 0
  /\ \E pinned \in 0..tip : publisher' = [Off EXCEPT !.at = "main", !.pinned = pinned]
  /\ Reads
DiscoverMain == tip = publisher.pinned /\ PublisherStep("main", "pulls") /\ Reads
Stops(from) == publisher.at = from /\ publisher' = Off
Active ==
  {h \in DOMAIN heads : Live(h) /\ pulls[heads[h].pull].state # "closed" /\ heads[h].kind # "fork"}
ListPulls ==
  /\ IF Active = {} THEN Stops("pulls")
     ELSE publisher.at = "pulls" /\ publisher' = [publisher EXCEPT !.at = "runs", !.todo = Active]
  /\ Reads
\* The newest run of each head that is listed: a bad one shadows the older ones of that head,
\* and is no obstacle to other heads.
Newest(h) ==
  {i \in DOMAIN scans : scans[i].head = h /\ \A j \in i+1..Len(scans) : scans[j].head # h}
ListRuns ==
  /\ publisher.at = "runs"
  /\ publisher' = [publisher EXCEPT !.at = "next",
       !.todo = {i \in UNION {Newest(h) : h \in publisher.todo} : scans[i].status = "success"}]
  /\ Reads
NextRun ==
  /\ \/ \E i \in publisher.todo :
          /\ publisher.at = "next" /\ \A j \in publisher.todo : j <= i
          /\ publisher' = [publisher EXCEPT !.at = "run", !.run = i, !.todo = @ \ {i}]
     \/ publisher.todo = {} /\ Stops("next")
  /\ Reads

\* Mutant: the attempt of the run is not looked at.
FaultyFirstAttempt(run) == run.status = "success"

\* verify: the run and main; the pull request in the inventory, then by itself; its branch and
\* the merge tree, which equals the head's when the head contains its base, and the files that
\* produced the scan; its jobs and artifact.  What does not hold ends the job (PublisherStops).
FirstAttempt(run) == run.status = "success" /\ run.attempt = 1
Scanned(run) == run.attempt \in run.sound
VerifyRun ==
  /\ PublisherStep("run", "pull") /\ Reads
  /\ FirstAttempt(scans[publisher.run]) /\ tip = publisher.pinned
VerifyPull ==
  /\ publisher.at = "pull"
  /\ CandidatePull = [state |-> "open", head |-> Candidate, base |-> publisher.pinned]
  /\ PublisherStep("pull", "live") /\ Reads
VerifyLive ==
  /\ publisher.at = "live" /\ CandidatePull.state # "closed"
  /\ CandidatePull.head = Candidate /\ CandidatePull.base = publisher.pinned
  /\ PublisherStep("live", "source") /\ Reads
Authorized(h) == heads[h].kind = "trusted"
VerifySource ==
  /\ publisher.at = "source" /\ Live(Candidate)
  /\ heads[Candidate].on = CandidatePull.base /\ Authorized(Candidate)
  /\ PublisherStep("source", "artifact") /\ Reads
\* The jobs of the run, and the artifact that it names, of its latest attempt.
VerifyArtifact ==
  /\ publisher.at = "artifact" /\ Scanned(scans[publisher.run])
  /\ PublisherStep("artifact", "analyses") /\ Reads

\* The inventories of analyses and of native checks: in discovery a published head is passed over
\* and one without either is the target; before the upload there must be neither.
ReadAnalyses ==
  /\ publisher.at = "analyses" /\ (publisher.again => Listed(Candidate) = {})
  /\ publisher' = [publisher EXCEPT !.at = "checks", !.found = Listed(Candidate)]
  /\ Reads
Clean(found) == Cardinality(found) = 1 /\ \A i \in found : ~uploads[i].warned
ReadChecks ==
  /\ publisher.at = "checks"
  /\ \/ /\ publisher.found = {} /\ natives[Candidate] = <<>>
        /\ PublisherStep("checks", IF publisher.again THEN "upload" ELSE "download")
     \/ /\ ~publisher.again /\ Clean(publisher.found) /\ natives[Candidate] = <<"success">>
        /\ PublisherStep("checks", "next")
  /\ Reads
\* The artifact of the run as it is now, and verify_sarif.
Download ==
  /\ publisher.at = "download" /\ Scanned(scans[publisher.run])
  /\ publisher' = [publisher EXCEPT !.at = "run", !.again = TRUE]
  /\ Reads
Upload ==
  /\ PublisherStep("upload", "waiting")
  /\ uploads' = Append(uploads,
       [head |-> Candidate, run |-> publisher.run, main |-> publisher.pinned,
        listed |-> FALSE, warned |-> FALSE, left |-> FALSE])
  /\ room' = [room EXCEPT !.uploads = @ - 1]
  /\ UNCHANGED <<tip, pulls, heads, scans, natives, gate>>
UploadProcessed == Stops("waiting") /\ uploads[Len(uploads)].listed /\ Reads
\* A block, a failed call, an expired artifact, the time limit of the job.
PublisherStops ==
  /\ publisher # Off /\ publisher' = Off
  /\ uploads' = IF publisher.at = "waiting" THEN [uploads EXCEPT ![Len(uploads)].left = TRUE]
                ELSE uploads
  /\ UNCHANGED <<tip, pulls, heads, scans, natives, gate, room>>

-----------------------------------------------------------------------------
(* The gate                                                                   *)

GateStep(from, to) == gate.at = from /\ gate' = [gate EXCEPT !.at = to]
Observes == UNCHANGED <<onGitHub, publisher, room>>
GateStarts ==
  /\ gate = Waiting
  /\ \E h \in DOMAIN heads : gate' = [Waiting EXCEPT !.at = "codeql", !.head = h]
  /\ Observes
\* wait_for_success: every run of the head is an obligation.  Until they have all completed the
\* gate polls, and one that failed ends it.
Required == {i \in DOMAIN scans : scans[i].head = gate.head}
RequireCodeQL ==
  /\ GateStep("codeql", "checks") /\ Required # {}
  /\ \A i \in Required : scans[i].status = "success"
  /\ Observes
\* verify_live: the evidence is read first, main and the pull request after it.
NativeChecks ==
  /\ gate.at = "checks" /\ gate' = [gate EXCEPT !.at = "analyses", !.native = natives[gate.head]]
  /\ Observes
NativeAnalyses ==
  /\ gate.at = "analyses" /\ gate' = [gate EXCEPT !.at = "main", !.found = Listed(gate.head)]
  /\ Observes
NativeMain ==
  /\ gate.at = "main" /\ gate' = [gate EXCEPT !.at = "pull", !.main = tip]
  /\ Observes
\* validate_snapshot
LivePull(pull) ==
  /\ pull = [state |-> "open", head |-> gate.head, base |-> gate.main]
  /\ heads[gate.head].kind # "fork"
IsPending == gate.native = <<"running">> \/ (gate.native = <<>> /\ gate.found = {})
IsPublished == gate.native = <<"success">> /\ Clean(gate.found)
NativePull ==
  /\ gate.at = "pull" /\ LivePull(pulls[heads[gate.head].pull])
  /\ \/ IsPending /\ gate' = [gate EXCEPT !.at = "checks", !.native = <<>>, !.found = {}]
     \/ IsPublished /\ GateStep("pull", "accepted")
  /\ Observes
\* A failure, a mismatch, or the end of its patience; and CI may be run again.
GateStops ==
  /\ gate # Waiting /\ gate' = Waiting
  /\ Observes

-----------------------------------------------------------------------------
Outside ==
  \/ BranchPushes \/ MainMoves \/ BaseRefreshes \/ StateChanges \/ RunBegins \/ RunEnds \/ RunReruns
  \/ ReportListed \/ CheckBegins \/ CheckEnds
PublisherSteps ==
  \/ PublisherStarts \/ DiscoverMain \/ ListPulls \/ ListRuns \/ NextRun \/ VerifyRun \/ VerifyPull
  \/ VerifyLive \/ VerifySource \/ VerifyArtifact \/ ReadAnalyses \/ ReadChecks \/ Download \/ Upload
  \/ UploadProcessed \/ PublisherStops
Gate ==
  \/ GateStarts \/ RequireCodeQL \/ NativeChecks \/ NativeAnalyses \/ NativeMain \/ NativePull
  \/ GateStops
ScanNext == (Outside \/ PublisherSteps \/ Gate) /\ Remember
ScanSpec == ScanInit /\ [][ScanNext]_scanVars

-----------------------------------------------------------------------------
(* A report that is published is a clean one of the first attempt of a run of    *)
(* that head, the head's scan files are authorized, and the head was live on the  *)
(* main of the job at one instant, although no single call looks at all of it.      *)
UploadsAreExact ==
  \A i \in DOMAIN uploads : LET u == uploads[i] IN
    /\ scans[u.run].head = u.head /\ 1 \in scans[u.run].sound
    /\ heads[u.head].kind = "trusted" /\ heads[u.head].on = u.main
    /\ \E e \in BOOLEAN : <<u.head, u.main, e>> \in past

(* A head is published twice only when a job gave up waiting for its report:     *)
(* jobs follow one another, and each looks at both inventories twice.              *)
UploadsAreSingle ==
  \A i, j \in DOMAIN uploads : i < j /\ uploads[i].head = uploads[j].head => uploads[i].left

(* What the gate accepts was published by the job on main for that head, without  *)
(* a warning, and there was an instant when the head was live on the main the   *)
(* gate read and the evidence already there: no head or main that moves while the   *)
(* gate reads qualifies a scan that had been overtaken.                              *)
GateIsEarned ==
  gate.at = "accepted" =>
    /\ <<gate.head, gate.main, TRUE>> \in past
    /\ \E i \in gate.found : uploads[i].head = gate.head /\ ~uploads[i].warned

(* Only verified scans of a live head are published, each once, and the gate      *)
(* accepts no other evidence, whatever moves while it reads.                       *)
ScansAreEarned == UploadsAreExact /\ UploadsAreSingle /\ GateIsEarned
==============================================================================
