----------------------------- MODULE Replication -----------------------------
(* Verified replication of the content-addressed store to immutable targets   *)
(* (evidence/replication.py): replicate_backup takes a snapshot of the source,*)
(* probes every target, and copies and reads back every object, while writers *)
(* and garbage collection go on in the source.  Every replicator uses the     *)
(* same challenge, as a scheduled job does, so that target t has one sentinel.*)
EXTENDS BlobStore

CONSTANT Worm  \* the targets that refuse deletion
ASSUME WormAssumption == Worm \subseteq Targets

VARIABLES rep,      \* rep[r]: where replicate_backup of r stands
          receipts  \* the overall receipts issued so far

vars == <<storeVars, rep, receipts>>

-----------------------------------------------------------------------------
(* State                                                                      *)

Unknown == "absent"
RepStages == {"idle", "snapshot", "probe", "probe_fill", "probe_compare", "probe_manifest",
              "probe_read", "clobber", "reread", "delete", "gone", "kept",
              "target", "copy", "copy_put", "copy_fill", "readback"}

\* left: the targets not yet dealt with in this phase; todo: the objects likewise;
\* resist: the targets that kept their sentinel.
RepIdle == [pc |-> "idle", worm |-> FALSE, snapshot |-> [k \in Keys |-> Unknown],
            todo |-> {}, left |-> {}, target |-> Source, key |-> Source, resist |-> {}]
RepStates ==
  [pc : RepStages, worm : BOOLEAN, snapshot : [Keys -> Forms \cup {Unknown}],
   todo : SUBSET Keys, left : SUBSET Targets, target : Backends,
   key : Keys \cup {Source}, resist : SUBSET Targets]
Receipts == [worm : BOOLEAN, snapshot : [Keys -> Forms \cup {Unknown}], resist : SUBSET Targets]

Snapshotted(s) == {k \in Keys : s.snapshot[k] # Unknown}

Init == StoreInit /\ rep = [r \in Replicators |-> RepIdle] /\ receipts = {}

RepGoes(r, state) ==
  /\ rep' = [rep EXCEPT ![r] = state]
  /\ UNCHANGED <<writer, gc, refs, aborts, receipts>>
RepRaises(r) == RepGoes(r, RepIdle)

\* The step reads file k of backend b and goes on only if it is what it must be.
Requires(r, expected, state) ==
  /\ IF expected THEN RepGoes(r, state) ELSE RepRaises(r)
  /\ UNCHANGED blobs

-----------------------------------------------------------------------------
(* create_backup_snapshot                                                     *)

ListSource(r) ==
  /\ rep[r].pc = "idle"
  /\ \E worm \in BOOLEAN :
       RepGoes(r, [RepIdle EXCEPT !.pc = "snapshot", !.worm = worm,
                                  !.todo = {k \in Keys : Present(Source, k)}])
  /\ UNCHANGED blobs

SnapshotObject(r) ==
  /\ rep[r].pc = "snapshot"
  /\ \E k \in rep[r].todo :
       Requires(r, Readable(Source, k),
                [rep[r] EXCEPT !.todo = @ \ {k}, !.snapshot[k] = blobs[Source][k].form])

SnapshotTaken(r) ==
  /\ rep[r].pc = "snapshot" /\ rep[r].todo = {}
  /\ RepGoes(r, [rep[r] EXCEPT !.pc = "probe", !.left = Targets])
  /\ UNCHANGED blobs

-----------------------------------------------------------------------------
(* probe_backend                                                              *)

\* ContentAddressedEvidenceStore.write of the sentinel, always uncompressed.
ProbePut(r) ==
  /\ rep[r].pc = "probe"
  /\ \E t \in rep[r].left :
       LET created == ~ Present(t, t) IN
       /\ RepGoes(r, [rep[r] EXCEPT !.pc = IF created THEN "probe_fill" ELSE "probe_compare",
                                    !.target = t, !.key = t])
       /\ IF created THEN Create(t, t, "none", r) ELSE UNCHANGED blobs

ProbeFill(r) ==
  /\ rep[r].pc = "probe_fill"
  /\ FillIn(rep[r].target, rep[r].key, r)
  /\ RepGoes(r, [rep[r] EXCEPT !.pc = "probe_read"])

Sentinel(r) == Readable(rep[r].target, rep[r].key)

ProbeCompare(r) ==
  /\ rep[r].pc = "probe_compare"
  /\ Requires(r, Sentinel(r), [rep[r] EXCEPT !.pc = "probe_manifest"])

ProbeManifest(r) ==
  /\ rep[r].pc = "probe_manifest"
  /\ Requires(r, Sentinel(r), [rep[r] EXCEPT !.pc = "probe_read"])

ProbeRead(r) ==
  /\ rep[r].pc = "probe_read"
  /\ Requires(r, Sentinel(r), [rep[r] EXCEPT !.pc = "clobber"])

\* The conflicting put: if the sentinel is gone it succeeds, and its bytes stay behind.
Clobber(r) ==
  /\ rep[r].pc = "clobber"
  /\ IF Present(rep[r].target, rep[r].key)
     THEN RepGoes(r, [rep[r] EXCEPT !.pc = "reread"]) /\ UNCHANGED blobs
     ELSE /\ RepRaises(r)
          /\ blobs' = [blobs EXCEPT ![rep[r].target][rep[r].key] = Garbage]

Reread(r) ==
  /\ rep[r].pc = "reread"
  /\ Requires(r, Sentinel(r), [rep[r] EXCEPT !.pc = "delete"])

\* delete() answers False if the backend keeps the object, and if there is none.
DeleteSentinel(r) ==
  LET removed == Present(rep[r].target, rep[r].key) /\ rep[r].target \notin Worm IN
  /\ rep[r].pc = "delete"
  /\ RepGoes(r, [rep[r] EXCEPT !.pc = IF removed THEN "gone" ELSE "kept"])
  /\ IF removed THEN Remove(rep[r].target, rep[r].key) ELSE UNCHANGED blobs

NextProbe(r) == [rep[r] EXCEPT !.pc = "probe", !.left = @ \ {rep[r].target}]

CheckGone(r) ==
  /\ rep[r].pc = "gone"
  /\ Requires(r, ~ Present(rep[r].target, rep[r].key), NextProbe(r))

CheckKept(r) ==
  /\ rep[r].pc = "kept"
  /\ Requires(r, Sentinel(r), [NextProbe(r) EXCEPT !.resist = @ \cup {rep[r].target}])

-----------------------------------------------------------------------------
(* replicate_backup                                                           *)

FaultyProbedUnchecked(r) ==
  /\ rep[r].pc = "probe" /\ rep[r].left = {}
  /\ Requires(r, TRUE, [rep[r] EXCEPT !.pc = "target", !.left = Targets])

\* Every target is probed; if WORM is required each must have kept its sentinel.
Probed(r) ==
  /\ rep[r].pc = "probe" /\ rep[r].left = {}
  /\ Requires(r, rep[r].worm => rep[r].resist = Targets,
              [rep[r] EXCEPT !.pc = "target", !.left = Targets])

NextTarget(r) ==
  /\ rep[r].pc = "target"
  /\ \E t \in rep[r].left :
       RepGoes(r, [rep[r] EXCEPT !.pc = "copy", !.target = t, !.todo = Snapshotted(rep[r])])
  /\ UNCHANGED blobs

\* One object: the source still holds the envelope of the snapshot ...
CopyGet(r) ==
  /\ rep[r].pc = "copy"
  /\ \E k \in rep[r].todo :
       Requires(r, Readable(Source, k) /\ blobs[Source][k].form = rep[r].snapshot[k],
                [rep[r] EXCEPT !.pc = "copy_put", !.key = k])

FaultyCopyPutReplaces(r) ==
  /\ rep[r].pc = "copy_put"
  /\ RepGoes(r, [rep[r] EXCEPT !.pc = "copy_fill"])
  /\ Create(rep[r].target, rep[r].key, rep[r].snapshot[rep[r].key], r)

\* ... put_if_absent ...
CopyPut(r) ==
  LET created == ~ Present(rep[r].target, rep[r].key) IN
  /\ rep[r].pc = "copy_put"
  /\ RepGoes(r, [rep[r] EXCEPT !.pc = IF created THEN "copy_fill" ELSE "readback"])
  /\ IF created THEN Create(rep[r].target, rep[r].key, rep[r].snapshot[rep[r].key], r)
                ELSE UNCHANGED blobs

CopyFill(r) ==
  /\ rep[r].pc = "copy_fill"
  /\ FillIn(rep[r].target, rep[r].key, r)
  /\ RepGoes(r, [rep[r] EXCEPT !.pc = "readback"])

FaultyReadbackOfAnyForm(r) ==
  /\ rep[r].pc = "readback"
  /\ Requires(r, Sentinel(r), [rep[r] EXCEPT !.pc = "copy", !.todo = @ \ {rep[r].key}])

\* ... and the exact readback.
Readback(r) ==
  /\ rep[r].pc = "readback"
  /\ Requires(r, Sentinel(r) /\ blobs[rep[r].target][rep[r].key].form = rep[r].snapshot[rep[r].key],
              [rep[r] EXCEPT !.pc = "copy", !.todo = @ \ {rep[r].key}])

\* Every object of the snapshot is verified on this target.
TargetVerified(r) ==
  /\ rep[r].pc = "copy" /\ rep[r].todo = {}
  /\ RepGoes(r, [rep[r] EXCEPT !.pc = "target", !.left = @ \ {rep[r].target}])
  /\ UNCHANGED blobs

IssueReceipt(r) ==
  /\ rep[r].pc = "target" /\ rep[r].left = {}
  /\ receipts' = receipts \cup
       {[worm |-> rep[r].worm, snapshot |-> rep[r].snapshot, resist |-> rep[r].resist]}
  /\ rep' = [rep EXCEPT ![r] = RepIdle]
  /\ UNCHANGED storeVars

RepStops(r) ==
  /\ rep[r].pc # "idle"
  /\ aborts < MaxAborts
  /\ aborts' = aborts + 1
  /\ blobs' = Orphaned(r)
  /\ rep' = [rep EXCEPT ![r] = RepIdle]
  /\ UNCHANGED <<writer, gc, refs, receipts>>

RepStep(r) ==
  \/ ListSource(r) \/ SnapshotObject(r) \/ SnapshotTaken(r)
  \/ ProbePut(r) \/ ProbeFill(r) \/ ProbeCompare(r) \/ ProbeManifest(r) \/ ProbeRead(r)
  \/ Clobber(r) \/ Reread(r) \/ DeleteSentinel(r) \/ CheckGone(r) \/ CheckKept(r)
  \/ Probed(r) \/ NextTarget(r) \/ CopyGet(r) \/ CopyPut(r) \/ CopyFill(r) \/ Readback(r)
  \/ TargetVerified(r) \/ IssueReceipt(r)

Next ==
  \/ StoreNext /\ UNCHANGED <<rep, receipts>>
  \/ \E r \in Replicators : RepStep(r) \/ RepStops(r)

Spec == Init /\ [][Next]_vars

\* A failed replication is retried for ever.
RetrySpec == Spec /\ \A r \in Replicators : WF_vars(RepStep(r))

-----------------------------------------------------------------------------
(* Properties                                                                 *)

\* Types; and a file is open for writing only in the hands of a process that is writing it.
TypeOK ==
  /\ StoreTypeOK
  /\ rep \in [Replicators -> RepStates]
  /\ receipts \subseteq Receipts
  /\ \A b \in Backends, k \in Keys :
       LET p == blobs[b][k].owner IN
       /\ p # Nobody => blobs[b][k].state = "partial"
       /\ p \in Writers => writer[p].pc = "fill" /\ b = Source /\ k = writer[p].key
       /\ p \in Replicators => /\ rep[p].pc \in {"probe_fill", "copy_fill"}
                               /\ b = rep[p].target /\ k = rep[p].key

\* What a receipt says is copied is on every target, envelope for envelope, and stays
\* there, whatever writers, collectors and other replications do to source and target.
ReplicasAreExact ==
  \A x \in receipts, t \in Targets, k \in Objects :
    x.snapshot[k] # Unknown => blobs[t][k] = Whole(x.snapshot[k])

\* A receipt credits only targets that do refuse deletion with observed resistance, and all
\* of them if it requires WORM; and the probe's deliberately conflicting bytes never reach a
\* backend's namespace.  Held by one replication at a time: see the README on two that share
\* a challenge.
WormCreditIsEarned ==
  /\ \A x \in receipts : x.resist \subseteq Worm /\ (x.worm => x.resist = Targets)
  /\ \A b \in Backends, k \in Keys : blobs[b][k].state # "garbage"

\* No complete envelope is ever overwritten, and no replica of evidence disappears.
NoClobber ==
  [][\A b \in Backends, k \in Keys : blobs[b][k].state = "whole" =>
       \/ blobs'[b][k] = blobs[b][k]
       \/ blobs'[b][k] = Absent /\ (b = Source \/ k = b)]_vars

\* docs/EVIDENCE_BACKUP_REPLICATION.md: "Retrying safely converges because existing exact
\* objects are accepted and conflicting bytes remain fail-closed."
RetryConverges ==
  \A k \in Objects :
    (\E r \in Replicators : rep[r].pc = "copy_put" /\ rep[r].key = k)
      ~> (\E x \in receipts : x.snapshot[k] # Unknown)

=============================================================================
