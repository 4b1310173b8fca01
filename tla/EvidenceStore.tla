--------------------------- MODULE EvidenceStore ---------------------------
(***************************************************************************)
(* One record of LocalEvidenceStore / HardenedPosixEvidenceStore on a local *)
(* filesystem.  Every path of a record (payload, manifest, lock, quarantine *)
(* name) contains the record key, so records do not interact and one key is *)
(* modelled.                                                                *)
(*                                                                         *)
(* Writers run _write_prepared one system call at a time, readers run read *)
(* without the lock, and operators run inspect_record_lock followed by     *)
(* quarantine_record_lock.  `dir` is the directory that processes see and  *)
(* `disk` the directory that survives a power loss; the kernel may write   *)
(* any entry back early.                                                   *)
(***************************************************************************)
EXTENDS Naturals, FiniteSets

CONSTANTS
    Writers,        \* processes that call write for this record key
    Readers,        \* processes that call read for this record key
    Operators,      \* people or jobs that run the lock quarantine
    Values,         \* evidence bodies that share the record key
    Absent,         \* no directory entry
    Torn,           \* content of a file that was never fsynced, after power loss
    Inodes,         \* inode numbers; a number is free once nothing refers to it
    HardenedWriters,\* the writers that open the root as HardenedPosixEvidenceStore
    LiveReview,     \* TRUE: an operator may confirm a lock whose writer still runs
    MaxLocks,       \* bound: lock files ever created (also the mtime clock)
    MaxPowerLosses, \* bound: power losses
    MaxOpCrashes    \* bound: crashes of an operator's process

ASSUME BoundsAreNaturals ==
    MaxLocks \in Nat /\ MaxPowerLosses \in Nat /\ MaxOpCrashes \in Nat
ASSUME ReviewIsBoolean == LiveReview \in BOOLEAN
ASSUME RolesAreDisjoint == Writers \cap Readers = {}

VARIABLES
    dir,        \* visible entries of the bucket: payload, manifest, lock
    disk,       \* the same entries as they are after a power loss
    quarantine, \* entries of quarantine/locks
    pc,         \* where each writer and reader is in its call
    val,        \* the evidence a writer was called with
    held,       \* the lock file a writer's descriptor refers to
    part,       \* the artifact a writer is materializing
    tmp,        \* a writer's staged temporary file
    got,        \* manifest bytes an actor has read
    res,        \* the outcome a writer carries through its finally clause
    opPc, obs,  \* where each operator is, and the lock it observed
    acked,      \* evidence for which some write returned a manifest
    published,  \* evidence for which a write returned that had published it itself
    seen,       \* evidence that some read returned
    ackedHardened, \* evidence for which a hardened write returned a manifest
    rejected,   \* some read raised EvidenceIntegrityError
    locks, losses, opCrashes  \* bounded counters

storeVars == <<dir, disk>>
writerVars == <<val, held, part, tmp, res>>
opVars == <<quarantine, opPc, obs, opCrashes>>
history == <<acked, published, seen, ackedHardened, rejected>>
vars == <<dir, disk, quarantine, pc, val, held, part, tmp, got, res, opPc, obs,
          acked, published, seen, ackedHardened, rejected, locks, losses, opCrashes>>

Actors == Writers \cup Readers
Names == {"payload", "manifest", "lock"}
Files == [val : Values \cup {Torn}, synced : BOOLEAN]
LockFiles == [ino : Inodes, mtime : 1..MaxLocks]
ASSUME AbsentIsNoFile ==
    /\ Absent \notin Values \cup {Torn} \cup Files \cup LockFiles
    /\ Torn \notin Values

Artifacts == Files \cup {Absent}
LockEntries == LockFiles \cup {Absent}
Outcomes == {"none", "written", "existing", "conflict", "incomplete", "resource",
             "integrity", "error"}

Bucket == [payload : Artifacts, manifest : Artifacts, lock : LockEntries]

MaterializePcs == {"stage", "sync", "link", "dirsync", "unstage"}
ReleasePcs == {"rel_verify", "rel_recheck", "rel_unlink", "rel_sync"}
ReadPcs == {"read_payload_exists", "read_manifest_exists", "read_manifest",
            "read_payload"}
WriterPcs == {"idle", "acquire", "payload_exists", "payload_seen",
              "payload_missing"} \cup ReadPcs \cup MaterializePcs \cup ReleasePcs
OperatorPcs == {"idle", "observed", "confirmed", "linked", "checked", "unlinked"}

Empty == [n \in Names |-> Absent]

Init ==
    /\ dir = Empty
    /\ disk = Empty
    /\ quarantine = {}
    /\ pc = [a \in Actors |-> "idle"]
    /\ val = [w \in Writers |-> Absent]
    /\ held = [w \in Writers |-> Absent]
    /\ part = [w \in Writers |-> "payload"]
    /\ tmp = [w \in Writers |-> Absent]
    /\ got = [a \in Actors |-> Absent]
    /\ res = [w \in Writers |-> "none"]
    /\ opPc = [o \in Operators |-> "idle"]
    /\ obs = [o \in Operators |-> Absent]
    /\ acked = {}
    /\ published = {}
    /\ seen = {}
    /\ ackedHardened = {}
    /\ rejected = FALSE
    /\ locks = 0
    /\ losses = 0
    /\ opCrashes = 0

Goto(a, step) == pc' = [pc EXCEPT ![a] = step]

\* Leave the try block with an outcome: the finally clause releases the lock.
Finish(w, outcome) ==
    /\ Goto(w, "rel_verify")
    /\ res' = [res EXCEPT ![w] = outcome]

\* Leave the call: every descriptor is closed.
Return(w, outcome) ==
    /\ Goto(w, "idle")
    /\ held' = [held EXCEPT ![w] = Absent]
    /\ val' = [val EXCEPT ![w] = Absent]
    /\ part' = [part EXCEPT ![w] = "payload"]
    /\ res' = [res EXCEPT ![w] = "none"]
    /\ acked' = IF outcome \in {"written", "existing"} THEN acked \cup {val[w]} ELSE acked
    /\ IF outcome \in {"written", "existing"} /\ w \in HardenedWriters
         THEN ackedHardened' = ackedHardened \cup {val[w]}
         ELSE UNCHANGED ackedHardened
    /\ published' = IF outcome = "written" THEN published \cup {val[w]} ELSE published

-----------------------------------------------------------------------------
(* Writers: _write_prepared                                                *)

InodesInUse ==
    {f.ino : f \in ({dir["lock"], disk["lock"]} \cup {held[w] : w \in Writers}
                    \cup {q.file : q \in quarantine}) \ {Absent}}

\* write(evidence): the canonical payload passed its byte ceiling.
StartWrite(w) ==
    /\ pc[w] = "idle"
    /\ \E v \in Values : val' = [val EXCEPT ![w] = v]
    /\ Goto(w, "acquire")
    /\ UNCHANGED <<storeVars, held, part, tmp, res, got, opVars, history, locks, losses>>

\* Faulty variant: O_CREAT without O_EXCL.
AcquireLockShared(w) ==
    /\ pc[w] = "acquire"
    /\ locks < MaxLocks
    /\ \E i \in Inodes \ InodesInUse :
          LET file == [ino |-> i, mtime |-> locks + 1] IN
          /\ dir' = [dir EXCEPT !["lock"] = file]
          /\ held' = [held EXCEPT ![w] = file]
    /\ locks' = locks + 1
    /\ Goto(w, "payload_exists")
    /\ UNCHANGED <<disk, val, part, tmp, res, got, opVars, history, losses>>

\* _acquire_lock: O_CREAT | O_EXCL, or EvidenceStoreBusyError before the try block.
AcquireLock(w) ==
    /\ pc[w] = "acquire"
    /\ \/ /\ dir["lock"] # Absent
          /\ Goto(w, "idle")
          /\ UNCHANGED <<dir, held, locks>>
       \/ /\ dir["lock"] = Absent
          /\ locks < MaxLocks
          /\ \E i \in Inodes \ InodesInUse :
                LET file == [ino |-> i, mtime |-> locks + 1] IN
                /\ dir' = [dir EXCEPT !["lock"] = file]
                /\ held' = [held EXCEPT ![w] = file]
          /\ locks' = locks + 1
          /\ Goto(w, "payload_exists")
    /\ UNCHANGED <<disk, val, part, tmp, res, got, opVars, history, losses>>

\* _presence looks at the payload first, then at the manifest.
PresencePayload(w) ==
    /\ pc[w] = "payload_exists"
    /\ Goto(w, IF dir["payload"] # Absent THEN "payload_seen"
                                          ELSE "payload_missing")
    /\ UNCHANGED <<storeVars, writerVars, got, opVars, history, locks, losses>>

\* complete: re-read; partial: refuse to repair; absent: size-check the manifest.
PresenceManifest(w) ==
    /\ \/ /\ pc[w] = "payload_seen"
          /\ dir["manifest"] # Absent
          /\ Goto(w, "read_payload_exists")
          /\ UNCHANGED <<part, res>>
       \/ /\ \/ pc[w] = "payload_seen" /\ dir["manifest"] = Absent
             \/ pc[w] = "payload_missing" /\ dir["manifest"] # Absent
          /\ Finish(w, "incomplete")
          /\ UNCHANGED part
       \/ /\ pc[w] = "payload_missing"
          /\ dir["manifest"] = Absent
          /\ \/ /\ Goto(w, "stage")
                /\ part' = [part EXCEPT ![w] = "payload"]
                /\ UNCHANGED res
             \/ Finish(w, "resource") /\ UNCHANGED part
    /\ UNCHANGED <<storeVars, val, held, tmp, got, opVars, history, locks, losses>>

-----------------------------------------------------------------------------
(* Writers: _atomic_materialize of the payload, then of the manifest       *)

\* Refuse an existing artifact, else create the temporary file and write it.
Stage(w) ==
    /\ pc[w] = "stage"
    /\ IF dir[part[w]] # Absent
         THEN Finish(w, "conflict") /\ UNCHANGED tmp
         ELSE /\ Goto(w, "sync")
              /\ tmp' = [tmp EXCEPT ![w] = [val |-> val[w], synced |-> FALSE]]
              /\ UNCHANGED res
    /\ UNCHANGED <<storeVars, val, held, part, got, opVars, history, locks, losses>>

\* Faulty variant: the staged file is linked without being fsynced.
SyncFileSkipped(w) ==
    /\ pc[w] = "sync"
    /\ Goto(w, "link")
    /\ UNCHANGED <<storeVars, val, held, part, tmp, res, got, opVars, history, locks, losses>>

\* os.fsync of the staged file, then close.
SyncFile(w) ==
    /\ pc[w] = "sync"
    /\ Goto(w, "link")
    /\ tmp' = [tmp EXCEPT ![w] = [val |-> val[w], synced |-> TRUE]]
    /\ UNCHANGED <<storeVars, val, held, part, res, got, opVars, history, locks, losses>>

\* Faulty variant: os.replace instead of the no-clobber hard link.
PublishReplaces(w) ==
    /\ pc[w] = "link"
    /\ Goto(w, "dirsync")
    /\ dir' = [dir EXCEPT ![part[w]] = tmp[w]]
    /\ UNCHANGED <<disk, writerVars, got, opVars, history, locks, losses>>

\* hardlink_to fails if the destination appeared; the finally clause drops the stage.
Publish(w) ==
    /\ pc[w] = "link"
    /\ IF dir[part[w]] # Absent
         THEN /\ Finish(w, "conflict")
              /\ tmp' = [tmp EXCEPT ![w] = Absent]
              /\ UNCHANGED dir
         ELSE /\ Goto(w, "dirsync")
              /\ dir' = [dir EXCEPT ![part[w]] = tmp[w]]
              /\ UNCHANGED <<tmp, res>>
    /\ UNCHANGED <<disk, val, held, part, got, opVars, history, locks, losses>>

\* _fsync_directory of the bucket after the link.
SyncDirectory(w) ==
    /\ pc[w] = "dirsync"
    /\ Goto(w, "unstage")
    /\ disk' = dir
    /\ UNCHANGED <<dir, writerVars, got, opVars, history, locks, losses>>

\* Unlink the temporary file and fsync again; then the manifest, or the release.
Unstage(w) ==
    /\ pc[w] = "unstage"
    /\ tmp' = [tmp EXCEPT ![w] = Absent]
    /\ disk' = dir
    /\ IF part[w] = "payload"
         THEN Goto(w, "stage") /\ part' = [part EXCEPT ![w] = "manifest"] /\ UNCHANGED res
         ELSE Finish(w, "written") /\ UNCHANGED part
    /\ UNCHANGED <<dir, val, held, got, opVars, history, locks, losses>>

\* Faulty variant: an error after the link is swallowed.
MaterializeFailsSilently(w) ==
    /\ pc[w] \in MaterializePcs
    /\ tmp' = [tmp EXCEPT ![w] = Absent]
    /\ Finish(w, IF pc[w] = "dirsync" THEN "written" ELSE "error")
    /\ UNCHANGED <<storeVars, val, held, part, got, opVars, history, locks, losses>>

\* An OSError in any of these calls: finally unlinks the stage and releases the lock.
MaterializeFails(w) ==
    /\ pc[w] \in MaterializePcs
    /\ tmp' = [tmp EXCEPT ![w] = Absent]
    /\ Finish(w, "error")
    /\ UNCHANGED <<storeVars, val, held, part, got, opVars, history, locks, losses>>

-----------------------------------------------------------------------------
(* Writers: _release_lock, run by the finally clause                       *)

\* fstat of the descriptor against lstat of the path: same inode, or integrity error.
IsOwnLock(w) == dir["lock"] # Absent /\ dir["lock"].ino = held[w].ino

ReleaseVerify(w) ==
    /\ pc[w] \in {"rel_verify", "rel_recheck"}
    /\ IF IsOwnLock(w)
         THEN /\ Goto(w, IF pc[w] = "rel_verify" THEN "rel_recheck" ELSE "rel_unlink")
              /\ UNCHANGED <<held, val, part, res, acked, published, ackedHardened>>
         ELSE Return(w, "integrity")
    /\ UNCHANGED <<storeVars, tmp, got, opVars, seen, rejected, locks, losses>>

\* The path is removed whatever it names by now; a missing path is an integrity error.
ReleaseUnlink(w) ==
    /\ pc[w] = "rel_unlink"
    /\ IF dir["lock"] = Absent
         THEN Return(w, "integrity") /\ UNCHANGED dir
         ELSE /\ dir' = [dir EXCEPT !["lock"] = Absent]
              /\ IF w \in HardenedWriters
                   THEN Goto(w, "rel_sync") /\ UNCHANGED <<held, val, part, res, acked, published, ackedHardened>>
                   ELSE Return(w, res[w])
    /\ UNCHANGED <<disk, tmp, got, opVars, seen, rejected, locks, losses>>

\* Faulty variant: the hardened store releases without the fsync.
ReleaseSyncSkipped(w) ==
    /\ pc[w] = "rel_sync"
    /\ Return(w, res[w])
    /\ UNCHANGED <<storeVars, tmp, got, opVars, seen, rejected, locks, losses>>

\* Only the hardened store fsyncs the bucket after the unlink; it may fail.
ReleaseSync(w) ==
    /\ pc[w] = "rel_sync"
    /\ \/ Return(w, res[w]) /\ disk' = dir
       \/ Return(w, "integrity") /\ UNCHANGED disk
    /\ UNCHANGED <<dir, tmp, got, opVars, seen, rejected, locks, losses>>

\* The writer's process dies: its descriptors close, its lock and stage files stay.
WriterCrash(w) ==
    /\ pc[w] # "idle"
    /\ Goto(w, "idle")
    /\ held' = [held EXCEPT ![w] = Absent]
    /\ val' = [val EXCEPT ![w] = Absent]
    /\ part' = [part EXCEPT ![w] = "payload"]
    /\ tmp' = [tmp EXCEPT ![w] = Absent]
    /\ res' = [res EXCEPT ![w] = "none"]
    /\ got' = [got EXCEPT ![w] = Absent]
    /\ UNCHANGED <<storeVars, opVars, history, locks, losses>>

-----------------------------------------------------------------------------
(* read: called by readers, and by a writer that found a complete record   *)

StartRead(r) ==
    /\ pc[r] = "idle"
    /\ Goto(r, "read_payload_exists")
    /\ UNCHANGED <<storeVars, writerVars, got, opVars, history, locks, losses>>

\* Faulty variant: an existing record is returned whatever evidence it holds.
ReadReturnsAnyRecord(a, v) ==
    /\ IF a \in Writers
         THEN Finish(a, "existing") /\ UNCHANGED seen
         ELSE Goto(a, "idle") /\ seen' = seen \cup {v} /\ UNCHANGED res
    /\ UNCHANGED rejected

\* How a read ends: a reader returns, a writer compares and releases its lock.
ReadRaises(a, outcome) ==
    /\ IF a \in Writers THEN Finish(a, outcome) ELSE Goto(a, "idle") /\ UNCHANGED res
    /\ rejected' = (rejected \/ outcome = "integrity")
    /\ UNCHANGED seen

ReadReturns(a, v) ==
    /\ IF a \in Writers
         THEN Finish(a, IF v = val[a] THEN "existing" ELSE "conflict") /\ UNCHANGED seen
         ELSE Goto(a, "idle") /\ seen' = seen \cup {v} /\ UNCHANGED res
    /\ UNCHANGED rejected

ReadPresence(a) ==
    /\ \/ /\ pc[a] = "read_payload_exists"
          /\ IF dir["payload"] # Absent
               THEN Goto(a, "read_manifest_exists") /\ UNCHANGED <<res, seen, rejected>>
               ELSE ReadRaises(a, "incomplete")
       \/ /\ pc[a] = "read_manifest_exists"
          /\ IF dir["manifest"] # Absent
               THEN Goto(a, "read_manifest") /\ UNCHANGED <<res, seen, rejected>>
               ELSE ReadRaises(a, "incomplete")
    /\ UNCHANGED <<storeVars, val, held, part, tmp, got, opVars, acked, published, ackedHardened, locks, losses>>

\* _safe_read_regular_file of the manifest: an absent file is an integrity error.
ReadManifest(a) ==
    /\ pc[a] = "read_manifest"
    /\ IF dir["manifest"] = Absent
         THEN ReadRaises(a, "integrity") /\ UNCHANGED got
         ELSE /\ Goto(a, "read_payload")
              /\ got' = [got EXCEPT ![a] = dir["manifest"].val]
              /\ UNCHANGED <<res, seen, rejected>>
    /\ UNCHANGED <<storeVars, val, held, part, tmp, opVars, acked, published, ackedHardened, locks, losses>>

\* The payload must have the length, hash, identity and root the manifest binds.
ReadPayload(a) ==
    /\ pc[a] = "read_payload"
    /\ IF dir["payload"] # Absent /\ dir["payload"].val = got[a] /\ got[a] # Torn
         THEN ReadReturns(a, got[a])
         ELSE ReadRaises(a, "integrity")
    /\ got' = [got EXCEPT ![a] = Absent]
    /\ UNCHANGED <<storeVars, val, held, part, tmp, opVars, acked, published, ackedHardened, locks, losses>>

-----------------------------------------------------------------------------
(* Operators: inspect_record_lock, then quarantine_record_lock             *)

OpGoto(o, step) == opPc' = [opPc EXCEPT ![o] = step]

\* The writer process that created this lock file still has it open.
HasLiveWriter(file) == \E w \in Writers : held[w] = file

\* Observe the lock (inode, size, mtime) and confirm that observation.  Whether its
\* writer is gone is the operator's own judgement: LiveReview says it may be wrong.
Inspect(o) ==
    /\ opPc[o] = "idle"
    /\ dir["lock"] # Absent
    /\ LiveReview \/ ~HasLiveWriter(dir["lock"])
    /\ obs' = [obs EXCEPT ![o] = dir["lock"]]
    /\ OpGoto(o, "observed")
    /\ UNCHANGED <<storeVars, quarantine, pc, writerVars, got, history, locks, losses,
                   opCrashes>>

\* quarantine_record_lock re-inspects; any change of identity refuses.
ConfirmLock(o) ==
    /\ opPc[o] = "observed"
    /\ OpGoto(o, IF dir["lock"] = obs[o] THEN "confirmed" ELSE "idle")
    /\ UNCHANGED <<storeVars, quarantine, pc, writerVars, got, obs, history, locks, losses,
                   opCrashes>>

\* Faulty variant: the audit name may be linked over.
LinkLockClobbers(o) ==
    /\ opPc[o] = "confirmed"
    /\ IF dir["lock"] = Absent
         THEN OpGoto(o, "idle") /\ UNCHANGED quarantine
         ELSE /\ quarantine' = {q \in quarantine : q.name # obs[o]}
                                 \cup {[name |-> obs[o], file |-> dir["lock"]]}
              /\ OpGoto(o, "linked")
    /\ UNCHANGED <<storeVars, pc, writerVars, got, obs, history, locks, losses, opCrashes>>

\* os.link of whatever the path names now, to the name derived from the observation.
LinkLock(o) ==
    /\ opPc[o] = "confirmed"
    /\ IF dir["lock"] = Absent \/ \E q \in quarantine : q.name = obs[o]
         THEN OpGoto(o, "idle") /\ UNCHANGED quarantine
         ELSE /\ quarantine' = quarantine \cup {[name |-> obs[o], file |-> dir["lock"]]}
              /\ OpGoto(o, "linked")
    /\ UNCHANGED <<storeVars, pc, writerVars, got, obs, history, locks, losses, opCrashes>>

\* lstat of source and destination: both must have the observed inode number.
CheckLock(o) ==
    /\ opPc[o] = "linked"
    /\ LET same == /\ dir["lock"] # Absent
                   /\ dir["lock"].ino = obs[o].ino
                   /\ \E q \in quarantine : q.name = obs[o] /\ q.file.ino = obs[o].ino
       IN  OpGoto(o, IF same THEN "checked" ELSE "idle")
    /\ UNCHANGED <<storeVars, quarantine, pc, writerVars, got, obs, history, locks, losses,
                   opCrashes>>

\* Faulty variant: the lock is copied to the quarantine but stays active.
UnlinkLockForgotten(o) ==
    /\ opPc[o] = "checked"
    /\ OpGoto(o, "unlinked")
    /\ UNCHANGED <<storeVars, quarantine, pc, writerVars, got, obs, history, locks, losses,
                   opCrashes>>

\* source.unlink(): removes the lock file the path names at this moment.
UnlinkLock(o) ==
    /\ opPc[o] = "checked"
    /\ OpGoto(o, IF dir["lock"] = Absent THEN "idle" ELSE "unlinked")
    /\ dir' = [dir EXCEPT !["lock"] = Absent]
    /\ UNCHANGED <<disk, quarantine, pc, writerVars, got, obs, history, locks, losses,
                   opCrashes>>

\* _fsync_directory of the bucket, then the receipt.
SyncQuarantine(o) ==
    /\ opPc[o] = "unlinked"
    /\ OpGoto(o, "idle")
    /\ disk' = dir
    /\ UNCHANGED <<dir, quarantine, pc, writerVars, got, obs, history, locks, losses,
                   opCrashes>>

\* The operator's process dies between two calls.
OperatorCrash(o) ==
    /\ opPc[o] # "idle"
    /\ opCrashes < MaxOpCrashes
    /\ opCrashes' = opCrashes + 1
    /\ OpGoto(o, "idle")
    /\ UNCHANGED <<storeVars, quarantine, pc, writerVars, got, obs, history, locks, losses>>

-----------------------------------------------------------------------------
(* The filesystem                                                          *)

\* The kernel writes one entry back without being asked.
Writeback ==
    /\ losses < MaxPowerLosses
    /\ \E n \in Names : disk' = [disk EXCEPT ![n] = dir[n]]
    /\ UNCHANGED <<dir, pc, writerVars, got, opVars, history, locks, losses>>

\* An unsynced file may survive as an entry without its bytes.
AfterLoss(entry) ==
    IF entry = Absent \/ entry.synced THEN entry ELSE [val |-> Torn, synced |-> FALSE]

\* Power loss: every process dies and only `disk` is left.  (The quarantine
\* directory is taken as durable: no property depends on losing one of its entries.)
PowerLoss ==
    /\ losses < MaxPowerLosses
    /\ losses' = losses + 1
    /\ disk' = [n \in Names |-> IF n = "lock" THEN disk[n] ELSE AfterLoss(disk[n])]
    /\ dir' = disk'
    /\ pc' = [a \in Actors |-> "idle"]
    /\ val' = [w \in Writers |-> Absent]
    /\ held' = [w \in Writers |-> Absent]
    /\ part' = [w \in Writers |-> "payload"]
    /\ tmp' = [w \in Writers |-> Absent]
    /\ got' = [a \in Actors |-> Absent]
    /\ res' = [w \in Writers |-> "none"]
    /\ opPc' = [o \in Operators |-> "idle"]
    /\ UNCHANGED <<quarantine, obs, history, locks, opCrashes>>

WriterCall(w) ==
    \/ StartWrite(w) \/ AcquireLock(w) \/ PresencePayload(w) \/ PresenceManifest(w)
    \/ Stage(w) \/ SyncFile(w) \/ Publish(w) \/ SyncDirectory(w) \/ Unstage(w)
    \/ MaterializeFails(w)
    \/ ReleaseVerify(w) \/ ReleaseUnlink(w) \/ ReleaseSync(w)

ReadStep(a) == ReadPresence(a) \/ ReadManifest(a) \/ ReadPayload(a)

QuarantineCall(o) ==
    \/ Inspect(o) \/ ConfirmLock(o) \/ LinkLock(o) \/ CheckLock(o) \/ UnlinkLock(o)
    \/ SyncQuarantine(o)

Next ==
    \/ \E w \in Writers : WriterCall(w) \/ WriterCrash(w)
    \/ \E r \in Readers : StartRead(r)
    \/ \E a \in Actors : ReadStep(a)
    \/ \E o \in Operators : QuarantineCall(o) \/ OperatorCrash(o)
    \/ Writeback
    \/ PowerLoss

Spec == Init /\ [][Next]_vars

\* A writer inside a call keeps running unless it crashes, and an operator keeps reviewing.
InCriticalSection(w) == pc[w] \notin {"idle", "acquire"}

FairSpec ==
    /\ Spec
    /\ \A w \in Writers : /\ WF_vars(InCriticalSection(w) /\ WriterCall(w))
                          /\ WF_vars(ReadStep(w))
    /\ \A o \in Operators : WF_vars(QuarantineCall(o))

-----------------------------------------------------------------------------
(* Properties                                                              *)

\* Every variable has its type.
TypeOK ==
    /\ dir \in [Names -> Artifacts \cup LockEntries]
    /\ dir["payload"] \in Artifacts /\ dir["manifest"] \in Artifacts
    /\ dir["lock"] \in LockEntries
    /\ disk \in [Names -> Artifacts \cup LockEntries]
    /\ disk["payload"] \in Artifacts /\ disk["manifest"] \in Artifacts
    /\ disk["lock"] \in LockEntries
    /\ quarantine \in SUBSET [name : LockFiles, file : LockFiles]
    /\ pc \in [Actors -> WriterPcs]
    /\ val \in [Writers -> Values \cup {Absent}]
    /\ held \in [Writers -> LockEntries]
    /\ part \in [Writers -> {"payload", "manifest"}]
    /\ tmp \in [Writers -> Artifacts]
    /\ got \in [Actors -> Values \cup {Torn, Absent}]
    /\ res \in [Writers -> Outcomes]
    /\ opPc \in [Operators -> OperatorPcs]
    /\ obs \in [Operators -> LockEntries]
    /\ acked \subseteq Values
    /\ published \subseteq acked
    /\ ackedHardened \subseteq acked
    /\ seen \subseteq Values
    /\ rejected \in BOOLEAN
    /\ locks \in 0..MaxLocks
    /\ losses \in 0..MaxPowerLosses
    /\ opCrashes \in 0..MaxOpCrashes

\* Entries that form a committed record: a manifest, and the payload it binds.
Committed(entries) ==
    /\ entries["payload"] # Absent
    /\ entries["payload"].val = entries["manifest"].val
    /\ entries["manifest"].val # Torn

\* The manifest is the commit marker: whatever crashes, and whenever the power fails,
\* a manifest is never without the complete payload it binds (store.py:98-108).
ManifestImpliesRecord ==
    /\ dir["manifest"] # Absent => Committed(dir)
    /\ disk["manifest"] # Absent => Committed(disk)

\* No process ever replaces or removes a published artifact, even when two writers
\* are in the critical section because a live lock was quarantined.
NothingIsClobbered ==
    [][losses' = losses =>
          \A n \in {"payload", "manifest"} : dir[n] # Absent => dir'[n] = dir[n]]_vars

\* Without tampering no reader and no writer ever meets an integrity error on reading,
\* although readers take no lock.
ReadsAreNeverRejected == ~rejected

\* Every write that returned a manifest and every read agree on one evidence body.
AnswersAgree == losses = 0 => \A v, x \in acked \cup seen : v = x

\* The record of v would still be there, complete, if the power failed now.
Durable(v) == disk["manifest"] # Absent /\ disk["manifest"].val = v /\ Committed(disk)

\* A write that published its record and returned survives any power loss.
PublishedIsDurable == \A v \in published : Durable(v)

\* A hardened write that returned survives a power loss even when it only found an
\* existing record, whose own writer may have failed before its directory fsync: the
\* fsync after the lock's removal covers it.  (LocalEvidenceStore has no such fsync.)
HardenedAckIsDurable == \A v \in ackedHardened : Durable(v)

\* Past the lock, and not yet past its removal: a hardened writer then only fsyncs.
HoldsLock(w) == InCriticalSection(w) /\ pc[w] # "rel_sync"

\* At most one live writer holds the lock, provided operators quarantine dead locks.
MutualExclusion == \A w, x \in Writers : HoldsLock(w) /\ HoldsLock(x) => w = x

\* Quarantine removes exactly the observed lock: "if the active path changed, cleanup
\* fails closed and the replacement is left in place" (resilience.py:281-282).
QuarantineSparesReplacement ==
    [][\A o \in Operators : UnlinkLock(o) /\ dir["lock"] # Absent => dir["lock"] = obs[o]]_vars

\* A lock whose writer died is eventually moved away, unless an operator crashes between
\* the link and the unlink: the audit name then exists and every retry conflicts.
StaleLockIsCleared ==
    \A f \in LockFiles :
        (dir["lock"] = f /\ ~HasLiveWriter(f)) ~> (dir["lock"] # f \/ opCrashes > 0)

\* The record as its readers decode it.
Record == IF dir["manifest"] = Absent THEN Absent ELSE dir["manifest"].val

Register == INSTANCE EvidenceRegister WITH NoRecord <- Absent, record <- Record, acked <- published

\* The store implements a write-once register that never loses an acknowledged record.
ImplementsRegister == Register!Spec
=============================================================================
