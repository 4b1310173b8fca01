------------------------ MODULE EvidenceStoreProofs ------------------------
(***************************************************************************)
(* Proofs about EvidenceStore for any sets of writers, readers, operators, *)
(* evidence bodies and inodes.  Nothing about records depends on the lock: *)
(* what keeps a record consistent is the no-clobber link and the order     *)
(* payload, directory fsync, manifest.  What the lock promises, when       *)
(* operators only confirm locks of dead writers, is proved last.           *)
(***************************************************************************)
EXTENDS EvidenceStore, TLAPS

USE DEF Names, Actors

-----------------------------------------------------------------------------
(* Type correctness: a call's evidence and its staged file strengthen it.  *)

\* What a writer's own variables hold at the steps that use them.
StagedByCall ==
    \A w \in Writers :
        /\ pc[w] # "idle" => val[w] \in Values
        /\ pc[w] = "sync" => tmp[w] = [val |-> val[w], synced |-> FALSE]
        /\ pc[w] = "link" => tmp[w] = [val |-> val[w], synced |-> TRUE]

\* An operator that is past inspect_record_lock holds an observation.
ObservedByOperator == \A o \in Operators : opPc[o] # "idle" => obs[o] \in LockFiles

TypeInv == TypeOK /\ StagedByCall /\ ObservedByOperator

LEMMA InitTypeInv == Init => TypeInv
<1> SUFFICES ASSUME Init PROVE TypeInv
  OBVIOUS
<1> USE DEF Init
<1>1. /\ dir \in [Names -> Artifacts \cup LockEntries]
      /\ disk \in [Names -> Artifacts \cup LockEntries]
  <2>1. Empty \in [Names -> Artifacts \cup LockEntries]
    BY DEF Empty, Artifacts
  <2> QED
    BY <2>1
<1>2. /\ dir["payload"] \in Artifacts /\ dir["manifest"] \in Artifacts
      /\ dir["lock"] \in LockEntries
      /\ disk["payload"] \in Artifacts /\ disk["manifest"] \in Artifacts
      /\ disk["lock"] \in LockEntries
  BY DEF Empty, Artifacts, LockEntries
<1>3. /\ pc \in [Actors -> WriterPcs]
      /\ opPc \in [Operators -> OperatorPcs]
      /\ res \in [Writers -> Outcomes]
  BY DEF WriterPcs, OperatorPcs, Outcomes
<1>4. /\ val \in [Writers -> Values \cup {Absent}]
      /\ held \in [Writers -> LockEntries]
      /\ part \in [Writers -> {"payload", "manifest"}]
      /\ tmp \in [Writers -> Artifacts]
      /\ got \in [Actors -> Values \cup {Torn, Absent}]
      /\ obs \in [Operators -> LockEntries]
  BY DEF Artifacts, LockEntries
<1>5. /\ locks \in 0..MaxLocks
      /\ losses \in 0..MaxPowerLosses
      /\ opCrashes \in 0..MaxOpCrashes
  BY BoundsAreNaturals
<1>6. StagedByCall /\ ObservedByOperator
  BY DEF StagedByCall, ObservedByOperator
<1> QED
  BY <1>1, <1>2, <1>3, <1>4, <1>5, <1>6 DEF TypeInv, TypeOK

\* A published entry is the writer's staged file.
LEMMA PublishTypeInv ==
    ASSUME TypeInv, NEW w \in Writers, Publish(w)
    PROVE  TypeInv'
<1>1. pc[w] = "link" /\ w \in Actors /\ part[w] \in {"payload", "manifest"}
  BY DEF Publish, TypeInv, TypeOK
<1>2. tmp[w] = [val |-> val[w], synced |-> TRUE] /\ val[w] \in Values
  BY <1>1 DEF TypeInv, StagedByCall
<1>3. tmp[w] \in Artifacts
  BY <1>2 DEF Artifacts, Files
<1>4. /\ dir' \in [Names -> Artifacts \cup LockEntries]
      /\ dir'["payload"] \in Artifacts /\ dir'["manifest"] \in Artifacts
      /\ dir'["lock"] \in LockEntries
  BY <1>1, <1>3 DEF Publish, TypeInv, TypeOK
<1>5. /\ pc' \in [Actors -> WriterPcs]
      /\ tmp' \in [Writers -> Artifacts]
      /\ res' \in [Writers -> Outcomes]
  BY <1>1 DEF Publish, TypeInv, TypeOK, Goto, Finish, WriterPcs, MaterializePcs, ReleasePcs,
     Outcomes, Artifacts
<1>6. StagedByCall' /\ ObservedByOperator'
  BY <1>1 DEF Publish, TypeInv, TypeOK, StagedByCall, ObservedByOperator, Goto, Finish, opVars
<1> QED
  BY <1>4, <1>5, <1>6 DEF Publish, TypeInv, TypeOK, opVars, history

LEMMA WriterTypeInv ==
    ASSUME TypeInv, NEW w \in Writers, WriterCall(w) \/ WriterCrash(w)
    PROVE  TypeInv'
<1> USE AbsentIsNoFile, BoundsAreNaturals
    DEF TypeInv, StagedByCall, ObservedByOperator, TypeOK, storeVars, writerVars, opVars, history, Goto, Finish,
        Return, WriterPcs, ReadPcs, MaterializePcs, ReleasePcs, Outcomes
<1>1. CASE StartWrite(w)
  BY <1>1 DEF StartWrite
<1>2. CASE AcquireLock(w)
  <2>1. CASE dir["lock"] # Absent
    BY <1>2, <2>1 DEF AcquireLock, LockFiles, LockEntries
  <2>2. CASE dir["lock"] = Absent
    BY <1>2, <2>2 DEF AcquireLock, LockFiles, LockEntries
  <2> QED
    BY <2>1, <2>2
<1>3. CASE PresencePayload(w)
  <2>1. PICK step \in {"payload_seen", "payload_missing"} : Goto(w, step)
    BY <1>3 DEF PresencePayload
  <2> QED
    BY <1>3, <2>1 DEF PresencePayload
<1>4. CASE PresenceManifest(w)
  BY <1>4 DEF PresenceManifest
<1>5. CASE Stage(w)
  <2>1. CASE dir[part[w]] # Absent
    BY <1>5, <2>1 DEF Stage
  <2>2. CASE dir[part[w]] = Absent
    <3>1. [val |-> val[w], synced |-> FALSE] \in Artifacts
      BY <1>5 DEF Stage, Artifacts, Files
    <3>2. /\ tmp' = [tmp EXCEPT ![w] = [val |-> val[w], synced |-> FALSE]]
          /\ pc' = [pc EXCEPT ![w] = "sync"]
          /\ UNCHANGED <<storeVars, val, held, part, res, got, opVars, history, locks,
                         losses>>
      BY <1>5, <2>2 DEF Stage
    <3>3. tmp' \in [Writers -> Artifacts]
      BY <3>1, <3>2
    <3>4. StagedByCall'
      BY <1>5, <3>2 DEF Stage
    <3> QED
      BY <3>2, <3>3, <3>4
  <2> QED
    BY <2>1, <2>2
<1>6. CASE SyncFile(w)
  <2>1. [val |-> val[w], synced |-> TRUE] \in Artifacts
    BY <1>6 DEF SyncFile, Artifacts, Files
  <2> QED
    BY <1>6, <2>1 DEF SyncFile
<1>7. CASE Publish(w)
  BY <1>7, PublishTypeInv
<1>8. CASE SyncDirectory(w)
  BY <1>8 DEF SyncDirectory
<1>9. CASE Unstage(w)
  BY <1>9 DEF Unstage, Artifacts
<1>10. CASE MaterializeFails(w)
  BY <1>10 DEF MaterializeFails, Artifacts
<1>11. CASE ReleaseVerify(w)
  BY <1>11 DEF ReleaseVerify, LockEntries
<1>12. CASE ReleaseUnlink(w)
  BY <1>12 DEF ReleaseUnlink, LockEntries
<1>13. CASE ReleaseSync(w)
  BY <1>13 DEF ReleaseSync, LockEntries
<1>14. CASE WriterCrash(w)
  BY <1>14 DEF WriterCrash, Artifacts, LockEntries
<1> QED
  BY <1>1, <1>2, <1>3, <1>4, <1>5, <1>6, <1>7, <1>8, <1>9, <1>10, <1>11, <1>12, <1>13,
     <1>14 DEF WriterCall

LEMMA ReadTypeInv ==
    ASSUME TypeInv, NEW a \in Actors, ReadStep(a) \/ (a \in Readers /\ StartRead(a))
    PROVE  TypeInv'
<1> USE AbsentIsNoFile, RolesAreDisjoint
    DEF TypeInv, StagedByCall, ObservedByOperator, TypeOK, storeVars, writerVars, opVars, history, Goto, Finish,
        ReadRaises, ReadReturns, WriterPcs, ReadPcs, MaterializePcs, ReleasePcs, Outcomes
<1>1. CASE a \in Readers /\ StartRead(a)
  BY <1>1 DEF StartRead
<1>2. CASE ReadPresence(a)
  BY <1>2 DEF ReadPresence
<1>3. CASE ReadManifest(a)
  <2>1. dir["manifest"] # Absent => dir["manifest"].val \in Values \cup {Torn}
    BY DEF Artifacts, Files
  <2>2. CASE dir["manifest"] = Absent
    BY <1>3, <2>2 DEF ReadManifest
  <2>3. CASE dir["manifest"] # Absent
    BY <1>3, <2>1, <2>3 DEF ReadManifest
  <2> QED
    BY <2>2, <2>3
<1>4. CASE ReadPayload(a)
  <2>1. dir["payload"] # Absent => dir["payload"].val \in Values \cup {Torn}
    BY DEF Artifacts, Files
  <2>2. CASE dir["payload"] # Absent /\ dir["payload"].val = got[a] /\ got[a] # Torn
    <3>1. got[a] \in Values
      BY <2>1, <2>2
    <3>2. CASE a \in Writers
      BY <1>4, <2>2, <3>1, <3>2 DEF ReadPayload
    <3>3. CASE a \notin Writers
      BY <1>4, <2>2, <3>1, <3>3 DEF ReadPayload
    <3> QED
      BY <3>2, <3>3
  <2>3. CASE ~(dir["payload"] # Absent /\ dir["payload"].val = got[a] /\ got[a] # Torn)
    BY <1>4, <2>3 DEF ReadPayload
  <2> QED
    BY <2>2, <2>3
<1> QED
  BY <1>1, <1>2, <1>3, <1>4 DEF ReadStep

LEMMA OperatorTypeInv ==
    ASSUME TypeInv, NEW o \in Operators, QuarantineCall(o) \/ OperatorCrash(o)
    PROVE  TypeInv'
<1> USE BoundsAreNaturals
    DEF TypeInv, StagedByCall, ObservedByOperator, TypeOK, storeVars, writerVars, history, OpGoto, OperatorPcs
<1>1. CASE Inspect(o)
  BY <1>1 DEF Inspect, LockEntries
<1>2. CASE ConfirmLock(o)
  BY <1>2 DEF ConfirmLock
<1>3. CASE LinkLock(o)
  <2>1. dir["lock"] # Absent =>
            [name |-> obs[o], file |-> dir["lock"]] \in [name : LockFiles, file : LockFiles]
    BY <1>3 DEF LinkLock, LockEntries
  <2> QED
    BY <1>3, <2>1 DEF LinkLock
<1>4. CASE CheckLock(o)
  BY <1>4 DEF CheckLock
<1>5. CASE UnlinkLock(o)
  BY <1>5 DEF UnlinkLock, LockEntries
<1>6. CASE SyncQuarantine(o)
  BY <1>6 DEF SyncQuarantine
<1>7. CASE OperatorCrash(o)
  BY <1>7 DEF OperatorCrash
<1> QED
  BY <1>1, <1>2, <1>3, <1>4, <1>5, <1>6, <1>7 DEF QuarantineCall

LEMMA FilesystemTypeInv ==
    ASSUME TypeInv, Writeback \/ PowerLoss
    PROVE  TypeInv'
<1> USE BoundsAreNaturals DEF TypeInv, StagedByCall, ObservedByOperator, TypeOK, writerVars, opVars, history
<1>1. CASE Writeback
  BY <1>1 DEF Writeback
<1>2. CASE PowerLoss
  <2>1. \A e \in Artifacts : AfterLoss(e) \in Artifacts
    BY DEF AfterLoss, Artifacts, Files
  <2>2. /\ disk' \in [Names -> Artifacts \cup LockEntries]
        /\ disk'["payload"] \in Artifacts /\ disk'["manifest"] \in Artifacts
        /\ disk'["lock"] \in LockEntries
        /\ dir' = disk'
    BY <1>2, <2>1 DEF PowerLoss
  <2>3. /\ pc' \in [Actors -> WriterPcs]
        /\ val' \in [Writers -> Values \cup {Absent}]
        /\ held' \in [Writers -> LockEntries]
        /\ part' \in [Writers -> {"payload", "manifest"}]
        /\ tmp' \in [Writers -> Artifacts]
        /\ got' \in [Actors -> Values \cup {Torn, Absent}]
        /\ res' \in [Writers -> Outcomes]
        /\ opPc' \in [Operators -> OperatorPcs]
        /\ losses' \in 0..MaxPowerLosses
    BY <1>2 DEF PowerLoss, WriterPcs, LockEntries, Artifacts, Outcomes, OperatorPcs
  <2>4. StagedByCall' /\ ObservedByOperator'
    BY <1>2 DEF PowerLoss
  <2> QED
    BY <1>2, <2>2, <2>3, <2>4 DEF PowerLoss
<1> QED
  BY <1>1, <1>2

LEMMA NextTypeInv == TypeInv /\ [Next]_vars => TypeInv'
<1> SUFFICES ASSUME TypeInv, [Next]_vars PROVE TypeInv'
  OBVIOUS
<1>1. CASE UNCHANGED vars
  BY <1>1 DEF vars, TypeInv, TypeOK, StagedByCall, ObservedByOperator
<1> QED
  BY <1>1, WriterTypeInv, ReadTypeInv, OperatorTypeInv, FilesystemTypeInv DEF Next

\* Every variable keeps its type, for every instance of the store.
THEOREM TypeCorrect == Spec => []TypeOK
<1>1. TypeInv => TypeOK
  BY DEF TypeInv
<1> QED
  BY <1>1, InitTypeInv, NextTypeInv, PTL DEF Spec

-----------------------------------------------------------------------------
(* The inductive invariant of a record                                     *)

Artifact == {"payload", "manifest"}

\* Only fsynced files holding evidence are ever linked.
LinkedFilesAreSound ==
    \A n \in Artifact : dir[n] # Absent => dir[n].synced /\ dir[n].val \in Values

\* What a power loss leaves is part of what is visible.
DiskFollowsDir == \A n \in Artifact : disk[n] # Absent => disk[n] = dir[n]

\* A visible manifest has a durable payload that it binds.
ManifestFollowsPayload ==
    dir["manifest"] # Absent =>
        /\ dir["payload"] # Absent
        /\ dir["payload"].val = dir["manifest"].val
        /\ disk["payload"] = dir["payload"]

\* A writer that has linked an artifact, or goes on to the manifest, sees its own bytes.
PublisherSeesItsBytes ==
    \A w \in Writers :
        /\ pc[w] \in {"dirsync", "unstage"} =>
               dir[part[w]] # Absent /\ dir[part[w]].val = val[w]
        /\ pc[w] \in MaterializePcs /\ part[w] = "manifest" =>
               /\ dir["payload"] # Absent
               /\ dir["payload"].val = val[w]
               /\ disk["payload"] = dir["payload"]

\* A read that found a manifest keeps finding that manifest.
ReaderSeesTheRecord ==
    /\ \A a \in Actors :
          /\ pc[a] \in {"read_manifest", "read_payload"} => dir["manifest"] # Absent
          /\ pc[a] = "read_payload" => got[a] = dir["manifest"].val
    /\ ~rejected

\* The answers that were given, and those that a finally clause still carries.
AnswersAreTrue ==
    /\ \A w \in Writers :
          pc[w] \in ReleasePcs =>
              /\ res[w] = "written" => Durable(val[w])
              /\ res[w] \in {"written", "existing"} =>
                     dir["manifest"] # Absent /\ dir["manifest"].val = val[w]
    /\ \A v \in published \cup ackedHardened : Durable(v)
    /\ losses = 0 =>
          \A v \in acked \cup seen : dir["manifest"] # Absent /\ dir["manifest"].val = v

RecordInv ==
    /\ LinkedFilesAreSound
    /\ DiskFollowsDir
    /\ ManifestFollowsPayload
    /\ PublisherSeesItsBytes
    /\ ReaderSeesTheRecord
    /\ AnswersAreTrue

LEMMA InitRecordInv == Init => RecordInv
  BY DEF Init, Empty, RecordInv, LinkedFilesAreSound, DiskFollowsDir, ManifestFollowsPayload,
     PublisherSeesItsBytes, ReaderSeesTheRecord, AnswersAreTrue, Artifact, MaterializePcs,
     ReleasePcs

\* The link adds an entry where there was none, with the writer's bytes.
LEMMA PublishRecordInv ==
    ASSUME TypeInv, RecordInv, NEW w \in Writers, Publish(w)
    PROVE  RecordInv'
<1> DEFINE n == part[w]
<1>1. /\ n \in Artifact /\ w \in Actors /\ pc[w] = "link"
      /\ val[w] \in Values /\ tmp[w] = [val |-> val[w], synced |-> TRUE]
  BY DEF Publish, TypeInv, TypeOK, StagedByCall, Artifact
<1> USE DEF TypeInv, TypeOK, RecordInv, Artifact, MaterializePcs, ReleasePcs, opVars, history,
        Goto, Finish
<1>2. CASE dir[n] # Absent
  BY <1>1, <1>2 DEF Publish, LinkedFilesAreSound, DiskFollowsDir, ManifestFollowsPayload,
     PublisherSeesItsBytes, ReaderSeesTheRecord, AnswersAreTrue, Durable, Committed
<1>3. CASE dir[n] = Absent
  <2>1. /\ dir' = [dir EXCEPT ![n] = tmp[w]]
        /\ pc' = [pc EXCEPT ![w] = "dirsync"]
        /\ UNCHANGED <<disk, val, part, tmp, got, res, acked, published, ackedHardened, seen, rejected,
                       losses>>
    BY <1>3 DEF Publish
  <2>2. /\ \A m \in Artifact \ {n} : dir'[m] = dir[m]
        /\ dir'[n] = tmp[w] /\ dir'[n] # Absent
        /\ dir'[n].val = val[w] /\ dir'[n].synced
    <3>1. [val |-> val[w], synced |-> TRUE] \in Files
      BY <1>1 DEF Files
    <3>2. tmp[w] # Absent
      BY <1>1, <3>1, AbsentIsNoFile
    <3> QED
      BY <1>1, <2>1, <3>2
  <2>3. /\ \A m \in Artifact : dir[m] # Absent => dir'[m] = dir[m]
        /\ \A m \in Artifact : disk[m] # Absent => dir'[m] = disk[m]
    BY <1>3, <2>2 DEF DiskFollowsDir
  <2>4. LinkedFilesAreSound' /\ DiskFollowsDir'
    BY <1>1, <2>1, <2>2, <2>3 DEF LinkedFilesAreSound, DiskFollowsDir
  <2>5. ManifestFollowsPayload'
    BY <1>1, <1>3, <2>1, <2>2, <2>3 DEF ManifestFollowsPayload, PublisherSeesItsBytes
  <2>6. PublisherSeesItsBytes'
    BY <1>1, <1>3, <2>1, <2>2, <2>3 DEF PublisherSeesItsBytes
  <2>7. ReaderSeesTheRecord'
    BY <1>1, <2>1, <2>3 DEF ReaderSeesTheRecord
  <2>8. AnswersAreTrue'
    <3>1. \A v : Durable(v) => Durable(v)'
      BY <2>1 DEF Durable, Committed
    <3>2. dir["manifest"] # Absent => dir'["manifest"] = dir["manifest"]
      BY <2>3
    <3>3. \A x \in Writers : pc'[x] \in ReleasePcs => pc[x] = pc'[x]
      BY <1>1, <2>1
    <3> HIDE DEF Durable, Committed, ReleasePcs
    <3> QED
      BY <2>1, <3>1, <3>2, <3>3 DEF AnswersAreTrue
  <2> QED
    BY <2>4, <2>5, <2>6, <2>7, <2>8
<1> QED
  BY <1>2, <1>3

\* The second directory fsync: a published payload is durable before the manifest is
\* staged, and a published manifest before the write returns.
LEMMA UnstageRecordInv ==
    ASSUME TypeInv, RecordInv, NEW w \in Writers, Unstage(w)
    PROVE  RecordInv'
<1> USE DEF TypeInv, TypeOK, RecordInv, Artifact, MaterializePcs, ReleasePcs, opVars, history,
        Goto, Finish
<1>1. /\ part[w] \in Artifact /\ w \in Actors /\ pc[w] = "unstage"
      /\ dir[part[w]] # Absent /\ dir[part[w]].val = val[w]
  BY DEF Unstage, PublisherSeesItsBytes
<1>2. disk' = dir /\ UNCHANGED <<dir, val, got, acked, published, ackedHardened, seen,
                             rejected, losses>>
  BY DEF Unstage
<1>3. /\ \A x \in Writers \ {w} : pc'[x] = pc[x] /\ part'[x] = part[x] /\ res'[x] = res[x]
      /\ \A a \in Actors \ {w} : pc'[a] = pc[a]
      /\ \/ part[w] = "payload" /\ part'[w] = "manifest" /\ pc'[w] = "stage"
         \/ part[w] = "manifest" /\ res'[w] = "written" /\ pc'[w] = "rel_verify"
  BY <1>1 DEF Unstage
<1>4. \A v : Durable(v) => Durable(v)'
  BY <1>2 DEF Durable, Committed, DiskFollowsDir
<1>5. dir["manifest"] # Absent => Durable(dir["manifest"].val)'
  BY <1>2, AbsentIsNoFile DEF Durable, Committed, ManifestFollowsPayload, LinkedFilesAreSound
<1>6. LinkedFilesAreSound' /\ DiskFollowsDir' /\ ManifestFollowsPayload'
  BY <1>2 DEF LinkedFilesAreSound, DiskFollowsDir, ManifestFollowsPayload
<1>7. PublisherSeesItsBytes'
  BY <1>1, <1>2, <1>3 DEF PublisherSeesItsBytes
<1>8. ReaderSeesTheRecord'
  BY <1>2, <1>3 DEF ReaderSeesTheRecord
<1>9. AnswersAreTrue'
  BY <1>1, <1>2, <1>3, <1>4, <1>5 DEF AnswersAreTrue
<1> QED
  BY <1>6, <1>7, <1>8, <1>9

\* The fsync after a hardened release makes durable whatever record the call answered with.
LEMMA ReleaseSyncRecordInv ==
    ASSUME TypeInv, RecordInv, NEW w \in Writers, ReleaseSync(w)
    PROVE  RecordInv'
<1> USE DEF TypeInv, TypeOK, RecordInv, Artifact, MaterializePcs, ReleasePcs, opVars, Return
<1>1. /\ pc' = [pc EXCEPT ![w] = "idle"] /\ w \in Actors /\ pc[w] = "rel_sync"
      /\ UNCHANGED <<dir, got, seen, rejected, losses>>
      /\ \A x \in Writers \ {w} : val'[x] = val[x] /\ part'[x] = part[x] /\ res'[x] = res[x]
      /\ disk' = dir \/ disk' = disk
  <2>1. Goto(w, "idle") /\ w \in Actors /\ pc[w] = "rel_sync"
    BY DEF ReleaseSync
  <2>2. UNCHANGED <<dir, got, seen, rejected, losses>> /\ (disk' = dir \/ disk' = disk)
    BY DEF ReleaseSync
  <2>3. /\ val' = [val EXCEPT ![w] = Absent]
        /\ part' = [part EXCEPT ![w] = "payload"]
        /\ res' = [res EXCEPT ![w] = "none"]
    BY DEF ReleaseSync
  <2> QED
    BY <2>1, <2>2, <2>3 DEF Goto
<1>2. \A v : Durable(v) => Durable(v)'
  BY <1>1 DEF Durable, Committed, DiskFollowsDir
<1>3. /\ LinkedFilesAreSound' /\ DiskFollowsDir' /\ ManifestFollowsPayload'
      /\ ReaderSeesTheRecord'
  BY <1>1 DEF LinkedFilesAreSound, DiskFollowsDir, ManifestFollowsPayload, ReaderSeesTheRecord
<1>4. PublisherSeesItsBytes'
  BY <1>1 DEF PublisherSeesItsBytes
<1>5. CASE res[w] \in {"written", "existing"} /\ disk' = dir
  <2>1. dir["manifest"] # Absent /\ dir["manifest"].val = val[w]
    BY <1>1, <1>5 DEF AnswersAreTrue
  <2>2. \A v : v = val[w] => Durable(v)'
    BY <1>1, <1>5, <2>1, AbsentIsNoFile
    DEF Durable, Committed, ManifestFollowsPayload, LinkedFilesAreSound
  <2>3. /\ acked' \subseteq acked \cup {val[w]}
        /\ published' \subseteq published \cup {val[w]}
        /\ ackedHardened' \subseteq ackedHardened \cup {val[w]}
    BY DEF ReleaseSync
  <2> QED
    BY <1>1, <1>2, <1>3, <1>4, <2>1, <2>2, <2>3 DEF AnswersAreTrue
<1>6. CASE ~(res[w] \in {"written", "existing"} /\ disk' = dir)
  <2>1. UNCHANGED <<acked, published, ackedHardened>>
    BY <1>1, <1>6 DEF ReleaseSync
  <2> QED
    BY <1>1, <1>2, <1>3, <1>4, <2>1 DEF AnswersAreTrue
<1> QED
  BY <1>5, <1>6

LEMMA WriterRecordInv ==
    ASSUME TypeInv, RecordInv, NEW w \in Writers, WriterCall(w) \/ WriterCrash(w)
    PROVE  RecordInv'
<1> USE DEF TypeInv, TypeOK, StagedByCall, RecordInv, LinkedFilesAreSound, DiskFollowsDir,
        ManifestFollowsPayload, PublisherSeesItsBytes, ReaderSeesTheRecord, AnswersAreTrue,
        Artifact, MaterializePcs, ReleasePcs, Durable, Committed, storeVars, writerVars,
        opVars, history, Goto, Finish, Return
<1>1. CASE StartWrite(w)
  BY <1>1 DEF StartWrite
<1>2. CASE AcquireLock(w)
  BY <1>2 DEF AcquireLock
<1>3. CASE PresencePayload(w)
  BY <1>3 DEF PresencePayload
<1>4. CASE PresenceManifest(w)
  BY <1>4 DEF PresenceManifest
<1>5. CASE Stage(w)
  BY <1>5 DEF Stage
<1>6. CASE SyncFile(w)
  BY <1>6 DEF SyncFile
<1>7. CASE Publish(w)
  BY <1>7, PublishRecordInv
<1>8. CASE SyncDirectory(w)
  BY <1>8 DEF SyncDirectory
<1>9. CASE Unstage(w)
  BY <1>9, UnstageRecordInv
<1>10. CASE MaterializeFails(w)
  BY <1>10 DEF MaterializeFails
<1>11. CASE ReleaseVerify(w)
  BY <1>11 DEF ReleaseVerify
<1>12. CASE ReleaseUnlink(w)
  BY <1>12 DEF ReleaseUnlink
<1>13. CASE ReleaseSync(w)
  BY <1>13, ReleaseSyncRecordInv
<1>14. CASE WriterCrash(w)
  BY <1>14 DEF WriterCrash
<1> QED
  BY <1>1, <1>2, <1>3, <1>4, <1>5, <1>6, <1>7, <1>8, <1>9, <1>10, <1>11, <1>12, <1>13, <1>14 DEF WriterCall

LEMMA ReadRecordInv ==
    ASSUME TypeInv, RecordInv, NEW a \in Actors, ReadStep(a) \/ (a \in Readers /\ StartRead(a))
    PROVE  RecordInv'
<1> USE RolesAreDisjoint
    DEF TypeInv, TypeOK, StagedByCall, RecordInv, LinkedFilesAreSound, DiskFollowsDir,
        ManifestFollowsPayload, PublisherSeesItsBytes, ReaderSeesTheRecord, AnswersAreTrue,
        Artifact, MaterializePcs, ReleasePcs, Durable, Committed, storeVars, writerVars,
        opVars, history, Goto, Finish, ReadRaises, ReadReturns
<1>1. CASE a \in Readers /\ StartRead(a)
  BY <1>1 DEF StartRead
<1>2. CASE ReadPresence(a)
  BY <1>2 DEF ReadPresence
<1>3. CASE ReadManifest(a)
  BY <1>3 DEF ReadManifest
<1>4. CASE ReadPayload(a)
  \* The bytes that were read are the record's, so the rejecting branch is dead.
  <2>1. /\ dir["manifest"] # Absent /\ got[a] = dir["manifest"].val
        /\ dir["payload"] # Absent /\ dir["payload"].val = got[a] /\ got[a] # Torn
    BY <1>4, AbsentIsNoFile DEF ReadPayload
  <2> QED
    BY <1>4, <2>1 DEF ReadPayload
<1> QED
  BY <1>1, <1>2, <1>3, <1>4 DEF ReadStep

LEMMA OperatorRecordInv ==
    ASSUME TypeInv, RecordInv, NEW o \in Operators, QuarantineCall(o) \/ OperatorCrash(o)
    PROVE  RecordInv'
<1> USE DEF TypeInv, TypeOK, RecordInv, LinkedFilesAreSound, DiskFollowsDir,
        ManifestFollowsPayload, PublisherSeesItsBytes, ReaderSeesTheRecord, AnswersAreTrue,
        Artifact, MaterializePcs, ReleasePcs, Durable, Committed, storeVars, writerVars,
        history
<1>1. CASE Inspect(o) \/ ConfirmLock(o) \/ LinkLock(o) \/ CheckLock(o) \/ OperatorCrash(o)
  BY <1>1 DEF Inspect, ConfirmLock, LinkLock, CheckLock, OperatorCrash
<1>2. CASE UnlinkLock(o)
  BY <1>2 DEF UnlinkLock
<1>3. CASE SyncQuarantine(o)
  BY <1>3 DEF SyncQuarantine
<1> QED
  BY <1>1, <1>2, <1>3 DEF QuarantineCall

LEMMA FilesystemRecordInv ==
    ASSUME TypeInv, RecordInv, Writeback \/ PowerLoss
    PROVE  RecordInv'
<1> USE DEF TypeInv, TypeOK, RecordInv, LinkedFilesAreSound, DiskFollowsDir,
        ManifestFollowsPayload, PublisherSeesItsBytes, ReaderSeesTheRecord, AnswersAreTrue,
        Artifact, MaterializePcs, ReleasePcs, Durable, Committed, writerVars, opVars, history
<1>1. CASE Writeback
  BY <1>1 DEF Writeback
<1>2. CASE PowerLoss
  <2>1. \A n \in Names : disk'[n] = disk[n] /\ dir'[n] = disk[n]
    BY <1>2 DEF PowerLoss, AfterLoss
  <2>2. losses' # 0
    BY <1>2, BoundsAreNaturals DEF PowerLoss
  <2> QED
    BY <1>2, <2>1, <2>2 DEF PowerLoss
<1> QED
  BY <1>1, <1>2

LEMMA NextRecordInv == TypeInv /\ RecordInv /\ [Next]_vars => RecordInv'
<1> SUFFICES ASSUME TypeInv, RecordInv, [Next]_vars PROVE RecordInv'
  OBVIOUS
<1>1. CASE UNCHANGED vars
  BY <1>1 DEF vars, RecordInv, LinkedFilesAreSound, DiskFollowsDir, ManifestFollowsPayload,
     PublisherSeesItsBytes, ReaderSeesTheRecord, AnswersAreTrue, Durable, Committed
<1> QED
  BY <1>1, WriterRecordInv, ReadRecordInv, OperatorRecordInv, FilesystemRecordInv DEF Next

LEMMA Inductive == Spec => [](TypeInv /\ RecordInv)
  BY InitTypeInv, InitRecordInv, NextTypeInv, NextRecordInv, PTL DEF Spec

-----------------------------------------------------------------------------
(* The store's promises                                                    *)

\* A manifest, visible or durable, always has the complete payload it binds.
THEOREM ManifestIsCommitMarker == Spec => []ManifestImpliesRecord
<1>1. RecordInv => ManifestImpliesRecord
  BY AbsentIsNoFile DEF RecordInv, ManifestImpliesRecord, Committed, LinkedFilesAreSound,
     DiskFollowsDir, ManifestFollowsPayload, Artifact
<1> QED
  BY <1>1, Inductive, PTL

\* Lock-free reads never meet an integrity error unless somebody tampers.
THEOREM ReadsSucceed == Spec => []ReadsAreNeverRejected
<1>1. RecordInv => ReadsAreNeverRejected
  BY DEF RecordInv, ReaderSeesTheRecord, ReadsAreNeverRejected
<1> QED
  BY <1>1, Inductive, PTL

\* All writes that returned and all reads agree, however often a lock was quarantined.
THEOREM Agreement == Spec => []AnswersAgree
<1>1. RecordInv => AnswersAgree
  BY DEF RecordInv, AnswersAreTrue, AnswersAgree
<1> QED
  BY <1>1, Inductive, PTL

\* A write that published its record and returned survives any power loss.
THEOREM PublishedSurvives == Spec => []PublishedIsDurable
<1>1. RecordInv => PublishedIsDurable
  BY DEF RecordInv, AnswersAreTrue, PublishedIsDurable
<1> QED
  BY <1>1, Inductive, PTL

\* A hardened write that returned survives any power loss, whoever published the record.
THEOREM HardenedAckSurvives == Spec => []HardenedAckIsDurable
<1>1. RecordInv => HardenedAckIsDurable
  BY DEF RecordInv, AnswersAreTrue, HardenedAckIsDurable
<1> QED
  BY <1>1, Inductive, PTL

\* Between power losses a linked artifact stays as it is: the only action that writes an
\* artifact's entry is the link, and it needs the entry to be absent.
LEMMA ArtifactsStay ==
    ASSUME TypeInv, [Next]_vars, losses' = losses
    PROVE  \A n \in {"payload", "manifest"} : dir[n] # Absent => dir'[n] = dir[n]
<1> USE DEF TypeInv, TypeOK, storeVars
<1>1. CASE \E w \in Writers : WriterCall(w) \/ WriterCrash(w)
  <2> PICK w \in Writers : WriterCall(w) \/ WriterCrash(w)
    BY <1>1
  <2>1. CASE Publish(w)
    BY <2>1 DEF Publish
  <2>2. CASE AcquireLock(w) \/ ReleaseUnlink(w)
    BY <2>2 DEF AcquireLock, ReleaseUnlink
  <2>3. CASE ~(Publish(w) \/ AcquireLock(w) \/ ReleaseUnlink(w))
    BY <2>3 DEF WriterCall, WriterCrash, StartWrite, PresencePayload, PresenceManifest, Stage,
       SyncFile, SyncDirectory, Unstage, MaterializeFails, ReleaseVerify, ReleaseSync
  <2> QED
    BY <2>1, <2>2, <2>3
<1>2. CASE \E a \in Actors : ReadStep(a) \/ StartRead(a)
  BY <1>2 DEF ReadStep, StartRead, ReadPresence, ReadManifest, ReadPayload
<1>3. CASE \E o \in Operators : QuarantineCall(o) \/ OperatorCrash(o)
  BY <1>3 DEF QuarantineCall, OperatorCrash, Inspect, ConfirmLock, LinkLock, CheckLock,
     UnlinkLock, SyncQuarantine
<1>4. CASE Writeback \/ PowerLoss
  BY <1>4 DEF Writeback, PowerLoss
<1>5. CASE UNCHANGED vars
  BY <1>5 DEF vars
<1> QED
  BY <1>1, <1>2, <1>3, <1>4, <1>5 DEF Next

\* No process ever replaces or removes a published artifact.
THEOREM NoClobber == Spec => NothingIsClobbered
<1>1. TypeInv /\ [Next]_vars =>
        [losses' = losses =>
           \A n \in {"payload", "manifest"} : dir[n] # Absent => dir'[n] = dir[n]]_vars
  BY ArtifactsStay
<1> QED
  BY <1>1, Inductive, PTL DEF Spec, NothingIsClobbered

-----------------------------------------------------------------------------
(* The store implements the write-once register                            *)

LEMMA RegisterInit == Init => Register!Init
  BY DEF Init, Empty, Record, Register!Init

\* A writer links the manifest (Commit) or reports its own record (Acknowledge).
LEMMA WriterRefines ==
    ASSUME TypeInv, RecordInv, NEW w \in Writers, WriterCall(w) \/ WriterCrash(w)
    PROVE  [Register!Next]_(Register!vars)
<1> USE DEF TypeInv, TypeOK, Register!vars
<1>1. CASE Publish(w)
  <2>1. /\ pc[w] = "link" /\ val[w] \in Values /\ part[w] \in {"payload", "manifest"}
        /\ tmp[w] = [val |-> val[w], synced |-> TRUE]
    BY <1>1 DEF Publish, StagedByCall
  <2>2. [val |-> val[w], synced |-> TRUE] \in Files
    BY <2>1 DEF Files
  <2>3. tmp[w] # Absent
    BY <2>1, <2>2, AbsentIsNoFile
  <2>4. published' = published
    BY <1>1 DEF Publish, history
  <2>5. CASE part[w] = "manifest" /\ dir["manifest"] = Absent
    <3>1. Record = Absent /\ Record' = val[w]
      BY <1>1, <2>1, <2>3, <2>5 DEF Publish, Record
    <3> QED
      BY <2>1, <2>4, <3>1 DEF Register!Next, Register!Commit
  <2>6. CASE part[w] = "payload" \/ dir["manifest"] # Absent
    <3>1. dir'["manifest"] = dir["manifest"]
      BY <1>1, <2>1, <2>6 DEF Publish
    <3> QED
      BY <2>4, <3>1 DEF Record
  <2> QED
    BY <2>1, <2>5, <2>6
<1>2. CASE ReleaseVerify(w) \/ ReleaseUnlink(w) \/ ReleaseSync(w)
  <2>1. dir'["manifest"] = dir["manifest"]
    BY <1>2 DEF ReleaseVerify, ReleaseUnlink, ReleaseSync, storeVars
  <2>2. Record' = Record
    BY <2>1 DEF Record
  <2>3. \/ published' = published
        \/ published' = published \cup {val[w]} /\ pc[w] \in ReleasePcs /\ res[w] = "written"
    BY <1>2 DEF ReleaseVerify, ReleaseUnlink, ReleaseSync, Return, ReleasePcs
  <2>4. pc[w] \in ReleasePcs /\ res[w] = "written" =>
            dir["manifest"] # Absent /\ Record = val[w] /\ val[w] \in Values
    BY DEF RecordInv, AnswersAreTrue, Record, StagedByCall, ReleasePcs
  <2> QED
    BY <2>2, <2>3, <2>4, AbsentIsNoFile DEF Register!Next, Register!Acknowledge
<1>3. CASE ~(Publish(w) \/ ReleaseVerify(w) \/ ReleaseUnlink(w) \/ ReleaseSync(w))
  <2>1. dir'["manifest"] = dir["manifest"] /\ published' = published
    BY <1>3 DEF WriterCall, WriterCrash, StartWrite, AcquireLock, PresencePayload,
       PresenceManifest, Stage, SyncFile, SyncDirectory, Unstage, MaterializeFails, storeVars,
       history
  <2> QED
    BY <2>1 DEF Record
<1> QED
  BY <1>1, <1>2, <1>3

\* Everything else leaves the record alone, except a power loss before it was promised.
LEMMA OthersRefine ==
    ASSUME TypeInv, RecordInv, [Next]_vars,
           ~ \E w \in Writers : WriterCall(w) \/ WriterCrash(w)
    PROVE  [Register!Next]_(Register!vars)
<1> USE DEF TypeInv, TypeOK, Register!vars
<1>1. CASE PowerLoss
  <2>1. published' = published
    BY <1>1 DEF PowerLoss, history
  <2>2. dir'["manifest"] = disk["manifest"]
    BY <1>1 DEF PowerLoss, AfterLoss, RecordInv, DiskFollowsDir, LinkedFilesAreSound, Artifact
  <2>3. CASE disk["manifest"] # Absent
    BY <2>1, <2>2, <2>3 DEF RecordInv, DiskFollowsDir, Artifact, Record
  <2>4. CASE disk["manifest"] = Absent
    <3>1. published = {}
      BY <2>4 DEF RecordInv, AnswersAreTrue, Durable
    <3> QED
      BY <2>1, <2>2, <2>4, <3>1 DEF Record, Register!Next, Register!Lose
  <2> QED
    BY <2>3, <2>4
<1>2. CASE ~PowerLoss
  <2>1. dir'["manifest"] = dir["manifest"] /\ published' = published
    <3>1. CASE \E a \in Actors : ReadStep(a) \/ StartRead(a)
      BY <3>1 DEF ReadStep, StartRead, ReadPresence, ReadManifest, ReadPayload, storeVars,
         history
    <3>2. CASE \E o \in Operators : QuarantineCall(o) \/ OperatorCrash(o)
      BY <3>2 DEF QuarantineCall, OperatorCrash, Inspect, ConfirmLock, LinkLock, CheckLock,
         UnlinkLock, SyncQuarantine, storeVars, history
    <3>3. CASE Writeback \/ UNCHANGED vars
      BY <3>3 DEF Writeback, vars, history
    <3> QED
      BY <1>2, <3>1, <3>2, <3>3 DEF Next
  <2> QED
    BY <2>1 DEF Record
<1> QED
  BY <1>1, <1>2

\* Every behaviour of the store is a behaviour of a write-once register that never loses
\* an acknowledged record.
THEOREM Refinement == Spec => ImplementsRegister
<1>1. TypeInv /\ RecordInv /\ [Next]_vars => [Register!Next]_(Register!vars)
  BY WriterRefines, OthersRefine
<1> QED
  BY <1>1, RegisterInit, Inductive, PTL DEF Spec, ImplementsRegister, Register!Spec

-----------------------------------------------------------------------------
(* The record lock, when operators only confirm locks of dead writers.     *)

\* Who holds the lock holds the lock file that the path names.
OwnersHoldTheirLock ==
    \A w \in Writers : HoldsLock(w) => held[w] # Absent /\ dir["lock"] = held[w]

\* Every lock file anybody knows was created before now, so that the next one is new.
LocksAreDated ==
    /\ dir["lock"] # Absent => dir["lock"].mtime <= locks
    /\ disk["lock"] # Absent => disk["lock"].mtime <= locks
    /\ \A w \in Writers : held[w] # Absent => held[w].mtime <= locks
    /\ \A o \in Operators : opPc[o] # "idle" => obs[o].mtime <= locks

OwnersDiffer == \A w, x \in Writers : held[w] # Absent /\ held[w] = held[x] => w = x

Audited(file) == \E q \in quarantine : q.name = file
Removing(o) == opPc[o] \in {"linked", "checked"}

\* An observed lock stays that of a dead writer.  A confirmed one is still the active lock, or
\* some operator has linked its audit name; and one operator at most is about to remove it.
ReviewIsCurrent ==
    /\ \A o \in Operators : opPc[o] # "idle" => ~HasLiveWriter(obs[o])
    /\ \A o \in Operators : opPc[o] = "confirmed" => dir["lock"] = obs[o] \/ Audited(obs[o])
    /\ \A o \in Operators : Removing(o) => dir["lock"] = obs[o] /\ Audited(obs[o])
    /\ \A o, p \in Operators : Removing(o) /\ Removing(p) => o = p

LockInv == OwnersHoldTheirLock /\ LocksAreDated /\ OwnersDiffer /\ ReviewIsCurrent

LEMMA InitLockInv == Init => LockInv
BY DEF Init, LockInv, OwnersHoldTheirLock, LocksAreDated, OwnersDiffer, ReviewIsCurrent, HoldsLock,
       InCriticalSection, Removing, Empty

\* Steps that take and remove no lock, and leave operators alone.
Quiet ==
    /\ dir'["lock"] = dir["lock"] /\ disk'["lock"] \in {disk["lock"], dir["lock"]}
    /\ UNCHANGED <<quarantine, opPc, obs, locks>>
    /\ \A w \in Writers : held'[w] \in {held[w], Absent}
    /\ \A w \in Writers : HoldsLock(w)' => HoldsLock(w) /\ held'[w] = held[w]

LEMMA QuietLockInv ==
    ASSUME TypeInv, LockInv, Quiet
    PROVE  LockInv'
<1> USE DEF LockInv, Quiet
<1>1. OwnersHoldTheirLock' /\ OwnersDiffer'
  BY DEF OwnersHoldTheirLock, OwnersDiffer
<1>2. LocksAreDated'
  BY DEF LocksAreDated
<1>3. \A o \in Operators : opPc[o] # "idle" => obs[o] # Absent
  BY AbsentIsNoFile DEF TypeInv, ObservedByOperator
<1>4. ReviewIsCurrent'
  BY <1>3 DEF ReviewIsCurrent, HasLiveWriter, Audited, Removing
<1> QED
  BY <1>1, <1>2, <1>4

\* A new lock file is one nobody has seen, and it is taken when nobody holds the lock.
LEMMA AcquireLockInv ==
    ASSUME TypeInv, LockInv, NEW w \in Writers, AcquireLock(w)
    PROVE  LockInv'
<1> USE DEF TypeInv, TypeOK, LockInv
<1>1. CASE dir["lock"] # Absent
  <2>1. Quiet
    BY <1>1 DEF AcquireLock, Goto, Quiet, HoldsLock, InCriticalSection, storeVars, opVars
  <2> QED
    BY <2>1, QuietLockInv
<1>2. CASE dir["lock"] = Absent
  <2>1. PICK i \in Inodes :
          /\ dir' = [dir EXCEPT !["lock"] = [ino |-> i, mtime |-> locks + 1]]
          /\ held' = [held EXCEPT ![w] = [ino |-> i, mtime |-> locks + 1]]
    BY <1>2 DEF AcquireLock
  <2> DEFINE file == [ino |-> i, mtime |-> locks + 1]
  <2>2. /\ locks < MaxLocks /\ locks' = locks + 1 /\ locks \in Nat
        /\ pc' = [pc EXCEPT ![w] = "payload_exists"]
        /\ UNCHANGED <<disk, quarantine, opPc, obs>>
    BY <1>2, BoundsAreNaturals DEF AcquireLock, Goto, opVars
  <2>3. file \in LockFiles /\ file # Absent /\ file.mtime = locks + 1
    BY <2>2, BoundsAreNaturals, AbsentIsNoFile DEF LockFiles
  <2> HIDE DEF file
  <2>4. /\ dir'["lock"] = file /\ held'[w] = file
        /\ \A x \in Writers \ {w} : held'[x] = held[x] /\ pc'[x] = pc[x]
    BY <2>1, <2>2 DEF file
  <2>5. \A x \in Writers : ~HoldsLock(x)
    BY <1>2 DEF OwnersHoldTheirLock
  <2>6. \A f \in LockFiles : f.mtime \in Nat /\ (f.mtime <= locks => f # file)
    BY <2>2, <2>3, BoundsAreNaturals DEF LockFiles
  <2>7. \A x \in Writers : held[x] # Absent => held[x] \in LockFiles /\ held[x].mtime <= locks
    BY DEF LocksAreDated, LockEntries
  <2>8. \A o \in Operators : opPc[o] # "idle" => obs[o] \in LockFiles /\ obs[o].mtime <= locks
    BY DEF LocksAreDated, ObservedByOperator
  <2>9. OwnersHoldTheirLock' /\ OwnersDiffer'
    <3>1. \A x \in Writers : HoldsLock(x)' => x = w
      BY <2>4, <2>5 DEF HoldsLock, InCriticalSection
    <3>2. \A x \in Writers \ {w} : held'[x] # file
      BY <2>3, <2>4, <2>6, <2>7
    <3> QED
      BY <2>3, <2>4, <3>1, <3>2 DEF OwnersHoldTheirLock, OwnersDiffer
  <2>10. LocksAreDated'
    <3>1. disk["lock"] # Absent => disk["lock"].mtime \in Nat
      BY <2>6 DEF LockEntries
    <3> QED
      BY <2>2, <2>3, <2>4, <2>6, <2>7, <2>8, <3>1 DEF LocksAreDated
  <2>11. ReviewIsCurrent'
    <3>1. \A o \in Operators : opPc[o] # "idle" => obs[o] # file /\ obs[o] # Absent
      BY <2>6, <2>8, AbsentIsNoFile
    <3>2. \A o \in Operators : ~Removing(o)
      BY <1>2, <3>1 DEF ReviewIsCurrent, Removing
    <3>3. \A o \in Operators : opPc[o] # "idle" => ~HasLiveWriter(obs[o])'
      BY <2>2, <2>4, <3>1 DEF ReviewIsCurrent, HasLiveWriter
    <3>4. \A o \in Operators : opPc[o] = "confirmed" => Audited(obs[o])'
      BY <1>2, <2>2, <3>1 DEF ReviewIsCurrent, Audited
    <3> QED
      BY <2>2, <3>2, <3>3, <3>4 DEF ReviewIsCurrent, Removing
  <2> QED
    BY <2>9, <2>10, <2>11
<1> QED
  BY <1>1, <1>2

\* The owner removes its own lock file, which no operator is about to remove.
LEMMA ReleaseUnlinkLockInv ==
    ASSUME TypeInv, LockInv, NEW w \in Writers, ReleaseUnlink(w)
    PROVE  LockInv'
<1> USE DEF TypeInv, TypeOK, LockInv
<1>1. HoldsLock(w) /\ pc[w] = "rel_unlink"
  BY DEF ReleaseUnlink, HoldsLock, InCriticalSection
<1>2. dir["lock"] = held[w] /\ held[w] # Absent
  BY <1>1 DEF OwnersHoldTheirLock
<1>3. /\ dir' = [dir EXCEPT !["lock"] = Absent] /\ UNCHANGED <<disk, quarantine, opPc, obs, locks>>
      /\ held' \in [Writers -> LockEntries]
      /\ \A x \in Writers : held'[x] \in {held[x], Absent}
      /\ \A x \in Writers \ {w} : held'[x] = held[x] /\ pc'[x] = pc[x]
      /\ pc'[w] \in {"rel_sync", "idle"}
  BY <1>2 DEF ReleaseUnlink, Return, Goto, opVars, LockEntries
<1>4. \A x \in Writers : ~HoldsLock(x)'
  <2>1. \A x \in Writers \ {w} : ~HoldsLock(x)
    BY <1>2 DEF OwnersHoldTheirLock, OwnersDiffer
  <2> QED
    BY <1>3, <2>1 DEF HoldsLock, InCriticalSection
<1>5. OwnersHoldTheirLock' /\ OwnersDiffer'
  BY <1>3, <1>4 DEF OwnersHoldTheirLock, OwnersDiffer
<1>6. LocksAreDated'
  BY <1>3 DEF LocksAreDated
<1>7. ReviewIsCurrent'
  <2>1. HasLiveWriter(dir["lock"])
    BY <1>2 DEF HasLiveWriter
  <2>2. \A o \in Operators : opPc[o] # "idle" => dir["lock"] # obs[o] /\ obs[o] # Absent
    BY <2>1, AbsentIsNoFile DEF ReviewIsCurrent, ObservedByOperator
  <2>3. \A o \in Operators : opPc[o] # "idle" => ~HasLiveWriter(obs[o])'
    BY <1>3, <2>2 DEF ReviewIsCurrent, HasLiveWriter
  <2> QED
    BY <1>3, <2>2, <2>3 DEF ReviewIsCurrent, Removing, Audited
<1> QED
  BY <1>5, <1>6, <1>7

LEMMA WriterLockInv ==
    ASSUME TypeInv, LockInv, NEW w \in Writers, WriterCall(w) \/ WriterCrash(w)
    PROVE  LockInv'
<1>1. CASE AcquireLock(w)
  BY <1>1, AcquireLockInv
<1>2. CASE ReleaseUnlink(w)
  BY <1>2, ReleaseUnlinkLockInv
<1>3. CASE StartWrite(w) \/ WriterCrash(w) \/ ReleaseVerify(w) \/ ReleaseSync(w)
  <2>1. Quiet
    BY <1>3 DEF StartWrite, WriterCrash, ReleaseVerify, ReleaseSync, Return, Goto, Quiet, HoldsLock,
                InCriticalSection, TypeInv, TypeOK, storeVars, opVars
  <2> QED
    BY <2>1, QuietLockInv
<1>4. CASE PresencePayload(w) \/ PresenceManifest(w) \/ Stage(w) \/ SyncFile(w) \/ MaterializeFails(w)
  <2>1. Quiet
    BY <1>4 DEF PresencePayload, PresenceManifest, Stage, SyncFile, MaterializeFails, Finish, Goto,
                Quiet, HoldsLock, InCriticalSection, TypeInv, TypeOK, storeVars, opVars, writerVars,
                MaterializePcs
  <2> QED
    BY <2>1, QuietLockInv
<1>5. CASE Publish(w) \/ SyncDirectory(w) \/ Unstage(w)
  <2>1. Quiet
    BY <1>5 DEF Publish, SyncDirectory, Unstage, Finish, Goto, Quiet, HoldsLock, InCriticalSection,
                TypeInv, TypeOK, opVars, writerVars
  <2> QED
    BY <2>1, QuietLockInv
<1> QED
  BY <1>1, <1>2, <1>3, <1>4, <1>5 DEF WriterCall

LEMMA ReadLockInv ==
    ASSUME TypeInv, LockInv, NEW a \in Actors, ReadStep(a) \/ (a \in Readers /\ StartRead(a))
    PROVE  LockInv'
<1>1. CASE a \in Readers /\ StartRead(a)
  <2>1. Quiet
    BY <1>1, RolesAreDisjoint
       DEF StartRead, Goto, Quiet, HoldsLock, InCriticalSection, TypeInv, TypeOK, storeVars, opVars,
           writerVars
  <2> QED
    BY <2>1, QuietLockInv
<1>2. CASE ReadStep(a)
  <2>1. Quiet
    BY <1>2
       DEF ReadStep, ReadPresence, ReadManifest, ReadPayload, ReadReturns, ReadRaises, Finish, Goto,
           Quiet, HoldsLock, InCriticalSection, TypeInv, TypeOK, storeVars, opVars
  <2> QED
    BY <2>1, QuietLockInv
<1> QED
  BY <1>1, <1>2

\* Operators confirm locks of dead writers: between its check and its unlink nobody else can
\* change the lock that an operator removes.
LEMMA OperatorLockInv ==
    ASSUME ~LiveReview, TypeInv, LockInv, NEW o \in Operators,
           QuarantineCall(o) \/ OperatorCrash(o)
    PROVE  LockInv'
<1> USE DEF TypeInv, TypeOK, LockInv, OpGoto, writerVars, storeVars
<1>1. /\ UNCHANGED <<pc, held, locks>>
      /\ \A p \in Operators \ {o} : opPc'[p] = opPc[p] /\ obs'[p] = obs[p]
      /\ \A w \in Writers : HoldsLock(w)' = HoldsLock(w)
  BY DEF QuarantineCall, OperatorCrash, Inspect, ConfirmLock, LinkLock, CheckLock, UnlinkLock,
         SyncQuarantine, HoldsLock, InCriticalSection
<1>2. OwnersDiffer' /\ \A f : HasLiveWriter(f)' = HasLiveWriter(f)
  BY <1>1 DEF OwnersDiffer, HasLiveWriter
<1>3. CASE Inspect(o)
  <2>1. /\ UNCHANGED <<dir, disk, quarantine>> /\ dir["lock"] # Absent
        /\ ~HasLiveWriter(dir["lock"]) /\ obs'[o] = dir["lock"] /\ opPc'[o] = "observed"
    BY <1>3 DEF Inspect
  <2>2. OwnersHoldTheirLock' /\ LocksAreDated'
    BY <1>1, <2>1 DEF OwnersHoldTheirLock, LocksAreDated
  <2>3. ReviewIsCurrent'
    BY <1>1, <1>2, <2>1 DEF ReviewIsCurrent, Audited, Removing
  <2> QED
    BY <1>2, <2>2, <2>3
<1>4. CASE ConfirmLock(o) \/ CheckLock(o) \/ SyncQuarantine(o) \/ OperatorCrash(o)
  <2>1. /\ dir' = dir /\ disk' \in {disk, dir} /\ UNCHANGED <<quarantine, obs>>
        /\ \/ opPc[o] = "observed" /\ opPc'[o] = "confirmed" /\ dir["lock"] = obs[o]
           \/ opPc[o] = "linked" /\ opPc'[o] = "checked"
           \/ opPc'[o] = "idle"
    BY <1>4 DEF ConfirmLock, CheckLock, SyncQuarantine, OperatorCrash, opVars
  <2>2. OwnersHoldTheirLock' /\ LocksAreDated'
    BY <1>1, <2>1 DEF OwnersHoldTheirLock, LocksAreDated
  <2>3. ReviewIsCurrent'
    BY <1>1, <1>2, <2>1 DEF ReviewIsCurrent, Audited, Removing
  <2> QED
    BY <1>2, <2>2, <2>3
<1>5. CASE LinkLock(o)
  <2>1. /\ opPc[o] = "confirmed" /\ UNCHANGED <<dir, disk, obs>>
        /\ \/ opPc'[o] = "idle" /\ UNCHANGED quarantine
           \/ /\ opPc'[o] = "linked" /\ ~Audited(obs[o])
              /\ quarantine' = quarantine \cup {[name |-> obs[o], file |-> dir["lock"]]}
    BY <1>5 DEF LinkLock, Audited
  <2>2. OwnersHoldTheirLock' /\ LocksAreDated'
    BY <1>1, <2>1 DEF OwnersHoldTheirLock, LocksAreDated
  <2>3. \A f : Audited(f) => Audited(f)'
    BY <2>1 DEF Audited
  <2>4. opPc'[o] = "linked" => dir["lock"] = obs[o] /\ Audited(obs[o])'
    <3>1. dir["lock"] = obs[o] \/ Audited(obs[o])
      BY <2>1 DEF ReviewIsCurrent
    <3>2. [name |-> obs[o], file |-> dir["lock"]].name = obs'[o]
      BY <2>1
    <3> QED
      BY <2>1, <3>1, <3>2 DEF Audited
  <2>5. opPc'[o] = "linked" => \A p \in Operators : ~Removing(p)
    BY <2>1, <2>4 DEF ReviewIsCurrent
  <2>6. ReviewIsCurrent'
    BY <1>1, <1>2, <2>1, <2>3, <2>4, <2>5 DEF ReviewIsCurrent, Removing
  <2> QED
    BY <1>2, <2>2, <2>6
<1>6. CASE UnlinkLock(o)
  <2>1. /\ opPc[o] = "checked" /\ dir' = [dir EXCEPT !["lock"] = Absent]
        /\ opPc'[o] \in {"idle", "unlinked"} /\ UNCHANGED <<disk, quarantine, obs>>
    BY <1>6 DEF UnlinkLock
  <2>2. dir["lock"] = obs[o] /\ ~HasLiveWriter(obs[o]) /\ Audited(obs[o])
    BY <2>1 DEF ReviewIsCurrent, Removing
  <2>3. \A w \in Writers : ~HoldsLock(w)
    BY <2>2 DEF OwnersHoldTheirLock, HasLiveWriter
  <2>4. OwnersHoldTheirLock' /\ LocksAreDated'
    BY <1>1, <2>1, <2>3 DEF OwnersHoldTheirLock, LocksAreDated
  <2>5. \A p \in Operators \ {o} : ~Removing(p)
    BY <2>1 DEF ReviewIsCurrent, Removing
  <2>6. \A p \in Operators : opPc[p] = "confirmed" => Audited(obs[p])
    BY <2>2 DEF ReviewIsCurrent
  <2>7. ReviewIsCurrent'
    BY <1>1, <1>2, <2>1, <2>5, <2>6 DEF ReviewIsCurrent, Removing, Audited
  <2> QED
    BY <1>2, <2>4, <2>7
<1> QED
  BY <1>3, <1>4, <1>5, <1>6 DEF QuarantineCall

LEMMA FilesystemLockInv ==
    ASSUME TypeInv, LockInv, Writeback \/ PowerLoss
    PROVE  LockInv'
<1> USE DEF TypeInv, TypeOK, LockInv
<1>1. CASE Writeback
  <2>1. Quiet
    BY <1>1 DEF Writeback, Quiet, HoldsLock, InCriticalSection, writerVars, opVars
  <2> QED
    BY <2>1, QuietLockInv
<1>2. CASE PowerLoss
  BY <1>2 DEF PowerLoss, OwnersHoldTheirLock, LocksAreDated, OwnersDiffer, ReviewIsCurrent,
              HoldsLock, InCriticalSection, Removing
<1> QED
  BY <1>1, <1>2

LEMMA NextLockInv ==
    ASSUME ~LiveReview, TypeInv, LockInv, [Next]_vars
    PROVE  LockInv'
<1>1. CASE UNCHANGED vars
  <2>1. Quiet
    BY <1>1 DEF vars, Quiet, HoldsLock, InCriticalSection
  <2> QED
    BY <2>1, QuietLockInv
<1> QED
  BY <1>1, WriterLockInv, ReadLockInv, OperatorLockInv, FilesystemLockInv DEF Next

LEMMA LocksAreKept ==
    ASSUME ~LiveReview
    PROVE  Spec => [](TypeInv /\ LockInv)
<1>1. TypeInv /\ LockInv /\ [Next]_vars => (TypeInv /\ LockInv)'
  BY NextTypeInv, NextLockInv
<1> QED
  BY <1>1, InitTypeInv, InitLockInv, PTL DEF Spec

\* If operators only confirm locks whose writer is gone, at most one writer holds the lock,
\* through crashes, power losses that bring locks back, inodes that are used again, and any
\* number of operators that quarantine the same lock.
THEOREM Exclusion ==
    ASSUME ~LiveReview
    PROVE  Spec => []MutualExclusion
<1>1. TypeInv /\ LockInv => MutualExclusion
  BY DEF LockInv, OwnersHoldTheirLock, OwnersDiffer, MutualExclusion
<1> QED
  BY <1>1, LocksAreKept, PTL

\* And quarantine removes the lock that its operator observed, and no replacement.
THEOREM ReplacementsAreSpared ==
    ASSUME ~LiveReview
    PROVE  Spec => QuarantineSparesReplacement
<1>1. TypeInv /\ LockInv /\ [Next]_vars =>
        [\A o \in Operators : UnlinkLock(o) /\ dir["lock"] # Absent => dir["lock"] = obs[o]]_vars
  BY DEF LockInv, ReviewIsCurrent, UnlinkLock, Removing
<1> QED
  BY <1>1, LocksAreKept, PTL DEF Spec, QuarantineSparesReplacement

=============================================================================
